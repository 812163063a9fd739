SPECIFICATION FairSpec
CONSTANTS
    c1 = c1
    d1 = d1
    r1 = r1
    Quiesced = Quiesced
    None = None
    Effect <- MCEffect
    Call = {c1, d1}
    Disconnecting = {d1}
    Reload = {r1}
    MaxSource = 1
CHECK_DEADLOCK FALSE
INVARIANTS WaitersServed RetrySafe
PROPERTIES CyclesAreOrderly RestartsEnd
