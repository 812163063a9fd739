SPECIFICATION FairSpec
CONSTANTS
    m1 = m1
    r1 = r1
    d1 = d1
    Mutation = {m1}
    Save = {m1}
    Read = {r1}
    Disconnect = {d1}
    QueueLimit = 2
    Worker = Worker
    Probe = Probe
    Stop = Stop
    None = None
CHECK_DEADLOCK FALSE
INVARIANTS LaneAccounted OutcomesTold
PROPERTIES ReadbackLiftsGate CallsEndInSession
