SPECIFICATION FairSpec
CONSTANTS
    c1 = c1
    c2 = c2
    dA = dA
    dB = dB
    oB = oB
    window = window
    None = None
    MaxFaults = 1
    Client = {c1, c2}
    Doc = {dA, dB}
    Home = dA
    Wants <- MCWants
    Object = {oB, window}
    Target <- MCTarget
INVARIANTS ActivationCoherent TabsRespected
PROPERTIES AllEnds
