SPECIFICATION Spec
CONSTANTS
    d1 = d1
    p1 = p1
    a1 = a1
    a2 = a2
    u1 = u1
    u2 = u2
    None = None
    Pool = {p1}
    Dram = {d1}
    ArmBufs <- MCArmBufs
    Apps <- MCApps
    TxCap = 2
    RxCap = 1
    Flow = 0
    ProxyCap = 2
    AtCap = 1
    Cmds = 1
    Burst = 1
INVARIANTS OnePlace AnswerMatches ReaderWaitsInFlood
