SPECIFICATION FairSpec
CONSTANTS
    d1 = d1
    p1 = p1
    a1 = a1
    a2 = a2
    u1 = u1
    u2 = u2
    None = None
    Pool = {p1}
    Dram = {d1}
    ArmBufs <- MCArmBufs
    Apps = {u1}
    TxCap = 1
    RxCap = 1
    Flow = 0
    ProxyCap = 3
    AtCap = 2
    Cmds = 0
    Burst = 1
PROPERTIES Freed
