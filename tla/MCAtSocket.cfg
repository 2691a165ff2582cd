SPECIFICATION Spec
CONSTANTS
    c1 = c1
    c2 = c2
    r1 = r1
    r2 = r2
    NoCtx = NoCtx
    NoThread = NoThread
    Ctxs <- MCCtxs
    Receivers <- MCReceivers
    SockNum = 2
    FdNum = 2
    Seqs = {1}
    MaxSn = 0
    MaxData = 1
    Types = {"udp"}
    Env = {"one_open", "resume_first", "host_is_ip"}
INVARIANTS TypeOK FdsOwned OneReceiver NoAssertFails
PROPERTIES DeafOnlyByRace
