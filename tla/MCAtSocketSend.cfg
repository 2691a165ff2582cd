SPECIFICATION FairSpec
CONSTANTS
    c1 = c1
    c2 = c2
    r1 = r1
    r2 = r2
    NoCtx = NoCtx
    NoThread = NoThread
    Ctxs <- MCCtxs
    Receivers = {r1}
    SockNum = 2
    FdNum = 2
    Seqs = {1}
    MaxSn = 1
    MaxData = 0
    Types = {"tcp", "udp"}
    Env = {"one_open", "resume_first", "one_send", "slow_net", "calm_net", "host_is_ip"}
INVARIANTS SendingTracked
PROPERTIES OnlyOnRequest Removed
