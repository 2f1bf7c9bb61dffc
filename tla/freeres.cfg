\* clnt_vc_freeres concurrent with a call on the same handle.
CONSTANTS
    t1 = t1
    t2 = t2
    h1 = h1
    h2 = h2
    h3 = h3
    f1 = f1
    f2 = f2
    NoThread = NoThread
    NoXid = NoXid
    Threads = {t1, t2}
    Handles = {h1}
    Fds = {f1}
    FdOf <- OneFdOf
    Duplex = {}
    Script <- FreeResScript
    CallTimeouts <- LifeCallTimeouts
    SetTimeouts <- CoreSetTimeouts
    SetXids <- LifeSetXids
    UninitSecs = {0}
    RaddrPtr = 4096
    Pid = 0
    Sec = 0
    MaxUsec = 0
    ReplyStats = {"SUCCESS"}
    PeerXids <- CorePeerXids
    MaxPeerCalls = 0
    MaxGarbage = 0
    LittleEndian = TRUE
SPECIFICATION Spec
INVARIANT XdrStreamExclusive
