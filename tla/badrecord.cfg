\* A peer that writes a record with a zero fragment header while a call
\* waits for its reply.
CONSTANTS
    t1 = t1
    t2 = t2
    h1 = h1
    h2 = h2
    h3 = h3
    f1 = f1
    f2 = f2
    NoThread = NoThread
    NoXid = NoXid
    Threads = {t1}
    Handles = {h1}
    Fds = {f1}
    FdOf <- LifeFdOf
    Duplex = {}
    Script <- LifeScript
    CallTimeouts <- LifeCallTimeouts
    SetTimeouts <- CoreSetTimeouts
    SetXids <- LifeSetXids
    UninitSecs = {0}
    RaddrPtr = 4096
    Pid = 0
    Sec = 0
    MaxUsec = 0
    ReplyStats = {"SUCCESS", "PROG_UNAVAIL"}
    PeerXids <- CorePeerXids
    MaxPeerCalls = 1
    MaxGarbage = 1
    LittleEndian = FALSE
SPECIFICATION Spec
PROPERTY SuccessMeansReplied
