\* Two threads create a handle each on one descriptor within the same
\* microsecond and call on it.
CONSTANTS
    t1 = t1
    t2 = t2
    h1 = h1
    h2 = h2
    h3 = h3
    f1 = f1
    f2 = f2
    NoThread = NoThread
    NoXid = NoXid
    Threads = {t1, t2}
    Handles = {h1, h2}
    Fds = {f1}
    FdOf <- TwoHandleFdOf
    Duplex = {}
    Script <- TwoHandleScript
    CallTimeouts <- LifeCallTimeouts
    SetTimeouts <- CoreSetTimeouts
    SetXids <- CoreSetXids
    UninitSecs = {0}
    RaddrPtr = 4096
    Pid = 0
    Sec = 0
    MaxUsec = 0
    ReplyStats = {"SUCCESS"}
    PeerXids <- CorePeerXids
    MaxPeerCalls = 0
    MaxGarbage = 0
    LittleEndian = TRUE
SPECIFICATION Spec
INVARIANT ReplyMatchesCall
