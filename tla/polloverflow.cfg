\* A call whose timeout is 3000000 s, accepted by time_not_ok.
CONSTANTS
    t1 = t1
    t2 = t2
    h1 = h1
    h2 = h2
    h3 = h3
    f1 = f1
    f2 = f2
    NoThread = NoThread
    NoXid = NoXid
    Threads = {t1}
    Handles = {h1}
    Fds = {f1}
    FdOf <- OneFdOf
    Duplex = {}
    Script <- OneCallScript
    CallTimeouts <- LongCallTimeouts
    SetTimeouts <- CoreSetTimeouts
    SetXids <- LifeSetXids
    UninitSecs = {0}
    RaddrPtr = 4096
    Pid = 0
    Sec = 0
    MaxUsec = 0
    ReplyStats = {"SUCCESS"}
    PeerXids <- CorePeerXids
    MaxPeerCalls = 0
    MaxGarbage = 0
    LittleEndian = TRUE
SPECIFICATION Spec
PROPERTY CallReturns
CHECK_DEADLOCK FALSE
