\* Call/reply correlation, event blocking and stream exclusivity with two
\* threads sharing a duplex handle, stale and garbage traffic, refresh.
CONSTANTS
    t1 = t1
    t2 = t2
    h1 = h1
    h2 = h2
    h3 = h3
    f1 = f1
    f2 = f2
    NoThread = NoThread
    NoXid = NoXid
    Threads = {t1, t2}
    Handles = {h1}
    Fds = {f1}
    FdOf <- CoreFdOf
    Duplex = {h1}
    Script <- CoreScript
    CallTimeouts <- CoreCallTimeouts
    SetTimeouts <- CoreSetTimeouts
    SetXids <- CoreSetXids
    UninitSecs = {0}
    RaddrPtr = 4096
    Pid = 0
    Sec = 0
    MaxUsec = 0
    ReplyStats = {"SUCCESS", "AUTHERROR"}
    PeerXids <- CorePeerXids
    MaxPeerCalls = 1
    MaxGarbage = 0
    LittleEndian = TRUE
SPECIFICATION Spec
INVARIANT TypeOK
INVARIANT ReplyMatchesCall
INVARIANT EventsBlockedWhileCalling
INVARIANT XdrStreamExclusive
 
