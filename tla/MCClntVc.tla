------------------------------ MODULE MCClntVc ------------------------------
(***************************************************************************)
(* Instances of ClntVc for TLC: the handles, descriptors, thread scripts  *)
(* and argument sets of each run.                                          *)
(***************************************************************************)
EXTENDS ClntVc

CONSTANTS t1, t2, h1, h2, h3, f1, f2

\* A library call of a thread's script.
Do(o, h) == [op |-> o, h |-> h, req |-> "GET"]
Ctl(h, r) == [op |-> "control", h |-> h, req |-> r]

-----------------------------------------------------------------------------
(* core: two threads share the duplex handle h1 on f1.                     *)
CoreScript ==
    [t \in {t1, t2} |->
        IF t = t1
        THEN << Do("create", h1), Do("call", h1), Do("call", h1) >>
        ELSE << Do("call", h1), Ctl(h1, "SET_TIMEOUT") >>]
CoreCallTimeouts == {<<0, 0>>, <<25, 0>>}
CoreSetTimeouts == {<<10, 0>>, <<-5, 0>>}
CoreFdOf == [h \in {h1} |-> f1]
CoreSetXids == {BE(5)}
CorePeerXids == {BE(9)}
-----------------------------------------------------------------------------
\* The script of a single thread t1.
OneScript(ops) == [t \in {t1} |-> ops]

(* lifecycle: one thread runs a handle through its whole life on f1.     *)
LifeScript ==
    OneScript(<< Do("create", h1), Do("call", h1), Do("geterr", h1),
                 Do("freeres", h1),
                 Ctl(h1, "SET_XID"), Ctl(h1, "FD_NCLOSE"), Ctl(h1, "NULL_INFO"),
                 Ctl(h1, "FD_CLOSE"), Do("call", h1), Do("destroy", h1),
                 Do("call", h1) >>)
LifeFdOf == [h \in {h1} |-> f1]
LifeCallTimeouts == {<<25, 0>>}
LifeSetXids == {BE(255)}

-----------------------------------------------------------------------------
(* Scripts of the runs that look for one disagreement each.                *)

\* Two threads each create a handle on f1 and make one call on it.
TwoHandleScript ==
    [t \in {t1, t2} |->
        IF t = t1 THEN << Do("create", h1), Do("call", h1) >>
                  ELSE << Do("create", h2), Do("call", h2) >>]
TwoHandleFdOf == [h \in {h1, h2} |-> f1]

\* CLSET_XID, then a call.
SetXidScript == [t \in {t1} |->
    << Do("create", h1), Ctl(h1, "SET_XID"), Do("call", h1) >>]

\* A call racing a clnt_vc_freeres of its handle.
RaceScript(o) ==
    [t \in {t1, t2} |->
        IF t = t1 THEN << Do("create", h1), Do("call", h1) >>
                  ELSE << Do(o, h1) >>]
FreeResScript == RaceScript("freeres")

\* One creation; one creation and a call.
CreateScript == OneScript(<< Do("create", h1) >>)
OneCallScript == OneScript(<< Do("create", h1), Do("call", h1) >>)
OneFdOf == [h \in {h1} |-> f1]
LongCallTimeouts == {<<3000000, 0>>}
=============================================================================
