------------------------------- MODULE ClntVc -------------------------------
(***************************************************************************)
(* The connection-oriented ONC RPC client transport of src/src/clnt_vc.c: *)
(* client handles (struct ct_data) bound to file descriptors, the per-fd  *)
(* call lock shared by every handle on one fd, the call/reply state       *)
(* machine of clnt_vc_call, clnt_vc_control, clnt_vc_freeres,             *)
(* clnt_vc_destroy and clnt_vc_create2, run by a set of threads that each *)
(* execute a script of library calls.                                      *)
(*                                                                         *)
(* The peer at the other end of each fd is the environment: it consumes   *)
(* call records, answers some of them (in order, as a TCP stream does),   *)
(* and may send duplex CALL records and undecodable records.              *)
(***************************************************************************)
EXTENDS Integers, Sequences, FiniteSets, Bitwise, ClntVcArith

CONSTANTS
    Threads,        \* application threads using the library
    Handles,        \* CLIENT handles (struct ct_data)
    Fds,            \* socket descriptors
    FdOf,           \* [Handles -> Fds]: the fd given to clnt_vc_create2
    Duplex,         \* handles whose ct_duplex.ct_flags has CT_FLAG_DUPLEX
    Script,         \* [Threads -> Seq(Op)]: the library calls of each thread
    CallTimeouts,   \* timeout arguments of clnt_call, as <<tv_sec, tv_usec>>
    SetTimeouts,    \* arguments of CLSET_TIMEOUT
    SetXids,        \* arguments of CLSET_XID, as big-endian byte tuples
    UninitSecs,     \* values the never-written ct_wait.tv_sec may hold
    RaddrPtr,       \* (u_int32_t)(long)raddr, the seed of disrupt
    Pid, Sec,       \* getpid() and tv_sec as used by __RPC_GETXID
    MaxUsec,        \* bound on the tv_usec the clock reaches
    ReplyStats,     \* statuses _seterr_reply can derive from a peer reply
    PeerXids,       \* xids of the CALLs a duplex peer sends
    MaxPeerCalls,   \* bound on duplex CALL records per fd
    MaxGarbage,     \* bound on malformed records per fd
    NoThread, NoXid \* model values

OpKinds == {"create", "call", "control", "freeres", "destroy", "geterr"}
Requests == {"FD_CLOSE", "FD_NCLOSE", "SET_TIMEOUT", "SET_XID", "GET",
             "NULL_INFO", "UNKNOWN"}
Op == [op : OpKinds, h : Handles, req : Requests]

ASSUME /\ FdOf \in [Handles -> Fds]
       /\ Duplex \subseteq Handles
       /\ Script \in [Threads -> Seq(Op)]
       /\ ReplyStats \subseteq {"SUCCESS", "AUTHERROR", "PROG_UNAVAIL"}
       /\ "SUCCESS" \in ReplyStats

Stats == {"SUCCESS", "CANTENCODEARGS", "CANTSEND", "CANTRECV", "TIMEDOUT",
          "AUTHERROR", "CANTDECODERES", "PROG_UNAVAIL"}
Zero == <<0, 0>>

ToServer == [kind : {"CALL"}, xid : Word, tag : Nat]
            \cup [kind : {"TRUNC"}, tag : Nat]
ToClient == [kind : {"REPLY"}, xid : Word, stat : ReplyStats, tag : Nat]
            \cup [kind : {"CALL"}, xid : Word]
            \cup [kind : {"GARBAGE", "BADFRAG"}]

VARIABLES
    \* struct ct_data, per handle
    hstate,     \* "unborn" | "live" | "freed" | "failed"
    xid,        \* ct_u.ct_mcalli: xid of the previous call, network order
    waitset,    \* ct_waitset
    wait,       \* ct_wait
    closeit,    \* ct_closeit
    status,     \* ct_error.re_status
    evblocked,  \* CT_FLAG_EVENTS_BLOCKED in ct_duplex.ct_flags
    xop,        \* ct_xdrs.x_op
    outbuf,     \* records encoded into the xdrrec send buffer, not yet written
    dplxXid,    \* x_id of the duplex SVCXPRT's cf_conn
    xidReq,     \* ghost: the xid last asked for with CLSET_XID
    \* per fd
    fdlock,     \* the per-fd call lock flag; holds the owning thread
    fdref,      \* reference count of the fd's lock record
    fdopen,     \* the descriptor is open
    toSrv,      \* records written to the socket, not yet read by the peer
    toCli,      \* records the peer wrote, not yet read by the client
    peerCalls, peerGarbage,
    \* process-wide
    clntFdLock, \* owner of the clnt_fd_lock mutex
    disrupt,    \* static u_int32_t disrupt of clnt_vc_create2
    clock,      \* tv_usec of gettimeofday
    nsent,      \* ghost: number of call records encoded so far
    \* per thread
    pc, ip, hd,
    lx,         \* x_id, the xid of the call's current attempt
    refr,       \* refreshes
    ship,       \* shipnow
    tmo,        \* the timeout argument
    wantRes,    \* xdr_results != NULL
    evb,        \* ev_blocked
    tag,        \* ghost: identity of the attempt's call record
    acc,        \* ghost: tag of the reply the call accepted, 0 if none
    rstat,      \* the status _seterr_reply derived from that reply
    dsr,        \* the value of disrupt a creator loaded for ++disrupt
    masked,     \* all signals blocked by this thread
    err         \* re_status of the rpc_err its last clnt_vc_geterr filled

hvars == <<hstate, xid, waitset, wait, closeit, status, evblocked, xop,
           outbuf, dplxXid, xidReq>>
fvars == <<fdlock, fdref, fdopen, toSrv, toCli, peerCalls, peerGarbage>>
gvars == <<clntFdLock, disrupt, clock, nsent>>
cvars == <<lx, refr, ship, tmo, wantRes, evb, tag, acc, rstat, dsr>>
evars == <<err>>
tvars == <<pc, ip, hd, masked, cvars, evars>>
vars == <<hvars, fvars, gvars, tvars>>

Pcs == {"idle", "lock", "send", "recv", "replied", "create_conn",
        "create_init", "create_seed", "freeres", "destroy"}
CallPcs == {"lock", "send", "recv", "replied"}

TypeOK ==
    /\ hstate \in [Handles -> {"unborn", "live", "freed", "failed"}]
    /\ xid \in [Handles -> Word]
    /\ waitset \in [Handles -> BOOLEAN]
    /\ wait \in [Handles -> Int \X Int]
    /\ closeit \in [Handles -> BOOLEAN]
    /\ status \in [Handles -> Stats]
    /\ evblocked \in [Handles -> BOOLEAN]
    /\ xop \in [Handles -> {"ENCODE", "DECODE", "FREE"}]
    /\ outbuf \in [Handles -> Seq(ToServer)]
    /\ dplxXid \in [Handles -> Word]
    /\ xidReq \in [Handles -> Word \cup {NoXid}]
    /\ fdlock \in [Fds -> Threads \cup {NoThread}]
    /\ fdref \in [Fds -> Nat]
    /\ fdopen \in [Fds -> BOOLEAN]
    /\ toSrv \in [Fds -> Seq(ToServer)]
    /\ toCli \in [Fds -> Seq(ToClient)]
    /\ clntFdLock \in Threads \cup {NoThread}
    /\ disrupt \in Nat /\ clock \in 0..MaxUsec /\ nsent \in Nat
    /\ pc \in [Threads -> Pcs]
    /\ hd \in [Threads -> Handles]
    /\ lx \in [Threads -> Word]
    /\ refr \in [Threads -> 0..2]
    /\ acc \in [Threads -> Nat] /\ tag \in [Threads -> Nat]
    /\ rstat \in [Threads -> ReplyStats]
    /\ dsr \in [Threads -> Nat]
    /\ err \in [Threads -> Stats \cup {"none"}]
    /\ masked \in [Threads -> BOOLEAN]

-----------------------------------------------------------------------------
(* Helpers translated from the code *)

\* time_not_ok: "Make sure that the time is not garbage."
TimeNotOk(tv) ==
    tv[1] <= -1 \/ tv[1] > 100000000 \/ tv[2] <= -1 \/ tv[2] > 1000000

\* __RPC_GETXID(now): getpid() ^ tv_sec ^ tv_usec.
GetXid(usec) == (Pid ^^ Sec) ^^ usec

\* The per-fd lock of vc_lock (vc_fd_lock_c waits while the flag is set;
\* vc_fd_wait_c waits for it to be clear without setting it).
VcFdLockFree(f) == fdlock[f] = NoThread

\* Variant: the xid comparison of the REPLY branch left out.
IsOwnReplyAnyXid(r, x) == r.kind = "REPLY"

\* The REPLY branch of the receive loop: a reply is the call's own exactly
\* when its xid equals x_id.
IsOwnReply(r, x) == r.kind = "REPLY" /\ r.xid = x

\* read_vc: poll(2) returns 0 (RPC_TIMEDOUT) when nothing arrives in time.
ReadTimesOut(h) == ~PollBlocksForever(wait[h])

\* cond_block_events_client: block the duplex xprt's events if not already.
CondBlockEvents(h) == h \in Duplex /\ ~evblocked[h]

Cur(t) == Script[t][ip[t]]
Active(t) == ip[t] <= Len(Script[t])
Done(t) == /\ pc' = [pc EXCEPT ![t] = "idle"]
           /\ ip' = [ip EXCEPT ![t] = @ + 1]

\* The locals of clnt_vc_call are dead once it returns.
ResetLocals(t) ==
    /\ lx' = [lx EXCEPT ![t] = BE(0)]
    /\ refr' = [refr EXCEPT ![t] = 2]
    /\ ship' = [ship EXCEPT ![t] = TRUE]
    /\ tmo' = [tmo EXCEPT ![t] = Zero]
    /\ wantRes' = [wantRes EXCEPT ![t] = FALSE]
    /\ evb' = [evb EXCEPT ![t] = FALSE]
    /\ tag' = [tag EXCEPT ![t] = 0]
    /\ acc' = [acc EXCEPT ![t] = 0]
    /\ rstat' = [rstat EXCEPT ![t] = "SUCCESS"]
    /\ UNCHANGED <<dsr, err>>

\* Variant: the out: label without cond_unblock_events_client.
CallOutNoUnblock(t) ==
    /\ UNCHANGED evblocked
    /\ fdlock' = [fdlock EXCEPT ![FdOf[hd[t]]] = NoThread]
    /\ masked' = [masked EXCEPT ![t] = FALSE]
    /\ Done(t)
    /\ ResetLocals(t)

\* The out: label of clnt_vc_call: undo the event blocking this call did,
\* release the fd lock and restore the signal mask.  The call returns
\* result, which every vc_call_return takes from ct_error.re_status.
CallOut(t) ==
    LET h == hd[t] IN
    /\ evblocked' = IF evb[t] /\ evblocked[h]
                    THEN [evblocked EXCEPT ![h] = FALSE] ELSE evblocked
    /\ fdlock' = [fdlock EXCEPT ![FdOf[h]] = NoThread]
    /\ masked' = [masked EXCEPT ![t] = FALSE]
    /\ Done(t)
    /\ ResetLocals(t)

-----------------------------------------------------------------------------
Init ==
    /\ hstate = [h \in Handles |-> "unborn"]
    /\ xid = [h \in Handles |-> BE(0)]
    /\ waitset = [h \in Handles |-> FALSE]
    /\ wait = [h \in Handles |-> Zero]
    /\ closeit = [h \in Handles |-> FALSE]
    /\ status = [h \in Handles |-> "SUCCESS"]
    /\ evblocked = [h \in Handles |-> FALSE]
    /\ xop = [h \in Handles |-> "ENCODE"]
    /\ outbuf = [h \in Handles |-> <<>>]
    /\ dplxXid = [h \in Handles |-> BE(0)]
    /\ xidReq = [h \in Handles |-> NoXid]
    /\ fdlock = [f \in Fds |-> NoThread]
    /\ fdref = [f \in Fds |-> 0]
    /\ fdopen = [f \in Fds |-> TRUE]
    /\ toSrv = [f \in Fds |-> <<>>]
    /\ toCli = [f \in Fds |-> <<>>]
    /\ peerCalls = [f \in Fds |-> 0]
    /\ peerGarbage = [f \in Fds |-> 0]
    /\ clntFdLock = NoThread
    /\ disrupt = 0 /\ clock = 0 /\ nsent = 0
    /\ pc = [t \in Threads |-> "idle"]
    /\ ip = [t \in Threads |-> 1]
    /\ hd = [t \in Threads |-> CHOOSE h \in Handles : TRUE]
    /\ lx = [t \in Threads |-> BE(0)]
    /\ refr = [t \in Threads |-> 2]
    /\ ship = [t \in Threads |-> TRUE]
    /\ tmo = [t \in Threads |-> Zero]
    /\ wantRes = [t \in Threads |-> FALSE]
    /\ evb = [t \in Threads |-> FALSE]
    /\ tag = [t \in Threads |-> 0]
    /\ acc = [t \in Threads |-> 0]
    /\ rstat = [t \in Threads |-> "SUCCESS"]
    /\ dsr = [t \in Threads |-> 0]
    /\ err = [t \in Threads |-> "none"]
    /\ masked = [t \in Threads |-> FALSE]

-----------------------------------------------------------------------------
(* clnt_vc_create2 *)

\* Lines 224-239: seed disrupt, block all signals, take clnt_fd_lock.
CreateLock(t) ==
    LET h == Cur(t).h IN
    /\ pc[t] = "idle" /\ Active(t) /\ Cur(t).op = "create"
    /\ hstate[h] = "unborn"
    /\ clntFdLock = NoThread
    /\ clntFdLock' = t
    /\ disrupt' = IF disrupt = 0 THEN RaddrPtr ELSE disrupt
    /\ masked' = [masked EXCEPT ![t] = TRUE]
    /\ hd' = [hd EXCEPT ![t] = h]
    /\ pc' = [pc EXCEPT ![t] = "create_conn"]
    /\ UNCHANGED <<hvars, fvars, clock, nsent, ip, cvars, evars>>

\* Lines 244-264: getpeername/connect under clnt_fd_lock; a failure
\* unlocks, restores the mask and returns NULL.
CreateConnect(t) ==
    LET h == hd[t] IN
    /\ pc[t] = "create_conn"
    /\ clntFdLock' = NoThread
    /\ \/ /\ pc' = [pc EXCEPT ![t] = "create_init"]
          /\ UNCHANGED <<hstate, masked, ip>>
       \/ /\ hstate' = [hstate EXCEPT ![h] = "failed"]
          /\ masked' = [masked EXCEPT ![t] = FALSE]
          /\ Done(t)
    /\ UNCHANGED <<xid, waitset, wait, closeit, status, evblocked, xop,
                   outbuf, dplxXid, xidReq, fvars, disrupt, clock, nsent,
                   hd, cvars, evars>>

\* Lines 265-287: __rpc_fd2sockinfo, whose failure jumps to err before the
\* signal mask is restored; then the mask restore, the private data
\* (ct_wait.tv_usec = 0, its tv_sec never set) and the load of the
\* unprotected static disrupt for ++disrupt at line 288.
CreateInit(t) ==
    LET h == hd[t] IN
    /\ pc[t] = "create_init"
    /\ \/ /\ hstate' = [hstate EXCEPT ![h] = "failed"]
          /\ Done(t)
          /\ UNCHANGED <<masked, dsr>>
       \/ /\ masked' = [masked EXCEPT ![t] = FALSE]
          /\ dsr' = [dsr EXCEPT ![t] = disrupt]
          /\ pc' = [pc EXCEPT ![t] = "create_seed"]
          /\ UNCHANGED <<hstate, ip>>
    /\ UNCHANGED <<xid, waitset, wait, closeit, status, evblocked, xop, outbuf,
                   dplxXid, xidReq, fvars, gvars, hd, lx, refr, ship, tmo,
                   wantRes, evb, tag, acc, rstat, evars>>

\* Lines 288-329: the store of ++disrupt from the loaded value, the first
\* xid disrupt ^ __RPC_GETXID(&now) pre-serialised in network order, the
\* fd's lock record (vc_lock_init_cl) and the xdrrec stream.
CreateSeed(t) ==
    LET h == hd[t]
        d == dsr[t] + 1
    IN
    /\ pc[t] = "create_seed"
    /\ \E usec \in clock..MaxUsec, s \in UninitSecs :
          /\ clock' = usec
          /\ xid' = [xid EXCEPT ![h] = BE(d ^^ GetXid(usec))]
          /\ wait' = [wait EXCEPT ![h] = <<s, 0>>]
    /\ disrupt' = d
    /\ dsr' = [dsr EXCEPT ![t] = 0]
    /\ hstate' = [hstate EXCEPT ![h] = "live"]
    /\ closeit' = [closeit EXCEPT ![h] = FALSE]
    /\ waitset' = [waitset EXCEPT ![h] = FALSE]
    /\ status' = [status EXCEPT ![h] = "SUCCESS"]
    /\ evblocked' = [evblocked EXCEPT ![h] = FALSE]
    /\ xop' = [xop EXCEPT ![h] = "ENCODE"]
    /\ outbuf' = [outbuf EXCEPT ![h] = <<>>]
    /\ fdref' = [fdref EXCEPT ![FdOf[h]] = @ + 1]
    /\ Done(t)
    /\ UNCHANGED <<dplxXid, xidReq, fdlock, fdopen, toSrv, toCli, peerCalls,
                   peerGarbage, clntFdLock, nsent, hd, masked, lx, refr, ship,
                   tmo, wantRes, evb, tag, acc, rstat, evars>>

-----------------------------------------------------------------------------
(* clnt_vc_call *)

\* Entry: the arguments of the call.
CallStart(t) ==
    LET h == Cur(t).h IN
    /\ pc[t] = "idle" /\ Active(t) /\ Cur(t).op = "call"
    /\ hstate[h] = "live"
    /\ \E tv \in CallTimeouts, w \in BOOLEAN :
          /\ tmo' = [tmo EXCEPT ![t] = tv]
          /\ wantRes' = [wantRes EXCEPT ![t] = w]
    /\ hd' = [hd EXCEPT ![t] = h]
    /\ pc' = [pc EXCEPT ![t] = "lock"]
    /\ UNCHANGED <<hvars, fvars, gvars, ip, masked, lx, refr, ship, evb, tag,
                   acc, rstat, dsr, evars>>

\* Lines 367-393: take the fd lock, block duplex events, adopt the call's
\* timeout unless CLSET_TIMEOUT fixed one, decide shipnow.
CallLock(t) ==
    LET h == hd[t] IN
    /\ pc[t] = "lock"
    /\ VcFdLockFree(FdOf[h])
    /\ fdlock' = [fdlock EXCEPT ![FdOf[h]] = t]
    /\ masked' = [masked EXCEPT ![t] = TRUE]
    /\ evb' = [evb EXCEPT ![t] = CondBlockEvents(h)]
    /\ evblocked' = IF CondBlockEvents(h)
                    THEN [evblocked EXCEPT ![h] = TRUE] ELSE evblocked
    /\ wait' = IF ~waitset[h] /\ ~TimeNotOk(tmo[t])
               THEN [wait EXCEPT ![h] = tmo[t]] ELSE wait
    /\ ship' = [ship EXCEPT ![t] = ~(~wantRes[t] /\ tmo[t] = Zero)]
    /\ pc' = [pc EXCEPT ![t] = "send"]
    /\ UNCHANGED <<hstate, xid, waitset, closeit, status, xop, outbuf,
                   dplxXid, xidReq, fdref, fdopen, toSrv, toCli, peerCalls,
                   peerGarbage, gvars, ip, hd, lx, refr, tmo, wantRes, tag,
                   acc, rstat, dsr, evars>>

\* Lines 395-425 (call_again): status reset, the next xid, the record
\* encoded and flushed with xdrrec_endofrecord(xdrs, shipnow).
CallSend(t) ==
    LET h == hd[t]
        f == FdOf[h]
        x == DecrHostWord(xid[h])
        n == nsent + 1
        call == [kind |-> "CALL", xid |-> x, tag |-> n]
        trunc == [kind |-> "TRUNC", tag |-> n]
        \* xdrrec_endofrecord(xdrs, TRUE): write the whole send buffer
        Flush(last) ==
            IF fdopen[f]
            THEN /\ toSrv' = [toSrv EXCEPT ![f] = @ \o outbuf[h] \o <<last>>]
                 /\ outbuf' = [outbuf EXCEPT ![h] = <<>>]
            ELSE /\ outbuf' = [outbuf EXCEPT ![h] = Append(@, last)]
                 /\ UNCHANGED toSrv
        Return(st) == /\ status' = [status EXCEPT ![h] = st]
                      /\ xop' = [xop EXCEPT ![h] = "ENCODE"]
                      /\ CallOut(t)
    IN
    /\ pc[t] = "send"
    /\ xid' = [xid EXCEPT ![h] = x]
    /\ xidReq' = [xidReq EXCEPT ![h] = NoXid]
    /\ nsent' = n
    /\ \/ \* XDR_PUTBYTES, AUTH_MARSHALL or AUTH_WRAP fails: the partial
          \* record is still ended and flushed (lines 400-408)
          /\ Flush(trunc)
          /\ Return(IF fdopen[f] THEN "CANTENCODEARGS" ELSE "CANTSEND")
       \/ \* batched call: the record stays in the buffer (lines 409-412)
          /\ ~ship[t]
          /\ outbuf' = [outbuf EXCEPT ![h] = Append(@, call)]
          /\ UNCHANGED toSrv
          /\ Return("SUCCESS")
       \/ \* write_vc fails (lines 409-410)
          /\ ship[t] /\ ~fdopen[f]
          /\ Flush(call)
          /\ Return("CANTSEND")
       \/ \* zero timeout: sent, not awaited (lines 416-417)
          /\ ship[t] /\ fdopen[f] /\ tmo[t] = Zero
          /\ Flush(call)
          /\ Return("TIMEDOUT")
       \/ /\ ship[t] /\ fdopen[f] /\ tmo[t] # Zero
          /\ Flush(call)
          /\ status' = [status EXCEPT ![h] = "SUCCESS"]
          /\ xop' = [xop EXCEPT ![h] = "DECODE"]
          /\ lx' = [lx EXCEPT ![t] = x]
          /\ tag' = [tag EXCEPT ![t] = n]
          /\ acc' = [acc EXCEPT ![t] = 0]
          /\ pc' = [pc EXCEPT ![t] = "recv"]
          /\ UNCHANGED <<evblocked, fdlock, masked, ip, refr, ship, tmo,
                         wantRes, evb, rstat, dsr, evars>>
    /\ UNCHANGED <<hstate, waitset, wait, closeit, dplxXid, fdref, fdopen,
                   toCli, peerCalls, peerGarbage, clntFdLock, disrupt, clock,
                   hd>>

\* Lines 430-434 with read_vc: xdrrec_skiprecord fails because poll timed
\* out (RPC_TIMEDOUT) or the descriptor was closed (RPC_CANTRECV), or
\* because the record's fragment header is malformed (xdrrec rejects a
\* zero header): then no read failed and re_status is still the
\* RPC_SUCCESS set at call_again, which vc_call_return returns.  The bad
\* header has been read off the stream.
RecvFail(t) ==
    LET h == hd[t]
        f == FdOf[h]
    IN
    /\ pc[t] = "recv"
    /\ \/ /\ ~fdopen[f]
          /\ status' = [status EXCEPT ![h] = "CANTRECV"]
          /\ UNCHANGED toCli
       \/ /\ fdopen[f] /\ toCli[f] = <<>> /\ ReadTimesOut(h)
          /\ status' = [status EXCEPT ![h] = "TIMEDOUT"]
          /\ UNCHANGED toCli
       \/ /\ fdopen[f] /\ toCli[f] # <<>> /\ Head(toCli[f]).kind = "BADFRAG"
          /\ toCli' = [toCli EXCEPT ![f] = Tail(@)]
          /\ UNCHANGED status
    /\ CallOut(t)
    /\ UNCHANGED <<hstate, xid, waitset, wait, closeit, xop, outbuf, dplxXid,
                   xidReq, fdref, fdopen, toSrv, peerCalls,
                   peerGarbage, gvars, hd>>

\* Variant: the loop goes on without xdrrec_skiprecord consuming the
\* record it could not use.
RecvDiscardNoSkip(t) ==
    LET f == FdOf[hd[t]] IN
    /\ pc[t] = "recv" /\ fdopen[f] /\ toCli[f] # <<>>
    /\ LET r == Head(toCli[f]) IN
          /\ r.kind # "BADFRAG" /\ ~IsOwnReply(r, lx[t])
          /\ r.kind = "CALL" => hd[t] \notin Duplex
    /\ UNCHANGED vars

\* Lines 435-472: a record that is not the call's reply is consumed and the
\* loop goes on: an undecodable record (xdr_dplx_msg fails while
\* re_status is still RPC_SUCCESS), a REPLY with another xid, or a CALL on
\* a handle that is not duplex.
RecvDiscard(t) ==
    LET h == hd[t]
        f == FdOf[h]
    IN
    /\ pc[t] = "recv" /\ fdopen[f] /\ toCli[f] # <<>>
    /\ LET r == Head(toCli[f]) IN
          /\ r.kind # "BADFRAG" /\ ~IsOwnReply(r, lx[t])
          /\ r.kind = "CALL" => h \notin Duplex
    /\ toCli' = [toCli EXCEPT ![f] = Tail(@)]
    /\ UNCHANGED <<hvars, fdlock, fdref, fdopen, toSrv, peerCalls,
                   peerGarbage, gvars, tvars>>

\* Lines 456-468: a CALL on a duplex handle: its xid is stored in the
\* SVCXPRT's cf_conn and xp_dispatch is invoked; the loop goes on.
RecvDispatch(t) ==
    LET h == hd[t]
        f == FdOf[h]
    IN
    /\ pc[t] = "recv" /\ fdopen[f] /\ toCli[f] # <<>>
    /\ Head(toCli[f]).kind = "CALL"
    /\ h \in Duplex
    /\ dplxXid' = [dplxXid EXCEPT ![h] = Head(toCli[f]).xid]
    /\ toCli' = [toCli EXCEPT ![f] = Tail(@)]
    /\ UNCHANGED <<hstate, xid, waitset, wait, closeit, status, evblocked,
                   xop, outbuf, xidReq, fdlock, fdref, fdopen, toSrv,
                   peerCalls, peerGarbage, gvars, tvars>>

\* Variant: the fd lock released as soon as the own reply is found, before
\* the header is processed.
RecvReplyEarlyUnlock(t) ==
    LET h == hd[t]
        f == FdOf[h]
        r == Head(toCli[f])
    IN
    /\ pc[t] = "recv" /\ fdopen[f] /\ toCli[f] # <<>>
    /\ IsOwnReply(r, lx[t])
    /\ toCli' = [toCli EXCEPT ![f] = Tail(@)]
    /\ fdlock' = [fdlock EXCEPT ![f] = NoThread]
    /\ acc' = [acc EXCEPT ![t] = r.tag]
    /\ rstat' = [rstat EXCEPT ![t] = r.stat]
    /\ status' = [status EXCEPT ![h] = r.stat]
    /\ pc' = [pc EXCEPT ![t] = "replied"]
    /\ UNCHANGED <<hstate, xid, waitset, wait, closeit, evblocked, xop,
                   outbuf, dplxXid, xidReq, fdref, fdopen, toSrv,
                   peerCalls, peerGarbage, gvars, ip, hd, masked, lx, refr,
                   ship, tmo, wantRes, evb, tag, dsr, evars>>

\* Lines 452-454 and 479: the call's own reply (goto replied), whose
\* status _seterr_reply stores.
RecvReply(t) ==
    LET h == hd[t]
        f == FdOf[h]
        r == Head(toCli[f])
    IN
    /\ pc[t] = "recv" /\ fdopen[f] /\ toCli[f] # <<>>
    /\ IsOwnReply(r, lx[t])
    /\ toCli' = [toCli EXCEPT ![f] = Tail(@)]
    /\ acc' = [acc EXCEPT ![t] = r.tag]
    /\ rstat' = [rstat EXCEPT ![t] = r.stat]
    /\ status' = [status EXCEPT ![h] = r.stat]
    /\ pc' = [pc EXCEPT ![t] = "replied"]
    /\ UNCHANGED <<hstate, xid, waitset, wait, closeit, evblocked, xop,
                   outbuf, dplxXid, xidReq, fdlock, fdref, fdopen, toSrv,
                   peerCalls, peerGarbage, gvars, ip, hd, masked, lx, refr,
                   ship, tmo, wantRes, evb, tag, dsr, evars>>

\* Variant: the remaining-refresh test taken as refreshes >= 0.
RefreshAllowedAtZero(t) == refr[t] >= 0

\* Line 497: refreshes-- tests the count before decrementing it.
RefreshAllowed(t) == refr[t] > 0

\* Lines 480-500: a success is checked with AUTH_VALIDATE and decoded with
\* AUTH_UNWRAP; any other status tries AUTH_REFRESH while refreshes-- is
\* non-zero and starts again at call_again when it succeeds.
Replied(t) ==
    LET h == hd[t] IN
    /\ pc[t] = "replied"
    /\ \/ /\ rstat[t] = "SUCCESS"
          /\ \E validated, unwrapped \in BOOLEAN :
                status' = [status EXCEPT ![h] =
                             IF ~validated THEN "AUTHERROR"
                             ELSE IF ~unwrapped THEN "CANTDECODERES"
                             ELSE "SUCCESS"]
          /\ CallOut(t)
       \/ /\ rstat[t] # "SUCCESS" /\ RefreshAllowed(t) \* AUTH_REFRESH succeeds
          /\ refr' = [refr EXCEPT ![t] = @ - 1]
          /\ pc' = [pc EXCEPT ![t] = "send"]
          /\ UNCHANGED <<status, evblocked, fdlock, masked, ip, lx, ship, tmo,
                         wantRes, evb, tag, acc, rstat, dsr, evars>>
       \/ /\ rstat[t] # "SUCCESS"             \* no refresh left, or it fails
          /\ UNCHANGED status
          /\ CallOut(t)
    /\ UNCHANGED <<hstate, xid, waitset, wait, closeit, xop, outbuf, dplxXid,
                   xidReq, fdref, fdopen, toSrv, toCli, peerCalls, peerGarbage,
                   gvars, hd>>

-----------------------------------------------------------------------------
(* clnt_vc_control, clnt_vc_freeres, clnt_vc_destroy *)

\* clnt_vc_control (lines 565-681), whole under the fd lock.  The GET
\* requests, CLSET_SVC_ADDR, CLSET_PROG/VERS, a NULL info and unknown
\* requests change nothing the model keeps.
Control(t) ==
    LET h == Cur(t).h
        rq == Cur(t).req
    IN
    /\ pc[t] = "idle" /\ Active(t) /\ Cur(t).op = "control"
    /\ hstate[h] = "live"
    /\ VcFdLockFree(FdOf[h])
    /\ \/ /\ rq = "FD_CLOSE"
          /\ closeit' = [closeit EXCEPT ![h] = TRUE]
          /\ UNCHANGED <<xid, xidReq, wait, waitset>>
       \/ /\ rq = "FD_NCLOSE"
          /\ closeit' = [closeit EXCEPT ![h] = FALSE]
          /\ UNCHANGED <<xid, xidReq, wait, waitset>>
       \/ /\ rq = "SET_TIMEOUT"
          /\ \E tv \in SetTimeouts :
                IF TimeNotOk(tv) THEN UNCHANGED <<wait, waitset>>
                ELSE /\ wait' = [wait EXCEPT ![h] = tv]
                     /\ waitset' = [waitset EXCEPT ![h] = TRUE]
          /\ UNCHANGED <<xid, xidReq, closeit>>
       \/ /\ rq = "SET_XID"
          /\ \E v \in SetXids :
                /\ xid' = [xid EXCEPT ![h] = HtonlSuccessor(v)]
                /\ xidReq' = [xidReq EXCEPT ![h] = v]
          /\ UNCHANGED <<wait, waitset, closeit>>
       \/ /\ rq \in {"GET", "NULL_INFO", "UNKNOWN"}
          /\ UNCHANGED <<xid, xidReq, wait, waitset, closeit>>
    /\ hd' = [hd EXCEPT ![t] = h]
    /\ Done(t)
    /\ UNCHANGED <<hstate, status, evblocked, xop, outbuf, dplxXid, fvars,
                   gvars, cvars, masked, evars>>

\* clnt_vc_geterr (lines 512-524): *errp = ct->ct_error, with no lock.
GetErr(t) ==
    LET h == Cur(t).h IN
    /\ pc[t] = "idle" /\ Active(t) /\ Cur(t).op = "geterr"
    /\ hstate[h] = "live"
    /\ err' = [err EXCEPT ![t] = status[h]]
    /\ hd' = [hd EXCEPT ![t] = h]
    /\ Done(t)
    /\ UNCHANGED <<hvars, fvars, gvars, masked, cvars>>

\* clnt_vc_freeres lines 544-547: mask signals, vc_fd_wait_c.
FreeResWait(t) ==
    LET h == Cur(t).h IN
    /\ pc[t] = "idle" /\ Active(t) /\ Cur(t).op = "freeres"
    /\ hstate[h] = "live"
    /\ VcFdLockFree(FdOf[h])
    /\ masked' = [masked EXCEPT ![t] = TRUE]
    /\ hd' = [hd EXCEPT ![t] = h]
    /\ pc' = [pc EXCEPT ![t] = "freeres"]
    /\ UNCHANGED <<hvars, fvars, gvars, ip, cvars, evars>>

\* Lines 549-555: xdrs->x_op = XDR_FREE on the handle's stream, restore the
\* mask, vc_fd_signal_c.
FreeResDone(t) ==
    /\ pc[t] = "freeres"
    /\ xop' = [xop EXCEPT ![hd[t]] = "FREE"]
    /\ masked' = [masked EXCEPT ![t] = FALSE]
    /\ Done(t)
    /\ UNCHANGED <<hstate, xid, waitset, wait, closeit, status, evblocked,
                   outbuf, dplxXid, xidReq, fvars, gvars, hd, cvars, evars>>

\* clnt_vc_destroy lines 695-697: mask signals, vc_fd_wait_c.
DestroyWait(t) ==
    LET h == Cur(t).h IN
    /\ pc[t] = "idle" /\ Active(t) /\ Cur(t).op = "destroy"
    /\ hstate[h] = "live"
    /\ VcFdLockFree(FdOf[h])
    /\ masked' = [masked EXCEPT ![t] = TRUE]
    /\ hd' = [hd EXCEPT ![t] = h]
    /\ pc' = [pc EXCEPT ![t] = "destroy"]
    /\ UNCHANGED <<hvars, fvars, gvars, ip, cvars, evars>>

\* Lines 699-716: close the fd if ct_closeit, XDR_DESTROY (the unflushed
\* send buffer is discarded), free ct, drop the lock record's reference,
\* then mutex_unlock(&clnt_fd_lock), which this thread never locked: on a
\* default mutex that either fails or releases whoever holds it.
DestroyFree(t) ==
    LET h == hd[t]
        f == FdOf[h]
    IN
    /\ pc[t] = "destroy"
    /\ fdopen' = IF closeit[h] THEN [fdopen EXCEPT ![f] = FALSE] ELSE fdopen
    /\ outbuf' = [outbuf EXCEPT ![h] = <<>>]
    /\ hstate' = [hstate EXCEPT ![h] = "freed"]
    /\ fdref' = [fdref EXCEPT ![f] = @ - 1]
    /\ clntFdLock' \in {clntFdLock, NoThread}
    /\ masked' = [masked EXCEPT ![t] = FALSE]
    /\ Done(t)
    /\ UNCHANGED <<xid, waitset, wait, closeit, status, evblocked, xop,
                   dplxXid, xidReq, fdlock, toSrv, toCli, peerCalls,
                   peerGarbage, disrupt, clock, nsent, hd, cvars, evars>>

\* A thread does not use a handle whose creation failed or that it has
\* destroyed: the library call is not made.
SkipOp(t) ==
    /\ pc[t] = "idle" /\ Active(t) /\ Cur(t).op # "create"
    /\ hstate[Cur(t).h] \in {"failed", "freed"}
    /\ ip' = [ip EXCEPT ![t] = @ + 1]
    /\ UNCHANGED <<hvars, fvars, gvars, pc, hd, cvars, evars, masked>>

-----------------------------------------------------------------------------
(* The peer (environment) *)

\* It reads the next call record and answers it, or never answers.
PeerServe(f) ==
    /\ fdopen[f] /\ toSrv[f] # <<>>
    /\ LET m == Head(toSrv[f]) IN
          \/ /\ m.kind = "CALL"
             /\ \E st \in ReplyStats :
                   toCli' = [toCli EXCEPT ![f] = Append(@,
                       [kind |-> "REPLY", xid |-> m.xid, stat |-> st,
                        tag |-> m.tag])]
          \/ UNCHANGED toCli
    /\ toSrv' = [toSrv EXCEPT ![f] = Tail(@)]
    /\ UNCHANGED <<hvars, fdlock, fdref, fdopen, peerCalls, peerGarbage,
                   gvars, tvars>>

\* It sends a CALL of its own on the connection.
PeerCall(f) ==
    /\ fdopen[f] /\ peerCalls[f] < MaxPeerCalls
    /\ \E x \in PeerXids :
          toCli' = [toCli EXCEPT ![f] = Append(@, [kind |-> "CALL", xid |-> x])]
    /\ peerCalls' = [peerCalls EXCEPT ![f] = @ + 1]
    /\ UNCHANGED <<hvars, fdlock, fdref, fdopen, toSrv, peerGarbage, gvars,
                   tvars>>

\* It sends a malformed record: one the client cannot decode as an RPC
\* message, or one whose fragment header is zero.
PeerGarbage(f) ==
    /\ fdopen[f] /\ peerGarbage[f] < MaxGarbage
    /\ \E k \in {"GARBAGE", "BADFRAG"} :
          toCli' = [toCli EXCEPT ![f] = Append(@, [kind |-> k])]
    /\ peerGarbage' = [peerGarbage EXCEPT ![f] = @ + 1]
    /\ UNCHANGED <<hvars, fdlock, fdref, fdopen, toSrv, peerCalls, gvars,
                   tvars>>

-----------------------------------------------------------------------------
ThreadNext(t) ==
    \/ CreateLock(t) \/ CreateConnect(t) \/ CreateInit(t) \/ CreateSeed(t)
    \/ CallStart(t) \/ CallLock(t) \/ CallSend(t)
    \/ RecvFail(t) \/ RecvDiscard(t) \/ RecvDispatch(t) \/ RecvReply(t)
    \/ Replied(t)
    \/ Control(t) \/ GetErr(t) \/ FreeResWait(t) \/ FreeResDone(t)
    \/ DestroyWait(t) \/ DestroyFree(t) \/ SkipOp(t)

PeerNext(f) == PeerServe(f) \/ PeerCall(f) \/ PeerGarbage(f)

\* Every thread has run its whole script.
Terminated ==
    /\ \A t \in Threads : ~Active(t) /\ pc[t] = "idle"
    /\ UNCHANGED vars

Next ==
    \/ \E t \in Threads : ThreadNext(t)
    \/ \E f \in Fds : PeerNext(f)
    \/ Terminated

\* Threads are scheduled fairly; the peer is not: it may stop answering.
Spec == Init /\ [][Next]_vars /\ \A t \in Threads : WF_vars(ThreadNext(t))

-----------------------------------------------------------------------------
(* Properties *)

\* Transaction correlation (clnt_vc_call's receive loop): the reply a call
\* accepts as its own answers the record that attempt sent, never a late
\* reply to an earlier, abandoned call on the same connection nor one to
\* another handle's call.
ReplyMatchesCall ==
    \A t \in Threads : pc[t] = "replied" => acc[t] = tag[t]

\* A clnt_vc_call that sent its record and waits for the answer returns
\* RPC_SUCCESS only after it has accepted the reply to that record: the
\* caller's results were decoded from a real answer.  Every exit of the
\* receive loop (read failure, skiprecord failure, reply processing) is
\* covered.
SuccessMeansReplied ==
    [][\A t \in Threads :
          (pc[t] \in {"recv", "replied"} /\ pc'[t] = "idle"
              /\ status'[hd[t]] = "SUCCESS")
             => acc[t] = tag[t] /\ acc[t] # 0]_vars

\* cond_block_events_client / cond_unblock_events_client: the duplex xprt's
\* events are blocked exactly while a call on that handle holds the fd lock,
\* so the event loop never reads the replies the call is waiting for and
\* is resumed on every exit path of clnt_vc_call.
EventsBlockedWhileCalling ==
    \A h \in Handles :
        evblocked[h] <=> (h \in Duplex /\ \E t \in Threads :
                                hd[t] = h /\ pc[t] \in {"send", "recv", "replied"})

\* The handle's XDR stream (ct_xdrs, whose x_op each user sets) is used by
\* at most one thread at a time: the sending/receiving call or a
\* clnt_vc_freeres.
XdrStreamExclusive ==
    \A h \in Handles :
        Cardinality({t \in Threads : hd[t] = h /\
                         pc[t] \in {"send", "recv", "replied", "freeres"}}) <= 1

\* Every library call restores the caller's signal mask before returning.
SigmaskRestored == \A t \in Threads : pc[t] = "idle" => ~masked[t]

\* CLSET_XID "will set the xid of the NEXT call": the first call sent after
\* it carries the requested xid.
SetXidTakesEffect ==
    [][\A h \in Handles :
          (xidReq[h] # NoXid /\ xidReq'[h] = NoXid) => xid'[h] = xidReq[h]]_vars

\* Every call returns: the receive loop ends even if the peer never answers.
CallReturns == \A t \in Threads : pc[t] \in CallPcs ~> pc[t] = "idle"
=============================================================================
