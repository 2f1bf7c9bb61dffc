# TLA+ models of the ntirpc connection-oriented client (clnt_vc.c)

These modules model three parts of ntirpc and check them with TLC:
* `src/src/clnt_vc.c`, the connection-oriented ONC RPC client transport;
* `src/ntirpc/misc/abstract_atomic.h`, its atomic-operations shim;
* `src/src/lttng/generator`, the build-time tool that generates the LTTng
  tracepoint headers.

## The system

A client handle (`CLIENT` with private `struct ct_data`) is bound to a socket
descriptor. Several handles, and several threads, may share one descriptor.
These parts interact:

| Part | Code | State it owns |
|------|------|---------------|
| Creation | `clnt_vc_create2` (224-329) | static `disrupt`, `clnt_fd_lock`, the first xid pre-serialised in `ct_mcallc`, `ct_wait`, `ct_closeit`, the fd's lock record |
| Call | `clnt_vc_call` (345-510) | per-fd lock, `CT_FLAG_EVENTS_BLOCKED`, `ct_wait`, `ct_mcalli`, `ct_error`, `ct_xdrs.x_op`, the xdrrec send buffer, socket records |
| Control | `clnt_vc_control` (565-681) | `ct_wait`/`ct_waitset`, `ct_mcalli` (CLSET_XID), `ct_closeit` |
| Free results | `clnt_vc_freeres` (526-556) | `ct_xdrs.x_op` |
| Error retrieval | `clnt_vc_geterr` (512-524) | reads `ct_error` into the caller's record |
| Destroy | `clnt_vc_destroy` (684-717) | the fd (closed if `ct_closeit`), the send buffer, `ct_data`, `clnt_fd_lock` |
| Socket I/O | `read_vc`, `write_vc` (724-797) | `ct_error`; the poll timeout |
| Per-fd lock | `vc_fd_lock_c` etc. (not under src/) | busy flag per fd |
| Peer | the server on the other end | replies, duplex CALLs, malformed records |
| Atomics | `abstract_atomic.h` (a capability for callers; `clnt_vc.c` does not call it) | the atomic variables callers pass |
| Tracepoint generator | `TraceGenerator.h`, `TracepointInfo.h`, `TracepointArgument.h`, `generate_lttng*.cpp` (a separate build-time program) | the event map, the per-provider output streams, the header files |
| Tracepoint macros | `include/lttng_generator.h` | none: `AUTO_TRACEPOINT` and `TP_*_ARR` expand at the call site into the arguments of `tracepoint()` |

Threads interact through the per-fd lock: every call on an fd takes it. They
also share the event blocking of a duplex handle, `clnt_fd_lock` during
creation, and the records on the socket. The peer answers calls in order,
answers them late or never. It can also send CALLs of its own (duplex) and
malformed records: ones that do not decode as an RPC message, and ones whose
fragment header `xdrrec_skiprecord` rejects.

The generator is a separate program. Clang visits the translation units of
a compilation database in order, and calls `TraceGenerator::run` for every
`AUTO_TRACEPOINT` call in them. `run` checks the call and records its event
in an event map kept across units. The first event of a provider opens that
provider's header and writes the header's beginning. `generate_lttng` then
closes the headers and reports failure by rethrowing out of `main`.

## Modules

* `ClntVcArith`: the byte-level conversions, modelled by what they do on
  4-byte words.
  * `BE` is the network byte order of a word.
  * `DecrHostWord` is the pre-decrement `--(*msg_x_id)` (line 398), which
    acts on network-order bytes as if they were a host integer.
  * `HtonlSuccessor` is `htonl(v + 1)` of CLSET_XID.
  * `PollBlocksForever` is the 32-bit truncation of the poll timeout in
    `read_vc`.
  * The constant `LittleEndian` selects the host byte order.
* `ClntVc`: the transport.
  * Handles, descriptors and threads are CONSTANTS.
  * Each thread runs a `Script` of library calls. A step of the script is
    split into the actions between which another thread can interleave: each
    lock acquisition or wait, and each blocking read.
  * Each action models the whole code segment named in its comment, from one
    such point to the next.
  * `CallSend` is everything from `call_again:` up to the receive loop,
    including every early return and the `out:` label (`CallOut`).
  * `RecvFail`, `RecvDiscard`, `RecvDispatch` and `RecvReply` are the four
    outcomes of one iteration of the receive loop.
  * `RecvFail` has three causes. The descriptor may be closed
    (RPC_CANTRECV), or poll may time out (RPC_TIMEDOUT). Or the next record
    may have a fragment header `xdrrec_skiprecord` rejects: no read fails,
    so `re_status` keeps the RPC_SUCCESS set at `call_again:`.
  * `Replied` is the code after `replied:`, including the refresh retry
    (`goto call_again`).
  * `GetErr` is `clnt_vc_geterr`: with no lock, it copies the handle's
    current `re_status` into the thread's `err`. The spec (section 3) says
    the record is overwritten at the start of each call attempt, so no
    property ties it to one thread's call.
  * The peer is three unfair actions per fd. `PeerGarbage` sends one of
    the two kinds of malformed record.
  * Creation is split at the point where `clnt_fd_lock` is released:
    `CreateInit` (lines 265-287) loads `disrupt` for `++disrupt`, and
    `CreateSeed` (288-329) stores it and seeds the xid. Another creator can
    run between the two, which is the lost update of the unlocked increment.
* `MCClntVc`: the scripts and argument sets of each run.
* `AbstractAtomic`: the atomics header. Its 114 `static inline` functions
  each call one GCC `__atomic` builtin with `__ATOMIC_SEQ_CST`.
  * A value is the byte tuple of its object, least significant first.
    This is needed because TLC's integers are 32-bit, so the 32- and 64-bit
    types could not wrap correctly as integers. `ToWord` is C's conversion
    of an integer to a w-byte object. `AddBytes` and `SubBytes` are the
    byte-serial arithmetic of the builtins, with the carry out of the top
    byte lost.
  * `Api` maps every function name to its documented operation, the type of
    `*var`, the type of its argument parameter, the builtin and the operand
    passed. The operand is the parameter, `~bits`, or the constant 1 of the
    inc/dec wrappers. One definition per group of functions gives its line
    range (`PreOps64`, …, `LoadStore168`). `atomic_add_uint8_t`'s `int8_t`
    addend is kept.
  * `Call` is one wrapper applied to an object. `CallOn` is a thread calling
    a wrapper on a shared cell as one step.
* `AtomicCounter`: the contract the spec (section 3) and each function's
  `@brief`/`@return` lines give. Values are integers wrapped into the type's
  range. Each operation is one step of a total order and returns the value
  after it (add, inc, sub, dec, clear, set) or before it (post*, fetch).
  `ApiMatchesDocs` compares every wrapper with its `DocNew` and result
  rule. No refinement is checked: every wrapper is a single builtin,
  so a refinement would only repeat `ApiMatchesDocs` one call at a time.
* `MCAtomic`: the cells and arguments of the atomics run.
* `TraceGenerator`: the generator.
  * Header text is abstracted to tokens: the beginning, one token per
    event, and the ending.
  * A call site is a model value with the data `run` looks at: provider,
    event, location, format characters, the name of its calling function
    (`Caller`) and its argument expressions (`Args`). An argument is a
    variable, an enum constant, a string literal or another expression,
    with a name, a type class and whether clang sees side effects in it.
    A site also has a `Fault` naming an early check of `run` (lines
    83-93), the event name (103), or the log-level or format-literal check
    (112-119) that throws for it, if any.
  * The rest of the checks follow from the arguments.
    `InsertCallingFunction` is the `{fnc}` replacement, and `SideEffects`
    is the check at 134-147. `ArgName` is `getArgName`, and `TpArguments`
    is the argument list with the format first, named `format`.
    `TpArgParams`/`TpArgsOf` are the TP_ARGS parameters that
    `generateTracepointEvent` declares, and `TpFieldNames` the TP_FIELDS
    names. `LttngArgCount` is `getNumLttngArgs`, checked against
    `MaxLttngArgs` (10). `FieldSupported` says whether
    `getTpFieldDefinition` has a field macro for the type.
    `GenerationOk` is `generateTracepointData`'s format check, argument
    limit and field check.
  * `MacroArity` is what `lttng_generator.h`'s `AUTO_TRACEPOINT` passes to
    `tracepoint()` when compiled without `LTTNG_PARSING`: the format, and
    two values for each `TP_*_ARR`.
  * `Init` is `main`: the `--provider` option, and the listed sources the
    database knows (`getCompileSourcePath`).
  * Each outcome of `run` on the next matched call is an action:
    * `RunSkip`: the provider is filtered out, or the event was already
      seen at this location.
    * `RunRejects`: a check throws before `lookupEvent` records anything,
      or the event was seen at another location.
    * `RunLateFault`: the event is recorded, then a check throws.
    * `RunOpenFails`: the header cannot be opened.
    * `RunEmit`: the header is opened lazily and truncated, then the event
      is written, or `generateTracepointData` throws.
  * `UnitDone` is the tool moving to the next source, which may have
    compile errors.
  * `ToolReturns` is `generate_lttng` calling `close()` before it checks
    the result.
  * `Terminate` is the uncaught rethrow. The stack may or may not be
    unwound, which is implementation-defined. If it is not,
    `~TraceGenerator` never closes the streams, and each file keeps only
    what its buffer had flushed.
  * `ScanFrom` is `getNumArgsInFormatString` as a RECURSIVE operator.
    `DocArgs` is the rule its error message states: parameters are `{}`,
    and `{{`/`}}` print a brace, read left to right.
* `MCTraceGenerator`: the call sites and sources of the generator runs.

The per-fd lock (`vc_lock.c`) is not under src/. `VcFdLockFree` models its
contract from the spec (section 4.1): acquire waits for the flag to be clear
and sets it, and drain waits for it to be clear without setting it.

Data is abstracted:
* Records carry a kind, an xid and a ghost tag identifying the call record
  they answer.
* AUTH_MARSHALL/VALIDATE/UNWRAP/REFRESH, the XDR encoders and `write_vc`
  success are nondeterministic outcomes.
* The clock is a bounded microsecond value.
* `ct_wait.tv_sec`, which creation never writes, is a choice from
  `UninitSecs`.

## Runs

| Run | Expect | Properties | What it shows |
|-----|--------|------------|---------------|
| core | pass | TypeOK, ReplyMatchesCall, EventsBlockedWhileCalling, XdrStreamExclusive, CallReturns | Two threads share one duplex handle, with late and foreign replies, duplex CALL records and refresh retries. Replies are correlated, events are blocked exactly during calls, the stream has one user, and every call returns. |
| lifecycle | pass | ReplyMatchesCall, SetXidTakesEffect, CallReturns | A handle's whole life on a big-endian build. CLSET_XID works there. |
| atomics | pass | TypeOK, ApiMatchesDocs | All 114 functions of the header, at every width and on values that carry, borrow and wrap, compute the documented value and result. |
| disruptrace | violation | ReplyMatchesCall | Two creators in the same microsecond: the unlocked `++disrupt` (line 288) loses an update, both handles on the fd get the same xid, and one call accepts the late reply to the other's timed-out call. |
| setxid | violation | SetXidTakesEffect | CLSET_XID does not set the next xid on little-endian hosts. |
| freeres | violation | XdrStreamExclusive | `clnt_vc_freeres` never takes the fd lock. |
| badrecord | violation | SuccessMeansReplied | A record with a zero fragment header makes `xdrrec_skiprecord` fail with no read error, and `clnt_vc_call` returns RPC_SUCCESS without a reply (line 430). |
| sigmask | violation | SigmaskRestored | An fd2sockinfo failure leaves all signals blocked. |
| polloverflow | violation | CallReturns | A 3000000 s timeout makes poll wait forever (CHECK_DEADLOCK FALSE: the program really stops). |
| lttnggen | pass | HeadersMatchSources, FormatsValid, LttngArgLimit, TpArgsMatchCall | Every subset of six sources, with and without `--provider`, compile errors, failed opens and both outcomes of `std::terminate`. When the tool exits normally: each provider with tracepoints has one complete header declaring each event once, even an event in a header included by two units; every format follows the stated rule; every event has at most ten LTTng arguments, and TP_ARGS declares exactly the values the runtime macro passes. |
| formatscan | violation | FormatsValid | The scanner skips `}}` as an escape inside a parameter, so `{}}{{}` is accepted with one argument and its event is generated (TracepointInfo.h:189). |
| argnames | violation | ArgNamesDistinct | `getArgName` uses a traced variable's own name, so tracing a variable called `format` gives two TP_FIELDS named `format` in a header the tool reports as generated. |

PROJECT.json lists the findings each violation stands for. It also lists a
mutant per property of the passing runs: a plausible bug in a mapped
definition that TLC detects.

## Bounds

* **core**
  * One duplex handle on one fd, two threads.
  * t1: create, call, call. t2: call, CLSET_TIMEOUT.
  * Call timeouts 0 and 25 s; results decoder present or not.
  * Replies SUCCESS or AUTHERROR; at most one duplex CALL, no malformed
    record (the lifecycle run has one).
  * This is enough for a timed-out call's late reply to reach the other
    thread's call, for a retry after AUTHERROR, and for batched and
    zero-timeout calls.
  * About 56k distinct states, under a minute.
  * `SuccessMeansReplied` is checked by badrecord only: core sends no
    malformed record, so in core it would only restate the status
    assignments of `RecvFail`.
* **lifecycle**
  * One thread runs create, call, geterr, freeres, CLSET_XID(255), FD_NCLOSE, a GET,
    FD_CLOSE, call, destroy, and a call after destroy. The last call is
    skipped (`SkipOp`): using a destroyed handle is undefined, and the
    model does not say what it does.
  * CLSET_XID(255) makes the increment carry.
  * About 68k distinct states.
  * The peer may send one malformed record of either kind and one CALL,
    which the non-duplex handle discards. A record with a bad fragment
    header ends the waiting call with RPC_SUCCESS, so this run does not
    check `SuccessMeansReplied`; core, which has no malformed record, does.
* **atomics**
  * `ApiMatchesDocs` takes sample values 0, 1, -1, 127, 128 and 255 and
    arguments 1, -1, 127, 128, 200 and 255, at each function's own width
    (1 to 8 bytes). Together these include the carry out of every byte, the
    wrap at the top, the sign boundary of the 8-bit types, and an addend the
    `int8_t` parameter turns negative.
  * The concurrent part has two threads with one call each, in either
    order, on a `uint8_t` (every family) and an `int16_t` (a carry between
    bytes). Each cell starts at 0 or all ones, and the arguments are 1, 200
    and -1. Two calls per thread gave over 300k states for nothing new:
    every call is one atomic step, so longer interleavings only compose
    steps that are already checked.
  * About 29k distinct states, 17 s.
* **lttnggen**
  * Sources a.c to f.c, in every subset the database can hold, with
    `--provider` absent, P1 or P2: 192 initial states, 4,544 distinct
    states in total.
  * s1 is a tracepoint in a header included by a.c and b.c (deduplication
    across units). s2 in a.c and s4 in b.c declare the same event at two
    locations (the conflict). s5 in c.c has the format `x{}{`, left open.
    d.c's calls fail the event-name check and the side-effect check
    (`i++`). f.c has a call that fails an early check and one with a
    struct argument, which `getTpFieldDefinition` rejects.
  * s1 names its caller with `{fnc}` and passes one argument of each
    `TP_*_ARR` macro (ten LTTng arguments). e.c
    has s9, with nine arguments of every other type class (ten LTTng
    arguments with the format, exactly the limit), and s10, whose four
    arrays bring it to eleven. s9 also traces a variable whose name
    starts with `_`.
  * The formats `x{}`, `{{}}` and `{}}}` are ones on which the scanner and
    the stated rule agree.
  * A compile error may occur in any unit, and an open may fail for any
    provider.
* **Violation runs** use the smallest script that reaches the case.

## Fairness

Each thread is weakly fair (`WF_vars(ThreadNext(t))`): an enabled library
thread is eventually scheduled. The peer has no fairness: it may stop
answering at any time. That is why `CallReturns` rests on `read_vc`'s poll
timeout and not on the peer.

The atomics and generator models state only safety
properties. The generator is one sequential thread whose every step
advances a bounded position, so there is nothing to wait for. A call is
one step, so there is nothing to wait for and no fairness is assumed.

## Not modelled

* xdr_rec framing, XDR and auth internals, and the svc duplex transport: none
  of these is under src/.
* `clnt_vc_abort` and `clnt_vc_ops`: they hold no state a property
  observes.
* CLSET_PROG/VERS: they rewrite header bytes the model does not keep.
* Creation's allocation failures after the mask restore.
* The text the generator writes is not modelled: the spelling of the
  `ctf_*` macros, enum definitions, log-level lines, and include paths
  (`TraceGeneratorSourceFileCallback`). The names and the number of
  parameters and fields of each event are modelled, and so are the types
  the field code rejects.
* The character alphabet of formats is `{`, `}`, `f` and one other
  character. The `{fnc}` marker is abbreviated to `{f}`; a calling
  function's name is one ordinary character.
* What a failed generation leaves on disk is modelled (`disk`) but no
  property claims anything about it. After a compile error, `close()` has
  already finished every header. After a parse error, a header may be
  truncated, or finished by the destructor. Either way the process aborts.
* `FormatsValid` passes in lttnggen on formats where the scanner and the
  stated rule agree. The case where they disagree is formatscan's.
* Several cases are kept only as hazards:
  * A call that waits for the fd lock while its handle is destroyed is
    caller misuse (line 697).
  * Destroy's `mutex_unlock(&clnt_fd_lock)` without a lock (line 715) is
    undefined behaviour, and no run checks the creators' exclusion.
  * The never-written `ct_wait.tv_sec` (line 275) breaks `CallReturns`
    once `UninitSecs` holds -1.
* The memory-order side of the atomics. Every wrapper uses
  `__ATOMIC_SEQ_CST`, which is exactly the single total order of steps
  that TLA+ interleaving gives.
* The batched records that destroy discards are listed as a hazard
  without a run. Discarding them is the batching design, which the spec
  leaves open. `time_not_ok` accepting `tv_usec = 1000000` only
  lengthens the poll by a second.

