--------------------------- MODULE TraceGenerator ---------------------------
(***************************************************************************)
(* The LTTng tracepoint generator (src/src/lttng/generator): a Clang tool  *)
(* that visits every AUTO_TRACEPOINT call of the translation units of a    *)
(* compilation database and writes, per provider, a header declaring each  *)
(* event once.  TraceGenerator::run handles one matched call; close()      *)
(* finishes the headers; generate_lttng drives the tool and reports        *)
(* failure by rethrowing out of main.                                      *)
(*                                                                         *)
(* The text of a header is abstracted to tokens: the file beginning, one   *)
(* token per TRACEPOINT_EVENT, the file ending.  A call site carries what  *)
(* the checks of run() look at: provider, event, location, its format      *)
(* string (over the characters "{", "}", "f" for the letters of the {fnc}   *)
(* marker and "x" for any other), the argument expressions after it, and   *)
(* which check before them, if any, throws.                               *)
(***************************************************************************)
EXTENDS Integers, Sequences, SequencesExt, FiniteSets

CONSTANTS
    Sites,      \* the tracepoint call expressions of the sources
    Provs,      \* provider names
    Events,     \* event names
    Locs,       \* expansion locations (file:line); equal iff file and line are
    Prov, Event, Loc,  \* [Sites -> Provs], [Sites -> Events], [Sites -> Locs]
    Format,     \* [Sites -> Seq(Chars)]: the 4th argument, a string literal
    Caller,     \* [Sites -> Seq(Chars)]: the name of the enclosing function
    Args,       \* [Sites -> Seq(ArgExprs)]: the arguments after the format
    Underscored,\* the variable names that begin with "_"
    Fault,      \* [Sites -> Faults]: the check of run() the call fails, if any
    Sources,    \* the source list of the command line, in order
    Matches,    \* [source -> Seq(Sites)]: the calls the matcher finds, in order
    FilterOpts, \* values of --provider: providers, or NoProvider when absent
    NoProvider, NoLoc

Chars == {"{", "}", "f", "x"}

\* Where run() can throw before it looks at the arguments: "early" is fewer
\* than 4 arguments or a provider that is not a literal (lines 83-93),
\* "event" an event name that is not a literal (103-105), "late" a log
\* level that is not an enum constant or a format that is not a literal
\* (112-119).
Faults == {"none", "early", "event", "late"}

\* An argument expression after removeImplicitCast: a reference to a
\* variable (with its name), to an enum constant, a string literal, or any
\* other expression (a number, a call, a member, a TP_*_ARR compound
\* literal); its type as far as getTpArgDefintion and getTpFieldDefinition
\* tell types apart; whether clang finds side effects in it.
VarLenTypes == {"vl_int", "vl_uint", "vl_byte", "vl_str"}
ArgTypes == VarLenTypes \cup {"nullstr", "ptr", "enum", "char", "int",
                              "float", "chararr", "intarr", "floatarr",
                              "struct"}
ArgExprs == [kind : {"var", "enumconst", "strlit", "expr"}, name : STRING,
             ty : ArgTypes, side : BOOLEAN]

\* The content of a header, as written to its std::ofstream.
Token == [t : {"begin", "end", "old"}, p : Provs]
         \cup [t : {"event"}, p : Provs, e : Events]

VARIABLES
    units,      \* the sources the ClangTool runs on
    filter,     \* provider_
    u, k,       \* the tool is at the k-th matched call of its u-th unit
    eventMap,   \* eventMap_: [Provs -> [Events -> Locs \cup {NoLoc}]]
    stream,     \* providerToOutput_: "none", "open", or a stream whose open failed
    written,    \* what was written to each provider's stream
    disk,       \* the content of each provider's header file
    clangFailed,\* some unit had a compile error (tool.run returns non-zero)
    phase       \* "run", "thrown" (an exception propagates), "exit", "aborted"

vars == <<units, filter, u, k, eventMap, stream, written, disk, clangFailed,
          phase>>

-----------------------------------------------------------------------------
(* getNumArgsInFormatString (TracepointInfo.h) and the rule it enforces.   *)

\* The end of the scan: a "{" still open is an invalid format.
ScanEndNoCheck(inP, n) == n
ScanEnd(inP, n) == IF inP THEN -1 ELSE n

\* The loop from position i, inside a parameter or not, n parameters so far;
\* -1 stands for the thrown invalidFormatError.  "{{" and "}}" are skipped as
\* escapes wherever they occur.
RECURSIVE ScanFrom(_, _, _, _)
ScanFrom(f, i, inP, n) ==
    IF i > Len(f) THEN ScanEnd(inP, n)
    ELSE LET cur == f[i]
             nxt == IF i = Len(f) THEN "nul" ELSE f[i + 1]
         IN CASE cur = "{" /\ nxt = "{" -> ScanFrom(f, i + 2, inP, n)
              [] cur = "{" /\ inP       -> -1
              [] cur = "{"              -> ScanFrom(f, i + 1, TRUE, n)
              [] cur = "}" /\ nxt = "}" -> ScanFrom(f, i + 2, inP, n)
              [] cur = "}" /\ ~inP      -> -1
              [] cur = "}"              -> ScanFrom(f, i + 1, FALSE, n + 1)
              [] inP                    -> -1
              [] OTHER                  -> ScanFrom(f, i + 1, inP, n)

CountFormatArgs(f) == ScanFrom(f, 1, FALSE, 0)

\* The rule of the error message: a parameter is "{}", and "{{" and "}}"
\* print a brace; "{fnc}" stands for the calling function (the comment of
\* insertCallingFunctionToFormat); any other brace is an error.  Read left
\* to right, as a brace-escaping formatter reads it.  -1 for an invalid
\* format.
FncMarker == <<"{", "f", "}">>
RECURSIVE DocArgs(_)
DocArgs(f) ==
    IF f = <<>> THEN 0
    ELSE LET two == IF Len(f) >= 2 THEN <<f[1], f[2]>> ELSE <<>>
             rest == DocArgs(Tail(Tail(f)))
         IN CASE two \in {<<"{", "{">>, <<"}", "}">>} -> rest
              [] Len(f) >= 3 /\ SubSeq(f, 1, 3) = FncMarker ->
                     DocArgs(SubSeq(f, 4, Len(f)))
              [] two = <<"{", "}">>  -> IF rest = -1 THEN -1 ELSE rest + 1
              [] f[1] \in {"{", "}"} -> -1
              [] OTHER               -> DocArgs(Tail(f))

-----------------------------------------------------------------------------
(* The arguments of a call (TraceGenerator.h, TracepointArgument.h,        *)
(* StringLiteralTracepointArgument.h).                                     *)

\* insertCallingFunctionToFormat: every "{fnc}" is replaced, first
\* occurrence first, by the name of the calling function.
RECURSIVE InsertCallingFunction(_, _)
InsertCallingFunction(f, name) ==
    IF FncMarker \in SubSeqs(f)
    THEN InsertCallingFunction(ReplaceFirstSubSeq(name, FncMarker, f), name)
    ELSE f

\* getArgName: the name of a referenced variable, unless it is empty or
\* starts with "_"; otherwise (enum constants, literals, other
\* expressions) "arg_<n>" for the n-th argument after the format.
ArgName(a, n) ==
    IF a.kind = "var" /\ a.name # "" /\ a.name \notin Underscored
    THEN a.name ELSE "arg_" \o ToString(n)

\* The arguments_ of the TracepointInfo (lines 126-152 with
\* getTracepointArgument): the format as a string-literal argument named
\* "format", then each argument with its name; a string literal becomes a
\* StringLiteralTracepointArgument.
TpArguments(s) ==
    <<[literal |-> TRUE, name |-> "format", ty |-> "chararr"]>>
    \o [i \in 1..Len(Args[s]) |->
           [literal |-> Args[s][i].kind = "strlit",
            name |-> ArgName(Args[s][i], i), ty |-> Args[s][i].ty]]

\* StringLiteralTracepointArgument::getTpArgDefintion: a literal's value
\* lives in an enum, and its parameter is an unused pointer.
LiteralParams(a) == <<"unused_" \o a.name>>

\* Variant: TP_VAR_STR_ARR declared like a null-terminated string.
TpArgParamsStrOne(a) ==
    CASE a.literal                        -> LiteralParams(a)
      [] a.ty \in VarLenTypes \ {"vl_str"} -> <<a.name \o "_data", a.name \o "_len">>
      [] OTHER                            -> <<a.name>>

\* The parameters getTpArgDefintion declares in TP_ARGS for one argument:
\* the literal's unused parameter for a string literal, data and
\* length for the variable-length structs, the name otherwise.
TpArgParams(a) ==
    CASE a.literal            -> LiteralParams(a)
      [] a.ty \in VarLenTypes -> <<a.name \o "_data", a.name \o "_len">>
      [] OTHER                -> <<a.name>>

\* generateTracepointEvent: the TP_ARGS parameter names of the event, and
\* the field names of its TP_FIELDS (every getTpFieldDefinition names its
\* field after the argument).
TpArgsOf(s) == FlattenSeq([i \in 1..Len(TpArguments(s)) |->
                              TpArgParams(TpArguments(s)[i])])
TpFieldNames(s) == [i \in 1..Len(TpArguments(s)) |-> TpArguments(s)[i].name]

\* lttng_generator.h outside LTTNG_PARSING: AUTO_TRACEPOINT hands the format
\* and the arguments to tracepoint(), each TP_*_ARR(data, len) expanding
\* to its data and its length and TP_STR to its string.
MacroArity(s) ==
    1 + FoldLeft(LAMBDA acc, a : acc + (IF a.ty \in VarLenTypes THEN 2 ELSE 1),
                 0, Args[s])

\* TracepointArgument::getNumLttngArgs: the variable-length structs count
\* as two LTTng arguments, anything else as one.
NumLttngArgsFlat(a) == 1
NumLttngArgs(a) == IF a.ty \in VarLenTypes THEN 2 ELSE 1

\* TracepointInfo::getNumLttngArgs, and MAX_LTTNG_TRACE_ARGUMENTS.
LttngArgCount(s) ==
    FoldLeft(LAMBDA acc, a : acc + NumLttngArgs(a), 0, TpArguments(s))
MaxLttngArgs == 10

\* getTpFieldDefinition has a field for the argument; for any other type
\* (a struct, an array of floats) it throws a runtime_error.  A string
\* literal's field is always its enum.
FieldSupported(a) == a.literal \/ a.ty \notin {"struct", "floatarr"}

\* Lines 134-147: an argument with side effects is refused.
SideEffects(s) == \E i \in 1..Len(Args[s]) : Args[s][i].side

-----------------------------------------------------------------------------
(* The checks of run() on one matched call s.                               *)

Site == Matches[units[u]][k]
InUnit == u <= Len(units) /\ k <= Len(Matches[units[u]])

\* Lines 96-99: with --provider, calls of other providers are skipped.
Passes(s) == filter = NoProvider \/ Prov[s] = filter

\* lookupEvent (lines 197-229): the event is new, was seen at this location,
\* or was seen at another one (a runtime_error).
IsNewEvent(s) == eventMap[Prov[s]][Event[s]] = NoLoc
IsExisting(s) == eventMap[Prov[s]][Event[s]] = Loc[s]
Conflict(s) == eventMap[Prov[s]][Event[s]] \notin {NoLoc, Loc[s]}
InsertEventDropped(s) == UNCHANGED eventMap
InsertEvent(s) == eventMap' = [eventMap EXCEPT ![Prov[s]][Event[s]] = Loc[s]]

\* generateTracepointData (TracepointInfo.h lines 52-76): verifyTracepoint
\* compares the parameters of the format, after {fnc} was replaced, with
\* the code's arguments; then the LTTng argument count is limited; then
\* generateDefs and generateTracepointEvent throw on an unsupported type.
GenerationOk(s) ==
    /\ CountFormatArgs(InsertCallingFunction(Format[s], Caller[s]))
           = Len(Args[s])
    /\ LttngArgCount(s) <= MaxLttngArgs
    /\ \A i \in 1..Len(TpArguments(s)) : FieldSupported(TpArguments(s)[i])

Begin(p) == [t |-> "begin", p |-> p]
End(p) == [t |-> "end", p |-> p]
EventToken(s) == [t |-> "event", p |-> Prov[s], e |-> Event[s]]
MaxTokens == Cardinality(Sites) + 2

\* getCompileSourcePath (generate_lttng_for_files.cpp): the sources of the
\* command line that the compilation database knows, in command-line order.
CompileSourcePath(db) == SelectSeq(Sources, LAMBDA src : src \in db)

\* main: the database and --provider ("" for none) are given; every header
\* of a provider already holds what an earlier generation wrote.
Init ==
    /\ \E db \in SUBSET Range(Sources) : units = CompileSourcePath(db)
    /\ filter \in FilterOpts
    /\ u = 1 /\ k = 1
    /\ eventMap = [p \in Provs |-> [e \in Events |-> NoLoc]]
    /\ stream = [p \in Provs |-> "none"]
    /\ written = [p \in Provs |-> <<>>]
    /\ disk = [p \in Provs |-> <<[t |-> "old", p |-> p]>>]
    /\ clangFailed = FALSE
    /\ phase = "run"

-----------------------------------------------------------------------------
(* TraceGenerator::run on the next matched call, one action per outcome.   *)

\* Lines 96-99 and 108-110: a call of a provider --provider excludes, or of
\* an event already generated from this very location, is skipped.
RunSkip ==
    /\ phase = "run" /\ InUnit
    /\ LET s == Site IN
          /\ Fault[s] # "early"
          /\ \/ ~Passes(s)
             \/ Passes(s) /\ Fault[s] # "event" /\ IsExisting(s)
    /\ k' = k + 1
    /\ UNCHANGED <<units, filter, u, eventMap, stream, written, disk,
                   clangFailed, phase>>

\* Lines 83-106 and lookupEvent's runtime_error: fewer than four arguments,
\* a provider or event that is not a literal, or an event generated before
\* from another location, throws.
RunRejects ==
    /\ phase = "run" /\ InUnit
    /\ LET s == Site IN
          \/ Fault[s] = "early"
          \/ Passes(s) /\ Fault[s] = "event"
          \/ Passes(s) /\ Fault[s] \notin {"early", "event"} /\ Conflict(s)
    /\ phase' = "thrown"
    /\ UNCHANGED <<units, filter, u, k, eventMap, stream, written, disk,
                   clangFailed>>

\* Lines 108-147: lookupEvent has recorded the new event when the log level
\* or format literal check, or the side-effect check of an argument, throws.
RunLateFault ==
    /\ phase = "run" /\ InUnit
    /\ LET s == Site IN
          /\ Passes(s) /\ IsNewEvent(s)
          /\ \/ Fault[s] = "late"
             \/ Fault[s] = "none" /\ SideEffects(s)
          /\ InsertEvent(s)
    /\ phase' = "thrown"
    /\ UNCHANGED <<units, filter, u, k, stream, written, disk, clangFailed>>

\* getOutputFileStream (lines 231-245): the first event of a provider
\* inserts its stream into providerToOutput_, and opening the header fails.
RunOpenFails ==
    /\ phase = "run" /\ InUnit
    /\ LET s == Site IN
          /\ Passes(s) /\ Fault[s] = "none" /\ ~SideEffects(s) /\ IsNewEvent(s)
          /\ stream[Prov[s]] = "none"
          /\ InsertEvent(s)
          /\ stream' = [stream EXCEPT ![Prov[s]] = "failed"]
    /\ phase' = "thrown"
    /\ UNCHANGED <<units, filter, u, k, written, disk, clangFailed>>

\* Lines 154-158: the first event of a provider opens (truncates) its
\* header and writes getProviderFileBeginning; then the event's data is
\* generated and written, or generateTracepointData throws with the header
\* already open.
RunEmit ==
    /\ phase = "run" /\ InUnit
    /\ LET s == Site
           p == Prov[s]
           opened == stream[p] = "open"
           base == IF opened THEN written[p] ELSE <<Begin(p)>>
       IN /\ Passes(s) /\ Fault[s] = "none" /\ ~SideEffects(s) /\ IsNewEvent(s)
          /\ InsertEvent(s)
          /\ stream' = [stream EXCEPT ![p] = "open"]
          /\ disk' = IF opened THEN disk ELSE [disk EXCEPT ![p] = <<>>]
          /\ \/ /\ GenerationOk(s)
                /\ written' = [written EXCEPT ![p] = Append(base, EventToken(s))]
                /\ k' = k + 1
                /\ UNCHANGED phase
             \/ /\ ~GenerationOk(s)
                /\ written' = [written EXCEPT ![p] = base]
                /\ phase' = "thrown"
                /\ UNCHANGED k
    /\ UNCHANGED <<units, filter, u, clangFailed>>

\* ClangTool::run goes on with the next source; one with compile errors
\* (its AST was still matched) makes it return non-zero.
UnitDone ==
    /\ phase = "run" /\ u <= Len(units) /\ k > Len(Matches[units[u]])
    /\ \E err \in BOOLEAN : clangFailed' = (clangFailed \/ err)
    /\ u' = u + 1 /\ k' = 1
    /\ UNCHANGED <<units, filter, eventMap, stream, written, disk, phase>>

\* close() (lines 161-174): each stream in providerToOutput_ gets the file
\* ending and is closed, which flushes it; the map is cleared.  A stream
\* whose open failed ignores both.
Close ==
    /\ written' = [p \in Provs |-> IF stream[p] = "open"
                                   THEN Append(written[p], End(p))
                                   ELSE written[p]]
    /\ disk' = [p \in Provs |-> IF stream[p] = "open"
                                THEN Append(written[p], End(p)) ELSE disk[p]]
    /\ stream' = [p \in Provs |-> "none"]

\* generate_lttng (lines 92-100): tool.run returns, the headers are closed,
\* and only then is a compile error turned into a runtime_error.
ToolReturns ==
    /\ phase = "run" /\ u > Len(units)
    /\ Close
    /\ phase' = IF clangFailed THEN "thrown" ELSE "exit"
    /\ UNCHANGED <<units, filter, u, k, eventMap, clangFailed>>

\* Lines 101-106: the exception is caught and rethrown out of main, where no
\* handler catches it and std::terminate aborts.  Whether the stack is
\* unwound first is implementation-defined: if it is, ~TraceGenerator runs
\* close(); if not, each open stream reaches its file only as far as its
\* buffer was flushed.
Terminate ==
    /\ phase = "thrown"
    /\ phase' = "aborted"
    /\ \/ Close
       \/ /\ \E cut \in {c \in [Provs -> 0..MaxTokens] :
                            \A p \in Provs : c[p] <= Len(written[p])} :
                disk' = [p \in Provs |-> IF stream[p] = "open"
                                         THEN SubSeq(written[p], 1, cut[p])
                                         ELSE disk[p]]
          /\ UNCHANGED <<written, stream>>
    /\ UNCHANGED <<units, filter, u, k, eventMap, clangFailed>>

\* The process has ended.
Finished ==
    /\ phase \in {"exit", "aborted"}
    /\ UNCHANGED vars

Next ==
    \/ RunSkip \/ RunRejects \/ RunLateFault \/ RunOpenFails \/ RunEmit
    \/ UnitDone \/ ToolReturns \/ Terminate \/ Finished

Spec == Init /\ [][Next]_vars

-----------------------------------------------------------------------------
(* Properties of a run that exits normally.                                *)

\* The calls of the sources the tool ran on that --provider lets through.
Matched == {s \in Sites : Passes(s) /\
                \E i \in 1..Len(units) : s \in Range(Matches[units[i]])}

\* What a header holds between its beginning and its ending.
Body(p) == SubSeq(disk[p], 2, Len(disk[p]) - 1)

\* The generated headers are the ones the sources call for: when the tool
\* exits normally, the header of every provider with a tracepoint in the
\* sources (and let through by --provider) is a complete file declaring each
\* of that provider's events exactly once, however many translation units
\* include the call; the headers of other providers are untouched.  This is
\* the job of lookupEvent's event map, of the lazily opened streams of
\* getOutputFileStream and of close().
HeadersMatchSources ==
    phase = "exit" =>
        \A p \in Provs :
            LET evs == {[t |-> "event", p |-> p, e |-> Event[s]] :
                            s \in {x \in Matched : Prov[x] = p}}
            IN IF evs = {}
               THEN disk[p] = <<[t |-> "old", p |-> p]>>
               ELSE /\ Len(disk[p]) >= 2
                    /\ disk[p][1] = Begin(p) /\ Last(disk[p]) = End(p)
                    /\ IsInjective(Body(p)) /\ Range(Body(p)) = evs

\* Every generated event has a format that follows the rule the tool
\* states ("parameters with {}", "{{}}" to print "{}") with one parameter
\* per argument, as verifyTracepoint is there to ensure.
FormatsValid ==
    phase = "exit" => \A s \in Matched : DocArgs(Format[s]) = Len(Args[s])

\* Every generated event stays within LTTng's limit on tracepoint arguments:
\* when the tool exits normally, the TP_ARGS that generateTracepointEvent
\* writes for each event declare at most MAX_LTTNG_TRACE_ARGUMENTS
\* parameters, the format's included and a variable-length array counting
\* for its data and its length, as the check of getNumLttngArgs is there
\* to ensure.
LttngArgLimit ==
    phase = "exit" => \A s \in Matched : Len(TpArgsOf(s)) <= MaxLttngArgs

\* The generated declaration fits the call: for every event the tool
\* generates, TP_ARGS declares as many parameters as the AUTO_TRACEPOINT
\* macro, compiled without LTTNG_PARSING, passes to tracepoint() at the
\* call site, the format and both halves of every TP_*_ARR included.
TpArgsMatchCall ==
    phase = "exit" => \A s \in Matched : Len(TpArgsOf(s)) = MacroArity(s)

\* Every generated event can be compiled: when the tool exits normally, the
\* parameter names of each event's TP_ARGS, and the field names of its
\* TP_FIELDS, are pairwise distinct.  They come from getArgName, which uses
\* a variable's own name, "arg_<n>" otherwise, and "format" for the format.
ArgNamesDistinct ==
    phase = "exit" =>
        \A s \in Matched : IsInjective(TpArgsOf(s)) /\ IsInjective(TpFieldNames(s))
====
