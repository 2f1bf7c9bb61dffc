---------------------------- MODULE AbstractAtomic ----------------------------
(***************************************************************************)
(* src/ntirpc/misc/abstract_atomic.h: every function of the header is a    *)
(* static inline wrapper around one GCC __atomic builtin with              *)
(* __ATOMIC_SEQ_CST on a pointer to a C integer type.  A value is kept as  *)
(* the bytes of its object, least significant first, so 32- and 64-bit     *)
(* types wrap exactly as the build does (TLC's integers are 32-bit).       *)
(* Api maps each function name to its type, the type of its argument      *)
(* parameter, the builtin it calls and the operand it passes; Call is the  *)
(* builtin acting on the bytes.  The state machine lets threads call the   *)
(* functions on shared cells, one builtin per step.                        *)
(***************************************************************************)
EXTENDS Integers, Sequences, Bitwise, TLC

CONSTANTS Threads, Cells, CellType, Args, MaxCalls, NoValue

VARIABLES
    mem,         \* [Cells -> byte tuple]: the object each cell is
    ret,         \* [Threads -> [bytes, ty] \cup {NoValue}]: the last result
    lastfn,      \* [Threads -> function name \cup {"none"}]: the last call made
    lastarg,     \* [Threads -> Args \cup {0}]: the argument it was passed
    calls        \* [Threads -> Nat]

avars == <<mem, ret, lastfn, lastarg, calls>>

\* The C types of the header on an LP64 build: size in bytes and signedness.
CType ==
    [int64_t |-> [w |-> 8, signed |-> TRUE],  uint64_t |-> [w |-> 8, signed |-> FALSE],
     int32_t |-> [w |-> 4, signed |-> TRUE],  uint32_t |-> [w |-> 4, signed |-> FALSE],
     int16_t |-> [w |-> 2, signed |-> TRUE],  uint16_t |-> [w |-> 2, signed |-> FALSE],
     int8_t  |-> [w |-> 1, signed |-> TRUE],  uint8_t  |-> [w |-> 1, signed |-> FALSE],
     size_t  |-> [w |-> 8, signed |-> FALSE], ptrdiff_t |-> [w |-> 8, signed |-> TRUE],
     time_t  |-> [w |-> 8, signed |-> TRUE],  uintptr_t |-> [w |-> 8, signed |-> FALSE],
     voidptr |-> [w |-> 8, signed |-> FALSE]]

(***************************************************************************)
(* Bytes.                                                                  *)
(***************************************************************************)
\* An integer converted to a w-byte object: its w low-order base-256 digits
\* in two's complement (floored % and \div give them for negative i too).
RECURSIVE ToWord(_, _)
ToWord(i, w) == IF w = 0 THEN <<>> ELSE <<i % 256>> \o ToWord(i \div 256, w - 1)

\* The integer a byte tuple of at most 2 bytes holds (AtomicCounter's view).
RECURSIVE Unsigned(_)
Unsigned(b) == IF b = <<>> THEN 0 ELSE Head(b) + 256 * Unsigned(Tail(b))
ValueOf(b, ty) ==
    IF CType[ty].signed /\ b[Len(b)] >= 128
    THEN Unsigned(b) - 2 ^ (8 * Len(b)) ELSE Unsigned(b)

\* An addition that kept the carry out of the top byte (no wrap).
RECURSIVE AddBytesKeepCarry(_, _, _)
AddBytesKeepCarry(a, b, c) ==
    IF a = <<>> THEN (IF c > 0 THEN <<c>> ELSE <<>>)
    ELSE LET s == Head(a) + Head(b) + c
         IN <<s % 256>> \o AddBytesKeepCarry(Tail(a), Tail(b), s \div 256)

\* Byte-serial addition with carry c; the carry out of the top byte is lost.
RECURSIVE AddBytes(_, _, _)
AddBytes(a, b, c) ==
    IF a = <<>> THEN <<>>
    ELSE LET s == Head(a) + Head(b) + c
         IN <<s % 256>> \o AddBytes(Tail(a), Tail(b), s \div 256)

\* ~b
Complement(b) == [i \in DOMAIN b |-> 255 - b[i]]

\* a - b as a + ~b + 1.
SubBytes(a, b) == AddBytes(a, Complement(b), 1)

(***************************************************************************)
(* The GCC __atomic builtins: the new contents of the object, and         *)
(* what the builtin returns (the fetch_OP forms and load_n the old value, *)
(* the OP_fetch forms the new one, store_n nothing).                      *)
(***************************************************************************)
Update(builtin, old, v) ==
    CASE builtin \in {"add_fetch", "fetch_add"} -> AddBytes(old, v, 0)
      [] builtin \in {"sub_fetch", "fetch_sub"} -> SubBytes(old, v)
      [] builtin \in {"and_fetch", "fetch_and"} -> [i \in DOMAIN old |-> old[i] & v[i]]
      [] builtin \in {"or_fetch", "fetch_or"}   -> [i \in DOMAIN old |-> old[i] | v[i]]
      [] builtin = "load_n"                     -> old
      [] builtin = "store_n"                    -> v

FetchFirst == {"fetch_add", "fetch_sub", "fetch_and", "fetch_or", "load_n"}

Builtin(builtin, old, v) ==
    [new |-> Update(builtin, old, v),
     ret |-> CASE builtin = "store_n"    -> <<>>
               [] builtin \in FetchFirst -> old
               [] OTHER                  -> Update(builtin, old, v)]

(***************************************************************************)
(* The functions.  An entry records the documented operation (kind), the   *)
(* type of *var, the type of the argument parameter, the builtin, and the  *)
(* operand passed: the parameter, its complement ~bits, the constant 1 of  *)
(* the inc/dec wrappers (which call add/sub with 1), or none.              *)
(***************************************************************************)
Entry(kind, ty, argty, builtin, operand) ==
    [kind |-> kind, ty |-> ty, argty |-> argty, builtin |-> builtin, operand |-> operand]

PreFamily(ty, addty, subty) ==
    ("atomic_add_" \o ty :> Entry("add", ty, addty, "add_fetch", "param")) @@
    ("atomic_inc_" \o ty :> Entry("inc", ty, addty, "add_fetch", "one")) @@
    ("atomic_sub_" \o ty :> Entry("sub", ty, subty, "sub_fetch", "param")) @@
    ("atomic_dec_" \o ty :> Entry("dec", ty, subty, "sub_fetch", "one"))

PostFamily(ty) ==
    ("atomic_postadd_" \o ty :> Entry("postadd", ty, ty, "fetch_add", "param")) @@
    ("atomic_postinc_" \o ty :> Entry("postinc", ty, ty, "fetch_add", "one")) @@
    ("atomic_postsub_" \o ty :> Entry("postsub", ty, ty, "fetch_sub", "param")) @@
    ("atomic_postdec_" \o ty :> Entry("postdec", ty, ty, "fetch_sub", "one"))

BitFamily(ty) ==
    ("atomic_clear_" \o ty \o "_bits" :> Entry("clear", ty, ty, "and_fetch", "notparam")) @@
    ("atomic_set_" \o ty \o "_bits" :> Entry("set", ty, ty, "or_fetch", "param"))

PostBitFamily(ty) ==
    ("atomic_postclear_" \o ty \o "_bits" :> Entry("postclear", ty, ty, "fetch_and", "notparam")) @@
    ("atomic_postset_" \o ty \o "_bits" :> Entry("postset", ty, ty, "fetch_or", "param"))

LoadStore(ty) ==
    ("atomic_fetch_" \o ty :> Entry("fetch", ty, ty, "load_n", "none")) @@
    ("atomic_store_" \o ty :> Entry("store", ty, ty, "store_n", "param"))

\* atomic_sub_uint64_t calling __atomic_add_fetch, a copy of its neighbour.
PreOps64SubAdds ==
    ("atomic_sub_uint64_t" :> Entry("sub", "uint64_t", "uint64_t", "add_fetch", "param")) @@
    PreFamily("int64_t", "int64_t", "int64_t") @@ PreFamily("uint64_t", "uint64_t", "uint64_t")
\* Lines 85-212: the pre-operations on int64_t and uint64_t.
PreOps64 == PreFamily("int64_t", "int64_t", "int64_t") @@ PreFamily("uint64_t", "uint64_t", "uint64_t")
\* Lines 214-335: on int32_t and uint32_t.
PreOps32 == PreFamily("int32_t", "int32_t", "int32_t") @@ PreFamily("uint32_t", "uint32_t", "uint32_t")
\* Lines 337-460: on int16_t and uint16_t.
PreOps16 == PreFamily("int16_t", "int16_t", "int16_t") @@ PreFamily("uint16_t", "uint16_t", "uint16_t")
\* Lines 462-584: on int8_t and uint8_t; atomic_add_uint8_t (and the
\* atomic_inc_uint8_t that calls it) takes an int8_t addend.
PreOps8 == PreFamily("int8_t", "int8_t", "int8_t") @@ PreFamily("uint8_t", "int8_t", "uint8_t")
\* Lines 586-646: on size_t.
PreOpsSize == PreFamily("size_t", "size_t", "size_t")

\* Lines 648-777, 779-902, 904-1029, 1031-1154, 1156-1216: the
\* post-operations, returning the value before.
PostOps64 == PostFamily("int64_t") @@ PostFamily("uint64_t")
PostOps32 == PostFamily("int32_t") @@ PostFamily("uint32_t")
PostOps16 == PostFamily("int16_t") @@ PostFamily("uint16_t")
PostOps8 == PostFamily("int8_t") @@ PostFamily("uint8_t")
PostOpsSize == PostFamily("size_t")

\* Lines 1218-1349: clear/set bits of the unsigned types, value after.
BitOps == BitFamily("uint64_t") @@ BitFamily("uint32_t") @@
          BitFamily("uint16_t") @@ BitFamily("uint8_t")
\* Lines 1351-1488: postclear/postset bits, value before.
PostBitOps == PostBitFamily("uint64_t") @@ PostBitFamily("uint32_t") @@
              PostBitFamily("uint16_t") @@ PostBitFamily("uint8_t")

\* Lines 1490-1647: fetch and store of size_t, ptrdiff_t, time_t,
\* uintptr_t and void *.
LoadStoreWord == LoadStore("size_t") @@ LoadStore("ptrdiff_t") @@ LoadStore("time_t") @@
                 LoadStore("uintptr_t") @@ LoadStore("voidptr")
\* Lines 1649-1771: of the 64- and 32-bit integers.
LoadStore6432 == LoadStore("int64_t") @@ LoadStore("uint64_t") @@
                 LoadStore("int32_t") @@ LoadStore("uint32_t")
\* Lines 1773-1895: of the 16- and 8-bit integers.
LoadStore168 == LoadStore("int16_t") @@ LoadStore("uint16_t") @@
                LoadStore("int8_t") @@ LoadStore("uint8_t")

Api == PreOps64 @@ PreOps32 @@ PreOps16 @@ PreOps8 @@ PreOpsSize @@
       PostOps64 @@ PostOps32 @@ PostOps16 @@ PostOps8 @@ PostOpsSize @@
       BitOps @@ PostBitOps @@ LoadStoreWord @@ LoadStore6432 @@ LoadStore168

\* A call of fn on an object holding old with argument x: x is converted to
\* the parameter type, and the builtin converts its operand to the type of
\* *var (every parameter type of the header has the width of its *var).
Call(fn, old, x) ==
    LET e == Api[fn]
        p == ToWord(x, CType[e.argty].w)
        v == CASE e.operand = "param"    -> p
               [] e.operand = "notparam" -> Complement(p)
               [] e.operand = "one"      -> ToWord(1, CType[e.argty].w)
               [] e.operand = "none"     -> <<>>
    IN Builtin(e.builtin, old, v)

(***************************************************************************)
(* Threads calling the functions on shared cells.                          *)
(***************************************************************************)
FnsOf(ty) == {fn \in DOMAIN Api : Api[fn].ty = ty}

Init ==
    /\ \E init \in [Cells -> {0, -1}] :
          mem = [c \in Cells |-> ToWord(init[c], CType[CellType[c]].w)]
    /\ ret = [t \in Threads |-> NoValue]
    /\ lastfn = [t \in Threads |-> "none"]
    /\ lastarg = [t \in Threads |-> 0]
    /\ calls = [t \in Threads |-> 0]

\* Thread t calls fn on cell c: one builtin, one indivisible step.
CallOn(t, c, fn, x) ==
    LET r == Call(fn, mem[c], x) IN
    /\ calls[t] < MaxCalls
    /\ mem' = [mem EXCEPT ![c] = r.new]
    /\ ret' = [ret EXCEPT ![t] = IF r.ret = <<>> THEN NoValue
                                 ELSE [bytes |-> r.ret, ty |-> CellType[c]]]
    /\ lastfn' = [lastfn EXCEPT ![t] = fn]
    /\ lastarg' = [lastarg EXCEPT ![t] = x]
    /\ calls' = [calls EXCEPT ![t] = @ + 1]

\* Every thread has made its calls.
Finished == (\A t \in Threads : calls[t] = MaxCalls) /\ UNCHANGED avars

Next ==
    \/ \E t \in Threads, c \in Cells, x \in Args :
          \E fn \in FnsOf(CellType[c]) : CallOn(t, c, fn, x)
    \/ Finished

Spec == Init /\ [][Next]_avars

(***************************************************************************)
(* Properties.                                                             *)
(***************************************************************************)
TypeOK ==
    /\ \A c \in Cells : mem[c] \in [1..CType[CellType[c]].w -> 0..255]
    /\ \A t \in Threads : lastfn[t] \in DOMAIN Api \cup {"none"}
    /\ calls \in [Threads -> 0..MaxCalls]

Counter == INSTANCE AtomicCounter WITH
    Width <- CType,
    val <- [c \in Cells |-> ValueOf(mem[c], CellType[c])],
    ret <- [t \in Threads |-> IF ret[t] = NoValue THEN NoValue
                             ELSE ValueOf(ret[t].bytes, ret[t].ty)],
    op <- [t \in Threads |-> IF lastfn[t] = "none" THEN "none"
                            ELSE Api[lastfn[t]].kind],
    arg <- lastarg

\* Integers standing for the values and arguments of every width: 255 and
\* 128 are -1 and -128 of the signed 8-bit types, -1 is the maximum of the
\* unsigned ones, 200 is an addend atomic_add_uint8_t's int8_t parameter
\* turns negative.
Samples == {0, 1, -1, 127, 128, 255}
Operands == {1, -1, 127, 128, 200, 255}

\* Every function of the header, on every sample value and argument, leaves
\* in *var and returns exactly what its @brief and @return lines say
\* (AtomicCounter), wrapped to its width: the byte arithmetic of the
\* builtins, the operand each wrapper passes (1, ~bits, the int8_t addend)
\* and the choice of the __atomic_OP_fetch or __atomic_fetch_OP form.  It
\* is a statement about the functions alone, evaluated in the initial states.
ApiMatchesDocs ==
    calls = [t \in Threads |-> 0] =>
    \A fn \in DOMAIN Api, s \in Samples, x \in Operands :
        LET e == Api[fn]
            w == CType[e.ty].w
            r == Call(fn, ToWord(s, w), x)
            n == Counter!DocNew(e.kind, s, x)
        IN  (e.kind \in Counter!BitKinds => s >= 0 /\ x >= 0) =>
                /\ r.new = ToWord(n, w)
                /\ r.ret = CASE e.kind = "store"               -> <<>>
                             [] e.kind \in Counter!ReturnsBefore -> ToWord(s, w)
                             [] OTHER                            -> ToWord(n, w)

=============================================================================
