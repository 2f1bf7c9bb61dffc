---------------------------- MODULE AtomicCounter ----------------------------
(***************************************************************************)
(* The contract of the atomics header as its callers see it (spec section  *)
(* 3, "AtomicCounter"; the @brief and @return lines of each function of    *)
(* abstract_atomic.h): a cell holds a value of its C type; each operation  *)
(* is one indivisible step in a single total order (sequential            *)
(* consistency); the value it leaves is the mathematical result wrapped    *)
(* into the type's range, and it returns either the value after the        *)
(* operation (add, inc, sub, dec, clear, set) or the value before it       *)
(* (post*, fetch).  Values here are integers, so only cells of at most     *)
(* 16 bits are instantiated.                                               *)
(***************************************************************************)
EXTENDS Integers, Bitwise

CONSTANTS
    Threads,     \* callers
    Cells,       \* the shared variables
    CellType,    \* [Cells -> C type name]
    Width,       \* [C type name -> [w |-> bytes, signed |-> BOOLEAN]]
    Args,        \* integer arguments a caller may pass
    MaxCalls,    \* operations per caller
    NoValue      \* what a caller holds before its first call, and after a store

VARIABLES
    val,         \* [Cells -> Int]: the value of each cell
    ret,         \* [Threads -> Int \cup {NoValue}]: what the last call returned
    op,          \* [Threads -> Kinds \cup {"none"}]: the operation last called
    arg,         \* [Threads -> Args \cup {0}]: the argument it was passed
    calls        \* [Threads -> Nat]: operations made so far

cvars == <<val, ret, op, arg, calls>>

\* The documented operations, and those whose @return is "the value before".
Kinds == {"add", "inc", "sub", "dec", "postadd", "postinc", "postsub",
          "postdec", "clear", "set", "postclear", "postset", "fetch", "store"}
ReturnsBefore == {"postadd", "postinc", "postsub", "postdec",
                  "postclear", "postset", "fetch"}
BitKinds == {"clear", "set", "postclear", "postset"}

\* The range of a C type, and an integer converted into it (C's modular
\* conversion; for signed types the two's complement the build uses).
Modulus(ty) == 2 ^ (8 * Width[ty].w)
Wrap(i, ty) ==
    IF Width[ty].signed
    THEN ((i + Modulus(ty) \div 2) % Modulus(ty)) - Modulus(ty) \div 2
    ELSE i % Modulus(ty)

\* The value an operation leaves, before it is wrapped into the type; the
\* bit operations act on non-negative values.
DocNew(kind, v, x) ==
    CASE kind \in {"add", "postadd"}     -> v + x
      [] kind \in {"inc", "postinc"}     -> v + 1
      [] kind \in {"sub", "postsub"}     -> v - x
      [] kind \in {"dec", "postdec"}     -> v - 1
      [] kind \in {"clear", "postclear"} -> v - (v & x)
      [] kind \in {"set", "postset"}     -> v | x
      [] kind = "fetch"                  -> v
      [] kind = "store"                  -> x

\* What the operation returns, given the value v before and n after it.
DocRet(kind, v, n) ==
    CASE kind = "store"          -> NoValue
      [] kind \in ReturnsBefore  -> v
      [] OTHER                   -> n

CInit ==
    /\ \E init \in [Cells -> {0, -1}] :
          val = [c \in Cells |-> Wrap(init[c], CellType[c])]
    /\ ret = [t \in Threads |-> NoValue]
    /\ op = [t \in Threads |-> "none"]
    /\ arg = [t \in Threads |-> 0]
    /\ calls = [t \in Threads |-> 0]

\* One operation of kind on cell c with argument x, as one atomic step.
Invoke(t, c, kind, x) ==
    LET ty == CellType[c]
        n  == Wrap(DocNew(kind, val[c], Wrap(x, ty)), ty)
    IN /\ calls[t] < MaxCalls
       /\ kind \in BitKinds => ~Width[ty].signed
       /\ val' = [val EXCEPT ![c] = n]
       /\ ret' = [ret EXCEPT ![t] = DocRet(kind, val[c], n)]
       /\ op' = [op EXCEPT ![t] = kind]
       /\ arg' = [arg EXCEPT ![t] = x]
       /\ calls' = [calls EXCEPT ![t] = @ + 1]

CNext == \E t \in Threads, c \in Cells, kind \in Kinds, x \in Args :
             Invoke(t, c, kind, x)

CSpec == CInit /\ [][CNext]_cvars
=============================================================================
