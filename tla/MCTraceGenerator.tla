--------------------------- MODULE MCTraceGenerator ---------------------------
(***************************************************************************)
(* Sources for the generator: a header tracepoint (s1, with one argument  *)
(* of every TP_*_ARR macro) included by a.c and b.c, an event of a.c      *)
(* declared again at another location in b.c (s2, s4), an invalid format  *)
(* in c.c (s5), d.c whose calls fail the event-name and side-effect       *)
(* checks of run(), e.c with a call at LTTng's argument limit (s9) and    *)
(* one above it through its arrays (s10), and f.c with a struct argument  *)
(* (s11) and a call of fewer than four arguments.                         *)
(***************************************************************************)
EXTENDS TraceGenerator

CONSTANTS s1, s2, s3, s4, s5, s6, s7, s8, s9, s10, s11, P1, P2, E1, E2, E3,
          L1, L2, L3, L4, L5, L6, L7, L8, L9, L10, L11

\* The characters of a format: a brace, the letters of "fnc", or any other.
Lb == "{"
Rb == "}"
F == "f"
X == "x"

\* n parameters "{}".
Params(n) == FlattenSeq([i \in 1..n |-> <<Lb, Rb>>])

\* A variable argument, and any other expression, of a type.
Var(n, t) == [kind |-> "var", name |-> n, ty |-> t, side |-> FALSE]
Expr(t) == [kind |-> "expr", name |-> "", ty |-> t, side |-> FALSE]

MCSites == {s1, s2, s3, s4, s5, s6, s7, s8, s9, s10, s11}
MCProv == (s1 :> P1) @@ (s2 :> P1) @@ (s3 :> P2) @@ (s4 :> P1) @@ (s5 :> P2)
          @@ (s6 :> P2) @@ (s7 :> P1) @@ (s8 :> P2) @@ (s9 :> P1)
          @@ (s10 :> P2) @@ (s11 :> P1)
MCEvent == (s1 :> E1) @@ (s2 :> E2) @@ (s3 :> E1) @@ (s4 :> E2) @@ (s5 :> E2)
           @@ (s6 :> E2) @@ (s7 :> E1) @@ (s8 :> E2) @@ (s9 :> E3)
           @@ (s10 :> E3) @@ (s11 :> E3)
MCLoc == (s1 :> L1) @@ (s2 :> L2) @@ (s3 :> L3) @@ (s4 :> L4) @@ (s5 :> L5)
         @@ (s6 :> L6) @@ (s7 :> L7) @@ (s8 :> L8) @@ (s9 :> L9)
         @@ (s10 :> L10) @@ (s11 :> L11)
MCFault == (s6 :> "event") @@ (s8 :> "early") @@ [s \in MCSites |-> "none"]
\* Formats on which the scanner and the stated rule agree; s1 names its
\* caller with "{fnc}"; s5's "x{}{" leaves a "{" open.
MCFormat == (s1 :> <<Lb, F, Rb, X>> \o Params(5)) @@ (s2 :> <<Lb, Lb, Rb, Rb>>)
            @@ (s3 :> <<Lb, Rb, Rb, Rb>>) @@ (s4 :> <<X>>)
            @@ (s5 :> <<X, Lb, Rb, Lb>>) @@ (s6 :> <<X>>) @@ (s7 :> Params(1))
            @@ (s8 :> <<X>>) @@ (s9 :> Params(9)) @@ (s10 :> Params(6))
            @@ (s11 :> Params(1))
MCCaller == [s \in MCSites |-> <<X>>]
\* s9: nine arguments, the format making ten LTTng arguments; s10: the four
\* variable-length arrays and two integers, eleven; s7 passes "i++".
MCArgs == (s1 :> <<Var("num", "int"), Var("ia", "vl_int"), Var("ua", "vl_uint"),
                      Var("ba", "vl_byte"), Var("name", "vl_str")>>) @@ (s2 :> <<>>)
          @@ (s3 :> <<[kind |-> "enumconst", name |-> "", ty |-> "enum",
                       side |-> FALSE]>>)
          @@ (s4 :> <<>>)
          @@ (s5 :> <<[kind |-> "strlit", name |-> "", ty |-> "chararr",
                       side |-> FALSE]>>)
          @@ (s6 :> <<>>)
          @@ (s7 :> <<[Expr("int") EXCEPT !.side = TRUE]>>)
          @@ (s8 :> <<>>)
          @@ (s9 :> <<Var("_tmp", "int"), Expr("char"), Expr("float"),
                      Var("ptr", "ptr"), Expr("nullstr"), Var("buf", "chararr"),
                      Var("ids", "intarr"), Expr("int"), Expr("int")>>)
          @@ (s10 :> <<Expr("vl_int"), Expr("vl_uint"), Expr("vl_byte"),
                       Expr("vl_str"), Expr("int"), Expr("int")>>)
          @@ (s11 :> <<Var("strct", "struct")>>)
MCUnderscored == {"_tmp"}
\* s5 with "{}}{{}": a parameter, then a lone "}" inside "{...}".
MCFormatLoneBrace == [MCFormat EXCEPT ![s5] = <<Lb, Rb, Rb, Lb, Lb, Rb>>]
\* s4 traces a local variable called "format": "{}", format.
MCFormatOneParam == [MCFormat EXCEPT ![s4] = Params(1)]
MCArgsFormatVar == [MCArgs EXCEPT ![s4] = <<Var("format", "ptr")>>]
MCSources == <<"a.c", "b.c", "c.c", "d.c", "e.c", "f.c">>
MCMatches == ("a.c" :> <<s1, s2>>) @@ ("b.c" :> <<s1, s3, s4>>)
             @@ ("c.c" :> <<s5>>) @@ ("d.c" :> <<s6, s7>>)
             @@ ("e.c" :> <<s9, s10>>) @@ ("f.c" :> <<s11, s8>>)
MCFilterOpts == {NoProvider, P1, P2}
=============================================================================
