------------------------------ MODULE MCAtomic ------------------------------
(***************************************************************************)
(* Two threads calling the header's functions on a uint8_t and an int16_t *)
(* cell: the 8-bit cell has every family (bit operations included) and   *)
(* the 16-bit one carries and borrows between bytes.                       *)
(***************************************************************************)
EXTENDS AbstractAtomic

CONSTANTS a1, a2, c1, c2

MCCellType == [c \in {c1, c2} |-> IF c = c1 THEN "uint8_t" ELSE "int16_t"]

\* 1, an addend the int8_t parameter of atomic_add_uint8_t makes negative,
\* and -1 (all bits; the maximum of the unsigned type).
MCArgs == {1, 200, -1}
=============================================================================
