----------------------------- MODULE ClntVcArith -----------------------------
(***************************************************************************)
(* The integer conversions clnt_vc.c performs on the transaction id kept  *)
(* in the pre-serialised call header and on the wait time handed to       *)
(* poll(2), modelled by what they do on the bytes and 32-bit words of the *)
(* build (LP64, 32-bit int).                                               *)
(*                                                                         *)
(* A 32-bit word in memory is a tuple of four bytes in address order.     *)
(* ct_mcallc holds the header as XDR wrote it, so its first four bytes    *)
(* (ct_mcalli) are the xid in network (big-endian) order; reading them    *)
(* with ntohl gives the xid whose big-endian bytes they are.  The model   *)
(* therefore represents an xid by its big-endian byte tuple, which is     *)
(* also exactly the memory content of ct_mcalli.                          *)
(***************************************************************************)
EXTENDS Integers

CONSTANT LittleEndian   \* TRUE for the x86/ARM builds the library ships for

Byte == 0..255
Word == [1..4 -> Byte]

\* The big-endian bytes of a non-negative integer below 2^31.
BE(n) == << (n \div 16777216) % 256, (n \div 65536) % 256,
            (n \div 256) % 256, n % 256 >>

\* Memory byte indices of a host-order u_int32_t, least significant first.
HostLsbFirst == IF LittleEndian THEN <<1, 2, 3, 4>> ELSE <<4, 3, 2, 1>>

\* Subtract one from the word whose digits, least significant first, are
\* the bytes of m at the indices ord[k], ord[k+1], ... (borrowing upward).
RECURSIVE Borrow(_, _, _)
Borrow(m, ord, k) ==
    IF k > 4 THEN m
    ELSE IF m[ord[k]] > 0 THEN [m EXCEPT ![ord[k]] = @ - 1]
         ELSE Borrow([m EXCEPT ![ord[k]] = 255], ord, k + 1)

\* Add one to a word whose digits, least significant first, sit at ord.
RECURSIVE Carry(_, _, _)
Carry(m, ord, k) ==
    IF k > 4 THEN m
    ELSE IF m[ord[k]] < 255 THEN [m EXCEPT ![ord[k]] = @ + 1]
         ELSE Carry([m EXCEPT ![ord[k]] = 0], ord, k + 1)

\* clnt_vc_call line 398: the pre-decrement of *msg_x_id treats ct_mcalli
\* as a host-order integer although it holds network-order bytes.
DecrHostWord(m) == Borrow(m, HostLsbFirst, 1)

\* Variant: htonl(v) without the increment.
HtonlSame(v) == v

(* clnt_vc_control CLSET_XID line 634: htonl(v + 1), i.e. the big-endian  *)
(* bytes of the 32-bit sum v + 1.                                          *)
HtonlSuccessor(v) == Carry(v, <<4, 3, 2, 1>>, 1)

(* read_vc lines 732-733: (int)((tv_sec * 1000) + (tv_usec / 1000)).  The *)
(* sum is computed in 64-bit long and truncated to a 32-bit int; poll(2)  *)
(* never returns 0 for a negative timeout.  The sum is split into 16-bit  *)
(* halves so that no intermediate value leaves TLC's integer range.       *)
PollBlocksForever(tv) ==
    LET s0  == tv[1] % 65536
        s1  == tv[1] \div 65536
        lo  == s0 * 1000 + tv[2] \div 1000
        hi  == (s1 * 1000 + lo \div 65536) % 65536
    IN  hi >= 32768

=============================================================================
