----------------------------- MODULE MCBitPump -----------------------------
(***************************************************************************)
(* A pump scaled down: bytes of two bits, a register of four bytes.  The   *)
(* four byte values are the four that fill() tells apart; a Restart or     *)
(* EndOfImage byte that follows no Prefix is ordinary data.                *)
(***************************************************************************)
EXTENDS BitPump, SequencesExt

UpTo(len) == BoundedSeq(0..3, len)

(* Longer inputs, for several fast refills in a row.                       *)
Long == {s \o <<1, 2>> : s \in [1..5 -> {0, 1, 3}]} \cup UpTo(4)
=============================================================================
