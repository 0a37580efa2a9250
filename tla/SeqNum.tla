------------------------------- MODULE SeqNum -------------------------------
(***************************************************************************)
(* RTP sequence numbers: the unsigned short arithmetic of                  *)
(* lib/raop_buffer.cpp.  SeqMod stands for 2^16.  Sums and differences of  *)
(* two numbers are brought back into range by one addition or subtraction, *)
(* which is what the conversion to unsigned short (or to short) does to    *)
(* them, and keeps the definitions linear.                                 *)
(***************************************************************************)
EXTENDS Integers

CONSTANT SeqMod   \* how many sequence numbers there are, 65536 in the code

ASSUME SeqModAssumption == SeqMod \in Nat \ {0} /\ SeqMod % 2 = 0

Seqnums == 0 .. SeqMod - 1
HalfMod == SeqMod \div 2

Wrap_NoConversion(n) == n        \* mutation: kept in an int
(* The conversion of an int in -SeqMod .. 2*SeqMod-1 to unsigned short. *)
Wrap(n) == IF n < 0 THEN n + SeqMod ELSE IF n >= SeqMod THEN n - SeqMod ELSE n

(* seqnum_cmp: the difference s1 - s2 converted to (signed) short. *)
seqnum_cmp(s1, s2) ==
  LET d == s1 - s2
  IN  IF d >= HalfMod THEN d - SeqMod
      ELSE IF d < -HalfMod THEN d + SeqMod
      ELSE d
=============================================================================
