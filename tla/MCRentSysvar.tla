---------------------------- MODULE MCRentSysvar ----------------------------
(***************************************************************************)
(* Constants of RentSysvar for TLC: 10-bit words, floats of 7 significant  *)
(* bits, thresholds with and without a fraction, and what f64 has besides. *)
(***************************************************************************)
EXTENDS RentSysvar

Finite(num, exp) == [kind |-> "finite", num |-> num, exp |-> exp]
Odd(kind) == [kind |-> kind, num |-> 0, exp |-> 0]

MCThreshold ==
  {One, Two, Finite(0, 0), Finite(1, 1), Finite(3, 1), Finite(13, 2), Finite(31, 4),
   Finite(3, 0), Odd("nan"), Odd("infinite"), Odd("negative")}

=============================================================================
