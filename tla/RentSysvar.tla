----------------------------- MODULE RentSysvar -----------------------------
(***************************************************************************)
(* rent_minimum_balance (instructions/shared.rs) next to what the runtime  *)
(* enforces, for both layouts of the rent sysvar, every exemption          *)
(* threshold, and machine arithmetic: u64 multiplication that is checked,  *)
(* and an f64 path whose results have only so many significant bits.       *)
(* RentLedger takes the rent per byte as a number; here is where the       *)
(* program gets it from.                                                   *)
(***************************************************************************)
EXTENDS Integers

CONSTANTS
  U64Max,     \* the largest u64
  Precision,  \* significant bits of an f64, 53 in the code
  Overhead,   \* ACCOUNT_STORAGE_OVERHEAD, 128 in the code
  Layout,     \* "classic" (17 bytes), "condensed" (8 bytes), "missing"
  BytePrice,  \* values of the u64 that either layout starts with
  Threshold,  \* exemption thresholds: a finite one is num / 2^exp
  DataSize    \* data lengths that the program asks about

\* A data length and the overhead are a word: an account has at most 10 MiB.
ASSUME SysvarAssumption ==
  /\ U64Max \in Nat /\ Overhead \in Nat /\ Precision \in Nat \ {0}
  /\ Layout \subseteq {"classic", "condensed", "missing"}
  /\ BytePrice \subseteq 0..U64Max
  /\ Threshold \subseteq
       [kind : {"finite", "nan", "infinite", "negative"}, num : Nat, exp : Nat]
  /\ DataSize \subseteq Nat /\ \A n \in DataSize : Overhead + n <= U64Max

VARIABLES sysvar, data_len

sysvarVars == <<sysvar, data_len>>

One == [kind |-> "finite", num |-> 1, exp |-> 0]
Two == [kind |-> "finite", num |-> 2, exp |-> 0]

Bytes == Overhead + data_len
Base == Bytes * sysvar.rate

-----------------------------------------------------------------------------
(* Machine arithmetic.  A computation that may fail is the set of its      *)
(* result: empty if it fails.                                              *)

\* Mutated form: wrapping_mul.
WrappingMul(m, n) == {(m * n) % (U64Max + 1)}

CheckedMul(m, n) == IF m * n <= U64Max THEN {m * n} ELSE {}

Pow2[n \in Nat] == IF n = 0 THEN 1 ELSE 2 * Pow2[n - 1]

SignificantBits(n) == CHOOSE b \in 0..n : n < Pow2[b] /\ (b = 0 \/ n >= Pow2[b - 1])

\* The f64 next to n, the one with an even significand if two are.
Rounded(n) ==
  IF n < Pow2[Precision] THEN n
  ELSE LET unit == Pow2[SignificantBits(n) - Precision]
           below == n \div unit
           rest == n % unit
           up == (2 * rest > unit) \/ (2 * rest = unit /\ below % 2 = 1)
       IN  unit * (IF up THEN below + 1 ELSE below)

\* (n as f64 * threshold) as u64; the cast saturates.
FloatTimes(n, threshold) ==
  LET product == Rounded(Rounded(n) * threshold.num) \div Pow2[threshold.exp]
  IN  IF product > U64Max THEN U64Max ELSE product

-----------------------------------------------------------------------------
(* The program and the runtime *)

\* get_sysvar of 17 bytes; only a shorter sysvar leads on to the 8 bytes.
ClassicRead == sysvar.layout = "classic"
CondensedRead == sysvar.layout = "condensed"

\* Mutated form: pinocchio's Rent, which takes every sysvar for condensed.
CondensedOnly == CheckedMul(Bytes, sysvar.rate)

ClassicMinimum ==
  UNION {IF sysvar.threshold = One THEN {base}
         ELSE IF sysvar.threshold = Two THEN CheckedMul(base, 2)
         ELSE IF sysvar.threshold.kind # "finite" THEN {}
         ELSE {FloatTimes(base, sysvar.threshold)} :
         base \in CheckedMul(Bytes, sysvar.rate)}

rent_minimum_balance ==
  IF ClassicRead THEN ClassicMinimum
  ELSE IF CondensedRead THEN CheckedMul(Bytes, sysvar.rate)
  ELSE {}

\* What the runtime asks of an account of this length: with the classic
\* sysvar it always goes through f64.
RuntimeMinimum ==
  IF sysvar.layout = "classic" THEN FloatTimes(Base, sysvar.threshold) ELSE Base

Sysvar == [layout : Layout, rate : BytePrice, threshold : Threshold]

SysvarInit == sysvar \in Sysvar /\ data_len \in DataSize

\* The cluster changes its rent, or goes over to the other layout.
ClusterUpdates == sysvar' \in Sysvar /\ UNCHANGED data_len

\* The next account that is sized.
OtherLength == data_len' \in DataSize /\ UNCHANGED sysvar

SysvarSpec == SysvarInit /\ [][ClusterUpdates \/ OtherLength]_sysvarVars

-----------------------------------------------------------------------------
(* Properties *)

\* The minimum that rent_minimum_balance returns is the runtime's: an
\* account settled to it is exempt, and nobody pays more.  The special
\* cases for the thresholds 1.0 and 2.0 agree with the f64 path, and so do
\* both layouts, as long as f64 holds the product of length and rate
\* exactly (below 2^53, or 10 MiB at 858 million lamports per byte).
AsksWhatTheRuntimeAsks ==
  Base <= Pow2[Precision] =>
    \A minimum \in rent_minimum_balance : minimum = RuntimeMinimum

\* When the numbers get too large the program refuses instead of settling
\* an account to a remainder: a minimum it returns is at least the length
\* times the rate where the threshold is at least 1, up to the rounding of
\* f64, and it fails only for a reason.
FailsInsteadOfWrapping ==
  LET t == sysvar.threshold
      weighed == sysvar.layout = "classic" IN
  /\ \A minimum \in rent_minimum_balance :
       (weighed => t.kind = "finite" /\ t.num >= Pow2[t.exp]) =>
         minimum >= Base - Base \div Pow2[Precision]
  /\ rent_minimum_balance = {} =>
       \/ sysvar.layout = "missing"
       \/ weighed /\ t.kind # "finite"
       \/ Base > U64Max
       \/ weighed /\ t = Two /\ 2 * Base > U64Max

=============================================================================
