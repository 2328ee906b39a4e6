---------------------------- MODULE AccountBytes ----------------------------
(***************************************************************************)
(* The data of an account as the program handles it: a sequence of cells,  *)
(* addressed by offsets from 0, that is read with a bounds-checked cursor  *)
(* (src/program/src/reader.rs) and edited in place by moving its tail      *)
(* (state.rs and the instructions that resize).  A cell stands for one     *)
(* field of fixed width: a byte of a payload, or a whole count or length.  *)
(***************************************************************************)
EXTENDS Integers, Sequences

-----------------------------------------------------------------------------
(* The reader.  A cursor past the end of d is a failed read, and stays one:  *)
(* counts and lengths out of bounds read as nothing.                       *)

\* The number at p, once the cursor is known to be in bounds.
U32(d, p) == IF p < Len(d) THEN d[p + 1] ELSE 0

\* Where the length-prefixed field at a position ends.
FieldEnd(d) ==
  [p \in Nat |-> IF p + 1 + U32(d, p) <= Len(d) THEN p + 1 + U32(d, p) ELSE Len(d) + 1]

LenPrefixed(d, p) == FieldEnd(d)[p]

Slice(d, from, to) == SubSeq(d, from + 1, to)

\* The payload of the length-prefixed field at p.
Payload(d, p) == Slice(d, p + 1, LenPrefixed(d, p))

Prefixed(bytes) == <<Len(bytes)>> \o bytes

-----------------------------------------------------------------------------
(* The writes.  A range out of bounds panics, and the runtime rolls the    *)
(* instruction back; here the account is marked, so that the properties    *)
(* see that it happened.  Cells are naturals: no account looks like this.  *)

Panicked == <<-1>>

\* AccountView::resize: new cells are zero.
Resize(d, n) ==
  IF d = Panicked THEN Panicked
  ELSE [i \in 1..n |-> IF i <= Len(d) THEN d[i] ELSE 0]

\* copy_within(from..to, dest), which the two ranges may overlap in.
CopyWithin(d, from, to, dest) ==
  IF d # Panicked /\ from <= to /\ to <= Len(d) /\ dest + (to - from) <= Len(d)
  THEN [i \in 1..Len(d) |->
          IF i \in dest + 1 .. dest + (to - from) THEN d[i - dest + from] ELSE d[i]]
  ELSE Panicked

\* copy_from_slice into at..at + len.
Patch(d, at, bytes) ==
  IF d # Panicked /\ at + Len(bytes) <= Len(d)
  THEN [i \in 1..Len(d) |->
          IF i \in at + 1 .. at + Len(bytes) THEN bytes[i - at] ELSE d[i]]
  ELSE Panicked

-----------------------------------------------------------------------------
(* The edits.  space is the size the instruction computes for the entry,   *)
(* from vm_space or service_space, before anything is written.             *)

\* Mutated form: the tail is moved before the account has grown.
InsertBeforeGrowth(d, at, space, entry) ==
  Resize(Patch(CopyWithin(d, at, Len(d), at + space), at, entry), Len(d) + space)

\* grow and insert_vm.
InsertEntry(d, at, space, entry) ==
  Patch(CopyWithin(Resize(d, Len(d) + space), at, Len(d), at + space), at, entry)

\* grow and write_service at the old end.
AppendEntry(d, space, entry) ==
  Patch(Resize(d, Len(d) + space), Len(d), entry)

\* Mutated form: the account is resized first, whether it grows or shrinks.
ReplaceResizedFirst(d, start, end, space, entry) ==
  LET newLen == Len(d) - end + start + space IN
  Patch(CopyWithin(Resize(d, newLen), end, Len(d), start + space), start, entry)

\* update_service and set_controllers: grow before the move if the account
\* gets longer, shrink after it if it gets shorter.
ReplaceSpan(d, start, end, space, entry) ==
  LET newLen == Len(d) - end + start + space
      room   == IF newLen > Len(d) THEN Resize(d, newLen) ELSE d
      edited == Patch(CopyWithin(room, end, Len(d), start + space), start, entry)
  IN IF newLen < Len(d) THEN Resize(edited, newLen) ELSE edited

\* Mutated form: the freed cells stay at the end of the account.
RemoveKeepingLength(d, start, end) == CopyWithin(d, end, Len(d), start)

\* The tail closes the gap, then shrink.
RemoveSpan(d, start, end) ==
  Resize(CopyWithin(d, end, Len(d), start), Len(d) - (end - start))

=============================================================================
