------------------------ MODULE AccountBytes_proofs ------------------------
(***************************************************************************)
(* What the in-place edits of AccountBytes leave in the account, for every *)
(* account, every place and every entry.                                   *)
(***************************************************************************)
EXTENDS AccountBytes, SequencesExt, FiniteSums, SequenceTheorems

\* The account d with what lies between two offsets exchanged for bytes.
Spliced(d, start, end, bytes) ==
  SubSeq(d, 1, start) \o bytes \o SubSeq(d, end + 1, Len(d))

-----------------------------------------------------------------------------
(* The writes *)

\* No account looks like a panic.
LEMMA NoPanic == ASSUME NEW d \in Seq(Nat) PROVE d # Panicked
<1>1. SUFFICES ASSUME d = Panicked PROVE FALSE
  OBVIOUS
<1>2. Len(d) = 1 /\ d[1] = -1
  BY <1>1 DEF Panicked
<1>3. d[1] \in Nat
  BY <1>2
<1> QED
  BY <1>2, <1>3

\* Resizing keeps the cells that fit and fills with zeros (AccountView::resize).
LEMMA Resized ==
  ASSUME NEW d \in Seq(Nat), NEW n \in Nat
  PROVE  /\ Resize(d, n) \in Seq(Nat)
         /\ Len(Resize(d, n)) = n
         /\ \A i \in 1..n : Resize(d, n)[i] = IF i <= Len(d) THEN d[i] ELSE 0
<1> DEFINE r == [i \in 1..n |-> IF i <= Len(d) THEN d[i] ELSE 0]
<1>1. Resize(d, n) = r
  BY NoPanic DEF Resize
<1>2. \A i \in 1..n : r[i] \in Nat
  BY ElementOfSeq
<1>3. r \in Seq(Nat) /\ Len(r) = n
  BY <1>2, IsASeq
<1> QED
  BY <1>1, <1>3

\* A range that fits is copied over, and nothing else changes (copy_within).
LEMMA Copied ==
  ASSUME NEW d \in Seq(Nat), NEW from \in Nat, NEW to \in Nat, NEW dest \in Nat,
         from <= to, to <= Len(d), dest + (to - from) <= Len(d)
  PROVE  /\ CopyWithin(d, from, to, dest) \in Seq(Nat)
         /\ Len(CopyWithin(d, from, to, dest)) = Len(d)
         /\ \A i \in 1..Len(d) : CopyWithin(d, from, to, dest)[i] =
              IF i \in dest + 1 .. dest + (to - from) THEN d[i - dest + from] ELSE d[i]
<1> DEFINE c == [i \in 1..Len(d) |->
                   IF i \in dest + 1 .. dest + (to - from) THEN d[i - dest + from] ELSE d[i]]
<1>1. CopyWithin(d, from, to, dest) = c
  BY NoPanic DEF CopyWithin
<1>2. ASSUME NEW i \in 1..Len(d) PROVE c[i] \in Nat
  BY ElementOfSeq
<1>3. c \in Seq(Nat) /\ Len(c) = Len(d)
  BY <1>2, IsASeq
<1> QED
  BY <1>1, <1>3

\* Bytes that fit are written at their offset, and nothing else changes.
LEMMA Patched ==
  ASSUME NEW d \in Seq(Nat), NEW at \in Nat, NEW bytes \in Seq(Nat),
         at + Len(bytes) <= Len(d)
  PROVE  /\ Patch(d, at, bytes) \in Seq(Nat)
         /\ Len(Patch(d, at, bytes)) = Len(d)
         /\ \A i \in 1..Len(d) : Patch(d, at, bytes)[i] =
              IF i \in at + 1 .. at + Len(bytes) THEN bytes[i - at] ELSE d[i]
<1> DEFINE c == [i \in 1..Len(d) |->
                   IF i \in at + 1 .. at + Len(bytes) THEN bytes[i - at] ELSE d[i]]
<1>1. Patch(d, at, bytes) = c
  BY NoPanic DEF Patch
<1>2. ASSUME NEW i \in 1..Len(d) PROVE c[i] \in Nat
  BY ElementOfSeq
<1>3. c \in Seq(Nat) /\ Len(c) = Len(d)
  BY <1>2, IsASeq
<1> QED
  BY <1>1, <1>3

\* The cells of a spliced account: before, inside and behind the bytes.
LEMMA SplicedCells ==
  ASSUME NEW d \in Seq(Nat), NEW bytes \in Seq(Nat),
         NEW start \in 0..Len(d), NEW end \in start..Len(d)
  PROVE  LET s == Spliced(d, start, end, bytes)
             n == Len(bytes)
         IN /\ s \in Seq(Nat)
            /\ Len(s) = start + n + (Len(d) - end)
            /\ \A i \in 1..Len(s) :
                 s[i] = IF i <= start THEN d[i]
                        ELSE IF i <= start + n THEN bytes[i - start]
                        ELSE d[i - start - n + end]
<1> DEFINE head == SubSeq(d, 1, start)
           tail == SubSeq(d, end + 1, Len(d))
           n == Len(bytes)
<1>1. Len(d) \in Nat /\ n \in Nat /\ start \in Nat /\ end \in Nat /\ start <= end /\ end <= Len(d)
  BY LenProperties
<1>2. /\ head \in Seq(Nat) /\ Len(head) = start
      /\ \A i \in 1..start : head[i] = d[i]
  BY <1>1
<1>3. /\ tail \in Seq(Nat) /\ Len(tail) = Len(d) - end
      /\ \A i \in 1..Len(d) - end : tail[i] = d[i + end]
  <2>1. \A i \in end + 1 .. Len(d) : d[i] \in Nat
    BY <1>1
  <2>2. tail \in Seq(Nat)
    BY <1>1, <2>1, SubSeqProperties
  <2>3. Len(tail) = Len(d) - end
    BY <1>1
  <2>4. \A i \in 1..Len(d) - end : tail[i] = d[i + end]
    BY <1>1
  <2> QED
    BY <2>2, <2>3, <2>4
<1> HIDE DEF head, tail
<1> DEFINE front == head \o bytes
<1>4. /\ front \in Seq(Nat) /\ Len(front) = Len(head) + n
      /\ \A i \in 1..Len(head) + n :
           front[i] = IF i <= Len(head) THEN head[i] ELSE bytes[i - Len(head)]
  BY <1>2, ConcatProperties, ZenonT(20)
<1> HIDE DEF front
<1>5. /\ front \o tail \in Seq(Nat) /\ Len(front \o tail) = Len(front) + Len(tail)
      /\ \A i \in 1..Len(front) + Len(tail) :
           (front \o tail)[i] = IF i <= Len(front) THEN front[i] ELSE tail[i - Len(front)]
  <2>1. front \in Seq(Nat) /\ tail \in Seq(Nat)
    BY <1>3, <1>4
  <2> QED
    BY <2>1, ConcatProperties, ZenonT(20)
<1>6. Spliced(d, start, end, bytes) = front \o tail
  BY DEF Spliced, front, head, tail
<1> DEFINE s == Spliced(d, start, end, bytes)
<1>7. s \in Seq(Nat) /\ Len(s) = start + n + (Len(d) - end)
  BY <1>1, <1>2, <1>3, <1>4, <1>5, <1>6
<1>8. ASSUME NEW i \in 1..Len(s)
      PROVE  s[i] = IF i <= start THEN d[i]
                    ELSE IF i <= start + n THEN bytes[i - start]
                    ELSE d[i - start - n + end]
  <2>1. s[i] = IF i <= start + n THEN front[i] ELSE tail[i - (start + n)]
    BY <1>1, <1>2, <1>3, <1>4, <1>5, <1>6, <1>7
  <2> HIDE DEF s
  <2>2. i \in 1..start + n + (Len(d) - end)
    BY <1>7
  <2>3. CASE i <= start
    <3>1. i \in 1..start /\ i \in 1..Len(head) + n /\ i <= Len(head)
      BY <1>1, <1>2, <2>2, <2>3
    <3>2. front[i] = d[i]
      BY <1>2, <1>4, <3>1, ZenonT(20)
    <3> QED
      BY <1>1, <2>1, <2>2, <2>3, <3>2
  <2>4. CASE start < i /\ i <= start + n
    BY <1>1, <1>2, <1>4, <2>1, <2>2, <2>4
  <2>5. CASE start + n < i
    <3>1. i - (start + n) \in 1..Len(d) - end
      BY <1>1, <2>2, <2>5
    <3>2. tail[i - (start + n)] = d[i - (start + n) + end]
      BY <1>3, <3>1
    <3>3. ~(i <= start + n) /\ ~(i <= start) /\ i - start - n + end = i - (start + n) + end
      BY <1>1, <2>2, <2>5
    <3> QED
      BY <2>1, <3>2, <3>3
  <2> QED
    BY <1>1, <2>2, <2>3, <2>4, <2>5
<1> QED
  BY <1>7, <1>8

-----------------------------------------------------------------------------
(* The edits *)

\* Growing the account, moving its tail and writing the entry in the gap puts
\* exactly the entry between what was before it and what was behind it
\* (grow and insert_vm).
THEOREM InsertSplices ==
  ASSUME NEW d \in Seq(Nat), NEW at \in 0..Len(d), NEW entry \in Seq(Nat)
  PROVE  InsertEntry(d, at, Len(entry), entry) = Spliced(d, at, at, entry)
<1> DEFINE n == Len(entry)
           grown == Resize(d, Len(d) + n)
           moved == CopyWithin(grown, at, Len(d), at + n)
           new == Patch(moved, at, entry)
           spliced == Spliced(d, at, at, entry)
<1>1. Len(d) \in Nat /\ n \in Nat /\ at \in Nat /\ at <= Len(d) /\ Len(d) + n \in Nat
  BY LenProperties
<1>2. /\ grown \in Seq(Nat) /\ Len(grown) = Len(d) + n
      /\ \A i \in 1..Len(d) + n : grown[i] = IF i <= Len(d) THEN d[i] ELSE 0
  BY <1>1, Resized, ZenonT(20)
<1> HIDE DEF grown
<1>3. /\ moved \in Seq(Nat) /\ Len(moved) = Len(d) + n
      /\ \A i \in 1..Len(d) + n : moved[i] =
           IF at + n < i THEN grown[i - n] ELSE grown[i]
  <2> DEFINE to == Len(d)
             dest == at + n
  <2>1. /\ grown \in Seq(Nat) /\ at \in Nat /\ to \in Nat /\ dest \in Nat
        /\ at <= to /\ to <= Len(grown)
        /\ dest + (to - at) <= Len(grown)
    BY <1>1, <1>2
  <2>2. moved = CopyWithin(grown, at, to, dest)
    OBVIOUS
  <2> HIDE DEF to, dest, moved
  <2>3. /\ moved \in Seq(Nat) /\ Len(moved) = Len(grown)
        /\ \A i \in 1..Len(grown) : moved[i] =
             IF i \in dest + 1 .. dest + (to - at) THEN grown[i - dest + at] ELSE grown[i]
    BY <2>1, <2>2, Copied
  <2>4. ASSUME NEW i \in 1..Len(d) + n
        PROVE  moved[i] = IF at + n < i THEN grown[i - n] ELSE grown[i]
    <3>1. i \in 1..Len(grown)
      BY <1>1, <1>2
    <3>2. moved[i] = IF i \in dest + 1 .. dest + (to - at) THEN grown[i - dest + at]
                     ELSE grown[i]
      BY <2>3, <3>1
    <3>3. i \in dest + 1 .. dest + (to - at) <=> at + n < i
      BY <1>1 DEF to, dest
    <3>4. i - dest + at = i - n
      BY <1>1 DEF dest
    <3> QED
      BY <3>2, <3>3, <3>4
  <2> QED
    BY <1>2, <2>3, <2>4
<1> HIDE DEF moved
<1>4. /\ new \in Seq(Nat) /\ Len(new) = Len(d) + n
      /\ \A i \in 1..Len(d) + n : new[i] =
           IF i \in at + 1 .. at + n THEN entry[i - at] ELSE moved[i]
  <2>1. moved \in Seq(Nat) /\ at \in Nat /\ at + Len(entry) <= Len(moved)
    BY <1>1, <1>3
  <2>2. /\ new \in Seq(Nat) /\ Len(new) = Len(moved)
        /\ \A i \in 1..Len(moved) : new[i] =
             IF i \in at + 1 .. at + n THEN entry[i - at] ELSE moved[i]
    BY <2>1, Patched
  <2> QED
    BY <1>3, <2>2
<1> HIDE DEF new
<1>5. /\ spliced \in Seq(Nat) /\ Len(spliced) = at + n + (Len(d) - at)
      /\ \A i \in 1..Len(spliced) :
           spliced[i] = IF i <= at THEN d[i]
                        ELSE IF i <= at + n THEN entry[i - at]
                        ELSE d[i - at - n + at]
  <2>1. at \in at..Len(d)
    BY <1>1
  <2> QED
    BY <2>1, SplicedCells, ZenonT(20)
<1> HIDE DEF spliced
<1>6. ASSUME NEW i \in 1..Len(d) + n PROVE new[i] = spliced[i]
  <2>1. /\ new[i] = IF i \in at + 1 .. at + n THEN entry[i - at] ELSE moved[i]
        /\ moved[i] = IF at + n < i THEN grown[i - n] ELSE grown[i]
        /\ grown[i] = IF i <= Len(d) THEN d[i] ELSE 0
    BY <1>2, <1>3, <1>4
  <2>2. spliced[i] = IF i <= at THEN d[i]
                     ELSE IF i <= at + n THEN entry[i - at]
                     ELSE d[i - at - n + at]
    <3>1. i \in 1..Len(spliced)
      BY <1>1, <1>5
    <3> QED
      BY <1>5, <3>1
  <2>3. CASE i <= at + n
    BY <1>1, <2>1, <2>2, <2>3
  <2>4. CASE at + n < i
    <3>1. i - n \in 1..Len(d) + n /\ i - n <= Len(d) /\ i - at - n + at = i - n
      BY <1>1, <2>4
    <3>2. grown[i - n] = d[i - n]
      BY <1>2, <3>1
    <3> QED
      BY <1>1, <2>1, <2>2, <2>4, <3>1, <3>2
  <2> QED
    BY <1>1, <2>3, <2>4
<1>7. Len(new) = Len(spliced) /\ \A i \in 1..Len(new) : new[i] = spliced[i]
  <2>1. Len(new) = Len(d) + n /\ Len(spliced) = Len(d) + n
    BY <1>1, <1>4, <1>5
  <2> QED
    BY <1>6, <2>1
<1>8. new = spliced
  BY <1>4, <1>5, <1>7, SeqEqual, ZenonT(20)
<1> QED
  BY <1>8 DEF InsertEntry, spliced, new, moved, grown

\* Growing the account and writing behind its old end appends exactly the
\* entry (grow and write_service).
THEOREM AppendSplices ==
  ASSUME NEW d \in Seq(Nat), NEW entry \in Seq(Nat)
  PROVE  AppendEntry(d, Len(entry), entry) = d \o entry
<1> DEFINE n == Len(entry)
           grown == Resize(d, Len(d) + n)
           new == Patch(grown, Len(d), entry)
           joined == d \o entry
<1>1. Len(d) \in Nat /\ n \in Nat /\ Len(d) + n \in Nat
  BY LenProperties
<1>2. /\ grown \in Seq(Nat) /\ Len(grown) = Len(d) + n
      /\ \A i \in 1..Len(d) + n : grown[i] = IF i <= Len(d) THEN d[i] ELSE 0
  BY <1>1, Resized, ZenonT(20)
<1> HIDE DEF grown
<1>3. /\ new \in Seq(Nat) /\ Len(new) = Len(d) + n
      /\ \A i \in 1..Len(d) + n : new[i] =
           IF i \in Len(d) + 1 .. Len(d) + n THEN entry[i - Len(d)] ELSE grown[i]
  <2> DEFINE at == Len(d)
  <2>1. grown \in Seq(Nat) /\ at \in Nat /\ at + Len(entry) <= Len(grown)
    BY <1>1, <1>2
  <2> HIDE DEF at, n
  <2>2. /\ Patch(grown, at, entry) \in Seq(Nat)
        /\ Len(Patch(grown, at, entry)) = Len(grown)
        /\ \A i \in 1..Len(grown) : Patch(grown, at, entry)[i] =
             IF i \in at + 1 .. at + Len(entry) THEN entry[i - at] ELSE grown[i]
    BY <2>1, Patched
  <2> QED
    BY <1>2, <2>2 DEF at, n
<1> HIDE DEF new
<1>4. /\ joined \in Seq(Nat) /\ Len(joined) = Len(d) + n
      /\ \A i \in 1..Len(d) + n :
           joined[i] = IF i <= Len(d) THEN d[i] ELSE entry[i - Len(d)]
  BY ConcatProperties, ZenonT(20)
<1> HIDE DEF joined
<1>5. ASSUME NEW i \in 1..Len(d) + n PROVE new[i] = joined[i]
  <2>1. /\ new[i] = IF i \in Len(d) + 1 .. Len(d) + n THEN entry[i - Len(d)] ELSE grown[i]
        /\ grown[i] = IF i <= Len(d) THEN d[i] ELSE 0
        /\ joined[i] = IF i <= Len(d) THEN d[i] ELSE entry[i - Len(d)]
    BY <1>2, <1>3, <1>4
  <2> QED
    BY <1>1, <2>1
<1>6. new = joined
  <2>1. Len(new) = Len(joined) /\ \A i \in 1..Len(new) : new[i] = joined[i]
    BY <1>3, <1>4, <1>5
  <2> QED
    BY <1>3, <1>4, <2>1, SeqEqual, ZenonT(20)
<1> QED
  BY <1>6 DEF AppendEntry, joined, new, grown

\* Closing the gap and then shrinking takes out the entry and nothing else
\* (remove_service and remove_verification_method).
THEOREM RemoveSplices ==
  ASSUME NEW d \in Seq(Nat), NEW start \in 0..Len(d), NEW end \in start..Len(d)
  PROVE  RemoveSpan(d, start, end) = Spliced(d, start, end, <<>>)
<1> DEFINE m == Len(d) - (end - start)
           moved == CopyWithin(d, end, Len(d), start)
           new == Resize(moved, m)
           spliced == Spliced(d, start, end, <<>>)
<1>1. /\ Len(d) \in Nat /\ start \in Nat /\ end \in Nat /\ m \in Nat
      /\ start <= end /\ end <= Len(d)
  BY LenProperties
<1>2. /\ moved \in Seq(Nat) /\ Len(moved) = Len(d)
      /\ \A i \in 1..Len(d) : moved[i] =
           IF i \in start + 1 .. start + (Len(d) - end) THEN d[i - start + end] ELSE d[i]
  <2> DEFINE to == Len(d)
  <2>1. /\ to \in Nat /\ end <= to /\ to <= Len(d) /\ start + (to - end) <= Len(d)
    BY <1>1
  <2>2. moved = CopyWithin(d, end, to, start)
    OBVIOUS
  <2> HIDE DEF to, moved
  <2>3. /\ moved \in Seq(Nat) /\ Len(moved) = Len(d)
        /\ \A i \in 1..Len(d) : moved[i] =
             IF i \in start + 1 .. start + (to - end) THEN d[i - start + end] ELSE d[i]
    BY <1>1, <2>1, <2>2, Copied
  <2> QED
    BY <2>3 DEF to
<1> HIDE DEF moved
<1>3. /\ new \in Seq(Nat) /\ Len(new) = m
      /\ \A i \in 1..m : new[i] = IF i <= Len(moved) THEN moved[i] ELSE 0
  BY <1>1, <1>2, Resized, ZenonT(20)
<1> HIDE DEF new
<1>4. /\ spliced \in Seq(Nat) /\ Len(spliced) = m
      /\ \A i \in 1..m :
           spliced[i] = IF i <= start THEN d[i] ELSE d[i - start + end]
  <2>1. <<>> \in Seq(Nat) /\ Len(<<>>) = 0
    BY EmptySeq
  <2>2. /\ spliced \in Seq(Nat) /\ Len(spliced) = start + Len(<<>>) + (Len(d) - end)
        /\ \A i \in 1..Len(spliced) :
             spliced[i] = IF i <= start THEN d[i]
                          ELSE IF i <= start + Len(<<>>) THEN <<>>[i - start]
                          ELSE d[i - start - Len(<<>>) + end]
    BY <2>1, SplicedCells, ZenonT(20)
  <2> HIDE DEF spliced
  <2> QED
    BY <1>1, <2>1, <2>2
<1> HIDE DEF spliced
<1>5. ASSUME NEW i \in 1..m PROVE new[i] = spliced[i]
  <2>1. i \in 1..Len(d) /\ i <= Len(moved)
    BY <1>1, <1>2
  <2>2. /\ new[i] = moved[i]
        /\ moved[i] = IF i \in start + 1 .. start + (Len(d) - end) THEN d[i - start + end] ELSE d[i]
        /\ spliced[i] = IF i <= start THEN d[i] ELSE d[i - start + end]
    BY <1>2, <1>3, <1>4, <2>1
  <2> QED
    BY <1>1, <2>2
<1>6. new = spliced
  <2>1. Len(new) = Len(spliced) /\ \A i \in 1..Len(new) : new[i] = spliced[i]
    BY <1>3, <1>4, <1>5
  <2> QED
    BY <1>3, <1>4, <2>1, SeqEqual, ZenonT(20)
<1> QED
  BY <1>6 DEF RemoveSpan, spliced, new, moved

\* Replacing what lies between two offsets leaves both neighbours whole,
\* whether the account gets longer, shorter or keeps its length: it grows
\* before the tail moves and shrinks after (update_service, set_controllers).
THEOREM ReplaceSplices ==
  ASSUME NEW d \in Seq(Nat), NEW start \in 0..Len(d), NEW end \in start..Len(d),
         NEW entry \in Seq(Nat)
  PROVE  ReplaceSpan(d, start, end, Len(entry), entry) = Spliced(d, start, end, entry)
<1> DEFINE n == Len(entry)
           newLen == Len(d) - end + start + n
           room == IF newLen > Len(d) THEN Resize(d, newLen) ELSE d
           moved == CopyWithin(room, end, Len(d), start + n)
           edited == Patch(moved, start, entry)
           new == IF newLen < Len(d) THEN Resize(edited, newLen) ELSE edited
           spliced == Spliced(d, start, end, entry)
<1>1. /\ Len(d) \in Nat /\ start \in Nat /\ end \in Nat /\ n \in Nat /\ newLen \in Nat
      /\ start <= end /\ end <= Len(d) /\ start + n \in Nat
  BY LenProperties
<1>2. /\ room \in Seq(Nat) /\ Len(room) >= newLen /\ Len(room) >= Len(d)
      /\ \A i \in 1..Len(d) : room[i] = d[i]
      /\ Len(room) = IF newLen > Len(d) THEN newLen ELSE Len(d)
  <2>1. CASE newLen > Len(d)
    <3> DEFINE r == Resize(d, newLen)
    <3>1. /\ r \in Seq(Nat) /\ Len(r) = newLen
          /\ \A i \in 1..newLen : r[i] = IF i <= Len(d) THEN d[i] ELSE 0
      BY <1>1, Resized, ZenonT(20)
    <3>2. room = r
      BY <2>1
    <3> HIDE DEF r, room, newLen
    <3> QED
      BY <1>1, <2>1, <3>1, <3>2
  <2>2. CASE ~(newLen > Len(d))
    <3>1. room = d
      BY <2>2
    <3> HIDE DEF room, newLen
    <3> QED
      BY <1>1, <2>2, <3>1
  <2> QED
    BY <2>1, <2>2
<1> HIDE DEF room
<1>3. /\ moved \in Seq(Nat) /\ Len(moved) = Len(room)
      /\ \A i \in 1..Len(room) : moved[i] =
           IF start + n < i /\ i <= newLen THEN room[i - (start + n) + end] ELSE room[i]
  <2> DEFINE to == Len(d)
             dest == start + n
  <2>1. /\ room \in Seq(Nat) /\ end \in Nat /\ to \in Nat /\ dest \in Nat
        /\ end <= to /\ to <= Len(room)
        /\ dest + (to - end) <= Len(room)
    BY <1>1, <1>2
  <2>2. moved = CopyWithin(room, end, to, dest)
    OBVIOUS
  <2> HIDE DEF to, dest, moved
  <2>3. /\ moved \in Seq(Nat) /\ Len(moved) = Len(room)
        /\ \A i \in 1..Len(room) : moved[i] =
             IF i \in dest + 1 .. dest + (to - end) THEN room[i - dest + end] ELSE room[i]
    BY <2>1, <2>2, Copied
  <2>4. ASSUME NEW i \in 1..Len(room)
        PROVE  i \in dest + 1 .. dest + (to - end) <=> start + n < i /\ i <= newLen
    BY <1>1, <1>2 DEF to, dest
  <2>5. dest = start + n
    BY DEF dest
  <2> HIDE DEF newLen, n
  <2> QED
    BY <2>3, <2>4, <2>5
<1> HIDE DEF moved
<1>4. /\ edited \in Seq(Nat) /\ Len(edited) = Len(room)
      /\ \A i \in 1..Len(room) : edited[i] =
           IF i \in start + 1 .. start + n THEN entry[i - start] ELSE moved[i]
  <2>1. start + n <= Len(moved)
    BY <1>1, <1>2, <1>3
  <2>2. /\ edited \in Seq(Nat) /\ Len(edited) = Len(moved)
        /\ \A i \in 1..Len(moved) : edited[i] =
             IF i \in start + 1 .. start + n THEN entry[i - start] ELSE moved[i]
    BY <1>1, <1>3, <2>1, Patched
  <2> QED
    BY <1>3, <2>2
<1> HIDE DEF edited
<1>4a. /\ Len(room) = (IF newLen > Len(d) THEN newLen ELSE Len(d))
      /\ Len(edited) = Len(room)
  BY <1>2, <1>4, ZenonT(20)
<1>5. /\ new \in Seq(Nat) /\ Len(new) = newLen
      /\ \A i \in 1..newLen : new[i] = edited[i]
  <2>1. CASE newLen < Len(d)
    <3> DEFINE r == Resize(edited, newLen)
    <3>1. /\ r \in Seq(Nat) /\ Len(r) = newLen
          /\ \A i \in 1..newLen : r[i] = IF i <= Len(edited) THEN edited[i] ELSE 0
      BY <1>1, <1>4, Resized, ZenonT(20)
    <3>2. new = r
      BY <2>1
    <3> HIDE DEF r, new, newLen
    <3>3. Len(edited) \in Nat /\ newLen <= Len(edited)
      BY <1>1, <1>4a, <2>1
    <3> QED
      BY <1>1, <3>1, <3>2, <3>3
  <2>2. CASE ~(newLen < Len(d))
    <3>1. new = edited
      BY <2>2
    <3>2. Len(edited) = newLen
      <4> HIDE DEF newLen, n, new
      <4> QED BY <1>1, <1>4a, <2>2
    <3> HIDE DEF new, newLen
    <3> QED
      BY <1>4, <3>1, <3>2
  <2> QED
    BY <2>1, <2>2
<1> HIDE DEF new
<1>6. /\ spliced \in Seq(Nat) /\ Len(spliced) = start + n + (Len(d) - end)
      /\ \A i \in 1..Len(spliced) :
           spliced[i] = IF i <= start THEN d[i]
                        ELSE IF i <= start + n THEN entry[i - start]
                        ELSE d[i - start - n + end]
  BY SplicedCells, ZenonT(20)
<1> HIDE DEF spliced
<1>7. ASSUME NEW i \in 1..newLen PROVE new[i] = spliced[i]
  <2>1. i \in 1..Len(room) /\ i \in 1..Len(spliced)
    BY <1>1, <1>2, <1>6
  <2>2. /\ new[i] = edited[i]
        /\ edited[i] = IF i \in start + 1 .. start + n THEN entry[i - start] ELSE moved[i]
        /\ moved[i] = IF start + n < i /\ i <= newLen THEN room[i - (start + n) + end]
                      ELSE room[i]
        /\ spliced[i] = IF i <= start THEN d[i]
                        ELSE IF i <= start + n THEN entry[i - start]
                        ELSE d[i - start - n + end]
    <3> HIDE DEF newLen
    <3> QED
      BY <1>3, <1>4, <1>5, <1>6, <2>1
  <2>3. CASE i <= start
    <3>1. i \in 1..Len(d)
      BY <1>1, <2>3
    <3>2. room[i] = d[i]
      BY <1>2, <3>1
    <3>3. i \notin start + 1 .. start + n /\ ~(start + n < i)
      BY <1>1, <2>3
    <3> HIDE DEF newLen, n
    <3> QED
      BY <2>2, <2>3, <3>2, <3>3
  <2>4. CASE start < i /\ i <= start + n
    <3>1. i \in start + 1 .. start + n /\ ~(i <= start)
      BY <1>1, <2>4
    <3> HIDE DEF newLen, n
    <3> QED
      BY <2>2, <2>4, <3>1
  <2>5. CASE start + n < i
    <3>1. i - (start + n) + end \in 1..Len(d)
      BY <1>1, <2>5
    <3>2. room[i - (start + n) + end] = d[i - (start + n) + end]
      BY <1>2, <3>1
    <3>3. /\ i - start - n + end = i - (start + n) + end
          /\ i <= newLen /\ ~(i <= start + n) /\ ~(i <= start)
      BY <1>1, <2>5
    <3>4. i \notin start + 1 .. start + n
      BY <1>1, <3>3
    <3> HIDE DEF newLen, n
    <3> QED
      BY <2>2, <2>5, <3>2, <3>3, <3>4
  <2> QED
    BY <1>1, <2>3, <2>4, <2>5
<1>8. Len(new) = Len(spliced) /\ \A i \in 1..Len(new) : new[i] = spliced[i]
  <2>1. Len(new) = newLen /\ Len(spliced) = newLen
    BY <1>1, <1>5, <1>6
  <2> QED
    BY <1>7, <2>1
<1>9. new = spliced
  BY <1>5, <1>6, <1>8, SeqEqual, ZenonT(20)
<1> QED
  BY <1>9 DEF ReplaceSpan, spliced, new, edited, moved, room

-----------------------------------------------------------------------------
(* Parts of an account *)

\* Two lists end to end: the cells of the first, then of the second.
LEMMA Joined ==
  ASSUME NEW a \in Seq(Nat), NEW b \in Seq(Nat)
  PROVE  /\ a \o b \in Seq(Nat)
         /\ Len(a \o b) = Len(a) + Len(b)
         /\ \A i \in 1..Len(a) : (a \o b)[i] = a[i]
         /\ \A i \in 1..Len(b) : (a \o b)[Len(a) + i] = b[i]
<1> DEFINE c == a \o b
<1>1. /\ c \in Seq(Nat) /\ Len(c) = Len(a) + Len(b)
      /\ \A i \in 1..Len(a) + Len(b) : c[i] = IF i <= Len(a) THEN a[i] ELSE b[i - Len(a)]
  BY ConcatProperties, ZenonT(20)
<1>2. Len(a) \in Nat /\ Len(b) \in Nat
  BY LenProperties
<1> HIDE DEF c
<1>3. \A i \in 1..Len(a) : c[i] = a[i]
  BY <1>1, <1>2
<1>4. ASSUME NEW i \in 1..Len(b)
      PROVE  c[Len(a) + i] = b[i]
  <2>1. Len(a) + i \in 1..Len(a) + Len(b) /\ ~(Len(a) + i <= Len(a)) /\ (Len(a) + i) - Len(a) = i
    BY <1>2
  <2> QED
    BY <1>1, <2>1
<1> QED
  BY <1>1, <1>3, <1>4 DEF c

\* Three lists end to end, however they are grouped.
LEMMA JoinedThrice ==
  ASSUME NEW a \in Seq(Nat), NEW b \in Seq(Nat), NEW c \in Seq(Nat)
  PROVE  (a \o b) \o c = a \o (b \o c)
BY ConcatAssociative

\* Lists of the same cells are the same list.
LEMMA SameCells ==
  ASSUME NEW a \in Seq(Nat), NEW b \in Seq(Nat), Len(a) = Len(b),
         \A i \in 1..Len(a) : a[i] = b[i]
  PROVE  a = b
BY SeqEqual

\* The cells of part are those of d from the offset p on.
Holds(d, p, part) ==
  /\ p + Len(part) <= Len(d)
  /\ \A i \in 1..Len(part) : d[p + i] = part[i]

\* A list holds itself from its beginning,
LEMMA HoldsItself == ASSUME NEW d \in Seq(Nat) PROVE Holds(d, 0, d)
<1>1. Len(d) \in Nat
  BY LenProperties
<1> QED
  BY <1>1 DEF Holds

\* and a list as long as it is no other.
LEMMA HoldsAll ==
  ASSUME NEW d \in Seq(Nat), NEW part \in Seq(Nat), Len(d) = Len(part), Holds(d, 0, part)
  PROVE  d = part
<1>1. \A i \in 1..Len(d) : d[i] = part[i]
  BY DEF Holds
<1> QED
  BY <1>1, SameCells

\* Two lists end to end are held where each of them is.
LEMMA HoldsBoth ==
  ASSUME NEW d \in Seq(Nat), NEW p \in Nat, NEW a \in Seq(Nat), NEW b \in Seq(Nat)
  PROVE  Holds(d, p, a \o b) <=> Holds(d, p, a) /\ Holds(d, p + Len(a), b)
<1> DEFINE c == a \o b
<1>1. /\ Len(a) \in Nat /\ Len(b) \in Nat /\ Len(d) \in Nat
      /\ Len(c) = Len(a) + Len(b)
      /\ \A i \in 1..Len(a) : c[i] = a[i]
      /\ \A i \in 1..Len(b) : c[Len(a) + i] = b[i]
  BY Joined, LenProperties
<1> HIDE DEF c
<1>2. ASSUME Holds(d, p, c)
      PROVE  Holds(d, p, a) /\ Holds(d, p + Len(a), b)
  <2>1. ASSUME NEW i \in 1..Len(a)
        PROVE  d[p + i] = a[i]
    <3>1. i \in 1..Len(c) /\ c[i] = a[i]
      BY <1>1
    <3>2. \A j \in 1..Len(c) : d[p + j] = c[j]
      BY <1>2 DEF Holds
    <3> QED
      BY <3>1, <3>2
  <2>2. ASSUME NEW i \in 1..Len(b)
        PROVE  d[p + Len(a) + i] = b[i]
    <3>1. Len(a) + i \in 1..Len(c) /\ p + (Len(a) + i) = p + Len(a) + i
      BY <1>1
    <3> QED
      BY <1>1, <1>2, <3>1 DEF Holds
  <2>3. p + Len(c) <= Len(d)
    BY <1>2 DEF Holds
  <2>4. p + Len(a) <= Len(d) /\ (p + Len(a)) + Len(b) <= Len(d)
    BY <1>1, <2>3
  <2>5. Holds(d, p, a)
    BY <2>1, <2>4 DEF Holds
  <2>6. Holds(d, p + Len(a), b)
    BY <2>2, <2>4 DEF Holds
  <2> QED
    BY <2>5, <2>6
<1>3. ASSUME Holds(d, p, a), Holds(d, p + Len(a), b)
      PROVE  Holds(d, p, c)
  <2>1. ASSUME NEW i \in 1..Len(c)
        PROVE  d[p + i] = c[i]
    <3>1. CASE i <= Len(a)
      <4>1. i \in 1..Len(a) /\ c[i] = a[i]
        BY <1>1, <3>1
      <4>2. \A j \in 1..Len(a) : d[p + j] = a[j]
        BY <1>3 DEF Holds
      <4> QED
        BY <4>1, <4>2
    <3>2. CASE i > Len(a)
      <4>1. i - Len(a) \in 1..Len(b) /\ p + Len(a) + (i - Len(a)) = p + i /\ Len(a) + (i - Len(a)) = i
        BY <1>1, <3>2
      <4>2. d[p + Len(a) + (i - Len(a))] = b[i - Len(a)] /\ c[Len(a) + (i - Len(a))] = b[i - Len(a)]
        BY <1>1, <1>3, <4>1 DEF Holds
      <4> QED
        BY <4>1, <4>2
    <3> QED
      BY <1>1, <3>1, <3>2
  <2> QED
    BY <1>1, <1>3, <2>1 DEF Holds
<1> QED
  BY <1>2, <1>3 DEF c

\* What is held in full before an offset is held by the cells before it.
LEMMA WindowHolds ==
  ASSUME NEW d \in Seq(Nat), NEW q \in 0..Len(d), NEW p \in Nat, NEW part \in Seq(Nat),
         Holds(d, p, part), p + Len(part) <= q
  PROVE  /\ Slice(d, 0, q) \in Seq(Nat)
         /\ Len(Slice(d, 0, q)) = q
         /\ Holds(Slice(d, 0, q), p, part)
<1> DEFINE w == Slice(d, 0, q)
<1>1. Len(d) \in Nat /\ q \in Nat /\ q <= Len(d) /\ Len(part) \in Nat
  BY LenProperties
<1>2. \A i \in 1..q : d[i] \in Nat
  BY <1>1
<1>3. w = SubSeq(d, 1, q)
  BY DEF Slice
<1>4. w \in Seq(Nat)
  BY <1>1, <1>2, <1>3, SubSeqProperties
<1>5. Len(w) = q /\ \A i \in 1..q : w[i] = d[i]
  BY <1>1, <1>3
<1> HIDE DEF w
<1>6. ASSUME NEW i \in 1..Len(part)
      PROVE  w[p + i] = part[i]
  <2>1. p + i \in 1..q
    BY <1>1
  <2> QED
    BY <1>5, <2>1 DEF Holds
<1>7. Holds(w, p, part)
  BY <1>1, <1>5, <1>6 DEF Holds
<1> QED
  BY <1>4, <1>5, <1>7 DEF w

\* A number in place is read as it was written.
LEMMA NumberHeld ==
  ASSUME NEW d \in Seq(Nat), NEW p \in Nat, NEW n \in Nat, Holds(d, p, <<n>>)
  PROVE  U32(d, p) = n /\ p < Len(d)
<1>1. Len(d) \in Nat /\ Len(<<n>>) = 1 /\ <<n>>[1] = n
  BY LenProperties
<1> QED
  BY <1>1 DEF Holds, U32

\* A length-prefixed field ends behind its last cell, and its payload is what
\* was written (Cursor::len_prefixed).
LEMMA FieldHeld ==
  ASSUME NEW d \in Seq(Nat), NEW p \in Nat, NEW bytes \in Seq(Nat),
         Holds(d, p, Prefixed(bytes))
  PROVE  /\ LenPrefixed(d, p) = p + 1 + Len(bytes)
         /\ Payload(d, p) = bytes
<1> DEFINE n == Len(bytes)
<1>1. Len(d) \in Nat /\ n \in Nat /\ <<n>> \in Seq(Nat) /\ Len(<<n>>) = 1
  BY LenProperties
<1>2. Holds(d, p, <<n>>) /\ Holds(d, p + 1, bytes)
  <2> HIDE DEF n
  <2>1. Prefixed(bytes) = <<n>> \o bytes
    BY DEF Prefixed, n
  <2> DEFINE a == <<n>>
  <2>2. a \in Seq(Nat) /\ Len(a) = 1 /\ Holds(d, p, a \o bytes)
    BY <1>1, <2>1
  <2> HIDE DEF a
  <2>3. Holds(d, p, a) /\ Holds(d, p + Len(a), bytes)
    BY <2>2, HoldsBoth
  <2> QED
    BY <2>2, <2>3 DEF a
<1>3. U32(d, p) = n
  BY <1>1, <1>2, NumberHeld
<1>4. p + 1 + n <= Len(d) /\ \A i \in 1..n : d[p + 1 + i] = bytes[i]
  BY <1>2 DEF Holds
<1>5. FieldEnd(d)[p] = IF p + 1 + U32(d, p) <= Len(d) THEN p + 1 + U32(d, p) ELSE Len(d) + 1
  BY DEF FieldEnd
<1>6. LenPrefixed(d, p) = p + 1 + n
  BY <1>3, <1>4, <1>5 DEF LenPrefixed
<1> HIDE DEF n
<1>7. Payload(d, p) = SubSeq(d, p + 2, p + 1 + n)
  BY <1>1, <1>6 DEF Payload, Slice
<1> DEFINE s == SubSeq(d, p + 2, p + 1 + n)
<1>8. s \in Seq(Nat) /\ Len(s) = n /\ \A i \in 1..n : s[i] = d[p + 1 + i]
  <2>1. \A i \in p + 2 .. p + 1 + n : d[i] \in Nat
    BY <1>1, <1>4
  <2>2. s \in Seq(Nat)
    BY <1>1, <2>1, SubSeqProperties
  <2>3. Len(s) = n
    BY <1>1, <1>4
  <2>4. \A i \in 1..n : s[i] = d[p + 1 + i]
    BY <1>1, <1>4
  <2> QED
    BY <2>2, <2>3, <2>4
<1> HIDE DEF s
<1>9. s = bytes
  <2>1. Len(s) = Len(bytes) /\ \A i \in 1..Len(s) : s[i] = bytes[i]
    BY <1>4, <1>8 DEF n
  <2> QED
    BY <1>8, <2>1, SameCells
<1> QED
  BY <1>6, <1>7, <1>9 DEF n, s

\* A cursor moves forward until it has failed.
LEMMA FieldsGoOn ==
  ASSUME NEW d \in Seq(Nat)
  PROVE  /\ FieldEnd(d) \in [Nat -> Nat]
         /\ \A p \in Nat : FieldEnd(d)[p] > p \/ FieldEnd(d)[p] > Len(d)
<1>1. Len(d) \in Nat
  BY LenProperties
<1>2. ASSUME NEW p \in Nat
      PROVE  U32(d, p) \in Nat
  BY <1>1 DEF U32
<1>3. ASSUME NEW p \in Nat
      PROVE  /\ FieldEnd(d)[p] \in Nat
             /\ FieldEnd(d)[p] > p \/ FieldEnd(d)[p] > Len(d)
  <2>1. FieldEnd(d)[p] = IF p + 1 + U32(d, p) <= Len(d) THEN p + 1 + U32(d, p) ELSE Len(d) + 1
    BY DEF FieldEnd
  <2> DEFINE end == FieldEnd(d)[p]
             u == U32(d, p)
  <2>2. u \in Nat
    BY <1>2
  <2> HIDE DEF end, u
  <2>3. end = IF p + 1 + u <= Len(d) THEN p + 1 + u ELSE Len(d) + 1
    BY <2>1 DEF end, u
  <2>4. end \in Nat /\ (end > p \/ end > Len(d))
    BY <1>1, <2>2, <2>3
  <2> QED
    BY <2>4 DEF end
<1>4. FieldEnd(d) = [p \in Nat |-> FieldEnd(d)[p]]
  BY DEF FieldEnd
<1> QED
  BY <1>3, <1>4

-----------------------------------------------------------------------------
(* Splicing an account that is known in parts *)

\* Join and Cells keep the provers from taking a list apart.
Cells(d) == d \in Seq(Nat)

Join(a, b) == a \o b

Span(d, start, end) == start \in 0..Len(d) /\ end \in start..Len(d)

\* The last part is exchanged,
LEMMA SpliceLast ==
  ASSUME NEW a, Cells(a), NEW old, Cells(old), NEW new, Cells(new)
  PROVE  Spliced(Join(a, old), Len(a), Len(a) + Len(old), new) = Join(a, new)
<1> USE DEF Cells, Join
<1> DEFINE d == a \o old
           s == Spliced(d, Len(a), Len(a) + Len(old), new)
           r == a \o new
<1>1. /\ Len(a) \in Nat /\ Len(old) \in Nat /\ Len(new) \in Nat
      /\ d \in Seq(Nat) /\ Len(d) = Len(a) + Len(old)
      /\ \A i \in 1..Len(a) : d[i] = a[i]
  BY Joined, LenProperties
<1>2. /\ r \in Seq(Nat) /\ Len(r) = Len(a) + Len(new)
      /\ \A i \in 1..Len(a) : r[i] = a[i]
      /\ \A i \in 1..Len(new) : r[Len(a) + i] = new[i]
  BY Joined
<1>3. Len(a) \in 0..Len(d) /\ Len(a) + Len(old) \in Len(a)..Len(d)
  BY <1>1
<1> HIDE DEF d, r
<1>4. /\ s \in Seq(Nat)
      /\ Len(s) = Len(a) + Len(new) + (Len(d) - (Len(a) + Len(old)))
      /\ \A i \in 1..Len(s) :
           s[i] = IF i <= Len(a) THEN d[i]
                  ELSE IF i <= Len(a) + Len(new) THEN new[i - Len(a)]
                  ELSE d[i - Len(a) - Len(new) + (Len(a) + Len(old))]
  BY <1>1, <1>3, SplicedCells, ZenonT(20)
<1> HIDE DEF s
<1>5. Len(s) = Len(r)
  BY <1>1, <1>2, <1>4
<1>6. ASSUME NEW i \in 1..Len(s)
      PROVE  s[i] = r[i]
  <2>1. CASE i <= Len(a)
    BY <1>1, <1>2, <1>4, <2>1
  <2>2. CASE i > Len(a)
    <3>1. i - Len(a) \in 1..Len(new) /\ Len(a) + (i - Len(a)) = i
      BY <1>1, <1>2, <1>5, <2>2
    <3>2. r[Len(a) + (i - Len(a))] = new[i - Len(a)]
      BY <1>2, <3>1
    <3>3. s[i] = new[i - Len(a)]
      BY <1>1, <1>2, <1>4, <1>5, <2>2
    <3> QED
      BY <3>1, <3>2, <3>3
  <2> QED
    BY <1>1, <1>5, <2>1, <2>2
<1>7. s = r
  BY <1>2, <1>4, <1>5, <1>6, SameCells
<1> QED
  BY <1>7 DEF d, r, s

\* what lies behind is kept,
LEMMA SpliceBefore ==
  ASSUME NEW a, Cells(a), NEW b, Cells(b), NEW new, Cells(new),
         NEW start, NEW end, Span(a, start, end)
  PROVE  Spliced(Join(a, b), start, end, new) = Join(Spliced(a, start, end, new), b)
<1> USE DEF Cells, Join
<1> start \in 0..Len(a) /\ end \in start..Len(a)
  BY DEF Span
<1> DEFINE d == a \o b
           s == Spliced(d, start, end, new)
           t == Spliced(a, start, end, new)
           r == t \o b
           n == Len(new)
<1>1. /\ Len(a) \in Nat /\ Len(b) \in Nat /\ n \in Nat
      /\ start \in Nat /\ end \in Nat /\ start <= end /\ end <= Len(a)
  BY LenProperties
<1>2. /\ d \in Seq(Nat) /\ Len(d) = Len(a) + Len(b)
      /\ \A i \in 1..Len(a) : d[i] = a[i]
      /\ \A i \in 1..Len(b) : d[Len(a) + i] = b[i]
  BY Joined
<1> HIDE DEF d
<1>3. start \in 0..Len(d) /\ end \in start..Len(d)
  BY <1>1, <1>2
<1>4. /\ s \in Seq(Nat) /\ Len(s) = start + n + (Len(d) - end)
      /\ \A i \in 1..Len(s) :
           s[i] = IF i <= start THEN d[i]
                  ELSE IF i <= start + n THEN new[i - start]
                  ELSE d[i - start - n + end]
  BY <1>2, <1>3, SplicedCells, ZenonT(20)
<1>5. /\ t \in Seq(Nat) /\ Len(t) = start + n + (Len(a) - end)
      /\ \A i \in 1..Len(t) :
           t[i] = IF i <= start THEN a[i]
                  ELSE IF i <= start + n THEN new[i - start]
                  ELSE a[i - start - n + end]
  BY SplicedCells, ZenonT(20)
<1> HIDE DEF s, t
<1>6. /\ r \in Seq(Nat) /\ Len(r) = Len(t) + Len(b)
      /\ \A i \in 1..Len(t) : r[i] = t[i]
      /\ \A i \in 1..Len(b) : r[Len(t) + i] = b[i]
  BY <1>5, Joined
<1> HIDE DEF r, n
<1>7. Len(s) = Len(r)
  BY <1>1, <1>2, <1>4, <1>5, <1>6
<1>8. ASSUME NEW i \in 1..Len(s)
      PROVE  s[i] = r[i]
  <2>1. CASE i <= start
    <3>a. Len(t) = start + n + (Len(a) - end)
      BY <1>5
    <3>1. i \in 1..Len(t) /\ i \in 1..Len(a)
      BY <1>1, <2>1, <3>a
    <3> QED
      BY <1>2, <1>4, <1>5, <1>6, <2>1, <3>1
  <2>2. CASE start < i /\ i <= start + n
    <3>1. i \in 1..Len(t) /\ ~(i <= start)
      BY <1>1, <1>5, <2>2
    <3> QED
      BY <1>4, <1>5, <1>6, <2>2, <3>1
  <2>3. CASE start + n < i /\ i <= Len(t)
    <3>1. i \in 1..Len(t) /\ ~(i <= start) /\ ~(i <= start + n)
          /\ i - start - n + end \in 1..Len(a)
      <4>1. Len(t) = start + n + (Len(a) - end) /\ i \in Nat
        BY <1>1, <1>5
      <4> QED
        BY <1>1, <2>3, <4>1
    <3>2. s[i] = d[i - start - n + end]
      BY <1>4, <3>1
    <3>3. r[i] = a[i - start - n + end]
      BY <1>5, <1>6, <3>1
    <3> QED
      BY <1>2, <3>1, <3>2, <3>3
  <2>4. CASE Len(t) < i
    <3>1. /\ i - Len(t) \in 1..Len(b) /\ Len(t) + (i - Len(t)) = i
          /\ ~(i <= start) /\ ~(i <= start + n)
          /\ i - start - n + end = Len(a) + (i - Len(t))
      <4>1. i <= Len(t) + Len(b) /\ i \in Nat
        BY <1>1, <1>2, <1>4, <1>5
      <4> QED
        BY <1>1, <1>5, <2>4, <4>1
    <3>2. s[i] = d[Len(a) + (i - Len(t))]
      BY <1>4, <3>1
    <3>3. r[Len(t) + (i - Len(t))] = b[i - Len(t)]
      BY <1>6, <3>1
    <3> QED
      BY <1>2, <3>1, <3>2, <3>3
  <2> QED
    BY <1>1, <1>4, <1>5, <2>1, <2>2, <2>3, <2>4
<1>9. s = r
  BY <1>4, <1>6, <1>7, <1>8, SameCells
<1> QED
  BY <1>9 DEF d, r, s, t

\* and so is what lies before.
LEMMA SpliceBehind ==
  ASSUME NEW a, Cells(a), NEW b, Cells(b), NEW new, Cells(new),
         NEW start, NEW end, Span(b, start, end)
  PROVE  Spliced(Join(a, b), Len(a) + start, Len(a) + end, new)
           = Join(a, Spliced(b, start, end, new))
<1> USE DEF Cells, Join
<1> start \in 0..Len(b) /\ end \in start..Len(b)
  BY DEF Span
<1> DEFINE d == a \o b
           k == Len(a)
           s == Spliced(d, k + start, k + end, new)
           t == Spliced(b, start, end, new)
           r == a \o t
           n == Len(new)
<1>1. /\ k \in Nat /\ Len(b) \in Nat /\ n \in Nat
      /\ start \in Nat /\ end \in Nat /\ start <= end /\ end <= Len(b)
  BY LenProperties
<1>2. /\ d \in Seq(Nat) /\ Len(d) = k + Len(b)
      /\ \A i \in 1..k : d[i] = a[i]
      /\ \A i \in 1..Len(b) : d[k + i] = b[i]
  BY Joined
<1> HIDE DEF d, k
<1>3. k + start \in 0..Len(d) /\ k + end \in (k + start)..Len(d)
  BY <1>1, <1>2
<1>4. /\ s \in Seq(Nat) /\ Len(s) = (k + start) + n + (Len(d) - (k + end))
      /\ \A i \in 1..Len(s) :
           s[i] = IF i <= k + start THEN d[i]
                  ELSE IF i <= (k + start) + n THEN new[i - (k + start)]
                  ELSE d[i - (k + start) - n + (k + end)]
  BY <1>2, <1>3, SplicedCells, ZenonT(20)
<1>5. /\ t \in Seq(Nat) /\ Len(t) = start + n + (Len(b) - end)
      /\ \A i \in 1..Len(t) :
           t[i] = IF i <= start THEN b[i]
                  ELSE IF i <= start + n THEN new[i - start]
                  ELSE b[i - start - n + end]
  BY SplicedCells, ZenonT(20)
<1> HIDE DEF s, t
<1>6. /\ r \in Seq(Nat) /\ Len(r) = k + Len(t)
      /\ \A i \in 1..k : r[i] = a[i]
      /\ \A i \in 1..Len(t) : r[k + i] = t[i]
  BY <1>5, Joined DEF k
<1> HIDE DEF r, n
<1>7. Len(s) = Len(r)
  BY <1>1, <1>2, <1>4, <1>5, <1>6
<1>8. ASSUME NEW i \in 1..Len(s)
      PROVE  s[i] = r[i]
  <2>1. CASE i <= k
    BY <1>1, <1>2, <1>4, <1>6, <2>1
  <2>2. CASE i > k
    <3> DEFINE j == i - k
    <3>1. j \in 1..Len(t) /\ k + j = i
      BY <1>1, <1>6, <1>7, <2>2
    <3>2. r[i] = t[j]
      BY <1>6, <3>1
    <3>3. CASE j <= start
      <4>1. i <= k + start /\ j \in 1..Len(b)
        BY <1>1, <3>1, <3>3
      <4> HIDE DEF j
      <4> QED
        BY <1>2, <1>4, <1>5, <3>1, <3>2, <3>3, <4>1
    <3>4. CASE start < j /\ j <= start + n
      <4>1. ~(i <= k + start) /\ i <= (k + start) + n /\ i - (k + start) = j - start /\ ~(j <= start)
        BY <1>1, <3>1, <3>4
      <4> HIDE DEF j
      <4> QED
        BY <1>4, <1>5, <3>1, <3>2, <3>4, <4>1
    <3>5. CASE start + n < j
      <4>1. /\ ~(i <= k + start) /\ ~(i <= (k + start) + n)
            /\ ~(j <= start) /\ ~(j <= start + n)
            /\ i - (k + start) - n + (k + end) = k + (j - start - n + end)
            /\ j - start - n + end \in 1..Len(b)
        BY <1>1, <1>5, <3>1, <3>5
      <4> HIDE DEF j
      <4>2. s[i] = d[k + (j - start - n + end)]
        BY <1>4, <4>1
      <4>3. t[j] = b[j - start - n + end]
        BY <1>5, <3>1, <4>1
      <4> QED
        BY <1>2, <3>2, <4>1, <4>2, <4>3
    <3> QED
      BY <1>1, <3>1, <3>3, <3>4, <3>5
  <2> QED
    BY <1>1, <1>4, <2>1, <2>2
<1>9. s = r
  BY <1>4, <1>6, <1>7, <1>8, SameCells
<1> QED
  BY <1>9 DEF d, k, r, s, t

\* Writing in place is a splice of equal length.
LEMMA PatchSplices ==
  ASSUME NEW d \in Seq(Nat), NEW at \in 0..Len(d), NEW bytes \in Seq(Nat),
         at + Len(bytes) <= Len(d)
  PROVE  Patch(d, at, bytes) = Spliced(d, at, at + Len(bytes), bytes)
<1> DEFINE n == Len(bytes)
           c == Patch(d, at, bytes)
           s == Spliced(d, at, at + n, bytes)
<1>1. Len(d) \in Nat /\ n \in Nat /\ at \in Nat /\ at + n \in at..Len(d)
  BY LenProperties
<1>2. /\ c \in Seq(Nat) /\ Len(c) = Len(d)
      /\ \A i \in 1..Len(d) : c[i] = IF i \in at + 1 .. at + n THEN bytes[i - at] ELSE d[i]
  BY <1>1, Patched, ZenonT(20)
<1> HIDE DEF c, n
<1>3. /\ s \in Seq(Nat) /\ Len(s) = at + Len(bytes) + (Len(d) - (at + n))
      /\ \A i \in 1..Len(s) :
           s[i] = IF i <= at THEN d[i]
                  ELSE IF i <= at + Len(bytes) THEN bytes[i - at]
                  ELSE d[i - at - Len(bytes) + (at + n)]
  BY <1>1, SplicedCells, ZenonT(20)
<1> HIDE DEF s
<1>4. Len(s) = Len(c)
  BY <1>1, <1>2, <1>3 DEF n
<1>5. ASSUME NEW i \in 1..Len(s)
      PROVE  s[i] = c[i]
  <2>1. CASE i <= at \/ i > at + n
    <3>1. c[i] = d[i]
      <4>1. i \in 1..Len(d) /\ ~(i \in at + 1 .. at + n)
        BY <1>1, <1>2, <1>4, <2>1
      <4> QED
        BY <1>2, <4>1
    <3>2. s[i] = d[i]
      <4>1. CASE i <= at
        BY <1>3, <4>1
      <4>2. CASE i > at + n
        <5>1. ~(i <= at) /\ ~(i <= at + Len(bytes)) /\ i - at - Len(bytes) + (at + n) = i
          BY <1>1, <4>2 DEF n
        <5> QED
          BY <1>3, <5>1
      <4> QED
        BY <2>1, <4>1, <4>2
    <3> QED
      BY <3>1, <3>2
  <2>2. CASE ~(i <= at) /\ i <= at + n
    <3>1. c[i] = bytes[i - at]
      BY <1>1, <1>2, <1>4, <2>2
    <3>2. s[i] = bytes[i - at]
      BY <1>3, <2>2 DEF n
    <3> QED
      BY <3>1, <3>2
  <2> QED
    BY <1>1, <2>1, <2>2
<1>6. s = c
  BY <1>2, <1>3, <1>4, <1>5, SameCells
<1> QED
  BY <1>6 DEF c, s, n

-----------------------------------------------------------------------------
(* An account in six parts: the header h, the controllers C, the number of *)
(* methods and the methods M, the number of services and the services S.   *)

Parts(h, C, n, M, k, S) == h \o C \o <<n>> \o M \o <<k>> \o S

IsParts(h, C, n, M, k, S) ==
  Cells(h) /\ Cells(C) /\ n \in Nat /\ Cells(M) /\ k \in Nat /\ Cells(S)

\* A count is one cell.
LEMMA One == ASSUME NEW n \in Nat PROVE <<n>> \in Seq(Nat) /\ Len(<<n>>) = 1
  OBVIOUS

\* The account D is those six, with the counts at p and q.
ArePartsOf(h, C, n, M, k, S, D, p, q) ==
  /\ IsParts(h, C, n, M, k, S) /\ D = Parts(h, C, n, M, k, S)
  /\ p = Len(h) + Len(C) /\ q = p + 1 + Len(M)

\* Each of the six parts is held where the lengths before it add up to.
LEMMA PartsHeld ==
  ASSUME NEW h, NEW C, NEW n, NEW M, NEW k, NEW S, NEW D, NEW p, NEW q,
         ArePartsOf(h, C, n, M, k, S, D, p, q)
  PROVE  /\ D \in Seq(Nat) /\ Len(D) = q + 1 + Len(S)
         /\ Holds(D, 0, h) /\ Holds(D, Len(h), C)
         /\ Holds(D, p, <<n>>) /\ Holds(D, p + 1, M)
         /\ Holds(D, q, <<k>>) /\ Holds(D, q + 1, S)
<1> /\ h \in Seq(Nat) /\ C \in Seq(Nat) /\ n \in Nat /\ M \in Seq(Nat) /\ k \in Nat /\ S \in Seq(Nat)
    /\ D = Parts(h, C, n, M, k, S) /\ p = Len(h) + Len(C) /\ q = p + 1 + Len(M)
  BY DEF IsParts, ArePartsOf, Cells
<1> DEFINE N == <<n>>
           K == <<k>>
           d1 == h \o C
           d2 == d1 \o N
           d3 == d2 \o M
           d4 == d3 \o K
           d == d4 \o S
<1>1. N \in Seq(Nat) /\ Len(N) = 1 /\ K \in Seq(Nat) /\ Len(K) = 1
  BY One
<1>2. /\ Len(h) \in Nat /\ Len(C) \in Nat /\ Len(M) \in Nat /\ Len(S) \in Nat
  BY LenProperties
<1>3. d = D
  BY DEF Parts
<1> HIDE DEF N, K
<1>4. d1 \in Seq(Nat) /\ Len(d1) = Len(h) + Len(C)
  BY Joined
<1> HIDE DEF d1
<1>5. d2 \in Seq(Nat) /\ Len(d2) = Len(d1) + Len(N)
  BY <1>1, <1>4, Joined
<1> HIDE DEF d2
<1>6. d3 \in Seq(Nat) /\ Len(d3) = Len(d2) + Len(M)
  BY <1>5, Joined
<1> HIDE DEF d3
<1>7. d4 \in Seq(Nat) /\ Len(d4) = Len(d3) + Len(K)
  BY <1>1, <1>6, Joined
<1> HIDE DEF d4
<1>8. d \in Seq(Nat) /\ Len(d) = Len(d4) + Len(S)
  BY <1>7, Joined
<1>9. Holds(d, 0, d)
  BY <1>8, HoldsItself
<1>10. Holds(d, 0, d4) /\ Holds(d, 0 + Len(d4), S)
  <2> DEFINE z == 0
             e == d
  <2>1. z \in Nat /\ e \in Seq(Nat) /\ Holds(e, z, d4 \o S)
    BY <1>8, <1>9
  <2> HIDE DEF z, e
  <2>2. Holds(e, z, d4) /\ Holds(e, z + Len(d4), S)
    BY <1>7, <2>1, HoldsBoth
  <2> QED
    BY <2>2 DEF z, e
<1> HIDE DEF d
<1>11. Holds(d, 0, d3) /\ Holds(d, 0 + Len(d3), K)
  BY <1>1, <1>6, <1>8, <1>10, HoldsBoth DEF d4
<1>12. Holds(d, 0, d2) /\ Holds(d, 0 + Len(d2), M)
  BY <1>5, <1>8, <1>11, HoldsBoth DEF d3
<1>13. Holds(d, 0, d1) /\ Holds(d, 0 + Len(d1), N)
  BY <1>1, <1>4, <1>8, <1>12, HoldsBoth DEF d2
<1>14. Holds(d, 0, h) /\ Holds(d, 0 + Len(h), C)
  BY <1>8, <1>13, HoldsBoth DEF d1
<1>15. /\ 0 + Len(h) = Len(h) /\ 0 + Len(d1) = p /\ 0 + Len(d2) = p + 1
       /\ 0 + Len(d3) = q /\ 0 + Len(d4) = q + 1 /\ Len(d) = q + 1 + Len(S)
  BY <1>1, <1>2, <1>4, <1>5, <1>6, <1>7, <1>8
<1>16. /\ d \in Seq(Nat) /\ Len(d) = q + 1 + Len(S)
       /\ Holds(d, 0, h) /\ Holds(d, Len(h), C)
       /\ Holds(d, p, N) /\ Holds(d, p + 1, M)
       /\ Holds(d, q, K) /\ Holds(d, q + 1, S)
  BY <1>8, <1>10, <1>11, <1>12, <1>13, <1>14, <1>15
<1> QED
  BY <1>3, <1>16 DEF N, K

\* The accounts of AccountBytes are lists of cells,
LEMMA ListIsCells == ASSUME NEW d, d \in Seq(Nat) PROVE Cells(d)
  BY DEF Cells

\* so are two of them end to end,
LEMMA JoinedCells ==
  ASSUME NEW a, NEW b, Cells(a), Cells(b)
  PROVE  /\ Cells(Join(a, b)) /\ Len(Join(a, b)) = Len(a) + Len(b)
         /\ Len(a) \in Nat /\ Len(b) \in Nat /\ Len(Join(a, b)) \in Nat
  BY Joined, LenProperties DEF Cells, Join

\* and so is a count.
LEMMA OneCell == ASSUME NEW n \in Nat PROVE Cells(<<n>>) /\ Len(<<n>>) = 1
  BY DEF Cells

\* A splice in the middle.
FourCells(a, b, c, e) == Cells(a) /\ Cells(b) /\ Cells(c) /\ Cells(e)

\* The middle one of three parts is exchanged.
LEMMA SpliceMiddle ==
  ASSUME NEW a, NEW old, NEW b, NEW new, FourCells(a, old, b, new)
  PROVE  Spliced(Join(Join(a, old), b), Len(a), Len(a) + Len(old), new) = Join(Join(a, new), b)
<1> Cells(a) /\ Cells(old) /\ Cells(b) /\ Cells(new)
  BY DEF FourCells
<1> DEFINE l == Join(a, old)
           x == Len(a)
           y == Len(a) + Len(old)
<1>1. Cells(l) /\ Len(l) = y /\ x \in Nat /\ Len(old) \in Nat
  BY JoinedCells
<1>2. Span(l, x, y)
  BY <1>1 DEF Span
<1> HIDE DEF l, x, y
<1>3. Spliced(Join(l, b), x, y, new) = Join(Spliced(l, x, y, new), b)
  BY <1>1, <1>2, SpliceBefore
<1>4. Spliced(l, x, y, new) = Join(a, new)
  BY SpliceLast DEF l, x, y
<1> QED
  BY <1>3, <1>4 DEF l, x, y

\* What is behind the first part, and behind the second, is kept.
LEMMA SpliceBeforeTwo ==
  ASSUME NEW a, Cells(a), NEW b, Cells(b), NEW c, Cells(c), NEW new, Cells(new),
         NEW start, NEW end, Span(a, start, end)
  PROVE  Spliced(Join(Join(a, b), c), start, end, new) = Join(Join(Spliced(a, start, end, new), b), c)
<1> DEFINE l == Join(a, b)
<1>1. Cells(l) /\ Len(l) = Len(a) + Len(b) /\ Len(a) \in Nat /\ Len(b) \in Nat
  BY JoinedCells
<1>2. Span(l, start, end)
  BY <1>1 DEF Span
<1>3. Spliced(l, start, end, new) = Join(Spliced(a, start, end, new), b)
  BY SpliceBefore
<1> HIDE DEF l
<1>4. Spliced(Join(l, c), start, end, new) = Join(Spliced(l, start, end, new), c)
  BY <1>1, <1>2, SpliceBefore
<1> QED
  BY <1>3, <1>4 DEF l

AreCells(a, b, c, e, f) == Cells(a) /\ Cells(b) /\ Cells(c) /\ Cells(e) /\ Cells(f)

\* What is behind the first part is kept, four parts deep.
LEMMA SpliceBeforeFour ==
  ASSUME NEW a, NEW b, NEW c, NEW e, NEW f, AreCells(a, b, c, e, f),
         NEW start, NEW end, Span(a, start, end), NEW new, Cells(new)
  PROVE  Spliced(Join(Join(Join(Join(a, b), c), e), f), start, end, new)
           = Join(Join(Join(Join(Spliced(a, start, end, new), b), c), e), f)
<1> DEFINE l == Join(Join(a, b), c)
           m == Join(a, b)
<1>1. Cells(a) /\ Cells(b) /\ Cells(c) /\ Cells(e) /\ Cells(f)
  BY DEF AreCells
<1>2. /\ Cells(m) /\ Len(m) = Len(a) + Len(b)
      /\ Len(a) \in Nat /\ Len(b) \in Nat /\ Len(m) \in Nat
  BY <1>1, JoinedCells
<1>3. l = Join(m, c)
  OBVIOUS
<1> HIDE DEF m
<1>4. Cells(l) /\ Len(l) = Len(m) + Len(c) /\ Len(c) \in Nat
  BY <1>1, <1>2, <1>3, JoinedCells
<1>5. Span(l, start, end)
  BY <1>2, <1>4 DEF Span
<1>6. Spliced(l, start, end, new) = Join(Join(Spliced(a, start, end, new), b), c)
  BY <1>1, SpliceBeforeTwo
<1> HIDE DEF l
<1>7. Spliced(Join(Join(l, e), f), start, end, new) = Join(Join(Spliced(l, start, end, new), e), f)
  BY <1>1, <1>4, <1>5, SpliceBeforeTwo
<1> QED
  BY <1>6, <1>7 DEF l

-----------------------------------------------------------------------------
(* Splicing one of the six parts *)

\* A splice in the header leaves the other five parts.
LEMMA HeaderSpliced ==
  ASSUME NEW h, NEW C, NEW n, NEW M, NEW k, NEW S, IsParts(h, C, n, M, k, S),
         NEW start, NEW end, Span(h, start, end), NEW new, Cells(new)
  PROVE  Spliced(Parts(h, C, n, M, k, S), start, end, new)
           = Parts(Spliced(h, start, end, new), C, n, M, k, S)
<1> DEFINE N == <<n>>
           K == <<k>>
           g == Join(h, C)
<1>1. Cells(N) /\ Cells(K) /\ Cells(h) /\ Cells(C) /\ Cells(M) /\ Cells(S)
  BY OneCell DEF IsParts
<1> HIDE DEF N, K
<1>2. Cells(g) /\ Len(g) = Len(h) + Len(C) /\ Len(h) \in Nat /\ Len(C) \in Nat
  BY <1>1, JoinedCells
<1>3. Span(g, start, end)
  BY <1>2 DEF Span
<1>4. Spliced(g, start, end, new) = Join(Spliced(h, start, end, new), C)
  BY <1>1, SpliceBefore
<1> HIDE DEF g
<1>5. Spliced(Join(Join(Join(Join(g, N), M), K), S), start, end, new)
        = Join(Join(Join(Join(Spliced(g, start, end, new), N), M), K), S)
  <2>1. AreCells(g, N, M, K, S)
    BY <1>1, <1>2 DEF AreCells
  <2> QED
    BY <1>3, <2>1, SpliceBeforeFour
<1> QED
  BY <1>4, <1>5 DEF Parts, Join, g, N, K

\* The controllers are exchanged as a whole.
LEMMA ControllersSpliced ==
  ASSUME NEW h, NEW C, NEW n, NEW M, NEW k, NEW S, IsParts(h, C, n, M, k, S),
         NEW new, Cells(new)
  PROVE  Spliced(Parts(h, C, n, M, k, S), Len(h), Len(h) + Len(C), new)
           = Parts(h, new, n, M, k, S)
<1> DEFINE N == <<n>>
           K == <<k>>
           g == Join(h, C)
           x == Len(h)
           y == Len(h) + Len(C)
<1>1. Cells(N) /\ Cells(K) /\ Cells(h) /\ Cells(C) /\ Cells(M) /\ Cells(S)
  BY OneCell DEF IsParts
<1> HIDE DEF N, K
<1>2. Cells(g) /\ Len(g) = Len(h) + Len(C) /\ Len(h) \in Nat /\ Len(C) \in Nat
  BY <1>1, JoinedCells
<1>3. Span(g, x, y)
  BY <1>2 DEF Span
<1>4. Spliced(g, x, y, new) = Join(h, new)
  BY <1>1, SpliceLast
<1> HIDE DEF g, x, y
<1>5. Spliced(Join(Join(Join(Join(g, N), M), K), S), x, y, new)
        = Join(Join(Join(Join(Spliced(g, x, y, new), N), M), K), S)
  <2>1. AreCells(g, N, M, K, S)
    BY <1>1, <1>2 DEF AreCells
  <2> QED
    BY <1>3, <2>1, SpliceBeforeFour
<1> QED
  BY <1>4, <1>5 DEF Parts, Join, g, N, K, x, y

\* The number of methods is exchanged.
LEMMA MethodCountSpliced ==
  ASSUME NEW h, NEW C, NEW n, NEW M, NEW k, NEW S, IsParts(h, C, n, M, k, S),
         NEW m \in Nat, NEW p, p = Len(h) + Len(C)
  PROVE  Spliced(Parts(h, C, n, M, k, S), p, p + 1, <<m>>) = Parts(h, C, m, M, k, S)
<1> DEFINE N == <<n>>
           K == <<k>>
           L == <<m>>
           g == Join(h, C)
           l == Join(g, N)
           r == Join(l, M)
           y == p + 1
<1>1. /\ Cells(N) /\ Len(N) = 1 /\ Cells(K) /\ Cells(L)
      /\ Cells(h) /\ Cells(C) /\ Cells(M) /\ Cells(S)
  BY OneCell DEF IsParts
<1> HIDE DEF N, K, L
<1>2. Cells(g) /\ Len(g) = p /\ Len(g) \in Nat
  BY <1>1, JoinedCells
<1> HIDE DEF g
<1>3. Cells(l) /\ Len(l) = p + 1
  BY <1>1, <1>2, JoinedCells
<1>4. Spliced(l, p, y, L) = Join(g, L)
  <2>1. Spliced(Join(g, N), Len(g), Len(g) + Len(N), L) = Join(g, L)
    BY <1>1, <1>2, SpliceLast
  <2> QED
    BY <1>1, <1>2, <2>1
<1>5. Span(l, p, y)
  BY <1>2, <1>3 DEF Span
<1> HIDE DEF l, y
<1>6. Cells(r) /\ Len(r) = Len(l) + Len(M) /\ Len(M) \in Nat
  BY <1>1, <1>3, JoinedCells
<1>7. Span(r, p, y)
  BY <1>2, <1>3, <1>5, <1>6 DEF Span
<1>8. Spliced(r, p, y, L) = Join(Spliced(l, p, y, L), M)
  BY <1>1, <1>3, <1>5, SpliceBefore
<1> HIDE DEF r
<1>9. Spliced(Join(Join(r, K), S), p, y, L) = Join(Join(Spliced(r, p, y, L), K), S)
  BY <1>1, <1>6, <1>7, SpliceBeforeTwo
<1> QED
  BY <1>4, <1>8, <1>9 DEF Parts, Join, g, l, r, y, N, K, L

\* A splice among the methods leaves the other five parts.
LEMMA MethodsSpliced ==
  ASSUME NEW h, NEW C, NEW n, NEW M, NEW k, NEW S, IsParts(h, C, n, M, k, S),
         NEW start, NEW end, Span(M, start, end), NEW new, Cells(new),
         NEW p, p = Len(h) + Len(C) + 1
  PROVE  Spliced(Parts(h, C, n, M, k, S), p + start, p + end, new)
           = Parts(h, C, n, Spliced(M, start, end, new), k, S)
<1> DEFINE N == <<n>>
           K == <<k>>
           g == Join(h, C)
           l == Join(g, N)
           r == Join(l, M)
           x == p + start
           y == p + end
<1>1. /\ Cells(N) /\ Len(N) = 1 /\ Cells(K)
      /\ Cells(h) /\ Cells(C) /\ Cells(M) /\ Cells(S)
  BY OneCell DEF IsParts
<1> HIDE DEF N, K
<1>2. Cells(g) /\ Len(g) = Len(h) + Len(C) /\ Len(g) \in Nat
  BY <1>1, JoinedCells
<1> HIDE DEF g
<1>3. Cells(l) /\ Len(l) = p /\ p \in Nat
  BY <1>1, <1>2, JoinedCells
<1> HIDE DEF l
<1>4. Cells(r) /\ Len(r) = p + Len(M) /\ Len(M) \in Nat
  BY <1>1, <1>3, JoinedCells
<1>5. Spliced(r, x, y, new) = Join(l, Spliced(M, start, end, new))
  BY <1>1, <1>3, SpliceBehind
<1> HIDE DEF r
<1>6. Span(r, x, y)
  BY <1>3, <1>4 DEF Span
<1> HIDE DEF x, y
<1>7. Spliced(Join(Join(r, K), S), x, y, new) = Join(Join(Spliced(r, x, y, new), K), S)
  BY <1>1, <1>4, <1>6, SpliceBeforeTwo
<1> QED
  BY <1>5, <1>7 DEF Parts, Join, g, l, r, x, y, N, K

\* The number of services is exchanged.
LEMMA ServiceCountSpliced ==
  ASSUME NEW h, NEW C, NEW n, NEW M, NEW k, NEW S, IsParts(h, C, n, M, k, S),
         NEW m \in Nat, NEW q, q = Len(h) + Len(C) + 1 + Len(M)
  PROVE  Spliced(Parts(h, C, n, M, k, S), q, q + 1, <<m>>) = Parts(h, C, n, M, m, S)
<1> DEFINE N == <<n>>
           K == <<k>>
           L == <<m>>
           g == Join(h, C)
           l == Join(g, N)
           r == Join(l, M)
           t == Join(r, K)
           y == q + 1
<1>1. /\ Cells(N) /\ Len(N) = 1 /\ Cells(K) /\ Len(K) = 1 /\ Cells(L)
      /\ Cells(h) /\ Cells(C) /\ Cells(M) /\ Cells(S)
  BY OneCell DEF IsParts
<1> HIDE DEF N, K, L
<1>2. Cells(g) /\ Len(g) = Len(h) + Len(C)
  BY <1>1, JoinedCells
<1> HIDE DEF g
<1>3. Cells(l) /\ Len(l) = Len(g) + 1
  BY <1>1, <1>2, JoinedCells
<1> HIDE DEF l
<1>4. Cells(r) /\ Len(r) = q /\ q \in Nat
  <2>1. Cells(r) /\ Len(r) = Len(l) + Len(M) /\ Len(r) \in Nat
    BY <1>1, <1>3, JoinedCells
  <2> QED
    BY <1>2, <1>3, <2>1
<1> HIDE DEF r
<1>5. Cells(t) /\ Len(t) = q + 1
  BY <1>1, <1>4, JoinedCells
<1>6. Spliced(t, q, y, L) = Join(r, L)
  <2>1. Spliced(Join(r, K), Len(r), Len(r) + Len(K), L) = Join(r, L)
    BY <1>1, <1>4, SpliceLast
  <2> QED
    BY <1>1, <1>4, <2>1
<1>7. Span(t, q, y)
  BY <1>4, <1>5 DEF Span
<1> HIDE DEF t, y
<1>8. Spliced(Join(t, S), q, y, L) = Join(Spliced(t, q, y, L), S)
  BY <1>1, <1>5, <1>7, SpliceBefore
<1> QED
  BY <1>6, <1>8 DEF Parts, Join, g, l, r, t, y, N, K, L

\* A splice among the services leaves the other five parts.
LEMMA ServicesSpliced ==
  ASSUME NEW h, NEW C, NEW n, NEW M, NEW k, NEW S, IsParts(h, C, n, M, k, S),
         NEW start, NEW end, Span(S, start, end), NEW new, Cells(new),
         NEW q, q = Len(h) + Len(C) + 1 + Len(M) + 1
  PROVE  Spliced(Parts(h, C, n, M, k, S), q + start, q + end, new)
           = Parts(h, C, n, M, k, Spliced(S, start, end, new))
<1> DEFINE N == <<n>>
           K == <<k>>
           g == Join(h, C)
           l == Join(g, N)
           r == Join(l, M)
           t == Join(r, K)
<1>1. /\ Cells(N) /\ Len(N) = 1 /\ Cells(K) /\ Len(K) = 1
      /\ Cells(h) /\ Cells(C) /\ Cells(M) /\ Cells(S)
  BY OneCell DEF IsParts
<1> HIDE DEF N, K
<1>2. Cells(g) /\ Len(g) = Len(h) + Len(C)
  BY <1>1, JoinedCells
<1> HIDE DEF g
<1>3. Cells(l) /\ Len(l) = Len(g) + 1
  BY <1>1, <1>2, JoinedCells
<1> HIDE DEF l
<1>4. Cells(r) /\ Len(r) = Len(l) + Len(M)
  BY <1>1, <1>3, JoinedCells
<1> HIDE DEF r
<1>5. Cells(t) /\ Len(t) = Len(r) + 1
  BY <1>1, <1>4, JoinedCells
<1>6. Len(t) = q
  BY <1>2, <1>3, <1>4, <1>5
<1> HIDE DEF t
<1>7. Spliced(Join(t, S), Len(t) + start, Len(t) + end, new) = Join(t, Spliced(S, start, end, new))
  BY <1>1, <1>5, SpliceBehind
<1> QED
  BY <1>6, <1>7 DEF Parts, Join, g, l, r, t, N, K

-----------------------------------------------------------------------------
(* Flattening *)

\* The first i parts of E, joined.
Begins(E, f) ==
  /\ f \in [0..Len(E) -> Seq(Nat)]
  /\ f[0] = <<>>
  /\ \A i \in 1..Len(E) : f[i] = f[i - 1] \o E[i]

\* Every list of parts has them.
LEMMA BeginsExists ==
  ASSUME NEW E \in Seq(Seq(Nat))
  PROVE  \E f : Begins(E, f)
<1> DEFINE h == [n \in Nat |-> [x \in Seq(Nat) |->
                   IF n + 1 \in 1..Len(E) THEN x \o E[n + 1] ELSE x]]
<1>1. ASSUME NEW n \in Nat, NEW x \in Seq(Nat)
      PROVE  /\ h[n][x] \in Seq(Nat)
             /\ n + 1 \in 1..Len(E) => h[n][x] = x \o E[n + 1]
  <2>1. CASE n + 1 \in 1..Len(E)
    <3>1. E[n + 1] \in Seq(Nat)
      BY <2>1, ElementOfSeq
    <3>2. x \o E[n + 1] \in Seq(Nat)
      BY <3>1, Joined
    <3> QED
      BY <2>1, <3>2
  <2>2. CASE n + 1 \notin 1..Len(E)
    BY <2>2
  <2> QED
    BY <2>1, <2>2
<1>2. h \in [Nat -> [Seq(Nat) -> Seq(Nat)]]
  <2>1. \A n \in Nat : h[n] = [x \in Seq(Nat) |-> h[n][x]]
    OBVIOUS
  <2>2. \A n \in Nat : h[n] \in [Seq(Nat) -> Seq(Nat)]
    <3> TAKE n \in Nat
    <3> DEFINE g == h[n]
    <3>1. g = [x \in Seq(Nat) |-> g[x]] /\ \A x \in Seq(Nat) : g[x] \in Seq(Nat)
      BY <1>1, <2>1
    <3> HIDE DEF g
    <3>2. g \in [Seq(Nat) -> Seq(Nat)]
      BY <3>1
    <3> QED
      BY <3>2 DEF g
  <2>3. h = [n \in Nat |-> h[n]]
    OBVIOUS
  <2> HIDE DEF h
  <2> QED
    BY <2>2, <2>3
<1> HIDE DEF h
<1>3. <<>> \in Seq(Nat)
  OBVIOUS
<1>4. PICK f : Follows(Seq(Nat), <<>>, h, f)
  BY <1>2, <1>3, Recursion
<1> DEFINE g == [i \in 0..Len(E) |-> f[i]]
<1>5. f \in [Nat -> Seq(Nat)] /\ f[0] = <<>> /\ \A n \in Nat : f[n + 1] = h[n][f[n]]
  BY <1>4 DEF Follows
<1>6. Len(E) \in Nat
  BY LenProperties
<1>7. g \in [0..Len(E) -> Seq(Nat)] /\ g[0] = <<>>
  BY <1>5, <1>6
<1>8. ASSUME NEW i \in 1..Len(E)
      PROVE  g[i] = g[i - 1] \o E[i]
  <2>1. i - 1 \in Nat /\ (i - 1) + 1 = i /\ i - 1 \in 0..Len(E) /\ i \in 0..Len(E)
    BY <1>6
  <2>2. f[i] = h[i - 1][f[i - 1]]
    BY <1>5, <2>1
  <2>3. f[i - 1] \in Seq(Nat)
    BY <1>5, <2>1
  <2>4. f[i] = f[i - 1] \o E[i]
    BY <1>1, <2>1, <2>2, <2>3
  <2> QED
    BY <2>1, <2>4
<1>9. Begins(E, g)
  BY <1>7, <1>8 DEF Begins
<1> QED
  BY <1>9

\* FlattenSeq is the last of them.
LEMMA FlattenEnds ==
  ASSUME NEW E \in Seq(Seq(Nat)), NEW f, Begins(E, f)
  PROVE  FlattenSeq(E) = f[Len(E)]
<1>1. Len(E) \in Nat
  BY LenProperties
<1>2. CASE Len(E) = 0
  <2>1. E = <<>>
    BY <1>2, EmptySeq
  <2> QED
    BY <1>2, <2>1 DEF FlattenSeq, Begins
<1>3. CASE Len(E) # 0
  <2> DEFINE n == Len(E)
             Rec(g) == [i \in 1..n |-> IF i = 1 THEN E[i] ELSE g[i - 1] \o E[i]]
             F == CHOOSE g : g = Rec(g)
             k == [i \in 1..n |-> f[i]]
  <2>1. \A i \in 1..n : k[i] = Rec(k)[i]
    <3> TAKE i \in 1..n
    <3>1. f[i] = f[i - 1] \o E[i] /\ f[0] = <<>>
      BY DEF Begins
    <3>2. CASE i = 1
      <4>1. E[1] \in Seq(Nat)
        BY <1>1, <1>3, ElementOfSeq
      <4>2. <<>> \o E[1] = E[1]
        BY <4>1, ConcatEmptySeq
      <4>3. Rec(k)[i] = E[1] /\ k[i] = f[1]
        <5> HIDE DEF k
        <5>1. Rec(k)[i] = E[i]
          BY <3>2
        <5> QED
          BY <3>2, <5>1 DEF k
      <4>4. f[1] = f[0] \o E[1] /\ f[0] = <<>>
        <5>1. i - 1 = 0
          BY <3>2
        <5>2. f[i] = f[0] \o E[i]
          BY <3>1, <5>1
        <5> QED
          BY <3>1, <3>2, <5>2
      <4> QED
        BY <4>2, <4>3, <4>4
    <3>3. CASE i # 1
      <4>1. i - 1 \in 1..n
        BY <1>1, <3>3
      <4>2. Rec(k)[i] = k[i - 1] \o E[i]
        <5> HIDE DEF k
        <5> QED
          BY <3>3
      <4>3. k[i - 1] = f[i - 1] /\ k[i] = f[i]
        BY <4>1
      <4> HIDE DEF k, Rec
      <4> QED
        BY <3>1, <4>2, <4>3
    <3> QED
      BY <3>2, <3>3
  <2>2. k = Rec(k)
    BY <2>1
  <2> HIDE DEF k
  <2>3. F = Rec(F)
    <3> HIDE DEF Rec
    <3> QED
      BY <2>2
  <2> HIDE DEF F
  <2>4. \A i \in 1..n : F[i] = IF i = 1 THEN E[i] ELSE F[i - 1] \o E[i]
    BY <2>3
  <2>5. \A i \in 1..n : k[i] = IF i = 1 THEN E[i] ELSE k[i - 1] \o E[i]
    BY <2>2
  <2> DEFINE G == {i \in Nat : i + 1 <= n => F[i + 1] = k[i + 1]}
  <2> HIDE DEF Rec
  <2>6. 0 \in G
    BY <1>1, <1>3, <2>4, <2>5
  <2>7. ASSUME NEW i \in Nat, i \in G
        PROVE  i + 1 \in G
    <3> SUFFICES ASSUME i + 2 <= n PROVE F[i + 2] = k[i + 2]
      OBVIOUS
    <3>1. i + 2 \in 1..n /\ i + 2 # 1 /\ (i + 2) - 1 = i + 1
      BY <1>1
    <3>2. F[i + 1] = k[i + 1]
      BY <1>1, <2>7
    <3> HIDE DEF n
    <3> QED
      BY <2>4, <2>5, <3>1, <3>2
  <2> HIDE DEF G
  <2>8. Nat \subseteq G
    BY <2>6, <2>7, Induction
  <2>9. n - 1 \in Nat /\ (n - 1) + 1 = n /\ n <= n
    BY <1>1, <1>3
  <2>10. F[n] = k[n]
    BY <2>8, <2>9 DEF G
  <2>11. k[n] = f[n]
    BY <1>1, <1>3 DEF k
  <2>12. FlattenSeq(E) = F[n]
    BY <1>3 DEF FlattenSeq, F, Rec
  <2> QED
    BY <2>10, <2>11, <2>12
<1> QED
  BY <1>2, <1>3

\* Parts joined are a list of cells.
LEMMA FlattenType ==
  ASSUME NEW E \in Seq(Seq(Nat))
  PROVE  FlattenSeq(E) \in Seq(Nat)
<1>1. PICK f : Begins(E, f)
  BY BeginsExists
<1>2. Len(E) \in 0..Len(E)
  BY LenProperties
<1> QED
  BY <1>1, <1>2, FlattenEnds DEF Begins


\* No parts join to no cells.
LEMMA FlattenEmpty == FlattenSeq(<<>>) = <<>>
BY DEF FlattenSeq

\* One part more at the end puts its cells at the end.
LEMMA FlattenMore ==
  ASSUME NEW E \in Seq(Seq(Nat)), NEW e \in Seq(Nat)
  PROVE  FlattenSeq(E \o <<e>>) = FlattenSeq(E) \o e
<1> DEFINE n == Len(E)
           A == E \o <<e>>
<1>1. n \in Nat /\ <<e>> \in Seq(Seq(Nat)) /\ Len(<<e>>) = 1
  BY LenProperties
<1>2. /\ A \in Seq(Seq(Nat)) /\ Len(A) = n + 1
      /\ \A i \in 1..n : A[i] = E[i]
      /\ A[n + 1] = e
  <2>1. /\ A \in Seq(Seq(Nat)) /\ Len(A) = n + Len(<<e>>)
        /\ \A i \in 1..n + Len(<<e>>) : A[i] = IF i <= n THEN E[i] ELSE <<e>>[i - n]
    BY <1>1, ConcatProperties, ZenonT(20)
  <2> HIDE DEF A, n
  <2>2. \A i \in 1..n : A[i] = E[i]
    BY <1>1, <2>1
  <2>3. A[n + 1] = <<e>>[(n + 1) - n]
    BY <1>1, <2>1
  <2>4. (n + 1) - n = 1
    BY <1>1
  <2> QED
    BY <1>1, <2>1, <2>2, <2>3, <2>4
<1>3. PICK f : Begins(E, f)
  BY BeginsExists
<1> HIDE DEF A
<1>4. PICK g : Begins(A, g)
  BY <1>2, BeginsExists
<1>5. /\ f[0] = <<>> /\ g[0] = <<>>
      /\ \A i \in 1..n : f[i] = f[i - 1] \o E[i]
      /\ \A i \in 1..n + 1 : g[i] = g[i - 1] \o A[i]
  BY <1>2, <1>3, <1>4 DEF Begins
<1> DEFINE G == {i \in Nat : i <= n => f[i] = g[i]}
<1>6. 0 \in G
  BY <1>5
<1>7. ASSUME NEW i \in Nat, i \in G
      PROVE  i + 1 \in G
  <2> SUFFICES ASSUME i + 1 <= n PROVE f[i + 1] = g[i + 1]
    OBVIOUS
  <2>1. i + 1 \in 1..n /\ i + 1 \in 1..n + 1 /\ (i + 1) - 1 = i /\ i <= n
    BY <1>1
  <2>2. f[i] = g[i]
    BY <1>7, <2>1
  <2> HIDE DEF n
  <2> QED
    BY <1>2, <1>5, <2>1, <2>2
<1> HIDE DEF G
<1>8. Nat \subseteq G
  BY <1>6, <1>7, Induction
<1>9. f[n] = g[n]
  BY <1>1, <1>8 DEF G
<1>10. g[n + 1] = g[n] \o e
  <2>1. n + 1 \in 1..n + 1 /\ (n + 1) - 1 = n
    BY <1>1
  <2> HIDE DEF n
  <2> QED
    BY <1>2, <1>5, <2>1
<1>11. FlattenSeq(E) = f[n] /\ FlattenSeq(A) = g[n + 1]
  BY <1>2, <1>3, <1>4, FlattenEnds
<1> QED
  BY <1>9, <1>10, <1>11 DEF A

\* The parts of two lists join as the lists do.
LEMMA FlattenJoined ==
  ASSUME NEW A \in Seq(Seq(Nat)), NEW B \in Seq(Seq(Nat))
  PROVE  FlattenSeq(A \o B) = FlattenSeq(A) \o FlattenSeq(B)
<1> DEFINE V == Seq(Nat)
           n == Len(B)
           b(k) == SubSeq(B, 1, k)
           G == {k \in Nat : k <= n => FlattenSeq(A \o b(k)) = FlattenSeq(A) \o FlattenSeq(b(k))}
<1>1. n \in Nat
  BY LenProperties
<1>2. ASSUME NEW k \in 0..n
      PROVE  b(k) \in Seq(V)
  <2>1. \A i \in 1..k : B[i] \in V
    BY <1>1, ElementOfSeq
  <2>2. k \in Int /\ 1 \in Int
    BY <1>1
  <2> HIDE DEF V
  <2> QED
    BY <2>1, <2>2, SubSeqProperties
<1>3. 0 \in G
  <2>1. b(0) = <<>>
    BY SubSeqEmpty
  <2>2. A \o <<>> = A
    BY ConcatEmptySeq
  <2>3. FlattenSeq(A) \in Seq(Nat)
    BY FlattenType
  <2>4. FlattenSeq(A) \o <<>> = FlattenSeq(A)
    BY <2>3, ConcatEmptySeq
  <2> HIDE DEF b
  <2> QED
    BY <2>1, <2>2, <2>4, FlattenEmpty
<1>4. ASSUME NEW k \in Nat, k \in G
      PROVE  k + 1 \in G
  <2> SUFFICES ASSUME k + 1 <= n
               PROVE  FlattenSeq(A \o b(k + 1)) = FlattenSeq(A) \o FlattenSeq(b(k + 1))
    OBVIOUS
  <2> DEFINE e == B[k + 1]
             c == b(k)
  <2>1. e \in V
    BY <1>1, ElementOfSeq
  <2>2. b(k + 1) = c \o <<e>>
    <3>1. 1 \in 1..n /\ k + 1 \in 1..n /\ (k + 1) - 1 = k
      BY <1>1
    <3>2. SubSeq(B, 1, k + 1) = SubSeq(B, 1, (k + 1) - 1) \o <<B[k + 1]>>
      <4> DEFINE m == k + 1
      <4>1. m \in 1..Len(B)
        BY <3>1
      <4> HIDE DEF m
      <4>2. SubSeq(B, 1, m) = SubSeq(B, 1, m - 1) \o <<B[m]>>
        BY <3>1, <4>1, SubSeqRecursiveSecond
      <4> QED
        BY <4>2 DEF m
    <3> QED
      BY <3>1, <3>2
  <2>3. c \in Seq(V)
    BY <1>1, <1>2
  <2>4. FlattenSeq(A \o c) = FlattenSeq(A) \o FlattenSeq(c)
    BY <1>1, <1>4
  <2> HIDE DEF e, c, b, n
  <2>5. <<e>> \in Seq(V)
    BY <2>1
  <2>6. A \o c \in Seq(V) /\ A \o (c \o <<e>>) = (A \o c) \o <<e>>
    BY <2>3, <2>5, ConcatProperties, ConcatAssociative
  <2>7. FlattenSeq((A \o c) \o <<e>>) = FlattenSeq(A \o c) \o e
    BY <2>1, <2>6, FlattenMore
  <2>8. FlattenSeq(c \o <<e>>) = FlattenSeq(c) \o e
    BY <2>1, <2>3, FlattenMore
  <2>9. (FlattenSeq(A) \o FlattenSeq(c)) \o e = FlattenSeq(A) \o (FlattenSeq(c) \o e)
    <3>1. FlattenSeq(A) \in Seq(Nat) /\ FlattenSeq(c) \in Seq(Nat)
      BY <2>3, FlattenType
    <3> QED
      BY <2>1, <3>1, JoinedThrice DEF V
  <2> QED
    BY <2>2, <2>4, <2>6, <2>7, <2>8, <2>9
<1> HIDE DEF G
<1>5. Nat \subseteq G
  BY <1>3, <1>4, Induction
<1>6. b(n) = B
  BY SubSeqFull
<1>7. n \in G
  BY <1>1, <1>5
<1> HIDE DEF b
<1>8. FlattenSeq(A \o b(n)) = FlattenSeq(A) \o FlattenSeq(b(n))
  BY <1>1, <1>7 DEF G
<1> QED
  BY <1>6, <1>8

\* at says where the entries of E begin and end, one after the other, in d.
Placed(d, p, E, at) ==
  /\ at \in [0..Len(E) -> Nat]
  /\ at[0] = p
  /\ \A i \in 1..Len(E) : Holds(d, at[i - 1], E[i]) /\ at[i] = at[i - 1] + Len(E[i])

\* Entries held end to end each have their place.
LEMMA EntriesPlaced ==
  ASSUME NEW d \in Seq(Nat), NEW p \in Nat, NEW E \in Seq(Seq(Nat)),
         Holds(d, p, FlattenSeq(E))
  PROVE  \E at : Placed(d, p, E, at) /\ at[Len(E)] = p + Len(FlattenSeq(E))
<1> DEFINE n == Len(E)
<1>1. n \in Nat
  BY LenProperties
<1>2. PICK f : Begins(E, f)
  BY BeginsExists
<1>3. FlattenSeq(E) = f[n]
  BY <1>2, FlattenEnds
<1>4. /\ \A i \in 0..n : f[i] \in Seq(Nat) /\ Len(f[i]) \in Nat
      /\ \A i \in 1..n : E[i] \in Seq(Nat) /\ Len(E[i]) \in Nat
  BY <1>2, ElementOfSeq, LenProperties DEF Begins
<1>5. f[0] = <<>> /\ \A i \in 1..n : f[i] = f[i - 1] \o E[i]
  BY <1>2 DEF Begins
<1> HIDE DEF n
<1>6. ASSUME NEW i \in 1..n, Holds(d, p, f[i])
      PROVE  /\ Holds(d, p, f[i - 1])
             /\ Holds(d, p + Len(f[i - 1]), E[i])
             /\ Len(f[i]) = Len(f[i - 1]) + Len(E[i])
  <2>1. i - 1 \in 0..n
    BY <1>1
  <2>2. f[i - 1] \in Seq(Nat) /\ E[i] \in Seq(Nat) /\ f[i] = f[i - 1] \o E[i]
    BY <1>4, <1>5, <2>1
  <2> DEFINE a == f[i - 1]
             b == E[i]
  <2> HIDE DEF a, b
  <2>3. a \in Seq(Nat) /\ b \in Seq(Nat) /\ Holds(d, p, a \o b)
    BY <1>6, <2>2 DEF a, b
  <2>4. Holds(d, p, a) /\ Holds(d, p + Len(a), b)
    BY <2>3, HoldsBoth
  <2>5. Len(a \o b) = Len(a) + Len(b)
    BY <2>3, Joined
  <2> QED
    BY <2>2, <2>4, <2>5 DEF a, b
<1> DEFINE G == {k \in Nat : k <= n => Holds(d, p, f[n - k])}
<1>7. 0 \in G
  BY <1>1, <1>3
<1>8. ASSUME NEW k \in Nat, k \in G
      PROVE  k + 1 \in G
  <2> SUFFICES ASSUME k + 1 <= n PROVE Holds(d, p, f[n - (k + 1)])
    OBVIOUS
  <2>1. n - k \in 1..n /\ (n - k) - 1 = n - (k + 1) /\ k <= n
    BY <1>1
  <2>2. Holds(d, p, f[n - k])
    BY <1>8, <2>1
  <2> DEFINE i == n - k
  <2> HIDE DEF i
  <2>3. Holds(d, p, f[i - 1])
    BY <1>6, <2>1, <2>2 DEF i
  <2> QED
    BY <2>1, <2>3 DEF i
<1> HIDE DEF G
<1>9. Nat \subseteq G
  BY <1>7, <1>8, Induction
<1>10. ASSUME NEW i \in 1..n
       PROVE  Holds(d, p, f[i])
  <2>1. n - i \in Nat /\ n - (n - i) = i /\ n - i <= n
    BY <1>1
  <2>2. n - i \in G
    BY <1>9, <2>1
  <2> DEFINE k == n - i
  <2> HIDE DEF k
  <2>3. Holds(d, p, f[n - k])
    BY <2>1, <2>2 DEF G, k
  <2> QED
    BY <2>1, <2>3 DEF k
<1> DEFINE at == [i \in 0..n |-> p + Len(f[i])]
<1>11. at \in [0..n -> Nat]
  BY <1>4
<1>12. at[0] = p
  <2>1. Len(f[0]) = 0 /\ 0 \in 0..n
    BY <1>1, <1>5
  <2>2. at[0] = p + Len(f[0])
    BY <2>1
  <2> HIDE DEF at
  <2> QED
    BY <2>1, <2>2
<1>13. ASSUME NEW i \in 1..n
       PROVE  Holds(d, at[i - 1], E[i]) /\ at[i] = at[i - 1] + Len(E[i])
  <2>1. i - 1 \in 0..n /\ i \in 0..n
    BY <1>1
  <2>2. Len(f[i - 1]) \in Nat /\ Len(E[i]) \in Nat
    BY <1>4, <2>1
  <2>3. Holds(d, p + Len(f[i - 1]), E[i]) /\ Len(f[i]) = Len(f[i - 1]) + Len(E[i])
    BY <1>6, <1>10
  <2>4. at[i - 1] = p + Len(f[i - 1]) /\ at[i] = p + Len(f[i])
    BY <2>1
  <2> DEFINE x == at[i - 1]
             l == Len(f[i - 1])
             e == Len(E[i])
  <2> HIDE DEF at, x, l, e
  <2>5. Holds(d, x, E[i])
    BY <2>3, <2>4 DEF x
  <2>6. l \in Nat /\ e \in Nat /\ x = p + l /\ at[i] = p + (l + e)
    BY <2>2, <2>3, <2>4 DEF x, l, e
  <2>7. at[i] = x + e
    BY <2>6
  <2> QED
    BY <2>5, <2>7 DEF x, e
<1>14. at[n] = p + Len(f[n])
  BY <1>1
<1> HIDE DEF at
<1>15. Placed(d, p, E, at)
  BY <1>11, <1>12, <1>13 DEF Placed, n
<1>16. at[Len(E)] = p + Len(FlattenSeq(E))
  BY <1>3, <1>14 DEF n
<1> QED
  BY <1>15, <1>16

-----------------------------------------------------------------------------
(* Lists as text: the entries of s, each written by the code c, end to end *)

\* c writes every member of T as cells.
Coding(T, c) == c \in [T -> Seq(Nat)]

Coded(c, s) == [i \in DOMAIN s |-> c[s[i]]]

Text(c, s) == FlattenSeq(Coded(c, s))

\* The parts of the text are the entries as c writes them.
LEMMA CodedType ==
  ASSUME NEW T, NEW c, Coding(T, c), NEW s \in Seq(T)
  PROVE  /\ Coded(c, s) \in Seq(Seq(Nat)) /\ Len(Coded(c, s)) = Len(s)
         /\ \A i \in 1..Len(s) : Coded(c, s)[i] = c[s[i]] /\ c[s[i]] \in Seq(Nat)
<1> DEFINE n == Len(s)
           e == Coded(c, s)
           V == Seq(Nat)
<1>1. n \in Nat /\ DOMAIN s = 1..n
  BY LenProperties
<1>2. \A i \in 1..n : c[s[i]] \in V
  BY ElementOfSeq DEF Coding
<1>3. e = [i \in 1..n |-> c[s[i]]]
  BY <1>1 DEF Coded
<1> HIDE DEF e, n, V
<1>4. e \in [1..n -> V]
  BY <1>2, <1>3
<1>5. e \in Seq(V) /\ Len(e) = n
  BY <1>1, <1>4
<1>6. \A i \in 1..n : e[i] = c[s[i]]
  BY <1>3
<1> QED
  BY <1>2, <1>5, <1>6 DEF e, n, V

\* A text is a list of cells.
LEMMA TextType ==
  ASSUME NEW T, NEW c, Coding(T, c), NEW s \in Seq(T)
  PROVE  Text(c, s) \in Seq(Nat) /\ Len(Text(c, s)) \in Nat
<1> DEFINE e == Coded(c, s)
<1>1. e \in Seq(Seq(Nat))
  BY CodedType
<1> HIDE DEF e
<1>2. FlattenSeq(e) \in Seq(Nat)
  BY <1>1, FlattenType
<1> QED
  BY <1>2, LenProperties DEF Text, e

\* An empty list has an empty text,
LEMMA TextEmpty == ASSUME NEW c PROVE Text(c, <<>>) = <<>>
<1>1. Coded(c, <<>>) = <<>>
  BY DEF Coded
<1> QED
  BY <1>1, FlattenEmpty DEF Text

\* a list of one entry is written as the entry.
LEMMA TextOne ==
  ASSUME NEW T, NEW c, Coding(T, c), NEW x \in T
  PROVE  Text(c, <<x>>) = c[x]
<1>1. Coded(c, <<x>>) = <<c[x]>>
  BY DEF Coded
<1>2. c[x] \in Seq(Nat)
  BY DEF Coding
<1> DEFINE e == c[x]
           none == <<>>
<1>3. none \in Seq(Seq(Nat)) /\ e \in Seq(Nat)
  BY <1>2, EmptySeq
<1>4. none \o <<e>> = <<e>> /\ <<>> \o e = e
  BY <1>3, ConcatEmptySeq
<1> HIDE DEF e
<1>5. FlattenSeq(none \o <<e>>) = FlattenSeq(none) \o e
  <2> HIDE DEF none
  <2> QED
    BY <1>3, FlattenMore
<1>6. FlattenSeq(<<e>>) = e
  BY <1>4, <1>5, FlattenEmpty
<1> QED
  BY <1>1, <1>6 DEF Text, e

\* Two lists are written one entry after the other,
LEMMA CodedJoined ==
  ASSUME NEW T, NEW c, Coding(T, c), NEW s \in Seq(T), NEW t \in Seq(T)
  PROVE  Coded(c, s \o t) = Coded(c, s) \o Coded(c, t)
<1> DEFINE V == Seq(Nat)
           r == s \o t
           a == Coded(c, s)
           b == Coded(c, t)
           e == Coded(c, r)
           f == a \o b
<1>1. /\ r \in Seq(T) /\ Len(r) = Len(s) + Len(t)
      /\ \A i \in 1..Len(s) + Len(t) : r[i] = IF i <= Len(s) THEN s[i] ELSE t[i - Len(s)]
  BY ConcatProperties, ZenonT(20)
<1>2. Len(s) \in Nat /\ Len(t) \in Nat
  BY LenProperties
<1>a. a \in Seq(V) /\ Len(a) = Len(s) /\ \A i \in 1..Len(s) : a[i] = c[s[i]]
  BY CodedType
<1>b. b \in Seq(V) /\ Len(b) = Len(t) /\ \A i \in 1..Len(t) : b[i] = c[t[i]]
  BY CodedType
<1> HIDE DEF r
<1>3. e \in Seq(V) /\ Len(e) = Len(r) /\ \A i \in 1..Len(r) : e[i] = c[r[i]]
  <2>1. r \in Seq(T)
    BY <1>1
  <2> QED
    BY <2>1, CodedType
<1> HIDE DEF V, a, b, e
<1>4. /\ a \in Seq(V) /\ Len(a) = Len(s) /\ \A i \in 1..Len(s) : a[i] = c[s[i]]
      /\ b \in Seq(V) /\ Len(b) = Len(t) /\ \A i \in 1..Len(t) : b[i] = c[t[i]]
  BY <1>a, <1>b
<1>5. /\ f \in Seq(V) /\ Len(f) = Len(a) + Len(b)
      /\ \A i \in 1..Len(a) + Len(b) : f[i] = IF i <= Len(a) THEN a[i] ELSE b[i - Len(a)]
  BY <1>4, ConcatProperties, ZenonT(20)
<1> HIDE DEF f
<1>6. Len(e) = Len(f)
  BY <1>1, <1>4, <1>3, <1>5
<1>7. ASSUME NEW i \in 1..Len(e)
      PROVE  e[i] = f[i]
  <2>1. i \in 1..Len(s) + Len(t) /\ i \in 1..Len(r) /\ i \in 1..Len(a) + Len(b)
    BY <1>1, <1>4, <1>3
  <2>2. CASE i <= Len(s)
    <3>1. i \in 1..Len(s) /\ i <= Len(a)
      BY <1>2, <1>4, <2>1, <2>2
    <3>2. e[i] = c[s[i]]
      BY <1>1, <1>3, <2>1, <2>2
    <3>3. f[i] = a[i]
      BY <1>5, <2>1, <3>1
    <3> QED
      BY <1>4, <3>1, <3>2, <3>3
  <2>3. CASE ~(i <= Len(s))
    <3>1. i - Len(s) \in 1..Len(t) /\ ~(i <= Len(a)) /\ i - Len(a) = i - Len(s)
      BY <1>2, <1>4, <2>1, <2>3
    <3>2. e[i] = c[t[i - Len(s)]]
      BY <1>1, <1>3, <2>1, <2>3
    <3>3. f[i] = b[i - Len(s)]
      BY <1>5, <2>1, <3>1
    <3> QED
      BY <1>4, <3>1, <3>2, <3>3
  <2> QED
    BY <2>2, <2>3
<1>8. e = f
  BY <1>3, <1>5, <1>6, <1>7, SeqEqual
<1> QED
  BY <1>8 DEF e, f, a, b, r

\* so the text of two lists is their texts end to end.
LEMMA TextJoined ==
  ASSUME NEW T, NEW c, Coding(T, c), NEW s \in Seq(T), NEW t \in Seq(T)
  PROVE  Text(c, s \o t) = Text(c, s) \o Text(c, t)
<1> DEFINE a == Coded(c, s)
           b == Coded(c, t)
<1>1. a \in Seq(Seq(Nat)) /\ b \in Seq(Seq(Nat))
  BY CodedType
<1>2. Coded(c, s \o t) = a \o b
  BY CodedJoined
<1> HIDE DEF a, b
<1>3. FlattenSeq(a \o b) = FlattenSeq(a) \o FlattenSeq(b)
  BY <1>1, FlattenJoined
<1> QED
  BY <1>2, <1>3 DEF Text, a, b

\* Where the i-th entry begins, if the list begins at p.
Start(c, s, p, i) == p + Len(Text(c, SubSeq(s, 1, i - 1)))

\* The first i entries of a list,
LEMMA Prefix ==
  ASSUME NEW T, NEW s \in Seq(T), NEW i \in 0..Len(s)
  PROVE  SubSeq(s, 1, i) \in Seq(T) /\ Len(SubSeq(s, 1, i)) = i
<1> DEFINE m == 1
           n == i
<1>1. m \in Int /\ n \in Int /\ i \in Nat /\ i <= Len(s) /\ Len(s) \in Nat
  BY LenProperties
<1>2. \A j \in m..n : s[j] \in T
  <2> TAKE j \in m..n
  <2>1. j \in 1..Len(s)
    BY <1>1
  <2> QED
    BY <2>1, ElementOfSeq
<1> HIDE DEF m, n
<1>3. SubSeq(s, m, n) \in Seq(T) /\ Len(SubSeq(s, m, n)) = IF m <= n THEN n - m + 1 ELSE 0
  BY <1>1, <1>2, SubSeqProperties, ZenonT(20)
<1>4. (IF m <= n THEN n - m + 1 ELSE 0) = i
  BY <1>1 DEF m, n
<1> QED
  BY <1>3, <1>4 DEF m, n

\* the entries behind the i-th,
LEMMA Suffix ==
  ASSUME NEW T, NEW s \in Seq(T), NEW i \in 0..Len(s)
  PROVE  SubSeq(s, i + 1, Len(s)) \in Seq(T) /\ Len(SubSeq(s, i + 1, Len(s))) = Len(s) - i
<1> DEFINE n == Len(s)
           j == i + 1
<1>1. n \in Int /\ i \in Nat /\ i <= n /\ j \in Int /\ n \in Nat
  BY LenProperties
<1>2. \A k \in j..n : s[k] \in T
  <2> TAKE k \in j..n
  <2>1. k \in 1..Len(s)
    BY <1>1
  <2> QED
    BY <2>1, ElementOfSeq
<1> HIDE DEF n, j
<1>3. SubSeq(s, j, n) \in Seq(T) /\ Len(SubSeq(s, j, n)) = IF j <= n THEN n - j + 1 ELSE 0
  BY <1>1, <1>2, SubSeqProperties, ZenonT(20)
<1>4. (IF j <= n THEN n - j + 1 ELSE 0) = n - i
  BY <1>1 DEF j
<1> QED
  BY <1>3, <1>4 DEF j, n

\* and what the i-th adds to those before it.
LEMMA PrefixGrows ==
  ASSUME NEW T, NEW s \in Seq(T), NEW i \in 1..Len(s)
  PROVE  SubSeq(s, 1, i) = SubSeq(s, 1, i - 1) \o <<s[i]>>
<1>1. 1 \in 1..Len(s) /\ i \in 1..Len(s)
  BY LenProperties
<1> QED
  BY <1>1, SubSeqRecursiveSecond

\* The list in three parts: what is before the i-th entry, it, what is behind.
LEMMA ListSplit ==
  ASSUME NEW T, NEW s \in Seq(T), NEW i \in 1..Len(s)
  PROVE  /\ s[i] \in T
         /\ SubSeq(s, 1, i - 1) \in Seq(T) /\ Len(SubSeq(s, 1, i - 1)) = i - 1
         /\ SubSeq(s, i + 1, Len(s)) \in Seq(T)
         /\ s = (SubSeq(s, 1, i - 1) \o <<s[i]>>) \o SubSeq(s, i + 1, Len(s))
<1>1. Len(s) \in Nat /\ i \in Nat /\ i - 1 \in 0..Len(s) /\ i \in 0..Len(s)
  BY LenProperties
<1>2. SubSeq(s, 1, i - 1) \in Seq(T) /\ Len(SubSeq(s, 1, i - 1)) = i - 1
  BY <1>1, Prefix
<1>3. SubSeq(s, i + 1, Len(s)) \in Seq(T)
  BY <1>1, Suffix
<1>4. SubSeq(s, 1, i) \o SubSeq(s, i + 1, Len(s)) = s
  <2>1. 1 \in 1..Len(s) + 1 /\ i \in 1 - 1 .. Len(s) /\ Len(s) \in i..Len(s)
    BY <1>1
  <2>2. SubSeq(s, 1, i) \o SubSeq(s, i + 1, Len(s)) = SubSeq(s, 1, Len(s))
    BY <2>1, ConcatAdjacentSubSeq
  <2>3. SubSeq(s, 1, Len(s)) = s
    BY SubSeqFull
  <2> QED
    BY <2>2, <2>3
<1>5. SubSeq(s, 1, i) = SubSeq(s, 1, i - 1) \o <<s[i]>>
  BY PrefixGrows
<1>6. s[i] \in T
  BY ElementOfSeq
<1> QED
  BY <1>2, <1>3, <1>4, <1>5, <1>6

PlacedAt(d, p, c, s, at) ==
  /\ Placed(d, p, Coded(c, s), at)
  /\ at[Len(s)] = p + Len(Text(c, s))
  /\ \A i \in 1..Len(s) : at[i - 1] = Start(c, s, p, i)

\* In an account that holds the list as text, the entries are where Start says.
LEMMA TextPlaced ==
  ASSUME NEW T, NEW c, Coding(T, c), NEW s \in Seq(T),
         NEW d \in Seq(Nat), NEW p \in Nat, Holds(d, p, Text(c, s))
  PROVE  \E at : PlacedAt(d, p, c, s, at)
<1> DEFINE E == Coded(c, s)
           n == Len(s)
<1>1. E \in Seq(Seq(Nat)) /\ Len(E) = n /\ \A i \in 1..n : E[i] = c[s[i]]
  BY CodedType
<1>2. n \in Nat
  BY LenProperties
<1> HIDE DEF E
<1>3. PICK at : Placed(d, p, E, at) /\ at[Len(E)] = p + Len(FlattenSeq(E))
  <2>1. Holds(d, p, FlattenSeq(E))
    BY DEF Text, E
  <2> QED
    BY <1>1, <2>1, EntriesPlaced
<1>4. /\ at \in [0..n -> Nat] /\ at[0] = p
      /\ \A i \in 1..n : at[i] = at[i - 1] + Len(c[s[i]])
  BY <1>1, <1>3 DEF Placed
<1> DEFINE len(i) == Len(Text(c, SubSeq(s, 1, i)))
           G == {i \in Nat : i <= n => at[i] = p + len(i)}
<1>5. 0 \in G
  <2>1. SubSeq(s, 1, 0) = <<>>
    BY SubSeqEmpty
  <2>2. len(0) = 0
    <3>1. Text(c, SubSeq(s, 1, 0)) = <<>>
      BY <2>1, TextEmpty, ZenonT(20)
    <3> QED
      BY <3>1
  <2> HIDE DEF len
  <2> QED
    BY <1>4, <2>2
<1>6. ASSUME NEW i \in Nat, i \in G
      PROVE  i + 1 \in G
  <2> SUFFICES ASSUME i + 1 <= n PROVE at[i + 1] = p + len(i + 1)
    OBVIOUS
  <2> DEFINE j == i + 1
             pre == SubSeq(s, 1, i)
             x == s[j]
  <2>1. j \in 1..n /\ j - 1 = i /\ i <= n /\ i \in 0..n
    BY <1>2
  <2> HIDE DEF j
  <2>2. SubSeq(s, 1, j) = pre \o <<x>>
    BY <2>1, PrefixGrows
  <2>3. pre \in Seq(T) /\ x \in T
    BY <2>1, Prefix, ElementOfSeq
  <2>4. at[i] = p + Len(Text(c, pre))
    BY <1>6, <2>1
  <2> HIDE DEF pre, x
  <2>5. <<x>> \in Seq(T)
    BY <2>3
  <2>6. Text(c, pre \o <<x>>) = Text(c, pre) \o c[x]
    <3> DEFINE y == <<x>>
    <3>1. y \in Seq(T)
      BY <2>5
    <3> HIDE DEF y
    <3>2. Text(c, pre \o y) = Text(c, pre) \o Text(c, y)
      BY <2>3, <3>1, TextJoined
    <3>3. Text(c, pre \o <<x>>) = Text(c, pre) \o Text(c, <<x>>)
      BY <3>2 DEF y
    <3>4. Text(c, <<x>>) = c[x]
      BY <2>3, TextOne
    <3> QED
      BY <3>3, <3>4
  <2> DEFINE u == Text(c, pre)
             v == c[x]
  <2>7. u \in Seq(Nat) /\ Len(u) \in Nat /\ v \in Seq(Nat) /\ Len(v) \in Nat
    <3>1. u \in Seq(Nat) /\ Len(u) \in Nat
      BY <2>3, TextType
    <3>2. v \in Seq(Nat)
      BY <2>3 DEF Coding
    <3>3. Len(v) \in Nat
      BY <3>2, LenProperties
    <3> QED
      BY <3>1, <3>2, <3>3
  <2>8. at[j] = at[i] + Len(v)
    BY <1>4, <2>1 DEF x
  <2>9. len(j) = Len(u \o v)
    BY <2>2, <2>6
  <2> HIDE DEF u, v, len
  <2>10. Len(u \o v) = Len(u) + Len(v)
    BY <2>7, Joined
  <2>11. at[j] = p + len(j)
    BY <2>4, <2>7, <2>8, <2>9, <2>10 DEF u
  <2> QED
    BY <2>11 DEF j
<1> HIDE DEF G
<1>7. Nat \subseteq G
  BY <1>5, <1>6, Induction
<1>8. \A i \in 0..n : at[i] = p + len(i)
  BY <1>2, <1>7 DEF G
<1>9. ASSUME NEW i \in 1..n
      PROVE  at[i - 1] = Start(c, s, p, i)
  <2>1. i - 1 \in 0..n
    BY <1>2
  <2> QED
    BY <1>8, <2>1 DEF Start
<1>10. at[n] = p + Len(Text(c, s))
  BY <1>1, <1>3 DEF Text, E
<1> QED
  BY <1>3, <1>9, <1>10 DEF E, PlacedAt

-----------------------------------------------------------------------------
(* Editing a list in its text *)

\* The i-th entry of s exchanged for the entries of t.
Exchange(s, i, t) == (SubSeq(s, 1, i - 1) \o t) \o SubSeq(s, i + 1, Len(s))

\* No cells are a list of cells too.
LEMMA NoCells == Cells(<<>>) /\ Len(<<>>) = 0
  BY DEF Cells

\* Nothing before or behind changes nothing.
LEMMA JoinedNone ==
  ASSUME NEW a, Cells(a)
  PROVE  Join(<<>>, a) = a /\ Join(a, <<>>) = a
  BY ConcatEmptySeq DEF Join, Cells

\* A whole account is exchanged.
LEMMA SpliceAll ==
  ASSUME NEW a, Cells(a), NEW new, Cells(new)
  PROVE  Spliced(a, 0, Len(a), new) = new
<1> DEFINE e == <<>>
<1>1. Cells(e) /\ Len(e) = 0 /\ Len(a) \in Nat
  BY NoCells, LenProperties DEF Cells
<1>2. Join(e, a) = a /\ Join(e, new) = new
  BY JoinedNone
<1> HIDE DEF e
<1>3. Spliced(Join(e, a), Len(e), Len(e) + Len(a), new) = Join(e, new)
  BY <1>1, SpliceLast
<1> QED
  BY <1>1, <1>2, <1>3

\* An entry is put behind the last cell.
LEMMA SpliceEnd ==
  ASSUME NEW a, Cells(a), NEW new, Cells(new)
  PROVE  Spliced(a, Len(a), Len(a), new) = Join(a, new)
<1> DEFINE e == <<>>
<1>1. Cells(e) /\ Len(e) = 0 /\ Len(a) \in Nat
  BY NoCells, LenProperties DEF Cells
<1>2. Join(a, e) = a
  BY JoinedNone
<1> HIDE DEF e
<1>3. Spliced(Join(a, e), Len(a), Len(a) + Len(e), new) = Join(a, new)
  BY <1>1, SpliceLast
<1>4. Len(a) + Len(e) = Len(a)
  BY <1>1
<1> QED
  BY <1>2, <1>3, <1>4

\* A text is a list of cells.
LEMMA TextCells ==
  ASSUME NEW T, NEW c, Coding(T, c), NEW s, s \in Seq(T)
  PROVE  Cells(Text(c, s)) /\ Len(Text(c, s)) \in Nat
  BY TextType DEF Cells

\* Two lists written end to end.
LEMMA TextJoin ==
  ASSUME NEW T, NEW c, Coding(T, c), NEW s, s \in Seq(T), NEW t, t \in Seq(T)
  PROVE  s \o t \in Seq(T) /\ Text(c, s \o t) = Join(Text(c, s), Text(c, t))
<1>1. s \o t \in Seq(T)
  BY ConcatProperties
<1>2. Text(c, s \o t) = Text(c, s) \o Text(c, t)
  BY TextJoined
<1> QED
  BY <1>1, <1>2 DEF Join

\* A splice within an entry's cells that leaves the cells of the entries of t
\* exchanges the entry for them.
LEMMA EntrySpliced ==
  ASSUME NEW T, NEW c, Coding(T, c), NEW s, s \in Seq(T), NEW i, i \in 1..Len(s),
         NEW t, t \in Seq(T), NEW u, NEW v, Span(c[s[i]], u, v), NEW new, Cells(new),
         Spliced(c[s[i]], u, v, new) = Text(c, t),
         NEW a, a = Len(Text(c, SubSeq(s, 1, i - 1)))
  PROVE  /\ Exchange(s, i, t) \in Seq(T)
         /\ Span(Text(c, s), a + u, a + v)
         /\ Spliced(Text(c, s), a + u, a + v, new) = Text(c, Exchange(s, i, t))
<1> DEFINE pre == SubSeq(s, 1, i - 1)
           x == s[i]
           suf == SubSeq(s, i + 1, Len(s))
           one == <<x>>
           P == Text(c, pre)
           X == c[x]
           Q == Text(c, suf)
           R == Text(c, t)
<1>1. x \in T /\ pre \in Seq(T) /\ suf \in Seq(T) /\ s = (pre \o one) \o suf
  BY ListSplit
<1>2. Exchange(s, i, t) = (pre \o t) \o suf
  BY DEF Exchange
<1>3. a = Len(P) /\ Span(X, u, v) /\ Spliced(X, u, v, new) = R
  OBVIOUS
<1>4. one \in Seq(T) /\ Text(c, one) = X
  <2> HIDE DEF pre, x, suf
  <2>1. one \in Seq(T)
    BY <1>1
  <2>2. Text(c, <<x>>) = c[x]
    BY <1>1, TextOne
  <2> QED
    BY <2>1, <2>2
<1> HIDE DEF pre, x, suf, one
<1>5. Cells(P) /\ Len(P) \in Nat /\ Cells(Q) /\ Len(Q) \in Nat /\ Cells(R)
  BY <1>1, TextCells
<1>6. Cells(X) /\ Len(X) \in Nat
  BY <1>4, TextCells
<1>7. pre \o one \in Seq(T) /\ Text(c, pre \o one) = Join(P, X)
  BY <1>1, <1>4, TextJoin
<1>8. Text(c, s) = Join(Join(P, X), Q)
  <2> DEFINE l == pre \o one
  <2>1. l \in Seq(T) /\ Text(c, l) = Join(P, X) /\ s = l \o suf
    BY <1>1, <1>7
  <2> HIDE DEF l, P, X, Q
  <2>2. Text(c, l \o suf) = Join(Text(c, l), Text(c, suf))
    BY <1>1, <2>1, TextJoin
  <2> QED
    BY <2>1, <2>2 DEF Q
<1>9. (pre \o t) \o suf \in Seq(T) /\ Text(c, (pre \o t) \o suf) = Join(Join(P, R), Q)
  <2> DEFINE l == pre \o t
  <2>1. l \in Seq(T) /\ Text(c, l) = Join(P, R)
    BY <1>1, TextJoin
  <2> HIDE DEF l, P, R, Q
  <2>2. l \o suf \in Seq(T) /\ Text(c, l \o suf) = Join(Text(c, l), Text(c, suf))
    BY <1>1, <2>1, TextJoin
  <2> QED
    BY <2>1, <2>2 DEF Q, l
<1> HIDE DEF P, X, Q, R
<1> DEFINE l == Join(P, X)
<1>10. Cells(l) /\ Len(l) = Len(P) + Len(X)
  BY <1>5, <1>6, JoinedCells
<1>11. Spliced(l, a + u, a + v, new) = Join(P, R)
  BY <1>3, <1>5, <1>6, SpliceBehind
<1>12. Span(l, a + u, a + v)
  BY <1>3, <1>5, <1>6, <1>10 DEF Span
<1> HIDE DEF l
<1>13. Spliced(Join(l, Q), a + u, a + v, new) = Join(Spliced(l, a + u, a + v, new), Q)
  BY <1>5, <1>10, <1>12, SpliceBefore
<1>14. Span(Join(l, Q), a + u, a + v)
  <2>1. Len(Join(l, Q)) = Len(l) + Len(Q) /\ Len(l) \in Nat
    BY <1>5, <1>10, JoinedCells
  <2> DEFINE w == Join(l, Q)
             y == a + u
             z == a + v
  <2>2. y \in 0..Len(l) /\ z \in y..Len(l)
    BY <1>12 DEF Span
  <2>3. Len(w) = Len(l) + Len(Q) /\ Len(l) \in Nat /\ Len(Q) \in Nat
    BY <1>5, <2>1
  <2> HIDE DEF w, y, z
  <2>4. y \in 0..Len(w) /\ z \in y..Len(w)
    BY <2>2, <2>3
  <2> QED
    BY <2>4 DEF Span, w, y, z
<1> QED
  BY <1>2, <1>8, <1>9, <1>11, <1>13, <1>14 DEF l

-----------------------------------------------------------------------------
(* The lists after an edit *)

\* r is the list a followed by the list b.
Joins(T, a, b, r) == a \in Seq(T) /\ b \in Seq(T) /\ r = a \o b

\* The entries of two lists end to end.
LEMMA JoinedEntries ==
  ASSUME NEW T, NEW a, NEW b, NEW r, Joins(T, a, b, r)
  PROVE  /\ r \in Seq(T) /\ Len(r) = Len(a) + Len(b) /\ Len(a) \in Nat /\ Len(b) \in Nat
         /\ \A j \in 1..Len(a) : r[j] = a[j]
         /\ \A j \in 1..Len(b) : r[Len(a) + j] = b[j]
  BY ConcatProperties, LenProperties DEF Joins

\* The entries of a list with one more at the end.
LEMMA GrownEntries ==
  ASSUME NEW T, NEW s, s \in Seq(T), NEW y, y \in T, NEW r, r = s \o <<y>>
  PROVE  /\ r \in Seq(T) /\ Len(r) = Len(s) + 1 /\ Len(s) \in Nat
         /\ \A j \in 1..Len(s) : r[j] = s[j]
         /\ r[Len(s) + 1] = y
<1> DEFINE b == <<y>>
<1>1. Joins(T, s, b, r) /\ Len(b) = 1 /\ b[1] = y
  BY DEF Joins
<1> HIDE DEF b
<1>2. /\ r \in Seq(T) /\ Len(r) = Len(s) + Len(b) /\ Len(s) \in Nat
      /\ \A j \in 1..Len(s) : r[j] = s[j]
      /\ \A j \in 1..Len(b) : r[Len(s) + j] = b[j]
  BY <1>1, JoinedEntries
<1>3. r[Len(s) + 1] = b[1]
  BY <1>1, <1>2
<1> QED
  BY <1>1, <1>2, <1>3

\* r is the list s without its i-th entry.
Shrinks(T, s, i, r) == s \in Seq(T) /\ i \in 1..Len(s) /\ r = Exchange(s, i, <<>>)

\* Its entries: those behind the i-th move up.
LEMMA ShrunkEntries ==
  ASSUME NEW T, NEW s, NEW i, NEW r, Shrinks(T, s, i, r)
  PROVE  /\ r \in Seq(T) /\ Len(r) = Len(s) - 1 /\ Len(s) \in Nat
         /\ \A j \in 1..Len(r) : r[j] = IF j < i THEN s[j] ELSE s[j + 1]
<1> s \in Seq(T) /\ i \in 1..Len(s) /\ r = Exchange(s, i, <<>>)
  BY DEF Shrinks
<1> DEFINE pre == SubSeq(s, 1, i - 1)
           suf == SubSeq(s, i + 1, Len(s))
           n == Len(s)
<1>1. n \in Nat /\ i \in 1..n
  BY LenProperties
<1>2. pre \in Seq(T) /\ Len(pre) = i - 1 /\ \A j \in 1..(i - 1) : pre[j] = s[j]
  <2>1. pre \in Seq(T) /\ Len(pre) = i - 1
    BY ListSplit
  <2>2. \A j \in 1..(i - 1) : pre[j] = s[j]
    BY <1>1, SubSeqProperties
  <2> QED
    BY <2>1, <2>2
<1>3. suf \in Seq(T) /\ Len(suf) = n - i /\ \A j \in 1..(n - i) : suf[j] = s[i + j]
  <2>1. suf \in Seq(T) /\ Len(suf) = n - i
    BY Suffix
  <2>2. \A j \in 1..(n - i) : suf[j] = s[i + j]
    BY <1>1, SubSeqProperties
  <2> QED
    BY <2>1, <2>2
<1>4. r = pre \o suf
  <2>1. pre \o <<>> = pre
    BY <1>2, ConcatEmptySeq
  <2> QED
    BY <2>1 DEF Exchange
<1> HIDE DEF pre, suf, n
<1>5. /\ r \in Seq(T) /\ Len(r) = Len(pre) + Len(suf)
      /\ \A j \in 1..Len(pre) : r[j] = pre[j]
      /\ \A j \in 1..Len(suf) : r[Len(pre) + j] = suf[j]
  <2>1. Joins(T, pre, suf, r)
    BY <1>2, <1>3, <1>4 DEF Joins
  <2> QED
    BY <2>1, JoinedEntries
<1>6. Len(r) = n - 1
  BY <1>1, <1>2, <1>3, <1>5
<1>7. ASSUME NEW j \in 1..Len(r) PROVE r[j] = IF j < i THEN s[j] ELSE s[j + 1]
  <2>1. CASE j < i
    <3>1. j \in 1..(i - 1) /\ j \in 1..Len(pre)
      BY <1>1, <1>2, <2>1
    <3> QED
      BY <1>2, <1>5, <2>1, <3>1
  <2>2. CASE ~(j < i)
    <3> DEFINE l == j - (i - 1)
    <3>1. l \in 1..(n - i) /\ l \in 1..Len(suf) /\ Len(pre) + l = j /\ i + l = j + 1
      BY <1>1, <1>2, <1>3, <1>6, <2>2
    <3> HIDE DEF l
    <3>2. r[Len(pre) + l] = suf[l] /\ suf[l] = s[i + l]
      BY <1>3, <1>5, <3>1
    <3> QED
      BY <2>2, <3>1, <3>2
  <2> QED
    BY <2>1, <2>2
<1> QED
  BY <1>1, <1>5, <1>6, <1>7 DEF n

\* The entries of a list with the i-th exchanged for another.
LEMMA ChangedEntries ==
  ASSUME NEW T, NEW s, s \in Seq(T), NEW i, i \in 1..Len(s), NEW y, y \in T,
         NEW r, r = Exchange(s, i, <<y>>)
  PROVE  /\ r \in Seq(T) /\ Len(r) = Len(s) /\ Len(s) \in Nat
         /\ \A j \in 1..Len(s) : r[j] = IF j = i THEN y ELSE s[j]
<1> DEFINE pre == SubSeq(s, 1, i - 1)
           suf == SubSeq(s, i + 1, Len(s))
           n == Len(s)
           l == pre \o <<y>>
<1>1. n \in Nat /\ i \in 1..n
  BY LenProperties
<1>2. pre \in Seq(T) /\ Len(pre) = i - 1 /\ \A j \in 1..(i - 1) : pre[j] = s[j]
  <2>1. pre \in Seq(T) /\ Len(pre) = i - 1
    BY ListSplit
  <2>2. \A j \in 1..(i - 1) : pre[j] = s[j]
    BY <1>1, SubSeqProperties
  <2> QED
    BY <2>1, <2>2
<1>3. suf \in Seq(T) /\ Len(suf) = n - i /\ \A j \in 1..(n - i) : suf[j] = s[i + j]
  <2>1. suf \in Seq(T) /\ Len(suf) = n - i
    BY Suffix
  <2>2. \A j \in 1..(n - i) : suf[j] = s[i + j]
    BY <1>1, SubSeqProperties
  <2> QED
    BY <2>1, <2>2
<1>4. r = l \o suf
  BY DEF Exchange
<1> HIDE DEF pre, suf, n
<1>5. /\ l \in Seq(T) /\ Len(l) = Len(pre) + 1
      /\ \A j \in 1..Len(pre) : l[j] = pre[j]
      /\ l[Len(pre) + 1] = y
  BY <1>2, GrownEntries
<1> HIDE DEF l
<1>6. /\ r \in Seq(T) /\ Len(r) = Len(l) + Len(suf)
      /\ \A j \in 1..Len(l) : r[j] = l[j]
      /\ \A j \in 1..Len(suf) : r[Len(l) + j] = suf[j]
  <2>1. Joins(T, l, suf, r)
    BY <1>3, <1>4, <1>5 DEF Joins
  <2> QED
    BY <2>1, JoinedEntries
<1>7. Len(r) = n /\ Len(l) = i
  BY <1>1, <1>2, <1>3, <1>5, <1>6
<1>8. ASSUME NEW j \in 1..n PROVE r[j] = IF j = i THEN y ELSE s[j]
  <2>1. CASE j < i
    <3>1. j \in 1..(i - 1) /\ j \in 1..Len(pre) /\ j \in 1..Len(l) /\ j # i
      BY <1>1, <1>2, <1>7, <2>1
    <3> QED
      BY <1>2, <1>5, <1>6, <3>1
  <2>2. CASE j = i
    <3>1. j \in 1..Len(l) /\ j = Len(pre) + 1
      BY <1>1, <1>2, <1>7, <2>2
    <3> QED
      BY <1>5, <1>6, <2>2, <3>1
  <2>3. CASE j > i
    <3> DEFINE k == j - i
    <3>1. k \in 1..(n - i) /\ k \in 1..Len(suf) /\ Len(l) + k = j /\ i + k = j /\ j # i
      BY <1>1, <1>3, <1>7, <2>3
    <3> HIDE DEF k
    <3>2. r[Len(l) + k] = suf[k] /\ suf[k] = s[i + k]
      BY <1>3, <1>6, <3>1
    <3> QED
      BY <3>1, <3>2
  <2> QED
    BY <1>1, <2>1, <2>2, <2>3
<1> QED
  BY <1>1, <1>6, <1>7, <1>8 DEF n

=============================================================================
