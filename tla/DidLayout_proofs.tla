-------------------------- MODULE DidLayout_proofs --------------------------
(***************************************************************************)
(* The DID accounts as bytes, for every number of entries and every length *)
(* of their fields: an account is always the serialization of the document *)
(* that is read from it (ExactlySerialized), every in-place edit is the    *)
(* document edit of DidRegistry (BytesAreDocuments), no edit moves an      *)
(* entry that it is not about (PlacesKept), and the account is as long as  *)
(* its document's entries (LengthIsSpace).                                 *)
(*                                                                         *)
(* The argument: an account is written with contents (LayoutInv).  From an *)
(* account in six parts the section map and the cursors read the contents  *)
(* back (SectionsFound, VmsFound, ServicesFound, ControllersRead), so what *)
(* an instruction checks in the bytes is what DidRegistry checks in the    *)
(* document; its moves splice one part, which leaves the others, and the   *)
(* outcome is written with the contents after the edit (MethodInserted,    *)
(* ..., EmptiedWritten), as the next instruction finds it.                 *)
(***************************************************************************)
EXTENDS DidLayout, AccountBytes_proofs, Registry_proofs

-----------------------------------------------------------------------------
(* Walks *)

\* end leads from each entry to the next,
Steps(E, at, end) == \A i \in 1..Len(E) : end[at[i - 1]] = at[i]

\* and moves forward until it fails.
GoesOn(d, end) == end \in [Nat -> Nat] /\ \A p \in Nat : end[p] > p \/ end[p] > Len(d)

\* A list ends where its last entry does (Sections::parse).
LEMMA ListEnds ==
  ASSUME NEW d \in Seq(Nat), NEW q \in Nat, NEW E \in Seq(Seq(Nat)), NEW at,
         Holds(d, q, <<Len(E)>>), Placed(d, q + 1, E, at),
         NEW end, GoesOn(d, end), Steps(E, at, end)
  PROVE  ListEnd(d, end, q) = at[Len(E)]
<1> USE DEF GoesOn, Steps
<1> DEFINE n == Len(E)
           after == CHOOSE g : g = [k \in Nat |-> IF k = 0 THEN q + 1 ELSE end[g[k - 1]]]
<1>1. n \in Nat
  BY LenProperties
<1>2. U32(d, q) = n
  BY <1>1, NumberHeld
<1>3. after[0] = q + 1 /\ \A k \in Nat : after[k + 1] = end[after[k]]
  <2> DEFINE a == q + 1
             Rec(g) == Iterated(a, end, g)
  <2>1. a \in Nat
    OBVIOUS
  <2>2. after = CHOOSE g : g = Rec(g)
    BY DEF Iterated
  <2> HIDE DEF a, after
  <2>3. \E g : g = Rec(g)
    BY <2>1, Iteration
  <2>4. after = Rec(after)
    <3> HIDE DEF Rec
    <3> QED
      BY <2>2, <2>3
  <2>5. \A k \in Nat : after[k] = IF k = 0 THEN a ELSE end[after[k - 1]]
    BY <2>4 DEF Iterated
  <2> HIDE DEF Rec
  <2>6. after[0] = a
    BY <2>5
  <2>7. \A k \in Nat : after[k + 1] = end[after[k]]
    BY <2>5
  <2> QED
    BY <2>6, <2>7 DEF a
<1>4. ListEnd(d, end, q) = after[n]
  BY <1>2 DEF ListEnd
<1> HIDE DEF after
<1> DEFINE G == {k \in Nat : k <= n => after[k] = at[k]}
<1>5. 0 \in G
  BY <1>3 DEF Placed
<1>6. ASSUME NEW k \in Nat, k \in G
      PROVE  k + 1 \in G
  <2> SUFFICES ASSUME k + 1 <= n PROVE after[k + 1] = at[k + 1]
    OBVIOUS
  <2>1. k + 1 \in 1..n /\ (k + 1) - 1 = k /\ k <= n
    BY <1>1
  <2>2. after[k] = at[k]
    BY <1>6, <2>1
  <2>3. end[at[k]] = at[k + 1]
    BY <2>1
  <2> QED
    BY <1>3, <2>2, <2>3
<1> HIDE DEF G
<1>7. Nat \subseteq G
  BY <1>5, <1>6, Induction
<1> QED
  BY <1>1, <1>4, <1>7 DEF G

\* The cursor's recursion ends, because it moves forward until it stops,
LEMMA CursorEnds ==
  ASSUME NEW N \in Nat, NEW end \in [Nat -> Nat],
         \A p \in Nat : end[p] > p \/ end[p] > N
  PROVE  \E g : g = [p \in Nat |-> IF p >= N \/ end[p] > N THEN <<>> ELSE <<p>> \o g[end[p]]]
<1> DEFINE Stops(p) == p >= N \/ end[p] > N
           Right(g, p) == /\ Stops(p) => g[p] = <<>>
                          /\ ~Stops(p) => g[p] = <<p>> \o g[end[p]]
           G == {k \in Nat : \E g : \A p \in Nat : p + k >= N => Right(g, p)}
<1>1. 0 \in G
  <2>1. \A p \in Nat : p + 0 >= N => Right([q \in Nat |-> <<>>], p)
    OBVIOUS
  <2> HIDE DEF Right
  <2> QED
    BY <2>1
<1>2. ASSUME NEW k \in Nat, k \in G
      PROVE  k + 1 \in G
  <2>1. PICK g : \A p \in Nat : p + k >= N => Right(g, p)
    BY <1>2
  <2> DEFINE h == [p \in Nat |-> IF p + k >= N THEN g[p]
                                  ELSE IF Stops(p) THEN <<>> ELSE <<p>> \o g[end[p]]]
  <2>2. ASSUME NEW p \in Nat, p + (k + 1) >= N
        PROVE  Right(h, p)
    <3>1. ASSUME ~Stops(p)
          PROVE  end[p] \in Nat /\ h[end[p]] = g[end[p]]
      <4>1. end[p] \in Nat /\ end[p] > p
        BY <3>1
      <4>2. end[p] + k >= N
        BY <2>2, <4>1
      <4> QED
        BY <4>1, <4>2
    <3>2. CASE p + k >= N
      <4>1. h[p] = g[p]
        BY <3>2
      <4>2. Right(g, p)
        BY <2>1, <3>2
      <4> HIDE DEF h, Stops
      <4> QED
        BY <3>1, <4>1, <4>2
    <3>3. CASE ~(p + k >= N)
      <4>1. /\ Stops(p) => h[p] = <<>>
            /\ ~Stops(p) => h[p] = <<p>> \o g[end[p]]
        <5> HIDE DEF Stops
        <5> QED
          BY <3>3
      <4> HIDE DEF h, Stops
      <4> QED
        BY <3>1, <4>1
    <3> QED
      BY <3>2, <3>3
  <2> HIDE DEF h, Right
  <2> QED
    BY <2>2
<1> HIDE DEF G
<1>3. Nat \subseteq G
  BY <1>1, <1>2, Induction
<1>4. PICK g : \A p \in Nat : p + N >= N => Right(g, p)
  BY <1>3 DEF G
<1>5. \A p \in Nat : Right(g, p)
  BY <1>4
<1> DEFINE f == [p \in Nat |-> g[p]]
           Rec(x) == [p \in Nat |-> IF p >= N \/ end[p] > N THEN <<>> ELSE <<p>> \o x[end[p]]]
<1>6. \A p \in Nat : f[p] = Rec(f)[p]
  <2> TAKE p \in Nat
  <2>1. f[p] = g[p] /\ f[end[p]] = g[end[p]]
    OBVIOUS
  <2>2. Rec(f)[p] = IF p >= N \/ end[p] > N THEN <<>> ELSE <<p>> \o f[end[p]]
    <3> HIDE DEF f
    <3> QED
      OBVIOUS
  <2> HIDE DEF f, Rec
  <2> QED
    BY <1>5, <2>1, <2>2
<1>7. f = Rec(f)
  BY <1>6
<1> HIDE DEF f
<1> QED
  BY <1>7

EndsWith(w, E, at) == at[Len(E)] = Len(w)

BeginningsIn(E, at) == [i \in 1..Len(E) |-> at[i - 1]]

\* and visits the entries of a list in order, up to the end of its window
\* (VmIter, SvcIter).
LEMMA CursorVisits ==
  ASSUME NEW w \in Seq(Nat), NEW items \in Nat, NEW E \in Seq(Seq(Nat)), NEW at,
         Placed(w, items, E, at), EndsWith(w, E, at),
         NEW end, GoesOn(w, end), Steps(E, at, end)
  PROVE  Entries(w, items, end) = BeginningsIn(E, at)
<1> USE DEF GoesOn, Steps, EndsWith
<1> DEFINE n == Len(E)
           N == Len(w)
           from == CHOOSE g : g = [p \in Nat |->
                     IF p >= N \/ end[p] > N THEN <<>> ELSE <<p>> \o g[end[p]]]
<1>1. n \in Nat /\ N \in Nat
  BY LenProperties
<1>2. from = [p \in Nat |-> IF p >= N \/ end[p] > N THEN <<>> ELSE <<p>> \o from[end[p]]]
  <2>1. \E g : g = [p \in Nat |-> IF p >= N \/ end[p] > N THEN <<>> ELSE <<p>> \o g[end[p]]]
    <3> HIDE DEF N
    <3>1. \A p \in Nat : end[p] > p \/ end[p] > N
      BY DEF N
    <3> QED
      BY <1>1, <3>1, CursorEnds
  <2> HIDE DEF N
  <2> QED
    BY <2>1
<1>3. Entries(w, items, end) = from[items]
  BY DEF Entries
<1> HIDE DEF from
<1>4. \A p \in Nat : from[p] = IF p >= N \/ end[p] > N THEN <<>> ELSE <<p>> \o from[end[p]]
  BY <1>2
<1>5. /\ at \in [0..n -> Nat] /\ at[0] = items /\ at[n] = N
      /\ \A i \in 1..n : at[i] <= N /\ end[at[i - 1]] = at[i]
      /\ \A p \in Nat : end[p] > p \/ end[p] > N
  BY DEF Placed, Holds
<1> HIDE DEF n, N
<1>6. ASSUME NEW i \in 1..n
      PROVE  /\ i - 1 \in 0..n /\ at[i - 1] \in Nat /\ at[i] \in Nat
             /\ at[i] <= N /\ at[i - 1] < N
             /\ end[at[i - 1]] = at[i]
  <2>1. i - 1 \in 0..n /\ i \in 0..n
    BY <1>1
  <2>2. at[i - 1] \in Nat /\ at[i] \in Nat
    BY <1>5, <2>1
  <2>3. end[at[i - 1]] = at[i] /\ at[i] <= N
    BY <1>5
  <2>4. end[at[i - 1]] > at[i - 1] \/ end[at[i - 1]] > N
    BY <1>5, <2>2
  <2> DEFINE x == at[i - 1]
             y == at[i]
  <2>5. x < y
    <3> HIDE DEF x, y
    <3>1. x \in Nat /\ y \in Nat /\ y <= N /\ (y > x \/ y > N)
      BY <2>2, <2>3, <2>4 DEF x, y
    <3> QED
      BY <1>1, <3>1
  <2>6. x < N
    <3> HIDE DEF x, y
    <3>1. x \in Nat /\ y \in Nat /\ y <= N
      BY <2>2, <2>3 DEF x, y
    <3> QED
      BY <1>1, <2>5, <3>1
  <2> QED
    BY <2>1, <2>2, <2>3, <2>6
<1> DEFINE visits(k) == [j \in 1..k |-> at[n - k + j - 1]]
           G == {k \in Nat : k <= n => from[at[n - k]] = visits(k)}
<1>7. 0 \in G
  <2>1. from[N] = <<>>
    <3>1. N >= N
      BY <1>1
    <3> QED
      BY <1>1, <1>4, <3>1
  <2>2. visits(0) = <<>>
    OBVIOUS
  <2>3. at[n - 0] = N
    BY <1>1, <1>5
  <2> HIDE DEF visits
  <2> QED
    BY <2>1, <2>2, <2>3
<1>8. ASSUME NEW k \in Nat, k \in G
      PROVE  k + 1 \in G
  <2>0. k + 1 \in Nat
    OBVIOUS
  <2> SUFFICES ASSUME k + 1 <= n PROVE from[at[n - (k + 1)]] = visits(k + 1)
    BY <2>0, Zenon
  <2> DEFINE i == n - k
             q == at[i - 1]
  <2>1. i \in 1..n /\ i - 1 = n - (k + 1) /\ k <= n /\ i - 1 \in 0..n
    BY <1>1
  <2>2. from[at[i]] = visits(k)
    BY <1>8, <2>1
  <2> HIDE DEF i
  <2>3. q \in Nat /\ q < N /\ end[q] = at[i] /\ ~(end[q] > N)
    <3> DEFINE y == at[i]
    <3>1. q \in Nat /\ q < N /\ end[q] = y /\ y \in Nat /\ y <= N
      BY <1>6, <2>1
    <3> HIDE DEF q, y
    <3>2. ~(y > N)
      BY <1>1, <3>1
    <3> QED
      BY <3>1, <3>2 DEF y
  <2> DEFINE t == visits(k)
             u == visits(k + 1)
             v == <<q>> \o t
  <2>4. from[q] = v
    <3> HIDE DEF q, visits
    <3>1. ~(q >= N)
      BY <1>1, <2>3
    <3> QED
      BY <1>4, <2>2, <2>3, <3>1
  <2>5. ASSUME NEW m \in 0..n
        PROVE  visits(m) \in Seq(Nat) /\ Len(visits(m)) = m
    <3>1. \A j \in 1..m : n - m + j - 1 \in 0..n
      BY <1>1
    <3>2. \A j \in 1..m : at[n - m + j - 1] \in Nat
      BY <1>5, <3>1
    <3>3. visits(m) \in [1..m -> Nat]
      BY <3>2
    <3> HIDE DEF visits
    <3> QED
      BY <1>1, <3>3
  <2>6. /\ t \in Seq(Nat) /\ Len(t) = k
        /\ u \in Seq(Nat) /\ Len(u) = k + 1
    <3>1. k \in 0..n /\ k + 1 \in 0..n
      BY <1>1, <2>1
    <3> HIDE DEF visits
    <3> QED
      BY <2>5, <3>1
  <2>7. /\ v \in Seq(Nat) /\ Len(v) = 1 + k /\ v[1] = q
        /\ \A j \in 1..k : v[1 + j] = t[j]
    <3> HIDE DEF q, t
    <3>1. <<q>> \in Seq(Nat) /\ Len(<<q>>) = 1 /\ <<q>>[1] = q
      BY <2>3
    <3>2. /\ v \in Seq(Nat) /\ Len(v) = Len(<<q>>) + Len(t)
          /\ \A j \in 1..Len(<<q>>) : v[j] = <<q>>[j]
          /\ \A j \in 1..Len(t) : v[Len(<<q>>) + j] = t[j]
      BY <2>6, <3>1, Joined
    <3> HIDE DEF v
    <3> QED
      BY <2>6, <3>1, <3>2
  <2>8. ASSUME NEW j \in 1..k + 1
        PROVE  u[j] = v[j]
    <3>1. u[j] = at[n - (k + 1) + j - 1]
      OBVIOUS
    <3>2. CASE j = 1
      <4>1. n - (k + 1) + j - 1 = i - 1
        BY <1>1, <2>1, <3>2
      <4> HIDE DEF u, v, t
      <4> QED
        BY <2>7, <3>1, <3>2, <4>1
    <3>3. CASE j # 1
      <4>1. j - 1 \in 1..k /\ 1 + (j - 1) = j /\ n - k + (j - 1) - 1 = n - (k + 1) + j - 1
        BY <1>1, <3>3
      <4>2. t[j - 1] = at[n - k + (j - 1) - 1]
        BY <4>1
      <4> HIDE DEF u, v, t
      <4>3. v[1 + (j - 1)] = t[j - 1]
        BY <2>7, <4>1
      <4> QED
        BY <3>1, <4>1, <4>2, <4>3
    <3> QED
      BY <3>2, <3>3
  <2>9. u = v
    <3> HIDE DEF u, v
    <3>1. Len(u) = Len(v) /\ \A j \in 1..Len(u) : u[j] = v[j]
      BY <2>6, <2>7, <2>8
    <3> QED
      BY <2>6, <2>7, <3>1, SameCells
  <2> HIDE DEF u, v
  <2> QED
    BY <2>1, <2>4, <2>9 DEF u
<1> HIDE DEF G
<1>9. Nat \subseteq G
  BY <1>7, <1>8, Induction
<1>10. from[at[n - n]] = visits(n)
  <2> HIDE DEF visits
  <2> QED
    BY <1>1, <1>9 DEF G
<1>11. n - n = 0 /\ visits(n) = [j \in 1..n |-> at[j - 1]]
  <2>1. n - n = 0 /\ \A j \in 1..n : n - n + j - 1 = j - 1
    BY <1>1
  <2> QED
    BY <2>1
<1> HIDE DEF visits
<1>12. from[items] = [j \in 1..n |-> at[j - 1]]
  BY <1>5, <1>10, <1>11
<1> QED
  BY <1>3, <1>12 DEF n, BeginningsIn

-----------------------------------------------------------------------------
(* Codes *)

\* What is written under a code that tells its values apart is read back.
LEMMA DecodedBack ==
  ASSUME NEW coding, IsInjective(coding), NEW x \in DOMAIN coding
  PROVE  Decoded(coding, coding[x]) = x
<1>1. coding[x] \in Range(coding)
  BY DEF Range
<1>2. \A y \in DOMAIN coding : coding[y] = coding[x] => y = x
  BY DEF IsInjective
<1> DEFINE c == CHOOSE y \in DOMAIN coding : coding[y] = coding[x]
<1>3. c \in DOMAIN coding /\ coding[c] = coding[x]
  OBVIOUS
<1> HIDE DEF c
<1>4. c = x
  BY <1>2, <1>3
<1>5. Decoded(coding, coding[x]) = c
  BY <1>1 DEF Decoded, c
<1> QED
  BY <1>4, <1>5

\* The tags tell the types of methods apart.
LEMMA TypesDecoded ==
  /\ DOMAIN TypeTag = VmType /\ IsInjective(TypeTag)
  /\ \A t \in VmType : TypeTag[t] \in Nat
BY DEF TypeTag, VmType, IsInjective

\* What a flag adds to the word of a set of flags,
Weight(f, flags) == IF f \in flags THEN Bit[f] ELSE 0

\* and what all of them do.
BitSum(flags) ==
  Weight("authentication", flags) + Weight("assertion", flags) + Weight("keyAgreement", flags)
    + Weight("capabilityInvocation", flags) + Weight("capabilityDelegation", flags)
    + Weight("protected", flags) + Weight("reserved", flags)

\* The bits of the flag word.
LEMMA BitsAreNumbers ==
  /\ Bit["authentication"] = 1 /\ Bit["assertion"] = 2 /\ Bit["keyAgreement"] = 4
  /\ Bit["capabilityInvocation"] = 8 /\ Bit["capabilityDelegation"] = 16
  /\ Bit["protected"] = 256 /\ Bit["reserved"] = 512
  /\ \A f \in Flag : Bit[f] \in Nat
BY DEF Bit, Flag, ValidFlags, VmRelationship

\* There are finitely many flags.
LEMMA FlagIsFinite == IsFiniteSet(Flag)
<1> DEFINE s1 == {"authentication"}
           s2 == s1 \cup {"assertion"}
           s3 == s2 \cup {"keyAgreement"}
           s4 == s3 \cup {"capabilityInvocation"}
           s5 == s4 \cup {"capabilityDelegation"}
           s6 == s5 \cup {"protected"}
           s7 == s6 \cup {"reserved"}
<1>1. IsFiniteSet({}) /\ s1 = {} \cup {"authentication"}
  BY FS_EmptySet
<1>2. IsFiniteSet(s1)
  BY FS_Singleton
<1>3. IsFiniteSet(s2)
  <2> HIDE DEF s1
  <2> QED BY <1>2, FS_AddElement
<1>4. IsFiniteSet(s3)
  <2> HIDE DEF s2
  <2> QED BY <1>3, FS_AddElement
<1>5. IsFiniteSet(s4)
  <2> HIDE DEF s3
  <2> QED BY <1>4, FS_AddElement
<1>6. IsFiniteSet(s5)
  <2> HIDE DEF s4
  <2> QED BY <1>5, FS_AddElement
<1>7. IsFiniteSet(s6)
  <2> HIDE DEF s5
  <2> QED BY <1>6, FS_AddElement
<1>8. IsFiniteSet(s7)
  <2> HIDE DEF s6
  <2> QED BY <1>7, FS_AddElement
<1>9. Flag = s7
  BY DEF Flag, ValidFlags, VmRelationship
<1> QED
  BY <1>8, <1>9

\* Taking the bit f out of the rest of a word.
LEMMA BitTaken ==
  ASSUME NEW rest \in SUBSET Flag, NEW f \in Flag
  PROVE  Sum(Bit, rest) = Weight(f, rest) + Sum(Bit, rest \ {f})
<1>1. IsFiniteSet(rest) /\ \A y \in rest : Bit[y] \in Int
  BY FlagIsFinite, FS_Subset, BitsAreNumbers
<1>2. CASE f \in rest
  <2>1. Sum(Bit, rest) = Bit[f] + Sum(Bit, rest \ {f})
    BY <1>1, <1>2, SumTaken
  <2> QED
    BY <1>2, <2>1 DEF Weight
<1>3. CASE f \notin rest
  <2>1. rest \ {f} = rest
    BY <1>3
  <2>2. Sum(Bit, rest) \in Int
    BY <1>1, SumType
  <2> DEFINE S == Sum(Bit, rest)
  <2>3. Weight(f, rest) = 0
    BY <1>3 DEF Weight
  <2> HIDE DEF S
  <2> QED
    BY <2>1, <2>2, <2>3 DEF S
<1> QED
  BY <1>2, <1>3

\* The sum over a set of flags, written out.
LEMMA SumIsBitSum ==
  ASSUME NEW flags \in SUBSET Flag
  PROVE  Sum(Bit, flags) = BitSum(flags)
<1> DEFINE r1 == flags \ {"authentication"}
           r2 == r1 \ {"assertion"}
           r3 == r2 \ {"keyAgreement"}
           r4 == r3 \ {"capabilityInvocation"}
           r5 == r4 \ {"capabilityDelegation"}
           r6 == r5 \ {"protected"}
           r7 == r6 \ {"reserved"}
<1>1. {"authentication", "assertion", "keyAgreement", "capabilityInvocation",
       "capabilityDelegation", "protected", "reserved"} \subseteq Flag
  BY DEF Flag, ValidFlags, VmRelationship
<1>2. Sum(Bit, flags) = Weight("authentication", flags) + Sum(Bit, r1)
  BY <1>1, BitTaken
<1>3. Sum(Bit, r1) = Weight("assertion", flags) + Sum(Bit, r2)
  <2>1. r1 \in SUBSET Flag /\ Weight("assertion", r1) = Weight("assertion", flags)
    BY DEF Weight
  <2> HIDE DEF r1
  <2> QED BY <1>1, <2>1, BitTaken
<1>4. Sum(Bit, r2) = Weight("keyAgreement", flags) + Sum(Bit, r3)
  <2>1. r2 \in SUBSET Flag /\ Weight("keyAgreement", r2) = Weight("keyAgreement", flags)
    BY DEF Weight
  <2> HIDE DEF r2
  <2> QED BY <1>1, <2>1, BitTaken
<1>5. Sum(Bit, r3) = Weight("capabilityInvocation", flags) + Sum(Bit, r4)
  <2>1. r3 \in SUBSET Flag /\ Weight("capabilityInvocation", r3) = Weight("capabilityInvocation", flags)
    BY DEF Weight
  <2> HIDE DEF r3
  <2> QED BY <1>1, <2>1, BitTaken
<1>6. Sum(Bit, r4) = Weight("capabilityDelegation", flags) + Sum(Bit, r5)
  <2>1. r4 \in SUBSET Flag /\ Weight("capabilityDelegation", r4) = Weight("capabilityDelegation", flags)
    BY DEF Weight
  <2> HIDE DEF r4
  <2> QED BY <1>1, <2>1, BitTaken
<1>7. Sum(Bit, r5) = Weight("protected", flags) + Sum(Bit, r6)
  <2>1. r5 \in SUBSET Flag /\ Weight("protected", r5) = Weight("protected", flags)
    BY DEF Weight
  <2> HIDE DEF r5
  <2> QED BY <1>1, <2>1, BitTaken
<1>8. Sum(Bit, r6) = Weight("reserved", flags) + Sum(Bit, r7)
  <2>1. r6 \in SUBSET Flag /\ Weight("reserved", r6) = Weight("reserved", flags)
    BY DEF Weight
  <2> HIDE DEF r6
  <2> QED BY <1>1, <2>1, BitTaken
<1>9. Sum(Bit, r7) = 0
  <2>1. r7 = {}
    BY DEF Flag, ValidFlags, VmRelationship
  <2> QED
    BY <2>1, SumEmpty
<1>10. \A f \in Flag : Weight(f, flags) \in Nat
  BY BitsAreNumbers DEF Weight
<1> DEFINE a == Weight("authentication", flags)
           b == Weight("assertion", flags)
           c == Weight("keyAgreement", flags)
           d == Weight("capabilityInvocation", flags)
           e == Weight("capabilityDelegation", flags)
           f == Weight("protected", flags)
           g == Weight("reserved", flags)
<1>11. a \in Nat /\ b \in Nat /\ c \in Nat /\ d \in Nat /\ e \in Nat /\ f \in Nat /\ g \in Nat
  BY <1>1, <1>10
<1> HIDE DEF r1, r2, r3, r4, r5, r6, r7, a, b, c, d, e, f, g
<1>12. Sum(Bit, flags) = a + (b + (c + (d + (e + (f + (g + 0))))))
  BY <1>2, <1>3, <1>4, <1>5, <1>6, <1>7, <1>8, <1>9 DEF a, b, c, d, e, f, g
<1>13. a + (b + (c + (d + (e + (f + (g + 0)))))) = a + b + c + d + e + f + g
  BY <1>11
<1> QED
  BY <1>12, <1>13 DEF BitSum, a, b, c, d, e, f, g

\* The flag word, written out.
LEMMA WordIsBitSum ==
  ASSUME NEW flags \in SUBSET Flag
  PROVE  WordOf(flags) = BitSum(flags)
<1> DEFINE Rec(g) == [s \in SUBSET flags |-> IF s = {} THEN 0
                        ELSE LET x == CHOOSE y \in s : TRUE IN Bit[x] + g[s \ {x}]]
           iter == CHOOSE g : g = Rec(g)
<1>1. IsFiniteSet(flags)
  BY FlagIsFinite, FS_Subset
<1>2. \A g : Rec(g) = SumStep(Bit, flags, g)
  BY DEF SumStep, Pick
<1>3. WordOf(flags) = iter[flags]
  BY DEF WordOf, MapThenSumSet, MapThenFoldSet
<1> HIDE DEF Rec
<1>4. iter = SumStep(Bit, flags, iter)
  BY <1>1, <1>2, SumsExist
<1> HIDE DEF iter
<1>5. iter[flags] = Sum(Bit, flags)
  BY <1>1, <1>4, SumsSolution
<1> QED
  BY <1>3, <1>5, SumIsBitSum

\* Seven bits of a number are told apart by division.
LEMMA BitsApart ==
  ASSUME NEW a \in 0..1, NEW b \in 0..1, NEW c \in 0..1, NEW d \in 0..1,
         NEW e \in 0..1, NEW f \in 0..1, NEW g \in 0..1, NEW w,
         w = a + 2 * b + 4 * c + 8 * d + 16 * e + 256 * f + 512 * g
  PROVE  /\ (w \div 1) % 2 = a
         /\ (w \div 2) % 2 = b
         /\ (w \div 4) % 2 = c
         /\ (w \div 8) % 2 = d
         /\ (w \div 16) % 2 = e
         /\ (w \div 256) % 2 = f
         /\ (w \div 512) % 2 = g
<1>1. (w \div 1) % 2 = a
  OBVIOUS
<1>2. (w \div 2) % 2 = b
  OBVIOUS
<1>3. (w \div 4) % 2 = c
  OBVIOUS
<1>4. (w \div 8) % 2 = d
  OBVIOUS
<1>5. (w \div 16) % 2 = e
  OBVIOUS
<1>6. (w \div 256) % 2 = f
  OBVIOUS
<1>7. (w \div 512) % 2 = g
  OBVIOUS
<1> QED
  BY <1>1, <1>2, <1>3, <1>4, <1>5, <1>6, <1>7

\* The bit of one flag in a word.
Has(f, flags) == IF f \in flags THEN 1 ELSE 0

\* The flag word is read back as the set it was written for.
LEMMA FlagsReadBack ==
  ASSUME NEW flags \in SUBSET Flag
  PROVE  WordOf(flags) \in Nat /\ FlagsOf(WordOf(flags)) = flags
<1> DEFINE a == Has("authentication", flags)
           b == Has("assertion", flags)
           c == Has("keyAgreement", flags)
           d == Has("capabilityInvocation", flags)
           e == Has("capabilityDelegation", flags)
           f == Has("protected", flags)
           g == Has("reserved", flags)
           w == a + 2 * b + 4 * c + 8 * d + 16 * e + 256 * f + 512 * g
<1>1. /\ a \in 0..1 /\ b \in 0..1 /\ c \in 0..1 /\ d \in 0..1
      /\ e \in 0..1 /\ f \in 0..1 /\ g \in 0..1
  BY DEF Has
<1>2. /\ Weight("authentication", flags) = a
      /\ Weight("assertion", flags) = 2 * b
      /\ Weight("keyAgreement", flags) = 4 * c
      /\ Weight("capabilityInvocation", flags) = 8 * d
      /\ Weight("capabilityDelegation", flags) = 16 * e
      /\ Weight("protected", flags) = 256 * f
      /\ Weight("reserved", flags) = 512 * g
  BY BitsAreNumbers DEF Weight, Has
<1> HIDE DEF a, b, c, d, e, f, g
<1>3. WordOf(flags) = w
  <2>1. BitSum(flags) = w
    BY <1>2 DEF BitSum
  <2> QED
    BY <2>1, WordIsBitSum
<1>4. w \in Nat
  BY <1>1
<1>5. /\ (w \div 1) % 2 = a /\ (w \div 2) % 2 = b /\ (w \div 4) % 2 = c
      /\ (w \div 8) % 2 = d /\ (w \div 16) % 2 = e /\ (w \div 256) % 2 = f
      /\ (w \div 512) % 2 = g
  BY <1>1, BitsApart
<1> HIDE DEF w
<1>6. ASSUME NEW x \in Flag
      PROVE  (w \div Bit[x]) % 2 = 1 <=> x \in flags
  <2>1. CASE x = "authentication"
    BY <1>5, <2>1, BitsAreNumbers DEF a, Has
  <2>2. CASE x = "assertion"
    BY <1>5, <2>2, BitsAreNumbers DEF b, Has
  <2>3. CASE x = "keyAgreement"
    BY <1>5, <2>3, BitsAreNumbers DEF c, Has
  <2>4. CASE x = "capabilityInvocation"
    BY <1>5, <2>4, BitsAreNumbers DEF d, Has
  <2>5. CASE x = "capabilityDelegation"
    BY <1>5, <2>5, BitsAreNumbers DEF e, Has
  <2>6. CASE x = "protected"
    BY <1>5, <2>6, BitsAreNumbers DEF f, Has
  <2>7. CASE x = "reserved"
    BY <1>5, <2>7, BitsAreNumbers DEF g, Has
  <2> QED
    BY <2>1, <2>2, <2>3, <2>4, <2>5, <2>6, <2>7 DEF Flag, ValidFlags, VmRelationship
<1>7. FlagsOf(w) = flags
  BY <1>6 DEF FlagsOf
<1> QED
  BY <1>3, <1>4, <1>7

-----------------------------------------------------------------------------
(* Entries *)

\* A length-prefixed field is one cell longer than its payload.
LEMMA PrefixedType ==
  ASSUME NEW bytes \in Seq(Nat)
  PROVE  Prefixed(bytes) \in Seq(Nat) /\ Len(Prefixed(bytes)) = 1 + Len(bytes)
<1> DEFINE n == Len(bytes)
<1>1. n \in Nat
  BY LenProperties
<1> HIDE DEF n
<1>2. <<n>> \in Seq(Nat) /\ Len(<<n>>) = 1
  BY <1>1
<1>3. Prefixed(bytes) = <<n>> \o bytes
  BY DEF Prefixed, n
<1>4. <<n>> \o bytes \in Seq(Nat) /\ Len(<<n>> \o bytes) = Len(<<n>>) + Len(bytes)
  BY <1>2, Joined
<1> QED
  BY <1>2, <1>3, <1>4

\* The parts of a method are cells,
LEMMA MethodCells ==
  ASSUME NEW m \in Method
  PROVE  /\ Spelling[m.fragment] \in Seq(Nat) /\ m.key \in Seq(Nat)
         /\ TypeTag[m.type] \in Nat /\ WordOf(m.flags) \in Nat
<1>1. m.fragment \in Fragment /\ m.type \in VmType /\ m.flags \in SUBSET Flag /\ m.key \in Seq(Cell)
  BY DEF Method, Material
<1>2. m.key \in Seq(Nat)
  BY <1>1, LayoutAssumption, SeqMonotonic
<1>3. Spelling[m.fragment] \in Seq(Nat)
  BY <1>1, LayoutAssumption
<1> QED
  BY <1>1, <1>2, <1>3, TypesDecoded, FlagsReadBack

\* and the parts of a service.
LEMMA ServiceCells ==
  ASSUME NEW v \in Service
  PROVE  /\ Spelling[v.fragment] \in Seq(Nat)
         /\ v.value = <<v.value[1], v.value[2]>>
         /\ v.value[1] \in Seq(Nat) /\ v.value[2] \in Seq(Nat)
<1>1. v.fragment \in Fragment /\ v.value \in ServiceValue
  BY DEF Service
<1>2. v.value \in Seq(Nat) \X Seq(Nat)
  BY <1>1, LayoutAssumption
<1>3. Spelling[v.fragment] \in Seq(Nat)
  BY <1>1, LayoutAssumption
<1> DEFINE x == v.value
<1> HIDE DEF x
<1>4. x = <<x[1], x[2]>> /\ x[1] \in Seq(Nat) /\ x[2] \in Seq(Nat)
  BY <1>2 DEF x
<1> QED
  BY <1>3, <1>4 DEF x

\* A method is written in as many cells as vm_space says.
LEMMA VmBytesType ==
  ASSUME NEW m \in Method
  PROVE  VmBytes(m) \in Seq(Nat) /\ Len(VmBytes(m)) = VmSpace(m) /\ VmSpace(m) \in Nat
<1> DEFINE a == Spelling[m.fragment]
           b == m.key
           t == TypeTag[m.type]
           w == WordOf(m.flags)
           pa == Prefixed(a)
           pb == Prefixed(b)
           tw == <<t, w>>
<1>1. a \in Seq(Nat) /\ b \in Seq(Nat) /\ t \in Nat /\ w \in Nat
  BY MethodCells
<1>2. Len(a) \in Nat /\ Len(b) \in Nat
  BY <1>1, LenProperties
<1>3. pa \in Seq(Nat) /\ Len(pa) = 1 + Len(a) /\ pb \in Seq(Nat) /\ Len(pb) = 1 + Len(b)
  BY <1>1, PrefixedType
<1>4. VmBytes(m) = (pa \o tw) \o pb /\ VmSpace(m) = 1 + Len(a) + 1 + 1 + 1 + Len(b)
  BY DEF VmBytes, VmSpace
<1>5. tw \in Seq(Nat) /\ Len(tw) = 2
  BY <1>1
<1> HIDE DEF a, b, t, w, pa, pb, tw
<1>6. pa \o tw \in Seq(Nat) /\ Len(pa \o tw) = Len(pa) + Len(tw)
  BY <1>3, <1>5, Joined
<1>7. (pa \o tw) \o pb \in Seq(Nat) /\ Len((pa \o tw) \o pb) = Len(pa \o tw) + Len(pb)
  BY <1>3, <1>6, Joined
<1> QED
  BY <1>2, <1>3, <1>4, <1>5, <1>6, <1>7

\* A service is written in as many cells as service_space says.
LEMMA ServiceBytesType ==
  ASSUME NEW v \in Service
  PROVE  /\ ServiceBytes(v) \in Seq(Nat)
         /\ Len(ServiceBytes(v)) = ServiceSpace(v) /\ ServiceSpace(v) \in Nat
<1> DEFINE a == Spelling[v.fragment]
           b == v.value[1]
           c == v.value[2]
           pa == Prefixed(a)
           pb == Prefixed(b)
           pc == Prefixed(c)
<1>1. a \in Seq(Nat) /\ b \in Seq(Nat) /\ c \in Seq(Nat)
  BY ServiceCells
<1>2. Len(a) \in Nat /\ Len(b) \in Nat /\ Len(c) \in Nat
  BY <1>1, LenProperties
<1>3. /\ pa \in Seq(Nat) /\ Len(pa) = 1 + Len(a)
      /\ pb \in Seq(Nat) /\ Len(pb) = 1 + Len(b)
      /\ pc \in Seq(Nat) /\ Len(pc) = 1 + Len(c)
  BY <1>1, PrefixedType
<1>4. /\ ServiceBytes(v) = (pa \o pb) \o pc
      /\ ServiceSpace(v) = 1 + Len(a) + 1 + Len(b) + 1 + Len(c)
  BY DEF ServiceBytes, ServiceSpace
<1> HIDE DEF a, b, c, pa, pb, pc
<1>5. pa \o pb \in Seq(Nat) /\ Len(pa \o pb) = Len(pa) + Len(pb)
  BY <1>3, Joined
<1>6. (pa \o pb) \o pc \in Seq(Nat) /\ Len((pa \o pb) \o pc) = Len(pa \o pb) + Len(pc)
  BY <1>3, <1>5, Joined
<1> QED
  BY <1>2, <1>3, <1>4, <1>5, <1>6

\* A method in place is found by its cursor as it was written (VmIter).
LEMMA VmHeld ==
  ASSUME NEW d \in Seq(Nat), NEW p \in Nat, NEW m \in Method, Holds(d, p, VmBytes(m))
  PROVE  /\ VmEnd(d)[p] = p + VmSpace(m)
         /\ VmAt(d, p) = m
         /\ FlagsPos(d, p) = p + 1 + Len(Spelling[m.fragment]) + 1
<1> DEFINE a == Spelling[m.fragment]
           b == m.key
           t == TypeTag[m.type]
           w == WordOf(m.flags)
           pa == Prefixed(a)
           pb == Prefixed(b)
           tw == <<t, w>>
           q == p + 1 + Len(a)
<1>1. a \in Seq(Nat) /\ b \in Seq(Nat) /\ t \in Nat /\ w \in Nat
  BY MethodCells
<1>2. Len(a) \in Nat /\ Len(b) \in Nat /\ Len(d) \in Nat
  BY <1>1, LenProperties
<1>3. pa \in Seq(Nat) /\ Len(pa) = 1 + Len(a) /\ pb \in Seq(Nat) /\ Len(pb) = 1 + Len(b)
  BY <1>1, PrefixedType
<1>4. VmBytes(m) = (pa \o tw) \o pb /\ VmSpace(m) = 1 + Len(a) + 1 + 1 + 1 + Len(b)
  BY DEF VmBytes, VmSpace
<1>5. tw \in Seq(Nat) /\ Len(tw) = 2 /\ tw[1] = t /\ tw[2] = w
  BY <1>1
<1> HIDE DEF a, b, t, w, pa, pb, tw
<1>6. pa \o tw \in Seq(Nat) /\ Len(pa \o tw) = Len(pa) + Len(tw)
  BY <1>3, <1>5, Joined
<1>7. Holds(d, p, pa \o tw) /\ Holds(d, p + Len(pa \o tw), pb)
  BY <1>3, <1>4, <1>6, HoldsBoth
<1>8. Holds(d, p, pa) /\ Holds(d, p + Len(pa), tw)
  BY <1>3, <1>5, <1>7, HoldsBoth
<1>9. q \in Nat /\ p + Len(pa) = q /\ p + Len(pa \o tw) = q + 2
  BY <1>2, <1>3, <1>5, <1>6
<1>10. LenPrefixed(d, p) = q /\ Payload(d, p) = a
  BY <1>1, <1>8, FieldHeld DEF pa
<1> HIDE DEF q
<1>11. q + 2 <= Len(d) /\ d[q + 1] = t /\ d[q + 2] = w
  <2>1. Holds(d, q, tw)
    BY <1>8, <1>9
  <2>2. 1 \in 1..Len(tw) /\ 2 \in 1..Len(tw)
    BY <1>5
  <2> QED
    BY <1>5, <2>1, <2>2 DEF Holds
<1>12. U32(d, q) = t /\ U32(d, q + 1) = w
  <2>1. q < Len(d) /\ q + 1 < Len(d) /\ (q + 1) + 1 = q + 2
    BY <1>2, <1>9, <1>11
  <2> QED
    BY <1>11, <2>1 DEF U32
<1>13. LenPrefixed(d, q + 2) = q + 2 + 1 + Len(b) /\ Payload(d, q + 2) = b
  <2>1. Holds(d, q + 2, Prefixed(b)) /\ q + 2 \in Nat
    BY <1>7, <1>9 DEF pb
  <2> QED
    BY <1>1, <2>1, FieldHeld
<1>14. FlagsPos(d, p) = q + 1
  BY <1>10 DEF FlagsPos
<1>15. VmEnd(d)[p] = q + 2 + 1 + Len(b)
  <2>1. VmEnd(d)[p] = LenPrefixed(d, LenPrefixed(d, p) + 2)
    BY DEF VmEnd
  <2> QED
    BY <1>10, <1>13, <2>1
<1>16. q + 2 + 1 + Len(b) = p + VmSpace(m)
  BY <1>2, <1>4 DEF q
<1>17. VmAt(d, p) = m
  <2> DEFINE f == FlagsPos(d, p)
  <2>1. f = q + 1 /\ f - 1 = q /\ f + 1 = q + 2
    BY <1>9, <1>14
  <2>2. VmAt(d, p) = [fragment |-> Decoded(Spelling, Payload(d, p)),
                      type     |-> Decoded(TypeTag, U32(d, f - 1)),
                      flags    |-> FlagsOf(U32(d, f)),
                      key      |-> Payload(d, f + 1)]
    BY DEF VmAt
  <2> HIDE DEF f
  <2>3. VmAt(d, p) = [fragment |-> Decoded(Spelling, a), type |-> Decoded(TypeTag, t),
                      flags |-> FlagsOf(w), key |-> b]
    BY <1>10, <1>12, <1>13, <2>1, <2>2
  <2>4. m.fragment \in DOMAIN Spelling /\ IsInjective(Spelling)
    BY LayoutAssumption DEF Method
  <2>5. Decoded(Spelling, a) = m.fragment
    BY <2>4, DecodedBack DEF a
  <2>6. Decoded(TypeTag, t) = m.type
    <3>1. m.type \in DOMAIN TypeTag /\ IsInjective(TypeTag)
      BY TypesDecoded DEF Method
    <3> QED
      BY <3>1, DecodedBack DEF t
  <2>7. FlagsOf(w) = m.flags
    <3>1. m.flags \in SUBSET Flag
      BY DEF Method
    <3> QED
      BY <3>1, FlagsReadBack DEF w
  <2>8. m = [fragment |-> m.fragment, type |-> m.type, flags |-> m.flags, key |-> m.key]
    BY DEF Method
  <2> QED
    BY <2>3, <2>5, <2>6, <2>7, <2>8 DEF b
<1> QED
  BY <1>14, <1>15, <1>16, <1>17 DEF q, a

\* So is a service (SvcIter).
LEMMA ServiceHeld ==
  ASSUME NEW d \in Seq(Nat), NEW p \in Nat, NEW v \in Service, Holds(d, p, ServiceBytes(v))
  PROVE  ServiceEnd(d)[p] = p + ServiceSpace(v) /\ ServiceAt(d, p) = v
<1> DEFINE a == Spelling[v.fragment]
           b == v.value[1]
           c == v.value[2]
           pa == Prefixed(a)
           pb == Prefixed(b)
           pc == Prefixed(c)
           q == p + 1 + Len(a)
           r == q + 1 + Len(b)
<1>1. a \in Seq(Nat) /\ b \in Seq(Nat) /\ c \in Seq(Nat) /\ v.value = <<b, c>>
  BY ServiceCells
<1>2. Len(a) \in Nat /\ Len(b) \in Nat /\ Len(c) \in Nat
  BY <1>1, LenProperties
<1>3. /\ pa \in Seq(Nat) /\ Len(pa) = 1 + Len(a)
      /\ pb \in Seq(Nat) /\ Len(pb) = 1 + Len(b)
      /\ pc \in Seq(Nat) /\ Len(pc) = 1 + Len(c)
  BY <1>1, PrefixedType
<1>4. /\ ServiceBytes(v) = (pa \o pb) \o pc
      /\ ServiceSpace(v) = 1 + Len(a) + 1 + Len(b) + 1 + Len(c)
  BY DEF ServiceBytes, ServiceSpace
<1> HIDE DEF a, b, c, pa, pb, pc
<1>5. pa \o pb \in Seq(Nat) /\ Len(pa \o pb) = Len(pa) + Len(pb)
  BY <1>3, Joined
<1>6. Holds(d, p, pa \o pb) /\ Holds(d, p + Len(pa \o pb), pc)
  BY <1>3, <1>4, <1>5, HoldsBoth
<1>7. Holds(d, p, pa) /\ Holds(d, p + Len(pa), pb)
  BY <1>3, <1>6, HoldsBoth
<1>8. q \in Nat /\ r \in Nat /\ p + Len(pa) = q /\ p + Len(pa \o pb) = r
  BY <1>2, <1>3, <1>5
<1> HIDE DEF q, r
<1>9. LenPrefixed(d, p) = q /\ Payload(d, p) = a
  BY <1>1, <1>7, FieldHeld DEF pa, q
<1>10. LenPrefixed(d, q) = r /\ Payload(d, q) = b
  BY <1>1, <1>7, <1>8, FieldHeld DEF pb, r
<1>11. LenPrefixed(d, r) = r + 1 + Len(c) /\ Payload(d, r) = c
  BY <1>1, <1>6, <1>8, FieldHeld DEF pc
<1>12. ServiceEnd(d)[p] = r + 1 + Len(c)
  BY <1>9, <1>10, <1>11 DEF ServiceEnd
<1>13. r + 1 + Len(c) = p + ServiceSpace(v)
  BY <1>2, <1>4 DEF q, r
<1>14. ServiceAt(d, p) = [fragment |-> Decoded(Spelling, a), value |-> <<b, c>>]
  BY <1>9, <1>10, <1>11 DEF ServiceAt
<1>15. Decoded(Spelling, a) = v.fragment
  <2>1. v.fragment \in DOMAIN Spelling /\ IsInjective(Spelling)
    BY LayoutAssumption DEF Service
  <2> QED
    BY <2>1, DecodedBack DEF a
<1>16. v = [fragment |-> v.fragment, value |-> v.value]
  BY DEF Service
<1> QED
  BY <1>1, <1>12, <1>13, <1>14, <1>15, <1>16

-----------------------------------------------------------------------------
(* Reading a list *)

\* end finds where an entry ends, of whatever entry it is asked about,
EndsAt(d, T, c, end) ==
  \A p \in Nat : \A x \in T : Holds(d, p, c[x]) => end[p] = p + Len(c[x])

\* The i-th entry of a list held as text is where Start says.
LEMMA EntryPlaced ==
  ASSUME NEW T, NEW c, Coding(T, c), NEW s \in Seq(T),
         NEW d \in Seq(Nat), NEW p \in Nat, Holds(d, p, Text(c, s)), NEW i \in 1..Len(s)
  PROVE  /\ Start(c, s, p, i) \in Nat
         /\ Holds(d, Start(c, s, p, i), c[s[i]])
<1>1. PICK at : PlacedAt(d, p, c, s, at)
  BY TextPlaced
<1>2. /\ Placed(d, p, Coded(c, s), at)
      /\ \A j \in 1..Len(s) : at[j - 1] = Start(c, s, p, j)
  BY <1>1 DEF PlacedAt
<1>3. /\ Coded(c, s) \in Seq(Seq(Nat)) /\ Len(Coded(c, s)) = Len(s)
      /\ Coded(c, s)[i] = c[s[i]]
  <2>1. /\ Coded(c, s) \in Seq(Seq(Nat)) /\ Len(Coded(c, s)) = Len(s)
        /\ \A j \in 1..Len(s) : Coded(c, s)[j] = c[s[j]] /\ c[s[j]] \in Seq(Nat)
    BY CodedType
  <2> QED
    BY <2>1
<1>4. at[i - 1] = Start(c, s, p, i)
  BY <1>2
<1>5. at \in [0..Len(s) -> Nat] /\ Holds(d, at[i - 1], c[s[i]])
  BY <1>2, <1>3 DEF Placed
<1>6. Len(s) \in Nat
  BY LenProperties
<1>7. i - 1 \in 0..Len(s)
  BY <1>6
<1> QED
  BY <1>4, <1>5, <1>7

\* A list is read to its end: as many entries as it has (Sections::parse).
LEMMA ListRead ==
  ASSUME NEW T, NEW c, Coding(T, c), NEW s \in Seq(T),
         NEW d \in Seq(Nat), NEW q \in Nat, Holds(d, q, <<Len(s)>>),
         Holds(d, q + 1, Text(c, s)),
         NEW end, GoesOn(d, end), EndsAt(d, T, c, end)
  PROVE  ListEnd(d, end, q) = q + 1 + Len(Text(c, s))
<1> DEFINE E == Coded(c, s)
           p == q + 1
<1>1. p \in Nat /\ p = q + 1
  OBVIOUS
<1>a. Holds(d, p, Text(c, s))
  OBVIOUS
<1> HIDE DEF p
<1>2. E \in Seq(Seq(Nat)) /\ Len(E) = Len(s) /\ \A i \in 1..Len(s) : E[i] = c[s[i]]
  BY CodedType
<1>b. PICK at : PlacedAt(d, p, c, s, at)
  BY <1>1, <1>a, TextPlaced
<1>3. /\ Placed(d, p, E, at)
      /\ at[Len(s)] = p + Len(Text(c, s))
      /\ \A j \in 1..Len(s) : at[j - 1] = Start(c, s, p, j)
  BY <1>b DEF PlacedAt
<1> HIDE DEF E
<1>4. Steps(E, at, end)
  <2> SUFFICES ASSUME NEW i \in 1..Len(E) PROVE end[at[i - 1]] = at[i]
    BY DEF Steps
  <2>1. i \in 1..Len(s) /\ s[i] \in T /\ E[i] = c[s[i]]
    BY <1>2, ElementOfSeq
  <2>2. Holds(d, at[i - 1], c[s[i]]) /\ at[i] = at[i - 1] + Len(c[s[i]])
    BY <1>3, <2>1 DEF Placed
  <2>3. at[i - 1] \in Nat
    <3>1. at[i - 1] = Start(c, s, p, i)
      BY <1>3, <2>1
    <3> QED
      BY <1>1, <1>a, <2>1, <3>1, EntryPlaced
  <2> QED
    BY <2>1, <2>2, <2>3 DEF EndsAt
<1>5. Holds(d, q, <<Len(E)>>)
  BY <1>2
<1>6. ListEnd(d, end, q) = at[Len(E)]
  BY <1>1, <1>3, <1>2, <1>4, <1>5, ListEnds
<1> QED
  BY <1>1, <1>3, <1>2, <1>6

\* Where the entries of a list that begins at p begin.
Starts(c, s, p) == [i \in 1..Len(s) |-> Start(c, s, p, i)]

\* The cursor over a window that ends with the list visits every entry once, in
\* their order (VmIter, SvcIter).
LEMMA ListVisited ==
  ASSUME NEW T, NEW c, Coding(T, c), NEW s \in Seq(T),
         NEW w \in Seq(Nat), NEW p \in Nat, Holds(w, p, Text(c, s)),
         Len(w) = p + Len(Text(c, s)),
         NEW end, GoesOn(w, end), EndsAt(w, T, c, end)
  PROVE  Entries(w, p, end) = Starts(c, s, p)
<1> DEFINE E == Coded(c, s)
<1>1. PICK at : PlacedAt(w, p, c, s, at)
  BY TextPlaced
<1>2. /\ Placed(w, p, E, at)
      /\ at[Len(s)] = p + Len(Text(c, s))
      /\ \A j \in 1..Len(s) : at[j - 1] = Start(c, s, p, j)
  BY <1>1 DEF PlacedAt
<1>3. E \in Seq(Seq(Nat)) /\ Len(E) = Len(s) /\ \A i \in 1..Len(s) : E[i] = c[s[i]]
  <2>1. /\ Coded(c, s) \in Seq(Seq(Nat)) /\ Len(Coded(c, s)) = Len(s)
        /\ \A i \in 1..Len(s) : Coded(c, s)[i] = c[s[i]] /\ c[s[i]] \in Seq(Nat)
    BY CodedType
  <2> QED
    BY <2>1
<1> HIDE DEF E
<1>4. Steps(E, at, end)
  <2> SUFFICES ASSUME NEW i \in 1..Len(E) PROVE end[at[i - 1]] = at[i]
    BY DEF Steps
  <2>1. i \in 1..Len(s) /\ s[i] \in T /\ E[i] = c[s[i]]
    BY <1>3, ElementOfSeq
  <2>2. Holds(w, at[i - 1], c[s[i]]) /\ at[i] = at[i - 1] + Len(c[s[i]])
    BY <1>2, <2>1 DEF Placed
  <2>3. at[i - 1] \in Nat
    <3>1. at[i - 1] = Start(c, s, p, i)
      BY <1>2, <2>1
    <3> QED
      BY <2>1, <3>1, EntryPlaced
  <2> QED
    BY <2>1, <2>2, <2>3 DEF EndsAt
<1>5. EndsWith(w, E, at)
  BY <1>2, <1>3 DEF EndsWith
<1>6. Entries(w, p, end) = BeginningsIn(E, at)
  <2>1. Placed(w, p, E, at)
    BY <1>2
  <2>2. E \in Seq(Seq(Nat))
    BY <1>3
  <2> QED
    BY <1>4, <1>5, <2>1, <2>2, CursorVisits
<1> QED
  BY <1>2, <1>3, <1>6 DEF BeginningsIn, Starts

-----------------------------------------------------------------------------
(* The three kinds of entries *)

\* As they are written.
VmCode == [m \in Method |-> VmBytes(m)]

ServiceCode == [v \in Service |-> ServiceBytes(v)]

OtherCode == [x \in External |-> Prefixed(x)]

\* Methods, services, external controllers and addresses are written as cells.
LEMMA Codings ==
  /\ Coding(Method, VmCode) /\ Coding(Service, ServiceCode)
  /\ Coding(External, OtherCode) /\ Coding(Subject, Address)
<1>1. \A m \in Method : VmBytes(m) \in Seq(Nat)
  BY VmBytesType
<1>2. \A v \in Service : ServiceBytes(v) \in Seq(Nat)
  BY ServiceBytesType
<1>3. \A x \in External : Prefixed(x) \in Seq(Nat)
  <2> TAKE x \in External
  <2>1. x \in Seq(Nat)
    BY LayoutAssumption
  <2> QED
    BY <2>1, PrefixedType
<1>4. Address \in [Subject -> Seq(Nat)]
  BY LayoutAssumption
<1> QED
  BY <1>1, <1>2, <1>3, <1>4 DEF Coding, VmCode, ServiceCode, OtherCode

\* The three cursors find where an entry in place ends.
LEMMA CursorsEnd ==
  ASSUME NEW d \in Seq(Nat)
  PROVE  /\ EndsAt(d, Method, VmCode, VmEnd(d))
         /\ EndsAt(d, Service, ServiceCode, ServiceEnd(d))
         /\ EndsAt(d, External, OtherCode, FieldEnd(d))
<1>1. EndsAt(d, Method, VmCode, VmEnd(d))
  <2> SUFFICES ASSUME NEW p \in Nat, NEW m \in Method, Holds(d, p, VmBytes(m))
               PROVE  VmEnd(d)[p] = p + Len(VmBytes(m))
    BY DEF EndsAt, VmCode
  <2>1. VmEnd(d)[p] = p + VmSpace(m)
    BY VmHeld
  <2>2. Len(VmBytes(m)) = VmSpace(m)
    BY VmBytesType
  <2> QED
    BY <2>1, <2>2
<1>2. EndsAt(d, Service, ServiceCode, ServiceEnd(d))
  <2> SUFFICES ASSUME NEW p \in Nat, NEW v \in Service, Holds(d, p, ServiceBytes(v))
               PROVE  ServiceEnd(d)[p] = p + Len(ServiceBytes(v))
    BY DEF EndsAt, ServiceCode
  <2> QED
    BY ServiceHeld, ServiceBytesType
<1>3. EndsAt(d, External, OtherCode, FieldEnd(d))
  <2> SUFFICES ASSUME NEW p \in Nat, NEW x \in External, Holds(d, p, Prefixed(x))
               PROVE  FieldEnd(d)[p] = p + Len(Prefixed(x))
    BY DEF EndsAt, OtherCode
  <2>1. x \in Seq(Nat)
    BY LayoutAssumption
  <2>2. FieldEnd(d)[p] = p + 1 + Len(x)
    BY <2>1, FieldHeld DEF LenPrefixed
  <2>3. Len(Prefixed(x)) = 1 + Len(x) /\ Len(x) \in Nat
    BY <2>1, PrefixedType, LenProperties
  <2> QED
    BY <2>2, <2>3
<1> QED
  BY <1>1, <1>2, <1>3

\* The three cursors move forward until they fail.
LEMMA CursorsGoOn ==
  ASSUME NEW d \in Seq(Nat)
  PROVE  GoesOn(d, VmEnd(d)) /\ GoesOn(d, ServiceEnd(d)) /\ GoesOn(d, FieldEnd(d))
<1> DEFINE f == FieldEnd(d)
           n == Len(d)
<1>1. f \in [Nat -> Nat] /\ \A p \in Nat : f[p] > p \/ f[p] > n
  BY FieldsGoOn
<1>2. n \in Nat
  BY LenProperties
<1>3. /\ VmEnd(d) = [p \in Nat |-> f[f[p] + 2]]
      /\ ServiceEnd(d) = [p \in Nat |-> f[f[f[p]]]]
  BY DEF VmEnd, ServiceEnd, LenPrefixed
<1> HIDE DEF f, n
<1>4. ASSUME NEW p \in Nat
      PROVE  f[f[p] + 2] \in Nat /\ (f[f[p] + 2] > p \/ f[f[p] + 2] > n)
  <2>1. f[p] \in Nat /\ f[p] + 2 \in Nat
    BY <1>1
  <2>2. f[f[p] + 2] \in Nat /\ (f[f[p] + 2] > f[p] + 2 \/ f[f[p] + 2] > n)
    BY <1>1, <2>1
  <2>3. f[p] > p \/ f[p] > n
    BY <1>1
  <2> DEFINE a == f[p]
             b == f[f[p] + 2]
  <2> HIDE DEF a, b
  <2>4. a \in Nat /\ b \in Nat /\ (b > a + 2 \/ b > n) /\ (a > p \/ a > n)
    BY <2>1, <2>2, <2>3 DEF a, b
  <2>5. b \in Nat /\ (b > p \/ b > n)
    BY <1>2, <2>4
  <2> QED
    BY <2>5 DEF b
<1>5. ASSUME NEW p \in Nat
      PROVE  f[f[f[p]]] \in Nat /\ (f[f[f[p]]] > p \/ f[f[f[p]]] > n)
  <2> DEFINE a == f[p]
             b == f[a]
             c == f[b]
  <2>1. a \in Nat /\ (a > p \/ a > n)
    BY <1>1
  <2> HIDE DEF a
  <2>2. b \in Nat /\ (b > a \/ b > n)
    BY <1>1, <2>1
  <2> HIDE DEF b
  <2>3. c \in Nat /\ (c > b \/ c > n)
    BY <1>1, <2>2
  <2> HIDE DEF c
  <2>4. c \in Nat /\ (c > p \/ c > n)
    BY <1>2, <2>1, <2>2, <2>3
  <2> QED
    BY <2>4 DEF a, b, c
<1>6. GoesOn(d, VmEnd(d))
  BY <1>3, <1>4 DEF GoesOn, n
<1>7. GoesOn(d, ServiceEnd(d))
  BY <1>3, <1>5 DEF GoesOn, n
<1>8. GoesOn(d, FieldEnd(d))
  BY <1>1 DEF GoesOn, n, f
<1> QED
  BY <1>6, <1>7, <1>8

-----------------------------------------------------------------------------
(* The controllers *)

\* What is held in place is what a slice of it finds.
LEMMA SliceHeld ==
  ASSUME NEW d \in Seq(Nat), NEW p \in Nat, NEW part \in Seq(Nat), Holds(d, p, part),
         NEW q, q = p + Len(part)
  PROVE  Slice(d, p, q) = part
<1> DEFINE n == Len(part)
           s == SubSeq(d, p + 1, p + n)
<1>1. Len(d) \in Nat /\ n \in Nat
  BY LenProperties
<1>2. p + n <= Len(d) /\ \A i \in 1..n : d[p + i] = part[i]
  BY DEF Holds
<1>3. Slice(d, p, q) = s
  BY DEF Slice
<1> HIDE DEF n
<1>4. s \in Seq(Nat) /\ Len(s) = n /\ \A i \in 1..n : s[i] = d[p + i]
  <2>1. \A i \in p + 1 .. p + n : d[i] \in Nat
    BY <1>1, <1>2
  <2>2. s \in Seq(Nat)
    BY <1>1, <2>1, SubSeqProperties
  <2>3. Len(s) = n
    BY <1>1, <1>2
  <2>4. \A i \in 1..n : s[i] = d[p + i]
    BY <1>1, <1>2
  <2> QED
    BY <2>2, <2>3, <2>4
<1> HIDE DEF s
<1>5. Len(s) = Len(part) /\ \A i \in 1..Len(s) : s[i] = part[i]
  BY <1>2, <1>4 DEF n
<1>6. s = part
  BY <1>4, <1>5, SameCells
<1> QED
  BY <1>3, <1>6

\* Addresses are of one length, so a list of them is as long as it has of them.
LEMMA AddressesLong ==
  ASSUME NEW ns \in Seq(Subject)
  PROVE  \A i \in 0..Len(ns) : Len(Text(Address, SubSeq(ns, 1, i))) = AddressLen * i
<1> DEFINE n == Len(ns)
           len(i) == Len(Text(Address, SubSeq(ns, 1, i)))
           G == {i \in Nat : i <= n => len(i) = AddressLen * i}
<1>1. n \in Nat /\ AddressLen \in Nat /\ Coding(Subject, Address)
  BY LenProperties, LayoutAssumption, Codings
<1>2. 0 \in G
  <2>1. Text(Address, SubSeq(ns, 1, 0)) = <<>>
    <3>1. SubSeq(ns, 1, 0) = <<>>
      BY SubSeqEmpty
    <3> QED
      BY <3>1, TextEmpty
  <2>2. len(0) = 0
    BY <2>1
  <2> HIDE DEF len
  <2> QED
    BY <1>1, <2>2
<1>3. ASSUME NEW i \in Nat, i \in G
      PROVE  i + 1 \in G
  <2> SUFFICES ASSUME i + 1 <= n PROVE len(i + 1) = AddressLen * (i + 1)
    OBVIOUS
  <2> DEFINE j == i + 1
             pre == SubSeq(ns, 1, i)
             x == ns[j]
             one == <<x>>
  <2>1. j \in 1..n /\ j - 1 = i /\ i <= n /\ i \in 0..n
    BY <1>1
  <2> HIDE DEF j
  <2>2. SubSeq(ns, 1, j) = pre \o one
    BY <2>1, PrefixGrows
  <2>3. pre \in Seq(Subject) /\ x \in Subject
    BY <2>1, Prefix, ElementOfSeq
  <2>4. Len(Text(Address, pre)) = AddressLen * i
    BY <1>3, <2>1
  <2> HIDE DEF pre, x
  <2>5. one \in Seq(Subject) /\ Text(Address, one) = Address[x]
    BY <1>1, <2>3, TextOne
  <2>6. Address[x] \in Seq(Nat) /\ Len(Address[x]) = AddressLen
    BY <2>3, LayoutAssumption
  <2> HIDE DEF one
  <2>7. Text(Address, pre \o one) = Text(Address, pre) \o Text(Address, one)
    <3>1. Coding(Subject, Address) /\ pre \in Seq(Subject) /\ one \in Seq(Subject)
      BY <1>1, <2>3, <2>5
    <3> QED
      BY <3>1, TextJoined
  <2> DEFINE u == Text(Address, pre)
             v == Text(Address, one)
  <2>8. u \in Seq(Nat) /\ v \in Seq(Nat)
    BY <1>1, <2>3, <2>5, TextType
  <2>9. len(j) = Len(u \o v)
    BY <2>2, <2>7
  <2>10. Len(u) = AddressLen * i /\ Len(v) = AddressLen
    BY <2>4, <2>5, <2>6
  <2> HIDE DEF u, v, len
  <2>11. Len(u \o v) = AddressLen * i + AddressLen
    BY <2>8, <2>10, Joined
  <2>12. AddressLen * i + AddressLen = AddressLen * (i + 1)
    BY <1>1
  <2> QED
    BY <2>9, <2>11, <2>12 DEF j
<1> HIDE DEF G
<1>4. Nat \subseteq G
  BY <1>2, <1>3, Induction
<1> QED
  BY <1>1, <1>4 DEF G

\* A list of addresses has its entries AddressLen apart.
LEMMA AddressText ==
  ASSUME NEW ns \in Seq(Subject)
  PROVE  /\ Len(Text(Address, ns)) = AddressLen * Len(ns)
         /\ \A p \in Nat, i \in 1..Len(ns) : Start(Address, ns, p, i) = p + AddressLen * (i - 1)
<1>1. Len(ns) \in Nat
  BY LenProperties
<1>2. SubSeq(ns, 1, Len(ns)) = ns
  BY SubSeqFull
<1>3. Len(Text(Address, ns)) = AddressLen * Len(ns)
  <2>1. Len(ns) \in 0..Len(ns)
    BY <1>1
  <2> QED
    BY <1>2, <2>1, AddressesLong
<1>4. ASSUME NEW p \in Nat, NEW i \in 1..Len(ns)
      PROVE  Start(Address, ns, p, i) = p + AddressLen * (i - 1)
  <2>1. i - 1 \in 0..Len(ns)
    BY <1>1
  <2> QED
    BY <2>1, AddressesLong DEF Start
<1> QED
  BY <1>3, <1>4

\* The two lists of controllers, in one piece.
LEMMA ControllersText ==
  ASSUME NEW ns \in Seq(Subject), NEW os \in Seq(External)
  PROVE  /\ ControllerBytes(ns, os)
              = <<Len(ns)>> \o Text(Address, ns) \o <<Len(os)>> \o Text(OtherCode, os)
         /\ ControllerBytes(ns, os) \in Seq(Nat)
         /\ Len(ControllerBytes(ns, os))
              = 1 + AddressLen * Len(ns) + 1 + Len(Text(OtherCode, os))
<1> DEFINE A == Text(Address, ns)
           B == Text(OtherCode, os)
           a == <<Len(ns)>>
           b == <<Len(os)>>
<1>1. [i \in DOMAIN ns |-> Address[ns[i]]] = Coded(Address, ns)
  BY DEF Coded
<1>2. [i \in DOMAIN os |-> Prefixed(os[i])] = Coded(OtherCode, os)
  <2>1. \A i \in DOMAIN os : os[i] \in External
    BY LenProperties, ElementOfSeq
  <2>2. \A i \in DOMAIN os : OtherCode[os[i]] = Prefixed(os[i])
    BY <2>1 DEF OtherCode
  <2> QED
    BY <2>2 DEF Coded
<1>3. ControllerBytes(ns, os) = ((a \o A) \o b) \o B
  BY <1>1, <1>2 DEF ControllerBytes, Text
<1>4. A \in Seq(Nat) /\ Len(A) = AddressLen * Len(ns) /\ B \in Seq(Nat)
  BY Codings, TextType, AddressText
<1>5. Len(ns) \in Nat /\ Len(os) \in Nat /\ AddressLen \in Nat
  BY LenProperties, LayoutAssumption
<1>6. a \in Seq(Nat) /\ Len(a) = 1 /\ b \in Seq(Nat) /\ Len(b) = 1
  BY <1>5, One
<1> DEFINE l == a \o A
           m == l \o b
           r == m \o B
<1> HIDE DEF a, b, A, B
<1>7. l \in Seq(Nat) /\ Len(l) = Len(a) + Len(A)
  BY <1>4, <1>6, Joined
<1> HIDE DEF l
<1>8. m \in Seq(Nat) /\ Len(m) = Len(l) + Len(b)
  BY <1>6, <1>7, Joined
<1> HIDE DEF m
<1>9. r \in Seq(Nat) /\ Len(r) = Len(m) + Len(B)
  BY <1>4, <1>8, Joined
<1> HIDE DEF r
<1>10. Len(B) \in Nat /\ Len(r) = 1 + Len(A) + 1 + Len(B)
  BY <1>4, <1>6, <1>7, <1>8, <1>9, LenProperties
<1>11. ControllerBytes(ns, os) = r
  BY <1>3 DEF r, m, l
<1> QED
  BY <1>3, <1>4, <1>9, <1>10, <1>11 DEF a, b, A, B

\* An account that holds the two lists of controllers holds each of them, and
\* each count.
LEMMA ControllersHeld ==
  ASSUME NEW ns \in Seq(Subject), NEW os \in Seq(External),
         NEW d \in Seq(Nat), NEW p \in Nat, Holds(d, p, ControllerBytes(ns, os))
  PROVE  LET q == p + 1 + AddressLen * Len(ns) IN
         /\ q \in Nat
         /\ Holds(d, p, <<Len(ns)>>) /\ Holds(d, p + 1, Text(Address, ns))
         /\ Holds(d, q, <<Len(os)>>) /\ Holds(d, q + 1, Text(OtherCode, os))
<1> DEFINE A == Text(Address, ns)
           B == Text(OtherCode, os)
           a == <<Len(ns)>>
           b == <<Len(os)>>
           l == a \o A
           m == l \o b
           r == m \o B
<1>1. A \in Seq(Nat) /\ Len(A) = AddressLen * Len(ns) /\ B \in Seq(Nat)
  BY Codings, TextType, AddressText
<1>2. Len(ns) \in Nat /\ Len(os) \in Nat
  BY LenProperties
<1>3. a \in Seq(Nat) /\ Len(a) = 1 /\ b \in Seq(Nat) /\ Len(b) = 1
  BY <1>2, One
<1>4. Holds(d, p, r)
  BY ControllersText
<1>5. Len(A) \in Nat
  BY <1>1, LenProperties
<1> HIDE DEF a, b, A, B
<1>6. l \in Seq(Nat) /\ Len(l) = Len(a) + Len(A)
  BY <1>1, <1>3, Joined
<1> HIDE DEF l
<1>7. m \in Seq(Nat) /\ Len(m) = Len(l) + Len(b)
  BY <1>3, <1>6, Joined
<1> HIDE DEF m
<1>8. Holds(d, p, m) /\ Holds(d, p + Len(m), B)
  BY <1>1, <1>4, <1>7, HoldsBoth
<1>9. Holds(d, p, l) /\ Holds(d, p + Len(l), b)
  BY <1>3, <1>6, <1>8, HoldsBoth DEF m
<1>10. Holds(d, p, a) /\ Holds(d, p + Len(a), A)
  BY <1>1, <1>3, <1>9, HoldsBoth DEF l
<1> DEFINE q == p + 1 + Len(A)
<1>11. q \in Nat /\ p + Len(a) = p + 1 /\ p + Len(l) = q /\ p + Len(m) = q + 1
  BY <1>3, <1>5, <1>6, <1>7
<1>12. Holds(d, p, a) /\ Holds(d, p + 1, A) /\ Holds(d, q, b) /\ Holds(d, q + 1, B)
  BY <1>8, <1>9, <1>10, <1>11
<1> QED
  BY <1>1, <1>11, <1>12 DEF a, b, A, B

\* The i-th address in place is that of the i-th native controller.
LEMMA AddressDecoded ==
  ASSUME NEW ns \in Seq(Subject), NEW d \in Seq(Nat), NEW p \in Nat,
         Holds(d, p, Text(Address, ns)), NEW i \in 1..Len(ns)
  PROVE  Decoded(Address, Slice(d, p + AddressLen * (i - 1), p + AddressLen * i)) = ns[i]
<1> DEFINE a == p + AddressLen * (i - 1)
           b == p + AddressLen * i
           x == ns[i]
<1>1. x \in Subject
  BY ElementOfSeq
<1>2. Start(Address, ns, p, i) = a
  BY AddressText
<1>3. Address[x] \in Seq(Nat) /\ Len(Address[x]) = AddressLen /\ AddressLen \in Nat
  BY <1>1, LayoutAssumption
<1>4. a \in Nat /\ Holds(d, a, Address[x])
  <2>1. Coding(Subject, Address)
    BY Codings
  <2> HIDE DEF a
  <2> QED
    BY <1>2, <2>1, EntryPlaced
<1>5. b = a + AddressLen
  <2>1. i \in Int /\ AddressLen \in Int
    BY <1>3
  <2>2. AddressLen * i = AddressLen * (i - 1) + AddressLen
    BY <2>1
  <2>3. AddressLen * (i - 1) \in Int /\ AddressLen * i \in Int
    BY <2>1
  <2> DEFINE y == AddressLen * i
             z == AddressLen * (i - 1)
  <2> HIDE DEF y, z
  <2>4. p + y = p + z + AddressLen
    BY <2>1, <2>2, <2>3 DEF y, z
  <2> QED
    BY <2>4 DEF y, z
<1> HIDE DEF a, b, x
<1>6. Slice(d, a, b) = Address[x]
  <2> DEFINE y == Address[x]
  <2>1. y \in Seq(Nat) /\ a \in Nat /\ Holds(d, a, y) /\ b = a + Len(y)
    BY <1>3, <1>4, <1>5
  <2> HIDE DEF y
  <2>2. Slice(d, a, b) = y
    BY <2>1, SliceHeld
  <2> QED
    BY <2>2 DEF y
<1>7. x \in DOMAIN Address /\ IsInjective(Address)
  BY <1>1, LayoutAssumption
<1>8. Decoded(Address, Address[x]) = x
  BY <1>7, DecodedBack
<1> QED
  BY <1>6, <1>8 DEF a, b, x

-----------------------------------------------------------------------------
(* What an account is written with *)

\* The header fields and the four lists, in their order in the account.
Contents ==
  [version: Nat, flag: {0, 1}, natives: Seq(Subject), others: Seq(External),
   vms: Seq(Method), services: Seq(Service)]

HeaderCells(x) == <<x.version, x.flag>>

Controllers(x) == ControllerBytes(x.natives, x.others)

VmText(x) == Text(VmCode, x.vms)

ServiceText(x) == Text(ServiceCode, x.services)

Written(x) ==
  Parts(HeaderCells(x), Controllers(x), Len(x.vms), VmText(x), Len(x.services), ServiceText(x))

\* Where the count of the methods is, and of the services.
VmPos(x) == 2 + Len(Controllers(x))

SvcPos(x) == VmPos(x) + 1 + Len(VmText(x))

\* What an account is written with, and the text of its lists.
LEMMA ContentsTypes ==
  ASSUME NEW x \in Contents
  PROVE  /\ x.version \in Nat /\ x.flag \in {0, 1} /\ x.flag \in Nat
         /\ x.natives \in Seq(Subject) /\ x.others \in Seq(External)
         /\ x.vms \in Seq(Method) /\ x.services \in Seq(Service)
         /\ Len(x.vms) \in Nat /\ Len(x.services) \in Nat
         /\ Len(x.natives) \in Nat /\ Len(x.others) \in Nat
         /\ HeaderCells(x) \in Seq(Nat) /\ Len(HeaderCells(x)) = 2
         /\ Controllers(x) \in Seq(Nat) /\ VmText(x) \in Seq(Nat) /\ ServiceText(x) \in Seq(Nat)
<1>1. /\ x.version \in Nat /\ x.flag \in {0, 1}
      /\ x.natives \in Seq(Subject) /\ x.others \in Seq(External)
      /\ x.vms \in Seq(Method) /\ x.services \in Seq(Service)
  BY DEF Contents
<1>2. /\ Len(x.vms) \in Nat /\ Len(x.services) \in Nat
      /\ Len(x.natives) \in Nat /\ Len(x.others) \in Nat
  BY <1>1, LenProperties
<1>3. HeaderCells(x) \in Seq(Nat) /\ Len(HeaderCells(x)) = 2
  BY <1>1 DEF HeaderCells
<1>4. Controllers(x) \in Seq(Nat)
  BY <1>1, ControllersText DEF Controllers
<1>5. VmText(x) \in Seq(Nat)
  BY <1>1, Codings, TextType DEF VmText
<1>6. ServiceText(x) \in Seq(Nat)
  BY <1>1, Codings, TextType DEF ServiceText
<1> QED
  BY <1>1, <1>2, <1>3, <1>4, <1>5, <1>6

\* Where a written account holds each of its parts.
LEMMA WrittenHeld ==
  ASSUME NEW x \in Contents, NEW d, d = Written(x)
  PROVE  /\ d \in Seq(Nat) /\ VmPos(x) \in Nat /\ SvcPos(x) \in Nat
         /\ Len(d) = SvcPos(x) + 1 + Len(ServiceText(x))
         /\ Holds(d, 0, <<x.version>>) /\ Holds(d, 1, <<x.flag>>)
         /\ Holds(d, 2, Controllers(x))
         /\ Holds(d, VmPos(x), <<Len(x.vms)>>) /\ Holds(d, VmPos(x) + 1, VmText(x))
         /\ Holds(d, SvcPos(x), <<Len(x.services)>>) /\ Holds(d, SvcPos(x) + 1, ServiceText(x))
<1> DEFINE h == HeaderCells(x)
           C == Controllers(x)
           n == Len(x.vms)
           M == VmText(x)
           k == Len(x.services)
           S == ServiceText(x)
           p == Len(h) + Len(C)
           q == p + 1 + Len(M)
<1>1. /\ h \in Seq(Nat) /\ Len(h) = 2 /\ C \in Seq(Nat) /\ n \in Nat /\ M \in Seq(Nat)
      /\ k \in Nat /\ S \in Seq(Nat)
  BY ContentsTypes
<1>2. d = Parts(h, C, n, M, k, S)
  BY DEF Written
<1>3. Len(C) \in Nat /\ Len(M) \in Nat
  BY <1>1, LenProperties
<1>4. p = VmPos(x) /\ q = SvcPos(x)
  BY <1>1 DEF VmPos, SvcPos
<1>5. p \in Nat /\ q \in Nat
  BY <1>1, <1>3
<1> HIDE DEF h, C, n, M, k, S
<1>6. /\ d \in Seq(Nat) /\ Len(d) = q + 1 + Len(S)
      /\ Holds(d, 0, h) /\ Holds(d, Len(h), C)
      /\ Holds(d, p, <<n>>) /\ Holds(d, p + 1, M)
      /\ Holds(d, q, <<k>>) /\ Holds(d, q + 1, S)
  <2>1. IsParts(h, C, n, M, k, S)
    BY <1>1 DEF IsParts, Cells
  <2> DEFINE pp == p
             qq == q
  <2>2. pp = Len(h) + Len(C) /\ qq = pp + 1 + Len(M)
    OBVIOUS
  <2> HIDE DEF pp, qq
  <2>3. /\ d \in Seq(Nat) /\ Len(d) = qq + 1 + Len(S)
        /\ Holds(d, 0, h) /\ Holds(d, Len(h), C)
        /\ Holds(d, pp, <<n>>) /\ Holds(d, pp + 1, M)
        /\ Holds(d, qq, <<k>>) /\ Holds(d, qq + 1, S)
    <3>1. ArePartsOf(h, C, n, M, k, S, d, pp, qq)
      BY <1>2, <2>1, <2>2 DEF ArePartsOf
    <3> QED
      BY <3>1, PartsHeld
  <2> QED
    BY <2>3 DEF pp, qq
<1>7. Holds(d, 0, <<x.version>>) /\ Holds(d, 1, <<x.flag>>)
  <2> DEFINE v == x.version
             z == x.flag
  <2>1. h = <<v, z>> /\ v \in Nat /\ z \in Nat
    BY ContentsTypes DEF h, HeaderCells
  <2> HIDE DEF v, z
  <2>2. 0 + Len(h) <= Len(d) /\ \A i \in 1..Len(h) : d[0 + i] = h[i]
    BY <1>6 DEF Holds
  <2>3. Len(h) = 2 /\ h[1] = v /\ h[2] = z
    BY <2>1
  <2>4. Len(d) \in Nat
    BY <1>6, LenProperties
  <2>5. d[1] = v /\ d[2] = z /\ Len(d) >= 2
    <3>1. d[0 + 1] = h[1] /\ d[0 + 2] = h[2]
      BY <2>2, <2>3
    <3> QED
      BY <2>2, <2>3, <2>4, <3>1
  <2>6. Holds(d, 0, <<v>>)
    BY <2>4, <2>5 DEF Holds
  <2>7. Holds(d, 1, <<z>>)
    BY <2>4, <2>5 DEF Holds
  <2> QED
    BY <2>6, <2>7 DEF v, z
<1> HIDE DEF p, q
<1> QED
  BY <1>1, <1>4, <1>5, <1>6, <1>7 DEF C, n, M, k, S

\* The section map finds the four sections, and that nothing follows
\* (Sections::parse).
LEMMA SectionsFound ==
  ASSUME NEW x \in Contents, NEW d, d = Written(x)
  PROVE  /\ U32(d, OffVersion) = x.version
         /\ U32(d, OffDeactivated) = x.flag
         /\ U32(d, OffSections) = Len(x.natives)
         /\ Sections(d).nc_items = 3
         /\ Sections(d).oc_count_pos = 3 + AddressLen * Len(x.natives)
         /\ Sections(d).vm_count_pos = VmPos(x)
         /\ Sections(d).svc_count_pos = SvcPos(x)
         /\ Sections(d).end = Len(d)
         /\ Parses(d) /\ d # <<>>
<1> DEFINE ns == x.natives
           os == x.others
           ms == x.vms
           ss == x.services
           C == Controllers(x)
           o == 3 + AddressLen * Len(ns)
           vp == VmPos(x)
           sp == SvcPos(x)
<1>1. /\ d \in Seq(Nat) /\ vp \in Nat /\ sp \in Nat
      /\ Len(d) = sp + 1 + Len(ServiceText(x))
      /\ Holds(d, 0, <<x.version>>) /\ Holds(d, 1, <<x.flag>>)
      /\ Holds(d, 2, C)
      /\ Holds(d, vp, <<Len(ms)>>) /\ Holds(d, vp + 1, VmText(x))
      /\ Holds(d, sp, <<Len(ss)>>) /\ Holds(d, sp + 1, ServiceText(x))
  BY WrittenHeld
<1>2. /\ x.version \in Nat /\ x.flag \in Nat /\ ns \in Seq(Subject) /\ os \in Seq(External)
      /\ ms \in Seq(Method) /\ ss \in Seq(Service) /\ Len(ns) \in Nat /\ Len(os) \in Nat
  BY ContentsTypes
<1>3. C = ControllerBytes(ns, os)
  BY DEF Controllers
<1> HIDE DEF C
<1>4. /\ o \in Nat
      /\ Holds(d, 2, <<Len(ns)>>)
      /\ Holds(d, o, <<Len(os)>>) /\ Holds(d, o + 1, Text(OtherCode, os))
  <2> DEFINE p == 2
             q == p + 1 + AddressLen * Len(ns)
  <2>1. p \in Nat /\ Holds(d, p, ControllerBytes(ns, os))
    BY <1>1, <1>3
  <2> HIDE DEF p
  <2>2. /\ q \in Nat /\ Holds(d, p, <<Len(ns)>>)
        /\ Holds(d, q, <<Len(os)>>) /\ Holds(d, q + 1, Text(OtherCode, os))
    BY <1>1, <1>2, <2>1, ControllersHeld
  <2>3. q = o
    <3>1. AddressLen * Len(ns) \in Nat
      BY <1>2, LayoutAssumption
    <3> QED
      BY <3>1 DEF p
  <2> HIDE DEF q, o
  <2> QED
    BY <2>2, <2>3 DEF p
<1>5. vp = o + 1 + Len(Text(OtherCode, os))
  <2>1. Len(C) = 1 + AddressLen * Len(ns) + 1 + Len(Text(OtherCode, os))
    BY <1>2, <1>3, ControllersText
  <2>2. AddressLen * Len(ns) \in Nat
    BY <1>2, LayoutAssumption
  <2>3. Len(Text(OtherCode, os)) \in Nat
    BY <1>2, Codings, TextType
  <2>4. vp = 2 + Len(C)
    BY DEF VmPos, C
  <2> QED
    BY <2>1, <2>2, <2>3, <2>4
<1>6. U32(d, 0) = x.version /\ U32(d, 1) = x.flag /\ U32(d, 2) = Len(ns)
  <2>1. U32(d, 0) = x.version
    BY <1>1, <1>2, NumberHeld
  <2>2. U32(d, 1) = x.flag
    BY <1>1, <1>2, NumberHeld
  <2>3. U32(d, 2) = Len(ns)
    BY <1>1, <1>2, <1>4, NumberHeld
  <2> QED
    BY <2>1, <2>2, <2>3
<1>7. AddressesEnd(d, OffSections) = o
  <2>1. AddressesEnd(d, 2) = 2 + 1 + AddressLen * Len(ns)
    BY <1>6 DEF AddressesEnd
  <2>2. AddressLen * Len(ns) \in Nat
    BY <1>2, LayoutAssumption
  <2> QED
    BY <2>1, <2>2 DEF OffSections
<1> HIDE DEF o, vp, sp
<1>8. ListEnd(d, FieldEnd(d), o) = vp
  <2>1. ListEnd(d, FieldEnd(d), o) = o + 1 + Len(Text(OtherCode, os))
    <3> DEFINE end == FieldEnd(d)
    <3>1. /\ Coding(External, OtherCode) /\ GoesOn(d, end)
          /\ EndsAt(d, External, OtherCode, end)
      BY <1>1, Codings, CursorsEnd, CursorsGoOn
    <3>2. /\ d \in Seq(Nat) /\ o \in Nat /\ os \in Seq(External)
          /\ Holds(d, o, <<Len(os)>>) /\ Holds(d, o + 1, Text(OtherCode, os))
      BY <1>1, <1>2, <1>4
    <3> HIDE DEF end, os
    <3>3. ListEnd(d, end, o) = o + 1 + Len(Text(OtherCode, os))
      BY <3>1, <3>2, ListRead
    <3> QED
      BY <3>3 DEF end, os
  <2> QED
    BY <1>5, <2>1
<1>9. ListEnd(d, VmEnd(d), vp) = sp
  <2>1. ListEnd(d, VmEnd(d), vp) = vp + 1 + Len(VmText(x))
    <3> DEFINE end == VmEnd(d)
    <3>1. Coding(Method, VmCode) /\ GoesOn(d, end) /\ EndsAt(d, Method, VmCode, end)
      BY <1>1, Codings, CursorsEnd, CursorsGoOn
    <3>2. /\ d \in Seq(Nat) /\ vp \in Nat /\ ms \in Seq(Method)
          /\ Holds(d, vp, <<Len(ms)>>) /\ Holds(d, vp + 1, Text(VmCode, ms))
      BY <1>1, <1>2 DEF vp, VmText
    <3> HIDE DEF end, ms
    <3>3. ListEnd(d, end, vp) = vp + 1 + Len(Text(VmCode, ms))
      BY <3>1, <3>2, ListRead
    <3> QED
      BY <3>3 DEF end, ms, VmText
  <2> QED
    BY <2>1 DEF vp, sp, SvcPos
<1>10. ListEnd(d, ServiceEnd(d), sp) = Len(d)
  <2>1. ListEnd(d, ServiceEnd(d), sp) = sp + 1 + Len(ServiceText(x))
    BY <1>1, <1>2, Codings, CursorsEnd, CursorsGoOn, ListRead DEF ServiceText
  <2> QED
    BY <1>1, <2>1
<1>11. Sections(d) = [nc_items |-> OffSections + 1, oc_count_pos |-> o, vm_count_pos |-> vp,
                      svc_count_pos |-> sp, end |-> Len(d)]
  BY <1>7, <1>8, <1>9, <1>10 DEF Sections
<1>12. OffSections + 1 = 3
  BY DEF OffSections
<1>13. d # <<>>
  <2>1. Len(ServiceText(x)) \in Nat
    BY ContentsTypes, LenProperties
  <2>2. Len(d) # 0
    BY <1>1, <2>1
  <2> QED
    BY <2>2
<1> QED
  BY <1>6, <1>11, <1>12, <1>13 DEF Parses, o, vp, sp, OffVersion, OffDeactivated, OffSections

\* A cursor over a window that ends where the list does visits its entries,
LEMMA WindowVisited ==
  ASSUME NEW T, NEW c, Coding(T, c), NEW s \in Seq(T),
         NEW d \in Seq(Nat), NEW p \in Nat, Holds(d, p, Text(c, s)),
         NEW q, q = p + Len(Text(c, s)), NEW w, w = Slice(d, 0, q),
         NEW end, GoesOn(w, end), EndsAt(w, T, c, end)
  PROVE  Entries(w, p, end) = Starts(c, s, p)
<1> DEFINE t == Text(c, s)
<1>1. t \in Seq(Nat) /\ Len(t) \in Nat /\ Holds(d, p, t) /\ q = p + Len(t)
  BY TextType
<1> HIDE DEF t
<1>2. q \in 0..Len(d) /\ p + Len(t) <= q
  BY <1>1, LenProperties DEF Holds
<1>3. w \in Seq(Nat) /\ Len(w) = q /\ Holds(w, p, t)
  BY <1>1, <1>2, WindowHolds
<1>4. Holds(w, p, Text(c, s)) /\ Len(w) = p + Len(Text(c, s))
  BY <1>1, <1>3 DEF t
<1> QED
  BY <1>3, <1>4, ListVisited

\* and a window is one to begin with.
LEMMA WindowIsCells ==
  ASSUME NEW T, NEW c, Coding(T, c), NEW s \in Seq(T),
         NEW d \in Seq(Nat), NEW p \in Nat, Holds(d, p, Text(c, s)),
         NEW q, q = p + Len(Text(c, s))
  PROVE  Slice(d, 0, q) \in Seq(Nat)
<1> DEFINE t == Text(c, s)
<1>1. t \in Seq(Nat) /\ Len(t) \in Nat /\ Holds(d, p, t) /\ q = p + Len(t)
  BY TextType
<1> HIDE DEF t
<1>2. q \in 0..Len(d) /\ p + Len(t) <= q
  BY <1>1, LenProperties DEF Holds
<1> QED
  BY <1>1, <1>2, WindowHolds

\* Where the i-th method, and the i-th service, of a written account begins.
VmStart(x, i) == Start(VmCode, x.vms, VmPos(x) + 1, i)

ServiceStart(x, i) == Start(ServiceCode, x.services, SvcPos(x) + 1, i)

\* The method cursor finds the methods, in their order (VmIter).
LEMMA VmsFound ==
  ASSUME NEW x \in Contents, NEW d, d = Written(x)
  PROVE  /\ DOMAIN VmStarts(d) = 1..Len(x.vms)
         /\ \A i \in 1..Len(x.vms) :
              /\ VmStarts(d)[i] = VmStart(x, i)
              /\ VmStart(x, i) \in Nat
              /\ VmAt(d, VmStart(x, i)) = x.vms[i]
              /\ VmEnd(d)[VmStart(x, i)] = VmStart(x, i) + VmSpace(x.vms[i])
              /\ FlagsPos(d, VmStart(x, i))
                   = VmStart(x, i) + 1 + Len(Spelling[x.vms[i].fragment]) + 1
         /\ Vms(d) = x.vms
<1> DEFINE ms == x.vms
           p == VmPos(x) + 1
           q == SvcPos(x)
           w == Slice(d, 0, q)
<1>1. /\ d \in Seq(Nat) /\ VmPos(x) \in Nat /\ p \in Nat /\ q \in Nat
      /\ Holds(d, p, Text(VmCode, ms))
  <2>1. /\ d \in Seq(Nat) /\ VmPos(x) \in Nat /\ SvcPos(x) \in Nat
        /\ Holds(d, VmPos(x) + 1, VmText(x))
    BY WrittenHeld
  <2>2. VmText(x) = Text(VmCode, ms)
    BY DEF VmText
  <2> QED
    BY <2>1, <2>2
<1>2. ms \in Seq(Method) /\ Coding(Method, VmCode)
  BY ContentsTypes, Codings
<1>3. q = p + Len(Text(VmCode, ms))
  BY <1>1 DEF SvcPos, VmText
<1>4. VmStarts(d) = Entries(w, p, VmEnd(w))
  <2>1. Sections(d).vm_count_pos = VmPos(x) /\ Sections(d).svc_count_pos = q
    BY SectionsFound
  <2> QED
    BY <2>1 DEF VmStarts
<1> HIDE DEF p, q
<1>5. w \in Seq(Nat)
  BY <1>1, <1>2, <1>3, WindowIsCells
<1>6. Entries(w, p, VmEnd(w)) = Starts(VmCode, ms, p)
  <2>1. GoesOn(w, VmEnd(w)) /\ EndsAt(w, Method, VmCode, VmEnd(w))
    BY <1>5, CursorsEnd, CursorsGoOn
  <2> DEFINE end == VmEnd(w)
             v == w
  <2>2. v = Slice(d, 0, q) /\ GoesOn(v, end) /\ EndsAt(v, Method, VmCode, end)
    BY <2>1
  <2> HIDE DEF end, v, ms
  <2>3. Entries(v, p, end) = Starts(VmCode, ms, p)
    BY <1>1, <1>2, <1>3, <2>2, WindowVisited
  <2> QED
    BY <2>3 DEF v, end
<1> HIDE DEF w
<1>7. VmStarts(d) = [i \in 1..Len(ms) |-> VmStart(x, i)]
  BY <1>4, <1>6 DEF Starts, VmStart, p
<1>8. ASSUME NEW i \in 1..Len(ms)
      PROVE  /\ VmStart(x, i) \in Nat
             /\ VmAt(d, VmStart(x, i)) = ms[i]
             /\ VmEnd(d)[VmStart(x, i)] = VmStart(x, i) + VmSpace(ms[i])
             /\ FlagsPos(d, VmStart(x, i)) = VmStart(x, i) + 1 + Len(Spelling[ms[i].fragment]) + 1
  <2> DEFINE a == Start(VmCode, ms, p, i)
             m == ms[i]
  <2>1. a = VmStart(x, i)
    BY DEF VmStart, p
  <2>2. m \in Method
    BY <1>2, ElementOfSeq
  <2>3. a \in Nat /\ Holds(d, a, VmCode[m])
    BY <1>1, <1>2, EntryPlaced
  <2>4. VmCode[m] = VmBytes(m)
    BY <2>2 DEF VmCode
  <2> HIDE DEF a, m
  <2>5. /\ VmEnd(d)[a] = a + VmSpace(m) /\ VmAt(d, a) = m
        /\ FlagsPos(d, a) = a + 1 + Len(Spelling[m.fragment]) + 1
    <3>1. d \in Seq(Nat) /\ a \in Nat /\ Holds(d, a, VmBytes(m))
      BY <1>1, <2>3, <2>4
    <3> QED
      BY <2>2, <3>1, VmHeld
  <2> QED
    BY <2>1, <2>3, <2>5 DEF m
<1>9. Vms(d) = ms
  <2>1. Vms(d) = [i \in 1..Len(ms) |-> VmAt(d, VmStart(x, i))]
    BY <1>7 DEF Vms
  <2>2. Vms(d) = [i \in 1..Len(ms) |-> ms[i]]
    BY <1>8, <2>1
  <2>3. ms = [i \in 1..Len(ms) |-> ms[i]]
    BY <1>2
  <2> QED
    BY <2>2, <2>3
<1> QED
  BY <1>7, <1>8, <1>9

\* The service cursor finds the services, in their order (SvcIter).
LEMMA ServicesFound ==
  ASSUME NEW x \in Contents, NEW d, d = Written(x)
  PROVE  /\ DOMAIN ServiceStarts(d) = 1..Len(x.services)
         /\ \A i \in 1..Len(x.services) :
              /\ ServiceStarts(d)[i] = ServiceStart(x, i)
              /\ ServiceStart(x, i) \in Nat
              /\ ServiceAt(d, ServiceStart(x, i)) = x.services[i]
              /\ ServiceEnd(d)[ServiceStart(x, i)]
                   = ServiceStart(x, i) + ServiceSpace(x.services[i])
         /\ Services(d) = x.services
<1> DEFINE ss == x.services
           p == SvcPos(x) + 1
           q == Len(d)
           w == Slice(d, 0, q)
<1>1. /\ d \in Seq(Nat) /\ SvcPos(x) \in Nat /\ p \in Nat
      /\ Holds(d, p, Text(ServiceCode, ss)) /\ q = p + Len(Text(ServiceCode, ss))
  <2>1. /\ d \in Seq(Nat) /\ SvcPos(x) \in Nat
        /\ Len(d) = SvcPos(x) + 1 + Len(ServiceText(x))
        /\ Holds(d, SvcPos(x) + 1, ServiceText(x))
    BY WrittenHeld
  <2>2. ServiceText(x) = Text(ServiceCode, ss)
    BY DEF ServiceText
  <2> HIDE DEF ss
  <2> QED
    BY <2>1, <2>2
<1>2. ss \in Seq(Service) /\ Coding(Service, ServiceCode)
  BY ContentsTypes, Codings
<1>3. ServiceStarts(d) = Entries(w, p, ServiceEnd(w))
  <2>1. Sections(d).svc_count_pos = SvcPos(x) /\ Sections(d).end = q
    BY SectionsFound
  <2> QED
    BY <2>1 DEF ServiceStarts
<1> HIDE DEF p, q
<1>4. w \in Seq(Nat)
  BY <1>1, <1>2, WindowIsCells
<1>5. Entries(w, p, ServiceEnd(w)) = Starts(ServiceCode, ss, p)
  <2>1. GoesOn(w, ServiceEnd(w)) /\ EndsAt(w, Service, ServiceCode, ServiceEnd(w))
    BY <1>4, CursorsEnd, CursorsGoOn
  <2> DEFINE end == ServiceEnd(w)
             v == w
  <2>2. v = Slice(d, 0, q) /\ GoesOn(v, end) /\ EndsAt(v, Service, ServiceCode, end)
    BY <2>1
  <2> HIDE DEF end, v, ss
  <2>3. Entries(v, p, end) = Starts(ServiceCode, ss, p)
    BY <1>1, <1>2, <2>2, WindowVisited
  <2> QED
    BY <2>3 DEF v, end
<1> HIDE DEF w
<1>6. ServiceStarts(d) = [i \in 1..Len(ss) |-> ServiceStart(x, i)]
  BY <1>3, <1>5 DEF Starts, ServiceStart, p
<1>7. ASSUME NEW i \in 1..Len(ss)
      PROVE  /\ ServiceStart(x, i) \in Nat
             /\ ServiceAt(d, ServiceStart(x, i)) = ss[i]
             /\ ServiceEnd(d)[ServiceStart(x, i)] = ServiceStart(x, i) + ServiceSpace(ss[i])
  <2> DEFINE a == Start(ServiceCode, ss, p, i)
             v == ss[i]
  <2>1. a = ServiceStart(x, i)
    BY DEF ServiceStart, p
  <2>2. v \in Service
    BY <1>2, ElementOfSeq
  <2>3. a \in Nat /\ Holds(d, a, ServiceCode[v])
    BY <1>1, <1>2, EntryPlaced
  <2>4. ServiceCode[v] = ServiceBytes(v)
    BY <2>2 DEF ServiceCode
  <2> HIDE DEF a, v
  <2>5. ServiceEnd(d)[a] = a + ServiceSpace(v) /\ ServiceAt(d, a) = v
    BY <1>1, <2>2, <2>3, <2>4, ServiceHeld
  <2> QED
    BY <2>1, <2>3, <2>5 DEF v
<1>8. Services(d) = ss
  <2>1. Services(d) = [i \in 1..Len(ss) |-> ServiceAt(d, ServiceStart(x, i))]
    BY <1>6 DEF Services
  <2>2. Services(d) = [i \in 1..Len(ss) |-> ss[i]]
    BY <1>7, <2>1
  <2>3. ss = [i \in 1..Len(ss) |-> ss[i]]
    BY <1>2
  <2> QED
    BY <2>2, <2>3
<1> QED
  BY <1>6, <1>7, <1>8

\* The controllers are read back.
LEMMA ControllersRead ==
  ASSUME NEW x \in Contents, NEW d, d = Written(x)
  PROVE  Natives(d) = x.natives /\ Others(d) = x.others
<1> DEFINE ns == x.natives
           os == x.others
           o == 3 + AddressLen * Len(ns)
           q == VmPos(x)
           w == Slice(d, 0, q)
<1>1. d \in Seq(Nat) /\ q \in Nat /\ Holds(d, 2, ControllerBytes(ns, os))
  BY WrittenHeld DEF Controllers
<1>2. ns \in Seq(Subject) /\ os \in Seq(External) /\ Len(ns) \in Nat
  BY ContentsTypes
<1>3. AddressLen * Len(ns) \in Nat /\ o \in Nat
  <2>1. AddressLen \in Nat
    BY LayoutAssumption
  <2>2. AddressLen * Len(ns) \in Nat
    BY <1>2, <2>1
  <2> QED
    BY <2>2
<1>4. Holds(d, 3, Text(Address, ns)) /\ Holds(d, o + 1, Text(OtherCode, os))
  <2> DEFINE p == 2
             r == p + 1 + AddressLen * Len(ns)
  <2>1. p \in Nat /\ Holds(d, p, ControllerBytes(ns, os))
    BY <1>1
  <2>2. p + 1 = 3 /\ r = o
    BY <1>3
  <2> HIDE DEF p
  <2>3. Holds(d, p + 1, Text(Address, ns)) /\ Holds(d, r + 1, Text(OtherCode, os))
    BY <1>1, <1>2, <2>1, ControllersHeld
  <2> HIDE DEF r, o
  <2> QED
    BY <2>2, <2>3
<1>5. q = o + 1 + Len(Text(OtherCode, os))
  <2>1. Len(Controllers(x)) = 1 + AddressLen * Len(ns) + 1 + Len(Text(OtherCode, os))
    BY <1>2, ControllersText DEF Controllers
  <2>2. Len(Text(OtherCode, os)) \in Nat
    BY <1>2, Codings, TextType
  <2>3. q = 2 + Len(Controllers(x))
    BY DEF VmPos
  <2> DEFINE c == Len(Controllers(x))
             a == AddressLen * Len(ns)
             t == Len(Text(OtherCode, os))
  <2>4. c = 1 + a + 1 + t /\ t \in Nat /\ q = 2 + c /\ o = 3 + a /\ a \in Nat
    BY <1>2, <2>1, <2>2, <2>3, LayoutAssumption
  <2> HIDE DEF c, a, t
  <2>5. q = o + 1 + t
    BY <2>4
  <2> QED
    BY <2>5 DEF t
<1>6. /\ U32(d, OffSections) = Len(ns) /\ Sections(d).nc_items = 3
      /\ Sections(d).oc_count_pos = o /\ Sections(d).vm_count_pos = q
  BY SectionsFound
<1>7. Natives(d) = ns
  <2> DEFINE at(i) == Decoded(Address, Slice(d, 3 + AddressLen * (i - 1), 3 + AddressLen * i))
  <2>1. \A i \in 1..Len(ns) : at(i) = ns[i]
    <3> TAKE i \in 1..Len(ns)
    <3> DEFINE p == 3
    <3>1. p \in Nat /\ Holds(d, p, Text(Address, ns))
      BY <1>4
    <3> HIDE DEF p
    <3>2. Decoded(Address, Slice(d, p + AddressLen * (i - 1), p + AddressLen * i)) = ns[i]
      BY <1>1, <1>2, <3>1, AddressDecoded
    <3> QED
      BY <3>2 DEF p
  <2>2. Natives(d) = [i \in 1..Len(ns) |-> at(i)]
    BY <1>6 DEF Natives
  <2> HIDE DEF at
  <2>3. Natives(d) = [i \in 1..Len(ns) |-> ns[i]]
    BY <2>1, <2>2
  <2> HIDE DEF ns
  <2>4. ns \in Seq(Subject)
    BY <1>2
  <2>5. ns = [i \in 1..Len(ns) |-> ns[i]]
    BY <2>4
  <2> QED
    BY <2>3, <2>5
<1> HIDE DEF o, q
<1> DEFINE p == o + 1
<1>8. Others(d) = os
  <2>1. Coding(External, OtherCode) /\ p \in Nat /\ Holds(d, p, Text(OtherCode, os))
    BY <1>3, <1>4, Codings
  <2>2. q = p + Len(Text(OtherCode, os))
    BY <1>5
  <2> HIDE DEF p
  <2>3. w \in Seq(Nat)
    BY <1>1, <1>2, <2>1, <2>2, WindowIsCells
  <2> DEFINE end == FieldEnd(w)
             v == w
  <2>4. v = Slice(d, 0, q) /\ GoesOn(v, end) /\ EndsAt(v, External, OtherCode, end)
    BY <2>3, CursorsEnd, CursorsGoOn
  <2> HIDE DEF end, v, os
  <2>5. Entries(v, p, end) = Starts(OtherCode, os, p)
    BY <1>1, <1>2, <2>1, <2>2, <2>4, WindowVisited
  <2> HIDE DEF w
  <2>6. Others(d) = [i \in 1..Len(os) |-> Payload(d, Start(OtherCode, os, p, i))]
    <3>1. Entries(w, o + 1, FieldEnd(w)) = Starts(OtherCode, os, p)
      BY <2>5 DEF v, end, p
    <3> DEFINE at == Entries(w, o + 1, FieldEnd(w))
    <3>2. Others(d) = [i \in DOMAIN at |-> Payload(d, at[i])]
      BY <1>6 DEF Others, w
    <3> HIDE DEF at
    <3>3. at = [i \in 1..Len(os) |-> Start(OtherCode, os, p, i)]
      BY <3>1 DEF Starts, at
    <3> QED
      BY <3>2, <3>3
  <2>7. \A i \in 1..Len(os) : Payload(d, Start(OtherCode, os, p, i)) = os[i]
    <3> TAKE i \in 1..Len(os)
    <3> DEFINE a == Start(OtherCode, os, p, i)
               y == os[i]
    <3>1. y \in External /\ y \in Seq(Nat)
      BY <1>2, ElementOfSeq, LayoutAssumption
    <3>2. a \in Nat /\ Holds(d, a, OtherCode[y])
      BY <1>1, <1>2, <2>1, EntryPlaced
    <3>3. OtherCode[y] = Prefixed(y)
      BY <3>1 DEF OtherCode
    <3> HIDE DEF a, y
    <3>4. Payload(d, a) = y
      BY <1>1, <3>1, <3>2, <3>3, FieldHeld
    <3> QED
      BY <3>4 DEF a, y
  <2>8. Others(d) = [i \in 1..Len(os) |-> os[i]]
    BY <2>6, <2>7
  <2> QED
    BY <1>2, <2>8
<1> QED
  BY <1>7, <1>8

-----------------------------------------------------------------------------
(* Editing an account *)

\* A written account is six parts.
LEMMA ContentsAreParts ==
  ASSUME NEW x \in Contents
  PROVE  IsParts(HeaderCells(x), Controllers(x), Len(x.vms), VmText(x), Len(x.services), ServiceText(x))
  BY ContentsTypes DEF IsParts, Cells

\* The account written with other methods,
LEMMA WrittenVms ==
  ASSUME NEW x \in Contents, NEW ms \in Seq(Method)
  PROVE  /\ [x EXCEPT !.vms = ms] \in Contents
         /\ Written([x EXCEPT !.vms = ms])
              = Parts(HeaderCells(x), Controllers(x), Len(ms), Text(VmCode, ms), Len(x.services), ServiceText(x))
<1> DEFINE y == [x EXCEPT !.vms = ms]
<1>1. /\ y \in Contents /\ y.vms = ms /\ y.version = x.version /\ y.flag = x.flag
      /\ y.natives = x.natives /\ y.others = x.others /\ y.services = x.services
  BY DEF Contents
<1> HIDE DEF y
<1>2. HeaderCells(y) = HeaderCells(x) /\ Controllers(y) = Controllers(x) /\ ServiceText(y) = ServiceText(x)
  BY <1>1 DEF HeaderCells, Controllers, ServiceText
<1>3. Written(y) = Parts(HeaderCells(x), Controllers(x), Len(ms), Text(VmCode, ms), Len(x.services), ServiceText(x))
  BY <1>1, <1>2 DEF Written, VmText
<1> QED
  BY <1>1, <1>3 DEF y

\* with other services,
LEMMA WrittenServices ==
  ASSUME NEW x \in Contents, NEW ss \in Seq(Service)
  PROVE  /\ [x EXCEPT !.services = ss] \in Contents
         /\ Written([x EXCEPT !.services = ss])
              = Parts(HeaderCells(x), Controllers(x), Len(x.vms), VmText(x), Len(ss), Text(ServiceCode, ss))
<1> DEFINE y == [x EXCEPT !.services = ss]
<1>1. /\ y \in Contents /\ y.services = ss /\ y.version = x.version /\ y.flag = x.flag
      /\ y.natives = x.natives /\ y.others = x.others /\ y.vms = x.vms
  BY DEF Contents
<1> HIDE DEF y
<1>2. HeaderCells(y) = HeaderCells(x) /\ Controllers(y) = Controllers(x) /\ VmText(y) = VmText(x)
  BY <1>1 DEF HeaderCells, Controllers, VmText
<1>3. Written(y) = Parts(HeaderCells(x), Controllers(x), Len(x.vms), VmText(x), Len(ss), Text(ServiceCode, ss))
  BY <1>1, <1>2 DEF Written, ServiceText
<1> QED
  BY <1>1, <1>3 DEF y

\* with other controllers,
LEMMA WrittenControllers ==
  ASSUME NEW x \in Contents, NEW ns \in Seq(Subject), NEW os \in Seq(External)
  PROVE  /\ [x EXCEPT !.natives = ns, !.others = os] \in Contents
         /\ Written([x EXCEPT !.natives = ns, !.others = os])
              = Parts(HeaderCells(x), ControllerBytes(ns, os), Len(x.vms), VmText(x),
                      Len(x.services), ServiceText(x))
<1> DEFINE y == [x EXCEPT !.natives = ns, !.others = os]
<1>1. /\ y \in Contents /\ y.services = x.services /\ y.version = x.version /\ y.flag = x.flag
      /\ y.natives = ns /\ y.others = os /\ y.vms = x.vms
  BY DEF Contents
<1> HIDE DEF y
<1>2. HeaderCells(y) = HeaderCells(x) /\ ServiceText(y) = ServiceText(x) /\ VmText(y) = VmText(x)
  BY <1>1 DEF HeaderCells, ServiceText, VmText
<1>3. Written(y) = Parts(HeaderCells(x), ControllerBytes(ns, os), Len(x.vms), VmText(x),
                         Len(x.services), ServiceText(x))
  BY <1>1, <1>2 DEF Written, Controllers
<1> QED
  BY <1>1, <1>3 DEF y

\* and with another version.
LEMMA WrittenVersion ==
  ASSUME NEW x \in Contents, NEW v \in Nat
  PROVE  /\ [x EXCEPT !.version = v] \in Contents
         /\ Written([x EXCEPT !.version = v])
              = Parts(<<v, x.flag>>, Controllers(x), Len(x.vms), VmText(x),
                      Len(x.services), ServiceText(x))
<1> DEFINE y == [x EXCEPT !.version = v]
<1>1. /\ y \in Contents /\ y.services = x.services /\ y.version = v /\ y.flag = x.flag
      /\ y.natives = x.natives /\ y.others = x.others /\ y.vms = x.vms
  BY DEF Contents
<1> HIDE DEF y
<1>2. /\ HeaderCells(y) = <<v, x.flag>> /\ ServiceText(y) = ServiceText(x) /\ VmText(y) = VmText(x)
      /\ Controllers(y) = Controllers(x)
  BY <1>1 DEF HeaderCells, ServiceText, VmText, Controllers
<1>3. Written(y) = Parts(<<v, x.flag>>, Controllers(x), Len(x.vms), VmText(x),
                         Len(x.services), ServiceText(x))
  BY <1>1, <1>2 DEF Written
<1> QED
  BY <1>1, <1>3 DEF y

\* Writing a count in place.
LEMMA MethodCountPatched ==
  ASSUME NEW h, NEW C, NEW n, NEW M, NEW k, NEW S, IsParts(h, C, n, M, k, S), NEW m \in Nat,
         NEW p, p = Len(h) + Len(C)
  PROVE  Patch(Parts(h, C, n, M, k, S), p, <<m>>) = Parts(h, C, m, M, k, S)
<1> DEFINE D == Parts(h, C, n, M, k, S)
           q == p + 1 + Len(M)
           L == <<m>>
<1>1. D \in Seq(Nat) /\ Len(D) = q + 1 + Len(S)
  <2>1. D = Parts(h, C, n, M, k, S) /\ q = p + 1 + Len(M)
    OBVIOUS
  <2> HIDE DEF D, q
  <2>2. /\ D \in Seq(Nat) /\ Len(D) = q + 1 + Len(S)
        /\ Holds(D, 0, h) /\ Holds(D, Len(h), C)
        /\ Holds(D, p, <<n>>) /\ Holds(D, p + 1, M)
        /\ Holds(D, q, <<k>>) /\ Holds(D, q + 1, S)
    <3>1. ArePartsOf(h, C, n, M, k, S, D, p, q)
      BY <2>1 DEF ArePartsOf
    <3> QED
      BY <3>1, PartsHeld
  <2> QED
    BY <2>2
<1>2. Len(h) \in Nat /\ Len(C) \in Nat /\ Len(M) \in Nat /\ Len(S) \in Nat
  BY LenProperties DEF IsParts, Cells
<1>3. L \in Seq(Nat) /\ Len(L) = 1
  BY One
<1>4. Spliced(D, p, p + 1, L) = Parts(h, C, m, M, k, S)
  BY MethodCountSpliced
<1> HIDE DEF D, L
<1>5. p \in 0..Len(D) /\ p + Len(L) <= Len(D)
  BY <1>1, <1>2, <1>3
<1>6. Patch(D, p, L) = Spliced(D, p, p + Len(L), L)
  BY <1>1, <1>3, <1>5, PatchSplices
<1> QED
  BY <1>3, <1>4, <1>6 DEF D, L

\* The other count.
LEMMA ServiceCountPatched ==
  ASSUME NEW h, NEW C, NEW n, NEW M, NEW k, NEW S, IsParts(h, C, n, M, k, S), NEW m \in Nat,
         NEW q, q = Len(h) + Len(C) + 1 + Len(M)
  PROVE  Patch(Parts(h, C, n, M, k, S), q, <<m>>) = Parts(h, C, n, M, m, S)
<1> DEFINE D == Parts(h, C, n, M, k, S)
           p == Len(h) + Len(C)
           L == <<m>>
<1>1. Len(h) \in Nat /\ Len(C) \in Nat /\ Len(M) \in Nat /\ Len(S) \in Nat
  BY LenProperties DEF IsParts, Cells
<1>2. D \in Seq(Nat) /\ Len(D) = q + 1 + Len(S)
  <2>1. D = Parts(h, C, n, M, k, S) /\ q = p + 1 + Len(M) /\ p = Len(h) + Len(C)
    OBVIOUS
  <2> HIDE DEF D, p
  <2>2. /\ D \in Seq(Nat) /\ Len(D) = q + 1 + Len(S)
        /\ Holds(D, 0, h) /\ Holds(D, Len(h), C)
        /\ Holds(D, p, <<n>>) /\ Holds(D, p + 1, M)
        /\ Holds(D, q, <<k>>) /\ Holds(D, q + 1, S)
    <3>1. ArePartsOf(h, C, n, M, k, S, D, p, q)
      BY <2>1 DEF ArePartsOf
    <3> QED
      BY <3>1, PartsHeld
  <2> QED
    BY <2>2
<1>3. L \in Seq(Nat) /\ Len(L) = 1
  BY One
<1>4. Spliced(D, q, q + 1, L) = Parts(h, C, n, M, m, S)
  BY ServiceCountSpliced
<1> HIDE DEF D, L
<1>5. q \in 0..Len(D) /\ q + Len(L) <= Len(D)
  BY <1>2, <1>1, <1>3
<1>6. Patch(D, q, L) = Spliced(D, q, q + Len(L), L)
  BY <1>2, <1>3, <1>5, PatchSplices
<1> QED
  BY <1>3, <1>4, <1>6 DEF D, L

\* An entry of the methods, or of the services, exchanged in the account.
MethodEdit(x, d, i, t, u, v, new) ==
  /\ x \in Contents /\ d = Written(x) /\ i \in 1..Len(x.vms) /\ t \in Seq(Method)
  /\ Span(VmBytes(x.vms[i]), u, v) /\ Cells(new)
  /\ Spliced(VmBytes(x.vms[i]), u, v, new) = Text(VmCode, t)

\* A splice within a method exchanges that method alone, before it is counted.
LEMMA MethodExchanged ==
  ASSUME NEW x, NEW d, NEW i, NEW t, NEW u, NEW v, NEW new,
         MethodEdit(x, d, i, t, u, v, new)
  PROVE  /\ Exchange(x.vms, i, t) \in Seq(Method)
         /\ Span(d, VmStart(x, i) + u, VmStart(x, i) + v)
         /\ Spliced(d, VmStart(x, i) + u, VmStart(x, i) + v, new)
              = Parts(HeaderCells(x), Controllers(x), Len(x.vms), Text(VmCode, Exchange(x.vms, i, t)),
                      Len(x.services), ServiceText(x))
<1> /\ x \in Contents /\ d = Written(x) /\ i \in 1..Len(x.vms) /\ t \in Seq(Method)
    /\ Span(VmBytes(x.vms[i]), u, v) /\ Cells(new)
    /\ Spliced(VmBytes(x.vms[i]), u, v, new) = Text(VmCode, t)
  BY DEF MethodEdit
<1> DEFINE ms == x.vms
           a == Len(Text(VmCode, SubSeq(ms, 1, i - 1)))
           p == VmPos(x) + 1
           M == Text(VmCode, ms)
           N == Text(VmCode, Exchange(ms, i, t))
           c == VmCode[ms[i]]
<1>1. ms \in Seq(Method) /\ Coding(Method, VmCode) /\ ms[i] \in Method
  BY ContentsTypes, Codings, ElementOfSeq
<1>2. c = VmBytes(ms[i])
  BY <1>1 DEF VmCode
<1>3. SubSeq(ms, 1, i - 1) \in Seq(Method)
  BY <1>1, ListSplit
<1>4. a \in Nat
  BY <1>1, <1>3, TextCells
<1>5. VmStart(x, i) = p + a
  BY DEF VmStart, Start
<1>6. M = VmText(x)
  BY DEF VmText
<1>7. Span(c, u, v) /\ Spliced(c, u, v, new) = Text(VmCode, t)
  BY <1>2
<1>8. Exchange(ms, i, t) \in Seq(Method) /\ Span(M, a + u, a + v) /\ Spliced(M, a + u, a + v, new) = N
  <2> DEFINE s == ms
             b == a
  <2>1. /\ s \in Seq(Method) /\ i \in 1..Len(s) /\ Span(VmCode[s[i]], u, v)
        /\ Spliced(VmCode[s[i]], u, v, new) = Text(VmCode, t)
        /\ b = Len(Text(VmCode, SubSeq(s, 1, i - 1)))
    BY <1>1, <1>7
  <2> HIDE DEF s, b
  <2>2. /\ Exchange(s, i, t) \in Seq(Method) /\ Span(Text(VmCode, s), b + u, b + v)
        /\ Spliced(Text(VmCode, s), b + u, b + v, new) = Text(VmCode, Exchange(s, i, t))
    BY <1>1, <2>1, EntrySpliced
  <2> QED
    BY <2>2 DEF s, b
<1>9. VmPos(x) \in Nat /\ d \in Seq(Nat) /\ Len(d) = p + Len(M) + 1 + Len(ServiceText(x))
  <2>1. /\ VmPos(x) \in Nat /\ d \in Seq(Nat) /\ Len(d) = SvcPos(x) + 1 + Len(ServiceText(x))
    BY WrittenHeld
  <2>2. SvcPos(x) = VmPos(x) + 1 + Len(M)
    BY <1>6 DEF SvcPos
  <2> QED
    BY <2>1, <2>2
<1>10. p + (a + u) = VmStart(x, i) + u /\ p + (a + v) = VmStart(x, i) + v
  <2>1. u \in Nat /\ v \in Nat
    BY <1>7, LenProperties DEF Span
  <2>2. p \in Nat
    <3> DEFINE f == VmPos(x)
    <3>1. f \in Nat /\ p = f + 1
      BY <1>9
    <3> HIDE DEF f, p
    <3> QED
      BY <3>1
  <2> DEFINE y == VmStart(x, i)
  <2>3. y = p + a
    BY <1>5
  <2> HIDE DEF p, a, y
  <2>4. p + (a + u) = y + u /\ p + (a + v) = y + v
    BY <1>4, <2>1, <2>2, <2>3
  <2> QED
    BY <2>4 DEF y
<1> HIDE DEF c, ms, a, M, N
<1>11. Span(d, p + (a + u), p + (a + v))
  <2>1. Len(ServiceText(x)) \in Nat
    BY ContentsTypes, LenProperties
  <2> DEFINE y == a + u
             z == a + v
             l == Len(ServiceText(x))
  <2> HIDE DEF y, z, l
  <2>2. y \in 0..Len(M) /\ z \in y..Len(M)
    BY <1>8 DEF Span, y, z
  <2>3. Len(M) \in Nat
    BY <1>1, TextCells DEF M
  <2>4. p \in Nat /\ Len(d) = p + Len(M) + 1 + l /\ l \in Nat
    BY <1>9, <2>1 DEF l
  <2> HIDE DEF p
  <2>5. Span(d, p + y, p + z)
    BY <2>2, <2>3, <2>4 DEF Span
  <2> QED
    BY <2>5 DEF y, z
<1>12. Spliced(d, p + (a + u), p + (a + v), new)
         = Parts(HeaderCells(x), Controllers(x), Len(x.vms), N, Len(x.services), ServiceText(x))
  <2> DEFINE h == HeaderCells(x)
             C == Controllers(x)
             n == Len(x.vms)
             k == Len(x.services)
             S == ServiceText(x)
             y == a + u
             z == a + v
  <2>1. IsParts(h, C, n, M, k, S) /\ d = Parts(h, C, n, M, k, S)
    BY <1>6, ContentsAreParts DEF Written
  <2>2. p = Len(h) + Len(C) + 1
    BY ContentsTypes DEF VmPos
  <2>3. Span(M, y, z) /\ Spliced(M, y, z, new) = N
    BY <1>8
  <2> HIDE DEF h, C, n, k, S, p, y, z
  <2>4. Spliced(Parts(h, C, n, M, k, S), p + y, p + z, new) = Parts(h, C, n, Spliced(M, y, z, new), k, S)
    BY <2>1, <2>2, <2>3, MethodsSpliced
  <2>5. Spliced(d, p + y, p + z, new) = Parts(h, C, n, N, k, S)
    BY <2>1, <2>3, <2>4
  <2> QED
    BY <2>5 DEF h, C, n, k, S, y, z
<1> QED
  BY <1>8, <1>10, <1>11, <1>12 DEF ms, N

\* The same for a service.
ServiceEdit(x, d, i, t, u, v, new) ==
  /\ x \in Contents /\ d = Written(x) /\ i \in 1..Len(x.services) /\ t \in Seq(Service)
  /\ Span(ServiceBytes(x.services[i]), u, v) /\ Cells(new)
  /\ Spliced(ServiceBytes(x.services[i]), u, v, new) = Text(ServiceCode, t)

\* A splice within a service exchanges that service alone, before it is counted.
LEMMA ServiceExchanged ==
  ASSUME NEW x, NEW d, NEW i, NEW t, NEW u, NEW v, NEW new,
         ServiceEdit(x, d, i, t, u, v, new)
  PROVE  /\ Exchange(x.services, i, t) \in Seq(Service)
         /\ Span(d, ServiceStart(x, i) + u, ServiceStart(x, i) + v)
         /\ Spliced(d, ServiceStart(x, i) + u, ServiceStart(x, i) + v, new)
              = Parts(HeaderCells(x), Controllers(x), Len(x.vms), VmText(x),
                      Len(x.services), Text(ServiceCode, Exchange(x.services, i, t)))
<1> /\ x \in Contents /\ d = Written(x) /\ i \in 1..Len(x.services) /\ t \in Seq(Service)
    /\ Span(ServiceBytes(x.services[i]), u, v) /\ Cells(new)
    /\ Spliced(ServiceBytes(x.services[i]), u, v, new) = Text(ServiceCode, t)
  BY DEF ServiceEdit
<1> DEFINE ss == x.services
           a == Len(Text(ServiceCode, SubSeq(ss, 1, i - 1)))
           p == SvcPos(x) + 1
           M == Text(ServiceCode, ss)
           N == Text(ServiceCode, Exchange(ss, i, t))
           c == ServiceCode[ss[i]]
<1>1. ss \in Seq(Service) /\ Coding(Service, ServiceCode) /\ ss[i] \in Service
  BY ContentsTypes, Codings, ElementOfSeq
<1>2. c = ServiceBytes(ss[i])
  BY <1>1 DEF ServiceCode
<1>3. SubSeq(ss, 1, i - 1) \in Seq(Service)
  BY <1>1, ListSplit
<1>4. a \in Nat
  BY <1>1, <1>3, TextCells
<1>5. ServiceStart(x, i) = p + a
  BY DEF ServiceStart, Start
<1>6. M = ServiceText(x)
  BY DEF ServiceText
<1>7. Span(c, u, v) /\ Spliced(c, u, v, new) = Text(ServiceCode, t)
  BY <1>2
<1>8. Exchange(ss, i, t) \in Seq(Service) /\ Span(M, a + u, a + v) /\ Spliced(M, a + u, a + v, new) = N
  <2> DEFINE s == ss
             b == a
  <2>1. /\ s \in Seq(Service) /\ i \in 1..Len(s) /\ Span(ServiceCode[s[i]], u, v)
        /\ Spliced(ServiceCode[s[i]], u, v, new) = Text(ServiceCode, t)
        /\ b = Len(Text(ServiceCode, SubSeq(s, 1, i - 1)))
    BY <1>1, <1>7
  <2> HIDE DEF s, b
  <2>2. /\ Exchange(s, i, t) \in Seq(Service) /\ Span(Text(ServiceCode, s), b + u, b + v)
        /\ Spliced(Text(ServiceCode, s), b + u, b + v, new) = Text(ServiceCode, Exchange(s, i, t))
    BY <1>1, <2>1, EntrySpliced
  <2> QED
    BY <2>2 DEF s, b
<1>9. SvcPos(x) \in Nat /\ d \in Seq(Nat) /\ Len(d) = p + Len(M)
  <2>1. /\ SvcPos(x) \in Nat /\ d \in Seq(Nat) /\ Len(d) = SvcPos(x) + 1 + Len(ServiceText(x))
    BY WrittenHeld
  <2> QED
    BY <1>6, <2>1
<1>10. p + (a + u) = ServiceStart(x, i) + u /\ p + (a + v) = ServiceStart(x, i) + v
  <2>1. u \in Nat /\ v \in Nat
    BY <1>7, LenProperties DEF Span
  <2>2. p \in Nat
    BY <1>9
  <2> DEFINE y == ServiceStart(x, i)
  <2>3. y = p + a
    BY <1>5
  <2> HIDE DEF p, a, y
  <2>4. p + (a + u) = y + u /\ p + (a + v) = y + v
    BY <1>4, <2>1, <2>2, <2>3
  <2> QED
    BY <2>4 DEF y
<1> HIDE DEF c, ss, a, M, N
<1>11. Span(d, p + (a + u), p + (a + v))
  <2> DEFINE y == a + u
             z == a + v
  <2> HIDE DEF y, z
  <2>1. y \in 0..Len(M) /\ z \in y..Len(M)
    BY <1>8 DEF Span, y, z
  <2>2. Len(M) \in Nat
    BY <1>1, TextCells DEF M
  <2>3. p \in Nat /\ Len(d) = p + Len(M)
    BY <1>9
  <2> HIDE DEF p
  <2>4. Span(d, p + y, p + z)
    BY <2>1, <2>2, <2>3 DEF Span
  <2> QED
    BY <2>4 DEF y, z
<1>12. Spliced(d, p + (a + u), p + (a + v), new)
         = Parts(HeaderCells(x), Controllers(x), Len(x.vms), VmText(x), Len(x.services), N)
  <2> DEFINE h == HeaderCells(x)
             C == Controllers(x)
             n == Len(x.vms)
             k == Len(x.services)
             V == VmText(x)
             y == a + u
             z == a + v
  <2>1. IsParts(h, C, n, V, k, M) /\ d = Parts(h, C, n, V, k, M)
    BY <1>6, ContentsAreParts DEF Written
  <2>2. p = Len(h) + Len(C) + 1 + Len(V) + 1
    BY ContentsTypes DEF SvcPos, VmPos
  <2>3. Span(M, y, z) /\ Spliced(M, y, z, new) = N
    BY <1>8
  <2> HIDE DEF h, C, n, k, V, p, y, z
  <2>4. Spliced(Parts(h, C, n, V, k, M), p + y, p + z, new) = Parts(h, C, n, V, k, Spliced(M, y, z, new))
    BY <2>1, <2>2, <2>3, ServicesSpliced
  <2>5. Spliced(d, p + y, p + z, new) = Parts(h, C, n, V, k, N)
    BY <2>1, <2>3, <2>4
  <2> QED
    BY <2>5 DEF h, C, n, k, V, y, z
<1> QED
  BY <1>8, <1>10, <1>11, <1>12 DEF ss, N

\* The parts of an account after an edit of the methods, whose count is written
\* next.
LEMMA MethodsRecounted ==
  ASSUME NEW x \in Contents, NEW ms \in Seq(Method), NEW n \in Nat,
         NEW y, y = [x EXCEPT !.vms = ms],
         NEW d, d = Parts(HeaderCells(x), Controllers(x), n, Text(VmCode, ms),
                          Len(x.services), ServiceText(x))
  PROVE  /\ y \in Contents
         /\ Patch(d, VmPos(x), <<Len(ms)>>) = Written(y)
<1> DEFINE h == HeaderCells(x)
           C == Controllers(x)
           M == Text(VmCode, ms)
           k == Len(x.services)
           S == ServiceText(x)
           p == VmPos(x)
           m == Len(ms)
<1>1. m \in Nat /\ Cells(M)
  BY Codings, TextCells, LenProperties
<1>2. IsParts(h, C, n, M, k, S)
  BY <1>1, ContentsAreParts DEF IsParts
<1>3. p = Len(h) + Len(C)
  BY ContentsTypes DEF VmPos
<1>4. y \in Contents /\ Written(y) = Parts(h, C, m, M, k, S)
  BY WrittenVms
<1> HIDE DEF h, C, M, k, S, p, m
<1>5. Patch(Parts(h, C, n, M, k, S), p, <<m>>) = Parts(h, C, m, M, k, S)
  BY <1>1, <1>2, <1>3, MethodCountPatched
<1> QED
  BY <1>4, <1>5 DEF h, C, M, k, S, p, m

\* The same after an edit of the services.
LEMMA ServicesRecounted ==
  ASSUME NEW x \in Contents, NEW ss \in Seq(Service), NEW n \in Nat,
         NEW y, y = [x EXCEPT !.services = ss],
         NEW d, d = Parts(HeaderCells(x), Controllers(x), Len(x.vms), VmText(x),
                          n, Text(ServiceCode, ss))
  PROVE  /\ y \in Contents
         /\ Patch(d, SvcPos(x), <<Len(ss)>>) = Written(y)
<1> DEFINE h == HeaderCells(x)
           C == Controllers(x)
           M == VmText(x)
           k == Len(x.vms)
           S == Text(ServiceCode, ss)
           q == SvcPos(x)
           m == Len(ss)
<1>1. m \in Nat /\ Cells(S)
  BY Codings, TextCells, LenProperties
<1>2. IsParts(h, C, k, M, n, S)
  BY <1>1, ContentsAreParts DEF IsParts
<1>3. q = Len(h) + Len(C) + 1 + Len(M)
  BY ContentsTypes DEF SvcPos, VmPos
<1>4. y \in Contents /\ Written(y) = Parts(h, C, k, M, m, S)
  BY WrittenServices
<1> HIDE DEF h, C, M, k, S, q, m
<1>5. Patch(Parts(h, C, k, M, n, S), q, <<m>>) = Parts(h, C, k, M, m, S)
  BY <1>1, <1>2, <1>3, ServiceCountPatched
<1> QED
  BY <1>4, <1>5 DEF h, C, M, k, S, q, m

\* One entry more adds its cells at the end of the text.
LEMMA TextGrows ==
  ASSUME NEW T, NEW c, Coding(T, c), NEW s, s \in Seq(T), NEW x, x \in T
  PROVE  s \o <<x>> \in Seq(T) /\ Len(s \o <<x>>) = Len(s) + 1
         /\ Text(c, s \o <<x>>) = Join(Text(c, s), c[x])
<1> DEFINE one == <<x>>
<1>1. one \in Seq(T) /\ Len(one) = 1
  OBVIOUS
<1>2. Text(c, one) = c[x]
  BY TextOne
<1> HIDE DEF one
<1>3. s \o one \in Seq(T) /\ Text(c, s \o one) = Join(Text(c, s), Text(c, one))
  BY <1>1, TextJoin
<1>4. Len(s \o one) = Len(s) + Len(one)
  BY <1>1, ConcatProperties
<1> QED
  BY <1>1, <1>2, <1>3, <1>4 DEF one

\* A method in cells, all of which a splice may take.
LEMMA MethodWritten ==
  ASSUME NEW m \in Method
  PROVE  /\ VmCode[m] = VmBytes(m) /\ Cells(VmBytes(m))
         /\ Len(VmBytes(m)) = VmSpace(m) /\ VmSpace(m) \in Nat
         /\ Span(VmBytes(m), 0, VmSpace(m))
<1>1. VmCode[m] = VmBytes(m)
  BY DEF VmCode
<1>2. VmBytes(m) \in Seq(Nat) /\ Len(VmBytes(m)) = VmSpace(m) /\ VmSpace(m) \in Nat
  BY VmBytesType
<1>3. Span(VmBytes(m), 0, VmSpace(m))
  BY <1>2 DEF Span
<1> QED
  BY <1>1, <1>2, <1>3 DEF Cells

\* A service in cells, all of which a splice may take.
LEMMA ServiceWritten ==
  ASSUME NEW v \in Service
  PROVE  /\ ServiceCode[v] = ServiceBytes(v) /\ Cells(ServiceBytes(v))
         /\ Len(ServiceBytes(v)) = ServiceSpace(v) /\ ServiceSpace(v) \in Nat
         /\ Span(ServiceBytes(v), 0, ServiceSpace(v))
<1>1. ServiceCode[v] = ServiceBytes(v)
  BY DEF ServiceCode
<1>2. ServiceBytes(v) \in Seq(Nat) /\ Len(ServiceBytes(v)) = ServiceSpace(v) /\ ServiceSpace(v) \in Nat
  BY ServiceBytesType
<1>3. Span(ServiceBytes(v), 0, ServiceSpace(v))
  BY <1>2 DEF Span
<1> QED
  BY <1>1, <1>2, <1>3 DEF Cells

\* A method inserted behind the last one (insert_vm).
LEMMA MethodInserted ==
  ASSUME NEW x \in Contents, NEW d, d = Written(x), NEW m \in Method,
         NEW y, y = [x EXCEPT !.vms = x.vms \o <<m>>]
  PROVE  /\ y \in Contents
         /\ Patch(InsertEntry(d, SvcPos(x), VmSpace(m), VmBytes(m)), VmPos(x), <<Len(x.vms) + 1>>)
              = Written(y)
<1> DEFINE h == HeaderCells(x)
           C == Controllers(x)
           n == Len(x.vms)
           M == VmText(x)
           k == Len(x.services)
           S == ServiceText(x)
           p == VmPos(x) + 1
           q == SvcPos(x)
           l == Len(M)
           e == VmBytes(m)
           ms == x.vms \o <<m>>
<1>1. x.vms \in Seq(Method) /\ M = Text(VmCode, x.vms)
  BY ContentsTypes DEF VmText
<1>2. e = VmCode[m] /\ Cells(e) /\ Len(e) = VmSpace(m)
  BY MethodWritten
<1>3. ms \in Seq(Method) /\ Len(ms) = n + 1 /\ Text(VmCode, ms) = Join(M, e)
  <2> DEFINE s == x.vms
  <2>1. s \in Seq(Method) /\ M = Text(VmCode, s) /\ Coding(Method, VmCode)
    BY <1>1, Codings
  <2> HIDE DEF s, M, e
  <2>2. s \o <<m>> \in Seq(Method) /\ Len(s \o <<m>>) = Len(s) + 1
        /\ Text(VmCode, s \o <<m>>) = Join(Text(VmCode, s), VmCode[m])
    BY <2>1, TextGrows
  <2> QED
    BY <1>2, <2>1, <2>2 DEF s
<1>4. IsParts(h, C, n, M, k, S) /\ d = Parts(h, C, n, M, k, S) /\ p = Len(h) + Len(C) + 1
  <2>1. p = Len(h) + Len(C) + 1
    BY ContentsTypes DEF VmPos
  <2>2. d = Parts(h, C, n, M, k, S)
    BY DEF Written
  <2> QED
    BY <2>1, <2>2, ContentsAreParts
<1>5. d \in Seq(Nat) /\ p \in Nat /\ q \in Nat /\ q <= Len(d) /\ q = p + l /\ Len(d) \in Nat
  <2>1. VmPos(x) \in Nat /\ d \in Seq(Nat) /\ q \in Nat /\ Len(d) = q + 1 + Len(S)
    BY WrittenHeld
  <2>2. Len(S) \in Nat
    BY ContentsTypes, LenProperties
  <2>3. q = p + l
    BY DEF SvcPos
  <2> HIDE DEF q, l, S
  <2> QED
    BY <2>1, <2>2, <2>3
<1>6. Cells(M) /\ l \in Nat
  BY <1>1, Codings, TextCells
<1> HIDE DEF h, C, n, M, k, S, p, q, e, ms
<1>7. InsertEntry(d, q, VmSpace(m), e) = Spliced(d, q, q, e)
  <2>1. q \in 0..Len(d) /\ e \in Seq(Nat)
    BY <1>2, <1>5 DEF Cells
  <2>2. InsertEntry(d, q, Len(e), e) = Spliced(d, q, q, e)
    BY <1>5, <2>1, InsertSplices
  <2> QED
    BY <1>2, <2>2
<1>8. Span(M, l, l)
  BY <1>6 DEF Span
<1>9. Spliced(M, l, l, e) = Join(M, e)
  BY <1>2, <1>6, SpliceEnd
<1> HIDE DEF l
<1>10. Spliced(Parts(h, C, n, M, k, S), p + l, p + l, e) = Parts(h, C, n, Spliced(M, l, l, e), k, S)
  BY <1>2, <1>4, <1>8, MethodsSpliced
<1>11. InsertEntry(d, q, VmSpace(m), e) = Parts(h, C, n, Text(VmCode, ms), k, S)
  BY <1>3, <1>4, <1>5, <1>7, <1>9, <1>10
<1>12. n \in Nat /\ y = [x EXCEPT !.vms = ms]
  BY ContentsTypes DEF n, ms
<1> DEFINE r == InsertEntry(d, q, VmSpace(m), e)
<1>13. r = Parts(HeaderCells(x), Controllers(x), n, Text(VmCode, ms), Len(x.services), ServiceText(x))
  BY <1>11 DEF h, C, k, S
<1> HIDE DEF r
<1>14. y \in Contents /\ Patch(r, VmPos(x), <<Len(ms)>>) = Written(y)
  BY <1>3, <1>12, <1>13, MethodsRecounted
<1> QED
  BY <1>3, <1>14 DEF r, q, e, n

\* A service written behind the last one (write_service at the old end).
LEMMA ServiceAppended ==
  ASSUME NEW x \in Contents, NEW d, d = Written(x), NEW v \in Service,
         NEW y, y = [x EXCEPT !.services = x.services \o <<v>>]
  PROVE  /\ y \in Contents
         /\ Patch(AppendEntry(d, ServiceSpace(v), ServiceBytes(v)), SvcPos(x), <<Len(x.services) + 1>>)
              = Written(y)
<1> DEFINE h == HeaderCells(x)
           C == Controllers(x)
           n == Len(x.vms)
           M == VmText(x)
           k == Len(x.services)
           S == ServiceText(x)
           e == ServiceBytes(v)
           ss == x.services \o <<v>>
           g == ((((h \o C) \o <<n>>) \o M) \o <<k>>)
<1>1. x.services \in Seq(Service) /\ S = Text(ServiceCode, x.services)
  BY ContentsTypes DEF ServiceText
<1>2. e = ServiceCode[v] /\ Cells(e) /\ Len(e) = ServiceSpace(v)
  BY ServiceWritten
<1>3. ss \in Seq(Service) /\ Len(ss) = k + 1 /\ Text(ServiceCode, ss) = Join(S, e)
  <2> DEFINE s == x.services
  <2>1. s \in Seq(Service) /\ S = Text(ServiceCode, s) /\ Coding(Service, ServiceCode)
    BY <1>1, Codings
  <2> HIDE DEF s, S, e
  <2>2. s \o <<v>> \in Seq(Service) /\ Len(s \o <<v>>) = Len(s) + 1
        /\ Text(ServiceCode, s \o <<v>>) = Join(Text(ServiceCode, s), ServiceCode[v])
    BY <2>1, TextGrows
  <2> QED
    BY <1>2, <2>1, <2>2 DEF s
<1>4. d = g \o S
  BY DEF Written, Parts
<1>5. g \in Seq(Nat) /\ S \in Seq(Nat) /\ e \in Seq(Nat)
  <2> DEFINE N == <<n>>
             K == <<k>>
  <2>1. h \in Seq(Nat) /\ C \in Seq(Nat) /\ n \in Nat /\ M \in Seq(Nat) /\ k \in Nat /\ S \in Seq(Nat)
    BY ContentsTypes
  <2>2. N \in Seq(Nat) /\ K \in Seq(Nat)
    BY <2>1
  <2> HIDE DEF N, K, h, C, M, n, k
  <2>3. h \o C \in Seq(Nat)
    BY <2>1, Joined
  <2>4. (h \o C) \o N \in Seq(Nat)
    BY <2>2, <2>3, Joined
  <2>5. ((h \o C) \o N) \o M \in Seq(Nat)
    BY <2>1, <2>4, Joined
  <2>6. (((h \o C) \o N) \o M) \o K \in Seq(Nat)
    BY <2>2, <2>5, Joined
  <2> QED
    BY <1>2, <2>1, <2>6 DEF Cells, N, K
<1> HIDE DEF e, S, g, ss
<1>6. d \in Seq(Nat)
  BY <1>4, <1>5, Joined
<1>7. AppendEntry(d, ServiceSpace(v), e) = d \o e
  BY <1>2, <1>5, <1>6, AppendSplices
<1>8. (g \o S) \o e = g \o (S \o e)
  BY <1>5, JoinedThrice
<1>9. AppendEntry(d, ServiceSpace(v), e) = Parts(h, C, n, M, k, Text(ServiceCode, ss))
  BY <1>3, <1>4, <1>7, <1>8 DEF Parts, Join, g
<1>10. k \in Nat /\ y = [x EXCEPT !.services = ss]
  BY ContentsTypes DEF ss
<1> DEFINE r == AppendEntry(d, ServiceSpace(v), e)
<1>11. r = Parts(HeaderCells(x), Controllers(x), Len(x.vms), VmText(x), k, Text(ServiceCode, ss))
  BY <1>9
<1> HIDE DEF r, k
<1>12. y \in Contents /\ Patch(r, SvcPos(x), <<Len(ss)>>) = Written(y)
  BY <1>3, <1>10, <1>11, ServicesRecounted
<1> QED
  BY <1>3, <1>12 DEF r, e, k

\* The i-th entry of s may be exchanged for the entries of t.
Exchanges(T, s, i, t) == s \in Seq(T) /\ i \in 1..Len(s) /\ t \in Seq(T)

\* How long a list is after an exchange.
LEMMA ExchangeLength ==
  ASSUME NEW T, NEW s, NEW i, NEW t, Exchanges(T, s, i, t)
  PROVE  Len(Exchange(s, i, t)) = Len(s) - 1 + Len(t)
<1> s \in Seq(T) /\ i \in 1..Len(s) /\ t \in Seq(T)
  BY DEF Exchanges
<1> DEFINE pre == SubSeq(s, 1, i - 1)
           suf == SubSeq(s, i + 1, Len(s))
<1>1. pre \in Seq(T) /\ Len(pre) = i - 1
  BY ListSplit
<1>2. suf \in Seq(T) /\ Len(suf) = Len(s) - i
  BY Suffix
<1>3. Exchange(s, i, t) = (pre \o t) \o suf
  BY DEF Exchange
<1> HIDE DEF pre, suf
<1> DEFINE l == pre \o t
<1>4. l \in Seq(T) /\ Len(l) = Len(pre) + Len(t)
  BY <1>1, ConcatProperties
<1> HIDE DEF l
<1>5. Len(l \o suf) = Len(l) + Len(suf)
  BY <1>2, <1>4, ConcatProperties
<1>6. Len(s) \in Nat /\ Len(t) \in Nat /\ i \in Int
  BY LenProperties
<1> DEFINE z == Len(Exchange(s, i, t))
<1>7. z = Len(l) + Len(suf)
  BY <1>3, <1>5 DEF l
<1> HIDE DEF z
<1> QED
  BY <1>1, <1>2, <1>4, <1>6, <1>7 DEF z

\* A method removed: the tail closes the gap (remove_verification_method).
LEMMA MethodRemoved ==
  ASSUME NEW x \in Contents, NEW d, d = Written(x), NEW i, i \in 1..Len(x.vms),
         NEW p, p = VmStart(x, i), NEW q, q = p + VmSpace(x.vms[i]),
         NEW ms, ms = Exchange(x.vms, i, <<>>), NEW y, y = [x EXCEPT !.vms = ms]
  PROVE  /\ y \in Contents /\ ms \in Seq(Method) /\ Len(ms) = Len(x.vms) - 1
         /\ Patch(RemoveSpan(d, p, q), VmPos(x), <<Len(x.vms) - 1>>) = Written(y)
<1> DEFINE m == x.vms[i]
           e == VmBytes(m)
           o == <<>>
           u == 0
           w == VmSpace(m)
           n == Len(x.vms)
<1>1. x.vms \in Seq(Method) /\ m \in Method /\ n \in Nat
  BY ContentsTypes, ElementOfSeq
<1>2. Cells(e) /\ Span(e, u, w) /\ w = Len(e)
  BY <1>1, MethodWritten
<1>3. o \in Seq(Method) /\ Cells(o) /\ Text(VmCode, o) = o /\ Len(o) = 0
  BY TextEmpty, NoCells
<1>4. ms = Exchange(x.vms, i, o) /\ q = p + w /\ p = VmStart(x, i)
  OBVIOUS
<1>5. d \in Seq(Nat) /\ p \in Nat
  BY WrittenHeld, VmsFound
<1>6. p + u = p
  BY <1>5
<1> HIDE DEF o, w
<1>7. Spliced(e, u, w, o) = Text(VmCode, o)
  <2>1. Spliced(e, 0, Len(e), o) = o
    BY <1>2, <1>3, SpliceAll
  <2> QED
    BY <1>2, <1>3, <2>1
<1> HIDE DEF e, u
<1>8. /\ ms \in Seq(Method) /\ Span(d, p + u, p + w)
      /\ Spliced(d, p + u, p + w, o)
           = Parts(HeaderCells(x), Controllers(x), n, Text(VmCode, ms), Len(x.services), ServiceText(x))
  <2>1. MethodEdit(x, d, i, o, u, w, o)
    BY <1>2, <1>3, <1>7 DEF e, MethodEdit
  <2> HIDE DEF m, n
  <2>2. /\ Exchange(x.vms, i, o) \in Seq(Method)
        /\ Span(d, VmStart(x, i) + u, VmStart(x, i) + w)
        /\ Spliced(d, VmStart(x, i) + u, VmStart(x, i) + w, o)
             = Parts(HeaderCells(x), Controllers(x), Len(x.vms), Text(VmCode, Exchange(x.vms, i, o)),
                     Len(x.services), ServiceText(x))
    BY <2>1, MethodExchanged
  <2> QED
    BY <1>4, <2>2 DEF n
<1>9. Len(ms) = n - 1
  <2> DEFINE s == x.vms
             z == Len(ms)
  <2>1. Exchanges(Method, s, i, o) /\ z = Len(Exchange(s, i, o)) /\ n = Len(s)
    BY <1>1, <1>3, <1>4 DEF Exchanges
  <2> HIDE DEF s, z
  <2>2. z = Len(s) - 1 + Len(o)
    BY <2>1, ExchangeLength
  <2>3. z = n - 1
    BY <1>1, <1>3, <2>1, <2>2
  <2> QED
    BY <2>3 DEF z
<1>10. RemoveSpan(d, p, q) = Spliced(d, p, q, o)
  <2>1. p \in 0..Len(d) /\ q \in p..Len(d)
    BY <1>4, <1>6, <1>8 DEF Span
  <2>2. RemoveSpan(d, p, q) = Spliced(d, p, q, <<>>)
    BY <1>5, <2>1, RemoveSplices
  <2> QED
    BY <2>2 DEF o
<1> DEFINE r == RemoveSpan(d, p, q)
<1>11. r = Parts(HeaderCells(x), Controllers(x), n, Text(VmCode, ms), Len(x.services), ServiceText(x))
  BY <1>4, <1>6, <1>8, <1>10
<1> HIDE DEF r, n
<1>12. y \in Contents /\ Patch(r, VmPos(x), <<Len(ms)>>) = Written(y)
  BY <1>1, <1>8, <1>11, MethodsRecounted
<1> QED
  BY <1>8, <1>9, <1>12 DEF r, n

\* A service removed (remove_service).
LEMMA ServiceRemoved ==
  ASSUME NEW x \in Contents, NEW d, d = Written(x), NEW i, i \in 1..Len(x.services),
         NEW p, p = ServiceStart(x, i), NEW q, q = p + ServiceSpace(x.services[i]),
         NEW ss, ss = Exchange(x.services, i, <<>>), NEW y, y = [x EXCEPT !.services = ss]
  PROVE  /\ y \in Contents /\ ss \in Seq(Service) /\ Len(ss) = Len(x.services) - 1
         /\ Patch(RemoveSpan(d, p, q), SvcPos(x), <<Len(x.services) - 1>>) = Written(y)
<1> DEFINE m == x.services[i]
           e == ServiceBytes(m)
           o == <<>>
           u == 0
           w == ServiceSpace(m)
           n == Len(x.services)
<1>1. x.services \in Seq(Service) /\ m \in Service /\ n \in Nat
  BY ContentsTypes, ElementOfSeq
<1>2. Cells(e) /\ Span(e, u, w) /\ w = Len(e)
  BY <1>1, ServiceWritten
<1>3. o \in Seq(Service) /\ Cells(o) /\ Text(ServiceCode, o) = o /\ Len(o) = 0
  BY TextEmpty, NoCells
<1>4. ss = Exchange(x.services, i, o) /\ q = p + w /\ p = ServiceStart(x, i)
  OBVIOUS
<1>5. d \in Seq(Nat) /\ p \in Nat
  BY WrittenHeld, ServicesFound
<1>6. p + u = p
  BY <1>5
<1> HIDE DEF o, w
<1>7. Spliced(e, u, w, o) = Text(ServiceCode, o)
  <2>1. Spliced(e, 0, Len(e), o) = o
    BY <1>2, <1>3, SpliceAll
  <2> QED
    BY <1>2, <1>3, <2>1
<1> HIDE DEF e, u
<1>8. /\ ss \in Seq(Service) /\ Span(d, p + u, p + w)
      /\ Spliced(d, p + u, p + w, o)
           = Parts(HeaderCells(x), Controllers(x), Len(x.vms), VmText(x), n, Text(ServiceCode, ss))
  <2>1. ServiceEdit(x, d, i, o, u, w, o)
    BY <1>2, <1>3, <1>7 DEF e, ServiceEdit
  <2> HIDE DEF m, n
  <2>2. /\ Exchange(x.services, i, o) \in Seq(Service)
        /\ Span(d, ServiceStart(x, i) + u, ServiceStart(x, i) + w)
        /\ Spliced(d, ServiceStart(x, i) + u, ServiceStart(x, i) + w, o)
             = Parts(HeaderCells(x), Controllers(x), Len(x.vms), VmText(x),
                     Len(x.services), Text(ServiceCode, Exchange(x.services, i, o)))
    BY <2>1, ServiceExchanged
  <2> QED
    BY <1>4, <2>2 DEF n
<1>9. Len(ss) = n - 1
  <2> DEFINE s == x.services
             z == Len(ss)
  <2>1. Exchanges(Service, s, i, o) /\ z = Len(Exchange(s, i, o)) /\ n = Len(s)
    BY <1>1, <1>3, <1>4 DEF Exchanges
  <2> HIDE DEF s, z
  <2>2. z = Len(s) - 1 + Len(o)
    BY <2>1, ExchangeLength
  <2>3. z = n - 1
    BY <1>1, <1>3, <2>1, <2>2
  <2> QED
    BY <2>3 DEF z
<1>10. RemoveSpan(d, p, q) = Spliced(d, p, q, o)
  <2>1. p \in 0..Len(d) /\ q \in p..Len(d)
    BY <1>4, <1>6, <1>8 DEF Span
  <2>2. RemoveSpan(d, p, q) = Spliced(d, p, q, <<>>)
    BY <1>5, <2>1, RemoveSplices
  <2> QED
    BY <2>2 DEF o
<1> DEFINE r == RemoveSpan(d, p, q)
<1>11. r = Parts(HeaderCells(x), Controllers(x), Len(x.vms), VmText(x), n, Text(ServiceCode, ss))
  BY <1>4, <1>6, <1>8, <1>10
<1> HIDE DEF r, n
<1>12. y \in Contents /\ Patch(r, SvcPos(x), <<Len(ss)>>) = Written(y)
  BY <1>1, <1>8, <1>11, ServicesRecounted
<1> QED
  BY <1>8, <1>9, <1>12 DEF r, n

\* A service written over another, in its place (update_service).
LEMMA ServiceReplaced ==
  ASSUME NEW x \in Contents, NEW d, d = Written(x), NEW i, i \in 1..Len(x.services),
         NEW p, p = ServiceStart(x, i), NEW q, q = p + ServiceSpace(x.services[i]),
         NEW v \in Service,
         NEW ss, ss = Exchange(x.services, i, <<v>>), NEW y, y = [x EXCEPT !.services = ss]
  PROVE  /\ y \in Contents /\ ss \in Seq(Service) /\ Len(ss) = Len(x.services)
         /\ ReplaceSpan(d, p, q, ServiceSpace(v), ServiceBytes(v)) = Written(y)
<1> DEFINE m == x.services[i]
           e == ServiceBytes(m)
           f == ServiceBytes(v)
           o == <<v>>
           u == 0
           w == ServiceSpace(m)
           n == Len(x.services)
<1>1. x.services \in Seq(Service) /\ m \in Service /\ n \in Nat
  BY ContentsTypes, ElementOfSeq
<1>2. Cells(e) /\ Span(e, u, w) /\ w = Len(e) /\ Cells(f) /\ Len(f) = ServiceSpace(v)
  BY <1>1, ServiceWritten
<1>3. o \in Seq(Service) /\ Text(ServiceCode, o) = f /\ Len(o) = 1
  <2>1. Text(ServiceCode, o) = ServiceCode[v]
    BY Codings, TextOne
  <2>2. ServiceCode[v] = f
    BY ServiceWritten
  <2> QED
    BY <2>1, <2>2
<1>4. ss = Exchange(x.services, i, o) /\ q = p + w /\ p = ServiceStart(x, i)
  OBVIOUS
<1>5. d \in Seq(Nat) /\ p \in Nat
  BY WrittenHeld, ServicesFound
<1>6. p + u = p
  BY <1>5
<1> HIDE DEF o, w, f
<1>7. Spliced(e, u, w, f) = Text(ServiceCode, o)
  <2>1. Spliced(e, 0, Len(e), f) = f
    BY <1>2, SpliceAll
  <2> QED
    BY <1>2, <1>3, <2>1
<1> HIDE DEF e, u
<1>8. /\ ss \in Seq(Service) /\ Span(d, p + u, p + w)
      /\ Spliced(d, p + u, p + w, f)
           = Parts(HeaderCells(x), Controllers(x), Len(x.vms), VmText(x), n, Text(ServiceCode, ss))
  <2>1. ServiceEdit(x, d, i, o, u, w, f)
    BY <1>2, <1>3, <1>7 DEF e, ServiceEdit
  <2> HIDE DEF m, n
  <2>2. /\ Exchange(x.services, i, o) \in Seq(Service)
        /\ Span(d, ServiceStart(x, i) + u, ServiceStart(x, i) + w)
        /\ Spliced(d, ServiceStart(x, i) + u, ServiceStart(x, i) + w, f)
             = Parts(HeaderCells(x), Controllers(x), Len(x.vms), VmText(x),
                     Len(x.services), Text(ServiceCode, Exchange(x.services, i, o)))
    BY <2>1, ServiceExchanged
  <2> QED
    BY <1>4, <2>2 DEF n
<1>9. Len(ss) = n
  <2> DEFINE s == x.services
             z == Len(ss)
  <2>1. Exchanges(Service, s, i, o) /\ z = Len(Exchange(s, i, o)) /\ n = Len(s)
    BY <1>1, <1>3, <1>4 DEF Exchanges
  <2> HIDE DEF s, z
  <2>2. z = Len(s) - 1 + Len(o)
    BY <2>1, ExchangeLength
  <2>3. z = n
    BY <1>1, <1>3, <2>1, <2>2
  <2> QED
    BY <2>3 DEF z
<1>10. ReplaceSpan(d, p, q, ServiceSpace(v), f) = Spliced(d, p, q, f)
  <2>1. p \in 0..Len(d) /\ q \in p..Len(d)
    BY <1>4, <1>6, <1>8 DEF Span
  <2>2. f \in Seq(Nat)
    BY <1>2 DEF Cells
  <2>3. ReplaceSpan(d, p, q, Len(f), f) = Spliced(d, p, q, f)
    BY <1>5, <2>1, <2>2, ReplaceSplices
  <2> QED
    BY <1>2, <2>3
<1> DEFINE r == ReplaceSpan(d, p, q, ServiceSpace(v), f)
<1>11. r = Parts(HeaderCells(x), Controllers(x), Len(x.vms), VmText(x), n, Text(ServiceCode, ss))
  BY <1>4, <1>6, <1>8, <1>10
<1>12. y \in Contents /\ Written(y) = r
  <2>1. Written(y) = Parts(HeaderCells(x), Controllers(x), Len(x.vms), VmText(x), Len(ss), Text(ServiceCode, ss))
        /\ y \in Contents
    BY <1>8, WrittenServices
  <2> QED
    BY <1>9, <1>11, <2>1
<1> QED
  BY <1>8, <1>9, <1>12 DEF r, f, n

\* Two cells, one after the other.
LEMMA Pair == ASSUME NEW t \in Nat, NEW w \in Nat PROVE <<t, w>> = <<t>> \o <<w>>
<1> DEFINE a == <<t>>
           b == <<w>>
           r == a \o b
           s == <<t, w>>
<1>1. /\ a \in Seq(Nat) /\ Len(a) = 1 /\ a[1] = t
      /\ b \in Seq(Nat) /\ Len(b) = 1 /\ b[1] = w
  OBVIOUS
<1> HIDE DEF a, b
<1>2. /\ r \in Seq(Nat) /\ Len(r) = Len(a) + Len(b)
      /\ \A i \in 1..Len(a) : r[i] = a[i]
      /\ \A i \in 1..Len(b) : r[Len(a) + i] = b[i]
  BY <1>1, Joined
<1> HIDE DEF r
<1>3. Len(r) = 2 /\ r[1] = t /\ r[2] = w
  <2>1. r[1] = a[1] /\ r[Len(a) + 1] = b[1]
    BY <1>1, <1>2
  <2> QED
    BY <1>1, <1>2, <2>1
<1>4. s \in Seq(Nat) /\ Len(s) = 2 /\ s[1] = t /\ s[2] = w
  OBVIOUS
<1> HIDE DEF s
<1>5. ASSUME NEW i \in 1..Len(s) PROVE s[i] = r[i]
  <2>1. i = 1 \/ i = 2
    BY <1>4
  <2> QED
    BY <1>3, <1>4, <2>1
<1>6. s = r
  BY <1>2, <1>3, <1>4, <1>5, SameCells
<1> QED
  BY <1>6 DEF s, r, a, b

\* The word of flags is one cell of a method.
LEMMA FlagsSpliced ==
  ASSUME NEW m \in Method, NEW flags \in SUBSET Flag,
         NEW c, c = [m EXCEPT !.flags = flags],
         NEW u, u = 1 + Len(Spelling[m.fragment]) + 1
  PROVE  /\ c \in Method /\ Span(VmBytes(m), u, u + 1)
         /\ WordOf(flags) \in Nat
         /\ Spliced(VmBytes(m), u, u + 1, <<WordOf(flags)>>) = VmBytes(c)
<1> DEFINE a == Spelling[m.fragment]
           b == m.key
           t == TypeTag[m.type]
           w == WordOf(m.flags)
           z == WordOf(flags)
           P == Prefixed(a)
           K == Prefixed(b)
           T == <<t>>
           W == <<w>>
           Z == <<z>>
           l == Join(P, T)
<1>1. /\ c \in Method /\ c.fragment = m.fragment /\ c.type = m.type /\ c.key = m.key
      /\ c.flags = flags
  BY DEF Method
<1>2. a \in Seq(Nat) /\ b \in Seq(Nat) /\ t \in Nat /\ w \in Nat
  BY MethodCells
<1>3. z \in Nat
  BY FlagsReadBack
<1>4. VmBytes(m) = (P \o <<t, w>>) \o K
  BY DEF VmBytes
<1>5. VmBytes(c) = (P \o <<t, z>>) \o K
  BY <1>1 DEF VmBytes
<1>6. P \in Seq(Nat) /\ Len(P) = 1 + Len(a) /\ K \in Seq(Nat) /\ Len(a) \in Nat
  BY <1>2, PrefixedType, LenProperties
<1> HIDE DEF a, b, t, w, z, P, K
<1>7. /\ T \in Seq(Nat) /\ Len(T) = 1 /\ W \in Seq(Nat) /\ Len(W) = 1
      /\ Z \in Seq(Nat) /\ Len(Z) = 1
      /\ <<t, w>> = T \o W /\ <<t, z>> = T \o Z
  <2>1. <<t, w>> = T \o W
    BY <1>2, Pair
  <2>2. <<t, z>> = T \o Z
    BY <1>2, <1>3, Pair
  <2> QED
    BY <1>2, <1>3, <2>1, <2>2
<1> HIDE DEF T, W, Z
<1>8. P \o <<t, w>> = Join(l, W) /\ P \o <<t, z>> = Join(l, Z)
  <2>1. (P \o T) \o W = P \o (T \o W)
    BY <1>6, <1>7, JoinedThrice
  <2>2. (P \o T) \o Z = P \o (T \o Z)
    BY <1>6, <1>7, JoinedThrice
  <2> QED
    BY <1>7, <2>1, <2>2 DEF Join
<1>9. Cells(l) /\ Len(l) = Len(P) + Len(T) /\ Len(l) \in Nat
  BY <1>6, <1>7, JoinedCells DEF Cells
<1>10. u = Len(l) /\ u \in Nat
  BY <1>6, <1>7, <1>9 DEF a
<1> HIDE DEF l
<1>11. Cells(W) /\ Cells(Z) /\ Cells(K)
  BY <1>6, <1>7 DEF Cells
<1>12. Spliced(Join(Join(l, W), K), Len(l), Len(l) + Len(W), Z) = Join(Join(l, Z), K)
  <2>1. FourCells(l, W, K, Z)
    BY <1>9, <1>11 DEF FourCells
  <2> QED
    BY <2>1, SpliceMiddle
<1>13. VmBytes(m) = Join(Join(l, W), K) /\ VmBytes(c) = Join(Join(l, Z), K)
  BY <1>4, <1>5, <1>8 DEF Join
<1>14. Spliced(VmBytes(m), u, u + 1, Z) = VmBytes(c)
  BY <1>7, <1>10, <1>12, <1>13
<1>15. Span(VmBytes(m), u, u + 1)
  <2> DEFINE g == Join(l, W)
  <2>1. Cells(g) /\ Len(g) = Len(l) + Len(W)
    BY <1>9, <1>11, JoinedCells
  <2> HIDE DEF g
  <2>2. Len(Join(g, K)) = Len(g) + Len(K) /\ Len(K) \in Nat
    BY <1>11, <2>1, JoinedCells
  <2>3. VmBytes(m) = Join(g, K)
    BY <1>13 DEF g
  <2> DEFINE y == VmBytes(m)
  <2>4. Len(y) = u + 1 + Len(K)
    BY <1>7, <1>10, <2>1, <2>2, <2>3
  <2> HIDE DEF y
  <2> QED
    BY <1>10, <2>2, <2>4 DEF Span, y
<1> QED
  BY <1>1, <1>3, <1>14, <1>15 DEF Z, z

\* A method re-flagged in its place (set_verification_method_flags).
LEMMA MethodReflagged ==
  ASSUME NEW x \in Contents, NEW d, d = Written(x), NEW i, i \in 1..Len(x.vms),
         NEW flags \in SUBSET Flag,
         NEW c, c = [x.vms[i] EXCEPT !.flags = flags],
         NEW ms, ms = Exchange(x.vms, i, <<c>>), NEW y, y = [x EXCEPT !.vms = ms]
  PROVE  /\ y \in Contents /\ ms \in Seq(Method) /\ Len(ms) = Len(x.vms) /\ c \in Method
         /\ Patch(d, FlagsPos(d, VmStart(x, i)), <<WordOf(flags)>>) = Written(y)
<1> DEFINE m == x.vms[i]
           o == <<c>>
           u == 1 + Len(Spelling[m.fragment]) + 1
           v == u + 1
           f == <<WordOf(flags)>>
           n == Len(x.vms)
           p == VmStart(x, i)
           q == FlagsPos(d, p)
<1>1. x.vms \in Seq(Method) /\ m \in Method /\ n \in Nat
  BY ContentsTypes, ElementOfSeq
<1>2. /\ c \in Method /\ Span(VmBytes(m), u, v) /\ WordOf(flags) \in Nat
      /\ Spliced(VmBytes(m), u, v, f) = VmBytes(c)
  BY <1>1, FlagsSpliced
<1>3. o \in Seq(Method) /\ Text(VmCode, o) = VmBytes(c) /\ Len(o) = 1
  <2>1. Text(VmCode, o) = VmCode[c]
    BY <1>2, Codings, TextOne
  <2>2. VmCode[c] = VmBytes(c)
    BY <1>2, MethodWritten
  <2> QED
    BY <1>2, <2>1, <2>2
<1>4. Cells(f) /\ Len(f) = 1
  BY <1>2, OneCell
<1>5. d \in Seq(Nat) /\ p \in Nat /\ q = p + u
  <2>1. d \in Seq(Nat)
    BY WrittenHeld
  <2>2. p \in Nat /\ q = p + 1 + Len(Spelling[m.fragment]) + 1
    BY VmsFound
  <2>3. Len(Spelling[m.fragment]) \in Nat
    BY <1>1, MethodCells, LenProperties
  <2> DEFINE l == Len(Spelling[m.fragment])
  <2>4. q = p + 1 + l + 1 /\ u = 1 + l + 1 /\ p \in Nat /\ l \in Nat
    BY <2>2, <2>3
  <2> HIDE DEF l, p, q, u
  <2>5. q = p + u /\ p \in Nat
    BY <2>4
  <2> QED
    BY <2>1, <2>5
<1>6. u \in Nat /\ v = u + 1
  <2>1. Len(Spelling[m.fragment]) \in Nat
    BY <1>1, MethodCells, LenProperties
  <2> QED
    BY <2>1
<1> HIDE DEF u, v, f, o, n, q
<1>7. /\ ms \in Seq(Method) /\ Span(d, p + u, p + v)
      /\ Spliced(d, p + u, p + v, f)
           = Parts(HeaderCells(x), Controllers(x), n, Text(VmCode, ms), Len(x.services), ServiceText(x))
  <2>1. MethodEdit(x, d, i, o, u, v, f)
    BY <1>2, <1>3, <1>4 DEF MethodEdit
  <2>2. /\ Exchange(x.vms, i, o) \in Seq(Method)
        /\ Span(d, VmStart(x, i) + u, VmStart(x, i) + v)
        /\ Spliced(d, VmStart(x, i) + u, VmStart(x, i) + v, f)
             = Parts(HeaderCells(x), Controllers(x), Len(x.vms), Text(VmCode, Exchange(x.vms, i, o)),
                     Len(x.services), ServiceText(x))
    BY <2>1, MethodExchanged
  <2> QED
    BY <2>2 DEF n, o
<1> HIDE DEF p
<1>8. Len(ms) = n
  <2> DEFINE s == x.vms
             z == Len(ms)
  <2>1. Exchanges(Method, s, i, o) /\ z = Len(Exchange(s, i, o)) /\ n = Len(s)
    BY <1>1, <1>3 DEF Exchanges, o, n
  <2> HIDE DEF s, z
  <2>2. z = Len(s) - 1 + Len(o)
    BY <2>1, ExchangeLength
  <2>3. z = n
    BY <1>1, <1>3, <2>1, <2>2
  <2> QED
    BY <2>3 DEF z
<1>9. Patch(d, q, f) = Spliced(d, p + u, p + v, f)
  <2>1. q \in 0..Len(d) /\ q + 1 \in q..Len(d) /\ p + v = q + 1
    BY <1>5, <1>6, <1>7 DEF Span
  <2>2. f \in Seq(Nat) /\ q + Len(f) = q + 1 /\ q + Len(f) <= Len(d)
    <3>1. q + 1 <= Len(d)
      BY <2>1
    <3> QED
      BY <1>4, <3>1 DEF Cells
  <2>3. Patch(d, q, f) = Spliced(d, q, q + Len(f), f)
    BY <1>5, <2>1, <2>2, PatchSplices
  <2> QED
    BY <1>5, <2>1, <2>2, <2>3
<1>10. /\ y \in Contents
       /\ Written(y) = Parts(HeaderCells(x), Controllers(x), Len(ms), Text(VmCode, ms),
                             Len(x.services), ServiceText(x))
  BY <1>7, WrittenVms
<1> QED
  BY <1>2, <1>7, <1>8, <1>9, <1>10 DEF n, f, p, q

\* The two sections of controllers written over (set_controllers).
ControllersEdit(x, d, ns, os, bytes) ==
  /\ x \in Contents /\ d = Written(x) /\ ns \in Seq(Subject) /\ os \in Seq(External)
  /\ bytes = ControllerBytes(ns, os)

Redirected(x, ns, os) == [x EXCEPT !.natives = ns, !.others = os]

\* One move exchanges both sections (set_controllers).
LEMMA ControllersReplaced ==
  ASSUME NEW x, NEW d, NEW ns, NEW os, NEW bytes, ControllersEdit(x, d, ns, os, bytes)
  PROVE  /\ Redirected(x, ns, os) \in Contents
         /\ ReplaceSpan(d, OffSections, VmPos(x), Len(bytes), bytes) = Written(Redirected(x, ns, os))
<1> DEFINE y == Redirected(x, ns, os)
<1>1. /\ x \in Contents /\ d = Written(x) /\ ns \in Seq(Subject) /\ os \in Seq(External)
      /\ bytes = ControllerBytes(ns, os) /\ y = [x EXCEPT !.natives = ns, !.others = os]
  BY DEF ControllersEdit, Redirected
<1> HIDE DEF y
<1> DEFINE h == HeaderCells(x)
           C == Controllers(x)
           n == Len(x.vms)
           M == VmText(x)
           k == Len(x.services)
           S == ServiceText(x)
           p == 2
           q == VmPos(x)
<1>2. IsParts(h, C, n, M, k, S) /\ d = Parts(h, C, n, M, k, S)
  BY <1>1, ContentsAreParts DEF Written
<1>3. p = Len(h) /\ q = Len(h) + Len(C)
  BY <1>1, ContentsTypes DEF VmPos
<1>4. bytes \in Seq(Nat) /\ Cells(bytes)
  BY <1>1, ControllersText DEF Cells
<1>5. y \in Contents /\ Written(y) = Parts(h, bytes, n, M, k, S)
  BY <1>1, WrittenControllers
<1>6. d \in Seq(Nat) /\ p \in 0..Len(d) /\ q \in p..Len(d)
  <2>1. q \in Nat /\ d \in Seq(Nat) /\ Len(d) = q + 1 + Len(M) + 1 + Len(S)
    <3>1. /\ VmPos(x) \in Nat /\ d \in Seq(Nat) /\ Len(d) = SvcPos(x) + 1 + Len(ServiceText(x))
      BY <1>1, WrittenHeld
    <3>2. SvcPos(x) = VmPos(x) + 1 + Len(M)
      BY DEF SvcPos
    <3> QED
      BY <3>1, <3>2
  <2>2. Len(M) \in Nat /\ Len(S) \in Nat /\ Len(C) \in Nat
    BY <1>1, ContentsTypes, LenProperties
  <2>3. q = 2 + Len(C)
    BY DEF VmPos
  <2> HIDE DEF q, M, S, C
  <2> QED
    BY <2>1, <2>2, <2>3
<1> HIDE DEF h, C, n, M, k, S, p, q
<1>7. ReplaceSpan(d, p, q, Len(bytes), bytes) = Spliced(d, p, q, bytes)
  BY <1>4, <1>6, ReplaceSplices
<1>8. Spliced(Parts(h, C, n, M, k, S), Len(h), Len(h) + Len(C), bytes) = Parts(h, bytes, n, M, k, S)
  BY <1>2, <1>4, ControllersSpliced
<1>9. ReplaceSpan(d, p, q, Len(bytes), bytes) = Written(y)
  BY <1>2, <1>3, <1>5, <1>7, <1>8
<1> QED
  BY <1>5, <1>9 DEF p, q, y, OffSections

\* The version is the first cell of the header.
LEMMA VersionPatched ==
  ASSUME NEW x \in Contents, NEW d, d = Written(x), NEW v \in Nat,
         NEW y, y = [x EXCEPT !.version = v]
  PROVE  y \in Contents /\ Patch(d, OffVersion, <<v>>) = Written(y)
<1> DEFINE h == HeaderCells(x)
           C == Controllers(x)
           n == Len(x.vms)
           M == VmText(x)
           k == Len(x.services)
           S == ServiceText(x)
           u == 0
           w == u + 1
           V == <<v>>
           O == <<x.version>>
           F == <<x.flag>>
<1>1. IsParts(h, C, n, M, k, S) /\ d = Parts(h, C, n, M, k, S)
  BY ContentsAreParts DEF Written
<1>2. y \in Contents /\ Written(y) = Parts(<<v, x.flag>>, C, n, M, k, S)
  BY WrittenVersion
<1>3. x.version \in Nat /\ x.flag \in Nat
  BY ContentsTypes
<1>4. h = Join(O, F) /\ <<v, x.flag>> = Join(V, F)
  <2>1. <<x.version, x.flag>> = O \o F
    BY <1>3, Pair
  <2>2. <<v, x.flag>> = V \o F
    BY <1>3, Pair
  <2> QED
    BY <2>1, <2>2 DEF Join, HeaderCells
<1>5. Cells(V) /\ Len(V) = 1 /\ Cells(O) /\ Len(O) = 1 /\ Cells(F) /\ Len(F) = 1
  BY <1>3, OneCell
<1>6. d \in Seq(Nat) /\ u \in 0..Len(d) /\ w <= Len(d) /\ Len(h) = 2
  <2>1. d \in Seq(Nat) /\ Len(d) = SvcPos(x) + 1 + Len(S) /\ SvcPos(x) \in Nat
    BY WrittenHeld
  <2>2. Len(S) \in Nat /\ Len(h) = 2
    BY ContentsTypes, LenProperties
  <2> HIDE DEF S, h
  <2> QED
    BY <2>1, <2>2
<1>7. u = 0 /\ w = 1 /\ u + Len(V) = w /\ u \in Nat
  BY <1>5
<1> HIDE DEF h, C, n, M, k, S, u, w, V, O, F
<1>8. Patch(d, u, V) = Spliced(d, u, u + Len(V), V)
  <2>1. u + Len(V) <= Len(d) /\ V \in Seq(Nat)
    BY <1>5, <1>6, <1>7 DEF Cells
  <2> QED
    BY <1>6, <2>1, PatchSplices
<1>9. Span(O, u, w) /\ Span(h, u, w)
  BY <1>5, <1>6, <1>7 DEF Span
<1>10. Spliced(O, u, w, V) = V
  <2>1. Spliced(O, 0, Len(O), V) = V
    BY <1>5, SpliceAll
  <2> QED
    BY <1>5, <1>7, <2>1
<1>11. Spliced(h, u, w, V) = Join(V, F)
  <2>1. Spliced(Join(O, F), u, w, V) = Join(Spliced(O, u, w, V), F)
    BY <1>5, <1>9, SpliceBefore
  <2> QED
    BY <1>4, <1>10, <2>1
<1>12. Spliced(Parts(h, C, n, M, k, S), u, w, V) = Parts(Spliced(h, u, w, V), C, n, M, k, S)
  BY <1>1, <1>5, <1>9, HeaderSpliced
<1>13. Patch(d, u, V) = Written(y)
  BY <1>1, <1>2, <1>4, <1>7, <1>8, <1>11, <1>12
<1> QED
  BY <1>2, <1>13 DEF u, V, OffVersion

\* The header after an update (touch).
Newer(x) == [x EXCEPT !.version = IF x.version < MaxVersion THEN x.version + 1 ELSE MaxVersion]

\* The counter goes up in place and nothing else does (touch).
LEMMA TouchedWritten ==
  ASSUME NEW x \in Contents, NEW d, d = Written(x)
  PROVE  Newer(x) \in Contents /\ Touched(d) = Written(Newer(x))
<1> DEFINE v == IF x.version < MaxVersion THEN x.version + 1 ELSE MaxVersion
<1>1. v \in Nat
  BY ContentsTypes, DocumentAssumption
<1>2. U32(d, OffVersion) = x.version
  BY SectionsFound
<1>3. Touched(d) = Patch(d, OffVersion, <<v>>) /\ Newer(x) = [x EXCEPT !.version = v]
  BY <1>2 DEF Touched, Newer
<1> HIDE DEF v
<1> QED
  BY <1>1, <1>3, VersionPatched

\* A new account is written with one method.
Founded(key) ==
  [version |-> 1, flag |-> 0, natives |-> <<>>, others |-> <<>>,
   vms |-> <<FoundingMethod(key)>>, services |-> <<>>]

\* The first bytes of an account are its founding document's (initialize).
LEMMA FoundedWritten ==
  ASSUME NEW key \in Key
  PROVE  Founded(key) \in Contents /\ InitialBytes(key) = Written(Founded(key))
<1> DEFINE m == FoundingMethod(key)
           x == Founded(key)
           e == VmBytes(m)
           C == ControllerBytes(<<>>, <<>>)
           a == <<1, 0>> \o C \o <<1>> \o e \o <<0>>
           ms == <<m>>
<1>1. m \in Method
  BY DocumentAssumption
  DEF FoundingMethod, Method, Material, VmType, Flag, ValidFlags, VmRelationship
<1>2. ms \in Seq(Method) /\ Len(ms) = 1 /\ Text(VmCode, ms) = e /\ e \in Seq(Nat)
  <2> HIDE DEF m
  <2>1. Text(VmCode, ms) = VmCode[m]
    BY <1>1, Codings, TextOne
  <2>2. VmCode[m] = e /\ Cells(e)
    BY <1>1, MethodWritten
  <2> QED
    BY <1>1, <2>1, <2>2 DEF Cells
<1>3. x \in Contents
  <2>1. x = [version |-> 1, flag |-> 0, natives |-> <<>>, others |-> <<>>,
             vms |-> ms, services |-> <<>>]
    BY DEF Founded
  <2> HIDE DEF ms, x
  <2> QED
    BY <1>2, <2>1 DEF Contents
<1>4. x.version = 1 /\ x.flag = 0 /\ x.natives = <<>> /\ x.others = <<>>
      /\ x.vms = ms /\ x.services = <<>>
  BY DEF Founded
<1> HIDE DEF x, ms, m, e
<1>5. ServiceText(x) = <<>> /\ VmText(x) = e /\ Controllers(x) = C /\ HeaderCells(x) = <<1, 0>>
  BY <1>2, <1>4, TextEmpty DEF ServiceText, VmText, Controllers, HeaderCells
<1>6. C \in Seq(Nat)
  <2> DEFINE o == <<>>
  <2>1. o \in Seq(Subject) /\ o \in Seq(External)
    OBVIOUS
  <2> HIDE DEF o
  <2>2. ControllerBytes(o, o) \in Seq(Nat)
    BY <2>1, ControllersText
  <2> QED
    BY <2>2 DEF o
<1> HIDE DEF C
<1>7. a \in Seq(Nat)
  <2> DEFINE h == <<1, 0>>
             N == <<1>>
             K == <<0>>
  <2>1. h \in Seq(Nat) /\ N \in Seq(Nat) /\ K \in Seq(Nat)
    OBVIOUS
  <2> HIDE DEF h, N, K
  <2>2. h \o C \in Seq(Nat)
    BY <1>6, <2>1, Joined
  <2>3. (h \o C) \o N \in Seq(Nat)
    BY <2>1, <2>2, Joined
  <2>4. ((h \o C) \o N) \o e \in Seq(Nat)
    BY <1>2, <2>3, Joined
  <2>5. (((h \o C) \o N) \o e) \o K \in Seq(Nat)
    BY <2>1, <2>4, Joined
  <2> QED
    BY <2>5 DEF h, N, K
<1>8. Len(x.vms) = 1 /\ Len(x.services) = 0
  BY <1>2, <1>4
<1>9. Written(x) = a \o <<>>
  <2> DEFINE h == <<1, 0>>
             o == <<>>
             n == 1
             k == 0
  <2>1. a \o o = Parts(h, C, n, e, k, o)
    BY DEF Parts
  <2>2. /\ HeaderCells(x) = h /\ Controllers(x) = C /\ Len(x.vms) = n /\ VmText(x) = e
        /\ Len(x.services) = k /\ ServiceText(x) = o
    BY <1>5, <1>8
  <2> HIDE DEF h, o, n, k, a
  <2>3. Written(x) = Parts(h, C, n, e, k, o)
    BY <2>2 DEF Written
  <2>4. Written(x) = a \o o
    BY <2>1, <2>3
  <2> QED
    BY <2>4 DEF o
<1>10. InitialBytes(key) = a
  BY DEF InitialBytes, C, e, m
<1> HIDE DEF a
<1>11. a \o <<>> = a
  BY <1>7, ConcatEmptySeq
<1> QED
  BY <1>3, <1>9, <1>10, <1>11 DEF x

\* The account of a deactivated document is six cells.
Emptied(x) ==
  [version |-> x.version, flag |-> 1, natives |-> <<>>, others |-> <<>>,
   vms |-> <<>>, services |-> <<>>]

\* It is written in six cells.
LEMMA EmptiedCells ==
  ASSUME NEW x \in Contents, NEW e, e = Written(Emptied(x))
  PROVE  /\ Emptied(x) \in Contents /\ e \in Seq(Nat) /\ Len(e) = 6
         /\ e[1] = x.version /\ e[2] = 1 /\ e[3] = 0 /\ e[4] = 0 /\ e[5] = 0 /\ e[6] = 0
<1> DEFINE y == Emptied(x)
           o == <<>>
           C == Controllers(y)
<1>1. x.version \in Nat
  BY ContentsTypes
<1>2. o \in Seq(Subject) /\ o \in Seq(External) /\ o \in Seq(Method) /\ o \in Seq(Service)
      /\ Len(o) = 0 /\ \A c : Text(c, o) = o
  BY TextEmpty
<1>3. y = [version |-> x.version, flag |-> 1, natives |-> o, others |-> o, vms |-> o, services |-> o]
  BY DEF Emptied
<1> HIDE DEF y, o
<1>4. y \in Contents /\ y.version = x.version /\ y.flag = 1 /\ y.natives = o /\ y.others = o
      /\ y.vms = o /\ y.services = o
  BY <1>1, <1>2, <1>3 DEF Contents
<1>5. Len(VmText(y)) = 0 /\ Len(ServiceText(y)) = 0
  BY <1>2, <1>4 DEF VmText, ServiceText
<1>6. AddressLen * Len(o) = 0 /\ AddressLen * 0 = 0
  BY <1>2, LayoutAssumption
<1>7. Len(C) = 2
  <2>1. Len(ControllerBytes(o, o)) = 1 + AddressLen * Len(o) + 1 + Len(Text(OtherCode, o))
    BY <1>2, ControllersText
  <2>2. C = ControllerBytes(o, o)
    BY <1>4 DEF Controllers
  <2> DEFINE n == AddressLen * Len(o)
             k == Len(Text(OtherCode, o))
  <2>3. n = 0 /\ k = 0
    BY <1>2, <1>6
  <2> HIDE DEF n, k, C
  <2>4. Len(C) = 1 + n + 1 + k
    BY <2>1, <2>2 DEF n, k
  <2> QED
    BY <2>3, <2>4
<1> HIDE DEF C
<1>8. VmPos(y) = 4 /\ SvcPos(y) = 5
  BY <1>5, <1>7 DEF VmPos, SvcPos, C
<1>9. e = Written(y)
  BY DEF y
<1>10. /\ e \in Seq(Nat) /\ Len(e) = SvcPos(y) + 1 + Len(ServiceText(y))
       /\ Holds(e, 2, C)
       /\ Holds(e, VmPos(y), <<Len(y.vms)>>) /\ Holds(e, SvcPos(y), <<Len(y.services)>>)
  BY <1>4, <1>9, WrittenHeld DEF C
<1>11. Len(e) = 6
  BY <1>5, <1>8, <1>10
<1>12. U32(e, 0) = x.version /\ U32(e, 1) = 1
  BY <1>4, <1>9, SectionsFound DEF OffVersion, OffDeactivated
<1>13. U32(e, 4) = 0 /\ U32(e, 5) = 0
  <2>1. Holds(e, 4, <<0>>) /\ Holds(e, 5, <<0>>)
    BY <1>2, <1>4, <1>8, <1>10
  <2> DEFINE p == 4
             q == 5
             n == 0
  <2>2. p \in Nat /\ q \in Nat /\ n \in Nat /\ Holds(e, p, <<n>>) /\ Holds(e, q, <<n>>)
    BY <2>1
  <2> HIDE DEF p, q, n
  <2>3. U32(e, p) = n /\ U32(e, q) = n
    BY <1>10, <2>2, NumberHeld
  <2> QED
    BY <2>3 DEF p, q, n
<1>14. U32(e, 2) = 0 /\ U32(e, 3) = 0
  <2> DEFINE p == 2
             q == p + 1 + AddressLen * Len(o)
             n == Len(o)
  <2>1. p \in Nat /\ Holds(e, p, ControllerBytes(o, o)) /\ n \in Nat
    BY <1>2, <1>4, <1>10 DEF Controllers, C
  <2>2. q = 3
    BY <1>6
  <2> HIDE DEF p
  <2>3. q \in Nat /\ Holds(e, p, <<Len(o)>>) /\ Holds(e, q, <<Len(o)>>)
    BY <1>2, <1>10, <2>1, ControllersHeld
  <2> HIDE DEF q, n
  <2>4. U32(e, p) = n /\ U32(e, q) = n
    <3>1. Holds(e, p, <<n>>) /\ Holds(e, q, <<n>>) /\ n \in Nat
      BY <2>1, <2>3 DEF n
    <3> QED
      BY <1>10, <2>1, <2>3, <3>1, NumberHeld
  <2> QED
    BY <1>2, <2>2, <2>4 DEF p, n
<1>15. /\ e[1] = x.version /\ e[2] = 1 /\ e[3] = 0 /\ e[4] = 0 /\ e[5] = 0 /\ e[6] = 0
  BY <1>11, <1>12, <1>13, <1>14 DEF U32
<1> QED
  BY <1>4, <1>10, <1>11, <1>15 DEF y

\* Every written account has as many.
LEMMA SixCells ==
  ASSUME NEW x \in Contents, NEW d, d = Written(x)
  PROVE  d \in Seq(Nat) /\ Len(d) >= 6 /\ d[1] = x.version /\ x.version \in Nat
<1> DEFINE n == AddressLen * Len(x.natives)
           a == Len(Text(OtherCode, x.others))
           b == Len(VmText(x))
           c == Len(ServiceText(x))
<1>1. n \in Nat /\ a \in Nat /\ b \in Nat /\ c \in Nat
  <2>1. n \in Nat
    BY ContentsTypes, LayoutAssumption
  <2>2. a \in Nat
    BY ContentsTypes, Codings, TextType
  <2> QED
    BY <2>1, <2>2, ContentsTypes, LenProperties
<1>2. Len(Controllers(x)) = 1 + n + 1 + a
  BY ContentsTypes, ControllersText DEF Controllers
<1>3. d \in Seq(Nat) /\ Len(d) = SvcPos(x) + 1 + c /\ U32(d, 0) = x.version /\ x.version \in Nat
  BY WrittenHeld, SectionsFound, ContentsTypes DEF OffVersion
<1>4. SvcPos(x) = 2 + Len(Controllers(x)) + 1 + b
  BY DEF SvcPos, VmPos
<1> HIDE DEF n, a, b, c
<1>5. Len(d) >= 6 /\ 0 < Len(d)
  BY <1>1, <1>2, <1>3, <1>4
<1>6. d[0 + 1] = x.version
  BY <1>3, <1>5 DEF U32
<1> QED
  BY <1>3, <1>5, <1>6

\* The flag and the four counts, then the cut (deactivate).
LEMMA EmptiedWritten ==
  ASSUME NEW x \in Contents, NEW d, d = Written(x)
  PROVE  /\ Emptied(x) \in Contents
         /\ Resize(Patch(d, OffDeactivated, <<1, 0, 0, 0, 0>>), BaseSpace) = Written(Emptied(x))
<1> DEFINE t == <<1, 0, 0, 0, 0>>
           c == Patch(d, 1, t)
           r == Resize(c, 6)
           e == Written(Emptied(x))
<1>1. d \in Seq(Nat) /\ Len(d) >= 6 /\ d[1] = x.version /\ x.version \in Nat /\ Len(d) \in Nat
  BY SixCells, LenProperties
<1>2. t \in Seq(Nat) /\ Len(t) = 5 /\ t[1] = 1 /\ t[2] = 0 /\ t[3] = 0 /\ t[4] = 0 /\ t[5] = 0
  OBVIOUS
<1> HIDE DEF t
<1>3. /\ c \in Seq(Nat) /\ Len(c) = Len(d)
      /\ \A i \in 1..Len(d) : c[i] = IF i \in 1 + 1 .. 1 + Len(t) THEN t[i - 1] ELSE d[i]
  <2> DEFINE at == 1
  <2>1. at \in Nat /\ at + Len(t) <= Len(d)
    BY <1>1, <1>2
  <2> HIDE DEF at
  <2>2. d \in Seq(Nat) /\ t \in Seq(Nat)
    BY <1>1, <1>2
  <2>3. /\ Patch(d, at, t) \in Seq(Nat) /\ Len(Patch(d, at, t)) = Len(d)
        /\ \A i \in 1..Len(d) : Patch(d, at, t)[i] = IF i \in at + 1 .. at + Len(t) THEN t[i - at] ELSE d[i]
    BY <2>1, <2>2, Patched, ZenonT(20)
  <2> QED
    BY <2>3 DEF at
<1> HIDE DEF c
<1>4. c[1] = x.version /\ c[2] = 1 /\ c[3] = 0 /\ c[4] = 0 /\ c[5] = 0 /\ c[6] = 0
  <2>1. ASSUME NEW i \in 2..6 PROVE c[i] = t[i - 1]
    <3> DEFINE n == Len(d)
    <3>a. n >= 6 /\ n \in Nat /\ Len(t) = 5
      BY <1>1, <1>2
    <3> HIDE DEF n
    <3>b. i \in 1..n /\ i \in 1 + 1 .. 1 + 5
      BY <3>a
    <3>1. i \in 1..Len(d) /\ i \in 1 + 1 .. 1 + Len(t)
      BY <3>a, <3>b DEF n
    <3> QED
      BY <1>3, <3>1
  <2>2. c[1] = d[1]
    BY <1>1, <1>2, <1>3
  <2>3. c[2] = t[1] /\ c[3] = t[2] /\ c[4] = t[3] /\ c[5] = t[4] /\ c[6] = t[5]
    <3>1. c[2] = t[2 - 1] /\ c[3] = t[3 - 1] /\ c[4] = t[4 - 1] /\ c[5] = t[5 - 1] /\ c[6] = t[6 - 1]
      BY <2>1
    <3> QED
      BY <3>1
  <2> QED
    BY <1>1, <1>2, <2>2, <2>3
<1>5. /\ r \in Seq(Nat) /\ Len(r) = 6
      /\ \A i \in 1..6 : r[i] = IF i <= Len(c) THEN c[i] ELSE 0
  <2> DEFINE n == 6
  <2>1. n \in Nat
    OBVIOUS
  <2> HIDE DEF n
  <2>2. /\ Resize(c, n) \in Seq(Nat) /\ Len(Resize(c, n)) = n
        /\ \A i \in 1..n : Resize(c, n)[i] = IF i <= Len(c) THEN c[i] ELSE 0
    BY <1>3, <2>1, Resized
  <2> QED
    BY <2>2 DEF n
<1> HIDE DEF r, e
<1>6. /\ Emptied(x) \in Contents /\ e \in Seq(Nat) /\ Len(e) = 6
      /\ e[1] = x.version /\ e[2] = 1 /\ e[3] = 0 /\ e[4] = 0 /\ e[5] = 0 /\ e[6] = 0
  BY EmptiedCells DEF e
<1>7. ASSUME NEW i \in 1..Len(r) PROVE r[i] = e[i]
  <2>1. r[i] = c[i]
    <3> DEFINE n == Len(c)
    <3>1. n >= 6 /\ n \in Nat /\ Len(r) = 6
      BY <1>1, <1>3, <1>5
    <3> HIDE DEF n
    <3>2. i \in 1..6 /\ i <= n
      BY <3>1
    <3> QED
      BY <1>5, <3>2 DEF n
  <2>2. i = 1 \/ i = 2 \/ i = 3 \/ i = 4 \/ i = 5 \/ i = 6
    BY <1>5
  <2> QED
    BY <1>4, <1>6, <2>1, <2>2
<1>8. r = e
  BY <1>5, <1>6, <1>7, SameCells
<1>9. BaseSpace = 6 /\ OffDeactivated = 1
  BY DEF BaseSpace, OffSections, OffDeactivated
<1> QED
  BY <1>6, <1>8, <1>9 DEF r, c, t, e

-----------------------------------------------------------------------------
(* The document that is read *)

\* The document that is written.
DocumentOf(x) ==
  [state    |-> IF x.flag = 0 THEN "active" ELSE "deactivated",
   version  |-> x.version,
   natives  |-> x.natives,
   others   |-> x.others,
   vms      |-> Range(x.vms),
   services |-> Range(x.services)]

\* What DidView::parse reads from a written account is what was written.
LEMMA DocumentRead ==
  ASSUME NEW x \in Contents, NEW d, d = Written(x)
  PROVE  DocumentIn(d) = DocumentOf(x)
<1>1. Parses(d) /\ d # <<>> /\ U32(d, OffVersion) = x.version /\ U32(d, OffDeactivated) = x.flag
  BY SectionsFound
<1>2. Vms(d) = x.vms
  BY VmsFound
<1>3. Services(d) = x.services
  BY ServicesFound
<1>4. Natives(d) = x.natives /\ Others(d) = x.others
  BY ControllersRead
<1>5. DocumentIn(d) =
        [state    |-> IF U32(d, OffDeactivated) = 0 THEN "active" ELSE "deactivated",
         version  |-> U32(d, OffVersion),
         natives  |-> Natives(d),
         others   |-> Others(d),
         vms      |-> Range(Vms(d)),
         services |-> Range(Services(d))]
  BY <1>1 DEF DocumentIn
<1> QED
  BY <1>1, <1>2, <1>3, <1>4, <1>5 DEF DocumentOf

\* Serialized writes the methods as they were written,
LEMMA TextOfMethods ==
  ASSUME NEW ms \in Seq(Method)
  PROVE  FlattenSeq([i \in DOMAIN ms |-> VmBytes(ms[i])]) = Text(VmCode, ms)
<1>1. DOMAIN ms = 1..Len(ms)
  OBVIOUS
<1>2. \A i \in DOMAIN ms : VmCode[ms[i]] = VmBytes(ms[i])
  BY <1>1, ElementOfSeq DEF VmCode
<1>3. Coded(VmCode, ms) = [i \in DOMAIN ms |-> VmBytes(ms[i])]
  BY <1>1, <1>2 DEF Coded
<1> QED
  BY <1>3 DEF Text

\* and the services.
LEMMA TextOfServices ==
  ASSUME NEW ss \in Seq(Service)
  PROVE  FlattenSeq([i \in DOMAIN ss |-> ServiceBytes(ss[i])]) = Text(ServiceCode, ss)
<1>1. DOMAIN ss = 1..Len(ss)
  OBVIOUS
<1>2. \A i \in DOMAIN ss : ServiceCode[ss[i]] = ServiceBytes(ss[i])
  BY <1>1, ElementOfSeq DEF ServiceCode
<1>3. Coded(ServiceCode, ss) = [i \in DOMAIN ss |-> ServiceBytes(ss[i])]
  BY <1>1, <1>2 DEF Coded
<1> QED
  BY <1>3 DEF Text

\* A written account is the serialization of what is read from it.
LEMMA SerializedBack ==
  ASSUME NEW x \in Contents, NEW d, d = Written(x)
  PROVE  Parses(d) /\ d = Serialized(d)
<1> DEFINE ms == x.vms
           ss == x.services
           a == <<x.version, x.flag>> \o ControllerBytes(x.natives, x.others)
<1>1. Parses(d) /\ U32(d, OffVersion) = x.version /\ U32(d, OffDeactivated) = x.flag
  BY SectionsFound
<1>2. Vms(d) = ms
  BY VmsFound
<1>3. Services(d) = ss
  BY ServicesFound
<1>4. Natives(d) = x.natives /\ Others(d) = x.others
  BY ControllersRead
<1>5. ms \in Seq(Method) /\ ss \in Seq(Service)
  BY ContentsTypes
<1>6. Serialized(d) = a \o <<Len(ms)>> \o FlattenSeq([i \in DOMAIN ms |-> VmBytes(ms[i])])
                        \o <<Len(ss)>> \o FlattenSeq([i \in DOMAIN ss |-> ServiceBytes(ss[i])])
  BY <1>1, <1>2, <1>3, <1>4, Zenon DEF Serialized
<1>7. FlattenSeq([i \in DOMAIN ms |-> VmBytes(ms[i])]) = VmText(x)
  BY <1>5, TextOfMethods DEF VmText
<1>8. FlattenSeq([i \in DOMAIN ss |-> ServiceBytes(ss[i])]) = ServiceText(x)
  BY <1>5, TextOfServices DEF ServiceText
<1>9. d = a \o <<Len(ms)>> \o VmText(x) \o <<Len(ss)>> \o ServiceText(x)
  BY DEF Written, Parts, HeaderCells, Controllers
<1> HIDE DEF a
<1>10. Serialized(d) = d
  BY <1>6, <1>7, <1>8, <1>9, ZenonT(20)
<1> QED
  BY <1>1, <1>10

\* Fragments name one entry each.
Distinct(s) == \A i, j \in 1..Len(s) : s[i].fragment = s[j].fragment => i = j

\* The members of T are entries with a fragment.
Named(T, F) == \A e \in T : e.fragment \in F

\* The entries of a list are what it has at its places.
LEMMA RangeOfList ==
  ASSUME NEW T, NEW s, s \in Seq(T)
  PROVE  /\ \A e : e \in Range(s) <=> \E j \in 1..Len(s) : s[j] = e
         /\ Range(s) \subseteq T
<1>1. DOMAIN s = 1..Len(s)
  OBVIOUS
<1>2. \A j \in 1..Len(s) : s[j] \in T
  BY ElementOfSeq
<1> QED
  BY <1>1, <1>2 DEF Range

\* The names of a list are those of its entries, in their order.
LEMMA NamesOfList ==
  ASSUME NEW T, NEW F, Named(T, F), NEW s, s \in Seq(T)
  PROVE  /\ Names(s) \in Seq(F) /\ Len(Names(s)) = Len(s)
         /\ \A j \in 1..Len(s) : Names(s)[j] = s[j].fragment
<1> DEFINE n == Len(s)
<1>1. n \in Nat /\ DOMAIN s = 1..n
  BY LenProperties
<1>2. \A j \in 1..n : s[j] \in T
  BY ElementOfSeq
<1>3. \A j \in 1..n : s[j].fragment \in F
  BY <1>2 DEF Named
<1>4. Names(s) = [j \in 1..n |-> s[j].fragment]
  BY <1>1 DEF Names
<1> HIDE DEF n
<1>5. Names(s) \in [1..n -> F]
  BY <1>3, <1>4
<1>6. Names(s) \in Seq(F) /\ Len(Names(s)) = n
  BY <1>1, <1>5, IsASeq
<1> QED
  BY <1>4, <1>6 DEF n

\* Lists with the same entries are the same list.
LEMMA SameLists ==
  ASSUME NEW T, NEW a, a \in Seq(T), NEW b, b \in Seq(T), Len(a) = Len(b),
         \A j \in 1..Len(a) : a[j] = b[j]
  PROVE  a = b
  BY SeqEqual

\* An entry added at the end.
LEMMA ListGrown ==
  ASSUME NEW T, NEW F, Named(T, F), NEW s, s \in Seq(T), Distinct(s), NEW y, y \in T,
         \A e \in Range(s) : e.fragment # y.fragment, NEW r, r = s \o <<y>>
  PROVE  /\ Distinct(r) /\ Range(r) = Range(s) \cup {y}
         /\ KeepsPlaces(Names(s), Names(r))
<1> DEFINE n == Len(s)
           N == Names(s)
           R == Names(r)
<1>1. /\ r \in Seq(T) /\ Len(r) = n + 1 /\ n \in Nat
      /\ \A j \in 1..n : r[j] = s[j]
      /\ r[n + 1] = y
  BY GrownEntries
<1>2. /\ \A e : e \in Range(s) <=> \E j \in 1..n : s[j] = e
      /\ \A e : e \in Range(r) <=> \E j \in 1..Len(r) : r[j] = e
  <2>1. \A e : e \in Range(s) <=> \E j \in 1..n : s[j] = e
    BY RangeOfList
  <2>2. r \in Seq(T)
    BY <1>1
  <2>3. \A e : e \in Range(r) <=> \E j \in 1..Len(r) : r[j] = e
    BY <2>2, RangeOfList
  <2> QED
    BY <2>1, <2>3
<1>3. /\ N \in Seq(F) /\ Len(N) = n /\ \A j \in 1..n : N[j] = s[j].fragment
      /\ R \in Seq(F) /\ Len(R) = n + 1 /\ \A j \in 1..(n + 1) : R[j] = r[j].fragment
  <2>1. N \in Seq(F) /\ Len(N) = n /\ \A j \in 1..n : N[j] = s[j].fragment
    BY NamesOfList
  <2>2. R \in Seq(F) /\ Len(R) = Len(r) /\ \A j \in 1..Len(r) : R[j] = r[j].fragment
    BY <1>1, NamesOfList
  <2> QED
    BY <1>1, <2>1, <2>2
<1> HIDE DEF N, R
<1>4. \A i, j \in 1..n : s[i].fragment = s[j].fragment => i = j
  BY DEF Distinct
<1> HIDE DEF n
<1>5. \A j \in 1..n : s[j].fragment # y.fragment
  BY <1>2
<1>6. Distinct(r)
  <2>1. ASSUME NEW i \in 1..(n + 1), NEW j \in 1..(n + 1), r[i].fragment = r[j].fragment
        PROVE  i = j
    <3>1. (i \in 1..n \/ i = n + 1) /\ (j \in 1..n \/ j = n + 1)
      BY <1>1
    <3>2. CASE i \in 1..n /\ j \in 1..n
      BY <1>1, <1>4, <2>1, <3>2
    <3>3. CASE i \in 1..n /\ j = n + 1
      BY <1>1, <1>5, <2>1, <3>3
    <3>4. CASE i = n + 1 /\ j \in 1..n
      BY <1>1, <1>5, <2>1, <3>4
    <3> QED
      BY <3>1, <3>2, <3>3, <3>4
  <2> QED
    BY <1>1, <2>1 DEF Distinct
<1>7. Range(r) = Range(s) \cup {y}
  <2>1. ASSUME NEW e, e \in Range(r) PROVE e \in Range(s) \cup {y}
    <3>1. PICK j \in 1..Len(r) : r[j] = e
      BY <1>2, <2>1
    <3>2. j \in 1..n \/ j = n + 1
      BY <1>1
    <3> QED
      BY <1>1, <1>2, <3>1, <3>2
  <2>2. ASSUME NEW e, e \in Range(s) PROVE e \in Range(r)
    <3>1. PICK j \in 1..n : s[j] = e
      BY <1>2, <2>2
    <3>2. j \in 1..Len(r) /\ r[j] = e
      BY <1>1, <3>1
    <3> QED
      BY <1>2, <3>2
  <2>3. y \in Range(r)
    <3>1. n + 1 \in 1..Len(r)
      BY <1>1
    <3> QED
      BY <1>1, <1>2, <3>1
  <2> QED
    BY <2>1, <2>2, <2>3
<1>8. Len(R) > Len(N) /\ N = Front(R)
  <2> DEFINE Q == Front(R)
  <2>1. Q = SubSeq(R, 1, n)
    <3>1. Len(R) - 1 = n
      BY <1>1, <1>3
    <3> QED
      BY <3>1 DEF Front
  <2> HIDE DEF Q
  <2>2. Q \in Seq(F) /\ Len(Q) = n /\ \A j \in 1..n : Q[j] = R[j]
    <3>1. n \in 0..Len(R)
      BY <1>1, <1>3
    <3>2. Q \in Seq(F) /\ Len(Q) = n
      BY <1>3, <2>1, <3>1, Prefix
    <3>3. \A j \in 1..n : Q[j] = R[j]
      BY <1>3, <2>1, <3>1, SubSeqProperties
    <3> QED
      BY <3>2, <3>3
  <2>3. \A j \in 1..n : N[j] = Q[j]
    <3> TAKE j \in 1..n
    <3>1. j \in 1..(n + 1)
      BY <1>1
    <3> QED
      BY <1>1, <1>3, <2>2, <3>1
  <2>4. N = Q
    BY <1>3, <2>2, <2>3, SameLists
  <2> QED
    BY <1>1, <1>3, <2>4 DEF Q
<1> QED
  BY <1>6, <1>7, <1>8 DEF KeepsPlaces, N, R

\* An entry removed.
LEMMA ListShrunk ==
  ASSUME NEW T, NEW F, Named(T, F), NEW s, s \in Seq(T), Distinct(s), NEW i, i \in 1..Len(s),
         NEW r, r = Exchange(s, i, <<>>)
  PROVE  /\ Distinct(r) /\ Range(r) = Range(s) \ {s[i]}
         /\ KeepsPlaces(Names(s), Names(r))
<1> DEFINE n == Len(s)
           N == Names(s)
           R == Names(r)
<1>1. /\ r \in Seq(T) /\ Len(r) = n - 1 /\ n \in Nat
      /\ \A j \in 1..Len(r) : r[j] = IF j < i THEN s[j] ELSE s[j + 1]
  <2>1. Shrinks(T, s, i, r)
    BY DEF Shrinks
  <2> QED
    BY <2>1, ShrunkEntries
<1>2. /\ \A e : e \in Range(s) <=> \E j \in 1..n : s[j] = e
      /\ \A e : e \in Range(r) <=> \E j \in 1..Len(r) : r[j] = e
  <2>1. \A e : e \in Range(s) <=> \E j \in 1..n : s[j] = e
    BY RangeOfList
  <2>2. r \in Seq(T)
    BY <1>1
  <2>3. \A e : e \in Range(r) <=> \E j \in 1..Len(r) : r[j] = e
    BY <2>2, RangeOfList
  <2> QED
    BY <2>1, <2>3
<1>3. /\ N \in Seq(F) /\ Len(N) = n /\ \A j \in 1..n : N[j] = s[j].fragment
      /\ R \in Seq(F) /\ Len(R) = Len(r) /\ \A j \in 1..Len(r) : R[j] = r[j].fragment
  <2>1. N \in Seq(F) /\ Len(N) = n /\ \A j \in 1..n : N[j] = s[j].fragment
    BY NamesOfList
  <2>2. R \in Seq(F) /\ Len(R) = Len(r) /\ \A j \in 1..Len(r) : R[j] = r[j].fragment
    BY <1>1, NamesOfList
  <2> QED
    BY <2>1, <2>2
<1> HIDE DEF N, R
<1>4. \A a, b \in 1..n : s[a].fragment = s[b].fragment => a = b
  BY DEF Distinct
<1>5. i \in 1..n
  OBVIOUS
<1> HIDE DEF n
<1> DEFINE from(j) == IF j < i THEN j ELSE j + 1
<1>6. \A j \in 1..Len(r) : from(j) \in 1..n /\ from(j) # i /\ r[j] = s[from(j)]
  BY <1>1, <1>5
<1>7. Distinct(r)
  <2>1. ASSUME NEW a \in 1..Len(r), NEW b \in 1..Len(r), r[a].fragment = r[b].fragment
        PROVE  a = b
    <3> HIDE DEF from
    <3>1. from(a) = from(b)
      BY <1>4, <1>6, <2>1
    <3> QED
      BY <1>1, <3>1 DEF from
  <2> QED
    BY <2>1 DEF Distinct
<1>8. Range(r) = Range(s) \ {s[i]}
  <2>1. ASSUME NEW e, e \in Range(r) PROVE e \in Range(s) \ {s[i]}
    <3> HIDE DEF from
    <3>1. PICK j \in 1..Len(r) : r[j] = e
      BY <1>2, <2>1
    <3>2. from(j) \in 1..n /\ from(j) # i /\ e = s[from(j)]
      BY <1>6, <3>1
    <3>3. e # s[i]
      BY <1>4, <1>5, <3>2
    <3> QED
      BY <1>2, <3>2, <3>3
  <2>2. ASSUME NEW e, e \in Range(s), e # s[i] PROVE e \in Range(r)
    <3>1. PICK j \in 1..n : s[j] = e
      BY <1>2, <2>2
    <3>2. j # i
      BY <2>2, <3>1
    <3> DEFINE k == IF j < i THEN j ELSE j - 1
    <3>3. k \in 1..Len(r) /\ from(k) = j
      BY <1>1, <1>5, <3>2
    <3> HIDE DEF k, from
    <3>4. r[k] = e
      BY <1>6, <3>1, <3>3
    <3> QED
      BY <1>2, <3>3, <3>4
  <2> QED
    BY <2>1, <2>2
<1>9. R = RemoveAt(N, i)
  <2> DEFINE Q == Exchange(N, i, <<>>)
  <2>1. Q = RemoveAt(N, i)
    <3> DEFINE P == SubSeq(N, 1, i - 1)
    <3>1. P \in Seq(F)
      BY <1>3, <1>5, ListSplit
    <3>2. P \o <<>> = P
      BY <3>1, ConcatEmptySeq
    <3> QED
      BY <3>2 DEF Exchange, RemoveAt
  <2> HIDE DEF Q
  <2>2. /\ Q \in Seq(F) /\ Len(Q) = n - 1
        /\ \A j \in 1..Len(Q) : Q[j] = IF j < i THEN N[j] ELSE N[j + 1]
    <3>1. Shrinks(F, N, i, Q)
      BY <1>3, <1>5 DEF Q, Shrinks
    <3>2. /\ Q \in Seq(F) /\ Len(Q) = Len(N) - 1
          /\ \A j \in 1..Len(Q) : Q[j] = IF j < i THEN N[j] ELSE N[j + 1]
      BY <3>1, ShrunkEntries
    <3> QED
      BY <1>3, <3>2
  <2>3. \A j \in 1..Len(R) : R[j] = Q[j]
    <3> TAKE j \in 1..Len(R)
    <3>1. j \in 1..Len(r) /\ j \in 1..Len(Q)
      BY <1>1, <1>3, <2>2
    <3>2. Q[j] = N[from(j)]
      BY <2>2, <3>1
    <3> HIDE DEF from
    <3>3. R[j] = s[from(j)].fragment /\ N[from(j)] = s[from(j)].fragment
      BY <1>3, <1>6, <3>1
    <3> QED
      BY <3>2, <3>3
  <2>4. R = Q
    <3>1. Len(R) = Len(Q)
      BY <1>1, <1>3, <2>2
    <3> QED
      BY <1>3, <2>2, <2>3, <3>1, SameLists
  <2> QED
    BY <2>1, <2>4
<1>10. i \in DOMAIN N
  BY <1>3, <1>5
<1> QED
  BY <1>7, <1>8, <1>9, <1>10 DEF KeepsPlaces, N, R

\* An entry changed in its place.
LEMMA ListChanged ==
  ASSUME NEW T, NEW F, Named(T, F), NEW s, s \in Seq(T), Distinct(s), NEW i, i \in 1..Len(s),
         NEW y, y \in T, y.fragment = s[i].fragment, NEW r, r = Exchange(s, i, <<y>>)
  PROVE  /\ Distinct(r) /\ Range(r) = (Range(s) \ {s[i]}) \cup {y}
         /\ KeepsPlaces(Names(s), Names(r))
<1> DEFINE n == Len(s)
           N == Names(s)
           R == Names(r)
<1>1. /\ r \in Seq(T) /\ Len(r) = n /\ n \in Nat
      /\ \A j \in 1..n : r[j] = IF j = i THEN y ELSE s[j]
  BY ChangedEntries
<1>2. /\ \A e : e \in Range(s) <=> \E j \in 1..n : s[j] = e
      /\ \A e : e \in Range(r) <=> \E j \in 1..n : r[j] = e
  <2>1. \A e : e \in Range(s) <=> \E j \in 1..n : s[j] = e
    BY RangeOfList
  <2>2. r \in Seq(T)
    BY <1>1
  <2>3. \A e : e \in Range(r) <=> \E j \in 1..Len(r) : r[j] = e
    BY <2>2, RangeOfList
  <2> QED
    BY <1>1, <2>1, <2>3
<1>3. /\ N \in Seq(F) /\ Len(N) = n /\ \A j \in 1..n : N[j] = s[j].fragment
      /\ R \in Seq(F) /\ Len(R) = n /\ \A j \in 1..n : R[j] = r[j].fragment
  <2>1. N \in Seq(F) /\ Len(N) = n /\ \A j \in 1..n : N[j] = s[j].fragment
    BY NamesOfList
  <2>2. R \in Seq(F) /\ Len(R) = Len(r) /\ \A j \in 1..Len(r) : R[j] = r[j].fragment
    BY <1>1, NamesOfList
  <2> QED
    BY <1>1, <2>1, <2>2
<1> HIDE DEF N, R
<1>4. \A a, b \in 1..n : s[a].fragment = s[b].fragment => a = b
  BY DEF Distinct
<1>5. i \in 1..n
  OBVIOUS
<1> HIDE DEF n
<1>6. \A j \in 1..n : r[j].fragment = s[j].fragment
  BY <1>1
<1>7. Distinct(r)
  BY <1>1, <1>4, <1>6 DEF Distinct
<1>8. Range(r) = (Range(s) \ {s[i]}) \cup {y}
  <2>1. ASSUME NEW e, e \in Range(r) PROVE e \in (Range(s) \ {s[i]}) \cup {y}
    <3>1. PICK j \in 1..n : r[j] = e
      BY <1>2, <2>1
    <3>2. CASE j = i
      BY <1>1, <3>1, <3>2
    <3>3. CASE j # i
      <4>1. e = s[j]
        BY <1>1, <3>1, <3>3
      <4>2. s[j] # s[i]
        BY <1>4, <1>5, <3>3
      <4> QED
        BY <1>2, <4>1, <4>2
    <3> QED
      BY <3>2, <3>3
  <2>2. ASSUME NEW e, e \in Range(s), e # s[i] PROVE e \in Range(r)
    <3>1. PICK j \in 1..n : s[j] = e
      BY <1>2, <2>2
    <3>2. r[j] = e
      BY <1>1, <2>2, <3>1
    <3> QED
      BY <1>2, <3>2
  <2>3. y \in Range(r)
    BY <1>1, <1>2, <1>5
  <2> QED
    BY <2>1, <2>2, <2>3
<1>9. R = N
  BY <1>3, <1>6, SameLists
<1> QED
  BY <1>7, <1>8, <1>9 DEF KeepsPlaces, N, R

\* No entry moves in a list that is left alone.
LEMMA ListUnchanged == ASSUME NEW s PROVE KeepsPlaces(Names(s), Names(s))
  BY DEF KeepsPlaces

\* A list may be emptied.
LEMMA ListEmptied == ASSUME NEW s PROVE KeepsPlaces(Names(s), Names(<<>>))
<1>1. Names(<<>>) = <<>>
  BY DEF Names
<1> QED
  BY <1>1 DEF KeepsPlaces

-----------------------------------------------------------------------------
(* Every account is written *)

\* The account at s is written with the contents x, and read as their document.
Records(s, x) ==
  /\ x \in Contents /\ Distinct(x.vms) /\ Distinct(x.services)
  /\ data[s] = Written(x) /\ account[s] = DocumentOf(x)

\* There is no account at s.
Blank(s) == data[s] = <<>> /\ account[s] = NoAccount

\* The inductive invariant: the bytes of every account are those of some
\* contents, whose entries have different fragments, and its document is theirs.
LayoutInv ==
  /\ DOMAIN account = Subject /\ DOMAIN data = Subject
  /\ \A s \in Subject : Blank(s) \/ \E x : Records(s, x)

\* The step writes the contents z at s.
Becomes(s, z) ==
  /\ z \in Contents /\ Distinct(z.vms) /\ Distinct(z.services)
  /\ data' = [data EXCEPT ![s] = Written(z)]
  /\ account' = [account EXCEPT ![s] = DocumentOf(z)]

\* No entry of x moves.
InPlace(x, z) ==
  /\ KeepsPlaces(Names(x.vms), Names(z.vms))
  /\ KeepsPlaces(Names(x.services), Names(z.services))

\* The step exchanges the contents x at s for z.
Moves(s, x, z) == Records(s, x) /\ Becomes(s, z) /\ InPlace(x, z)

\* A step that writes contents keeps the invariant.
LEMMA StepKeeps ==
  ASSUME LayoutInv, NEW s \in Subject, NEW z, Becomes(s, z)
  PROVE  LayoutInv'
<1>1. DOMAIN account' = Subject /\ DOMAIN data' = Subject
  BY DEF LayoutInv, Becomes
<1>2. data'[s] = Written(z) /\ account'[s] = DocumentOf(z)
  BY DEF LayoutInv, Becomes
<1>3. \A t \in Subject : t # s => data'[t] = data[t] /\ account'[t] = account[t]
  BY DEF LayoutInv, Becomes
<1>4. ASSUME NEW t \in Subject PROVE Blank(t)' \/ \E x : Records(t, x)'
  <2>1. CASE t = s
    <3>1. Records(t, z)'
      BY <1>2, <2>1 DEF Records, Becomes
    <3> QED
      BY <3>1
  <2>2. CASE t # s
    <3>1. data'[t] = data[t] /\ account'[t] = account[t]
      BY <1>3, <2>2
    <3>2. CASE Blank(t)
      <4>1. Blank(t)'
        BY <3>1, <3>2 DEF Blank
      <4> QED
        BY <4>1
    <3>3. CASE \E x : Records(t, x)
      <4>1. PICK x : Records(t, x)
        BY <3>3
      <4>2. Records(t, x)'
        BY <3>1, <4>1 DEF Records
      <4> QED
        BY <4>2
    <3> QED
      BY <3>2, <3>3 DEF LayoutInv
  <2> QED
    BY <2>1, <2>2
<1> QED
  BY <1>1, <1>4 DEF LayoutInv

\* A step that moves no entry of the contents moves none of the account.
LEMMA MoveKeepsPlaces ==
  ASSUME LayoutInv, NEW s \in Subject, NEW z, Becomes(s, z),
         Blank(s) \/ \E x : Moves(s, x, z)
  PROVE  PlacesStep
<1> DEFINE P(a, b) == KeepsPlaces(Names(Vms(a)), Names(Vms(b)))
                      /\ KeepsPlaces(Names(Services(a)), Names(Services(b)))
<1>1. ASSUME NEW t \in Subject, data[t] # <<>> PROVE P(data[t], data'[t])
  <2>1. CASE t = s
    <3>1. PICK x : Moves(s, x, z)
      BY <1>1, <2>1 DEF Blank
    <3>2. x \in Contents /\ data[t] = Written(x) /\ z \in Contents
      BY <2>1, <3>1 DEF Moves, Records, Becomes
    <3>3. data'[t] = Written(z)
      BY <2>1 DEF LayoutInv, Becomes
    <3> DEFINE a == data[t]
               b == data'[t]
    <3>4. a = Written(x) /\ b = Written(z)
      BY <3>2, <3>3
    <3> HIDE DEF a, b
    <3>5. Vms(a) = x.vms /\ Services(a) = x.services
      BY <3>2, <3>4, VmsFound, ServicesFound
    <3>6. Vms(b) = z.vms /\ Services(b) = z.services
      BY <3>2, <3>4, VmsFound, ServicesFound
    <3>7. P(a, b)
      BY <3>1, <3>5, <3>6 DEF Moves, InPlace
    <3> QED
      BY <3>7 DEF a, b
  <2>2. CASE t # s
    <3>1. data'[t] = data[t]
      BY <2>2 DEF LayoutInv, Becomes
    <3> QED
      BY <3>1, ListUnchanged
  <2> QED
    BY <2>1, <2>2
<1> QED
  BY <1>1 DEF PlacesStep

\* The counter of the contents is the document's version.
LEMMA TouchedDocument ==
  ASSUME NEW y \in Contents
  PROVE  DocumentOf(Newer(y)) = Touch(DocumentOf(y))
<1> DEFINE v == IF y.version < MaxVersion THEN y.version + 1 ELSE MaxVersion
<1>1. Newer(y) = [y EXCEPT !.version = v]
  BY DEF Newer
<1>2. Touch(DocumentOf(y)) = [DocumentOf(y) EXCEPT !.version = v]
  BY DEF Touch, DocumentOf
<1> HIDE DEF v
<1> DEFINE n == Newer(y)
<1>3. /\ n.version = v /\ n.flag = y.flag /\ n.natives = y.natives /\ n.others = y.others
      /\ n.vms = y.vms /\ n.services = y.services
  BY <1>1 DEF Contents
<1> HIDE DEF n
<1>4. DocumentOf(n) = [DocumentOf(y) EXCEPT !.version = v]
  BY <1>3 DEF DocumentOf
<1> QED
  BY <1>2, <1>4 DEF n

\* What an instruction is about to write before it counts the change.
EditsBytes(s, k, x, y, e) ==
  /\ Records(s, x)
  /\ y \in Contents /\ Distinct(y.vms) /\ Distinct(y.services) /\ InPlace(x, y)
  /\ e = Written(y) /\ Edit(s, k, e)

\* An edit that writes contents is an update of DidRegistry with their document.
LEMMA EditMoves ==
  ASSUME LayoutInv, NEW s \in Subject, NEW k, NEW x, NEW y, NEW e, EditsBytes(s, k, x, y, e)
  PROVE  Moves(s, x, Newer(y)) /\ Update(s, k, DocumentOf(y))
<1> DEFINE n == Newer(y)
           f == Touched(e)
<1>1. y \in Contents /\ e = Written(y)
  BY DEF EditsBytes
<1>2. n \in Contents /\ f = Written(n)
  BY <1>1, TouchedWritten
<1>3. n.vms = y.vms /\ n.services = y.services
  BY <1>1 DEF Newer, Contents
<1>4. DocumentOf(n) = Touch(DocumentOf(y))
  BY <1>1, TouchedDocument
<1> HIDE DEF n
<1>5. DocumentIn(f) = DocumentOf(n)
  <2> HIDE DEF f
  <2> QED
    BY <1>2, DocumentRead
<1>6. /\ data' = [data EXCEPT ![s] = f]
      /\ account' = [account EXCEPT ![s] = DocumentIn(f)]
      /\ signedBy' = {k}
  BY DEF EditsBytes, Edit, Write
<1> HIDE DEF f
<1>7. Becomes(s, n)
  BY <1>2, <1>3, <1>5, <1>6 DEF Becomes, EditsBytes
<1>8. InPlace(x, n)
  BY <1>3 DEF EditsBytes, InPlace
<1>9. Update(s, k, DocumentOf(y))
  BY <1>4, <1>5, <1>6 DEF Update
<1> QED
  BY <1>7, <1>8, <1>9 DEF Moves, EditsBytes, n

\* What an authority edits is a written account.
LEMMA LiveIsWritten ==
  ASSUME LayoutInv, NEW s \in Subject, NEW k, Authorized(s, k)
  PROVE  \E x : Records(s, x)
<1>1. account[s].state = "active"
  BY DEF Authorized, Live
<1>2. ~Blank(s)
  BY <1>1 DEF Blank, NoAccount
<1> QED
  BY <1>2 DEF LayoutInv

\* A written account has its contents' bytes and document.
LEMMA RecordsRead ==
  ASSUME NEW s, NEW x, Records(s, x)
  PROVE  /\ x \in Contents /\ data[s] = Written(x)
         /\ account[s] = DocumentOf(x)
         /\ account[s].vms = Range(x.vms) /\ account[s].services = Range(x.services)
         /\ Distinct(x.vms) /\ Distinct(x.services)
  BY DEF Records, DocumentOf

\* Methods and services have fragments.
LEMMA AllNamed == Named(Method, Fragment) /\ Named(Service, Fragment)
  BY DEF Named, Method, Service

\* The counts of a written account, and where they are.
LEMMA CountsRead ==
  ASSUME NEW x \in Contents, NEW d, d = Written(x)
  PROVE  /\ Sections(d).vm_count_pos = VmPos(x) /\ Sections(d).svc_count_pos = SvcPos(x)
         /\ U32(d, VmPos(x)) = Len(x.vms) /\ U32(d, SvcPos(x)) = Len(x.services)
<1> DEFINE p == VmPos(x)
           q == SvcPos(x)
           n == Len(x.vms)
           k == Len(x.services)
<1>1. d \in Seq(Nat) /\ p \in Nat /\ q \in Nat /\ Holds(d, p, <<n>>) /\ Holds(d, q, <<k>>)
  BY WrittenHeld
<1>2. n \in Nat /\ k \in Nat
  BY ContentsTypes
<1>3. Sections(d).vm_count_pos = p /\ Sections(d).svc_count_pos = q
  BY SectionsFound
<1> HIDE DEF p, q, n, k
<1>4. U32(d, p) = n /\ U32(d, q) = k
  BY <1>1, <1>2, NumberHeld
<1> QED
  BY <1>3, <1>4 DEF p, q, n, k

\* Contents with other methods have the document with those methods.
LEMMA MethodListEdited ==
  ASSUME NEW x \in Contents, NEW ms \in Seq(Method), NEW y, y = [x EXCEPT !.vms = ms]
  PROVE  /\ y \in Contents /\ y.vms = ms /\ y.services = x.services
         /\ DocumentOf(y) = [DocumentOf(x) EXCEPT !.vms = Range(ms)]
<1>1. /\ y \in Contents /\ y.vms = ms /\ y.services = x.services /\ y.version = x.version
      /\ y.flag = x.flag /\ y.natives = x.natives /\ y.others = x.others
  BY DEF Contents
<1>2. DocumentOf(y) = [DocumentOf(x) EXCEPT !.vms = Range(ms)]
  BY <1>1 DEF DocumentOf
<1> QED
  BY <1>1, <1>2

\* Contents with other services have the document with those services.
LEMMA ServiceListEdited ==
  ASSUME NEW x \in Contents, NEW ss \in Seq(Service), NEW y, y = [x EXCEPT !.services = ss]
  PROVE  /\ y \in Contents /\ y.services = ss /\ y.vms = x.vms
         /\ DocumentOf(y) = [DocumentOf(x) EXCEPT !.services = Range(ss)]
<1>1. /\ y \in Contents /\ y.services = ss /\ y.vms = x.vms /\ y.version = x.version
      /\ y.flag = x.flag /\ y.natives = x.natives /\ y.others = x.others
  BY DEF Contents
<1>2. DocumentOf(y) = [DocumentOf(x) EXCEPT !.services = Range(ss)]
  BY <1>1 DEF DocumentOf
<1> QED
  BY <1>1, <1>2

\* The step exchanges the methods of the contents x at s for ms.
VmsEdits(s, k, x, ms, e) ==
  /\ Records(s, x) /\ ms \in Seq(Method) /\ Distinct(ms)
  /\ KeepsPlaces(Names(x.vms), Names(ms))
  /\ e = Written([x EXCEPT !.vms = ms]) /\ Edit(s, k, e)

\* Such a step is an update of the document's methods.
LEMMA VmsEditMoves ==
  ASSUME LayoutInv, NEW s \in Subject, NEW k, NEW x, NEW ms, NEW e, VmsEdits(s, k, x, ms, e)
  PROVE  /\ \E z : Moves(s, x, z)
         /\ Update(s, k, [account[s] EXCEPT !.vms = Range(ms)])
<1> DEFINE y == [x EXCEPT !.vms = ms]
<1>1. /\ Records(s, x) /\ ms \in Seq(Method) /\ Distinct(ms)
      /\ KeepsPlaces(Names(x.vms), Names(ms)) /\ e = Written(y) /\ Edit(s, k, e)
      /\ y = [x EXCEPT !.vms = ms]
  BY DEF VmsEdits
<1> HIDE DEF y
<1>2. x \in Contents /\ account[s] = DocumentOf(x) /\ Distinct(x.vms) /\ Distinct(x.services)
  BY <1>1, RecordsRead
<1>3. /\ y \in Contents /\ y.vms = ms /\ y.services = x.services
      /\ DocumentOf(y) = [DocumentOf(x) EXCEPT !.vms = Range(ms)]
  BY <1>1, <1>2, MethodListEdited
<1>4. EditsBytes(s, k, x, y, e)
  BY <1>1, <1>2, <1>3, ListUnchanged DEF EditsBytes, InPlace
<1>5. Moves(s, x, Newer(y)) /\ Update(s, k, DocumentOf(y))
  BY <1>4, EditMoves
<1> QED
  BY <1>2, <1>3, <1>5

\* The step exchanges the services of the contents x at s for ss.
ServicesEdits(s, k, x, ss, e) ==
  /\ Records(s, x) /\ ss \in Seq(Service) /\ Distinct(ss)
  /\ KeepsPlaces(Names(x.services), Names(ss))
  /\ e = Written([x EXCEPT !.services = ss]) /\ Edit(s, k, e)

\* Such a step is an update of the document's services.
LEMMA ServicesEditMoves ==
  ASSUME LayoutInv, NEW s \in Subject, NEW k, NEW x, NEW ss, NEW e, ServicesEdits(s, k, x, ss, e)
  PROVE  /\ \E z : Moves(s, x, z)
         /\ Update(s, k, [account[s] EXCEPT !.services = Range(ss)])
<1> DEFINE y == [x EXCEPT !.services = ss]
<1>1. /\ Records(s, x) /\ ss \in Seq(Service) /\ Distinct(ss)
      /\ KeepsPlaces(Names(x.services), Names(ss)) /\ e = Written(y) /\ Edit(s, k, e)
      /\ y = [x EXCEPT !.services = ss]
  BY DEF ServicesEdits
<1> HIDE DEF y
<1>2. x \in Contents /\ account[s] = DocumentOf(x) /\ Distinct(x.vms) /\ Distinct(x.services)
  BY <1>1, RecordsRead
<1>3. /\ y \in Contents /\ y.services = ss /\ y.vms = x.vms
      /\ DocumentOf(y) = [DocumentOf(x) EXCEPT !.services = Range(ss)]
  BY <1>1, <1>2, ServiceListEdited
<1>4. EditsBytes(s, k, x, y, e)
  BY <1>1, <1>2, <1>3, ListUnchanged DEF EditsBytes, InPlace
<1>5. Moves(s, x, Newer(y)) /\ Update(s, k, DocumentOf(y))
  BY <1>4, EditMoves
<1> QED
  BY <1>2, <1>3, <1>5

\* insert_vm in place is AddVerificationMethod.
LEMMA AddVmStep ==
  ASSUME LayoutInv, NEW s \in Subject, NEW k \in Signer, AddVmBytes(s, k)
  PROVE  AddVerificationMethod(s, k) /\ \E x, z : Moves(s, x, z)
<1> DEFINE d == data[s]
<1>1. Authorized(s, k)
  BY DEF AddVmBytes
<1>2. PICK x : Records(s, x)
  BY <1>1, LiveIsWritten
<1>3. PICK m \in MethodInput :
        /\ CheckNewMethod(account[s], m, Len(m.key))
        /\ CheckNewKey(m, m.key, k)
        /\ Edit(s, k, Patch(InsertEntry(d, Sections(d).svc_count_pos, VmSpace(m), VmBytes(m)),
                            Sections(d).vm_count_pos, <<U32(d, Sections(d).vm_count_pos) + 1>>))
  BY DEF AddVmBytes
<1>4. /\ x \in Contents /\ d = Written(x) /\ account[s] = DocumentOf(x)
      /\ account[s].vms = Range(x.vms) /\ Distinct(x.vms) /\ Distinct(x.services)
  BY <1>2, RecordsRead
<1> DEFINE ms == x.vms \o <<m>>
           y == [x EXCEPT !.vms = ms]
           e == Written(y)
<1>5. m \in Method
  <2>1. m.type \in VmType
    BY <1>3 DEF CheckNewMethod
  <2>2. m \in [fragment: Fragment, type: VmType \cup {"unknown"}, flags: SUBSET Flag, key: Material]
    BY RegistryAssumption
  <2> QED
    BY <2>1, <2>2 DEF Method
<1>6. x.vms \in Seq(Method)
  BY <1>4, ContentsTypes
<1>7. \A a \in Range(x.vms) : a.fragment # m.fragment
  BY <1>3, <1>4 DEF CheckNewMethod, FragmentFree, MethodFragments
<1> HIDE DEF d
<1>8. /\ y \in Contents
      /\ Patch(InsertEntry(d, SvcPos(x), VmSpace(m), VmBytes(m)), VmPos(x), <<Len(x.vms) + 1>>) = e
  BY <1>4, <1>5, MethodInserted
<1>9. Edit(s, k, e)
  <2>1. /\ Sections(d).vm_count_pos = VmPos(x) /\ Sections(d).svc_count_pos = SvcPos(x)
        /\ U32(d, VmPos(x)) = Len(x.vms)
    BY <1>4, CountsRead
  <2> HIDE DEF e
  <2> QED
    BY <1>3, <1>8, <2>1
<1>10. ms \in Seq(Method) /\ Distinct(ms) /\ Range(ms) = Range(x.vms) \cup {m}
       /\ KeepsPlaces(Names(x.vms), Names(ms))
  <2> DEFINE l == x.vms
             r == ms
  <2>1. l \in Seq(Method) /\ Distinct(l) /\ (\A a \in Range(l) : a.fragment # m.fragment)
        /\ r = l \o <<m>>
    BY <1>4, <1>6, <1>7
  <2> HIDE DEF l, r
  <2>2. r \in Seq(Method)
    BY <1>5, <2>1, GrownEntries
  <2>3. Distinct(r) /\ Range(r) = Range(l) \cup {m} /\ KeepsPlaces(Names(l), Names(r))
    BY <1>5, <2>1, AllNamed, ListGrown
  <2> QED
    BY <2>2, <2>3 DEF l, r
<1> HIDE DEF ms
<1>11. VmsEdits(s, k, x, ms, e)
  BY <1>2, <1>9, <1>10 DEF VmsEdits
<1> HIDE DEF y, e
<1>12. /\ \E z : Moves(s, x, z)
       /\ Update(s, k, [account[s] EXCEPT !.vms = Range(ms)])
  BY <1>11, VmsEditMoves
<1>13. Update(s, k, [account[s] EXCEPT !.vms = @ \cup {m}])
  BY <1>4, <1>10, <1>12
<1>14. AddVerificationMethod(s, k)
  BY <1>1, <1>3, <1>13 DEF AddVerificationMethod, InsertVm
<1> QED
  BY <1>12, <1>14

\* A list has as many members as places, or fewer.
LEMMA RangeSize ==
  ASSUME NEW T, NEW s, s \in Seq(T)
  PROVE  IsFiniteSet(Range(s)) /\ Cardinality(Range(s)) <= Len(s)
<1> DEFINE n == Len(s)
           R == Range(s)
<1>1. n \in Nat /\ s \in [1..n -> T] /\ DOMAIN s = 1..n
  BY LenProperties
<1>2. s \in Surjection(1..n, R)
  <2>1. s \in [1..n -> R]
    BY <1>1 DEF Range
  <2>2. \A e \in R : \E j \in 1..n : s[j] = e
    BY <1>1 DEF Range
  <2> HIDE DEF R
  <2> QED
    BY <2>1, <2>2 DEF Surjection
<1>3. IsFiniteSet(1..n) /\ Cardinality(1..n) = n
  <2>1. Cardinality(1..n) = IF 1 > n THEN 0 ELSE n - 1 + 1
    BY <1>1, FS_Interval
  <2>2. IsFiniteSet(1..n)
    BY <1>1, FS_Interval
  <2> QED
    BY <1>1, <2>1, <2>2
<1> HIDE DEF n, R
<1> DEFINE S == 1..n
<1> HIDE DEF S
<1>4. IsFiniteSet(R) /\ Cardinality(R) <= Cardinality(S)
  <2>1. s \in Surjection(S, R) /\ IsFiniteSet(S)
    BY <1>2, <1>3 DEF S
  <2> QED
    BY <2>1, FS_Surjection
<1> QED
  BY <1>3, <1>4 DEF n, R, S

\* With a fragment for each method, counting the authorities in place counts
\* them in the document (authority_count).
LEMMA AuthoritiesCounted ==
  ASSUME NEW ms, ms \in Seq(Method), Distinct(ms),
         Cardinality({i \in DOMAIN ms : IsAuthorityMethod(ms[i])}) > 1
  PROVE  Cardinality({m \in Range(ms) : IsAuthorityMethod(m)}) > 1
<1> DEFINE S == {i \in DOMAIN ms : IsAuthorityMethod(ms[i])}
           T == {m \in Range(ms) : IsAuthorityMethod(m)}
           f == [i \in S |-> ms[i]]
<1>1. f \in [S -> T]
  BY DEF Range
<1>2. IsInjective(f)
  <2>1. DOMAIN ms = 1..Len(ms)
    OBVIOUS
  <2>2. ASSUME NEW a \in S, NEW b \in S, f[a] = f[b] PROVE a = b
    <3>1. ms[a].fragment = ms[b].fragment /\ a \in 1..Len(ms) /\ b \in 1..Len(ms)
      BY <2>1, <2>2
    <3> QED
      BY <3>1 DEF Distinct
  <2> HIDE DEF S
  <2> QED
    BY <2>2 DEF IsInjective
<1>3. IsFiniteSet(T)
  <2>1. IsFiniteSet(Range(ms))
    BY RangeSize
  <2>2. T \subseteq Range(ms)
    OBVIOUS
  <2> HIDE DEF T
  <2> QED
    BY <2>1, <2>2, FS_Subset
<1>4. Cardinality(S) > 1
  OBVIOUS
<1> HIDE DEF S, T, f
<1>5. f \in Injection(S, T)
  BY <1>1, <1>2 DEF Injection
<1>6. IsFiniteSet(S) /\ Cardinality(S) <= Cardinality(T)
  BY <1>3, <1>5, FS_Injection
<1>7. Cardinality(S) \in Nat /\ Cardinality(T) \in Nat
  BY <1>3, <1>6, FS_CardinalityType
<1> DEFINE a == Cardinality(S)
           b == Cardinality(T)
<1>8. a > 1 /\ a <= b /\ a \in Nat /\ b \in Nat
  BY <1>4, <1>6, <1>7
<1> HIDE DEF a, b
<1>9. b > 1
  BY <1>8
<1> QED
  BY <1>9 DEF b, T

\* The entry found at p in the account d is the i-th of the methods x lists,
IsVm(d, x, p, i) ==
  /\ p = VmStart(x, i) /\ VmAt(d, p) = x.vms[i] /\ x.vms[i] \in Method
  /\ VmEnd(d)[p] = p + VmSpace(x.vms[i])
  /\ x.vms[i] \in Range(x.vms)

\* or of the services.
IsService(d, x, p, i) ==
  /\ p = ServiceStart(x, i) /\ ServiceAt(d, p) = x.services[i] /\ x.services[i] \in Service
  /\ ServiceEnd(d)[p] = p + ServiceSpace(x.services[i])
  /\ x.services[i] \in Range(x.services)

\* Whatever method the cursor stops at is one that was written (VmIter),
LEMMA VmVisited ==
  ASSUME NEW s, NEW x, Records(s, x), NEW p \in Range(VmStarts(data[s]))
  PROVE  \E i \in 1..Len(x.vms) : IsVm(data[s], x, p, i)
<1> DEFINE d == data[s]
<1>1. x \in Contents /\ d = Written(x)
  BY RecordsRead
<1> HIDE DEF d
<1>2. DOMAIN VmStarts(d) = 1..Len(x.vms)
  BY <1>1, VmsFound
<1>3. PICK i \in 1..Len(x.vms) : VmStarts(d)[i] = p
  BY <1>2 DEF Range, d
<1>4. /\ VmStarts(d)[i] = VmStart(x, i)
      /\ VmAt(d, VmStart(x, i)) = x.vms[i]
      /\ VmEnd(d)[VmStart(x, i)] = VmStart(x, i) + VmSpace(x.vms[i])
  BY <1>1, VmsFound
<1>5. x.vms \in Seq(Method)
  BY <1>1, ContentsTypes
<1>6. x.vms[i] \in Method /\ x.vms[i] \in Range(x.vms)
  BY <1>5, ElementOfSeq, RangeOfList
<1>7. IsVm(d, x, p, i)
  BY <1>3, <1>4, <1>6 DEF IsVm
<1> QED
  BY <1>7 DEF d

\* and so is every service (SvcIter).
LEMMA ServiceVisited ==
  ASSUME NEW s, NEW x, Records(s, x), NEW p \in Range(ServiceStarts(data[s]))
  PROVE  \E i \in 1..Len(x.services) : IsService(data[s], x, p, i)
<1> DEFINE d == data[s]
<1>1. x \in Contents /\ d = Written(x)
  BY RecordsRead
<1> HIDE DEF d
<1>2. DOMAIN ServiceStarts(d) = 1..Len(x.services)
  BY <1>1, ServicesFound
<1>3. PICK i \in 1..Len(x.services) : ServiceStarts(d)[i] = p
  BY <1>2 DEF Range, d
<1>4. /\ ServiceStarts(d)[i] = ServiceStart(x, i)
      /\ ServiceAt(d, ServiceStart(x, i)) = x.services[i]
      /\ ServiceEnd(d)[ServiceStart(x, i)] = ServiceStart(x, i) + ServiceSpace(x.services[i])
  BY <1>1, ServicesFound
<1>5. x.services \in Seq(Service)
  BY <1>1, ContentsTypes
<1>6. x.services[i] \in Service /\ x.services[i] \in Range(x.services)
  BY <1>5, ElementOfSeq, RangeOfList
<1>7. IsService(d, x, p, i)
  BY <1>3, <1>4, <1>6 DEF IsService
<1> QED
  BY <1>7 DEF d

\* An account with an authority to spare has one in its document.
LEMMA AuthoritiesFound ==
  ASSUME NEW s, NEW x, Records(s, x), AuthorityCountIn(data[s]) > 1
  PROVE  AuthorityCount(account[s]) > 1
<1> DEFINE ms == x.vms
           d == data[s]
<1>1. x \in Contents /\ d = Written(x) /\ account[s].vms = Range(ms) /\ Distinct(ms)
  BY RecordsRead
<1>2. ms \in Seq(Method)
  BY <1>1, ContentsTypes
<1> HIDE DEF d
<1>3. Vms(d) = ms
  BY <1>1, VmsFound
<1> HIDE DEF ms
<1>4. Cardinality({i \in DOMAIN ms : IsAuthorityMethod(ms[i])}) > 1
  BY <1>3 DEF AuthorityCountIn, d
<1>5. Cardinality({m \in Range(ms) : IsAuthorityMethod(m)}) > 1
  BY <1>1, <1>2, <1>4, AuthoritiesCounted
<1> QED
  BY <1>1, <1>5 DEF AuthorityCount, Authorities

\* remove_verification_method in place is RemoveVerificationMethod.
LEMMA RemoveVmStep ==
  ASSUME LayoutInv, NEW s \in Subject, NEW k \in Signer, RemoveVmBytes(s, k)
  PROVE  RemoveVerificationMethod(s, k) /\ \E x, z : Moves(s, x, z)
<1> DEFINE d == data[s]
<1>1. Authorized(s, k)
  BY DEF RemoveVmBytes
<1>2. PICK x : Records(s, x)
  BY <1>1, LiveIsWritten
<1>3. PICK p \in Range(VmStarts(d)) :
        /\ IsProtected(VmAt(d, p)) => VmAt(d, p).key = k
        /\ IsAuthorityMethod(VmAt(d, p)) => AuthorityCountIn(d) > 1
        /\ Edit(s, k, Patch(RemoveSpan(d, p, VmEnd(d)[p]),
                            Sections(d).vm_count_pos, <<U32(d, Sections(d).vm_count_pos) - 1>>))
  BY DEF RemoveVmBytes
<1>4. /\ x \in Contents /\ d = Written(x) /\ account[s].vms = Range(x.vms) /\ Distinct(x.vms)
  BY <1>2, RecordsRead
<1>5. PICK i \in 1..Len(x.vms) : IsVm(d, x, p, i)
  BY <1>2, VmVisited
<1>6. /\ p = VmStart(x, i) /\ VmAt(d, p) = x.vms[i] /\ x.vms[i] \in Method
        /\ VmEnd(d)[p] = p + VmSpace(x.vms[i])
        /\ x.vms[i] \in Range(x.vms)
  BY <1>5 DEF IsVm
<1> DEFINE m == x.vms[i]
           ms == Exchange(x.vms, i, <<>>)
           y == [x EXCEPT !.vms = ms]
           e == Written(y)
           q == VmEnd(d)[p]
<1>7. AuthorityCountIn(d) > 1 => AuthorityCount(account[s]) > 1
  BY <1>2, AuthoritiesFound
<1>8. x.vms \in Seq(Method)
  BY <1>4, ContentsTypes
<1> HIDE DEF d, q
<1>9. /\ ms \in Seq(Method)
      /\ Patch(RemoveSpan(d, p, q), VmPos(x), <<Len(x.vms) - 1>>) = e
  <2>1. q = p + VmSpace(x.vms[i])
    BY <1>6 DEF q
  <2> DEFINE ns == ms
             w == y
  <2>2. ns = Exchange(x.vms, i, <<>>) /\ w = [x EXCEPT !.vms = ns]
    OBVIOUS
  <2> HIDE DEF ns, w
  <2>3. ns \in Seq(Method) /\ Patch(RemoveSpan(d, p, q), VmPos(x), <<Len(x.vms) - 1>>) = Written(w)
    BY <1>4, <1>6, <2>1, <2>2, MethodRemoved
  <2> QED
    BY <2>3 DEF ns, w
<1>10. Edit(s, k, e)
  <2>1. Sections(d).vm_count_pos = VmPos(x) /\ U32(d, VmPos(x)) = Len(x.vms)
    BY <1>4, CountsRead
  <2> HIDE DEF e
  <2> QED
    BY <1>3, <1>9, <2>1 DEF q
<1>11. Distinct(ms) /\ Range(ms) = Range(x.vms) \ {m} /\ KeepsPlaces(Names(x.vms), Names(ms))
  <2> DEFINE l == x.vms
             r == ms
  <2>1. l \in Seq(Method) /\ Distinct(l) /\ i \in 1..Len(l) /\ r = Exchange(l, i, <<>>)
    BY <1>4, <1>8
  <2> HIDE DEF l, r
  <2>2. Distinct(r) /\ Range(r) = Range(l) \ {l[i]} /\ KeepsPlaces(Names(l), Names(r))
    BY <2>1, AllNamed, ListShrunk
  <2> QED
    BY <2>2 DEF l, r
<1> HIDE DEF ms
<1>12. VmsEdits(s, k, x, ms, e)
  BY <1>2, <1>9, <1>10, <1>11 DEF VmsEdits
<1> HIDE DEF y, e
<1>13. /\ \E z : Moves(s, x, z)
       /\ Update(s, k, [account[s] EXCEPT !.vms = Range(ms)])
  BY <1>12, VmsEditMoves
<1>14. Update(s, k, [account[s] EXCEPT !.vms = @ \ {m}])
  BY <1>4, <1>11, <1>13
<1>15. RemoveVerificationMethod(s, k)
  <2>1. m \in account[s].vms
    BY <1>4, <1>6
  <2>2. IsProtected(m) => m.key = k
    BY <1>3, <1>6
  <2>3. IsAuthorityMethod(m) => AuthorityCount(account[s]) > 1
    BY <1>3, <1>6, <1>7
  <2> HIDE DEF m
  <2> QED
    BY <1>1, <1>14, <2>1, <2>2, <2>3 DEF RemoveVerificationMethod
<1> QED
  BY <1>13, <1>15

\* set_verification_method_flags in place is SetVerificationMethodFlags.
LEMMA SetFlagsStep ==
  ASSUME LayoutInv, NEW s \in Subject, NEW k \in Signer, SetFlagsBytes(s, k)
  PROVE  SetVerificationMethodFlags(s, k) /\ \E x, z : Moves(s, x, z)
<1> DEFINE d == data[s]
<1>1. Authorized(s, k)
  BY DEF SetFlagsBytes
<1>2. PICK x : Records(s, x)
  BY <1>1, LiveIsWritten
<1>3. PICK p \in Range(VmStarts(d)), flags \in FlagInput :
        /\ IsProtected(VmAt(d, p)) \/ IsProtected([VmAt(d, p) EXCEPT !.flags = flags])
             => VmAt(d, p).key = k
        /\ ValidVmFlags(VmAt(d, p).type, flags)
        /\ IsAuthorityMethod(VmAt(d, p)) /\ ~CanInvoke([VmAt(d, p) EXCEPT !.flags = flags])
             => AuthorityCountIn(d) > 1
        /\ Edit(s, k, Patch(d, FlagsPos(d, p), <<WordOf(flags)>>))
  BY DEF SetFlagsBytes
<1>4. /\ x \in Contents /\ d = Written(x) /\ account[s].vms = Range(x.vms) /\ Distinct(x.vms)
  BY <1>2, RecordsRead
<1>5. PICK i \in 1..Len(x.vms) : IsVm(d, x, p, i)
  BY <1>2, VmVisited
<1>6. /\ p = VmStart(x, i) /\ VmAt(d, p) = x.vms[i] /\ x.vms[i] \in Method
        /\ x.vms[i] \in Range(x.vms)
  BY <1>5 DEF IsVm
<1> DEFINE m == x.vms[i]
           c == [m EXCEPT !.flags = flags]
           ms == Exchange(x.vms, i, <<c>>)
           y == [x EXCEPT !.vms = ms]
           e == Written(y)
<1>7. AuthorityCountIn(d) > 1 => AuthorityCount(account[s]) > 1
  BY <1>2, AuthoritiesFound
<1>8. x.vms \in Seq(Method)
  BY <1>4, ContentsTypes
<1> HIDE DEF d
<1>9. flags \in SUBSET Flag
  BY RegistryAssumption
<1>10. /\ ms \in Seq(Method) /\ c \in Method
      /\ Patch(d, FlagsPos(d, p), <<WordOf(flags)>>) = e
  <2> DEFINE ns == ms
             w == y
             b == c
  <2>1. b = [x.vms[i] EXCEPT !.flags = flags] /\ ns = Exchange(x.vms, i, <<b>>)
        /\ w = [x EXCEPT !.vms = ns]
    OBVIOUS
  <2> HIDE DEF ns, w, b
  <2>2. /\ ns \in Seq(Method) /\ b \in Method
        /\ Patch(d, FlagsPos(d, VmStart(x, i)), <<WordOf(flags)>>) = Written(w)
    BY <1>4, <1>9, <2>1, MethodReflagged
  <2> QED
    BY <1>6, <2>2 DEF ns, w, b
<1>11. Edit(s, k, e)
  <2> HIDE DEF e
  <2> QED
    BY <1>3, <1>10
<1>12. c.fragment = x.vms[i].fragment
  BY <1>6 DEF Method
<1>13. Distinct(ms) /\ Range(ms) = (Range(x.vms) \ {m}) \cup {c}
       /\ KeepsPlaces(Names(x.vms), Names(ms))
  <2> DEFINE l == x.vms
             r == ms
             b == c
  <2>1. l \in Seq(Method) /\ Distinct(l) /\ i \in 1..Len(l) /\ r = Exchange(l, i, <<b>>)
        /\ b.fragment = l[i].fragment /\ b \in Method
    BY <1>4, <1>8, <1>10, <1>12
  <2> HIDE DEF l, r, b
  <2>2. Distinct(r) /\ Range(r) = (Range(l) \ {l[i]}) \cup {b} /\ KeepsPlaces(Names(l), Names(r))
    BY <2>1, AllNamed, ListChanged
  <2> QED
    BY <2>2 DEF l, r, b
<1> HIDE DEF ms
<1>14. VmsEdits(s, k, x, ms, e)
  BY <1>2, <1>10, <1>11, <1>13 DEF VmsEdits
<1> HIDE DEF y, e
<1>15. /\ \E z : Moves(s, x, z)
       /\ Update(s, k, [account[s] EXCEPT !.vms = Range(ms)])
  BY <1>14, VmsEditMoves
<1>16. Update(s, k, [account[s] EXCEPT !.vms = (@ \ {m}) \cup {c}])
  BY <1>4, <1>13, <1>15
<1>17. SetVerificationMethodFlags(s, k)
  <2>1. m \in account[s].vms
    BY <1>4, <1>6
  <2>2. /\ IsProtected(m) \/ IsProtected(c) => m.key = k
        /\ ValidVmFlags(m.type, flags)
    BY <1>3, <1>6
  <2>3. IsAuthorityMethod(m) /\ ~CanInvoke(c) => AuthorityCount(account[s]) > 1
    BY <1>3, <1>6, <1>7
  <2> HIDE DEF m
  <2> QED
    BY <1>1, <1>16, <2>1, <2>2, <2>3 DEF SetVerificationMethodFlags
<1> QED
  BY <1>15, <1>17

\* A service of a new fragment at the end of the list.
LEMMA ServicesGrown ==
  ASSUME NEW l, l \in Seq(Service), Distinct(l), NEW v, v \in Service,
         \A b \in Range(l) : b.fragment # v.fragment, NEW r, r = l \o <<v>>
  PROVE  /\ r \in Seq(Service) /\ Distinct(r) /\ Range(r) = Range(l) \cup {v}
         /\ KeepsPlaces(Names(l), Names(r))
<1>1. Named(Service, Fragment)
  BY AllNamed
<1>2. r \in Seq(Service)
  BY GrownEntries
<1> QED
  BY <1>1, <1>2, ListGrown

\* add_service in place is AddService.
LEMMA AddServiceStep ==
  ASSUME LayoutInv, NEW s \in Subject, NEW k \in Signer, AddServiceBytes(s, k)
  PROVE  AddService(s, k) /\ \E x, z : Moves(s, x, z)
<1> DEFINE d == data[s]
<1>1. Authorized(s, k) /\ U32(d, Sections(d).svc_count_pos) < MaxServices
  BY DEF AddServiceBytes
<1>2. PICK x : Records(s, x)
  BY <1>1, LiveIsWritten
<1>3. PICK v \in NewService :
        /\ FragmentFree(account[s], v.fragment)
        /\ Edit(s, k, Patch(AppendEntry(d, ServiceSpace(v), ServiceBytes(v)),
                            Sections(d).svc_count_pos, <<U32(d, Sections(d).svc_count_pos) + 1>>))
  BY DEF AddServiceBytes
<1>4. /\ x \in Contents /\ d = Written(x)
      /\ account[s].services = Range(x.services) /\ Distinct(x.services)
  BY <1>2, RecordsRead
<1> DEFINE ss == x.services \o <<v>>
           y == [x EXCEPT !.services = ss]
           e == Written(y)
<1>5. /\ v \in Service /\ v.fragment \in ValidFragment /\ v.value \in ValidServiceValue
      /\ v = [fragment |-> v.fragment, value |-> v.value]
  BY DocumentAssumption DEF NewService, Service
<1>6. x.services \in Seq(Service)
  BY <1>4, ContentsTypes
<1>7. \A a \in Range(x.services) : a.fragment # v.fragment
  BY <1>3, <1>4 DEF FragmentFree, ServiceFragments
<1> HIDE DEF d
<1>8. /\ Sections(d).svc_count_pos = SvcPos(x) /\ U32(d, SvcPos(x)) = Len(x.services)
  BY <1>4, CountsRead
<1>9. /\ y \in Contents
      /\ Patch(AppendEntry(d, ServiceSpace(v), ServiceBytes(v)), SvcPos(x), <<Len(x.services) + 1>>)
           = e
  BY <1>4, <1>5, ServiceAppended
<1>10. Edit(s, k, e)
  <2> HIDE DEF e
  <2> QED
    BY <1>3, <1>8, <1>9
<1>11. ss \in Seq(Service) /\ Distinct(ss) /\ Range(ss) = Range(x.services) \cup {v}
       /\ KeepsPlaces(Names(x.services), Names(ss))
  <2> DEFINE l == x.services
             r == ss
  <2>1. l \in Seq(Service) /\ Distinct(l) /\ (\A a \in Range(l) : a.fragment # v.fragment)
        /\ r = l \o <<v>> /\ v \in Service
    BY <1>4, <1>5, <1>6, <1>7
  <2> HIDE DEF l, r
  <2> QED
    BY <2>1, ServicesGrown DEF l, r
<1> HIDE DEF ss
<1>12. ServicesEdits(s, k, x, ss, e)
  BY <1>2, <1>10, <1>11 DEF ServicesEdits
<1> HIDE DEF y, e
<1>13. /\ \E z : Moves(s, x, z)
       /\ Update(s, k, [account[s] EXCEPT !.services = Range(ss)])
  BY <1>12, ServicesEditMoves
<1>14. Update(s, k, [account[s] EXCEPT !.services = @ \cup {v}])
  BY <1>4, <1>11, <1>13
<1>15. Cardinality(account[s].services) < MaxServices
  <2> DEFINE n == Len(x.services)
             c == Cardinality(Range(x.services))
  <2>1. IsFiniteSet(Range(x.services)) /\ c <= n
    BY <1>6, RangeSize
  <2>2. c \in Nat
    BY <2>1, FS_CardinalityType
  <2>3. n < MaxServices /\ n \in Nat /\ MaxServices \in Nat
    BY <1>1, <1>4, <1>8, ContentsTypes, DocumentAssumption DEF d
  <2> HIDE DEF n
  <2>4. c < MaxServices
    <3> HIDE DEF c
    <3> QED
      BY <2>1, <2>2, <2>3
  <2> QED
    BY <1>4, <2>4
<1>16. AddService(s, k)
  <2> DEFINE f == v.fragment
             w == v.value
  <2>1. v = [fragment |-> f, value |-> w] /\ f \in ValidFragment /\ w \in ValidServiceValue
    BY <1>5
  <2>2. FragmentFree(account[s], f)
    BY <1>3
  <2> HIDE DEF f, w
  <2>3. Update(s, k, [account[s] EXCEPT !.services = @ \cup {[fragment |-> f, value |-> w]}])
    BY <1>14, <2>1
  <2> QED
    BY <1>1, <1>15, <2>1, <2>2, <2>3 DEF AddService
<1> QED
  BY <1>13, <1>16

\* update_service in place is UpdateService.
LEMMA UpdateServiceStep ==
  ASSUME LayoutInv, NEW s \in Subject, NEW k \in Signer, UpdateServiceBytes(s, k)
  PROVE  UpdateService(s, k) /\ \E x, z : Moves(s, x, z)
<1> DEFINE d == data[s]
<1>1. Authorized(s, k)
  BY DEF UpdateServiceBytes
<1>2. PICK x : Records(s, x)
  BY <1>1, LiveIsWritten
<1>3. PICK p \in Range(ServiceStarts(d)), value \in ValidServiceValue :
        Edit(s, k, ReplaceSpan(d, p, ServiceEnd(d)[p],
                               ServiceSpace([ServiceAt(d, p) EXCEPT !.value = value]),
                               ServiceBytes([ServiceAt(d, p) EXCEPT !.value = value])))
  BY DEF UpdateServiceBytes
<1>4. /\ x \in Contents /\ d = Written(x)
      /\ account[s].services = Range(x.services) /\ Distinct(x.services)
  BY <1>2, RecordsRead
<1>5. PICK i \in 1..Len(x.services) : IsService(d, x, p, i)
  BY <1>2, ServiceVisited
<1>6. /\ p = ServiceStart(x, i) /\ ServiceAt(d, p) = x.services[i]
        /\ x.services[i] \in Service
        /\ ServiceEnd(d)[p] = p + ServiceSpace(x.services[i])
        /\ x.services[i] \in Range(x.services)
  BY <1>5 DEF IsService
<1> DEFINE a == x.services[i]
           v == [a EXCEPT !.value = value]
           ss == Exchange(x.services, i, <<v>>)
           y == [x EXCEPT !.services = ss]
           e == Written(y)
           q == ServiceEnd(d)[p]
<1>7. x.services \in Seq(Service)
  BY <1>4, ContentsTypes
<1>8. v \in Service /\ v.fragment = x.services[i].fragment
  BY <1>6, DocumentAssumption DEF Service
<1>9. Edit(s, k, ReplaceSpan(d, p, q, ServiceSpace(v), ServiceBytes(v)))
  BY <1>3, <1>6
<1> HIDE DEF d, q
<1>10. /\ ss \in Seq(Service)
      /\ ReplaceSpan(d, p, q, ServiceSpace(v), ServiceBytes(v)) = e
  <2>1. q = p + ServiceSpace(x.services[i])
    BY <1>6 DEF q, d
  <2> DEFINE ns == ss
             w == y
             b == v
  <2>2. ns = Exchange(x.services, i, <<b>>) /\ w = [x EXCEPT !.services = ns] /\ b \in Service
    BY <1>8
  <2> HIDE DEF ns, w, b
  <2>3. /\ ns \in Seq(Service)
        /\ ReplaceSpan(d, p, q, ServiceSpace(b), ServiceBytes(b)) = Written(w)
    BY <1>4, <1>6, <2>1, <2>2, ServiceReplaced
  <2> QED
    BY <2>3 DEF ns, w, b
<1>11. Edit(s, k, e)
  <2> HIDE DEF e
  <2> QED
    BY <1>9, <1>10
<1>12. Distinct(ss) /\ Range(ss) = (Range(x.services) \ {a}) \cup {v}
       /\ KeepsPlaces(Names(x.services), Names(ss))
  <2> DEFINE l == x.services
             r == ss
             b == v
  <2>1. l \in Seq(Service) /\ Distinct(l) /\ i \in 1..Len(l) /\ r = Exchange(l, i, <<b>>)
        /\ b.fragment = l[i].fragment /\ b \in Service
    BY <1>4, <1>7, <1>8
  <2> HIDE DEF l, r, b
  <2>2. Distinct(r) /\ Range(r) = (Range(l) \ {l[i]}) \cup {b} /\ KeepsPlaces(Names(l), Names(r))
    BY <2>1, AllNamed, ListChanged
  <2> QED
    BY <2>2 DEF l, r, b
<1> HIDE DEF ss
<1>13. ServicesEdits(s, k, x, ss, e)
  BY <1>2, <1>10, <1>11, <1>12 DEF ServicesEdits
<1> HIDE DEF y, e
<1>14. /\ \E z : Moves(s, x, z)
       /\ Update(s, k, [account[s] EXCEPT !.services = Range(ss)])
  BY <1>13, ServicesEditMoves
<1>15. Update(s, k, [account[s] EXCEPT !.services = (@ \ {a}) \cup {v}])
  BY <1>4, <1>12, <1>14
<1>16. UpdateService(s, k)
  <2>1. a \in account[s].services
    BY <1>4, <1>6
  <2> HIDE DEF a
  <2> QED
    BY <1>1, <1>15, <2>1 DEF UpdateService
<1> QED
  BY <1>14, <1>16

\* remove_service in place is RemoveService.
LEMMA RemoveServiceStep ==
  ASSUME LayoutInv, NEW s \in Subject, NEW k \in Signer, RemoveServiceBytes(s, k)
  PROVE  RemoveService(s, k) /\ \E x, z : Moves(s, x, z)
<1> DEFINE d == data[s]
<1>1. Authorized(s, k)
  BY DEF RemoveServiceBytes
<1>2. PICK x : Records(s, x)
  BY <1>1, LiveIsWritten
<1>3. PICK p \in Range(ServiceStarts(d)) :
        Edit(s, k, Patch(RemoveSpan(d, p, ServiceEnd(d)[p]),
                         Sections(d).svc_count_pos, <<U32(d, Sections(d).svc_count_pos) - 1>>))
  BY DEF RemoveServiceBytes
<1>4. /\ x \in Contents /\ d = Written(x)
      /\ account[s].services = Range(x.services) /\ Distinct(x.services)
  BY <1>2, RecordsRead
<1>5. PICK i \in 1..Len(x.services) : IsService(d, x, p, i)
  BY <1>2, ServiceVisited
<1>6. /\ p = ServiceStart(x, i) /\ ServiceAt(d, p) = x.services[i]
        /\ x.services[i] \in Service
        /\ ServiceEnd(d)[p] = p + ServiceSpace(x.services[i])
        /\ x.services[i] \in Range(x.services)
  BY <1>5 DEF IsService
<1> DEFINE a == x.services[i]
           ss == Exchange(x.services, i, <<>>)
           y == [x EXCEPT !.services = ss]
           e == Written(y)
           q == ServiceEnd(d)[p]
<1>7. x.services \in Seq(Service)
  BY <1>4, ContentsTypes
<1> HIDE DEF d, q
<1>8. /\ ss \in Seq(Service)
      /\ Patch(RemoveSpan(d, p, q), SvcPos(x), <<Len(x.services) - 1>>) = e
  <2>1. q = p + ServiceSpace(x.services[i])
    BY <1>6 DEF q, d
  <2> DEFINE ns == ss
             w == y
  <2>2. ns = Exchange(x.services, i, <<>>) /\ w = [x EXCEPT !.services = ns]
    OBVIOUS
  <2> HIDE DEF ns, w
  <2>3. /\ ns \in Seq(Service)
        /\ Patch(RemoveSpan(d, p, q), SvcPos(x), <<Len(x.services) - 1>>) = Written(w)
    BY <1>4, <1>6, <2>1, <2>2, ServiceRemoved
  <2> QED
    BY <2>3 DEF ns, w
<1>9. Edit(s, k, e)
  <2>1. Sections(d).svc_count_pos = SvcPos(x) /\ U32(d, SvcPos(x)) = Len(x.services)
    BY <1>4, CountsRead
  <2> HIDE DEF e
  <2> QED
    BY <1>3, <1>8, <2>1 DEF q, d
<1>10. Distinct(ss) /\ Range(ss) = Range(x.services) \ {a}
      /\ KeepsPlaces(Names(x.services), Names(ss))
  <2> DEFINE l == x.services
             r == ss
  <2>1. l \in Seq(Service) /\ Distinct(l) /\ i \in 1..Len(l) /\ r = Exchange(l, i, <<>>)
    BY <1>4, <1>7
  <2> HIDE DEF l, r
  <2>2. Distinct(r) /\ Range(r) = Range(l) \ {l[i]} /\ KeepsPlaces(Names(l), Names(r))
    BY <2>1, AllNamed, ListShrunk
  <2> QED
    BY <2>2 DEF l, r
<1> HIDE DEF ss
<1>11. ServicesEdits(s, k, x, ss, e)
  BY <1>2, <1>8, <1>9, <1>10 DEF ServicesEdits
<1> HIDE DEF y, e
<1>12. /\ \E z : Moves(s, x, z)
       /\ Update(s, k, [account[s] EXCEPT !.services = Range(ss)])
  BY <1>11, ServicesEditMoves
<1>13. Update(s, k, [account[s] EXCEPT !.services = @ \ {a}])
  BY <1>4, <1>10, <1>12
<1>14. RemoveService(s, k)
  <2>1. a \in account[s].services
    BY <1>4, <1>6
  <2> HIDE DEF a
  <2> QED
    BY <1>1, <1>13, <2>1 DEF RemoveService
<1> QED
  BY <1>12, <1>14

\* Contents with other controllers have the document with those controllers.
LEMMA ControllersEdited ==
  ASSUME NEW x \in Contents, NEW ns, NEW os, NEW y, y = Redirected(x, ns, os)
  PROVE  /\ DocumentOf(y) = Redirected(DocumentOf(x), ns, os)
         /\ y.vms = x.vms /\ y.services = x.services
<1>1. /\ y.vms = x.vms /\ y.services = x.services /\ y.version = x.version /\ y.flag = x.flag
      /\ y.natives = ns /\ y.others = os
  BY DEF Redirected, Contents
<1> DEFINE D == DocumentOf(x)
           E == [D EXCEPT !.natives = ns]
           st == IF x.flag = 0 THEN "active" ELSE "deactivated"
<1>2. D = [state |-> st, version |-> x.version, natives |-> x.natives, others |-> x.others,
           vms |-> Range(x.vms), services |-> Range(x.services)]
  BY DEF DocumentOf
<1> HIDE DEF D, st
<1>3. E = [state |-> st, version |-> x.version, natives |-> ns, others |-> x.others,
           vms |-> Range(x.vms), services |-> Range(x.services)]
  BY <1>2
<1>4. [D EXCEPT !.natives = ns, !.others = os] = [E EXCEPT !.others = os]
  OBVIOUS
<1> HIDE DEF E
<1>5. [D EXCEPT !.natives = ns, !.others = os]
        = [state |-> st, version |-> x.version, natives |-> ns, others |-> os,
           vms |-> Range(x.vms), services |-> Range(x.services)]
  BY <1>3, <1>4
<1>6. DocumentOf(y)
        = [state |-> st, version |-> x.version, natives |-> ns, others |-> os,
           vms |-> Range(x.vms), services |-> Range(x.services)]
  BY <1>1 DEF DocumentOf, st
<1> QED
  BY <1>1, <1>5, <1>6 DEF D, Redirected

\* set_controllers in place is SetControllers.
LEMMA SetControllersStep ==
  ASSUME LayoutInv, NEW s \in Subject, NEW k \in Signer, SetControllersBytes(s, k)
  PROVE  SetControllers(s, k) /\ \E x, z : Moves(s, x, z)
<1> DEFINE d == data[s]
<1>1. Authorized(s, k)
  BY DEF SetControllersBytes
<1>2. PICK x : Records(s, x)
  BY <1>1, LiveIsWritten
<1>3. PICK natives \in ControllerInput, others \in OtherInput :
        /\ ValidControllers(s, natives, others)
        /\ Edit(s, k, ReplaceSpan(d, OffSections, Sections(d).vm_count_pos,
                                  Len(ControllerBytes(natives, others)),
                                  ControllerBytes(natives, others)))
  BY DEF SetControllersBytes
<1>4. /\ x \in Contents /\ d = Written(x) /\ account[s] = DocumentOf(x)
      /\ Distinct(x.vms) /\ Distinct(x.services)
  BY <1>2, RecordsRead
<1>5. natives \in Seq(Subject) /\ others \in Seq(External)
  BY RegistryAssumption
<1> DEFINE y == Redirected(x, natives, others)
           bytes == ControllerBytes(natives, others)
           e == Written(y)
<1> HIDE DEF d
<1>6. ControllersEdit(x, d, natives, others, bytes)
  BY <1>4, <1>5 DEF ControllersEdit
<1> HIDE DEF bytes
<1>7. /\ y \in Contents /\ y.vms = x.vms /\ y.services = x.services
      /\ ReplaceSpan(d, OffSections, VmPos(x), Len(bytes), bytes) = e
      /\ DocumentOf(y) = Redirected(DocumentOf(x), natives, others)
  <2>1. y \in Contents /\ ReplaceSpan(d, OffSections, VmPos(x), Len(bytes), bytes) = e
    BY <1>6, ControllersReplaced
  <2> HIDE DEF e
  <2>2. y = Redirected(x, natives, others) /\ x \in Contents
    BY <1>4
  <2> HIDE DEF y
  <2>3. /\ DocumentOf(y) = Redirected(DocumentOf(x), natives, others)
        /\ y.vms = x.vms /\ y.services = x.services
    BY <2>2, ControllersEdited
  <2> QED
    BY <2>1, <2>3
<1> HIDE DEF y
<1>8. Edit(s, k, e)
  <2>1. Sections(d).vm_count_pos = VmPos(x)
    BY <1>4, CountsRead
  <2>2. Edit(s, k, ReplaceSpan(d, OffSections, Sections(d).vm_count_pos, Len(bytes), bytes))
    BY <1>3 DEF d, bytes
  <2> HIDE DEF e
  <2> QED
    BY <1>7, <2>1, <2>2
<1>9. DocumentOf(y) = [account[s] EXCEPT !.natives = natives, !.others = others]
  BY <1>4, <1>7 DEF Redirected
<1>10. EditsBytes(s, k, x, y, e)
  <2>1. InPlace(x, y)
    BY <1>7, ListUnchanged DEF InPlace
  <2> QED
    BY <1>2, <1>4, <1>7, <1>8, <2>1 DEF EditsBytes
<1> HIDE DEF e
<1>11. Moves(s, x, Newer(y)) /\ Update(s, k, DocumentOf(y))
  BY <1>10, EditMoves
<1>12. SetControllers(s, k)
  BY <1>1, <1>3, <1>9, <1>11 DEF SetControllers
<1> QED
  BY <1>11, <1>12

\* deactivate in place is Deactivate.
LEMMA DeactivateStep ==
  ASSUME LayoutInv, NEW s \in Subject, NEW k \in Signer, DeactivateBytes(s, k)
  PROVE  Deactivate(s, k) /\ \E x, z : Moves(s, x, z)
<1> DEFINE d == data[s]
<1>1. /\ Authorized(s, k)
      /\ Edit(s, k, Resize(Patch(d, OffDeactivated, <<1, 0, 0, 0, 0>>), BaseSpace))
  BY DEF DeactivateBytes
<1>2. PICK x : Records(s, x)
  BY <1>1, LiveIsWritten
<1>3. x \in Contents /\ d = Written(x) /\ account[s] = DocumentOf(x)
  BY <1>2, RecordsRead
<1> DEFINE y == Emptied(x)
           e == Written(y)
<1> HIDE DEF d
<1>4. /\ y \in Contents
      /\ Resize(Patch(d, OffDeactivated, <<1, 0, 0, 0, 0>>), BaseSpace) = e
  BY <1>3, EmptiedWritten
<1>5. Edit(s, k, e)
  <2> HIDE DEF e
  <2> QED
    BY <1>1, <1>4
<1>6. /\ y.vms = <<>> /\ y.services = <<>> /\ y.version = x.version /\ y.flag = 1
      /\ y.natives = <<>> /\ y.others = <<>>
  BY DEF Emptied
<1> HIDE DEF y
<1>7. DocumentOf(y) = Tombstone(account[s])
  <2>1. Range(<<>>) = {}
    BY DEF Range
  <2>2. account[s].version = x.version
    BY <1>3 DEF DocumentOf
  <2>3. /\ Range(y.vms) = {} /\ Range(y.services) = {} /\ y.natives = <<>> /\ y.others = <<>>
        /\ y.version = account[s].version /\ y.flag = 1
    BY <1>6, <2>1, <2>2
  <2>4. (IF y.flag = 0 THEN "active" ELSE "deactivated") = "deactivated"
    BY <2>3
  <2> QED
    BY <2>3, <2>4 DEF DocumentOf, Tombstone
<1>8. EditsBytes(s, k, x, y, e)
  <2>1. InPlace(x, y)
    BY <1>6, ListEmptied DEF InPlace
  <2>2. Distinct(y.vms) /\ Distinct(y.services)
    BY <1>6 DEF Distinct
  <2> QED
    BY <1>2, <1>4, <1>5, <2>1, <2>2 DEF EditsBytes
<1> HIDE DEF e
<1>9. Moves(s, x, Newer(y)) /\ Update(s, k, DocumentOf(y))
  BY <1>8, EditMoves
<1>10. Deactivate(s, k)
  BY <1>1, <1>7, <1>9 DEF Deactivate
<1> QED
  BY <1>9, <1>10

\* What an account is created with is the initial document.
LEMMA FoundedDocument ==
  ASSUME NEW key \in Key
  PROVE  /\ DocumentOf(Founded(key)) = InitialDocument(key)
         /\ Distinct(Founded(key).vms) /\ Distinct(Founded(key).services)
<1> DEFINE z == Founded(key)
           m == FoundingMethod(key)
<1>1. /\ z.version = 1 /\ z.flag = 0 /\ z.natives = <<>> /\ z.others = <<>>
      /\ z.vms = <<m>> /\ z.services = <<>>
  BY DEF Founded
<1> HIDE DEF z
<1>2. Range(<<m>>) = {m} /\ Range(<<>>) = {}
  <2> HIDE DEF m
  <2> QED
    BY DEF Range
<1>3. DocumentOf(z) = InitialDocument(key)
  BY <1>1, <1>2 DEF DocumentOf, InitialDocument
<1>4. Distinct(z.vms) /\ Distinct(z.services)
  <2> HIDE DEF m
  <2> QED
    BY <1>1 DEF Distinct
<1> QED
  BY <1>3, <1>4 DEF z

\* What either initialize does to the account at s.
CreatesBytes(s, key) == s \in Subject /\ key \in Key /\ data[s] = <<>> /\ Write(s, InitialBytes(key))

\* Both are Create, and only where there was no account.
LEMMA CreateStep ==
  ASSUME LayoutInv, NEW s, NEW key, CreatesBytes(s, key)
  PROVE  Create(s, key) /\ Blank(s) /\ \E z : Becomes(s, z)
<1> DEFINE z == Founded(key)
           e == InitialBytes(key)
<1>1. /\ s \in Subject /\ key \in Key /\ data[s] = <<>>
      /\ data' = [data EXCEPT ![s] = e]
      /\ account' = [account EXCEPT ![s] = DocumentIn(e)]
  BY DEF CreatesBytes, Write
<1>2. Blank(s)
  <2>1. ASSUME NEW x, Records(s, x) PROVE FALSE
    <3> DEFINE d == data[s]
    <3>1. x \in Contents /\ d = Written(x)
      BY <2>1, RecordsRead
    <3> HIDE DEF d
    <3>2. d # <<>>
      BY <3>1, SectionsFound
    <3> QED
      BY <1>1, <3>2 DEF d
  <2> QED
    BY <1>1, <2>1 DEF LayoutInv
<1>3. z \in Contents /\ e = Written(z)
  BY <1>1, FoundedWritten
<1>4. DocumentOf(z) = InitialDocument(key) /\ Distinct(z.vms) /\ Distinct(z.services)
  BY <1>1, FoundedDocument
<1> HIDE DEF z, e
<1>5. DocumentIn(e) = DocumentOf(z)
  BY <1>3, DocumentRead
<1>6. Becomes(s, z)
  BY <1>1, <1>3, <1>4, <1>5 DEF Becomes
<1>7. Create(s, key)
  BY <1>1, <1>2, <1>4, <1>5 DEF Create, Blank, NoAccount
<1> QED
  BY <1>2, <1>6, <1>7

\* initialize is Initialize.
LEMMA InitializeStep ==
  ASSUME LayoutInv, NEW s \in Subject, InitializeBytes(s)
  PROVE  Initialize(s) /\ Blank(s) /\ \E z : Becomes(s, z)
<1>1. s \in OnCurve /\ signedBy' = {} /\ CreatesBytes(s, s)
  BY DocumentAssumption DEF InitializeBytes, CreatesBytes
<1> QED
  BY <1>1, CreateStep DEF Initialize

\* initialize_owned is InitializeOwned.
LEMMA InitializeOwnedStep ==
  ASSUME LayoutInv, NEW k \in Signer, NEW n \in Nonce, InitializeOwnedBytes(k, n),
         NEW s, s = OwnedSubject(k, n)
  PROVE  InitializeOwned(k, n) /\ s \in Subject /\ Blank(s) /\ \E z : Becomes(s, z)
<1>1. s \in Subject /\ signedBy' = {k} /\ CreatesBytes(s, k)
  BY RegistryAssumption DEF InitializeOwnedBytes, CreatesBytes
<1> QED
  BY <1>1, CreateStep DEF InitializeOwned

-----------------------------------------------------------------------------
(* Every step *)

\* No account exists at first.
LEMMA StartIsBlank == ASSUME LayoutInit PROVE LayoutInv
<1>1. DOMAIN account = Subject /\ DOMAIN data = Subject
  BY DEF LayoutInit, Init
<1>2. \A s \in Subject : Blank(s)
  BY DEF LayoutInit, Init, Blank
<1> QED
  BY <1>1, <1>2 DEF LayoutInv

\* A creation keeps the invariant and moves no entry.
LEMMA CreationSteps ==
  ASSUME LayoutInv, NEW s \in Subject, Blank(s), \E z : Becomes(s, z)
  PROVE  LayoutInv' /\ PlacesStep
<1>1. PICK z : Becomes(s, z)
  OBVIOUS
<1>2. LayoutInv'
  BY <1>1, StepKeeps
<1>3. PlacesStep
  BY <1>1, MoveKeepsPlaces
<1> QED
  BY <1>2, <1>3

\* Neither does an edit.
LEMMA EditSteps ==
  ASSUME LayoutInv, NEW s \in Subject, \E x, z : Moves(s, x, z)
  PROVE  LayoutInv' /\ PlacesStep
<1>1. PICK x, z : Moves(s, x, z)
  OBVIOUS
<1>2. Becomes(s, z)
  BY <1>1 DEF Moves
<1>3. LayoutInv'
  BY <1>2, StepKeeps
<1>4. PlacesStep
  BY <1>1, <1>2, MoveKeepsPlaces
<1> QED
  BY <1>3, <1>4

\* Neither does a step that leaves the accounts alone.
LEMMA UnchangedStep ==
  ASSUME LayoutInv, UNCHANGED layoutVars
  PROVE  LayoutInv' /\ PlacesStep
<1>1. data' = data /\ account' = account
  BY DEF layoutVars
<1>2. LayoutInv'
  BY <1>1 DEF LayoutInv, Blank, Records
<1>3. PlacesStep
  BY <1>1, ListUnchanged DEF PlacesStep
<1> QED
  BY <1>2, <1>3

\* Every step keeps the invariant, is a step of DidRegistry on the documents or
\* leaves them alone, and keeps the entries in their places.
LEMMA LayoutStep ==
  ASSUME LayoutInv, [LayoutNext]_layoutVars
  PROVE  LayoutInv' /\ [Next]_vars /\ PlacesStep
<1>1. ASSUME NEW s \in Subject, InitializeBytes(s) PROVE LayoutInv' /\ Next /\ PlacesStep
  <2>1. Initialize(s) /\ Blank(s) /\ \E z : Becomes(s, z)
    BY <1>1, InitializeStep
  <2>2. LayoutInv' /\ PlacesStep
    BY <2>1, CreationSteps
  <2> QED
    BY <2>1, <2>2 DEF Next
<1>2. ASSUME NEW k \in Signer, NEW n \in Nonce, InitializeOwnedBytes(k, n)
      PROVE  LayoutInv' /\ Next /\ PlacesStep
  <2> DEFINE s == OwnedSubject(k, n)
  <2>1. InitializeOwned(k, n) /\ s \in Subject /\ Blank(s) /\ \E z : Becomes(s, z)
    BY <1>2, InitializeOwnedStep
  <2> HIDE DEF s
  <2>2. LayoutInv' /\ PlacesStep
    BY <2>1, CreationSteps
  <2> QED
    BY <2>1, <2>2 DEF Next
<1>3. ASSUME NEW s \in Subject, NEW k \in Signer,
             \/ AddVmBytes(s, k)
             \/ RemoveVmBytes(s, k)
             \/ SetFlagsBytes(s, k)
             \/ AddServiceBytes(s, k)
             \/ UpdateServiceBytes(s, k)
             \/ RemoveServiceBytes(s, k)
             \/ SetControllersBytes(s, k)
             \/ DeactivateBytes(s, k)
      PROVE  LayoutInv' /\ Next /\ PlacesStep
  <2> DEFINE Updates ==
               \/ AddVerificationMethod(s, k)
               \/ RemoveVerificationMethod(s, k)
               \/ SetVerificationMethodFlags(s, k)
               \/ AddService(s, k)
               \/ UpdateService(s, k)
               \/ RemoveService(s, k)
               \/ SetControllers(s, k)
               \/ Deactivate(s, k)
             Moved == \E x, z : Moves(s, x, z)
  <2> SUFFICES Updates /\ Moved
    <3> HIDE DEF Moved
    <3>1. Next
      BY DEF Next
    <3>2. LayoutInv' /\ PlacesStep
      BY EditSteps DEF Moved
    <3> QED
      BY <3>1, <3>2
  <2>1. CASE AddVmBytes(s, k)
    <3>1. AddVerificationMethod(s, k) /\ Moved
      BY <2>1, AddVmStep
    <3> QED
      BY <3>1
  <2>2. CASE RemoveVmBytes(s, k)
    <3>1. RemoveVerificationMethod(s, k) /\ Moved
      BY <2>2, RemoveVmStep
    <3> QED
      BY <3>1
  <2>3. CASE SetFlagsBytes(s, k)
    <3>1. SetVerificationMethodFlags(s, k) /\ Moved
      BY <2>3, SetFlagsStep
    <3> QED
      BY <3>1
  <2>4. CASE AddServiceBytes(s, k)
    <3>1. AddService(s, k) /\ Moved
      BY <2>4, AddServiceStep
    <3> QED
      BY <3>1
  <2>5. CASE UpdateServiceBytes(s, k)
    <3>1. UpdateService(s, k) /\ Moved
      BY <2>5, UpdateServiceStep
    <3> QED
      BY <3>1
  <2>6. CASE RemoveServiceBytes(s, k)
    <3>1. RemoveService(s, k) /\ Moved
      BY <2>6, RemoveServiceStep
    <3> QED
      BY <3>1
  <2>7. CASE SetControllersBytes(s, k)
    <3>1. SetControllers(s, k) /\ Moved
      BY <2>7, SetControllersStep
    <3> QED
      BY <3>1
  <2>8. CASE DeactivateBytes(s, k)
    <3>1. Deactivate(s, k) /\ Moved
      BY <2>8, DeactivateStep
    <3> QED
      BY <3>1
  <2> QED
    BY <1>3, <2>1, <2>2, <2>3, <2>4, <2>5, <2>6, <2>7, <2>8
<1>4. ASSUME UNCHANGED layoutVars PROVE LayoutInv' /\ UNCHANGED vars /\ PlacesStep
  <2>1. LayoutInv' /\ PlacesStep
    BY <1>4, UnchangedStep
  <2> QED
    BY <1>4, <2>1 DEF layoutVars, vars
<1>5. ASSUME LayoutNext PROVE LayoutInv' /\ Next /\ PlacesStep
  BY <1>1, <1>2, <1>3, <1>5 DEF LayoutNext
<1> QED
  BY <1>4, <1>5

-----------------------------------------------------------------------------
(* The theorems *)

\* Whatever edits were made of it, an account is written with contents that
\* name each entry once, and reads as their document.
THEOREM EveryAccountIsWritten == LayoutSpec => []LayoutInv
<1>1. LayoutInit => LayoutInv
  BY StartIsBlank
<1>2. LayoutInv /\ [LayoutNext]_layoutVars => LayoutInv'
  BY LayoutStep
<1> QED
  BY <1>1, <1>2, PTL DEF LayoutSpec

\* So it is exact-size at all times: the section map and the cursors account
\* for every cell of it, and none is stale (Sections::parse).
THEOREM AccountsAreExactlySerialized == LayoutSpec => []ExactlySerialized
<1>1. LayoutInv => ExactlySerialized
  <2> SUFFICES ASSUME LayoutInv, NEW s \in Subject, data[s] # <<>>
               PROVE  Parses(data[s]) /\ data[s] = Serialized(data[s])
    BY DEF ExactlySerialized
  <2>1. PICK x : Records(s, x)
    BY DEF LayoutInv, Blank
  <2> DEFINE d == data[s]
  <2>2. x \in Contents /\ d = Written(x)
    BY <2>1, RecordsRead
  <2> HIDE DEF d
  <2>3. Parses(d) /\ d = Serialized(d)
    BY <2>2, SerializedBack
  <2> QED
    BY <2>3 DEF d
<1> QED
  BY <1>1, EveryAccountIsWritten, PTL

\* The program on bytes implements the registry of documents: every in-place
\* edit, read back, is the instruction's edit of the document, or no edit.
THEOREM BytesImplementDocuments == LayoutSpec => BytesAreDocuments
<1>1. LayoutInit => Init
  BY DEF LayoutInit
<1>2. LayoutInv /\ [LayoutNext]_layoutVars => [Next]_vars
  BY LayoutStep
<1> QED
  BY <1>1, <1>2, EveryAccountIsWritten, PTL DEF LayoutSpec, BytesAreDocuments, Spec

\* No step moves an entry that stays: an updated service and a re-flagged
\* method keep their places (update_service), and others are as they were.
THEOREM EntriesKeepPlaces == LayoutSpec => PlacesKept
<1>1. LayoutInv /\ [LayoutNext]_layoutVars => [PlacesStep]_layoutVars
  BY LayoutStep
<1> QED
  BY <1>1, EveryAccountIsWritten, PTL DEF LayoutSpec, PlacesKept

-----------------------------------------------------------------------------
(* The length of an account.  No entry is in its list twice, so a sum over  *)
(* the list is a sum over the set that the document has of it.              *)

Once(s) == \A i, j \in 1..Len(s) : s[i] = s[j] => i = j

\* The text of a list is as long as its entries together.
LEMMA TextIsSum ==
  ASSUME NEW T, NEW c, Coding(T, c), NEW s \in Seq(T), Once(s),
         NEW f, \A x \in T : f[x] = Len(c[x])
  PROVE  IsFiniteSet(Range(s)) /\ Len(Text(c, s)) = Sum(f, Range(s))
<1> DEFINE n == Len(s)
           R(k) == {s[j] : j \in 1..k}
           len(k) == Len(Text(c, SubSeq(s, 1, k)))
           Holding(k) == IsFiniteSet(R(k)) /\ len(k) = Sum(f, R(k))
           G == {k \in Nat : k <= n => Holding(k)}
<1>1. n \in Nat
  BY LenProperties
<1>2. \A x \in T : c[x] \in Seq(Nat) /\ f[x] \in Nat /\ f[x] = Len(c[x])
  <2> TAKE x \in T
  <2>1. c[x] \in Seq(Nat)
    BY DEF Coding
  <2> QED
    BY <2>1, LenProperties
<1>3. Holding(0)
  <2>1. SubSeq(s, 1, 0) = <<>>
    BY SubSeqEmpty
  <2>2. Text(c, SubSeq(s, 1, 0)) = <<>>
    BY <2>1, TextEmpty
  <2>3. R(0) = {}
    OBVIOUS
  <2> QED
    BY <2>2, <2>3, FS_EmptySet, SumEmpty
<1>4. ASSUME NEW k \in Nat, k + 1 <= n, Holding(k)
      PROVE  Holding(k + 1)
  <2> DEFINE j == k + 1
             pre == SubSeq(s, 1, k)
             x == s[j]
             one == <<x>>
             A == R(k)
             B == R(j)
  <2>1. j \in 1..n /\ j - 1 = k /\ k \in 0..n
    BY <1>1, <1>4
  <2>2. pre \in Seq(T) /\ x \in T
    BY <2>1, Prefix, ElementOfSeq
  <2>3. B = A \cup {x} /\ x \notin A
    <3>1. 1..j = 1..k \cup {j}
      BY <1>1, <2>1
    <3>2. \A i \in 1..k : i \in 1..n /\ i # j
      BY <1>1, <2>1
    <3> HIDE DEF j
    <3>3. \A i \in 1..k : s[i] # s[j]
      BY <2>1, <3>2 DEF Once
    <3> QED
      BY <3>1, <3>3
  <2>4. SubSeq(s, 1, j) = pre \o one
    <3> HIDE DEF j
    <3> QED
      BY <2>1, PrefixGrows
  <2>5. IsFiniteSet(A) /\ Len(Text(c, pre)) = Sum(f, A)
    BY <1>4
  <2>6. A \subseteq T
    <3>1. \A i \in 1..k : i \in 1..n
      BY <1>1, <2>1
    <3>2. \A i \in 1..k : s[i] \in T
      BY <3>1, ElementOfSeq
    <3> QED
      BY <3>2
  <2>7. len(j) = Len(Text(c, pre \o one))
    BY <2>4
  <2> HIDE DEF j, pre, x, A, B, len, R
  <2>8. one \in Seq(T) /\ Text(c, one) = c[x]
    BY <2>2, TextOne
  <2> HIDE DEF one
  <2>9. Text(c, pre \o one) = Text(c, pre) \o Text(c, one)
    <3>1. Coding(T, c) /\ pre \in Seq(T) /\ one \in Seq(T)
      BY <2>2, <2>8
    <3> QED
      BY <3>1, TextJoined
  <2> DEFINE u == Text(c, pre)
             v == Text(c, one)
  <2>10. u \in Seq(Nat) /\ v \in Seq(Nat)
    BY <2>2, <2>8, TextType
  <2>11. Len(u) = Sum(f, A) /\ Len(v) = f[x]
    BY <1>2, <2>2, <2>5, <2>8
  <2>12. len(j) = Len(u \o v)
    BY <2>7, <2>9
  <2> HIDE DEF u, v
  <2>13. len(j) = Sum(f, A) + f[x]
    <3>1. Len(u \o v) = Len(u) + Len(v)
      BY <2>10, Joined
    <3> QED
      BY <2>11, <2>12, <3>1
  <2>14. IsFiniteSet(B)
    BY <2>3, <2>5, FS_AddElement
  <2>15. Sum(f, B) = f[x] + Sum(f, A)
    <3>1. \A y \in B : f[y] \in Int
      BY <1>2, <2>2, <2>3, <2>6
    <3>2. x \in B /\ B \ {x} = A
      BY <2>3
    <3>3. Sum(f, B) = f[x] + Sum(f, B \ {x})
      BY <2>14, <3>1, <3>2, SumTaken
    <3> QED
      BY <3>2, <3>3
  <2>16. Sum(f, A) \in Nat /\ f[x] \in Nat
    <3>1. \A y \in A : f[y] \in Nat
      BY <1>2, <2>6
    <3>2. Sum(f, A) \in Nat
      BY <2>5, <3>1, SumType
    <3> QED
      BY <1>2, <2>2, <3>2
  <2>17. len(j) = Sum(f, B)
    BY <2>13, <2>15, <2>16
  <2> QED
    BY <2>14, <2>17 DEF B, j
<1> HIDE DEF Holding
<1>5. \A k \in Nat : k \in G => k + 1 \in G
  <2> TAKE k \in Nat
  <2> HAVE k \in G
  <2>1. k + 1 <= n => Holding(k + 1)
    BY <1>1, <1>4
  <2> QED
    BY <2>1
<1>6. 0 \in G
  BY <1>3
<1> HIDE DEF G
<1>7. Nat \subseteq G
  BY <1>5, <1>6, Induction
<1>8. Holding(n)
  BY <1>1, <1>7 DEF G
<1>9. SubSeq(s, 1, n) = s
  BY SubSeqFull
<1>10. R(n) = Range(s)
  <2>1. DOMAIN s = 1..n
    OBVIOUS
  <2> QED
    BY <2>1 DEF Range
<1> QED
  BY <1>8, <1>9, <1>10 DEF Holding

VmSizes == [m \in Method |-> VmSpace(m)]
ServiceSizes == [v \in Service |-> ServiceSpace(v)]
OtherSizes == [c \in External |-> OtherSpace(c)]

\* The sums of a document are sums of functions: over its methods,
LEMMA VmSum ==
  ASSUME NEW S \in SUBSET Method, IsFiniteSet(S)
  PROVE  MapThenSumSet(VmSpace, S) = Sum(VmSizes, S)
<1> DEFINE Rec(g) == [s \in SUBSET S |-> IF s = {} THEN 0
                       ELSE VmSpace(Pick(s)) + g[s \ {Pick(s)}]]
           h == CHOOSE g : g = Rec(g)
<1>1. MapThenSumSet(VmSpace, S) = h[S]
  BY DEF MapThenSumSet, MapThenFoldSet, Pick
<1>2. ASSUME NEW g
      PROVE  Rec(g) = SumStep(VmSizes, S, g)
  <2>1. \A s \in SUBSET S : s # {} => VmSizes[Pick(s)] = VmSpace(Pick(s))
    BY PickIn DEF VmSizes
  <2> QED
    BY <2>1 DEF SumStep
<1>3. h = Rec(h)
  <2>1. Sums(VmSizes, S) = Rec(Sums(VmSizes, S))
    BY <1>2, SumsSolve
  <2> QED
    BY <2>1
<1> HIDE DEF h
<1>4. h = SumStep(VmSizes, S, h)
  BY <1>2, <1>3
<1> QED
  BY <1>1, <1>4, SumsSolution

\* its services,
LEMMA ServiceSum ==
  ASSUME NEW S \in SUBSET Service, IsFiniteSet(S)
  PROVE  MapThenSumSet(ServiceSpace, S) = Sum(ServiceSizes, S)
<1> DEFINE Rec(g) == [s \in SUBSET S |-> IF s = {} THEN 0
                       ELSE ServiceSpace(Pick(s)) + g[s \ {Pick(s)}]]
           h == CHOOSE g : g = Rec(g)
<1>1. MapThenSumSet(ServiceSpace, S) = h[S]
  BY DEF MapThenSumSet, MapThenFoldSet, Pick
<1>2. ASSUME NEW g
      PROVE  Rec(g) = SumStep(ServiceSizes, S, g)
  <2>1. \A s \in SUBSET S : s # {} => ServiceSizes[Pick(s)] = ServiceSpace(Pick(s))
    BY PickIn DEF ServiceSizes
  <2> QED
    BY <2>1 DEF SumStep
<1>3. h = Rec(h)
  <2>1. Sums(ServiceSizes, S) = Rec(Sums(ServiceSizes, S))
    BY <1>2, SumsSolve
  <2> QED
    BY <2>1
<1> HIDE DEF h
<1>4. h = SumStep(ServiceSizes, S, h)
  BY <1>2, <1>3
<1> QED
  BY <1>1, <1>4, SumsSolution

\* and its external controllers.
LEMMA OtherSum ==
  ASSUME NEW S \in SUBSET External, IsFiniteSet(S)
  PROVE  MapThenSumSet(OtherSpace, S) = Sum(OtherSizes, S)
<1> DEFINE Rec(g) == [s \in SUBSET S |-> IF s = {} THEN 0
                       ELSE OtherSpace(Pick(s)) + g[s \ {Pick(s)}]]
           h == CHOOSE g : g = Rec(g)
<1>1. MapThenSumSet(OtherSpace, S) = h[S]
  BY DEF MapThenSumSet, MapThenFoldSet, Pick
<1>2. ASSUME NEW g
      PROVE  Rec(g) = SumStep(OtherSizes, S, g)
  <2>1. \A s \in SUBSET S : s # {} => OtherSizes[Pick(s)] = OtherSpace(Pick(s))
    BY PickIn DEF OtherSizes
  <2> QED
    BY <2>1 DEF SumStep
<1>3. h = Rec(h)
  <2>1. Sums(OtherSizes, S) = Rec(Sums(OtherSizes, S))
    BY <1>2, SumsSolve
  <2> QED
    BY <2>1
<1> HIDE DEF h
<1>4. h = SumStep(OtherSizes, S, h)
  BY <1>2, <1>3
<1> QED
  BY <1>1, <1>4, SumsSolution

\* Each list of an account takes the room that the document gives its set.
LEMMA ListsTakeTheirSpace ==
  ASSUME NEW x \in Contents, Distinct(x.vms), Distinct(x.services), IsInjective(x.others)
  PROVE  /\ Len(VmText(x)) = MapThenSumSet(VmSpace, Range(x.vms))
         /\ Len(ServiceText(x)) = MapThenSumSet(ServiceSpace, Range(x.services))
         /\ Len(Text(OtherCode, x.others)) = MapThenSumSet(OtherSpace, Range(x.others))
<1>1. x.vms \in Seq(Method) /\ x.services \in Seq(Service) /\ x.others \in Seq(External)
  BY ContentsTypes
<1>2. \A m \in Method : VmSizes[m] = Len(VmCode[m])
  BY VmBytesType DEF VmSizes, VmCode
<1>3. \A v \in Service : ServiceSizes[v] = Len(ServiceCode[v])
  BY ServiceBytesType DEF ServiceSizes, ServiceCode
<1>4. \A c \in External : OtherSizes[c] = Len(OtherCode[c])
  <2> TAKE c \in External
  <2>1. c \in Seq(Nat)
    BY LayoutAssumption
  <2> QED
    BY <2>1, PrefixedType DEF OtherSizes, OtherCode, OtherSpace
<1>5. Once(x.vms) /\ Once(x.services)
  BY DEF Distinct, Once
<1>6. Once(x.others)
  <2>1. DOMAIN x.others = 1..Len(x.others)
    BY <1>1
  <2> QED
    BY <2>1 DEF Once, IsInjective
<1>7. IsFiniteSet(Range(x.vms)) /\ Len(VmText(x)) = Sum(VmSizes, Range(x.vms))
  BY <1>1, <1>2, <1>5, Codings, TextIsSum DEF VmText
<1>8. /\ IsFiniteSet(Range(x.services))
      /\ Len(ServiceText(x)) = Sum(ServiceSizes, Range(x.services))
  BY <1>1, <1>3, <1>5, Codings, TextIsSum DEF ServiceText
<1>9. /\ IsFiniteSet(Range(x.others))
      /\ Len(Text(OtherCode, x.others)) = Sum(OtherSizes, Range(x.others))
  BY <1>1, <1>4, <1>6, Codings, TextIsSum
<1>10. /\ Range(x.vms) \in SUBSET Method /\ Range(x.services) \in SUBSET Service
       /\ Range(x.others) \in SUBSET External
  BY <1>1, RangeOfList
<1> QED
  BY <1>7, <1>8, <1>9, <1>10, VmSum, ServiceSum, OtherSum

\* A written account is as long as its document's entries make it.
LEMMA WrittenLength ==
  ASSUME NEW x \in Contents, Distinct(x.vms), Distinct(x.services), IsInjective(x.others)
  PROVE  Len(Written(x)) = DocumentSpace(DocumentOf(x))
<1> DEFINE v == Len(VmText(x))
           w == Len(ServiceText(x))
           o == Len(Text(OtherCode, x.others))
           a == AddressLen * Len(x.natives)
           d == DocumentOf(x)
<1>1. x.natives \in Seq(Subject) /\ x.others \in Seq(External)
  BY ContentsTypes
<1>2. Len(Controllers(x)) = 1 + a + 1 + o
  BY <1>1, ControllersText DEF Controllers
<1>3. Len(Written(x)) = 2 + Len(Controllers(x)) + 1 + v + 1 + w
  BY WrittenHeld DEF VmPos, SvcPos
<1>4. /\ d.state # "absent" /\ d.natives = x.natives /\ d.others = x.others
      /\ d.vms = Range(x.vms) /\ d.services = Range(x.services)
  BY DEF DocumentOf
<1> HIDE DEF d
<1>5. DocumentSpace(d) = 6 + a + o + v + w
  BY <1>4, ListsTakeTheirSpace DEF DocumentSpace, BaseSpace, OffSections
<1>6. v \in Nat /\ w \in Nat /\ o \in Nat /\ a \in Nat
  <2>1. VmText(x) \in Seq(Nat) /\ ServiceText(x) \in Seq(Nat)
    BY ContentsTypes
  <2>2. Text(OtherCode, x.others) \in Seq(Nat)
    BY <1>1, Codings, TextType
  <2>3. Len(x.natives) \in Nat /\ AddressLen \in Nat
    BY <1>1, LenProperties, LayoutAssumption
  <2> QED
    BY <2>1, <2>2, <2>3, LenProperties
<1>7. Len(Written(x)) = 2 + (1 + a + 1 + o) + 1 + v + 1 + w
  BY <1>2, <1>3
<1> HIDE DEF a, o, v, w
<1>8. 2 + (1 + a + 1 + o) + 1 + v + 1 + w = 6 + a + o + v + w
  BY <1>6
<1>9. Len(Written(x)) = DocumentSpace(d)
  BY <1>5, <1>7, <1>8, Zenon
<1> QED
  BY <1>9 DEF d

\* An account is always as long as its document's entries together, for any
\* number of edits of entries of any length.  Entry by entry, this is the sum
\* that RentLedger has an account pay for, counted in cells (Space).
THEOREM LengthFollowsDocument == LayoutSpec => []LengthIsSpace
<1>1. LayoutInv /\ ControllersWellFormed => LengthIsSpace
  <2> SUFFICES ASSUME LayoutInv, ControllersWellFormed, NEW s \in Subject
               PROVE  Len(data[s]) = DocumentSpace(account[s])
    BY DEF LengthIsSpace
  <2>1. CASE Blank(s)
    <3>1. data[s] = <<>> /\ account[s].state = "absent"
      BY <2>1 DEF Blank, NoAccount
    <3> QED
      BY <3>1 DEF DocumentSpace
  <2>2. ASSUME NEW x, Records(s, x)
        PROVE  Len(data[s]) = DocumentSpace(account[s])
    <3>1. /\ x \in Contents /\ Distinct(x.vms) /\ Distinct(x.services)
          /\ data[s] = Written(x) /\ account[s] = DocumentOf(x)
      BY <2>2 DEF Records
    <3>2. IsInjective(x.others)
      BY <3>1 DEF ControllersWellFormed, DocumentOf
    <3> QED
      BY <3>1, <3>2, WrittenLength
  <2> QED
    BY <2>1, <2>2 DEF LayoutInv
<1> QED
  BY <1>1, EveryAccountIsWritten, BytesImplementDocuments, ControllersStayWellFormed, PTL
  DEF BytesAreDocuments

-----------------------------------------------------------------------------
(* What is promised of documents holds of the bytes *)

\* The accounts as the program keeps them, in cells that it edits in place,
\* keep every promise of the registry: an authority for every live DID, limits
\* and unique fragments, protection, versions, final tombstones and control by
\* live authorities alone.
THEOREM BytesKeepPromises == LayoutSpec => []DocumentPromises /\ ChangePromises
  BY BytesImplementDocuments, PromisesKept DEF BytesAreDocuments

=============================================================================
