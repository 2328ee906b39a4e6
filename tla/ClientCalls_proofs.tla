------------------------- MODULE ClientCalls_proofs -------------------------
(***************************************************************************)
(* What client.rs writes and what the handlers read are one: TakenIsACall  *)
(* and UnderstoodAsMeant, for every radix, address length, call, derived   *)
(* address and change on the way.                                          *)
(*                                                                         *)
(* Reading then writing: every field that ends within the data is the slice*)
(* its value is encoded to (FieldIsWritten), so the fields of data that a  *)
(* handler reads to its end join to the data (ReadToTheEnd), which is what *)
(* the builder of the call joins (BuiltData).  Writing then reading: a     *)
(* value that fits is read from its encoding wherever that is held         *)
(* (FieldIsRead), so the walk over the fields stops at their ends          *)
(* (ArgumentsAreRead).                                                     *)
(***************************************************************************)
EXTENDS ClientCalls, AccountBytes_proofs

-----------------------------------------------------------------------------
(* Numbers in bytes *)

\* The number of a digit more.
LEMMA DigitFirst ==
  ASSUME NEW R \in Nat \ {0}, NEW b \in 0..R-1, NEW x \in Nat
  PROVE  (b + R * x) \div R = x /\ (b + R * x) % R = b /\ b + R * x \in Nat
  <1> DEFINE n == b + R * x
             q == n \div R
             r == n % R
  <1>1. n \in Nat
    OBVIOUS
  <1>2. q \in Nat /\ r \in Nat /\ r < R /\ n = R * q + r
    <2> HIDE DEF n
    <2> QED BY <1>1
  <1> HIDE DEF q, r
  <1>3. R * q + r = R * x + b
    BY <1>2
  <1>4. q = x
    <2>1. ASSUME q >= x + 1 PROVE FALSE
      <3>1. R * q >= R * (x + 1) /\ R * (x + 1) = R * x + R
        BY <1>2, <2>1
      <3> QED BY <1>2, <1>3, <3>1
    <2>2. ASSUME x >= q + 1 PROVE FALSE
      <3>1. R * x >= R * (q + 1) /\ R * (q + 1) = R * q + R
        BY <1>2, <2>2
      <3> QED BY <1>2, <1>3, <3>1
    <2> QED BY <1>2, <2>1, <2>2
  <1>5. r = b
    BY <1>2, <1>3, <1>4
  <1> QED BY <1>1, <1>4, <1>5 DEF q, r

\* to_le_bytes, digit by digit.
Quotients(n, w, q) ==
  /\ q \in [0..w -> Nat] /\ q[0] = n
  /\ \A i \in 1..w : q[i] = q[i - 1] \div Radix
  /\ LE(n, w) = [i \in 1..w |-> q[i - 1] % Radix]

\* The digits of a number are found.
LEMMA QuotientsExist ==
  ASSUME ClientAssumption, NEW n \in Nat, NEW w \in Nat
  PROVE  \E q : Quotients(n, w, q)
  <1> DEFINE h == [i \in 1..w |-> [x \in Nat |-> x \div Radix]]
             Rec(g) == [i \in 0..w |-> IF i = 0 THEN n ELSE g[i - 1] \div Radix]
             Q == CHOOSE g : g = Rec(g)
             S == Nat
  <1>0. Radix \in Nat \ {0}
    BY DEF ClientAssumption
  <1>1. h \in [1..w -> [S -> S]]
    <2>1. \A x \in Nat : x \div Radix \in Nat
      BY <1>0
    <2> QED BY <2>1
  <1>2. PICK g : FollowsTo(S, w, n, h, g)
    <2>1. n \in S
      OBVIOUS
    <2> HIDE DEF h, S
    <2> QED BY <1>1, <2>1, BoundedRecursion
  <1>3. g = Rec(g)
    <2>1. /\ g \in [0..w -> S]
          /\ \A i \in 0..w : g[i] = IF i = 0 THEN n ELSE h[i][g[i - 1]]
      <3> HIDE DEF h
      <3> QED BY <1>2 DEF FollowsTo
    <2>2. \A i \in 0..w : i # 0 => h[i][g[i - 1]] = g[i - 1] \div Radix
      <3> TAKE i \in 0..w
      <3> HAVE i # 0
      <3>1. i - 1 \in 0..w /\ i \in 1..w
        OBVIOUS
      <3>2. g[i - 1] \in Nat
        BY <2>1, <3>1
      <3> QED BY <3>1, <3>2
    <2> HIDE DEF h
    <2>3. \A i \in 0..w : g[i] = IF i = 0 THEN n ELSE g[i - 1] \div Radix
      BY <2>1, <2>2
    <2> QED BY <2>1, <2>3
  <1>4. Q = Rec(Q)
    <2> HIDE DEF Rec
    <2> QED BY <1>3
  <1>5. LE(n, w) = [i \in 1..w |-> Q[i - 1] % Radix]
    BY DEF LE
  <1> HIDE DEF Q
  <1>6. \A i \in 0..w : Q[i] = IF i = 0 THEN n ELSE Q[i - 1] \div Radix
    BY <1>4
  <1>7. Q[0] = n /\ \A i \in 1..w : Q[i] = Q[i - 1] \div Radix
    BY <1>6
  <1>8. Q \in [0..w -> Nat]
    <2> DEFINE G == {i \in Nat : i <= w => Q[i] \in Nat}
    <2>1. 0 \in G
      BY <1>7
    <2>2. ASSUME NEW i \in Nat, i \in G
          PROVE  i + 1 \in G
      <3> SUFFICES ASSUME i + 1 <= w PROVE Q[i + 1] \in Nat
        OBVIOUS
      <3>1. i + 1 \in 1..w /\ (i + 1) - 1 = i /\ Q[i] \in Nat
        BY <2>2
      <3>2. Q[i + 1] = Q[i] \div Radix
        BY <1>7, <3>1
      <3> QED BY <1>0, <3>1, <3>2
    <2> HIDE DEF G
    <2>3. Nat \subseteq G
      BY <2>1, <2>2, Induction
    <2>4. \A i \in 0..w : Q[i] \in Nat
      BY <2>3 DEF G
    <2>5. Q = [i \in 0..w |-> Q[i]]
      BY <1>4
    <2> QED BY <2>4, <2>5
  <1> QED BY <1>5, <1>7, <1>8 DEF Quotients

\* from_le_bytes, from the last byte on.
Digits(d, p, w, f) ==
  /\ f \in [0..w -> Nat] /\ f[0] = 0
  /\ \A i \in 1..w : f[i] = d[p + w - (i - 1)] + Radix * f[i - 1]
  /\ Number(d, p, w) = f[w]

\* The digits of a number in place are summed up.
LEMMA DigitsExist ==
  ASSUME ClientAssumption, NEW d \in Seq(Byte), NEW p \in Nat, NEW w \in Nat, p + w <= Len(d)
  PROVE  \E f : Digits(d, p, w, f)
  <1> DEFINE b(i) == d[p + w - (i - 1)]
             h == [i \in 1..w |-> [x \in Nat |-> b(i) + Radix * x]]
             Rec(g) == [i \in 0..w |-> IF i = 0 THEN 0 ELSE d[p + w - (i - 1)] + Radix * g[i - 1]]
             F == CHOOSE g : g = Rec(g)
             S == Nat
             zero == 0
  <1>0. Radix \in Nat \ {0}
    BY DEF ClientAssumption
  <1>00. \A i \in 1..w : b(i) \in Nat
    <2> TAKE i \in 1..w
    <2>1. p + w - (i - 1) \in 1..Len(d)
      BY LenProperties
    <2>2. d[p + w - (i - 1)] \in Byte
      BY <2>1, ElementOfSeq
    <2> QED BY <1>0, <2>2 DEF Byte
  <1> HIDE DEF b
  <1>1. h \in [1..w -> [S -> S]]
    BY <1>0, <1>00
  <1>2. PICK g : FollowsTo(S, w, zero, h, g)
    <2>1. zero \in S
      OBVIOUS
    <2> HIDE DEF h, S, zero
    <2> QED BY <1>1, <2>1, BoundedRecursion
  <1>3. g = Rec(g)
    <2>1. /\ g \in [0..w -> S]
          /\ \A i \in 0..w : g[i] = IF i = 0 THEN zero ELSE h[i][g[i - 1]]
      <3> HIDE DEF h
      <3> QED BY <1>2 DEF FollowsTo
    <2>2. \A i \in 0..w : i # 0 => h[i][g[i - 1]] = b(i) + Radix * g[i - 1]
      <3> TAKE i \in 0..w
      <3> HAVE i # 0
      <3>1. i - 1 \in 0..w /\ i \in 1..w
        OBVIOUS
      <3>2. g[i - 1] \in Nat
        BY <2>1, <3>1
      <3> QED BY <3>1, <3>2
    <2> HIDE DEF h
    <2>3. \A i \in 0..w : g[i] = IF i = 0 THEN 0 ELSE b(i) + Radix * g[i - 1]
      BY <2>1, <2>2
    <2> QED BY <2>1, <2>3 DEF b
  <1>4. F = Rec(F)
    <2> HIDE DEF Rec
    <2> QED BY <1>3
  <1>5. Number(d, p, w) = F[w]
    BY DEF Number
  <1> HIDE DEF F
  <1>6. \A i \in 0..w : F[i] = IF i = 0 THEN 0 ELSE d[p + w - (i - 1)] + Radix * F[i - 1]
    BY <1>4
  <1>7. F[0] = 0 /\ \A i \in 1..w : F[i] = d[p + w - (i - 1)] + Radix * F[i - 1]
    <2>1. F[0] = 0
      BY <1>6
    <2>2. \A i \in 1..w : i \in 0..w /\ i # 0
      OBVIOUS
    <2>3. \A i \in 1..w : F[i] = d[p + w - (i - 1)] + Radix * F[i - 1]
      BY <1>6, <2>2
    <2> QED BY <2>1, <2>3
  <1>8. F \in [0..w -> Nat]
    <2> DEFINE G == {i \in Nat : i <= w => F[i] \in Nat}
    <2>1. 0 \in G
      BY <1>7
    <2>2. ASSUME NEW i \in Nat, i \in G
          PROVE  i + 1 \in G
      <3> SUFFICES ASSUME i + 1 <= w PROVE F[i + 1] \in Nat
        OBVIOUS
      <3>1. i + 1 \in 1..w /\ (i + 1) - 1 = i /\ F[i] \in Nat
        BY <2>2
      <3> DEFINE j == i + 1
      <3>3. F[j] = b(j) + Radix * F[j - 1] /\ b(j) \in Nat
        BY <1>7, <1>00, <3>1 DEF b
      <3>2. F[i + 1] = b(i + 1) + Radix * F[i] /\ b(i + 1) \in Nat
        BY <3>1, <3>3
      <3> DEFINE x == F[i]
                 y == b(i + 1)
      <3>4. x \in Nat /\ y \in Nat /\ F[i + 1] = y + Radix * x
        BY <3>1, <3>2
      <3> HIDE DEF x, y
      <3> QED BY <1>0, <3>4
    <2> HIDE DEF G
    <2>3. Nat \subseteq G
      BY <2>1, <2>2, Induction
    <2>4. \A i \in 0..w : F[i] \in Nat
      BY <2>3 DEF G
    <2>5. F = [i \in 0..w |-> F[i]]
      BY <1>4
    <2> QED BY <2>4, <2>5
  <1> QED BY <1>5, <1>7, <1>8 DEF Digits

\* The number that is read is written as it was read,
LEMMA ReadIsWritten ==
  ASSUME ClientAssumption, NEW d \in Seq(Byte), NEW p \in Nat, NEW w \in Nat, p + w <= Len(d)
  PROVE  /\ Number(d, p, w) \in Nat
         /\ LE(Number(d, p, w), w) = Slice(d, p, p + w)
  <1>0. Radix \in Nat \ {0} /\ Len(d) \in Nat
    BY LenProperties DEF ClientAssumption
  <1>1. PICK f : Digits(d, p, w, f)
    BY DigitsExist
  <1>2. /\ f \in [0..w -> Nat]
        /\ \A i \in 1..w : f[i] = d[p + w - (i - 1)] + Radix * f[i - 1]
        /\ Number(d, p, w) = f[w]
    BY <1>1 DEF Digits
  <1> DEFINE n == f[w]
  <1>3. n \in Nat /\ n = Number(d, p, w)
    BY <1>2
  <1> HIDE DEF n
  <1>4. PICK q : Quotients(n, w, q)
    BY <1>3, QuotientsExist
  <1>5. /\ q \in [0..w -> Nat] /\ q[0] = n
        /\ \A i \in 1..w : q[i] = q[i - 1] \div Radix
        /\ LE(n, w) = [i \in 1..w |-> q[i - 1] % Radix]
    BY <1>4 DEF Quotients
  <1>6. ASSUME NEW i \in 1..w
        PROVE  /\ d[p + i] \in Byte
               /\ f[w - (i - 1)] = d[p + i] + Radix * f[w - i]
               /\ f[w - i] \in Nat
    <2> DEFINE j == w - (i - 1)
    <2>1. j \in 1..w /\ p + w - (j - 1) = p + i /\ j - 1 = w - i /\ j - 1 \in 0..w
      OBVIOUS
    <2>2. f[j] = d[p + w - (j - 1)] + Radix * f[j - 1] /\ f[j - 1] \in Nat
      BY <1>2, <2>1
    <2>3. p + i \in 1..Len(d)
      BY <1>0
    <2>4. d[p + i] \in Byte
      BY <2>3, ElementOfSeq
    <2> QED BY <2>1, <2>2, <2>4
  <1>7. ASSUME NEW i \in 1..w, q[i - 1] = f[w - (i - 1)]
        PROVE  q[i] = f[w - i] /\ q[i - 1] % Radix = d[p + i]
    <2> DEFINE b == d[p + i]
               x == f[w - i]
               y == q[i - 1]
    <2>1. b \in 0..Radix-1 /\ x \in Nat /\ y = b + Radix * x
      BY <1>6, <1>7 DEF Byte
    <2>2. q[i] = y \div Radix
      BY <1>5
    <2> HIDE DEF b, x, y
    <2>3. y \div Radix = x /\ y % Radix = b
      BY <1>0, <2>1, DigitFirst
    <2> QED BY <2>2, <2>3 DEF b, x, y
  <1> DEFINE G == {i \in Nat : i <= w => q[i] = f[w - i]}
  <1>8. 0 \in G
    BY <1>5 DEF n
  <1>9. ASSUME NEW i \in Nat, i \in G
        PROVE  i + 1 \in G
    <2> SUFFICES ASSUME i + 1 <= w PROVE q[i + 1] = f[w - (i + 1)]
      OBVIOUS
    <2> DEFINE j == i + 1
    <2>1. j \in 1..w /\ j - 1 = i /\ q[i] = f[w - i]
      BY <1>9
    <2> HIDE DEF j, G
    <2>2. q[j] = f[w - j]
      BY <1>7, <2>1
    <2> QED BY <2>2 DEF j
  <1> HIDE DEF G
  <1>10. Nat \subseteq G
    BY <1>8, <1>9, Induction
  <1>11. \A i \in 1..w : q[i - 1] % Radix = d[p + i]
    <2> TAKE i \in 1..w
    <2>1. i - 1 \in Nat /\ i - 1 <= w
      OBVIOUS
    <2>2. q[i - 1] = f[w - (i - 1)]
      BY <1>10, <2>1 DEF G
    <2> QED BY <1>7, <2>2
  <1>12. Slice(d, p, p + w) = [i \in 1..w |-> d[p + i]]
    <2>1. SubSeq(d, p + 1, p + w) = [i \in 1..w |-> d[p + i]]
      BY <1>0
    <2> QED BY <2>1 DEF Slice
  <1>13. LE(n, w) = [i \in 1..w |-> d[p + i]]
    BY <1>5, <1>11
  <1> QED BY <1>3, <1>12, <1>13

\* to_le_bytes is a list of so many bytes.
LEMMA WrittenType ==
  ASSUME ClientAssumption, NEW n \in Nat, NEW w \in Nat
  PROVE  LE(n, w) \in Seq(Byte) /\ Len(LE(n, w)) = w
  <1>0. Radix \in Nat \ {0}
    BY DEF ClientAssumption
  <1>1. PICK q : Quotients(n, w, q)
    BY QuotientsExist
  <1>2. LE(n, w) = [i \in 1..w |-> q[i - 1] % Radix] /\ q \in [0..w -> Nat]
    BY <1>1 DEF Quotients
  <1>3. \A i \in 1..w : q[i - 1] % Radix \in Byte
    <2> TAKE i \in 1..w
    <2>1. q[i - 1] \in Nat
      BY <1>2
    <2> QED BY <1>0, <2>1 DEF Byte
  <1>4. LE(n, w) \in [1..w -> Byte]
    BY <1>2, <1>3
  <1> QED BY <1>4, SeqDef

\* and a number that fits is read as it was written.
LEMMA WrittenIsRead ==
  ASSUME ClientAssumption, NEW d \in Seq(Byte), NEW p \in Nat, NEW w \in Nat, p + w <= Len(d),
         NEW n \in Nat, Slice(d, p, p + w) = LE(n, w),
         NEW q, Quotients(n, w, q), q[w] = 0
  PROVE  Number(d, p, w) = n
  <1>0. Radix \in Nat \ {0} /\ Len(d) \in Nat
    BY LenProperties DEF ClientAssumption
  <1>1. PICK f : Digits(d, p, w, f)
    BY DigitsExist
  <1>2. /\ f \in [0..w -> Nat] /\ f[0] = 0
        /\ \A i \in 1..w : f[i] = d[p + w - (i - 1)] + Radix * f[i - 1]
        /\ Number(d, p, w) = f[w]
    BY <1>1 DEF Digits
  <1>5. /\ q \in [0..w -> Nat] /\ q[0] = n
        /\ \A i \in 1..w : q[i] = q[i - 1] \div Radix
        /\ LE(n, w) = [i \in 1..w |-> q[i - 1] % Radix]
    BY DEF Quotients
  <1>6. \A i \in 1..w : d[p + i] = q[i - 1] % Radix
    <2>1. SubSeq(d, p + 1, p + w) = [i \in 1..w |-> d[p + i]]
      BY <1>0
    <2>2. [i \in 1..w |-> d[p + i]] = [i \in 1..w |-> q[i - 1] % Radix]
      BY <1>5, <2>1 DEF Slice
    <2> QED BY <2>2
  <1> DEFINE G == {i \in Nat : i <= w => f[i] = q[w - i]}
  <1>8. 0 \in G
    BY <1>2
  <1>9. ASSUME NEW i \in Nat, i \in G
        PROVE  i + 1 \in G
    <2> SUFFICES ASSUME i + 1 <= w PROVE f[i + 1] = q[w - (i + 1)]
      OBVIOUS
    <2> DEFINE j == i + 1
               k == w - i
               x == q[k - 1]
    <2>0. f[i] = q[k]
      BY <1>9
    <2> HIDE DEF G
    <2>1. /\ j \in 1..w /\ j - 1 = i
          /\ p + w - (j - 1) = p + k
          /\ k \in 1..w
          /\ k - 1 = w - j
          /\ k - 1 \in 0..w
      <3>1. j \in 1..w /\ j - 1 = i
        OBVIOUS
      <3>2. k \in 1..w /\ k - 1 \in 0..w /\ k - 1 = w - j
        OBVIOUS
      <3>3. p + w - (j - 1) = p + k
        OBVIOUS
      <3> QED BY <3>1, <3>2, <3>3
    <2>2. f[j] = d[p + k] + Radix * f[i]
      <3> HIDE DEF j, k, x
      <3> QED BY <1>2, <2>1
    <2>3. d[p + k] = x % Radix /\ q[k] = x \div Radix /\ x \in Nat
      <3> HIDE DEF j, k
      <3> QED BY <1>5, <1>6, <2>1
    <2>4. x = (x % Radix) + Radix * (x \div Radix)
      <3> HIDE DEF x
      <3>1. x = Radix * (x \div Radix) + (x % Radix) /\ x \div Radix \in Nat /\ x % Radix \in Nat
        BY <1>0, <2>3, Divided
      <3> QED BY <1>0, <3>1
    <2>5. f[j] = x
      <3> HIDE DEF j, k, x
      <3> QED BY <2>0, <2>2, <2>3, <2>4
    <2>6. q[w - j] = x
      <3> HIDE DEF j, k
      <3> QED BY <2>1
    <2> QED BY <2>5, <2>6
  <1> HIDE DEF G
  <1>10. Nat \subseteq G
    BY <1>8, <1>9, Induction
  <1>11. f[w] = q[0]
    <2>1. f[w] = q[w - w]
      BY <1>10 DEF G
    <2> QED BY <2>1
  <1> QED BY <1>2, <1>5, <1>11

-----------------------------------------------------------------------------
(* Slices *)

\* Functions on 1 .. n are the lists of length n.
LEMMA IsSequence ==
  ASSUME NEW S, NEW n \in Nat, NEW f \in [1..n -> S]
  PROVE  f \in Seq(S) /\ Len(f) = n
  BY SeqDef

\* What a slice holds.
LEMMA SliceType ==
  ASSUME NEW S, NEW d \in Seq(S), NEW a \in Nat, NEW b \in Nat, a <= b, b <= Len(d)
  PROVE  /\ Slice(d, a, b) \in Seq(S) /\ Len(Slice(d, a, b)) = b - a
         /\ \A i \in 1..b - a : Slice(d, a, b)[i] = d[a + i]
  <1>1. Len(d) \in Nat
    BY LenProperties
  <1>2. \A i \in a + 1..b : d[i] \in S
    <2> TAKE i \in a + 1..b
    <2>1. i \in 1..Len(d)
      BY <1>1
    <2> QED BY <2>1, ElementOfSeq
  <1> DEFINE m == a + 1
  <1>3. m \in Int /\ b \in Int /\ (IF m <= b THEN b - m + 1 ELSE 0) = b - a /\ b - m + 1 = b - a
    OBVIOUS
  <1>4. \A i \in m..b : d[i] \in S
    BY <1>2
  <1>5. \A i \in 1..b - a : m + i - 1 = a + i
    OBVIOUS
  <1> HIDE DEF m
  <1>6. /\ SubSeq(d, m, b) \in Seq(S)
        /\ Len(SubSeq(d, m, b)) = IF m <= b THEN b - m + 1 ELSE 0
        /\ \A i \in 1..b - m + 1 : SubSeq(d, m, b)[i] = d[m + i - 1]
    BY <1>3, <1>4, SubSeqProperties
  <1>7. Slice(d, a, b) = SubSeq(d, m, b)
    BY DEF Slice, m
  <1> QED BY <1>3, <1>5, <1>6, <1>7

\* Slices that meet join to one slice.
LEMMA SlicesJoined ==
  ASSUME NEW S, NEW d \in Seq(S), NEW a \in Nat, NEW b \in Nat, NEW c \in Nat,
         a <= b, b <= c, c <= Len(d)
  PROVE  Slice(d, a, b) \o Slice(d, b, c) = Slice(d, a, c)
  <1> DEFINE m == a + 1
  <1>1. m \in 1..Len(d) + 1 /\ b \in m - 1..Len(d) /\ c \in b..Len(d)
    BY LenProperties
  <1> HIDE DEF m
  <1>2. SubSeq(d, m, b) \o SubSeq(d, b + 1, c) = SubSeq(d, m, c)
    BY <1>1, ConcatAdjacentSubSeq
  <1> QED BY <1>2 DEF m, Slice

\* Slices of d from one cut to the next.
Cuts(d, n, e) ==
  /\ n \in Nat /\ e \in [0..n -> Nat] /\ e[n] <= Len(d)
  /\ \A i \in 1..n : e[i - 1] <= e[i]

\* Cuts rise from the first to the last.
LEMMA CutsRise ==
  ASSUME NEW S, NEW d \in Seq(S), NEW n, NEW e, Cuts(d, n, e)
  PROVE  \A i \in 0..n : e[i] \in Nat /\ e[0] <= e[i] /\ e[i] <= Len(d)
  <1>0. Len(d) \in Nat /\ n \in Nat /\ e \in [0..n -> Nat] /\ e[n] <= Len(d)
        /\ \A i \in 1..n : e[i - 1] <= e[i]
    BY LenProperties DEF Cuts
  <1> DEFINE G == {i \in Nat : i <= n => e[0] <= e[i]}
             H == {i \in Nat : i <= n => e[n - i] <= Len(d)}
  <1>1. 0 \in G /\ 0 \in H
    BY <1>0
  <1>2. ASSUME NEW i \in Nat, i \in G
        PROVE  i + 1 \in G
    <2> SUFFICES ASSUME i + 1 <= n PROVE e[0] <= e[i + 1]
      OBVIOUS
    <2> DEFINE j == i + 1
    <2>1. j \in 1..n /\ j - 1 = i /\ e[0] <= e[i] /\ 0 \in 0..n /\ i \in 0..n /\ j \in 0..n
      BY <1>0, <1>2
    <2> HIDE DEF j, G
    <2>2. e[i] <= e[j]
      BY <1>0, <2>1
    <2>3. e[0] <= e[j]
      BY <1>0, <2>1, <2>2
    <2> QED BY <2>3 DEF j
  <1>3. ASSUME NEW i \in Nat, i \in H
        PROVE  i + 1 \in H
    <2> SUFFICES ASSUME i + 1 <= n PROVE e[n - (i + 1)] <= Len(d)
      OBVIOUS
    <2> DEFINE j == n - i
               k == n - (i + 1)
    <2>1. j \in 1..n /\ j - 1 = k /\ e[j] <= Len(d) /\ k \in 0..n /\ j \in 0..n
      BY <1>0, <1>3
    <2> HIDE DEF j, k, H
    <2>2. e[k] <= e[j]
      BY <1>0, <2>1
    <2>3. e[k] <= Len(d)
      BY <1>0, <2>1, <2>2
    <2> QED BY <2>3 DEF k
  <1> HIDE DEF G, H
  <1>4. Nat \subseteq G /\ Nat \subseteq H
    BY <1>1, <1>2, <1>3, Induction
  <1>5. ASSUME NEW i \in 0..n
        PROVE  e[i] \in Nat /\ e[0] <= e[i] /\ e[i] <= Len(d)
    <2>1. i \in Nat /\ n - i \in Nat /\ n - (n - i) = i /\ i <= n /\ n - i <= n
      BY <1>0
    <2>2. i \in G /\ n - i \in H
      BY <1>4, <2>1
    <2>3. e[0] <= e[i]
      BY <2>1, <2>2 DEF G
    <2>4. e[n - (n - i)] <= Len(d)
      BY <2>1, <2>2 DEF H
    <2> QED BY <1>0, <2>1, <2>3, <2>4
  <1> QED BY <1>5

\* The slices of a list join to the list.
LEMMA SlicesFlatten ==
  ASSUME NEW d \in Seq(Nat), NEW n, NEW e, Cuts(d, n, e),
         NEW E, E = [i \in 1..n |-> Slice(d, e[i - 1], e[i])]
  PROVE  E \in Seq(Seq(Nat)) /\ FlattenSeq(E) = Slice(d, e[0], e[n])
  <1>0. n \in Nat /\ \A i \in 1..n : e[i - 1] <= e[i]
    BY DEF Cuts
  <1>1. \A i \in 0..n : e[i] \in Nat /\ e[0] <= e[i] /\ e[i] <= Len(d)
    BY CutsRise
  <1>2. \A i \in 1..n : i - 1 \in 0..n /\ i \in 0..n
    BY <1>0
  <1>3. \A i \in 1..n : E[i] = Slice(d, e[i - 1], e[i]) /\ E[i] \in Seq(Nat)
    <2> TAKE i \in 1..n
    <2>1. e[i - 1] \in Nat /\ e[i] \in Nat /\ e[i - 1] <= e[i] /\ e[i] <= Len(d)
      BY <1>0, <1>1, <1>2
    <2>2. Slice(d, e[i - 1], e[i]) \in Seq(Nat)
      BY <2>1, SliceType
    <2> QED BY <2>2
  <1>4. E \in Seq(Seq(Nat)) /\ Len(E) = n
    <2> DEFINE V == Seq(Nat)
    <2>1. \A i \in 1..n : E[i] \in V
      BY <1>3
    <2> HIDE DEF V
    <2>2. E \in [1..n -> V]
      BY <2>1
    <2>3. E \in Seq(V) /\ Len(E) = n
      BY <1>0, <2>2, SeqDef
    <2> QED BY <2>3 DEF V
  <1>5. PICK f : Begins(E, f)
    BY <1>4, BeginsExists
  <1>6. FlattenSeq(E) = f[n]
    BY <1>4, <1>5, FlattenEnds
  <1>7. f[0] = <<>> /\ \A i \in 1..n : f[i] = f[i - 1] \o E[i]
    BY <1>4, <1>5 DEF Begins
  <1> HIDE DEF Cuts
  <1> DEFINE G == {i \in Nat : i <= n => f[i] = Slice(d, e[0], e[i])}
  <1>8. 0 \in G
    <2>1. 0 \in 0..n
      BY <1>0
    <2>2. e[0] \in Nat
      BY <1>1, <2>1
    <2>3. Slice(d, e[0], e[0]) = <<>>
      BY <2>2 DEF Slice
    <2> QED BY <1>7, <2>3
  <1>9. ASSUME NEW i \in Nat, i \in G
        PROVE  i + 1 \in G
    <2> SUFFICES ASSUME i + 1 <= n PROVE f[i + 1] = Slice(d, e[0], e[i + 1])
      OBVIOUS
    <2> DEFINE j == i + 1
    <2>1. j \in 1..n /\ j - 1 = i /\ i \in 0..n /\ j \in 0..n /\ 0 \in 0..n
      BY <1>0
    <2>2. f[i] = Slice(d, e[0], e[i])
      BY <1>9, <2>1
    <2> HIDE DEF j, G
    <2>3. f[j] = Slice(d, e[0], e[i]) \o Slice(d, e[i], e[j])
      BY <1>3, <1>7, <2>1, <2>2
    <2>4. e[0] \in Nat /\ e[i] \in Nat /\ e[j] \in Nat
          /\ e[0] <= e[i] /\ e[i] <= e[j] /\ e[j] <= Len(d)
      <3>1. e[i] <= e[j]
        BY <1>0, <2>1
      <3> QED BY <1>1, <2>1, <3>1
    <2>5. f[j] = Slice(d, e[0], e[j])
      BY <2>3, <2>4, SlicesJoined
    <2> QED BY <2>5 DEF j
  <1> HIDE DEF G
  <1>10. Nat \subseteq G
    BY <1>8, <1>9, Induction
  <1>11. f[n] = Slice(d, e[0], e[n])
    BY <1>0, <1>10 DEF G
  <1> QED BY <1>4, <1>6, <1>11

-----------------------------------------------------------------------------
(* Fields, written as they are read *)

\* What a client writes for a field.
Encoded(field, v) ==
  CASE field \in {"u8", "u16", "u32"} -> LE(v, Width[field])
    [] field \in {"address", "nonce"} -> v
    [] field \in {"str", "bytes"} -> bytes(v)
    [] field = "addresses" -> LE(Len(v), 4) \o FlattenSeq(v)
    [] field = "strs" -> LE(Len(v), 4) \o FlattenSeq([i \in DOMAIN v |-> str(v[i])])

\* The list enc is in d from p to e, if e is in d.
IsSlice(d, p, e, enc) == e \in Nat /\ (e <= Len(d) => p <= e /\ enc = Slice(d, p, e))

\* Bytes are numbers.
LEMMA BytesAreNumbers ==
  ASSUME ClientAssumption
  PROVE  /\ Byte \subseteq Nat
         /\ \A d \in Seq(Byte) : d \in Seq(Nat) /\ Len(d) \in Nat
  <1>1. Byte \subseteq Nat
    BY DEF ClientAssumption, Byte
  <1>2. ASSUME NEW d \in Seq(Byte) PROVE d \in Seq(Nat) /\ Len(d) \in Nat
    BY <1>1, SeqMonotonic, LenProperties
  <1> QED BY <1>1, <1>2

\* The fields of a fixed width.
LEMMA FixedWidths ==
  ASSUME ClientAssumption
  PROVE  /\ DOMAIN Width = {"u8", "u16", "u32", "nonce", "address"}
         /\ \A field \in DOMAIN Width : Width[field] \in Nat
         /\ Width["u8"] = 1 /\ Width["u16"] = 2 /\ Width["u32"] = 4
         /\ Width["nonce"] = 8 /\ Width["address"] = AddressLen
  BY DEF Width, ClientAssumption

\* Where a field ends: behind its width,
LEMMA EndOfFixed ==
  ASSUME NEW d, NEW p, NEW field \in {"u8", "u16", "u32", "nonce", "address"}
  PROVE  EndOf(field, d, p) = p + Width[field]
  BY DEF EndOf, Width

\* or where its count or its length says.
LEMMA EndOfOthers ==
  ASSUME NEW d, NEW p
  PROVE  /\ EndOf("bytes", d, p) = PrefixedEnd(d, p)
         /\ EndOf("str", d, p) = StrEnd(d, p)
         /\ EndOf("addresses", d, p) = IF p + 4 > Len(d) THEN Len(d) + 1
                                       ELSE p + 4 + AddressLen * Number(d, p, 4)
         /\ EndOf("strs", d, p) =
              IF p + 4 > Len(d) \/ p + 4 + 4 * Number(d, p, 4) > Len(d)
              THEN Len(d) + 1 ELSE StrEnds(d, p)[Number(d, p, 4)]
  BY DEF EndOf, Width, Short

\* A number,
LEMMA NumberField ==
  ASSUME ClientAssumption, NEW d \in Seq(Byte), NEW p \in Nat, NEW field \in {"u8", "u16", "u32"}
  PROVE  IsSlice(d, p, EndOf(field, d, p), Encoded(field, FieldValue(field, d, p)))
  <1> DEFINE w == Width[field]
             e == p + w
  <1>1. w \in Nat /\ EndOf(field, d, p) = e /\ e \in Nat /\ p <= e
    <2>1. w \in Nat /\ EndOf(field, d, p) = e
      BY FixedWidths, EndOfFixed
    <2> HIDE DEF w
    <2> QED BY <2>1
  <1>2. FieldValue(field, d, p) = Number(d, p, w)
    BY DEF FieldValue
  <1>3. Encoded(field, FieldValue(field, d, p)) = LE(Number(d, p, w), w)
    BY <1>2 DEF Encoded
  <1>4. e <= Len(d) => LE(Number(d, p, w), w) = Slice(d, p, e)
    <2> HIDE DEF w
    <2> QED BY <1>1, ReadIsWritten
  <1> HIDE DEF w, e
  <1> QED BY <1>1, <1>3, <1>4 DEF IsSlice

\* an address or a nonce,
LEMMA SliceField ==
  ASSUME ClientAssumption, NEW d \in Seq(Byte), NEW p \in Nat, NEW field \in {"address", "nonce"}
  PROVE  IsSlice(d, p, EndOf(field, d, p), Encoded(field, FieldValue(field, d, p)))
  <1> DEFINE w == Width[field]
             e == p + w
  <1>1. w \in Nat /\ EndOf(field, d, p) = e /\ e \in Nat /\ p <= e
    <2>1. w \in Nat /\ EndOf(field, d, p) = e
      BY FixedWidths, EndOfFixed
    <2> HIDE DEF w
    <2> QED BY <2>1
  <1>2. FieldValue(field, d, p) = Slice(d, p, e)
    BY DEF FieldValue, Slice
  <1>3. Encoded(field, FieldValue(field, d, p)) = Slice(d, p, e)
    BY <1>2 DEF Encoded
  <1> HIDE DEF w, e
  <1> QED BY <1>1, <1>3 DEF IsSlice

\* The payload that is read, and its length, are the length-prefixed field.
LEMMA BodyRead ==
  ASSUME ClientAssumption, NEW d \in Seq(Byte), NEW p \in Nat,
         PrefixedEnd(d, p) <= Len(d)
  PROVE  /\ Number(d, p, 4) \in Nat /\ p + 4 <= Len(d)
         /\ PrefixedEnd(d, p) = p + 4 + Number(d, p, 4)
         /\ Body(d, p) \in Seq(Byte) /\ Len(Body(d, p)) = Number(d, p, 4)
         /\ bytes(Body(d, p)) = Slice(d, p, PrefixedEnd(d, p))
  <1> DEFINE n == Number(d, p, 4)
             q == p + 4
             e == q + n
  <1>0. Len(d) \in Nat /\ d \in Seq(Nat)
    BY BytesAreNumbers
  <1>1. q <= Len(d) /\ PrefixedEnd(d, p) = e
    BY <1>0 DEF PrefixedEnd, Short
  <1>2. n \in Nat /\ LE(n, 4) = Slice(d, p, q)
    BY <1>1, ReadIsWritten
  <1>3. Body(d, p) = Slice(d, q, e)
    <2>1. p + 5 = q + 1
      OBVIOUS
    <2> QED BY <2>1 DEF Body, Slice
  <1> HIDE DEF n
  <1>4. q \in Nat /\ e \in Nat /\ q <= e /\ e - q = n /\ p <= q
    BY <1>2
  <1>5. e <= Len(d)
    BY <1>1
  <1> HIDE DEF q, e
  <1>6. Slice(d, q, e) \in Seq(Byte) /\ Len(Slice(d, q, e)) = n
    BY <1>4, <1>5, SliceType
  <1>7. Slice(d, p, q) \o Slice(d, q, e) = Slice(d, p, e)
    BY <1>4, <1>5, SlicesJoined
  <1>8. bytes(Body(d, p)) = Slice(d, p, e)
    BY <1>2, <1>3, <1>6, <1>7 DEF bytes
  <1> QED BY <1>1, <1>2, <1>3, <1>6, <1>8 DEF n, q, e

\* a length-prefixed value
LEMMA PrefixedField ==
  ASSUME ClientAssumption, NEW d \in Seq(Byte), NEW p \in Nat
  PROVE  /\ IsSlice(d, p, PrefixedEnd(d, p), bytes(Body(d, p)))
         /\ IsSlice(d, p, StrEnd(d, p), bytes(Body(d, p)))
  <1> DEFINE b == PrefixedEnd(d, p)
             e == StrEnd(d, p)
  <1>0. Len(d) \in Nat
    BY BytesAreNumbers
  <1>1. b \in Nat
    <2>1. CASE p + 4 > Len(d)
      BY <1>0, <2>1 DEF PrefixedEnd, Short
    <2>2. CASE p + 4 <= Len(d)
      <3>1. Number(d, p, 4) \in Nat
        BY <2>2, ReadIsWritten
      <3> QED BY <1>0, <2>2, <3>1 DEF PrefixedEnd
    <2> QED BY <1>0, <2>1, <2>2
  <1>2. e = b \/ e = Len(d) + 1
    BY DEF StrEnd, Short
  <1>3. ASSUME b <= Len(d)
        PROVE  p <= b /\ bytes(Body(d, p)) = Slice(d, p, b)
    <2>1. Number(d, p, 4) \in Nat /\ b = p + 4 + Number(d, p, 4) /\ bytes(Body(d, p)) = Slice(d, p, b)
      BY <1>3, BodyRead
    <2>2. p <= b
      BY <2>1
    <2> QED BY <2>1, <2>2
  <1> HIDE DEF e, b
  <1>4. e \in Nat /\ (e <= Len(d) => e = b)
    BY <1>0, <1>1, <1>2
  <1>5. IsSlice(d, p, b, bytes(Body(d, p))) /\ IsSlice(d, p, e, bytes(Body(d, p)))
    BY <1>1, <1>3, <1>4 DEF IsSlice
  <1> QED BY <1>5 DEF b, e

\* and so a string are written as they are read.
LEMMA BytesField ==
  ASSUME ClientAssumption, NEW d \in Seq(Byte), NEW p \in Nat, NEW field \in {"bytes", "str"}
  PROVE  IsSlice(d, p, EndOf(field, d, p), Encoded(field, FieldValue(field, d, p)))
  <1>1. Encoded(field, FieldValue(field, d, p)) = bytes(Body(d, p))
    BY DEF Encoded, FieldValue
  <1>2. EndOf(field, d, p) = PrefixedEnd(d, p) \/ EndOf(field, d, p) = StrEnd(d, p)
    BY EndOfOthers
  <1> QED BY <1>1, <1>2, PrefixedField

\* The multiples of a, one after the other.
IsMultiples(a, n, m) ==
  /\ m \in [0..n -> Nat] /\ m[0] = 0
  /\ \A i \in 0..n : m[i] = a * i
  /\ \A i \in 1..n : m[i] = m[i - 1] + a /\ m[i - 1] = a * (i - 1)

\* The multiples of a number are found by adding it.
LEMMA Multiples ==
  ASSUME NEW a \in Nat, NEW n \in Nat
  PROVE  \E m : IsMultiples(a, n, m)
  <1> DEFINE m == [i \in 0..n |-> a * i]
  <1>1. \A i \in 0..n : a * i \in Nat
    OBVIOUS
  <1>2. m \in [0..n -> Nat]
    BY <1>1
  <1>3. 0 \in 0..n /\ a * 0 = 0
    OBVIOUS
  <1>4. \A i \in 1..n : i \in 0..n /\ i - 1 \in 0..n /\ a * i = a * (i - 1) + a
    OBVIOUS
  <1>5. \A i \in 1..n : m[i] = m[i - 1] + a /\ m[i - 1] = a * (i - 1)
    BY <1>4
  <1>6. m[0] = 0
    BY <1>3
  <1>7. \A i \in 0..n : m[i] = a * i
    OBVIOUS
  <1> HIDE DEF m
  <1>8. IsMultiples(a, n, m)
    BY <1>2, <1>5, <1>6, <1>7 DEF IsMultiples
  <1> QED BY <1>8

\* The ends of the addresses of a list.
AddressEnds(d, p, n, e) ==
  /\ n \in Nat /\ e \in [0..n -> Nat] /\ e[0] = p + 4 /\ e[n] = EndOf("addresses", d, p)
  /\ \A i \in 1..n : e[i] = e[i - 1] + AddressLen
  /\ FieldValue("addresses", d, p) = [i \in 1..n |-> Slice(d, e[i - 1], e[i])]

\* The addresses of a list stand one behind the other.
LEMMA AddressEndsExist ==
  ASSUME ClientAssumption, NEW d \in Seq(Byte), NEW p \in Nat, p + 4 <= Len(d)
  PROVE  \E e : AddressEnds(d, p, Number(d, p, 4), e)
  <1> DEFINE n == Number(d, p, 4)
             q == p + 4
             x == EndOf("addresses", d, p)
             v == FieldValue("addresses", d, p)
  <1>0. Len(d) \in Nat /\ AddressLen \in Nat
    BY BytesAreNumbers DEF ClientAssumption
  <1>1. n \in Nat /\ x = q + AddressLen * n
    <2>1. ~(p + 4 > Len(d))
      BY <1>0
    <2>2. x = q + AddressLen * n
      BY <2>1, EndOfOthers
    <2> QED BY <2>2, ReadIsWritten
  <1>2. v = [i \in 1..n |-> SubSeq(d, p + 5 + AddressLen * (i - 1), p + 4 + AddressLen * i)]
    BY DEF FieldValue
  <1> HIDE DEF n, x, v
  <1>3. PICK m : IsMultiples(AddressLen, n, m)
    BY <1>0, <1>1, Multiples
  <1> DEFINE e == [i \in 0..n |-> q + m[i]]
  <1>4. /\ \A i \in 0..n : m[i] \in Nat
        /\ m[0] = 0 /\ m[n] = AddressLen * n
        /\ \A i \in 1..n : /\ m[i] = m[i - 1] + AddressLen
                           /\ m[i - 1] = AddressLen * (i - 1) /\ m[i] = AddressLen * i
    <2>1. n \in 0..n /\ \A i \in 1..n : i \in 0..n
      BY <1>1
    <2>2. /\ m \in [0..n -> Nat] /\ m[0] = 0
          /\ \A i \in 0..n : m[i] = AddressLen * i
          /\ \A i \in 1..n : m[i] = m[i - 1] + AddressLen /\ m[i - 1] = AddressLen * (i - 1)
      BY <1>3 DEF IsMultiples
    <2> QED BY <2>1, <2>2
  <1>5. /\ e \in [0..n -> Nat] /\ e[0] = q /\ e[n] = x /\ x \in Nat /\ q <= x
    <2>1. 0 \in 0..n /\ n \in 0..n
      BY <1>1
    <2>2. e \in [0..n -> Nat]
      BY <1>4
    <2>3. e[0] = q /\ e[n] = q + m[n] /\ m[n] \in Nat
      BY <1>4, <2>1
    <2>4. x = q + m[n]
      BY <1>1, <1>4
    <2> HIDE DEF e
    <2> QED BY <2>2, <2>3, <2>4
  <1>9. \A i \in 1..n : e[i - 1] <= e[i] /\ e[i - 1] = q + m[i - 1] /\ e[i] = q + m[i]
    <2> TAKE i \in 1..n
    <2>1. i \in 0..n /\ i - 1 \in 0..n
      BY <1>1
    <2>2. e[i] = q + m[i] /\ e[i - 1] = q + m[i - 1] /\ m[i] = m[i - 1] + AddressLen
          /\ m[i - 1] \in Nat
      BY <1>4, <2>1
    <2> HIDE DEF e
    <2> QED BY <1>0, <2>2
  <1>6. v = [i \in 1..n |-> Slice(d, e[i - 1], e[i])]
    <2>1. \A i \in 1..n : p + 5 + AddressLen * (i - 1) = e[i - 1] + 1 /\ p + 4 + AddressLen * i = e[i]
      <3> TAKE i \in 1..n
      <3> DEFINE y == AddressLen * (i - 1)
                 z == AddressLen * i
      <3>1. e[i - 1] = q + y /\ e[i] = q + z /\ y \in Nat /\ z \in Nat
        <4>1. i \in 0..n /\ i - 1 \in 0..n
          BY <1>1
        <4> HIDE DEF e
        <4> QED BY <1>4, <1>9, <4>1
      <3> HIDE DEF e, y, z
      <3>2. p + 5 + y = e[i - 1] + 1 /\ p + 4 + z = e[i]
        BY <3>1
      <3> QED BY <3>2 DEF y, z
    <2>2. \A i \in 1..n : SubSeq(d, p + 5 + AddressLen * (i - 1), p + 4 + AddressLen * i)
                            = Slice(d, e[i - 1], e[i])
      BY <2>1 DEF Slice
    <2> HIDE DEF e
    <2> QED BY <1>2, <2>2
  <1> HIDE DEF e
  <1>7. \A i \in 1..n : e[i] = e[i - 1] + AddressLen
    <2> TAKE i \in 1..n
    <2>1. m[i - 1] \in Nat
      <3>1. i - 1 \in 0..n
        BY <1>1
      <3> QED BY <1>4, <3>1
    <2>2. e[i - 1] = q + m[i - 1] /\ e[i] = q + m[i] /\ m[i] = m[i - 1] + AddressLen
      BY <1>4, <1>9
    <2> QED BY <1>0, <2>1, <2>2
  <1>8. AddressEnds(d, p, n, e)
    BY <1>1, <1>5, <1>6, <1>7 DEF AddressEnds, x, v
  <1> QED BY <1>8 DEF n

\* They cut the bytes of the list, if the list is in the data.
LEMMA AddressCuts ==
  ASSUME ClientAssumption, NEW d \in Seq(Byte), NEW p \in Nat, NEW n, NEW e,
         AddressEnds(d, p, n, e)
  PROVE  /\ EndOf("addresses", d, p) \in Nat /\ p + 4 <= EndOf("addresses", d, p)
         /\ EndOf("addresses", d, p) <= Len(d) => Cuts(d, n, e)
  <1>0. Len(d) \in Nat /\ AddressLen \in Nat /\ p + 4 \in Nat
    BY BytesAreNumbers DEF ClientAssumption
  <1>1. /\ n \in Nat /\ e \in [0..n -> Nat] /\ e[0] = p + 4 /\ e[n] = EndOf("addresses", d, p)
        /\ \A i \in 1..n : e[i] = e[i - 1] + AddressLen
    BY DEF AddressEnds
  <1>2. \A i \in 1..n : e[i - 1] <= e[i]
    <2> TAKE i \in 1..n
    <2>1. e[i - 1] \in Nat
      BY <1>1
    <2> QED BY <1>0, <1>1, <2>1
  <1> DEFINE G == {i \in Nat : i <= n => e[0] <= e[i]}
  <1>3. 0 \in G
    BY <1>0, <1>1
  <1>4. ASSUME NEW i \in Nat, i \in G
        PROVE  i + 1 \in G
    <2> SUFFICES ASSUME i + 1 <= n PROVE e[0] <= e[i + 1]
      OBVIOUS
    <2> DEFINE j == i + 1
    <2>1. j \in 1..n /\ j - 1 = i /\ e[0] <= e[i] /\ 0 \in 0..n /\ i \in 0..n /\ j \in 0..n
      BY <1>1, <1>4
    <2> HIDE DEF j, G
    <2>2. e[i] <= e[j]
      BY <1>2, <2>1
    <2>3. e[0] \in Nat /\ e[i] \in Nat /\ e[j] \in Nat
      BY <1>1, <2>1
    <2>4. e[0] <= e[j]
      BY <2>1, <2>2, <2>3
    <2> QED BY <2>4 DEF j
  <1> HIDE DEF G
  <1>5. Nat \subseteq G
    BY <1>3, <1>4, Induction
  <1>6. n \in 0..n /\ n \in G
    BY <1>1, <1>5
  <1>7. e[n] \in Nat /\ e[0] <= e[n]
    BY <1>1, <1>6 DEF G
  <1>8. ASSUME e[n] <= Len(d) PROVE Cuts(d, n, e)
    BY <1>1, <1>2, <1>8 DEF Cuts
  <1> QED BY <1>1, <1>7, <1>8

\* A list of addresses is written as it is read.
LEMMA AddressesField ==
  ASSUME ClientAssumption, NEW d \in Seq(Byte), NEW p \in Nat
  PROVE  LET v == FieldValue("addresses", d, p)
         IN  IsSlice(d, p, EndOf("addresses", d, p), LE(Len(v), 4) \o FlattenSeq(v))
  <1> DEFINE n == Number(d, p, 4)
             q == p + 4
             x == EndOf("addresses", d, p)
             v == FieldValue("addresses", d, p)
  <1>0. Len(d) \in Nat /\ d \in Seq(Nat)
    BY BytesAreNumbers
  <1>1. CASE q > Len(d)
    <2>1. x = Len(d) + 1
      BY <1>1, EndOfOthers
    <2> HIDE DEF x, v
    <2>2. x \in Nat /\ ~(x <= Len(d))
      BY <1>0, <2>1
    <2>3. IsSlice(d, p, x, LE(Len(v), 4) \o FlattenSeq(v))
      BY <2>2 DEF IsSlice
    <2> QED BY <2>3 DEF x, v
  <1>2. CASE q <= Len(d)
    <2>1. LE(n, 4) = Slice(d, p, q)
      BY <1>2, ReadIsWritten
    <2>2. PICK e : AddressEnds(d, p, n, e)
      BY <1>2, AddressEndsExist
    <2> HIDE DEF n
    <2>3. n \in Nat /\ e[0] = q /\ e[n] = x /\ v = [i \in 1..n |-> Slice(d, e[i - 1], e[i])]
      BY <2>2 DEF AddressEnds
    <2>4. x \in Nat /\ q <= x /\ (x <= Len(d) => Cuts(d, n, e))
      BY <2>2, AddressCuts
    <2>5. Len(v) = n
      BY <2>3
    <2> HIDE DEF x, v
    <2>6. q \in Nat /\ p <= q /\ p <= x
      BY <2>4
    <2> HIDE DEF q
    <2>7. ASSUME x <= Len(d)
          PROVE  LE(Len(v), 4) \o FlattenSeq(v) = Slice(d, p, x)
      <3>1. Cuts(d, n, e)
        BY <2>4, <2>7
      <3>2. FlattenSeq(v) = Slice(d, e[0], e[n])
        BY <1>0, <2>3, <3>1, SlicesFlatten
      <3>3. Slice(d, p, q) \o Slice(d, q, x) = Slice(d, p, x)
        BY <2>4, <2>6, <2>7, SlicesJoined
      <3> QED BY <2>1, <2>3, <2>5, <3>2, <3>3
    <2>8. IsSlice(d, p, x, LE(Len(v), 4) \o FlattenSeq(v))
      BY <2>4, <2>6, <2>7 DEF IsSlice
    <2> QED BY <2>8 DEF x, v
  <1> QED BY <1>0, <1>1, <1>2

-----------------------------------------------------------------------------
(* Lists of strings *)

\* The ends of n strings, the first of which begins at a.
EndsOfText(d, a, n, e) ==
  /\ e \in [0..n -> Nat] /\ e[0] = a
  /\ \A i \in 1..n : e[i] = StrEnd(d, e[i - 1])

\* The walk over the strings of a list.
LEMMA StrEndsExist ==
  ASSUME ClientAssumption, NEW d \in Seq(Byte), NEW p \in Nat, NEW n \in Nat,
         n = Number(d, p, 4)
  PROVE  EndsOfText(d, p + 4, n, StrEnds(d, p))
  <1> DEFINE h == [i \in 1..n |-> [x \in Nat |-> StrEnd(d, x)]]
             Rec(g) == [i \in 0..n |-> IF i = 0 THEN p + 4 ELSE StrEnd(d, g[i - 1])]
             Q == CHOOSE g : g = Rec(g)
             S == Nat
             a == p + 4
  <1>1. \A x \in Nat : StrEnd(d, x) \in Nat
    BY PrefixedField DEF IsSlice
  <1>2. h \in [1..n -> [S -> S]]
    BY <1>1
  <1>3. PICK g : FollowsTo(S, n, a, h, g)
    <2>1. a \in S
      OBVIOUS
    <2> HIDE DEF h, S, a
    <2> QED BY <1>2, <2>1, BoundedRecursion
  <1>4. /\ g \in [0..n -> S]
        /\ \A i \in 0..n : g[i] = IF i = 0 THEN a ELSE h[i][g[i - 1]]
    <2> HIDE DEF h, S, a
    <2> QED BY <1>3 DEF FollowsTo
  <1>5. \A i \in 0..n : i # 0 => h[i][g[i - 1]] = StrEnd(d, g[i - 1])
    <2> TAKE i \in 0..n
    <2> HAVE i # 0
    <2>1. i - 1 \in 0..n /\ i \in 1..n
      OBVIOUS
    <2>2. g[i - 1] \in Nat
      BY <1>4, <2>1
    <2> QED BY <2>1, <2>2
  <1> HIDE DEF h
  <1>6. g = Rec(g)
    <2>1. \A i \in 0..n : g[i] = IF i = 0 THEN p + 4 ELSE StrEnd(d, g[i - 1])
      BY <1>4, <1>5
    <2> QED BY <1>4, <2>1
  <1>7. Q = Rec(Q)
    <2> HIDE DEF Rec
    <2> QED BY <1>6
  <1>8. StrEnds(d, p) = Q
    BY DEF StrEnds
  <1> HIDE DEF Q
  <1>9. /\ \A i \in 0..n : Q[i] = IF i = 0 THEN p + 4 ELSE StrEnd(d, Q[i - 1])
        /\ Q = [i \in 0..n |-> Q[i]]
    BY <1>7
  <1>10. Q[0] = a /\ \A i \in 1..n : Q[i] = StrEnd(d, Q[i - 1])
    <2>1. 0 \in 0..n /\ \A i \in 1..n : i \in 0..n /\ i # 0
      OBVIOUS
    <2> QED BY <1>9, <2>1
  <1>11. \A i \in 0..n : Q[i] \in Nat
    <2> DEFINE G == {i \in Nat : i <= n => Q[i] \in Nat}
    <2>1. 0 \in G
      BY <1>10
    <2>2. ASSUME NEW i \in Nat, i \in G
          PROVE  i + 1 \in G
      <3> SUFFICES ASSUME i + 1 <= n PROVE Q[i + 1] \in Nat
        OBVIOUS
      <3>1. i + 1 \in 1..n /\ (i + 1) - 1 = i /\ Q[i] \in Nat
        BY <2>2
      <3> QED BY <1>1, <1>10, <3>1
    <2> HIDE DEF G
    <2>3. Nat \subseteq G
      BY <2>1, <2>2, Induction
    <2> QED BY <2>3 DEF G
  <1>12. Q \in [0..n -> Nat]
    BY <1>9, <1>11
  <1> QED BY <1>8, <1>10, <1>12 DEF EndsOfText

\* Offsets that go on, and end in bounds, are in bounds.
LEMMA AllInBounds ==
  ASSUME NEW n \in Nat, NEW m \in Nat, NEW e \in [0..n -> Nat], e[n] <= m,
         \A i \in 1..n : e[i] <= m => e[i - 1] <= e[i]
  PROVE  \A i \in 0..n : e[i] <= m
  <1> DEFINE H == {i \in Nat : i <= n => e[n - i] <= m}
  <1>1. 0 \in H
    OBVIOUS
  <1>2. ASSUME NEW i \in Nat, i \in H
        PROVE  i + 1 \in H
    <2> SUFFICES ASSUME i + 1 <= n PROVE e[n - (i + 1)] <= m
      OBVIOUS
    <2> DEFINE j == n - i
               k == n - (i + 1)
    <2>1. j \in 1..n /\ j - 1 = k /\ e[j] <= m /\ k \in 0..n /\ j \in 0..n
      BY <1>2
    <2> HIDE DEF j, k, H
    <2>2. e[k] \in Nat /\ e[j] \in Nat
      BY <2>1
    <2>3. e[k] <= e[j]
      BY <2>1
    <2>4. e[k] <= m
      BY <2>1, <2>2, <2>3
    <2> QED BY <2>4 DEF k
  <1> HIDE DEF H
  <1>3. Nat \subseteq H
    BY <1>1, <1>2, Induction
  <1> QED
    <2> TAKE i \in 0..n
    <2>1. n - i \in Nat /\ n - i <= n /\ n - (n - i) = i
      OBVIOUS
    <2>2. n - i \in H
      BY <1>3, <2>1
    <2>3. e[n - (n - i)] <= m
      BY <2>1, <2>2 DEF H
    <2> QED BY <2>1, <2>3

\* If the last string ends in the data, all do, one behind the other.
LEMMA TextCuts ==
  ASSUME ClientAssumption, NEW d \in Seq(Byte), NEW a \in Nat, NEW n \in Nat,
         NEW e, EndsOfText(d, a, n, e), e[n] <= Len(d)
  PROVE  /\ Cuts(d, n, e)
         /\ \A i \in 1..n : bytes(Body(d, e[i - 1])) = Slice(d, e[i - 1], e[i])
  <1>0. /\ Len(d) \in Nat /\ e \in [0..n -> Nat]
        /\ \A i \in 1..n : e[i] = StrEnd(d, e[i - 1])
    BY BytesAreNumbers DEF EndsOfText
  <1>1. ASSUME NEW i \in 1..n
        PROVE  IsSlice(d, e[i - 1], e[i], bytes(Body(d, e[i - 1])))
    <2>1. e[i - 1] \in Nat
      BY <1>0
    <2> QED BY <1>0, <2>1, PrefixedField
  <1>6. \A i \in 0..n : e[i] <= Len(d)
    <2>1. \A i \in 1..n : e[i] <= Len(d) => e[i - 1] <= e[i]
      BY <1>1 DEF IsSlice
    <2> QED BY <1>0, <2>1, AllInBounds
  <1>7. \A i \in 1..n : e[i - 1] <= e[i] /\ bytes(Body(d, e[i - 1])) = Slice(d, e[i - 1], e[i])
    <2> TAKE i \in 1..n
    <2>1. e[i] <= Len(d)
      BY <1>6
    <2> QED BY <1>1, <2>1 DEF IsSlice
  <1> QED BY <1>0, <1>7 DEF Cuts

\* A list of strings is written as it is read.
LEMMA StrsField ==
  ASSUME ClientAssumption, NEW d \in Seq(Byte), NEW p \in Nat
  PROVE  LET v == FieldValue("strs", d, p)
         IN  IsSlice(d, p, EndOf("strs", d, p), Encoded("strs", v))
  <1> DEFINE n == Number(d, p, 4)
             q == p + 4
             x == EndOf("strs", d, p)
             v == FieldValue("strs", d, p)
             s == [i \in DOMAIN v |-> str(v[i])]
             e == StrEnds(d, p)
  <1>0. Len(d) \in Nat /\ d \in Seq(Nat)
    BY BytesAreNumbers
  <1>1. Encoded("strs", v) = LE(Len(v), 4) \o FlattenSeq(s)
    BY DEF Encoded
  <1>2. CASE x = Len(d) + 1
    <2> HIDE DEF x, v
    <2>1. x \in Nat /\ ~(x <= Len(d))
      BY <1>0, <1>2
    <2>2. IsSlice(d, p, x, Encoded("strs", v))
      BY <2>1 DEF IsSlice
    <2> QED BY <2>2 DEF x, v
  <1>3. CASE x # Len(d) + 1
    <2>1. q <= Len(d) /\ x = e[n]
      <3>1. ~(q > Len(d)) /\ x = e[n]
        BY <1>3, EndOfOthers
      <3> QED BY <1>0, <3>1
    <2>2. n \in Nat /\ LE(n, 4) = Slice(d, p, q)
      BY <2>1, ReadIsWritten
    <2>3. v = [i \in 1..n |-> Body(d, e[i - 1])]
      BY DEF FieldValue
    <2> HIDE DEF n, v, x
    <2>4. EndsOfText(d, q, n, e)
      BY <2>2, StrEndsExist DEF n
    <2> HIDE DEF e
    <2>5. /\ e \in [0..n -> Nat] /\ e[0] = q /\ x \in Nat
      BY <2>1, <2>2, <2>4 DEF EndsOfText
    <2>6. s = [i \in 1..n |-> bytes(Body(d, e[i - 1]))] /\ Len(v) = n
      BY <2>2, <2>3 DEF str
    <2> HIDE DEF s
    <2>7. ASSUME x <= Len(d)
          PROVE  p <= x /\ LE(Len(v), 4) \o FlattenSeq(s) = Slice(d, p, x)
      <3>1. /\ Cuts(d, n, e)
            /\ \A i \in 1..n : bytes(Body(d, e[i - 1])) = Slice(d, e[i - 1], e[i])
        <4>1. q \in Nat
          OBVIOUS
        <4> HIDE DEF q
        <4> QED BY <2>1, <2>2, <2>4, <2>7, <4>1, TextCuts
      <3>2. s = [i \in 1..n |-> Slice(d, e[i - 1], e[i])]
        BY <2>6, <3>1
      <3>3. FlattenSeq(s) = Slice(d, q, x)
        <4>1. Cuts(d, n, e)
          BY <3>1
        <4>2. FlattenSeq(s) = Slice(d, e[0], e[n])
          BY <1>0, <3>2, <4>1, SlicesFlatten
        <4> QED BY <2>1, <2>5, <4>2
      <3>4. q <= x
        <4>1. \A i \in 0..n : e[0] <= e[i]
          BY <3>1, CutsRise
        <4> QED BY <2>1, <2>2, <2>5, <4>1
      <3>5. q \in Nat /\ p <= q /\ p <= x /\ x \in Nat
        BY <2>5, <3>4
      <3> HIDE DEF q
      <3>6. Slice(d, p, q) \o Slice(d, q, x) = Slice(d, p, x)
        BY <2>7, <3>4, <3>5, SlicesJoined
      <3> QED BY <2>2, <2>6, <3>3, <3>5, <3>6
    <2>8. IsSlice(d, p, x, LE(Len(v), 4) \o FlattenSeq(s))
      BY <2>5, <2>7 DEF IsSlice
    <2> QED BY <1>1, <2>8 DEF x, v
  <1> QED BY <1>2, <1>3

FieldNames == {"u8", "u16", "u32", "nonce", "address", "bytes", "str", "addresses", "strs"}

\* What is read of a field is written as it was read.
LEMMA FieldIsWritten ==
  ASSUME ClientAssumption, NEW d \in Seq(Byte), NEW p \in Nat, NEW field \in FieldNames
  PROVE  IsSlice(d, p, EndOf(field, d, p), Encoded(field, FieldValue(field, d, p)))
  <1>1. CASE field \in {"u8", "u16", "u32"}
    BY <1>1, NumberField
  <1>2. CASE field \in {"address", "nonce"}
    BY <1>2, SliceField
  <1>3. CASE field \in {"bytes", "str"}
    BY <1>3, BytesField
  <1>4. CASE field = "addresses"
    <2> DEFINE v == FieldValue("addresses", d, p)
    <2>1. IsSlice(d, p, EndOf("addresses", d, p), LE(Len(v), 4) \o FlattenSeq(v))
      BY AddressesField
    <2> HIDE DEF v
    <2>2. Encoded("addresses", v) = LE(Len(v), 4) \o FlattenSeq(v)
      BY DEF Encoded
    <2> QED BY <1>4, <2>1, <2>2 DEF v
  <1>5. CASE field = "strs"
    BY <1>5, StrsField
  <1> QED BY <1>1, <1>2, <1>3, <1>4, <1>5 DEF FieldNames

-----------------------------------------------------------------------------
(* The fields of an instruction *)

OpNames == {"initialize", "initialize_owned", "add_verification_method", "remove_verification_method",
       "set_verification_method_flags", "add_service", "update_service", "remove_service",
       "set_controllers", "deactivate", "create_key_buffer", "write_key_buffer",
       "add_verification_method_from_buffer", "close_key_buffer"}

\* The fourteen instructions,
LEMMA OpIs == Op = OpNames
  BY DEF Op, Fields, OpNames

\* their fields
LEMMA FieldsAre ==
  /\ Fields["initialize"] = <<"address">>
  /\ Fields["initialize_owned"] = <<"nonce">>
  /\ Fields["add_verification_method"] = <<"str", "u8", "u16", "bytes">>
  /\ Fields["remove_verification_method"] = <<"str">>
  /\ Fields["set_verification_method_flags"] = <<"str", "u16">>
  /\ Fields["add_service"] = <<"str", "str", "str">>
  /\ Fields["update_service"] = <<"str", "str", "str">>
  /\ Fields["remove_service"] = <<"str">>
  /\ Fields["set_controllers"] = <<"addresses", "strs">>
  /\ Fields["deactivate"] = <<>>
  /\ Fields["create_key_buffer"] = <<"str", "u8", "u16", "u32">>
  /\ Fields["write_key_buffer"] = <<"u32", "bytes">>
  /\ Fields["add_verification_method_from_buffer"] = <<>>
  /\ Fields["close_key_buffer"] = <<>>
  BY DEF Fields

\* and what those are.
LEMMA FieldsType ==
  ASSUME NEW op \in Op
  PROVE  /\ Len(Fields[op]) \in Nat /\ DOMAIN Fields[op] = 1..Len(Fields[op])
         /\ \A i \in 1..Len(Fields[op]) : Fields[op][i] \in FieldNames
  <1>1. /\ <<>> \in Seq(FieldNames)
        /\ <<"address">> \in Seq(FieldNames)
        /\ <<"nonce">> \in Seq(FieldNames)
        /\ <<"str">> \in Seq(FieldNames)
        /\ <<"str", "u8", "u16", "bytes">> \in Seq(FieldNames)
        /\ <<"str", "u16">> \in Seq(FieldNames)
        /\ <<"str", "str", "str">> \in Seq(FieldNames)
        /\ <<"addresses", "strs">> \in Seq(FieldNames)
        /\ <<"str", "u8", "u16", "u32">> \in Seq(FieldNames)
        /\ <<"u32", "bytes">> \in Seq(FieldNames)
    BY DEF FieldNames
  <1>2. Fields[op] \in Seq(FieldNames)
    <2> HIDE DEF FieldNames
    <2>1. op \in OpNames
      BY OpIs
    <2> QED BY <1>1, <2>1, FieldsAre DEF OpNames
  <1> HIDE DEF FieldNames
  <1>3. \A i \in 1..Len(Fields[op]) : Fields[op][i] \in FieldNames
    BY <1>2, ElementOfSeq
  <1> QED BY <1>2, <1>3, LenProperties
\* The cursor behind each field.
Ends(op, d, n, e) ==
  /\ e \in [0..n -> Nat] /\ e[0] = 0
  /\ \A i \in 1..n : e[i] = EndOf(Fields[op][i], d, e[i - 1])

\* The walk over the fields of an instruction.
LEMMA OffsetsExist ==
  ASSUME ClientAssumption, NEW op \in Op, NEW d \in Seq(Byte), NEW n, n = Len(Fields[op])
  PROVE  Ends(op, d, n, Offsets(op, d))
  <1> DEFINE h == [i \in 1..n |-> [x \in Nat |-> EndOf(Fields[op][i], d, x)]]
             Rec(g) == [i \in 0..n |-> IF i = 0 THEN 0 ELSE EndOf(Fields[op][i], d, g[i - 1])]
             Q == CHOOSE g : g = Rec(g)
             S == Nat
             a == 0
  <1>0. n \in Nat /\ \A i \in 1..n : Fields[op][i] \in FieldNames
    BY FieldsType
  <1>1. \A i \in 1..n : \A x \in Nat : EndOf(Fields[op][i], d, x) \in Nat
    BY <1>0, FieldIsWritten DEF IsSlice
  <1>2. h \in [1..n -> [S -> S]]
    BY <1>1
  <1>3. PICK g : FollowsTo(S, n, a, h, g)
    <2>1. a \in S
      OBVIOUS
    <2> HIDE DEF h, S, a
    <2> QED BY <1>0, <1>2, <2>1, BoundedRecursion
  <1>4. /\ g \in [0..n -> S]
        /\ \A i \in 0..n : g[i] = IF i = 0 THEN a ELSE h[i][g[i - 1]]
    <2> HIDE DEF h, S, a
    <2> QED BY <1>3 DEF FollowsTo
  <1>5. \A i \in 0..n : i # 0 => h[i][g[i - 1]] = EndOf(Fields[op][i], d, g[i - 1])
    <2> TAKE i \in 0..n
    <2> HAVE i # 0
    <2>1. i - 1 \in 0..n /\ i \in 1..n
      BY <1>0
    <2>2. g[i - 1] \in Nat
      BY <1>4, <2>1
    <2> QED BY <2>1, <2>2
  <1> HIDE DEF h
  <1>6. g = Rec(g)
    <2>1. \A i \in 0..n : g[i] = IF i = 0 THEN 0 ELSE EndOf(Fields[op][i], d, g[i - 1])
      BY <1>4, <1>5
    <2> QED BY <1>4, <2>1
  <1>7. Q = Rec(Q)
    <2> HIDE DEF Rec
    <2> QED BY <1>6
  <1>8. Offsets(op, d) = Q
    BY DEF Offsets
  <1> HIDE DEF Q
  <1>9. /\ \A i \in 0..n : Q[i] = IF i = 0 THEN 0 ELSE EndOf(Fields[op][i], d, Q[i - 1])
        /\ Q = [i \in 0..n |-> Q[i]]
    BY <1>7
  <1>10. Q[0] = 0 /\ \A i \in 1..n : Q[i] = EndOf(Fields[op][i], d, Q[i - 1])
    <2>1. 0 \in 0..n /\ \A i \in 1..n : i \in 0..n /\ i # 0
      BY <1>0
    <2> QED BY <1>9, <2>1
  <1>11. \A i \in 0..n : Q[i] \in Nat
    <2> DEFINE G == {i \in Nat : i <= n => Q[i] \in Nat}
    <2>1. 0 \in G
      BY <1>10
    <2>2. ASSUME NEW i \in Nat, i \in G
          PROVE  i + 1 \in G
      <3> SUFFICES ASSUME i + 1 <= n PROVE Q[i + 1] \in Nat
        OBVIOUS
      <3>1. i + 1 \in 1..n /\ (i + 1) - 1 = i /\ Q[i] \in Nat
        BY <1>0, <2>2
      <3> QED BY <1>1, <1>10, <3>1
    <2> HIDE DEF G
    <2>3. Nat \subseteq G
      BY <2>1, <2>2, Induction
    <2> QED BY <1>0, <2>3 DEF G
  <1>12. Q \in [0..n -> Nat]
    BY <1>9, <1>11
  <1> QED BY <1>8, <1>10, <1>12 DEF Ends

\* The arguments of an instruction, each as a client writes it.
Encodings(op, args) == [i \in DOMAIN Fields[op] |-> Encoded(Fields[op][i], args[i])]

\* Data that a handler reads to its end is written as it was read.
LEMMA ReadToTheEnd ==
  ASSUME ClientAssumption, NEW op \in Op, NEW d \in Seq(Byte), Reads(op, d)
  PROVE  /\ Encodings(op, Arguments(op, d)) \in Seq(Seq(Nat))
         /\ FlattenSeq(Encodings(op, Arguments(op, d))) = d
         /\ \A i \in DOMAIN Fields[op] :
              /\ Offsets(op, d)[i - 1] \in Nat
              /\ Offsets(op, d)[i] <= Len(d)
              /\ Encodings(op, Arguments(op, d))[i]
                   = Slice(d, Offsets(op, d)[i - 1], Offsets(op, d)[i])
  <1> DEFINE n == Len(Fields[op])
             e == Offsets(op, d)
             args == Arguments(op, d)
             E == Encodings(op, args)
  <1>0. /\ Len(d) \in Nat /\ d \in Seq(Nat)
        /\ n \in Nat /\ DOMAIN Fields[op] = 1..n /\ \A i \in 1..n : Fields[op][i] \in FieldNames
    BY BytesAreNumbers, FieldsType
  <1>1. Ends(op, d, n, e)
    BY OffsetsExist
  <1>2. /\ e \in [0..n -> Nat] /\ e[0] = 0
        /\ \A i \in 1..n : e[i] = EndOf(Fields[op][i], d, e[i - 1])
    BY <1>1 DEF Ends
  <1>3. e[n] = Len(d)
    BY DEF Reads
  <1>4. args = [i \in 1..n |-> FieldValue(Fields[op][i], d, e[i - 1])]
    BY <1>0 DEF Arguments
  <1>5. E = [i \in 1..n |-> Encoded(Fields[op][i], args[i])]
    BY <1>0 DEF Encodings
  <1> HIDE DEF n, e, args, E
  <1>6. ASSUME NEW i \in 1..n
        PROVE  IsSlice(d, e[i - 1], e[i], E[i])
    <2>1. e[i - 1] \in Nat
      BY <1>0, <1>2
    <2>2. Fields[op][i] \in FieldNames
      BY <1>0
    <2>3. E[i] = Encoded(Fields[op][i], FieldValue(Fields[op][i], d, e[i - 1]))
      BY <1>4, <1>5
    <2> QED BY <1>2, <2>1, <2>2, <2>3, FieldIsWritten
  <1>11. \A i \in 0..n : e[i] <= Len(d)
    <2>1. \A i \in 1..n : e[i] <= Len(d) => e[i - 1] <= e[i]
      BY <1>6 DEF IsSlice
    <2> DEFINE m == Len(d)
    <2>2. m \in Nat /\ n \in Nat /\ e[n] <= m /\ e \in [0..n -> Nat]
      BY <1>0, <1>2, <1>3
    <2> HIDE DEF m
    <2>3. \A i \in 0..n : e[i] <= m
      BY <2>1, <2>2, AllInBounds DEF m
    <2> QED BY <2>3 DEF m
  <1>12. \A i \in 1..n : e[i - 1] \in Nat /\ e[i] <= Len(d) /\ e[i - 1] <= e[i]
                         /\ E[i] = Slice(d, e[i - 1], e[i])
    <2> TAKE i \in 1..n
    <2>1. e[i] <= Len(d) /\ e[i - 1] \in Nat
      BY <1>0, <1>2, <1>11
    <2> QED BY <1>6, <2>1 DEF IsSlice
  <1>13. Cuts(d, n, e)
    BY <1>0, <1>2, <1>3, <1>12 DEF Cuts
  <1>14. E = [i \in 1..n |-> Slice(d, e[i - 1], e[i])]
    BY <1>5, <1>12
  <1>15. E \in Seq(Seq(Nat)) /\ FlattenSeq(E) = Slice(d, e[0], e[n])
    BY <1>0, <1>13, <1>14, SlicesFlatten
  <1>16. Slice(d, e[0], e[n]) = d
    <2>1. SubSeq(d, 1, Len(d)) = d
      BY SubSeqFull
    <2> QED BY <1>2, <1>3, <2>1 DEF Slice
  <1>17. /\ E \in Seq(Seq(Nat)) /\ FlattenSeq(E) = d
         /\ \A i \in DOMAIN Fields[op] :
              e[i - 1] \in Nat /\ e[i] <= Len(d) /\ E[i] = Slice(d, e[i - 1], e[i])
    BY <1>0, <1>12, <1>15, <1>16
  <1> QED BY <1>17 DEF E, args, e

-----------------------------------------------------------------------------
(* Encodings are bytes *)

\* Types that the values of a field have, whether they fit or not.
Loose(field) ==
  CASE field = "u8" -> Byte
    [] field \in {"u16", "u32"} -> Nat
    [] field \in {"nonce", "address", "str", "bytes"} -> Seq(Byte)
    [] field \in {"addresses", "strs"} -> Seq(Seq(Byte))

LooseArgs(op, args) == \A i \in DOMAIN Fields[op] : args[i] \in Loose(Fields[op][i])

\* A number of one byte is that byte,
LEMMA OneByte ==
  ASSUME ClientAssumption, NEW n \in Byte
  PROVE  LE(n, 1) = <<n>>
  <1>0. Radix \in Nat \ {0} /\ n \in Nat /\ n % Radix = n
    BY DEF ClientAssumption, Byte
  <1>1. PICK q : Quotients(n, 1, q)
    BY <1>0, QuotientsExist
  <1>2. q[0] = n /\ LE(n, 1) = [i \in 1..1 |-> q[i - 1] % Radix]
    BY <1>1 DEF Quotients
  <1>3. LE(n, 1) \in Seq(Byte) /\ Len(LE(n, 1)) = 1
    BY <1>0, WrittenType
  <1>4. LE(n, 1)[1] = n
    BY <1>0, <1>2
  <1>5. <<n>> \in Seq(Byte) /\ Len(<<n>>) = 1 /\ <<n>>[1] = n
    OBVIOUS
  <1> HIDE DEF Byte
  <1>6. \A i \in 1..1 : LE(n, 1)[i] = <<n>>[i]
    BY <1>4, <1>5
  <1> QED BY <1>3, <1>5, <1>6, SeqEqual

\* and one byte is read as a number below the radix.
LEMMA ByteRead ==
  ASSUME ClientAssumption, NEW d \in Seq(Byte), NEW p \in Nat, p + 1 <= Len(d)
  PROVE  Number(d, p, 1) \in Byte
  <1>0. Len(d) \in Nat /\ Radix \in Nat
    BY BytesAreNumbers DEF ClientAssumption
  <1>1. PICK f : Digits(d, p, 1, f)
    BY DigitsExist
  <1>2. f[0] = 0 /\ f[1] = d[p + 1 - (1 - 1)] + Radix * f[1 - 1] /\ Number(d, p, 1) = f[1]
    <2>1. 1 \in 1..1
      OBVIOUS
    <2> QED BY <1>1, <2>1 DEF Digits
  <1>3. p + 1 \in 1..Len(d) /\ p + 1 - (1 - 1) = p + 1 /\ 1 - 1 = 0
    BY <1>0
  <1>4. d[p + 1] \in Byte
    BY <1>3, ElementOfSeq
  <1>5. f[1] = d[p + 1]
    <2>1. d[p + 1] \in Nat /\ Radix * 0 = 0
      BY <1>0, <1>4, BytesAreNumbers
    <2> QED BY <1>2, <1>3, <2>1
  <1> QED BY <1>2, <1>4, <1>5

\* Short lists, and one element more.
LEMMA OneMore ==
  ASSUME NEW V, NEW a \in V, NEW b \in V
  PROVE  <<a>> \in Seq(V) /\ <<a>> \o <<b>> = <<a, b>>
  <1> DEFINE s == <<a>>
             t == <<a, b>>
             u == <<b>>
  <1>1. /\ s \in Seq(V) /\ Len(s) = 1 /\ u \in Seq(V) /\ Len(u) = 1 /\ u[1] = b
        /\ s[1] = a
    OBVIOUS
  <1>2. /\ t \in Seq(V) /\ Len(t) = 2
        /\ t[1] = a /\ t[2] = b
    OBVIOUS
  <1> HIDE DEF s, t, u
  <1>3. /\ s \o u \in Seq(V) /\ Len(s \o u) = Len(s) + Len(u)
        /\ \A i \in 1..Len(s) + Len(u) : (s \o u)[i] = IF i <= Len(s) THEN s[i] ELSE u[i - Len(s)]
    BY <1>1, ConcatProperties
  <1>4. \A i \in 1..Len(t) : (s \o u)[i] = t[i]
    BY <1>1, <1>2, <1>3
  <1>5. s \o u = t
    BY <1>1, <1>2, <1>3, <1>4, SeqEqual
  <1> QED BY <1>1, <1>5 DEF s, t, u

\* ... and a third to two,
LEMMA TwoMore ==
  ASSUME NEW V, NEW a \in V, NEW b \in V, NEW c \in V
  PROVE  <<a, b>> \in Seq(V) /\ <<a, b>> \o <<c>> = <<a, b, c>>
  <1> DEFINE s == <<a, b>>
             t == <<a, b, c>>
             u == <<c>>
  <1>1. /\ s \in Seq(V) /\ Len(s) = 2 /\ u \in Seq(V) /\ Len(u) = 1 /\ u[1] = c
        /\ s[1] = a /\ s[2] = b
    OBVIOUS
  <1>2. /\ t \in Seq(V) /\ Len(t) = 3
        /\ t[1] = a /\ t[2] = b /\ t[3] = c
    OBVIOUS
  <1> HIDE DEF s, t, u
  <1>3. /\ s \o u \in Seq(V) /\ Len(s \o u) = Len(s) + Len(u)
        /\ \A i \in 1..Len(s) + Len(u) : (s \o u)[i] = IF i <= Len(s) THEN s[i] ELSE u[i - Len(s)]
    BY <1>1, ConcatProperties
  <1>4. \A i \in 1..Len(t) : (s \o u)[i] = t[i]
    BY <1>1, <1>2, <1>3
  <1>5. s \o u = t
    BY <1>1, <1>2, <1>3, <1>4, SeqEqual
  <1> QED BY <1>1, <1>5 DEF s, t, u

\* ... and a fourth to three.
LEMMA ThreeMore ==
  ASSUME NEW V, NEW a \in V, NEW b \in V, NEW c \in V, NEW e \in V
  PROVE  <<a, b, c>> \in Seq(V) /\ <<a, b, c>> \o <<e>> = <<a, b, c, e>>
  <1> DEFINE s == <<a, b, c>>
             t == <<a, b, c, e>>
             u == <<e>>
  <1>1. /\ s \in Seq(V) /\ Len(s) = 3 /\ u \in Seq(V) /\ Len(u) = 1 /\ u[1] = e
        /\ s[1] = a /\ s[2] = b /\ s[3] = c
    OBVIOUS
  <1>2. /\ t \in Seq(V) /\ Len(t) = 4
        /\ t[1] = a /\ t[2] = b /\ t[3] = c /\ t[4] = e
    OBVIOUS
  <1> HIDE DEF s, t, u
  <1>3. /\ s \o u \in Seq(V) /\ Len(s \o u) = Len(s) + Len(u)
        /\ \A i \in 1..Len(s) + Len(u) : (s \o u)[i] = IF i <= Len(s) THEN s[i] ELSE u[i - Len(s)]
    BY <1>1, ConcatProperties
  <1>4. \A i \in 1..Len(t) : (s \o u)[i] = t[i]
    BY <1>1, <1>2, <1>3
  <1>5. s \o u = t
    BY <1>1, <1>2, <1>3, <1>4, SeqEqual
  <1> QED BY <1>1, <1>5 DEF s, t, u

\* The lists of up to three lists,
LEMMA FlattenFew ==
  /\ FlattenSeq(<<>>) = <<>>
  /\ \A a \in Seq(Nat) : FlattenSeq(<<a>>) = a
  /\ \A a, b \in Seq(Nat) : FlattenSeq(<<a, b>>) = a \o b
  /\ \A a, b, c \in Seq(Nat) : FlattenSeq(<<a, b, c>>) = (a \o b) \o c
  <1> DEFINE V == Seq(Nat)
  <1>1. ASSUME NEW a \in V PROVE FlattenSeq(<<a>>) = a
    <2>1. <<>> \in Seq(V) /\ <<>> \o <<a>> = <<a>>
      <3> HIDE DEF V
      <3> QED BY ConcatEmptySeq
    <2>2. FlattenSeq(<<>> \o <<a>>) = FlattenSeq(<<>>) \o a
      BY <2>1, FlattenMore
    <2>3. <<>> \o a = a
      BY ConcatEmptySeq
    <2> QED BY <2>1, <2>2, <2>3, FlattenEmpty
  <1>2. ASSUME NEW a \in V, NEW b \in V PROVE FlattenSeq(<<a, b>>) = a \o b
    <2>1. <<a>> \in Seq(V) /\ <<a>> \o <<b>> = <<a, b>>
      <3> HIDE DEF V
      <3> QED BY OneMore
    <2>2. FlattenSeq(<<a>> \o <<b>>) = FlattenSeq(<<a>>) \o b
      BY <2>1, FlattenMore
    <2> QED BY <1>1, <2>1, <2>2
  <1>3. ASSUME NEW a \in V, NEW b \in V, NEW c \in V PROVE FlattenSeq(<<a, b, c>>) = (a \o b) \o c
    <2>1. <<a, b>> \in Seq(V) /\ <<a, b>> \o <<c>> = <<a, b, c>>
      <3> HIDE DEF V
      <3> QED BY TwoMore
    <2>2. FlattenSeq(<<a, b>> \o <<c>>) = FlattenSeq(<<a, b>>) \o c
      BY <2>1, FlattenMore
    <2> QED BY <1>2, <2>1, <2>2
  <1> QED BY <1>1, <1>2, <1>3, FlattenEmpty

\* and of four, joined.
LEMMA FlattenFour ==
  ASSUME NEW a \in Seq(Nat), NEW b \in Seq(Nat), NEW c \in Seq(Nat), NEW e \in Seq(Nat),
         NEW E, E = <<a, b, c, e>>
  PROVE  FlattenSeq(E) = ((a \o b) \o c) \o e
  <1> DEFINE V == Seq(Nat)
  <1>1. <<a, b, c>> \in Seq(V) /\ <<a, b, c>> \o <<e>> = <<a, b, c, e>>
    <2>1. a \in V /\ b \in V /\ c \in V /\ e \in V
      OBVIOUS
    <2> HIDE DEF V
    <2> QED BY <2>1, ThreeMore
  <1>2. FlattenSeq(<<a, b, c>> \o <<e>>) = FlattenSeq(<<a, b, c>>) \o e
    BY <1>1, FlattenMore
  <1>3. FlattenSeq(<<a, b, c>>) = (a \o b) \o c
    BY FlattenFew
  <1> QED BY <1>1, <1>2, <1>3

\* Lists of bytes join to bytes.
LEMMA FlattenBytes ==
  ASSUME ClientAssumption, NEW E \in Seq(Seq(Byte))
  PROVE  E \in Seq(Seq(Nat)) /\ FlattenSeq(E) \in Seq(Byte)
  <1> DEFINE V == Seq(Byte)
             n == Len(E)
  <1>0. V \subseteq Seq(Nat)
    BY BytesAreNumbers
  <1>1. E \in Seq(Seq(Nat)) /\ n \in Nat /\ \A i \in 1..n : E[i] \in V
    <2>1. E \in Seq(V)
      OBVIOUS
    <2> HIDE DEF V
    <2> QED BY <1>0, <2>1, SeqMonotonic, LenProperties, ElementOfSeq
  <1>2. PICK f : Begins(E, f)
    BY <1>1, BeginsExists
  <1>3. FlattenSeq(E) = f[n]
    BY <1>1, <1>2, FlattenEnds
  <1>4. f[0] = <<>> /\ \A i \in 1..n : f[i] = f[i - 1] \o E[i]
    BY <1>2 DEF Begins
  <1> HIDE DEF n
  <1> DEFINE G == {i \in Nat : i <= n => f[i] \in V}
  <1>5. 0 \in G
    BY <1>4, EmptySeq
  <1>6. ASSUME NEW i \in Nat, i \in G
        PROVE  i + 1 \in G
    <2> SUFFICES ASSUME i + 1 <= n PROVE f[i + 1] \in V
      OBVIOUS
    <2> DEFINE j == i + 1
    <2>1. j \in 1..n /\ j - 1 = i /\ f[i] \in V
      BY <1>1, <1>6
    <2> HIDE DEF j, G
    <2>2. f[j] = f[i] \o E[j] /\ E[j] \in V
      BY <1>1, <1>4, <2>1
    <2>3. f[j] \in V
      BY <2>1, <2>2, ConcatProperties
    <2> QED BY <2>3 DEF j
  <1> HIDE DEF G
  <1>7. Nat \subseteq G
    BY <1>5, <1>6, Induction
  <1> QED BY <1>1, <1>3, <1>7 DEF G

\* A value is encoded in bytes.
LEMMA EncodedType ==
  ASSUME ClientAssumption, NEW field \in FieldNames, NEW v \in Loose(field)
  PROVE  Encoded(field, v) \in Seq(Byte)
  <1>0. Byte \subseteq Nat /\ Seq(Byte) \subseteq Seq(Nat)
    BY BytesAreNumbers
  <1>1. ASSUME NEW x \in Seq(Byte) PROVE bytes(x) \in Seq(Byte)
    <2>1. Len(x) \in Nat
      BY LenProperties
    <2>2. LE(Len(x), 4) \in Seq(Byte)
      BY <2>1, WrittenType
    <2> QED BY <2>2, ConcatProperties DEF bytes
  <1>2. CASE field \in {"u8", "u16", "u32"}
    <2>1. v \in Nat /\ Width[field] \in Nat
      BY <1>0, <1>2, FixedWidths DEF Loose
    <2>2. Encoded(field, v) = LE(v, Width[field])
      BY <1>2 DEF Encoded
    <2> QED BY <1>0, <2>1, <2>2, WrittenType
  <1>3. CASE field \in {"address", "nonce"}
    BY <1>0, <1>3 DEF Encoded, Loose
  <1>4. CASE field \in {"str", "bytes"}
    BY <1>0, <1>1, <1>4 DEF Encoded, Loose
  <1>5. ASSUME NEW x \in Seq(Seq(Byte))
        PROVE  LE(Len(x), 4) \o FlattenSeq(x) \in Seq(Byte)
    <2>1. Len(x) \in Nat /\ FlattenSeq(x) \in Seq(Byte)
      BY LenProperties, FlattenBytes
    <2>2. LE(Len(x), 4) \in Seq(Byte)
      BY <2>1, WrittenType
    <2> QED BY <2>1, <2>2, ConcatProperties
  <1>6. CASE field = "addresses"
    BY <1>5, <1>6 DEF Encoded, Loose
  <1>7. CASE field = "strs"
    <2> DEFINE S == Seq(Byte)
               s == [i \in DOMAIN v |-> str(v[i])]
               n == Len(v)
    <2>1. v \in Seq(S)
      BY <1>7 DEF Loose
    <2>2. \A x \in S : bytes(x) \in S
      BY <1>1
    <2> HIDE DEF S
    <2>3. n \in Nat /\ DOMAIN v = 1..n /\ \A i \in 1..n : v[i] \in S
      BY <2>1, LenProperties, ElementOfSeq
    <2>4. s \in [1..n -> S]
      BY <2>2, <2>3 DEF str
    <2> HIDE DEF s
    <2>5. s \in Seq(S) /\ Len(s) = n
      BY <2>3, <2>4, SeqDef
    <2>6. Encoded(field, v) = LE(n, 4) \o FlattenSeq(s)
      BY <1>7 DEF Encoded, s
    <2>7. LE(Len(s), 4) \o FlattenSeq(s) \in Seq(Byte)
      BY <1>5, <2>5 DEF S
    <2> QED BY <2>5, <2>6, <2>7
  <1> QED BY <1>2, <1>3, <1>4, <1>6, <1>7 DEF FieldNames

-----------------------------------------------------------------------------
(* The data that is built *)

\* What is read of a field, whether or not it fits, has its type;
LEMMA FieldLoose ==
  ASSUME ClientAssumption, NEW d \in Seq(Byte), NEW p \in Nat, NEW field \in FieldNames,
         EndOf(field, d, p) <= Len(d)
  PROVE  FieldValue(field, d, p) \in Loose(field)
  <1>0. Len(d) \in Nat
    BY BytesAreNumbers
  <1>1. CASE field \in {"u8", "u16", "u32"}
    <2>1. Width[field] \in Nat /\ p + Width[field] <= Len(d) /\ FieldValue(field, d, p) = Number(d, p, Width[field])
      BY <1>1, FixedWidths, EndOfFixed DEF FieldValue
    <2>2. FieldValue(field, d, p) \in Nat
      BY <2>1, ReadIsWritten
    <2>3. field = "u8" => FieldValue(field, d, p) \in Byte
      BY <2>1, FixedWidths, ByteRead
    <2> QED BY <1>1, <2>2, <2>3 DEF Loose
  <1>2. CASE field \in {"nonce", "address"}
    <2> DEFINE w == Width[field]
               e == p + w
    <2>1. w \in Nat /\ e <= Len(d)
      BY <1>2, FixedWidths, EndOfFixed
    <2>2. FieldValue(field, d, p) = Slice(d, p, e)
      BY <1>2 DEF FieldValue, Slice
    <2> HIDE DEF w
    <2>3. e \in Nat /\ p <= e
      BY <2>1
    <2> HIDE DEF e
    <2>4. Slice(d, p, e) \in Seq(Byte)
      BY <2>1, <2>3, SliceType
    <2> QED BY <1>2, <2>2, <2>4 DEF Loose
  <1>3. CASE field \in {"str", "bytes"}
    <2>1. EndOf(field, d, p) = PrefixedEnd(d, p) \/ EndOf(field, d, p) = StrEnd(d, p)
      BY <1>3, EndOfOthers
    <2>2. StrEnd(d, p) <= Len(d) => StrEnd(d, p) = PrefixedEnd(d, p)
      BY <1>0 DEF StrEnd, Short
    <2>3. PrefixedEnd(d, p) <= Len(d)
      BY <2>1, <2>2
    <2>4. Body(d, p) \in Seq(Byte)
      BY <2>3, BodyRead
    <2> QED BY <1>3, <2>4 DEF FieldValue, Loose
  <1>4. CASE field = "addresses"
    <2> DEFINE n == Number(d, p, 4)
               v == FieldValue("addresses", d, p)
               S == Seq(Byte)
    <2>1. p + 4 <= Len(d)
      BY <1>0, <1>4, EndOfOthers
    <2>2. PICK e : AddressEnds(d, p, n, e)
      BY <2>1, AddressEndsExist
    <2> HIDE DEF n
    <2>3. n \in Nat /\ v = [i \in 1..n |-> Slice(d, e[i - 1], e[i])] /\ e \in [0..n -> Nat]
      BY <2>2 DEF AddressEnds
    <2>4. Cuts(d, n, e)
      BY <1>4, <2>2, AddressCuts
    <2>5. \A i \in 1..n : Slice(d, e[i - 1], e[i]) \in S
      <3> TAKE i \in 1..n
      <3>1. i \in 0..n /\ e[i - 1] \in Nat /\ e[i] \in Nat
        BY <2>3
      <3>2. e[i - 1] <= e[i]
        BY <2>4 DEF Cuts
      <3>3. e[i] <= Len(d)
        BY <2>4, <3>1, CutsRise
      <3> QED BY <3>1, <3>2, <3>3, SliceType
    <2> HIDE DEF v, S
    <2>6. v \in [1..n -> S]
      BY <2>3, <2>5
    <2>7. v \in Seq(S)
      BY <2>3, <2>6, SeqDef
    <2> QED BY <1>4, <2>7 DEF v, S, Loose
  <1>5. CASE field = "strs"
    <2> DEFINE n == Number(d, p, 4)
               v == FieldValue("strs", d, p)
               e == StrEnds(d, p)
               S == Seq(Byte)
    <2>1. p + 4 <= Len(d) /\ e[n] <= Len(d)
      BY <1>0, <1>5, EndOfOthers
    <2>2. n \in Nat
      BY <2>1, ReadIsWritten
    <2>3. v = [i \in 1..n |-> Body(d, e[i - 1])]
      BY DEF FieldValue
    <2>4. EndsOfText(d, p + 4, n, e)
      BY <2>2, StrEndsExist
    <2> HIDE DEF n, e
    <2>5. Cuts(d, n, e)
      <3> DEFINE a == p + 4
      <3>1. a \in Nat /\ EndsOfText(d, a, n, e)
        BY <2>4
      <3> HIDE DEF a
      <3> QED BY <2>1, <2>2, <3>1, TextCuts
    <2>6. /\ e \in [0..n -> Nat]
          /\ \A i \in 1..n : e[i] = StrEnd(d, e[i - 1])
      BY <2>4 DEF EndsOfText
    <2>7. \A i \in 1..n : Body(d, e[i - 1]) \in S
      <3> TAKE i \in 1..n
      <3>1. i \in 0..n /\ e[i - 1] \in Nat
        BY <2>2, <2>6
      <3>2. StrEnd(d, e[i - 1]) <= Len(d)
        BY <2>5, <2>6, <3>1, CutsRise
      <3>3. PrefixedEnd(d, e[i - 1]) <= Len(d)
        BY <1>0, <3>2 DEF StrEnd, Short
      <3> QED BY <3>1, <3>3, BodyRead
    <2> HIDE DEF v, S
    <2>8. v \in [1..n -> S]
      BY <2>3, <2>7
    <2>9. v \in Seq(S)
      BY <2>2, <2>8, SeqDef
    <2> QED BY <1>5, <2>9 DEF v, S, Loose
  <1> QED BY <1>1, <1>2, <1>3, <1>4, <1>5 DEF FieldNames

\* so have all arguments that are read.
LEMMA ReadIsLoose ==
  ASSUME ClientAssumption, NEW op \in Op, NEW d \in Seq(Byte), Reads(op, d)
  PROVE  LooseArgs(op, Arguments(op, d))
  <1> DEFINE n == Len(Fields[op])
             e == Offsets(op, d)
  <1>1. n \in Nat /\ DOMAIN Fields[op] = 1..n /\ \A i \in 1..n : Fields[op][i] \in FieldNames
    BY FieldsType
  <1>2. Ends(op, d, n, e)
    BY OffsetsExist
  <1>3. \A i \in 1..n : e[i] = EndOf(Fields[op][i], d, e[i - 1])
    BY <1>2 DEF Ends
  <1>4. \A i \in 1..n : e[i - 1] \in Nat /\ e[i] <= Len(d)
    BY <1>1, ReadToTheEnd
  <1>5. Arguments(op, d) = [i \in 1..n |-> FieldValue(Fields[op][i], d, e[i - 1])]
    BY <1>1 DEF Arguments
  <1> HIDE DEF n, e
  <1>6. \A i \in 1..n : FieldValue(Fields[op][i], d, e[i - 1]) \in Loose(Fields[op][i])
    BY <1>1, <1>3, <1>4, FieldLoose
  <1> QED BY <1>1, <1>5, <1>6 DEF LooseArgs

\* A list of at most four.
LEMMA FlattenByLength ==
  ASSUME NEW E \in Seq(Seq(Nat))
  PROVE  /\ Len(E) = 0 => FlattenSeq(E) = <<>>
         /\ Len(E) = 1 => FlattenSeq(E) = E[1]
         /\ Len(E) = 2 => FlattenSeq(E) = E[1] \o E[2]
         /\ Len(E) = 3 => FlattenSeq(E) = (E[1] \o E[2]) \o E[3]
         /\ Len(E) = 4 => FlattenSeq(E) = ((E[1] \o E[2]) \o E[3]) \o E[4]
  <1> DEFINE S == Seq(Nat)
  <1>0. E \in Seq(S) /\ \A i \in 1..Len(E) : E[i] \in S
    <2>1. E \in Seq(S)
      OBVIOUS
    <2> HIDE DEF S
    <2> QED BY <2>1, ElementOfSeq
  <1>1. ASSUME Len(E) = 0 PROVE FlattenSeq(E) = <<>>
    <2>1. E = <<>>
      BY <1>1, EmptySeq
    <2> QED BY <2>1, FlattenFew
  <1>2. ASSUME Len(E) = 1 PROVE FlattenSeq(E) = E[1]
    <2> HIDE DEF S
    <2>1. E[1] \in S
      BY <1>0, <1>2
    <2>2. E = <<E[1]>>
      BY <1>0, <1>2, <2>1, SeqEqual
    <2> QED BY <2>1, <2>2, FlattenFew DEF S
  <1>3. ASSUME Len(E) = 2 PROVE FlattenSeq(E) = E[1] \o E[2]
    <2> HIDE DEF S
    <2>1. E[1] \in S /\ E[2] \in S
      BY <1>0, <1>3
    <2>2. E = <<E[1], E[2]>>
      BY <1>0, <1>3, <2>1, SeqEqual
    <2> QED BY <2>1, <2>2, FlattenFew DEF S
  <1>4. ASSUME Len(E) = 3 PROVE FlattenSeq(E) = (E[1] \o E[2]) \o E[3]
    <2> HIDE DEF S
    <2>1. E[1] \in S /\ E[2] \in S /\ E[3] \in S
      BY <1>0, <1>4
    <2>2. E = <<E[1], E[2], E[3]>>
      BY <1>0, <1>4, <2>1, SeqEqual
    <2> QED BY <2>1, <2>2, FlattenFew DEF S
  <1>5. ASSUME Len(E) = 4 PROVE FlattenSeq(E) = ((E[1] \o E[2]) \o E[3]) \o E[4]
    <2> HIDE DEF S
    <2>1. E[1] \in S /\ E[2] \in S /\ E[3] \in S /\ E[4] \in S
      BY <1>0, <1>5
    <2> DEFINE a == E[1]
               b == E[2]
               c == E[3]
               e == E[4]
    <2>2. E = <<a, b, c, e>>
      BY <1>0, <1>5, <2>1, SeqEqual
    <2>3. a \in S /\ b \in S /\ c \in S /\ e \in S
      BY <2>1
    <2> HIDE DEF a, b, c, e
    <2>4. a \in Seq(Nat) /\ b \in Seq(Nat) /\ c \in Seq(Nat) /\ e \in Seq(Nat)
      BY <2>3 DEF S
    <2>5. FlattenSeq(E) = ((a \o b) \o c) \o e
      BY <2>2, <2>4, FlattenFour
    <2> QED BY <2>5 DEF a, b, c, e
  <1> QED BY <1>1, <1>2, <1>3, <1>4, <1>5

\* The two lists of set_controllers are bytes.
LEMMA ListOfTexts ==
  ASSUME ClientAssumption, NEW v \in Seq(Seq(Byte))
  PROVE  /\ LE(Len(v), 4) \in Seq(Nat) /\ FlattenSeq(v) \in Seq(Nat)
         /\ FlattenSeq([i \in DOMAIN v |-> str(v[i])]) \in Seq(Nat)
  <1> DEFINE S == Seq(Byte)
             s == [i \in DOMAIN v |-> str(v[i])]
             n == Len(v)
  <1>1. v \in Seq(S)
    OBVIOUS
  <1>2. \A x \in S : bytes(x) \in S
    <2>1. \A x \in S : Encoded("bytes", x) = bytes(x) /\ x \in Loose("bytes")
      BY DEF Encoded, Loose
    <2> QED BY <2>1, EncodedType DEF FieldNames
  <1> HIDE DEF S
  <1>3. n \in Nat /\ DOMAIN v = 1..n /\ \A i \in 1..n : v[i] \in S
    BY <1>1, LenProperties, ElementOfSeq
  <1>4. s \in [1..n -> S]
    BY <1>2, <1>3 DEF str
  <1> HIDE DEF s, n
  <1>5. s \in Seq(S)
    <2>1. n \in Nat
      BY <1>3
    <2> QED BY <1>4, <2>1, IsSequence
  <1>6. FlattenSeq(s) \in Seq(Byte) /\ FlattenSeq(v) \in Seq(Byte)
    BY <1>5, FlattenBytes DEF S
  <1>7. LE(n, 4) \in Seq(Byte)
    BY <1>3, WrittenType
  <1> QED BY <1>6, <1>7, BytesAreNumbers DEF s, n

\* The data of an instruction that is built is its arguments, one behind the
\* other.
LEMMA BuiltData ==
  ASSUME ClientAssumption, NEW c, c.op \in Op, LooseArgs(c.op, c.args)
  PROVE  Built(c).data = IF c.op = "initialize" THEN c.subject
                         ELSE FlattenSeq(Encodings(c.op, c.args))
  <1> DEFINE x == c.args
             E == Encodings(c.op, x)
             S == Seq(Nat)
             n == Len(Fields[c.op])
  <1>0. c.op \in OpNames
    BY OpIs
  <1>1. n \in Nat /\ DOMAIN Fields[c.op] = 1..n /\ \A i \in 1..n : Fields[c.op][i] \in FieldNames
    BY FieldsType
  <1>2. \A i \in 1..n : x[i] \in Loose(Fields[c.op][i]) /\ Encoded(Fields[c.op][i], x[i]) \in S
    <2> TAKE i \in 1..n
    <2>1. Fields[c.op][i] \in FieldNames /\ x[i] \in Loose(Fields[c.op][i])
      BY <1>1 DEF LooseArgs
    <2>2. Encoded(Fields[c.op][i], x[i]) \in Seq(Byte)
      BY <2>1, EncodedType
    <2> QED BY <2>1, <2>2, BytesAreNumbers
  <1>3. E = [i \in 1..n |-> Encoded(Fields[c.op][i], x[i])]
    BY <1>1 DEF Encodings
  <1> HIDE DEF S, E, n, x
  <1>4. E \in Seq(S) /\ Len(E) = n /\ \A i \in 1..n : E[i] \in S /\ E[i] = Encoded(Fields[c.op][i], x[i])
    <2>1. E \in [1..n -> S]
      BY <1>2, <1>3
    <2> QED BY <1>1, <1>2, <1>3, <2>1, SeqDef
  <1>5. /\ n = 0 => FlattenSeq(E) = <<>>
        /\ n = 1 => FlattenSeq(E) = E[1]
        /\ n = 2 => FlattenSeq(E) = E[1] \o E[2]
        /\ n = 3 => FlattenSeq(E) = (E[1] \o E[2]) \o E[3]
        /\ n = 4 => FlattenSeq(E) = ((E[1] \o E[2]) \o E[3]) \o E[4]
    BY <1>4, FlattenByLength DEF S
  <1>6. /\ \A y \in Loose("u8") : Encoded("u8", y) = <<y>>
        /\ \A y : Encoded("u16", y) = LE(y, 2)
        /\ \A y : Encoded("u32", y) = LE(y, 4)
        /\ \A y : Encoded("nonce", y) = y
        /\ \A y : Encoded("str", y) = str(y)
        /\ \A y : Encoded("bytes", y) = bytes(y)
    BY OneByte DEF Encoded, Loose, Width, str
  <1>7. CASE c.op = "initialize"
    BY <1>7 DEF Built, initialize, Instruction
  <1>8. CASE c.op = "initialize_owned"
    <2>1. n = 1 /\ Fields[c.op][1] = "nonce" /\ 1 \in 1..n
      BY <1>8, FieldsAre DEF n
    <2>2. E[1] = x[1]
      BY <1>2, <1>4, <1>6, <2>1
    <2>3. FlattenSeq(E) = x[1]
      BY <1>5, <2>1, <2>2
    <2>4. Built(c).data = x[1]
      BY <1>8 DEF Built, initialize_owned, Instruction, x
    <2> QED BY <1>8, <2>3, <2>4 DEF E, x
  <1>9. CASE c.op = "add_verification_method"
    <2>1. n = 4 /\ Fields[c.op][1] = "str" /\ 1 \in 1..n /\ Fields[c.op][2] = "u8" /\ 2 \in 1..n /\ Fields[c.op][3] = "u16" /\ 3 \in 1..n /\ Fields[c.op][4] = "bytes" /\ 4 \in 1..n
      BY <1>9, FieldsAre DEF n
    <2>2. E[1] = str(x[1]) /\ E[2] = <<x[2]>> /\ E[3] = LE(x[3], 2) /\ E[4] = bytes(x[4])
      BY <1>2, <1>4, <1>6, <2>1
    <2>3. FlattenSeq(E) = ((str(x[1]) \o <<x[2]>>) \o LE(x[3], 2)) \o bytes(x[4])
      BY <1>5, <2>1, <2>2
    <2>4. Built(c).data = ((str(x[1]) \o <<x[2]>>) \o LE(x[3], 2)) \o bytes(x[4])
      BY <1>9 DEF Built, add_verification_method, Instruction, x
    <2> QED BY <1>9, <2>3, <2>4 DEF E, x
  <1>10. CASE c.op = "remove_verification_method"
    <2>1. n = 1 /\ Fields[c.op][1] = "str" /\ 1 \in 1..n
      BY <1>10, FieldsAre DEF n
    <2>2. E[1] = str(x[1])
      BY <1>2, <1>4, <1>6, <2>1
    <2>3. FlattenSeq(E) = str(x[1])
      BY <1>5, <2>1, <2>2
    <2>4. Built(c).data = str(x[1])
      BY <1>10 DEF Built, remove_verification_method, Instruction, x
    <2> QED BY <1>10, <2>3, <2>4 DEF E, x
  <1>11. CASE c.op = "set_verification_method_flags"
    <2>1. n = 2 /\ Fields[c.op][1] = "str" /\ 1 \in 1..n /\ Fields[c.op][2] = "u16" /\ 2 \in 1..n
      BY <1>11, FieldsAre DEF n
    <2>2. E[1] = str(x[1]) /\ E[2] = LE(x[2], 2)
      BY <1>2, <1>4, <1>6, <2>1
    <2>3. FlattenSeq(E) = str(x[1]) \o LE(x[2], 2)
      BY <1>5, <2>1, <2>2
    <2>4. Built(c).data = str(x[1]) \o LE(x[2], 2)
      BY <1>11 DEF Built, set_verification_method_flags, Instruction, x
    <2> QED BY <1>11, <2>3, <2>4 DEF E, x
  <1>12. CASE c.op = "add_service"
    <2>1. n = 3 /\ Fields[c.op][1] = "str" /\ 1 \in 1..n /\ Fields[c.op][2] = "str" /\ 2 \in 1..n /\ Fields[c.op][3] = "str" /\ 3 \in 1..n
      BY <1>12, FieldsAre DEF n
    <2>2. E[1] = str(x[1]) /\ E[2] = str(x[2]) /\ E[3] = str(x[3])
      BY <1>2, <1>4, <1>6, <2>1
    <2>3. FlattenSeq(E) = (str(x[1]) \o str(x[2])) \o str(x[3])
      BY <1>5, <2>1, <2>2
    <2>4. Built(c).data = (str(x[1]) \o str(x[2])) \o str(x[3])
      BY <1>12 DEF Built, add_service, Instruction, x
    <2> QED BY <1>12, <2>3, <2>4 DEF E, x
  <1>13. CASE c.op = "update_service"
    <2>1. n = 3 /\ Fields[c.op][1] = "str" /\ 1 \in 1..n /\ Fields[c.op][2] = "str" /\ 2 \in 1..n /\ Fields[c.op][3] = "str" /\ 3 \in 1..n
      BY <1>13, FieldsAre DEF n
    <2>2. E[1] = str(x[1]) /\ E[2] = str(x[2]) /\ E[3] = str(x[3])
      BY <1>2, <1>4, <1>6, <2>1
    <2>3. FlattenSeq(E) = (str(x[1]) \o str(x[2])) \o str(x[3])
      BY <1>5, <2>1, <2>2
    <2>4. Built(c).data = (str(x[1]) \o str(x[2])) \o str(x[3])
      BY <1>13 DEF Built, update_service, Instruction, x
    <2> QED BY <1>13, <2>3, <2>4 DEF E, x
  <1>14. CASE c.op = "remove_service"
    <2>1. n = 1 /\ Fields[c.op][1] = "str" /\ 1 \in 1..n
      BY <1>14, FieldsAre DEF n
    <2>2. E[1] = str(x[1])
      BY <1>2, <1>4, <1>6, <2>1
    <2>3. FlattenSeq(E) = str(x[1])
      BY <1>5, <2>1, <2>2
    <2>4. Built(c).data = str(x[1])
      BY <1>14 DEF Built, remove_service, Instruction, x
    <2> QED BY <1>14, <2>3, <2>4 DEF E, x
  <1>15. CASE c.op = "set_controllers"
    <2> DEFINE m == LE(Len(x[1]), 4)
               f == FlattenSeq(x[1])
               o == LE(Len(x[2]), 4)
               g == FlattenSeq([i \in DOMAIN x[2] |-> str(x[2][i])])
    <2>1. n = 2 /\ Fields[c.op][1] = "addresses" /\ Fields[c.op][2] = "strs" /\ 1 \in 1..n /\ 2 \in 1..n
      BY <1>15, FieldsAre DEF n
    <2>2. E[1] = m \o f /\ E[2] = o \o g
      BY <1>4, <2>1 DEF Encoded
    <2>3. Built(c).data = ((m \o f) \o o) \o g
      BY <1>15 DEF Built, set_controllers, Instruction, x
    <2>4. m \in Seq(Nat) /\ f \in Seq(Nat) /\ o \in Seq(Nat) /\ g \in Seq(Nat)
      <3>1. x[1] \in Seq(Seq(Byte)) /\ x[2] \in Seq(Seq(Byte))
        BY <1>2, <2>1 DEF Loose
      <3> QED BY <3>1, ListOfTexts
    <2> HIDE DEF m, f, o, g
    <2>5. ((m \o f) \o o) \o g = (m \o f) \o (o \o g)
      <3>1. m \o f \in Seq(Nat)
        BY <2>4, Joined
      <3> QED BY <2>4, <3>1, JoinedThrice
    <2>6. FlattenSeq(E) = (m \o f) \o (o \o g)
      BY <1>5, <2>1, <2>2
    <2> QED BY <1>15, <2>3, <2>5, <2>6 DEF E, x
  <1>16. CASE c.op = "deactivate"
    <2>1. n = 0
      BY <1>16, FieldsAre DEF n
    <2>3. FlattenSeq(E) = <<>>
      BY <1>5, <2>1
    <2>4. Built(c).data = <<>>
      BY <1>16 DEF Built, deactivate, Instruction, x
    <2> QED BY <1>16, <2>3, <2>4 DEF E, x
  <1>17. CASE c.op = "create_key_buffer"
    <2>1. n = 4 /\ Fields[c.op][1] = "str" /\ 1 \in 1..n /\ Fields[c.op][2] = "u8" /\ 2 \in 1..n /\ Fields[c.op][3] = "u16" /\ 3 \in 1..n /\ Fields[c.op][4] = "u32" /\ 4 \in 1..n
      BY <1>17, FieldsAre DEF n
    <2>2. E[1] = str(x[1]) /\ E[2] = <<x[2]>> /\ E[3] = LE(x[3], 2) /\ E[4] = LE(x[4], 4)
      BY <1>2, <1>4, <1>6, <2>1
    <2>3. FlattenSeq(E) = ((str(x[1]) \o <<x[2]>>) \o LE(x[3], 2)) \o LE(x[4], 4)
      BY <1>5, <2>1, <2>2
    <2>4. Built(c).data = ((str(x[1]) \o <<x[2]>>) \o LE(x[3], 2)) \o LE(x[4], 4)
      BY <1>17 DEF Built, create_key_buffer, Instruction, x
    <2> QED BY <1>17, <2>3, <2>4 DEF E, x
  <1>18. CASE c.op = "write_key_buffer"
    <2>1. n = 2 /\ Fields[c.op][1] = "u32" /\ 1 \in 1..n /\ Fields[c.op][2] = "bytes" /\ 2 \in 1..n
      BY <1>18, FieldsAre DEF n
    <2>2. E[1] = LE(x[1], 4) /\ E[2] = bytes(x[2])
      BY <1>2, <1>4, <1>6, <2>1
    <2>3. FlattenSeq(E) = LE(x[1], 4) \o bytes(x[2])
      BY <1>5, <2>1, <2>2
    <2>4. Built(c).data = LE(x[1], 4) \o bytes(x[2])
      BY <1>18 DEF Built, write_key_buffer, Instruction, x
    <2> QED BY <1>18, <2>3, <2>4 DEF E, x
  <1>19. CASE c.op = "add_verification_method_from_buffer"
    <2>1. n = 0
      BY <1>19, FieldsAre DEF n
    <2>3. FlattenSeq(E) = <<>>
      BY <1>5, <2>1
    <2>4. Built(c).data = <<>>
      BY <1>19 DEF Built, add_verification_method_from_buffer, Instruction, x
    <2> QED BY <1>19, <2>3, <2>4 DEF E, x
  <1>20. CASE c.op = "close_key_buffer"
    <2>1. n = 0
      BY <1>20, FieldsAre DEF n
    <2>3. FlattenSeq(E) = <<>>
      BY <1>5, <2>1
    <2>4. Built(c).data = <<>>
      BY <1>20 DEF Built, close_key_buffer, Instruction, x
    <2> QED BY <1>20, <2>3, <2>4 DEF E, x
  <1> QED BY <1>0, <1>7, <1>8, <1>9, <1>10, <1>11, <1>12, <1>13, <1>14, <1>15, <1>16, <1>17, <1>18, <1>19, <1>20 DEF OpNames

-----------------------------------------------------------------------------
(* The accounts that are built *)

SlotNames == {"payer", "authority", "did", "buffer", "system"}

\* The account a client lists for a slot.
Account(c, slot) ==
  CASE slot = "payer" -> writable(c.payer, TRUE)
    [] slot = "authority" -> readonly(c.authority, TRUE)
    [] slot = "did" -> writable(did_account(c.subject), FALSE)
    [] slot = "buffer" -> writable(key_buffer(c.subject, c.authority), FALSE)
    [] slot = "system" -> readonly(SYSTEM_PROGRAM, FALSE)

\* The account slots of the fourteen instructions.
LEMMA SlotsAre ==
  /\ Slots["initialize"] = <<"payer", "did", "system">>
  /\ Slots["initialize_owned"] = <<"payer", "authority", "did", "system">>
  /\ Slots["add_verification_method"] = <<"payer", "authority", "did", "system">>
  /\ Slots["remove_verification_method"] = <<"payer", "authority", "did", "system">>
  /\ Slots["set_verification_method_flags"] = <<"authority", "did">>
  /\ Slots["add_service"] = <<"payer", "authority", "did", "system">>
  /\ Slots["update_service"] = <<"payer", "authority", "did", "system">>
  /\ Slots["remove_service"] = <<"payer", "authority", "did", "system">>
  /\ Slots["set_controllers"] = <<"payer", "authority", "did", "system">>
  /\ Slots["deactivate"] = <<"payer", "authority", "did", "system">>
  /\ Slots["create_key_buffer"] = <<"payer", "authority", "did", "buffer", "system">>
  /\ Slots["write_key_buffer"] = <<"authority", "buffer">>
  /\ Slots["add_verification_method_from_buffer"] = <<"payer", "authority", "did", "buffer", "system">>
  /\ Slots["close_key_buffer"] = <<"payer", "authority", "buffer">>
  BY DEF Slots

\* No slot is there twice.
LEMMA SlotsType ==
  ASSUME NEW op \in Op
  PROVE  /\ Len(Slots[op]) \in Nat /\ DOMAIN Slots[op] = 1..Len(Slots[op])
         /\ \A i \in 1..Len(Slots[op]) : Slots[op][i] \in SlotNames
         /\ \A i, j \in 1..Len(Slots[op]) : Slots[op][i] = Slots[op][j] => i = j
  <1>1. ASSUME NEW l, l = <<"payer", "did", "system">>
        PROVE  /\ Len(l) \in Nat /\ DOMAIN l = 1..Len(l)
               /\ \A i \in 1..Len(l) : l[i] \in SlotNames
               /\ \A i, j \in 1..Len(l) : l[i] = l[j] => i = j
    <2>1. Len(l) = 3 /\ DOMAIN l = 1..3 /\ l[1] = "payer" /\ l[2] = "did" /\ l[3] = "system"
      BY <1>1
    <2>2. \A i \in 1..3 : i = 1 \/ i = 2 \/ i = 3
      OBVIOUS
    <2> QED BY <2>1, <2>2 DEF SlotNames
  <1>2. ASSUME NEW l, l = <<"payer", "authority", "did", "system">>
        PROVE  /\ Len(l) \in Nat /\ DOMAIN l = 1..Len(l)
               /\ \A i \in 1..Len(l) : l[i] \in SlotNames
               /\ \A i, j \in 1..Len(l) : l[i] = l[j] => i = j
    <2>1. Len(l) = 4 /\ DOMAIN l = 1..4 /\ l[1] = "payer" /\ l[2] = "authority" /\ l[3] = "did" /\ l[4] = "system"
      BY <1>2
    <2>2. \A i \in 1..4 : i = 1 \/ i = 2 \/ i = 3 \/ i = 4
      OBVIOUS
    <2> QED BY <2>1, <2>2 DEF SlotNames
  <1>3. ASSUME NEW l, l = <<"authority", "did">>
        PROVE  /\ Len(l) \in Nat /\ DOMAIN l = 1..Len(l)
               /\ \A i \in 1..Len(l) : l[i] \in SlotNames
               /\ \A i, j \in 1..Len(l) : l[i] = l[j] => i = j
    <2>1. Len(l) = 2 /\ DOMAIN l = 1..2 /\ l[1] = "authority" /\ l[2] = "did"
      BY <1>3
    <2>2. \A i \in 1..2 : i = 1 \/ i = 2
      OBVIOUS
    <2> QED BY <2>1, <2>2 DEF SlotNames
  <1>4. ASSUME NEW l, l = <<"payer", "authority", "did", "buffer", "system">>
        PROVE  /\ Len(l) \in Nat /\ DOMAIN l = 1..Len(l)
               /\ \A i \in 1..Len(l) : l[i] \in SlotNames
               /\ \A i, j \in 1..Len(l) : l[i] = l[j] => i = j
    <2>1. Len(l) = 5 /\ DOMAIN l = 1..5 /\ l[1] = "payer" /\ l[2] = "authority" /\ l[3] = "did" /\ l[4] = "buffer" /\ l[5] = "system"
      BY <1>4
    <2>2. \A i \in 1..5 : i = 1 \/ i = 2 \/ i = 3 \/ i = 4 \/ i = 5
      OBVIOUS
    <2> QED BY <2>1, <2>2 DEF SlotNames
  <1>5. ASSUME NEW l, l = <<"authority", "buffer">>
        PROVE  /\ Len(l) \in Nat /\ DOMAIN l = 1..Len(l)
               /\ \A i \in 1..Len(l) : l[i] \in SlotNames
               /\ \A i, j \in 1..Len(l) : l[i] = l[j] => i = j
    <2>1. Len(l) = 2 /\ DOMAIN l = 1..2 /\ l[1] = "authority" /\ l[2] = "buffer"
      BY <1>5
    <2>2. \A i \in 1..2 : i = 1 \/ i = 2
      OBVIOUS
    <2> QED BY <2>1, <2>2 DEF SlotNames
  <1>6. ASSUME NEW l, l = <<"payer", "authority", "buffer">>
        PROVE  /\ Len(l) \in Nat /\ DOMAIN l = 1..Len(l)
               /\ \A i \in 1..Len(l) : l[i] \in SlotNames
               /\ \A i, j \in 1..Len(l) : l[i] = l[j] => i = j
    <2>1. Len(l) = 3 /\ DOMAIN l = 1..3 /\ l[1] = "payer" /\ l[2] = "authority" /\ l[3] = "buffer"
      BY <1>6
    <2>2. \A i \in 1..3 : i = 1 \/ i = 2 \/ i = 3
      OBVIOUS
    <2> QED BY <2>1, <2>2 DEF SlotNames
  <1>7. Slots[op] \in {<<"payer", "did", "system">>, <<"payer", "authority", "did", "system">>, <<"authority", "did">>, <<"payer", "authority", "did", "buffer", "system">>, <<"authority", "buffer">>, <<"payer", "authority", "buffer">>}
    <2>1. op \in OpNames
      BY OpIs
    <2> QED BY <2>1, SlotsAre DEF OpNames
  <1> QED BY <1>1, <1>2, <1>3, <1>4, <1>5, <1>6, <1>7

\* The account of each slot,
LEMMA AccountIs ==
  ASSUME NEW c
  PROVE  /\ Account(c, "payer") = writable(c.payer, TRUE)
         /\ Account(c, "authority") = readonly(c.authority, TRUE)
         /\ Account(c, "did") = writable(did_account(c.subject), FALSE)
         /\ Account(c, "buffer") = writable(key_buffer(c.subject, c.authority), FALSE)
         /\ Account(c, "system") = readonly(SYSTEM_PROGRAM, FALSE)
  BY DEF Account

\* an address with two roles,
LEMMA RoleFields ==
  ASSUME NEW a, NEW r, NEW s
  PROVE  /\ r = writable(a, s) => r.address = a /\ r.signer = s /\ r.writable = TRUE
         /\ r = readonly(a, s) => r.address = a /\ r.signer = s /\ r.writable = FALSE
  BY DEF writable, readonly

\* has the address of the call, and these roles not.
LEMMA AccountFields ==
  ASSUME NEW c
  PROVE  /\ Account(c, "payer").address = c.payer
         /\ Account(c, "authority").address = c.authority /\ ~Account(c, "authority").writable
         /\ Account(c, "did").address = did_account(c.subject) /\ ~Account(c, "did").signer
         /\ Account(c, "buffer").address = key_buffer(c.subject, c.authority) /\ ~Account(c, "buffer").signer
         /\ Account(c, "system").address = SYSTEM_PROGRAM
         /\ ~Account(c, "system").signer /\ ~Account(c, "system").writable
  <1>1. Account(c, "payer").address = c.payer
    <2> DEFINE r == Account(c, "payer")
    <2>1. r = writable(c.payer, TRUE)
      BY AccountIs
    <2> HIDE DEF r
    <2>2. r.address = c.payer
      BY <2>1 DEF writable, readonly
    <2> QED BY <2>2 DEF r
  <1>2. Account(c, "authority").address = c.authority /\ Account(c, "authority").writable = FALSE
    <2> DEFINE r == Account(c, "authority")
    <2>1. r = readonly(c.authority, TRUE)
      BY AccountIs
    <2> HIDE DEF r
    <2>2. r.address = c.authority /\ r.writable = FALSE
      BY <2>1 DEF writable, readonly
    <2> QED BY <2>2 DEF r
  <1>3. Account(c, "did").address = did_account(c.subject) /\ Account(c, "did").signer = FALSE
    <2> DEFINE r == Account(c, "did")
    <2>1. r = writable(did_account(c.subject), FALSE)
      BY AccountIs
    <2> HIDE DEF r
    <2>2. r.address = did_account(c.subject) /\ r.signer = FALSE
      BY <2>1 DEF writable, readonly
    <2> QED BY <2>2 DEF r
  <1>4. Account(c, "buffer").address = key_buffer(c.subject, c.authority) /\ Account(c, "buffer").signer = FALSE
    <2> DEFINE r == Account(c, "buffer")
    <2>1. r = writable(key_buffer(c.subject, c.authority), FALSE)
      BY AccountIs
    <2> HIDE DEF r
    <2>2. r.address = key_buffer(c.subject, c.authority) /\ r.signer = FALSE
      BY <2>1 DEF writable, readonly
    <2> QED BY <2>2 DEF r
  <1>5. Account(c, "system").address = SYSTEM_PROGRAM /\ Account(c, "system").signer = FALSE /\ Account(c, "system").writable = FALSE
    <2> DEFINE r == Account(c, "system")
    <2>1. r = readonly(SYSTEM_PROGRAM, FALSE)
      BY AccountIs
    <2> HIDE DEF r
    <2>2. r.address = SYSTEM_PROGRAM /\ r.signer = FALSE /\ r.writable = FALSE
      BY <2>1 DEF writable, readonly
    <2> QED BY <2>2 DEF r
  <1> QED BY <1>1, <1>2, <1>3, <1>4, <1>5, Zenon

\* What a client lists, slot by slot.
IsListed(c, l) ==
  /\ IsList(l) /\ Len(l) = Len(Slots[c.op]) /\ DOMAIN l = 1..Len(Slots[c.op])
  /\ \A i \in 1..Len(Slots[c.op]) : l[i] = Account(c, Slots[c.op][i])

\* Every builder lists the accounts in the order of its handler's slots.
LEMMA BuiltAccounts ==
  ASSUME NEW c, c.op \in Op,
         c.op = "initialize_owned" => c.subject = owned_subject(c.authority, c.args[1])
  PROVE  IsListed(c, Built(c).accounts) /\ Built(c).op = c.op
  <1> DEFINE w(x) == Account(c, x)
             l == Built(c).accounts
  <1>1. CASE c.op \in {"initialize"}
    <2>1. Len(Slots[c.op]) = 3 /\ Slots[c.op][1] = "payer" /\ Slots[c.op][2] = "did" /\ Slots[c.op][3] = "system"
      <3>1. Slots[c.op] = <<"payer", "did", "system">>
        BY <1>1, SlotsAre
      <3> QED BY <3>1
    <2>2. l = <<w("payer"), w("did"), w("system")>> /\ Built(c).op = c.op
      BY <1>1, AccountIs DEF Built, initialize, Instruction, update_accounts, buffer_accounts
    <2> HIDE DEF w, l
    <2>3. IsList(l) /\ Len(l) = 3 /\ DOMAIN l = 1..3 /\ l[1] = w("payer") /\ l[2] = w("did") /\ l[3] = w("system")
      BY <2>2 DEF IsList
    <2>4. \A i \in 1..3 : l[i] = w(Slots[c.op][i])
      <3>1. \A i \in 1..3 : i = 1 \/ i = 2 \/ i = 3
        OBVIOUS
      <3> QED BY <2>1, <2>3, <3>1
    <2> QED BY <2>1, <2>2, <2>3, <2>4 DEF IsListed, w, l
  <1>2. CASE c.op \in {"initialize_owned", "add_verification_method", "remove_verification_method", "add_service", "update_service", "remove_service", "set_controllers", "deactivate"}
    <2>1. Len(Slots[c.op]) = 4 /\ Slots[c.op][1] = "payer" /\ Slots[c.op][2] = "authority" /\ Slots[c.op][3] = "did" /\ Slots[c.op][4] = "system"
      <3>1. Slots[c.op] = <<"payer", "authority", "did", "system">>
        BY <1>2, SlotsAre
      <3> QED BY <3>1
    <2>2. l = <<w("payer"), w("authority"), w("did"), w("system")>> /\ Built(c).op = c.op
      <3>1. CASE c.op = "initialize_owned"
        BY <3>1, AccountIs DEF Built, initialize_owned, Instruction, update_accounts
      <3>2. CASE c.op = "add_verification_method"
        BY <3>2, AccountIs DEF Built, add_verification_method, Instruction, update_accounts
      <3>3. CASE c.op = "remove_verification_method"
        BY <3>3, AccountIs DEF Built, remove_verification_method, Instruction, update_accounts
      <3>4. CASE c.op = "add_service"
        BY <3>4, AccountIs DEF Built, add_service, Instruction, update_accounts
      <3>5. CASE c.op = "update_service"
        BY <3>5, AccountIs DEF Built, update_service, Instruction, update_accounts
      <3>6. CASE c.op = "remove_service"
        BY <3>6, AccountIs DEF Built, remove_service, Instruction, update_accounts
      <3>7. CASE c.op = "set_controllers"
        BY <3>7, AccountIs DEF Built, set_controllers, Instruction, update_accounts
      <3>8. CASE c.op = "deactivate"
        BY <3>8, AccountIs DEF Built, deactivate, Instruction, update_accounts
      <3> QED BY <1>2, <3>1, <3>2, <3>3, <3>4, <3>5, <3>6, <3>7, <3>8
    <2> HIDE DEF w, l
    <2>3. IsList(l) /\ Len(l) = 4 /\ DOMAIN l = 1..4 /\ l[1] = w("payer") /\ l[2] = w("authority") /\ l[3] = w("did") /\ l[4] = w("system")
      BY <2>2 DEF IsList
    <2>4. \A i \in 1..4 : l[i] = w(Slots[c.op][i])
      <3>1. \A i \in 1..4 : i = 1 \/ i = 2 \/ i = 3 \/ i = 4
        OBVIOUS
      <3> QED BY <2>1, <2>3, <3>1
    <2> QED BY <2>1, <2>2, <2>3, <2>4 DEF IsListed, w, l
  <1>3. CASE c.op \in {"set_verification_method_flags"}
    <2>1. Len(Slots[c.op]) = 2 /\ Slots[c.op][1] = "authority" /\ Slots[c.op][2] = "did"
      <3>1. Slots[c.op] = <<"authority", "did">>
        BY <1>3, SlotsAre
      <3> QED BY <3>1
    <2>2. l = <<w("authority"), w("did")>> /\ Built(c).op = c.op
      BY <1>3, AccountIs DEF Built, set_verification_method_flags, Instruction, update_accounts, buffer_accounts
    <2> HIDE DEF w, l
    <2>3. IsList(l) /\ Len(l) = 2 /\ DOMAIN l = 1..2 /\ l[1] = w("authority") /\ l[2] = w("did")
      BY <2>2 DEF IsList
    <2>4. \A i \in 1..2 : l[i] = w(Slots[c.op][i])
      <3>1. \A i \in 1..2 : i = 1 \/ i = 2
        OBVIOUS
      <3> QED BY <2>1, <2>3, <3>1
    <2> QED BY <2>1, <2>2, <2>3, <2>4 DEF IsListed, w, l
  <1>4. CASE c.op \in {"create_key_buffer", "add_verification_method_from_buffer"}
    <2>1. Len(Slots[c.op]) = 5 /\ Slots[c.op][1] = "payer" /\ Slots[c.op][2] = "authority" /\ Slots[c.op][3] = "did" /\ Slots[c.op][4] = "buffer" /\ Slots[c.op][5] = "system"
      <3>1. Slots[c.op] = <<"payer", "authority", "did", "buffer", "system">>
        BY <1>4, SlotsAre
      <3> QED BY <3>1
    <2>2. l = <<w("payer"), w("authority"), w("did"), w("buffer"), w("system")>> /\ Built(c).op = c.op
      <3>1. CASE c.op = "create_key_buffer"
        BY <3>1, AccountIs DEF Built, create_key_buffer, Instruction, buffer_accounts
      <3>2. CASE c.op = "add_verification_method_from_buffer"
        BY <3>2, AccountIs DEF Built, add_verification_method_from_buffer, Instruction, buffer_accounts
      <3> QED BY <1>4, <3>1, <3>2
    <2> HIDE DEF w, l
    <2>3. IsList(l) /\ Len(l) = 5 /\ DOMAIN l = 1..5 /\ l[1] = w("payer") /\ l[2] = w("authority") /\ l[3] = w("did") /\ l[4] = w("buffer") /\ l[5] = w("system")
      BY <2>2 DEF IsList
    <2>4. \A i \in 1..5 : l[i] = w(Slots[c.op][i])
      <3>1. \A i \in 1..5 : i = 1 \/ i = 2 \/ i = 3 \/ i = 4 \/ i = 5
        OBVIOUS
      <3> QED BY <2>1, <2>3, <3>1
    <2> QED BY <2>1, <2>2, <2>3, <2>4 DEF IsListed, w, l
  <1>5. CASE c.op \in {"write_key_buffer"}
    <2>1. Len(Slots[c.op]) = 2 /\ Slots[c.op][1] = "authority" /\ Slots[c.op][2] = "buffer"
      <3>1. Slots[c.op] = <<"authority", "buffer">>
        BY <1>5, SlotsAre
      <3> QED BY <3>1
    <2>2. l = <<w("authority"), w("buffer")>> /\ Built(c).op = c.op
      BY <1>5, AccountIs DEF Built, write_key_buffer, Instruction, update_accounts, buffer_accounts
    <2> HIDE DEF w, l
    <2>3. IsList(l) /\ Len(l) = 2 /\ DOMAIN l = 1..2 /\ l[1] = w("authority") /\ l[2] = w("buffer")
      BY <2>2 DEF IsList
    <2>4. \A i \in 1..2 : l[i] = w(Slots[c.op][i])
      <3>1. \A i \in 1..2 : i = 1 \/ i = 2
        OBVIOUS
      <3> QED BY <2>1, <2>3, <3>1
    <2> QED BY <2>1, <2>2, <2>3, <2>4 DEF IsListed, w, l
  <1>6. CASE c.op \in {"close_key_buffer"}
    <2>1. Len(Slots[c.op]) = 3 /\ Slots[c.op][1] = "payer" /\ Slots[c.op][2] = "authority" /\ Slots[c.op][3] = "buffer"
      <3>1. Slots[c.op] = <<"payer", "authority", "buffer">>
        BY <1>6, SlotsAre
      <3> QED BY <3>1
    <2>2. l = <<w("payer"), w("authority"), w("buffer")>> /\ Built(c).op = c.op
      BY <1>6, AccountIs DEF Built, close_key_buffer, Instruction, update_accounts, buffer_accounts
    <2> HIDE DEF w, l
    <2>3. IsList(l) /\ Len(l) = 3 /\ DOMAIN l = 1..3 /\ l[1] = w("payer") /\ l[2] = w("authority") /\ l[3] = w("buffer")
      BY <2>2 DEF IsList
    <2>4. \A i \in 1..3 : l[i] = w(Slots[c.op][i])
      <3>1. \A i \in 1..3 : i = 1 \/ i = 2 \/ i = 3
        OBVIOUS
      <3> QED BY <2>1, <2>3, <3>1
    <2> QED BY <2>1, <2>2, <2>3, <2>4 DEF IsListed, w, l
  <1> QED
    <2>1. c.op \in OpNames
      BY OpIs
    <2> QED BY <2>1, <1>1, <1>2, <1>3, <1>4, <1>5, <1>6 DEF OpNames

-----------------------------------------------------------------------------
(* Derived addresses and merged roles *)

\* Lists are equal if their ends of one length are, and their beginnings.
LEMMA SplitJoin ==
  ASSUME NEW T, NEW a \in Seq(T), NEW b \in Seq(T), NEW c \in Seq(T), NEW e \in Seq(T),
         a \o b = c \o e, Len(b) = Len(e)
  PROVE  a = c /\ b = e
  <1>1. Len(a) \in Nat /\ Len(b) \in Nat /\ Len(c) \in Nat /\ Len(e) \in Nat
    BY LenProperties
  <1>2. /\ Len(a \o b) = Len(a) + Len(b)
        /\ \A i \in 1..Len(a) + Len(b) : (a \o b)[i] = IF i <= Len(a) THEN a[i] ELSE b[i - Len(a)]
    BY ConcatProperties
  <1>3. /\ Len(c \o e) = Len(c) + Len(e)
        /\ \A i \in 1..Len(c) + Len(e) : (c \o e)[i] = IF i <= Len(c) THEN c[i] ELSE e[i - Len(c)]
    BY ConcatProperties
  <1>4. Len(a) = Len(c)
    BY <1>1, <1>2, <1>3
  <1> DEFINE s == a \o b
             n == Len(a)
             m == Len(b)
  <1>5. /\ n \in Nat /\ m \in Nat /\ Len(c) = n /\ Len(e) = m
        /\ \A i \in 1..n + m : s[i] = IF i <= n THEN a[i] ELSE b[i - n]
        /\ \A i \in 1..n + m : s[i] = IF i <= n THEN c[i] ELSE e[i - n]
    BY <1>1, <1>2, <1>3, <1>4
  <1> HIDE DEF s, n, m
  <1>6. \A i \in 1..n : a[i] = c[i]
    <2> TAKE i \in 1..n
    <2>1. i \in 1..n + m /\ i <= n
      BY <1>5
    <2> QED BY <1>5, <2>1
  <1>7. \A i \in 1..m : b[i] = e[i]
    <2> TAKE i \in 1..m
    <2>1. i + n \in 1..n + m /\ ~(i + n <= n) /\ (i + n) - n = i
      BY <1>5
    <2> QED BY <1>5, <2>1
  <1>8. Len(a) = n /\ Len(b) = m
    BY DEF n, m
  <1> QED BY <1>5, <1>6, <1>7, <1>8, SeqEqual

\* An equal first element can be left out.
LEMMA Cancelled ==
  ASSUME NEW T, NEW x \in T, NEW a \in Seq(T), NEW b \in Seq(T), <<x>> \o a = <<x>> \o b
  PROVE  a = b
  <1> DEFINE h == <<x>>
  <1>1. h \in Seq(T) /\ Len(h) = 1
    OBVIOUS
  <1> HIDE DEF h
  <1>2. h \o a = h \o b
    BY DEF h
  <1>3. Len(a) \in Nat /\ Len(b) \in Nat /\ Len(h \o a) = 1 + Len(a) /\ Len(h \o b) = 1 + Len(b)
    <2>1. Len(a) \in Nat /\ Len(b) \in Nat
      BY LenProperties
    <2>2. Len(h \o a) = Len(h) + Len(a)
      BY <1>1, ConcatProperties
    <2>3. Len(h \o b) = Len(h) + Len(b)
      BY <1>1, ConcatProperties
    <2> QED BY <1>1, <2>1, <2>2, <2>3
  <1>4. Len(a) = Len(b)
    BY <1>2, <1>3
  <1> QED BY <1>1, <1>2, <1>4, SplitJoin

\* A list of elements of a set.
LEMMA ListElements ==
  ASSUME NEW s, IsList(s), NEW T, \A i \in 1..Len(s) : s[i] \in T
  PROVE  s \in Seq(T)
  <1> DEFINE n == Len(s)
  <1>1. n \in Nat /\ s = [i \in 1..n |-> s[i]]
    BY DEF IsList
  <1>2. s \in [1..n -> T]
    BY <1>1
  <1> HIDE DEF n
  <1> QED BY <1>1, <1>2, IsSequence

\* Seeds are equal where the addresses are.
LEMMA DidAccountInjective ==
  ASSUME NEW s, NEW t, IsList(s), IsList(t), did_account(s) = did_account(t)
  PROVE  s = t
  <1> DEFINE T == {"bio-did"} \cup {s[i] : i \in 1..Len(s)} \cup {t[i] : i \in 1..Len(t)}
  <1>1. "bio-did" \in T /\ (\A i \in 1..Len(s) : s[i] \in T) /\ (\A i \in 1..Len(t) : t[i] \in T)
    OBVIOUS
  <1> HIDE DEF T
  <1>2. s \in Seq(T) /\ t \in Seq(T)
    BY <1>1, ListElements
  <1>3. <<"bio-did">> \o s = <<"bio-did">> \o t
    BY DEF did_account
  <1> QED BY <1>1, <1>2, <1>3, Cancelled

\* and so are those of key buffers, subject by subject and authority by authority.
LEMMA KeyBufferInjective ==
  ASSUME ClientAssumption, NEW s, NEW t, IsList(s), IsList(t), NEW a \in Key, NEW b \in Key,
         key_buffer(s, a) = key_buffer(t, b)
  PROVE  s = t /\ a = b
  <1> DEFINE T == {"bio-did", "bio-did-key"} \cup Byte
                    \cup {s[i] : i \in 1..Len(s)} \cup {t[i] : i \in 1..Len(t)}
             x == <<"bio-did-key">> \o did_account(s)
             y == <<"bio-did-key">> \o did_account(t)
  <1>1. "bio-did" \in T /\ "bio-did-key" \in T /\ Byte \subseteq T
        /\ (\A i \in 1..Len(s) : s[i] \in T) /\ (\A i \in 1..Len(t) : t[i] \in T)
    OBVIOUS
  <1> HIDE DEF T
  <1>2. s \in Seq(T) /\ t \in Seq(T)
    BY <1>1, ListElements
  <1>3. a \in Seq(T) /\ b \in Seq(T) /\ Len(a) = Len(b)
    <2>1. AddressLen \in Nat /\ a \in [1..AddressLen -> T] /\ b \in [1..AddressLen -> T]
      BY <1>1 DEF ClientAssumption, Key
    <2> QED BY <2>1, IsSequence
  <1>4. <<"bio-did">> \in Seq(T) /\ <<"bio-did-key">> \in Seq(T)
    BY <1>1
  <1>5. did_account(s) \in Seq(T) /\ did_account(t) \in Seq(T)
    BY <1>2, <1>4, ConcatProperties DEF did_account
  <1>6. x \in Seq(T) /\ y \in Seq(T)
    BY <1>4, <1>5, ConcatProperties
  <1>7. x \o a = y \o b
    BY DEF key_buffer
  <1>8. x = y /\ a = b
    <2> HIDE DEF x, y
    <2> QED BY <1>3, <1>6, <1>7, SplitJoin
  <1>9. did_account(s) = did_account(t)
    BY <1>1, <1>5, <1>8, Cancelled
  <1> QED BY <1>8, <1>9, DidAccountInjective

\* An instruction as it arrives: a known discriminator, accounts and bytes.
Arrives(ix) == ix.op \in Op /\ ix.data \in Seq(Byte) /\ IsList(ix.accounts)

\* What the runtime passes for each entry.
LEMMA MergedIs ==
  ASSUME NEW l, IsList(l)
  PROVE  /\ DOMAIN l = 1..Len(l) /\ DOMAIN Merged(l) = 1..Len(l)
         /\ \A i \in 1..Len(l) :
              /\ Merged(l)[i].address = l[i].address
              /\ Merged(l)[i].signer = (\E j \in 1..Len(l) : l[j].address = l[i].address /\ l[j].signer)
              /\ Merged(l)[i].writable = (\E j \in 1..Len(l) : l[j].address = l[i].address /\ l[j].writable)
  <1> DEFINE n == Len(l)
  <1>1. l = [i \in 1..n |-> l[i]]
    BY DEF IsList
  <1>2. DOMAIN l = 1..n
    BY <1>1
  <1> HIDE DEF n
  <1>3. DOMAIN Merged(l) = 1..n
    BY <1>2 DEF Merged
  <1>4. ASSUME NEW i \in 1..n
        PROVE  /\ Merged(l)[i].address = l[i].address
               /\ Merged(l)[i].signer = (\E j \in 1..n : l[j].address = l[i].address /\ l[j].signer)
               /\ Merged(l)[i].writable = (\E j \in 1..n : l[j].address = l[i].address /\ l[j].writable)
    <2> DEFINE same == {j \in 1..n : l[j].address = l[i].address}
    <2>1. Merged(l)[i] = [ address |-> l[i].address,
                           signer |-> \E j \in same : l[j].signer,
                           writable |-> \E j \in same : l[j].writable ]
      BY <1>2 DEF Merged
    <2>2. /\ Merged(l)[i].address = l[i].address
          /\ Merged(l)[i].signer = (\E j \in same : l[j].signer)
          /\ Merged(l)[i].writable = (\E j \in same : l[j].writable)
      BY <2>1
    <2>3. /\ (\E j \in same : l[j].signer) = (\E j \in 1..n : l[j].address = l[i].address /\ l[j].signer)
          /\ (\E j \in same : l[j].writable) = (\E j \in 1..n : l[j].address = l[i].address /\ l[j].writable)
      OBVIOUS
    <2> QED BY <2>2, <2>3
  <1> QED BY <1>2, <1>3, <1>4 DEF n

\* The account in a slot is the one at its place.
LEMMA InSlot ==
  ASSUME NEW ix, ix.op \in Op, NEW i \in 1..Len(Slots[ix.op])
  PROVE  /\ Has(ix, Slots[ix.op][i])
         /\ In(ix, Slots[ix.op][i]) = Merged(ix.accounts)[i]
  <1> DEFINE s == Slots[ix.op]
  <1>1. DOMAIN s = 1..Len(s) /\ \A k, j \in 1..Len(s) : s[k] = s[j] => k = j
    BY SlotsType
  <1>2. (CHOOSE k \in DOMAIN s : s[k] = s[i]) = i
    <2> HIDE DEF s
    <2>1. i \in 1..Len(s)
      BY DEF s
    <2> QED BY <1>1, <2>1
  <1>3. Has(ix, s[i])
    BY <1>1 DEF Has, Range
  <1> QED BY <1>2, <1>3 DEF In

\* Who is there when somebody else is.
LEMMA SlotsTogether ==
  ASSUME NEW ix, ix.op \in Op
  PROVE  /\ Has(ix, "buffer") => Has(ix, "authority")
         /\ ix.op = "create_key_buffer" => Has(ix, "did") /\ Has(ix, "buffer")
         /\ Creates(ix) => Has(ix, "did") /\ ~Has(ix, "buffer") /\ Has(ix, "payer") /\ Has(ix, "system")
         /\ ix.op = "initialize_owned" => Has(ix, "authority")
         /\ ~Creates(ix) => Has(ix, "did") \/ Has(ix, "buffer")
         /\ ix.op \in {"write_key_buffer", "close_key_buffer"} <=> ~Has(ix, "did")
         /\ Has(ix, "buffer") <=> ix.op \in {"create_key_buffer", "write_key_buffer",
                                           "add_verification_method_from_buffer", "close_key_buffer"}
         /\ \A slot : Has(ix, slot) => \E i \in 1..Len(Slots[ix.op]) : slot = Slots[ix.op][i]
  <1>1. \A slot : Has(ix, slot) <=> \E i \in 1..Len(Slots[ix.op]) : slot = Slots[ix.op][i]
    BY SlotsType DEF Has, Range
  <1>2. ix.op \in OpNames
    BY OpIs
  <1>3. ASSUME ix.op \in {"initialize"}
        PROVE  \A slot : Has(ix, slot) <=> slot \in {"payer", "did", "system"}
    <2>1. Len(Slots[ix.op]) = 3 /\ Slots[ix.op][1] = "payer" /\ Slots[ix.op][2] = "did" /\ Slots[ix.op][3] = "system"
      <3>1. Slots[ix.op] = <<"payer", "did", "system">>
        BY <1>3, SlotsAre
      <3> QED BY <3>1
    <2>2. \A i : i \in 1..3 <=> i = 1 \/ i = 2 \/ i = 3
      OBVIOUS
    <2> QED BY <1>1, <2>1, <2>2
  <1>4. ASSUME ix.op \in {"initialize_owned", "add_verification_method", "remove_verification_method", "add_service", "update_service", "remove_service", "set_controllers", "deactivate"}
        PROVE  \A slot : Has(ix, slot) <=> slot \in {"payer", "authority", "did", "system"}
    <2>1. Len(Slots[ix.op]) = 4 /\ Slots[ix.op][1] = "payer" /\ Slots[ix.op][2] = "authority" /\ Slots[ix.op][3] = "did" /\ Slots[ix.op][4] = "system"
      <3>1. Slots[ix.op] = <<"payer", "authority", "did", "system">>
        BY <1>4, SlotsAre
      <3> QED BY <3>1
    <2>2. \A i : i \in 1..4 <=> i = 1 \/ i = 2 \/ i = 3 \/ i = 4
      OBVIOUS
    <2> QED BY <1>1, <2>1, <2>2
  <1>5. ASSUME ix.op \in {"set_verification_method_flags"}
        PROVE  \A slot : Has(ix, slot) <=> slot \in {"authority", "did"}
    <2>1. Len(Slots[ix.op]) = 2 /\ Slots[ix.op][1] = "authority" /\ Slots[ix.op][2] = "did"
      <3>1. Slots[ix.op] = <<"authority", "did">>
        BY <1>5, SlotsAre
      <3> QED BY <3>1
    <2>2. \A i : i \in 1..2 <=> i = 1 \/ i = 2
      OBVIOUS
    <2> QED BY <1>1, <2>1, <2>2
  <1>6. ASSUME ix.op \in {"create_key_buffer", "add_verification_method_from_buffer"}
        PROVE  \A slot : Has(ix, slot) <=> slot \in {"payer", "authority", "did", "buffer", "system"}
    <2>1. Len(Slots[ix.op]) = 5 /\ Slots[ix.op][1] = "payer" /\ Slots[ix.op][2] = "authority" /\ Slots[ix.op][3] = "did" /\ Slots[ix.op][4] = "buffer" /\ Slots[ix.op][5] = "system"
      <3>1. Slots[ix.op] = <<"payer", "authority", "did", "buffer", "system">>
        BY <1>6, SlotsAre
      <3> QED BY <3>1
    <2>2. \A i : i \in 1..5 <=> i = 1 \/ i = 2 \/ i = 3 \/ i = 4 \/ i = 5
      OBVIOUS
    <2> QED BY <1>1, <2>1, <2>2
  <1>7. ASSUME ix.op \in {"write_key_buffer"}
        PROVE  \A slot : Has(ix, slot) <=> slot \in {"authority", "buffer"}
    <2>1. Len(Slots[ix.op]) = 2 /\ Slots[ix.op][1] = "authority" /\ Slots[ix.op][2] = "buffer"
      <3>1. Slots[ix.op] = <<"authority", "buffer">>
        BY <1>7, SlotsAre
      <3> QED BY <3>1
    <2>2. \A i : i \in 1..2 <=> i = 1 \/ i = 2
      OBVIOUS
    <2> QED BY <1>1, <2>1, <2>2
  <1>8. ASSUME ix.op \in {"close_key_buffer"}
        PROVE  \A slot : Has(ix, slot) <=> slot \in {"payer", "authority", "buffer"}
    <2>1. Len(Slots[ix.op]) = 3 /\ Slots[ix.op][1] = "payer" /\ Slots[ix.op][2] = "authority" /\ Slots[ix.op][3] = "buffer"
      <3>1. Slots[ix.op] = <<"payer", "authority", "buffer">>
        BY <1>8, SlotsAre
      <3> QED BY <3>1
    <2>2. \A i : i \in 1..3 <=> i = 1 \/ i = 2 \/ i = 3
      OBVIOUS
    <2> QED BY <1>1, <2>1, <2>2
  <1> HIDE DEF Has
  <1> QED BY <1>1, <1>2, <1>3, <1>4, <1>5, <1>6, <1>7, <1>8 DEF OpNames, Creates

-----------------------------------------------------------------------------
(* What is taken is built *)

\* What a client asks of an account in a slot is given.
Given(ix, slot, asked) ==
  /\ In(ix, slot).address = asked.address
  /\ asked.signer => In(ix, slot).signer
  /\ asked.writable => In(ix, slot).writable \/ (ix.op = "create_key_buffer" /\ slot = "did")

\* The handler of a key buffer acts for the subject and the authority that the
\* buffer is derived from.
LEMMA BufferUnderstood ==
  ASSUME ClientAssumption, NEW ix, ix.op \in Op, Taken(ix), Has(ix, "buffer")
  PROVE  /\ In(ix, "buffer").writable
         /\ In(ix, "buffer").address = key_buffer(SubjectOf(ix), In(ix, "authority").address)
  <1> DEFINE did == In(ix, "did").address
             buffer == In(ix, "buffer").address
             a == In(ix, "authority").address
  <1>1. ~Creates(ix)
    BY SlotsTogether
  <1>2. CASE ix.op = "create_key_buffer"
    <2>1. PICK s \in Existing : did = did_account(s) /\ buffer = key_buffer(s, a)
      BY <1>2 DEF Taken, CheckNewBuffer
    <2>2. Has(ix, "did")
      BY <1>2, SlotsTogether
    <2>3. did_account(SubjectOf(ix)) = did
      BY <1>1, <2>1, <2>2 DEF SubjectOf
    <2>4. In(ix, "buffer").writable
      BY <1>2 DEF Taken, CheckNewBuffer
    <2> QED BY <2>1, <2>3, <2>4 DEF key_buffer
  <1>3. CASE ix.op # "create_key_buffer"
    <2>1. PICK kb \in Opened : /\ buffer = key_buffer(kb[1], kb[2]) /\ kb[2] = a
                               /\ Has(ix, "did") => did = did_account(kb[1])
      BY <1>3 DEF Taken, CheckBuffer
    <2>2. In(ix, "buffer").writable
      BY <1>3 DEF Taken, CheckBuffer
    <2>3. CASE Has(ix, "did")
      <3>1. did \in {did_account(s) : s \in Existing}
        BY <1>1, <2>3 DEF Taken, CheckDid
      <3>2. did_account(SubjectOf(ix)) = did
        BY <1>1, <2>3, <3>1 DEF SubjectOf
      <3> QED BY <2>1, <2>2, <2>3, <3>2 DEF key_buffer
    <2>4. CASE ~Has(ix, "did")
      <3> DEFINE k == CHOOSE x \in Opened : key_buffer(x[1], x[2]) = buffer
      <3>1. k \in Opened /\ key_buffer(k[1], k[2]) = buffer
        BY <2>1
      <3>2. SubjectOf(ix) = k[1]
        BY <1>1, <2>4 DEF SubjectOf
      <3> HIDE DEF k
      <3>3. IsList(k[1]) /\ IsList(kb[1]) /\ k[2] \in Key /\ kb[2] \in Key
        BY <2>1, <3>1 DEF ClientAssumption
      <3>4. k[2] = kb[2]
        BY <2>1, <3>1, <3>3, KeyBufferInjective
      <3> QED BY <2>1, <2>2, <3>1, <3>2, <3>4
    <2> QED BY <2>3, <2>4
  <1> QED BY <1>2, <1>3

\* The handler of a DID account acts for the subject the account is derived from.
LEMMA DidUnderstood ==
  ASSUME NEW ix, ix.op \in Op, Taken(ix), Has(ix, "did")
  PROVE  /\ In(ix, "did").writable \/ ix.op = "create_key_buffer"
         /\ In(ix, "did").address = did_account(SubjectOf(ix))
  <1> DEFINE did == In(ix, "did").address
  <1>1. CASE Creates(ix)
    BY <1>1 DEF Taken, CheckNewDid, SubjectOf
  <1>2. CASE ~Creates(ix)
    <2>1. did \in {did_account(s) : s \in Existing}
      BY <1>2 DEF Taken, CheckDid
    <2>2. did_account(SubjectOf(ix)) = did
      BY <1>2, <2>1 DEF SubjectOf
    <2> QED BY <1>2, <2>2 DEF Taken, CheckDid
  <1> QED BY <1>1, <1>2

\* What a client asks for a slot of the call that is understood, is given.
LEMMA SlotGiven ==
  ASSUME ClientAssumption, NEW ix, ix.op \in Op, Taken(ix), NEW slot \in SlotNames, Has(ix, slot)
  PROVE  Given(ix, slot, Account(Understood(ix), slot))
  <1> DEFINE c == Understood(ix)
  <1>1. /\ Has(ix, "payer") => c.payer = In(ix, "payer").address
        /\ Has(ix, "authority") => c.authority = In(ix, "authority").address
        /\ c.subject = SubjectOf(ix)
    BY DEF Understood
  <1> SUFFICES Given(ix, slot, Account(c, slot))
    OBVIOUS
  <1> HIDE DEF c
  <1>2. CASE slot = "payer"
    <2>1. In(ix, "payer").signer /\ In(ix, "payer").writable
      BY <1>2 DEF Taken, check_payer
    <2>2. In(ix, "payer").address = Account(c, "payer").address
      BY <1>1, <1>2, AccountFields
    <2> QED BY <1>2, <2>1, <2>2, Zenon DEF Given
  <1>3. CASE slot = "authority"
    <2>1. In(ix, "authority").signer /\ ~Account(c, "authority").writable
      BY <1>3, AccountFields, Zenon DEF Taken, check_authority_signer
    <2>2. In(ix, "authority").address = Account(c, "authority").address
      BY <1>1, <1>3, AccountFields
    <2> QED BY <1>3, <2>1, <2>2, Zenon DEF Given
  <1>4. CASE slot = "system"
    <2>1. ~Account(c, "system").signer /\ ~Account(c, "system").writable
      BY AccountFields
    <2>2. In(ix, "system").address = Account(c, "system").address
      BY <1>4, AccountFields DEF Taken, check_system_program
    <2> QED BY <1>4, <2>1, <2>2, Zenon DEF Given
  <1>5. CASE slot = "did"
    <2>1. ~Account(c, "did").signer
      BY AccountFields
    <2>2. In(ix, "did").address = Account(c, "did").address
      BY <1>1, <1>5, AccountFields, DidUnderstood
    <2>3. In(ix, "did").writable \/ ix.op = "create_key_buffer"
      BY <1>5, DidUnderstood
    <2> QED BY <1>5, <2>1, <2>2, <2>3, Zenon DEF Given
  <1>6. CASE slot = "buffer"
    <2>1. Has(ix, "authority")
      BY <1>6, SlotsTogether
    <2>2. ~Account(c, "buffer").signer
      BY AccountFields
    <2>3. In(ix, "buffer").address = Account(c, "buffer").address
      BY <1>1, <1>6, <2>1, AccountFields, BufferUnderstood
    <2>4. In(ix, "buffer").writable
      BY <1>6, BufferUnderstood
    <2> QED BY <1>6, <2>2, <2>3, <2>4, Zenon DEF Given
  <1> QED BY <1>2, <1>3, <1>4, <1>5, <1>6 DEF SlotNames

\* The arguments that are read are the data of the call.
LEMMA DataUnderstood ==
  ASSUME ClientAssumption, NEW ix, Arrives(ix), Taken(ix)
  PROVE  /\ ix.data = Built(Understood(ix)).data
         /\ ix.op = "initialize_owned" =>
              Understood(ix).subject = owned_subject(Understood(ix).authority, Understood(ix).args[1])
  <1> DEFINE c == Understood(ix)
             args == Arguments(ix.op, ix.data)
  <1>1. ix.op \in Op /\ ix.data \in Seq(Byte) /\ Reads(ix.op, ix.data)
    BY DEF Arrives, Taken
  <1>2. /\ c.op = ix.op /\ c.args = args /\ c.subject = SubjectOf(ix)
        /\ Has(ix, "authority") => c.authority = In(ix, "authority").address
    BY DEF Understood
  <1>3. FlattenSeq(Encodings(ix.op, args)) = ix.data /\ LooseArgs(ix.op, args)
        /\ Encodings(ix.op, args) \in Seq(Seq(Nat))
    BY <1>1, ReadToTheEnd, ReadIsLoose
  <1> HIDE DEF c, args
  <1>4. Built(c).data = IF ix.op = "initialize" THEN c.subject ELSE ix.data
    BY <1>1, <1>2, <1>3, BuiltData
  <1>5. ASSUME ix.op = "initialize" PROVE c.subject = ix.data
    BY <1>2, <1>5 DEF SubjectOf, CreatedSubject, Creates
  <1>6. ASSUME ix.op = "initialize_owned"
        PROVE  c.subject = owned_subject(c.authority, args[1])
    <2>1. Has(ix, "authority")
      BY <1>1, <1>6, SlotsTogether
    <2>2. c.subject = owned_subject(c.authority, ix.data)
      BY <1>2, <1>6, <2>1 DEF SubjectOf, CreatedSubject, Creates
    <2>3. Len(Encodings(ix.op, args)) = 1 /\ Encodings(ix.op, args)[1] = args[1]
      <3>1. Fields[ix.op] = <<"nonce">>
        BY <1>6, FieldsAre
      <3> QED BY <3>1 DEF Encodings, Encoded
    <2>4. ix.data = args[1]
      BY <1>3, <2>3, FlattenByLength
    <2> QED BY <2>2, <2>4
  <1> QED BY <1>2, <1>4, <1>5, <1>6 DEF c

\* Whatever arrives and is taken is what a builder returns.
LEMMA TakenIsBuilt ==
  ASSUME ClientAssumption, NEW ix, Arrives(ix), Taken(ix)
  PROVE  LET built == Built(Understood(ix))
             asked == Merged(built.accounts)
             given == Merged(ix.accounts)
         IN  /\ ix.data = built.data
             /\ \A i \in DOMAIN asked :
                   /\ given[i].address = asked[i].address
                   /\ asked[i].signer => given[i].signer
                   /\ asked[i].writable =>
                         \/ given[i].writable
                         \/ /\ ix.op = "create_key_buffer"
                            /\ given[i].address = In(ix, "did").address
  <1> DEFINE c == Understood(ix)
             built == Built(c)
             asked == Merged(built.accounts)
             given == Merged(ix.accounts)
             n == Len(Slots[ix.op])
             l == built.accounts
             m == ix.accounts
  <1>1. ix.op \in Op /\ IsList(m) /\ Len(m) >= n /\ c.op = ix.op
    BY DEF Arrives, Taken, Understood
  <1>2. IsListed(c, l)
    <2>1. c.op = "initialize_owned" => c.subject = owned_subject(c.authority, c.args[1])
      BY <1>1, DataUnderstood
    <2> HIDE DEF c
    <2> QED BY <1>1, <2>1, BuiltAccounts
  <1> HIDE DEF c
  <1>3. /\ n \in Nat /\ Len(l) = n /\ DOMAIN l = 1..n /\ IsList(l)
        /\ \A i \in 1..n : l[i] = Account(c, Slots[ix.op][i])
    BY <1>1, <1>2, SlotsType DEF IsListed
  <1>4. \A i \in 1..n : Given(ix, Slots[ix.op][i], l[i])
    <2> TAKE i \in 1..n
    <2>1. Slots[ix.op][i] \in SlotNames /\ Has(ix, Slots[ix.op][i])
      BY <1>1, SlotsType, InSlot
    <2>2. Given(ix, Slots[ix.op][i], Account(c, Slots[ix.op][i]))
      BY <1>1, <2>1, SlotGiven DEF c
    <2> QED BY <1>3, <2>2
  <1>5. \A i \in 1..n : In(ix, Slots[ix.op][i]) = given[i]
    BY <1>1, InSlot
  <1>6. Len(m) \in Nat /\ DOMAIN given = 1..Len(m)
    BY <1>1, MergedIs DEF IsList
  <1>7. /\ DOMAIN asked = 1..n
        /\ \A i \in 1..n :
             /\ asked[i].address = l[i].address
             /\ asked[i].signer => \E j \in 1..n : l[j].address = l[i].address /\ l[j].signer
             /\ asked[i].writable => \E j \in 1..n : l[j].address = l[i].address /\ l[j].writable
    <2> HIDE DEF l, n
    <2>1. /\ DOMAIN Merged(l) = 1..Len(l)
          /\ \A i \in 1..Len(l) :
              /\ Merged(l)[i].address = l[i].address
              /\ Merged(l)[i].signer = (\E j \in 1..Len(l) : l[j].address = l[i].address /\ l[j].signer)
              /\ Merged(l)[i].writable = (\E j \in 1..Len(l) : l[j].address = l[i].address /\ l[j].writable)
      BY <1>3, MergedIs
    <2>2. Len(l) = n /\ asked = Merged(l)
      BY <1>3 DEF l
    <2> HIDE DEF asked
    <2> QED BY <2>1, <2>2, Zenon
  <1>8. \A i \in 1..n :
          /\ i \in 1..Len(m)
          /\ given[i].address = m[i].address
          /\ given[i].signer = (\E j \in 1..Len(m) : m[j].address = m[i].address /\ m[j].signer)
          /\ given[i].writable = (\E j \in 1..Len(m) : m[j].address = m[i].address /\ m[j].writable)
    <2> TAKE i \in 1..n
    <2>1. i \in 1..Len(m)
      BY <1>1, <1>3, <1>6
    <2> QED BY <1>1, <2>1, MergedIs
  <1> HIDE DEF l, m, n, asked, given
  <1>9. ASSUME NEW i \in 1..n
        PROVE  /\ given[i].address = l[i].address
               /\ l[i].signer => given[i].signer
               /\ l[i].writable => \/ given[i].writable
                                  \/ /\ ix.op = "create_key_buffer"
                                     /\ given[i].address = In(ix, "did").address
    <2> DEFINE slot == Slots[ix.op][i]
    <2>1. Given(ix, slot, l[i]) /\ In(ix, slot) = given[i]
      BY <1>4, <1>5
    <2> HIDE DEF slot
    <2>2. slot = "did" => given[i].address = In(ix, "did").address
      BY <2>1
    <2> QED BY <2>1, <2>2, Zenon DEF Given
  <1>10. ASSUME NEW i \in 1..n, NEW j \in 1..n, l[j].address = l[i].address
         PROVE  /\ given[i].address = given[j].address
                /\ given[j].signer => given[i].signer
                /\ given[j].writable => given[i].writable
    <2>1. given[i].address = given[j].address
      <3>1. given[i].address = l[i].address /\ given[j].address = l[j].address
        BY <1>9
      <3> QED BY <1>10, <3>1
    <2>2. m[i].address = m[j].address
      BY <1>8, <2>1
    <2>3. ASSUME given[j].signer PROVE given[i].signer
      <3>1. PICK k \in 1..Len(m) : m[k].address = m[j].address /\ m[k].signer
        BY <1>8, <2>3, Zenon
      <3>2. m[k].address = m[i].address /\ m[k].signer
        BY <2>2, <3>1, Zenon
      <3> QED BY <1>8, <3>2, Zenon
    <2>4. ASSUME given[j].writable PROVE given[i].writable
      <3>1. PICK k \in 1..Len(m) : m[k].address = m[j].address /\ m[k].writable
        BY <1>8, <2>4, Zenon
      <3>2. m[k].address = m[i].address /\ m[k].writable
        BY <2>2, <3>1, Zenon
      <3> QED BY <1>8, <3>2, Zenon
    <2> QED BY <2>1, <2>3, <2>4
  <1>11. ASSUME NEW i \in 1..n
         PROVE  /\ given[i].address = asked[i].address
                /\ asked[i].signer => given[i].signer
                /\ asked[i].writable =>
                      \/ given[i].writable
                      \/ /\ ix.op = "create_key_buffer"
                         /\ given[i].address = In(ix, "did").address
    <2>1. given[i].address = asked[i].address
      BY <1>7, <1>9
    <2>2. ASSUME asked[i].signer PROVE given[i].signer
      <3>1. PICK j \in 1..n : l[j].address = l[i].address /\ l[j].signer
        BY <1>7, <2>2, Zenon
      <3> QED BY <1>9, <1>10, <3>1, Zenon
    <2>3. ASSUME asked[i].writable
          PROVE  \/ given[i].writable
                 \/ ix.op = "create_key_buffer" /\ given[i].address = In(ix, "did").address
      <3>1. PICK j \in 1..n : l[j].address = l[i].address /\ l[j].writable
        BY <1>7, <2>3, Zenon
      <3> QED BY <1>9, <1>10, <3>1, Zenon
    <2> QED BY <2>1, <2>2, <2>3
  <1>12. ix.data = built.data
    BY DataUnderstood DEF c
  <1>13. /\ ix.data = built.data
         /\ \A i \in DOMAIN asked :
               /\ given[i].address = asked[i].address
               /\ asked[i].signer => given[i].signer
               /\ asked[i].writable =>
                     \/ given[i].writable
                     \/ /\ ix.op = "create_key_buffer"
                        /\ given[i].address = In(ix, "did").address
    BY <1>7, <1>11, <1>12
  <1> QED BY <1>13 DEF asked, given, l, m, c

-----------------------------------------------------------------------------
(* What arrives *)

\* Lists
LEMMA SequenceIsList ==
  ASSUME NEW S, NEW l \in Seq(S)
  PROVE  IsList(l)
  BY DEF IsList

\* are sequences.
LEMMA ListIsSequence ==
  ASSUME NEW l, IsList(l)
  PROVE  \E S : l \in Seq(S)
  <1> DEFINE n == Len(l)
             S == {l[i] : i \in 1..n}
  <1>1. n \in Nat /\ l = [i \in 1..n |-> l[i]]
    BY DEF IsList
  <1> HIDE DEF n
  <1>2. l \in [1..n -> S]
    BY <1>1
  <1> HIDE DEF S
  <1>3. l \in Seq(S)
    BY <1>1, <1>2, IsSequence
  <1> QED BY <1>3

\* What becomes of the accounts of a transaction.
LEMMA ListsChanged ==
  ASSUME NEW l, IsList(l), NEW a
  PROVE  /\ IsList(Append(l, a))
         /\ \A i \in DOMAIN l : IsList(RemoveAt(l, i))
         /\ \A i \in DOMAIN l : IsList([l EXCEPT ![i] = a])
  <1>1. PICK S : l \in Seq(S)
    BY ListIsSequence
  <1> DEFINE T == S \cup {a}
  <1>2. l \in Seq(T) /\ a \in T
    BY <1>1
  <1> HIDE DEF T
  <1>3. Append(l, a) \in Seq(T)
    BY <1>2
  <1>4. ASSUME NEW i \in DOMAIN l PROVE RemoveAt(l, i) \in Seq(T)
    BY <1>2, <1>4 DEF RemoveAt
  <1>5. ASSUME NEW i \in DOMAIN l PROVE [l EXCEPT ![i] = a] \in Seq(T)
    BY <1>2, <1>5
  <1> QED BY <1>3, <1>4, <1>5, SequenceIsList

\* An instruction is a record of its three parts.
IsInstruction(ix) ==
  ix = [op |-> ix.op, accounts |-> ix.accounts, data |-> ix.data]

\* Every builder returns one.
LEMMA InstructionIs ==
  ASSUME NEW op, NEW accounts, NEW data, NEW ix, ix = Instruction(op, accounts, data)
  PROVE  IsInstruction(ix)
  BY DEF IsInstruction, Instruction

\* What fits a field has its type.
LEMMA ValuesAreLoose ==
  ASSUME ClientAssumption, NEW field \in FieldNames, NEW v \in Values(field)
  PROVE  v \in Loose(field)
  <1>0. Radix \in Nat \ {0} /\ AddressLen \in Nat /\ TextByte \subseteq Byte
    BY DEF ClientAssumption
  <1>1. CASE field = "u8"
    BY <1>1 DEF Values, Loose
  <1>2. CASE field \in {"u16", "u32"}
    <2> DEFINE m == Radix * Radix
               k == Radix * Radix * Radix * Radix
    <2>1. v \in 0..m - 1 \/ v \in 0..k - 1
      BY <1>2 DEF Values
    <2>2. m \in Int /\ k \in Int
      BY <1>0
    <2> HIDE DEF m, k
    <2>3. v \in Nat
      BY <2>1, <2>2
    <2> QED BY <1>2, <2>3 DEF Loose
  <1>3. CASE field = "nonce"
    <2>1. v \in [1..8 -> Byte]
      BY <1>3 DEF Values
    <2>2. v \in Seq(Byte)
      BY <2>1, IsSequence
    <2> QED BY <1>3, <2>2 DEF Loose
  <1>4. CASE field = "address"
    <2>1. v \in [1..AddressLen -> Byte]
      BY <1>4 DEF Values, Key
    <2>2. v \in Seq(Byte)
      BY <1>0, <2>1, IsSequence
    <2> QED BY <1>4, <2>2 DEF Loose
  <1>5. \A t \in Str : t \in Seq(Byte)
    BY <1>0 DEF Str
  <1>6. CASE field = "str"
    BY <1>5, <1>6 DEF Values, Loose
  <1>7. CASE field = "bytes"
    BY <1>7 DEF Values, Loose
  <1>8. \A t \in Key : t \in Seq(Byte)
    BY <1>0, IsSequence DEF Key
  <1>9. CASE field = "addresses"
    <2>1. v \in Seq(Key)
      BY <1>9 DEF Values
    <2>2. v \in Seq(Seq(Byte))
      BY <1>8, <2>1
    <2> QED BY <1>9, <2>2 DEF Loose
  <1>10. CASE field = "strs"
    <2>1. v \in Seq(Str)
      BY <1>10 DEF Values
    <2>2. v \in Seq(Seq(Byte))
      BY <1>5, <2>1
    <2> QED BY <1>10, <2>2 DEF Loose
  <1> QED BY <1>1, <1>2, <1>3, <1>4, <1>6, <1>7, <1>9, <1>10 DEF FieldNames

\* So have the arguments of a call.
LEMMA CallIsLoose ==
  ASSUME ClientAssumption, NEW c, ProperCall(c)
  PROVE  c.op \in Op /\ LooseArgs(c.op, c.args)
  <1>1. c.op \in Op /\ \A i \in DOMAIN Fields[c.op] : c.args[i] \in Values(Fields[c.op][i])
    BY DEF ProperCall
  <1>2. ASSUME NEW i \in DOMAIN Fields[c.op] PROVE c.args[i] \in Loose(Fields[c.op][i])
    <2>1. Fields[c.op][i] \in FieldNames
      BY <1>1, FieldsType
    <2> QED BY <1>1, <2>1, ValuesAreLoose
  <1> QED BY <1>1, <1>2 DEF LooseArgs

\* Arguments are encoded in bytes, one entry to a field.
LEMMA EncodingsType ==
  ASSUME ClientAssumption, NEW op \in Op, NEW args, LooseArgs(op, args)
  PROVE  Encodings(op, args) \in Seq(Seq(Byte)) /\ Len(Encodings(op, args)) = Len(Fields[op])
  <1> DEFINE n == Len(Fields[op])
             E == Encodings(op, args)
             V == Seq(Byte)
  <1>1. n \in Nat /\ DOMAIN Fields[op] = 1..n /\ \A i \in 1..n : Fields[op][i] \in FieldNames
    BY FieldsType
  <1>2. ASSUME NEW i \in 1..n PROVE Encoded(Fields[op][i], args[i]) \in V
    <2>1. args[i] \in Loose(Fields[op][i])
      BY <1>1 DEF LooseArgs
    <2> QED BY <1>1, <2>1, EncodedType
  <1>3. E = [i \in 1..n |-> Encoded(Fields[op][i], args[i])]
    BY <1>1 DEF Encodings
  <1> HIDE DEF n, E, V
  <1>4. E \in [1..n -> V]
    BY <1>2, <1>3
  <1>5. E \in Seq(V) /\ Len(E) = n
    BY <1>1, <1>4, IsSequence
  <1> QED BY <1>5 DEF n, E, V

\* What is built for a call could arrive, with the accounts of the call.
LEMMA BuiltArrives ==
  ASSUME ClientAssumption, NEW c, ProperCall(c)
  PROVE  Arrives(Built(c)) /\ IsListed(c, Built(c).accounts)
  <1>1. c.op \in Op /\ LooseArgs(c.op, c.args) /\ CallFor(c)
    BY CallIsLoose DEF ProperCall
  <1>2. IsListed(c, Built(c).accounts) /\ Built(c).op = c.op
    <2>1. c.op = "initialize_owned" => c.subject = owned_subject(c.authority, c.args[1])
      BY <1>1 DEF CallFor
    <2> QED BY <1>1, <2>1, BuiltAccounts
  <1>3. IsList(Built(c).accounts)
    BY <1>2 DEF IsListed
  <1>4. CASE c.op = "initialize"
    <2>1. Built(c).data = c.subject /\ c.subject = c.args[1]
      BY <1>1, <1>4, BuiltData DEF CallFor
    <2>2. 1 \in DOMAIN Fields[c.op] /\ Fields[c.op][1] = "address"
      BY <1>4, FieldsAre
    <2>3. c.args[1] \in Seq(Byte)
      BY <1>1, <2>2 DEF LooseArgs, Loose
    <2> QED BY <1>1, <1>2, <1>3, <2>1, <2>3 DEF Arrives
  <1>5. CASE c.op # "initialize"
    <2>1. Built(c).data = FlattenSeq(Encodings(c.op, c.args))
      BY <1>1, <1>5, BuiltData
    <2>2. FlattenSeq(Encodings(c.op, c.args)) \in Seq(Byte)
      BY <1>1, EncodingsType, FlattenBytes
    <2> QED BY <1>1, <1>2, <1>3, <2>1, <2>2 DEF Arrives
  <1> QED BY <1>2, <1>4, <1>5

\* Fourteen builders, one form.
LEMMA BuiltIsInstruction ==
  ASSUME NEW c, c.op \in Op
  PROVE  IsInstruction(Built(c))
  <1>1. CASE c.op = "initialize"
    BY <1>1, InstructionIs DEF Built, initialize
  <1>2. CASE c.op = "initialize_owned"
    BY <1>2, InstructionIs DEF Built, initialize_owned
  <1>3. CASE c.op = "add_verification_method"
    BY <1>3, InstructionIs DEF Built, add_verification_method
  <1>4. CASE c.op = "remove_verification_method"
    BY <1>4, InstructionIs DEF Built, remove_verification_method
  <1>5. CASE c.op = "set_verification_method_flags"
    BY <1>5, InstructionIs DEF Built, set_verification_method_flags
  <1>6. CASE c.op = "add_service"
    BY <1>6, InstructionIs DEF Built, add_service
  <1>7. CASE c.op = "update_service"
    BY <1>7, InstructionIs DEF Built, update_service
  <1>8. CASE c.op = "remove_service"
    BY <1>8, InstructionIs DEF Built, remove_service
  <1>9. CASE c.op = "set_controllers"
    BY <1>9, InstructionIs DEF Built, set_controllers
  <1>10. CASE c.op = "deactivate"
    BY <1>10, InstructionIs DEF Built, deactivate
  <1>11. CASE c.op = "create_key_buffer"
    BY <1>11, InstructionIs DEF Built, create_key_buffer
  <1>12. CASE c.op = "write_key_buffer"
    BY <1>12, InstructionIs DEF Built, write_key_buffer
  <1>13. CASE c.op = "add_verification_method_from_buffer"
    BY <1>13, InstructionIs DEF Built, add_verification_method_from_buffer
  <1>14. CASE c.op = "close_key_buffer"
    BY <1>14, InstructionIs DEF Built, close_key_buffer
  <1> QED BY OpIs, <1>1, <1>2, <1>3, <1>4, <1>5, <1>6, <1>7, <1>8, <1>9, <1>10, <1>11, <1>12, <1>13, <1>14 DEF OpNames

-----------------------------------------------------------------------------
(* TakenIsACall *)

ArrivesInv == IsInstruction(tx) /\ Arrives(tx)

\* A part replaced by another of its kind leaves an instruction.
LEMMA PartsChanged ==
  ASSUME NEW ix, IsInstruction(ix), Arrives(ix), NEW jx
  PROVE  /\ \A d \in Seq(Byte) : jx = [ix EXCEPT !.data = d] => IsInstruction(jx) /\ Arrives(jx)
         /\ \A op \in Op : jx = [ix EXCEPT !.op = op] => IsInstruction(jx) /\ Arrives(jx)
         /\ \A l : IsList(l) /\ jx = [ix EXCEPT !.accounts = l] => IsInstruction(jx) /\ Arrives(jx)
  <1>1. ASSUME NEW d \in Seq(Byte), jx = [ix EXCEPT !.data = d] PROVE IsInstruction(jx) /\ Arrives(jx)
    <2>1. jx.data = d /\ jx.op = ix.op /\ jx.accounts = ix.accounts
      BY <1>1 DEF IsInstruction
    <2> QED BY <1>1, <2>1 DEF IsInstruction, Arrives
  <1>2. ASSUME NEW op \in Op, jx = [ix EXCEPT !.op = op] PROVE IsInstruction(jx) /\ Arrives(jx)
    <2>1. jx.data = ix.data /\ jx.op = op /\ jx.accounts = ix.accounts
      BY <1>2 DEF IsInstruction
    <2> QED BY <1>2, <2>1 DEF IsInstruction, Arrives
  <1>3. ASSUME NEW l, IsList(l), jx = [ix EXCEPT !.accounts = l] PROVE IsInstruction(jx) /\ Arrives(jx)
    <2>1. jx.data = ix.data /\ jx.op = ix.op /\ jx.accounts = l
      BY <1>3 DEF IsInstruction
    <2> QED BY <1>3, <2>1 DEF IsInstruction, Arrives
  <1> QED BY <1>1, <1>2, <1>3

\* What a client sends, arrives.
LEMMA SentArrives ==
  ASSUME ClientAssumption, ClientInit
  PROVE  ArrivesInv
  <1> DEFINE b == Built(meant)
  <1>1. ProperCall(meant) /\ meant.op \in Op
    BY DEF ClientAssumption, ClientInit, ProperCall
  <1>2. IsInstruction(b) /\ Arrives(b)
    BY <1>1, BuiltArrives, BuiltIsInstruction
  <1> HIDE DEF b
  <1>3. \A l : IsList(l) => IsList(Append(l, readonly(did_account(via), FALSE)))
    BY ListsChanged
  <1>4. CASE via = NoOne
    BY <1>2, <1>4 DEF ClientInit, ArrivesInv, b
  <1>5. CASE via # NoOne
    <2>1. tx = [b EXCEPT !.accounts = Append(b.accounts, readonly(did_account(via), FALSE))]
      BY <1>5 DEF ClientInit, via_controller, b
    <2>2. IsList(Append(b.accounts, readonly(did_account(via), FALSE)))
      BY <1>2, <1>3 DEF Arrives
    <2> QED BY <1>2, <2>1, <2>2, PartsChanged DEF ArrivesInv
  <1> QED BY <1>4, <1>5

\* Whatever is changed of an instruction, one arrives.
LEMMA ChangedArrives ==
  ASSUME ClientAssumption, ArrivesInv, [ClientNext]_vars
  PROVE  ArrivesInv'
  <1> DEFINE d == tx.data
             l == tx.accounts
  <1>1. IsInstruction(tx) /\ Arrives(tx) /\ d \in Seq(Byte) /\ IsList(l)
    BY DEF ArrivesInv, Arrives
  <1>2. \A e \in Seq(Byte) : tx' = [tx EXCEPT !.data = e] => ArrivesInv'
    BY <1>1, PartsChanged DEF ArrivesInv
  <1>3. \A op \in Op : tx' = [tx EXCEPT !.op = op] => ArrivesInv'
    BY <1>1, PartsChanged DEF ArrivesInv
  <1>4. \A k : IsList(k) /\ tx' = [tx EXCEPT !.accounts = k] => ArrivesInv'
    BY <1>1, PartsChanged DEF ArrivesInv
  <1>5. \A i \in DOMAIN l : \A a : IsList([l EXCEPT ![i] = a])
    BY <1>1, ListsChanged
  <1>6. CASE Truncate
    <2>1. d # <<>> /\ tx' = [tx EXCEPT !.data = Front(d)]
      BY <1>6 DEF Truncate, Change
    <2>2. Front(d) \in Seq(Byte)
      BY <1>1, <2>1 DEF Front
    <2> QED BY <1>2, <2>1, <2>2
  <1>7. CASE Extend
    <2>1. PICK b \in Byte : tx' = [tx EXCEPT !.data = Append(d, b)]
      BY <1>7 DEF Extend, Change
    <2>2. Append(d, b) \in Seq(Byte)
      BY <1>1
    <2> QED BY <1>2, <2>1, <2>2
  <1>8. CASE Corrupt
    <2>1. PICK i \in DOMAIN d, b \in Byte : tx' = [tx EXCEPT !.data = [d EXCEPT ![i] = b]]
      BY <1>8 DEF Corrupt, Change
    <2>2. [d EXCEPT ![i] = b] \in Seq(Byte)
      BY <1>1
    <2> QED BY <1>2, <2>1, <2>2
  <1>9. CASE Relabel
    BY <1>3, <1>9 DEF Relabel, Change
  <1>10. CASE DropAccount
    <2>1. PICK i \in DOMAIN l : tx' = [tx EXCEPT !.accounts = RemoveAt(l, i)]
      BY <1>10 DEF DropAccount, Change
    <2>2. IsList(RemoveAt(l, i))
      BY <1>1, ListsChanged
    <2> QED BY <1>4, <2>1, <2>2
  <1>11. CASE SwapAccounts
    <2>1. PICK i \in DOMAIN l, j \in DOMAIN l :
            tx' = [tx EXCEPT !.accounts[i] = l[j], !.accounts[j] = l[i]]
      BY <1>11 DEF SwapAccounts, Change
    <2> DEFINE k == [l EXCEPT ![i] = l[j]]
               m == [k EXCEPT ![j] = l[i]]
    <2>2. tx' = [tx EXCEPT !.accounts = m]
      BY <1>1, <2>1 DEF IsInstruction
    <2>3. IsList(k) /\ j \in DOMAIN k
      BY <1>5
    <2>4. IsList(m)
      <3> HIDE DEF k
      <3> QED BY <2>3, ListsChanged
    <2> HIDE DEF m
    <2> QED BY <1>4, <2>2, <2>4
  <1>12. CASE OtherAddress
    <2>1. PICK i \in DOMAIN l, a \in Address :
            tx' = [tx EXCEPT !.accounts = [l EXCEPT ![i] = [l[i] EXCEPT !.address = a]]]
      BY <1>12 DEF OtherAddress, Change
    <2> QED BY <1>4, <1>5, <2>1
  <1>13. CASE Unsign
    <2>1. PICK i \in DOMAIN l :
            tx' = [tx EXCEPT !.accounts = [l EXCEPT ![i] = [l[i] EXCEPT !.signer = FALSE]]]
      BY <1>13 DEF Unsign, Change
    <2> QED BY <1>4, <1>5, <2>1
  <1>14. CASE ReadOnly
    <2>1. PICK i \in DOMAIN l :
            tx' = [tx EXCEPT !.accounts = [l EXCEPT ![i] = [l[i] EXCEPT !.writable = FALSE]]]
      BY <1>14 DEF ReadOnly, Change
    <2> QED BY <1>4, <1>5, <2>1
  <1>15. CASE UNCHANGED vars
    BY <1>1, <1>15 DEF vars, ArrivesInv, IsInstruction, Arrives
  <1> QED BY <1>6, <1>7, <1>8, <1>9, <1>10, <1>11, <1>12, <1>13, <1>14, <1>15 DEF ClientNext

\* Whatever happens to an instruction on its way, three parts arrive: an
\* instruction discriminator, bytes and a list of accounts.
THEOREM AnInstructionArrives == ClientSpec => []ArrivesInv
  <1>1. ClientInit => ArrivesInv
    BY ClientAssumption, SentArrives
  <1>2. ArrivesInv /\ [ClientNext]_vars => ArrivesInv'
    BY ClientAssumption, ChangedArrives
  <1> QED BY <1>1, <1>2, PTL DEF ClientSpec

\* TakenIsACall: the handlers of the program (instructions/*.rs) take nothing
\* but what client.rs builds, byte for byte and slot for slot, whatever bytes,
\* accounts, roles and addresses an instruction arrives with.
THEOREM WhatIsTakenIsACall == ClientSpec => []TakenIsACall
  <1>1. ArrivesInv => TakenIsACall
    <2> SUFFICES ASSUME Arrives(tx), Taken(tx) PROVE TakenIsACall
      BY DEF ArrivesInv, TakenIsACall
    <2> QED BY ClientAssumption, TakenIsBuilt DEF TakenIsACall
  <1> QED BY <1>1, AnInstructionArrives, PTL

-----------------------------------------------------------------------------
(* Fields, read as they were written *)

\* What is held is the slice there.
LEMMA HeldIsSlice ==
  ASSUME NEW d \in Seq(Nat), NEW p \in Nat, NEW part \in Seq(Nat), Holds(d, p, part)
  PROVE  /\ p + Len(part) <= Len(d) /\ Len(part) \in Nat
         /\ Slice(d, p, p + Len(part)) = part
  <1> DEFINE n == Len(part)
             e == p + n
             s == Slice(d, p, e)
  <1>1. n \in Nat /\ Len(d) \in Nat /\ e <= Len(d) /\ e \in Nat /\ p <= e /\ e - p = n
    BY LenProperties DEF Holds
  <1>2. \A i \in 1..n : d[p + i] = part[i]
    BY DEF Holds
  <1> HIDE DEF n, e
  <1>3. s \in Seq(Nat) /\ Len(s) = n /\ \A i \in 1..n : s[i] = d[p + i]
    <2>1. s \in Seq(Nat) /\ Len(s) = e - p /\ \A i \in 1..e - p : s[i] = d[p + i]
      BY <1>1, SliceType
    <2> QED BY <1>1, <2>1
  <1> HIDE DEF s
  <1>4. Len(s) = Len(part) /\ \A i \in 1..Len(s) : s[i] = part[i]
    BY <1>2, <1>3 DEF n
  <1>5. s = part
    BY <1>3, <1>4, SameCells
  <1> QED BY <1>1, <1>5 DEF s, e, n

\* Dividing brings a number below the next power.
LEMMA DividedFits ==
  ASSUME NEW R \in Nat \ {0}, NEW m \in Nat, NEW n \in Nat, n < R * m
  PROVE  n \div R \in Nat /\ n \div R < m
  <1> DEFINE q == n \div R
             r == n % R
  <1>1. q \in Nat /\ r \in Nat /\ n = R * q + r
    BY Divided
  <1> HIDE DEF q, r
  <1>2. ASSUME q >= m PROVE FALSE
    <2> DEFINE t == q - m
    <2>1. t \in Nat /\ q = m + t
      BY <1>1, <1>2
    <2> HIDE DEF t
    <2>2. R * q = R * m + R * t
      BY <1>1, <2>1
    <2>3. R * t \in Nat /\ R * m \in Nat /\ R * q \in Nat
      BY <1>1, <2>1
    <2> QED BY <1>1, <2>2, <2>3
  <1> QED BY <1>1, <1>2 DEF q

\* The numbers of w bytes.
Fits(n, w) ==
  CASE w = 1 -> n < Radix
    [] w = 2 -> n < Radix * Radix
    [] w = 4 -> n < Radix * Radix * Radix * Radix

\* The digits of a number that fits come to an end.
LEMMA DigitsEnd ==
  ASSUME ClientAssumption, NEW n \in Nat, NEW w \in {1, 2, 4}, Fits(n, w), NEW q, Quotients(n, w, q)
  PROVE  q[w] = 0
  <1> DEFINE R == Radix
             two == R * R
             three == R * R * R
  <1>0. R \in Nat \ {0} /\ two \in Nat /\ three \in Nat
    BY DEF ClientAssumption
  <1>1. /\ q \in [0..w -> Nat] /\ q[0] = n
        /\ \A i \in 1..w : q[i] = q[i - 1] \div R
    BY DEF Quotients
  <1>2. w \in Nat /\ \A i \in 1..w : i \in 0..w /\ i - 1 \in 0..w
    OBVIOUS
  <1>3. ASSUME NEW i \in 1..w, NEW m \in Nat, q[i - 1] < R * m
        PROVE  q[i] < m
    <2>1. q[i - 1] \in Nat /\ q[i] = q[i - 1] \div R
      BY <1>1, <1>2
    <2> QED BY <1>0, <1>3, <2>1, DividedFits
  <1>4. ASSUME NEW i \in 1..w, q[i] < 1
        PROVE  q[i] = 0
    <2>1. q[i] \in Nat
      BY <1>1, <1>2
    <2> QED BY <1>4, <2>1
  <1>5. CASE w = 1
    <2>1. 1 \in 1..w /\ q[1 - 1] < R * 1
      BY <1>0, <1>1, <1>5 DEF Fits
    <2>2. q[1] < 1
      BY <1>3, <2>1
    <2> QED BY <1>4, <1>5, <2>1, <2>2
  <1>6. CASE w = 2
    <2>1. 1 \in 1..w /\ 2 \in 1..w /\ 1 - 1 = 0 /\ 2 - 1 = 1
      BY <1>6
    <2>2. q[1 - 1] < R * R
      BY <1>1, <1>6, <2>1 DEF Fits
    <2>3. q[1] < R
      BY <1>0, <1>3, <2>1, <2>2
    <2>4. q[2 - 1] < R * 1
      BY <1>0, <2>1, <2>3
    <2>5. q[2] < 1
      BY <1>3, <2>1, <2>4
    <2> QED BY <1>4, <1>6, <2>1, <2>5
  <1>7. CASE w = 4
    <2>1. /\ 1 \in 1..w /\ 2 \in 1..w /\ 3 \in 1..w /\ 4 \in 1..w
          /\ 1 - 1 = 0 /\ 2 - 1 = 1 /\ 3 - 1 = 2 /\ 4 - 1 = 3
      BY <1>7
    <2>2. R * R * R * R = R * three
      BY <1>0
    <2>3. q[1 - 1] < R * three
      BY <1>1, <1>7, <2>1, <2>2 DEF Fits
    <2>4. q[1] < three
      <3> HIDE DEF three
      <3> QED BY <1>0, <1>3, <2>1, <2>3
    <2>5. three = R * two
      BY <1>0
    <2>6. q[2] < two
      <3>1. q[2 - 1] < R * two
        BY <2>1, <2>4, <2>5
      <3> HIDE DEF two
      <3> QED BY <1>0, <1>3, <2>1, <3>1
    <2>7. q[3] < R
      <3>1. q[3 - 1] < R * R
        BY <2>1, <2>6
      <3> QED BY <1>0, <1>3, <2>1, <3>1
    <2>8. q[4 - 1] < R * 1
      BY <1>0, <2>1, <2>7
    <2>9. q[4] < 1
      BY <1>3, <2>1, <2>8
    <2> QED BY <1>4, <1>7, <2>1, <2>9
  <1> QED BY <1>5, <1>6, <1>7

\* A number is read as it was written.
LEMMA NumberRead ==
  ASSUME ClientAssumption, NEW d \in Seq(Byte), NEW p \in Nat, NEW n \in Nat, NEW w \in {1, 2, 4},
         Fits(n, w), Holds(d, p, LE(n, w))
  PROVE  Number(d, p, w) = n /\ p + w <= Len(d)
  <1> DEFINE part == LE(n, w)
  <1>1. d \in Seq(Nat) /\ part \in Seq(Nat) /\ Len(part) = w /\ w \in Nat
    <2>1. w \in Nat
      OBVIOUS
    <2>2. part \in Seq(Byte) /\ Len(part) = w
      BY <2>1, WrittenType
    <2> HIDE DEF part
    <2> QED BY <2>1, <2>2, BytesAreNumbers
  <1> HIDE DEF part
  <1>2. p + w <= Len(d) /\ Slice(d, p, p + w) = part
    BY <1>1, HeldIsSlice DEF part
  <1>3. PICK q : Quotients(n, w, q)
    BY <1>1, QuotientsExist
  <1>4. q[w] = 0
    BY <1>3, DigitsEnd
  <1> QED BY <1>1, <1>2, <1>3, <1>4, WrittenIsRead DEF part

\* A length-prefixed value is read as it was written.
LEMMA PrefixedRead ==
  ASSUME ClientAssumption, NEW d \in Seq(Byte), NEW p \in Nat, NEW v \in Seq(Byte), Fitting(v),
         Holds(d, p, bytes(v))
  PROVE  /\ PrefixedEnd(d, p) = p + 4 + Len(v) /\ PrefixedEnd(d, p) <= Len(d)
         /\ Len(bytes(v)) = 4 + Len(v)
         /\ Body(d, p) = v
         /\ v \in Seq(TextByte) => StrEnd(d, p) = p + 4 + Len(v)
  <1> DEFINE n == Len(v)
             head == LE(n, 4)
             q == p + 4
             e == q + n
  <1>1. n \in Nat /\ d \in Seq(Nat) /\ v \in Seq(Nat) /\ Len(d) \in Nat
    BY BytesAreNumbers, LenProperties
  <1>2. head \in Seq(Nat) /\ Len(head) = 4
    BY <1>1, WrittenType, BytesAreNumbers
  <1>3. bytes(v) = head \o v
    BY DEF bytes
  <1>4. q \in Nat /\ e \in Nat
    BY <1>1
  <1>5. Fits(n, 4)
    BY DEF Fitting, Fits
  <1> HIDE DEF head, q
  <1>6. Holds(d, p, head) /\ Holds(d, q, v)
    BY <1>1, <1>2, <1>3, HoldsBoth DEF q
  <1>7. Len(bytes(v)) = 4 + n
    <2>1. Len(head \o v) = Len(head) + Len(v)
      BY <1>1, <1>2, Joined
    <2> QED BY <1>2, <1>3, <2>1
  <1>8. Number(d, p, 4) = n /\ p + 4 <= Len(d)
    <2> HIDE DEF n
    <2> QED BY <1>1, <1>5, <1>6, NumberRead DEF head
  <1>9. e <= Len(d) /\ Slice(d, q, e) = v
    BY <1>1, <1>4, <1>6, HeldIsSlice
  <1> HIDE DEF n, e
  <1>10. PrefixedEnd(d, p) = e
    <2>1. ~(p + 4 > Len(d))
      BY <1>1, <1>8
    <2> QED BY <1>8, <2>1 DEF PrefixedEnd, e, q
  <1>11. Body(d, p) = v
    <2>1. p + 5 = q + 1 /\ p + 4 + n = e
      BY DEF q, e
    <2> QED BY <1>8, <1>9, <2>1 DEF Body, Slice
  <1>12. ASSUME v \in Seq(TextByte) PROVE StrEnd(d, p) = e
    <2>1. \A i \in 1..Len(v) : v[i] \in TextByte
      BY <1>12, ElementOfSeq
    <2>2. DOMAIN v = 1..Len(v)
      BY <1>12, LenProperties
    <2>3. Range(v) \subseteq TextByte
      BY <2>1, <2>2 DEF Range
    <2> QED BY <1>9, <1>10, <1>11, <2>3 DEF StrEnd
  <1> QED BY <1>7, <1>9, <1>10, <1>11, <1>12 DEF e, q, n

-----------------------------------------------------------------------------
(* Lists, read as they were written *)

\* The field at p is read as v, and ends behind it.
ReadAs(field, d, p, v) ==
  /\ EndOf(field, d, p) = p + Len(Encoded(field, v))
  /\ FieldValue(field, d, p) = v

\* A list of entries behind its count: the count is read, and each entry has
\* its place.
LEMMA CountedRead ==
  ASSUME ClientAssumption, NEW d \in Seq(Byte), NEW p \in Nat, NEW n \in Nat, Fits(n, 4),
         NEW E \in Seq(Seq(Nat)), Len(E) = n, Holds(d, p, LE(n, 4) \o FlattenSeq(E))
  PROVE  /\ Number(d, p, 4) = n /\ p + 4 <= Len(d)
         /\ \E at : /\ Placed(d, p + 4, E, at)
                    /\ at[n] = p + Len(LE(n, 4) \o FlattenSeq(E)) /\ at[n] <= Len(d)
  <1> DEFINE head == LE(n, 4)
             tail == FlattenSeq(E)
             q == p + 4
  <1>1. d \in Seq(Nat) /\ Len(d) \in Nat /\ q \in Nat
    BY BytesAreNumbers
  <1>2. head \in Seq(Nat) /\ Len(head) = 4
    BY WrittenType, BytesAreNumbers
  <1>3. tail \in Seq(Nat) /\ Len(tail) \in Nat
    BY FlattenType, LenProperties
  <1> HIDE DEF head, tail, q
  <1>4. Holds(d, p, head) /\ Holds(d, q, tail)
    BY <1>1, <1>2, <1>3, HoldsBoth DEF q, head, tail
  <1>5. Number(d, p, 4) = n /\ p + 4 <= Len(d)
    BY <1>4, NumberRead DEF head
  <1>6. PICK at : Placed(d, q, E, at) /\ at[Len(E)] = q + Len(tail)
    BY <1>1, <1>4, EntriesPlaced DEF tail
  <1>7. Len(head \o tail) = 4 + Len(tail)
    <2>1. Len(head \o tail) = Len(head) + Len(tail)
      BY <1>2, <1>3, Joined
    <2> QED BY <1>2, <2>1
  <1>8. q + Len(tail) = p + Len(head \o tail)
    BY <1>3, <1>7 DEF q
  <1>9. q + Len(tail) <= Len(d)
    BY <1>4 DEF Holds
  <1>10. Placed(d, q, E, at) /\ at[n] = p + Len(head \o tail) /\ at[n] <= Len(d)
    BY <1>6, <1>8, <1>9
  <1> QED BY <1>5, <1>10 DEF head, tail, q

\* Two walks that start together and step alike
Alike(n, e, at) ==
  /\ n \in Nat /\ e \in [0..n -> Nat] /\ at \in [0..n -> Nat] /\ e[0] = at[0]
  /\ \A i \in 1..n : e[i - 1] = at[i - 1] => e[i] = at[i]

\* stay together.
LEMMA WalksAgree ==
  ASSUME NEW n, NEW e, NEW at, Alike(n, e, at)
  PROVE  e = at
  <1>0. /\ n \in Nat /\ e \in [0..n -> Nat] /\ at \in [0..n -> Nat] /\ e[0] = at[0]
        /\ \A i \in 1..n : e[i - 1] = at[i - 1] => e[i] = at[i]
    BY DEF Alike
  <1> DEFINE G == {i \in Nat : i <= n => e[i] = at[i]}
  <1>1. 0 \in G
    BY <1>0
  <1>2. ASSUME NEW i \in Nat, i \in G
        PROVE  i + 1 \in G
    <2> SUFFICES ASSUME i + 1 <= n PROVE e[i + 1] = at[i + 1]
      OBVIOUS
    <2> DEFINE j == i + 1
    <2>1. j \in 1..n /\ j - 1 = i /\ e[i] = at[i]
      BY <1>0, <1>2
    <2> HIDE DEF j, G
    <2>2. e[j] = at[j]
      BY <1>0, <2>1
    <2> QED BY <2>2 DEF j
  <1> HIDE DEF G
  <1>3. Nat \subseteq G
    BY <1>1, <1>2, Induction
  <1>4. \A i \in 0..n : e[i] = at[i]
    BY <1>0, <1>3 DEF G
  <1> QED BY <1>0, <1>4

\* A list of addresses is read as it was written.
LEMMA AddressesRead ==
  ASSUME ClientAssumption, NEW d \in Seq(Byte), NEW p \in Nat, NEW v \in Seq(Key), Fitting(v),
         Holds(d, p, Encoded("addresses", v))
  PROVE  ReadAs("addresses", d, p, v)
  <1> DEFINE n == Len(v)
             all == LE(n, 4) \o FlattenSeq(v)
  <1>1. Encoded("addresses", v) = all
    BY DEF Encoded
  <1>2. n \in Nat /\ Fits(n, 4)
    BY LenProperties DEF Fitting, Fits
  <1>3. \A x \in Key : x \in Seq(Nat) /\ Len(x) = AddressLen
    <2> TAKE x \in Key
    <2>1. AddressLen \in Nat /\ x \in [1..AddressLen -> Byte]
      BY DEF Key, ClientAssumption
    <2>2. x \in Seq(Byte) /\ Len(x) = AddressLen
      BY <2>1, IsSequence
    <2> QED BY <2>2, BytesAreNumbers
  <1>4. v \in Seq(Seq(Nat)) /\ \A i \in 1..n : Len(v[i]) = AddressLen /\ v[i] \in Seq(Nat)
    <2>1. \A i \in 1..n : v[i] \in Key
      BY ElementOfSeq
    <2>2. v \in Seq(Seq(Nat))
      BY <1>3
    <2> QED BY <1>3, <2>1, <2>2
  <1>5. /\ Number(d, p, 4) = n /\ p + 4 <= Len(d)
        /\ \E at : /\ Placed(d, p + 4, v, at) /\ at[n] = p + Len(all) /\ at[n] <= Len(d)
    <2> HIDE DEF n
    <2>1. n = Len(v)
      BY DEF n
    <2>2. Holds(d, p, all)
      BY <1>1
    <2> QED BY <1>2, <1>4, <2>1, <2>2, CountedRead
  <1>6. PICK at : Placed(d, p + 4, v, at) /\ at[n] = p + Len(all)
    BY <1>5
  <1>7. PICK e : AddressEnds(d, p, n, e)
    BY <1>5, AddressEndsExist
  <1>8. /\ e \in [0..n -> Nat] /\ e[0] = p + 4 /\ e[n] = EndOf("addresses", d, p)
        /\ \A i \in 1..n : e[i] = e[i - 1] + AddressLen
        /\ FieldValue("addresses", d, p) = [i \in 1..n |-> Slice(d, e[i - 1], e[i])]
    BY <1>7 DEF AddressEnds
  <1>9. /\ at \in [0..n -> Nat] /\ at[0] = p + 4
        /\ \A i \in 1..n : Holds(d, at[i - 1], v[i]) /\ at[i] = at[i - 1] + Len(v[i])
    BY <1>6 DEF Placed
  <1>10. d \in Seq(Nat)
    BY BytesAreNumbers
  <1>11. v = [i \in 1..n |-> v[i]]
    BY LenProperties
  <1> HIDE DEF n, all
  <1>12. e = at
    <2>1. \A i \in 1..n : e[i - 1] = at[i - 1] => e[i] = at[i]
      BY <1>4, <1>8, <1>9
    <2>2. n \in Nat /\ e \in [0..n -> Nat] /\ at \in [0..n -> Nat] /\ e[0] = at[0]
      BY <1>2, <1>8, <1>9
    <2>3. Alike(n, e, at)
      BY <2>1, <2>2 DEF Alike
    <2> QED BY <2>3, WalksAgree
  <1>13. \A i \in 1..n : Slice(d, e[i - 1], e[i]) = v[i]
    <2> TAKE i \in 1..n
    <2>1. at[i - 1] \in Nat
      BY <1>2, <1>9
    <2>2. Slice(d, at[i - 1], at[i - 1] + Len(v[i])) = v[i]
      BY <1>4, <1>9, <1>10, <2>1, HeldIsSlice
    <2> QED BY <1>9, <1>12, <2>2
  <1>14. FieldValue("addresses", d, p) = v
    BY <1>8, <1>11, <1>13
  <1> QED BY <1>1, <1>6, <1>8, <1>12, <1>14 DEF ReadAs

\* A list of strings is read as it was written.
LEMMA StrsRead ==
  ASSUME ClientAssumption, NEW d \in Seq(Byte), NEW p \in Nat, NEW v \in Seq(Str), Fitting(v),
         Holds(d, p, Encoded("strs", v))
  PROVE  ReadAs("strs", d, p, v)
  <1> DEFINE n == Len(v)
             E == [i \in DOMAIN v |-> str(v[i])]
             all == LE(n, 4) \o FlattenSeq(E)
             e == StrEnds(d, p)
  <1>1. Encoded("strs", v) = all
    BY DEF Encoded
  <1>2. n \in Nat /\ Fits(n, 4) /\ DOMAIN v = 1..n /\ d \in Seq(Nat) /\ Len(d) \in Nat
    BY LenProperties, BytesAreNumbers DEF Fitting, Fits
  <1>3. \A i \in 1..n : v[i] \in Str
    BY ElementOfSeq
  <1>4. \A t \in Str : t \in Seq(Byte) /\ t \in Seq(TextByte) /\ Fitting(t) /\ Len(t) \in Nat
    <2> TAKE t \in Str
    <2>1. t \in Seq(TextByte) /\ Fitting(t)
      BY DEF Str
    <2>2. t \in Seq(Byte)
      BY <2>1 DEF ClientAssumption
    <2> QED BY <2>1, <2>2, LenProperties
  <1>5. \A t \in Str : str(t) \in Seq(Nat)
    <2> TAKE t \in Str
    <2>1. str(t) \in Seq(Byte)
      <3>1. t \in Loose("str") /\ "str" \in FieldNames
        BY <1>4 DEF Loose, FieldNames
      <3>2. Encoded("str", t) \in Seq(Byte)
        BY <3>1, EncodedType
      <3> QED BY <3>2 DEF Encoded, str
    <2> QED BY <2>1, BytesAreNumbers
  <1>6. E \in Seq(Seq(Nat)) /\ Len(E) = n /\ \A i \in 1..n : E[i] = str(v[i])
    <2> DEFINE V == Seq(Nat)
    <2>1. \A i \in 1..n : str(v[i]) \in V
      BY <1>3, <1>5
    <2> HIDE DEF V
    <2>2. E \in [1..n -> V]
      BY <1>2, <2>1
    <2>3. \A i \in 1..n : E[i] = str(v[i])
      BY <1>2
    <2> HIDE DEF E, n
    <2>4. E \in Seq(V) /\ Len(E) = n
      BY <1>2, <2>2, IsSequence
    <2> QED BY <2>3, <2>4 DEF V
  <1>7. v = [i \in 1..n |-> v[i]]
    BY LenProperties
  <1> HIDE DEF n, E
  <1>8. /\ Number(d, p, 4) = n /\ p + 4 <= Len(d)
        /\ \E at : Placed(d, p + 4, E, at) /\ at[n] = p + Len(all) /\ at[n] <= Len(d)
    <2>1. Holds(d, p, LE(n, 4) \o FlattenSeq(E))
      BY <1>1
    <2>2. n \in Nat /\ Fits(n, 4) /\ E \in Seq(Seq(Nat)) /\ Len(E) = n
      BY <1>2, <1>6
    <2> QED BY <2>1, <2>2, CountedRead
  <1> HIDE DEF all
  <1>9. PICK at : Placed(d, p + 4, E, at) /\ at[n] = p + Len(all) /\ at[n] <= Len(d)
    BY <1>8
  <1>10. /\ at \in [0..n -> Nat] /\ at[0] = p + 4
         /\ \A i \in 1..n : Holds(d, at[i - 1], str(v[i])) /\ at[i] = at[i - 1] + Len(str(v[i]))
    BY <1>6, <1>9 DEF Placed
  <1>11. e \in [0..n -> Nat] /\ e[0] = p + 4 /\ \A i \in 1..n : e[i] = StrEnd(d, e[i - 1])
    BY <1>2, <1>8, StrEndsExist DEF EndsOfText
  <1> HIDE DEF e
  <1>12. \A i \in 1..n : /\ at[i - 1] \in Nat /\ at[i] \in Nat
                         /\ StrEnd(d, at[i - 1]) = at[i] /\ Body(d, at[i - 1]) = v[i]
                         /\ at[i] >= at[i - 1] + 4
    <2> TAKE i \in 1..n
    <2> DEFINE a == at[i - 1]
               t == v[i]
    <2>1. a \in Nat /\ at[i] \in Nat
      BY <1>2, <1>10
    <2>2. t \in Seq(Byte) /\ t \in Seq(TextByte) /\ Fitting(t) /\ Len(t) \in Nat
      BY <1>3, <1>4
    <2>3. Holds(d, a, bytes(t)) /\ at[i] = a + Len(bytes(t))
      BY <1>10 DEF str
    <2> HIDE DEF a, t
    <2>4. StrEnd(d, a) = a + 4 + Len(t) /\ Body(d, a) = t /\ Len(bytes(t)) = 4 + Len(t)
      BY <2>1, <2>2, <2>3, PrefixedRead
    <2>5. StrEnd(d, a) = at[i] /\ at[i] >= a + 4
      BY <2>1, <2>2, <2>3, <2>4
    <2> QED BY <2>1, <2>4, <2>5 DEF a, t
  <1>13. e = at
    <2>1. \A i \in 1..n : e[i - 1] = at[i - 1] => e[i] = at[i]
      BY <1>11, <1>12
    <2>2. n \in Nat /\ e \in [0..n -> Nat] /\ at \in [0..n -> Nat] /\ e[0] = at[0]
      BY <1>2, <1>10, <1>11
    <2>3. Alike(n, e, at)
      BY <2>1, <2>2 DEF Alike
    <2> QED BY <2>3, WalksAgree
  <1>14. p + 4 + 4 * n <= at[n]
    <2> DEFINE G == {i \in Nat : i <= n => p + 4 + 4 * i <= at[i]}
    <2>1. 0 \in G
      BY <1>10
    <2>2. ASSUME NEW i \in Nat, i \in G
          PROVE  i + 1 \in G
      <3> SUFFICES ASSUME i + 1 <= n PROVE p + 4 + 4 * (i + 1) <= at[i + 1]
        OBVIOUS
      <3> DEFINE j == i + 1
               x == 4 * i
      <3>1. j \in 1..n /\ j - 1 = i /\ i <= n
        <4> HIDE DEF G, x
        <4>1. n \in Nat
          BY <1>2
        <4> HIDE DEF n
        <4> QED BY <4>1
      <3>2. p + 4 + x <= at[i]
        BY <2>2, <3>1
      <3>3. x \in Nat /\ 4 * (i + 1) = x + 4
        OBVIOUS
      <3> HIDE DEF j, G, x
      <3>4. at[i] \in Nat /\ at[j] \in Nat /\ at[j] >= at[i] + 4
        BY <1>12, <3>1
      <3>5. p + 4 + (x + 4) <= at[j]
        <4> DEFINE y == at[i]
                   z == at[j]
        <4>1. p + 4 + x <= y /\ x \in Nat /\ y \in Nat /\ z \in Nat /\ z >= y + 4 /\ p \in Nat
          BY <3>2, <3>3, <3>4
        <4> HIDE DEF y, z
        <4>2. p + 4 + (x + 4) <= z
          BY <4>1
        <4> QED BY <4>2 DEF z
      <3> QED BY <3>3, <3>5 DEF j
    <2> HIDE DEF G
    <2>3. Nat \subseteq G
      BY <2>1, <2>2, Induction
    <2>4. n \in G
      BY <1>2, <2>3
    <2>5. n <= n
      BY <1>2
    <2> QED BY <2>4, <2>5 DEF G
  <1>15. EndOf("strs", d, p) = at[n]
    <2>1. at[n] \in Nat
      BY <1>2, <1>10
    <2>2. ~(p + 4 > Len(d)) /\ ~(p + 4 + 4 * n > Len(d))
      BY <1>2, <1>8, <1>9, <1>14, <2>1
    <2>3. EndOf("strs", d, p) = e[n]
      BY <1>8, <2>2, EndOfOthers DEF e
    <2> QED BY <1>13, <2>3
  <1>16. FieldValue("strs", d, p) = [i \in 1..n |-> Body(d, e[i - 1])]
    BY <1>8 DEF FieldValue, e
  <1>17. FieldValue("strs", d, p) = v
    BY <1>7, <1>12, <1>13, <1>16
  <1> QED BY <1>1, <1>9, <1>15, <1>17 DEF ReadAs

-----------------------------------------------------------------------------
(* Arguments, read as they were meant *)

\* A number,
LEMMA NumbersRead ==
  ASSUME ClientAssumption, NEW d \in Seq(Byte), NEW p \in Nat, NEW field \in {"u8", "u16", "u32"},
         NEW v \in Values(field), Holds(d, p, Encoded(field, v))
  PROVE  ReadAs(field, d, p, v)
  <1> DEFINE w == Width[field]
  <1>1. Radix \in Nat \ {0}
    BY DEF ClientAssumption
  <1>2. Encoded(field, v) = LE(v, w)
    BY DEF Encoded
  <1>3. EndOf(field, d, p) = p + w
    BY EndOfFixed
  <1>4. FieldValue(field, d, p) = Number(d, p, w)
    BY DEF FieldValue
  <1>5. w \in {1, 2, 4} /\ v \in Nat /\ Fits(v, w)
    <2>1. CASE field = "u8"
      <3>1. w = 1
        BY <2>1, FixedWidths
      <3>2. v \in 0..Radix - 1
        BY <2>1 DEF Values, Byte
      <3> HIDE DEF w
      <3> QED BY <1>1, <3>1, <3>2 DEF Fits
    <2>2. CASE field = "u16"
      <3> DEFINE m == Radix * Radix
      <3>1. w = 2
        BY <2>2, FixedWidths
      <3>2. v \in 0..m - 1
        BY <2>2 DEF Values
      <3>3. m \in Nat
        BY <1>1
      <3> HIDE DEF w, m
      <3>4. v \in Nat /\ v < m
        BY <3>2, <3>3
      <3> QED BY <3>1, <3>4 DEF Fits, m
    <2>3. CASE field = "u32"
      <3> DEFINE m == Radix * Radix * Radix * Radix
      <3>1. w = 4
        BY <2>3, FixedWidths
      <3>2. v \in 0..m - 1
        BY <2>3 DEF Values
      <3>3. m \in Nat
        BY <1>1
      <3> HIDE DEF w, m
      <3>4. v \in Nat /\ v < m
        BY <3>2, <3>3
      <3> QED BY <3>1, <3>4 DEF Fits, m
    <2> QED BY <2>1, <2>2, <2>3
  <1> HIDE DEF w
  <1>6. Number(d, p, w) = v
    BY <1>2, <1>5, NumberRead
  <1>7. Len(LE(v, w)) = w
    <2>1. w \in Nat
      BY <1>5
    <2> QED BY <1>5, <2>1, WrittenType
  <1> QED BY <1>2, <1>3, <1>4, <1>6, <1>7 DEF ReadAs

\* an address or a nonce,
LEMMA SlicesRead ==
  ASSUME ClientAssumption, NEW d \in Seq(Byte), NEW p \in Nat, NEW field \in {"nonce", "address"},
         NEW v \in Values(field), Holds(d, p, Encoded(field, v))
  PROVE  ReadAs(field, d, p, v)
  <1> DEFINE w == Width[field]
  <1>1. Encoded(field, v) = v
    BY DEF Encoded
  <1>2. EndOf(field, d, p) = p + w
    BY EndOfFixed
  <1>3. FieldValue(field, d, p) = Slice(d, p, p + w)
    BY DEF FieldValue, Slice
  <1>4. w \in Nat /\ v \in [1..w -> Byte]
    <2>1. CASE field = "nonce"
      BY <2>1, FixedWidths DEF Values
    <2>2. CASE field = "address"
      BY <2>2, FixedWidths DEF Values, Key, ClientAssumption
    <2> QED BY <2>1, <2>2
  <1> HIDE DEF w
  <1>5. v \in Seq(Byte) /\ Len(v) = w
    BY <1>4, IsSequence
  <1>6. d \in Seq(Nat) /\ v \in Seq(Nat)
    BY <1>5, BytesAreNumbers
  <1>7. Slice(d, p, p + w) = v
    BY <1>1, <1>5, <1>6, HeldIsSlice
  <1> QED BY <1>1, <1>2, <1>3, <1>5, <1>7 DEF ReadAs

\* and a length-prefixed value is read as it was written.
LEMMA TextsRead ==
  ASSUME ClientAssumption, NEW d \in Seq(Byte), NEW p \in Nat, NEW field \in {"str", "bytes"},
         NEW v \in Values(field), Holds(d, p, Encoded(field, v))
  PROVE  ReadAs(field, d, p, v)
  <1>1. Encoded(field, v) = bytes(v) /\ FieldValue(field, d, p) = Body(d, p)
    BY DEF Encoded, FieldValue
  <1>2. v \in Seq(Byte) /\ Fitting(v) /\ (field = "str" => v \in Seq(TextByte))
    <2>1. CASE field = "str"
      <3>1. v \in Seq(TextByte) /\ Fitting(v)
        BY <2>1 DEF Values, Str
      <3>2. v \in Seq(Byte)
        BY <3>1 DEF ClientAssumption
      <3> QED BY <2>1, <3>1, <3>2
    <2>2. CASE field = "bytes"
      BY <2>2 DEF Values
    <2> QED BY <2>1, <2>2
  <1>3. /\ PrefixedEnd(d, p) = p + 4 + Len(v) /\ Len(bytes(v)) = 4 + Len(v) /\ Body(d, p) = v
        /\ field = "str" => StrEnd(d, p) = p + 4 + Len(v)
    BY <1>1, <1>2, PrefixedRead
  <1>4. Len(v) \in Nat
    BY <1>2, LenProperties
  <1>5. EndOf(field, d, p) = p + 4 + Len(v)
    BY <1>3, EndOfOthers
  <1> QED BY <1>1, <1>3, <1>4, <1>5 DEF ReadAs

\* What is written of a field is read as it was meant.
LEMMA FieldIsRead ==
  ASSUME ClientAssumption, NEW d \in Seq(Byte), NEW p \in Nat, NEW field \in FieldNames,
         NEW v \in Values(field), Holds(d, p, Encoded(field, v))
  PROVE  ReadAs(field, d, p, v)
  <1>1. CASE field \in {"u8", "u16", "u32"}
    BY <1>1, NumbersRead
  <1>2. CASE field \in {"nonce", "address"}
    BY <1>2, SlicesRead
  <1>3. CASE field \in {"str", "bytes"}
    BY <1>3, TextsRead
  <1>4. CASE field = "addresses"
    <2>1. v \in Seq(Key) /\ Fitting(v)
      BY <1>4 DEF Values
    <2> QED BY <1>4, <2>1, AddressesRead
  <1>5. CASE field = "strs"
    <2>1. v \in Seq(Str) /\ Fitting(v)
      BY <1>5 DEF Values
    <2> QED BY <1>5, <2>1, StrsRead
  <1> QED BY <1>1, <1>2, <1>3, <1>4, <1>5 DEF FieldNames

\* Arguments that fit are read from their encodings.
LEMMA ArgumentsAreRead ==
  ASSUME ClientAssumption, NEW op \in Op, NEW args, args = [i \in DOMAIN Fields[op] |-> args[i]],
         \A i \in DOMAIN Fields[op] : args[i] \in Values(Fields[op][i]),
         NEW d, d = FlattenSeq(Encodings(op, args))
  PROVE  Reads(op, d) /\ Arguments(op, d) = args
  <1> DEFINE n == Len(Fields[op])
             E == Encodings(op, args)
             e == Offsets(op, d)
  <1>1. n \in Nat /\ DOMAIN Fields[op] = 1..n /\ \A i \in 1..n : Fields[op][i] \in FieldNames
    BY FieldsType
  <1>2. LooseArgs(op, args)
    BY <1>1, ValuesAreLoose DEF LooseArgs
  <1>3. E \in Seq(Seq(Byte)) /\ Len(E) = n
    BY <1>2, EncodingsType
  <1>4. \A i \in 1..n : E[i] = Encoded(Fields[op][i], args[i])
    BY <1>1 DEF Encodings
  <1> HIDE DEF E
  <1>5. E \in Seq(Seq(Nat)) /\ d \in Seq(Byte) /\ d \in Seq(Nat)
    <2>1. E \in Seq(Seq(Nat)) /\ FlattenSeq(E) \in Seq(Byte)
      BY <1>3, FlattenBytes
    <2> QED BY <2>1, BytesAreNumbers DEF E
  <1>6. Holds(d, 0, FlattenSeq(E))
    BY <1>5, HoldsItself DEF E
  <1>7. PICK at : Placed(d, 0, E, at) /\ at[Len(E)] = 0 + Len(FlattenSeq(E))
    BY <1>5, <1>6, EntriesPlaced
  <1>8. /\ at \in [0..n -> Nat] /\ at[0] = 0
        /\ \A i \in 1..n : Holds(d, at[i - 1], E[i]) /\ at[i] = at[i - 1] + Len(E[i])
    BY <1>3, <1>7 DEF Placed
  <1>9. at[n] = Len(d)
    <2>1. Len(d) \in Nat
      BY <1>5, LenProperties
    <2> QED BY <1>3, <1>7, <2>1 DEF E
  <1>10. e \in [0..n -> Nat] /\ e[0] = 0 /\ \A i \in 1..n : e[i] = EndOf(Fields[op][i], d, e[i - 1])
    BY <1>5, OffsetsExist DEF Ends
  <1> HIDE DEF e
  <1>11. ASSUME NEW i \in 1..n
         PROVE  ReadAs(Fields[op][i], d, at[i - 1], args[i])
    <2>1. at[i - 1] \in Nat
      BY <1>1, <1>8
    <2>2. Fields[op][i] \in FieldNames /\ args[i] \in Values(Fields[op][i])
      BY <1>1
    <2>3. Holds(d, at[i - 1], Encoded(Fields[op][i], args[i]))
      BY <1>4, <1>8
    <2> QED BY <1>5, <2>1, <2>2, <2>3, FieldIsRead
  <1>12. e = at
    <2>1. ASSUME NEW i \in 1..n, e[i - 1] = at[i - 1] PROVE e[i] = at[i]
      <3>1. EndOf(Fields[op][i], d, at[i - 1]) = at[i - 1] + Len(E[i])
        BY <1>4, <1>11 DEF ReadAs
      <3> QED BY <1>8, <1>10, <2>1, <3>1
    <2> HIDE DEF n
    <2>2. Alike(n, e, at)
      BY <1>1, <1>8, <1>10, <2>1 DEF Alike
    <2> QED BY <2>2, WalksAgree
  <1>13. Reads(op, d)
    BY <1>9, <1>12 DEF Reads, e
  <1>14. \A i \in 1..n : FieldValue(Fields[op][i], d, e[i - 1]) = args[i]
    BY <1>11, <1>12 DEF ReadAs
  <1>15. Arguments(op, d) = [i \in 1..n |-> FieldValue(Fields[op][i], d, e[i - 1])]
    BY <1>1 DEF Arguments, e
  <1>16. args = [i \in 1..n |-> args[i]]
    BY <1>1
  <1>17. Arguments(op, d) = args
    <2> HIDE DEF n
    <2> QED BY <1>14, <1>15, <1>16
  <1> QED BY <1>13, <1>17

\* What a builder encodes, the handler reads to the end, as it was meant.
LEMMA CallIsRead ==
  ASSUME ClientAssumption, NEW c, ProperCall(c)
  PROVE  Reads(c.op, Built(c).data) /\ Arguments(c.op, Built(c).data) = c.args
  <1> DEFINE d == Built(c).data
             E == Encodings(c.op, c.args)
  <1>1. /\ c.op \in Op /\ LooseArgs(c.op, c.args) /\ CallFor(c)
        /\ c.args = [i \in DOMAIN Fields[c.op] |-> c.args[i]]
        /\ \A i \in DOMAIN Fields[c.op] : c.args[i] \in Values(Fields[c.op][i])
    BY CallIsLoose DEF ProperCall
  <1>2. d = FlattenSeq(E)
    <2>1. CASE c.op = "initialize"
      <3>1. d = c.args[1]
        BY <1>1, <2>1, BuiltData DEF CallFor
      <3>2. Len(Fields[c.op]) = 1 /\ DOMAIN Fields[c.op] = 1..1 /\ Fields[c.op][1] = "address"
        BY <2>1, FieldsAre
      <3>3. E[1] = c.args[1]
        BY <3>2 DEF Encodings, Encoded
      <3>4. E \in Seq(Seq(Byte)) /\ Len(E) = 1
        BY <1>1, <3>2, EncodingsType
      <3> HIDE DEF E, d
      <3>5. E \in Seq(Seq(Nat))
        BY <3>4, FlattenBytes
      <3>6. FlattenSeq(E) = E[1]
        BY <3>4, <3>5, FlattenByLength
      <3> QED BY <3>1, <3>3, <3>6
    <2>2. CASE c.op # "initialize"
      BY <1>1, <2>2, BuiltData
    <2> QED BY <2>1, <2>2
  <1> HIDE DEF d
  <1>3. Reads(c.op, d) /\ Arguments(c.op, d) = c.args
    BY <1>1, <1>2, ArgumentsAreRead
  <1> QED BY <1>3 DEF d

-----------------------------------------------------------------------------
(* The accounts that are sent *)

\* The roles a client gives to the accounts of its slots.
LEMMA AccountRoles ==
  ASSUME NEW c
  PROVE  /\ Account(c, "payer").signer = TRUE /\ Account(c, "payer").writable = TRUE
         /\ Account(c, "authority").signer = TRUE
         /\ Account(c, "did").writable = TRUE
         /\ Account(c, "buffer").writable = TRUE
  <1>1. Account(c, "payer").signer = TRUE /\ Account(c, "payer").writable = TRUE
    <2> DEFINE r == Account(c, "payer")
    <2>1. r = writable(c.payer, TRUE)
      BY AccountIs
    <2> HIDE DEF r
    <2>2. r.signer = TRUE /\ r.writable = TRUE
      BY <2>1 DEF writable
    <2> QED BY <2>2 DEF r
  <1>2. Account(c, "authority").signer = TRUE
    <2> DEFINE r == Account(c, "authority")
    <2>1. r = readonly(c.authority, TRUE)
      BY AccountIs
    <2> HIDE DEF r
    <2>2. r.signer = TRUE
      BY <2>1 DEF readonly
    <2> QED BY <2>2 DEF r
  <1>3. Account(c, "did").writable = TRUE
    <2> DEFINE r == Account(c, "did")
    <2>1. r = writable(did_account(c.subject), FALSE)
      BY AccountIs
    <2> HIDE DEF r
    <2>2. r.writable = TRUE
      BY <2>1 DEF writable
    <2> QED BY <2>2 DEF r
  <1>4. Account(c, "buffer").writable = TRUE
    <2> DEFINE r == Account(c, "buffer")
    <2>1. r = writable(key_buffer(c.subject, c.authority), FALSE)
      BY AccountIs
    <2> HIDE DEF r
    <2>2. r.writable = TRUE
      BY <2>1 DEF writable
    <2> QED BY <2>2 DEF r
  <1> QED BY <1>1, <1>2, <1>3, <1>4, Zenon

\* What a client sends: what was built for a call, with the DID account of a
\* controller behind it if there is one.
Sent(c, controller, ix) ==
  ix = IF controller = NoOne THEN Built(c) ELSE via_controller(Built(c), controller)

\* The accounts that are sent, slot by slot.
SentSlots(c, controller, ix, n) ==
  /\ n \in Nat /\ n = Len(Slots[c.op])
  /\ ix.op = c.op /\ ix.data = Built(c).data
  /\ IsList(ix.accounts)
  /\ Len(ix.accounts) = IF controller = NoOne THEN n ELSE n + 1
  /\ \A i \in 1..n : ix.accounts[i] = Account(c, Slots[c.op][i])
  /\ controller # NoOne => ix.accounts[n + 1].address = did_account(controller)

\* A client sends the accounts of its call, and its controller behind them.
LEMMA SlotsSent ==
  ASSUME ClientAssumption, NEW c, ProperCall(c), NEW controller, NEW ix, Sent(c, controller, ix)
  PROVE  SentSlots(c, controller, ix, Len(Slots[c.op]))
  <1> DEFINE b == Built(c)
             n == Len(Slots[c.op])
             l == b.accounts
             a == readonly(did_account(controller), FALSE)
             k == Append(l, a)
  <1>1. IsInstruction(b) /\ IsListed(c, l) /\ c.op \in Op
    BY BuiltArrives, BuiltIsInstruction DEF ProperCall
  <1>2. b.op = c.op
    <2>1. c.op = "initialize_owned" => c.subject = owned_subject(c.authority, c.args[1])
      BY DEF ProperCall, CallFor
    <2> QED BY <1>1, <2>1, BuiltAccounts
  <1>3. /\ IsList(l) /\ Len(l) = n /\ n \in Nat
        /\ \A i \in 1..n : l[i] = Account(c, Slots[c.op][i])
    BY <1>1, SlotsType DEF IsListed
  <1>4. CASE controller = NoOne
    <2>1. ix = b
      BY <1>4 DEF Sent
    <2> HIDE DEF b, n
    <2> QED BY <1>2, <1>3, <1>4, <2>1 DEF SentSlots, b, n
  <1>5. CASE controller # NoOne
    <2>1. ix = [b EXCEPT !.accounts = k]
      BY <1>5 DEF Sent, via_controller
    <2>2. ix.op = b.op /\ ix.data = b.data /\ ix.accounts = k
      BY <1>1, <2>1 DEF IsInstruction
    <2>3. PICK S : l \in Seq(S)
      BY <1>3, ListIsSequence
    <2>4. a.address = did_account(controller)
      BY DEF readonly
    <2> HIDE DEF b, l, n, a
    <2>5. Len(k) = n + 1 /\ k[n + 1] = a /\ \A i \in 1..n : k[i] = l[i]
      <3> DEFINE T == S \cup {a}
      <3>1. l \in Seq(T) /\ a \in T
        BY <2>3
      <3> HIDE DEF T
      <3> QED BY <1>3, <3>1
    <2>6. IsList(k)
      BY <1>3, ListsChanged
    <2> QED BY <1>2, <1>3, <1>5, <2>2, <2>4, <2>5, <2>6 DEF SentSlots, n, b
  <1> QED BY <1>4, <1>5

\* Each slot holds what was sent for it, with the roles asked for.
LEMMA SlotHolds ==
  ASSUME NEW c, c.op \in Op, NEW controller, NEW ix, NEW n, SentSlots(c, controller, ix, n),
         NEW slot, Has(ix, slot)
  PROVE  /\ In(ix, slot).address = Account(c, slot).address
         /\ Account(c, slot).signer => In(ix, slot).signer
         /\ Account(c, slot).writable => In(ix, slot).writable
  <1> DEFINE l == ix.accounts
             m == Merged(l)
  <1>1. /\ n \in Nat /\ n = Len(Slots[c.op]) /\ ix.op = c.op /\ ix.op \in Op
        /\ IsList(l) /\ Len(l) = (IF controller = NoOne THEN n ELSE n + 1)
        /\ \A i \in 1..n : l[i] = Account(c, Slots[c.op][i])
    BY DEF SentSlots
  <1>2. PICK i \in 1..n : slot = Slots[ix.op][i]
    BY <1>1, SlotsTogether
  <1>3. In(ix, slot) = m[i] /\ l[i] = Account(c, slot)
    BY <1>1, <1>2, InSlot
  <1>4. i \in 1..Len(l)
    BY <1>1
  <1> HIDE DEF l
  <1>5. /\ m[i].address = l[i].address
        /\ m[i].signer = (\E j \in 1..Len(l) : l[j].address = l[i].address /\ l[j].signer)
        /\ m[i].writable = (\E j \in 1..Len(l) : l[j].address = l[i].address /\ l[j].writable)
    BY <1>1, <1>4, MergedIs
  <1> HIDE DEF m
  <1>6. l[i].signer => m[i].signer
    BY <1>4, <1>5, Zenon
  <1>7. l[i].writable => m[i].writable
    BY <1>4, <1>5, Zenon
  <1> QED BY <1>3, <1>5, <1>6, <1>7, Zenon

\* So every check on a slot finds what it asks for.
LEMMA SlotsHold ==
  ASSUME NEW c, c.op \in Op, NEW controller, NEW ix, NEW n, SentSlots(c, controller, ix, n)
  PROVE  /\ Has(ix, "payer") =>
              In(ix, "payer").address = c.payer /\ In(ix, "payer").signer /\ In(ix, "payer").writable
         /\ Has(ix, "authority") =>
              In(ix, "authority").address = c.authority /\ In(ix, "authority").signer
         /\ Has(ix, "did") =>
              In(ix, "did").address = did_account(c.subject) /\ In(ix, "did").writable
         /\ Has(ix, "buffer") =>
              /\ In(ix, "buffer").address = key_buffer(c.subject, c.authority)
              /\ In(ix, "buffer").writable
         /\ Has(ix, "system") => In(ix, "system").address = SYSTEM_PROGRAM
  <1>1. ASSUME Has(ix, "payer")
        PROVE  In(ix, "payer").address = c.payer /\ In(ix, "payer").signer /\ In(ix, "payer").writable
    BY <1>1, SlotHolds, AccountFields, AccountRoles, Zenon
  <1>2. ASSUME Has(ix, "authority")
        PROVE  In(ix, "authority").address = c.authority /\ In(ix, "authority").signer
    BY <1>2, SlotHolds, AccountFields, AccountRoles, Zenon
  <1>3. ASSUME Has(ix, "did")
        PROVE  In(ix, "did").address = did_account(c.subject) /\ In(ix, "did").writable
    BY <1>3, SlotHolds, AccountFields, AccountRoles, Zenon
  <1>4. ASSUME Has(ix, "buffer")
        PROVE  /\ In(ix, "buffer").address = key_buffer(c.subject, c.authority)
               /\ In(ix, "buffer").writable
    BY <1>4, SlotHolds, AccountFields, AccountRoles, Zenon
  <1>5. ASSUME Has(ix, "system") PROVE In(ix, "system").address = SYSTEM_PROGRAM
    BY <1>5, SlotHolds, AccountFields, Zenon
  <1> QED BY <1>1, <1>2, <1>3, <1>4, <1>5

-----------------------------------------------------------------------------
(* UnderstoodAsMeant *)

\* A creation derives the subject that was meant, which is not there yet.
LEMMA CreatedAsMeant ==
  ASSUME ClientAssumption, NEW c, ProperCall(c), NEW controller, NEW ix, NEW n,
         SentSlots(c, controller, ix, n), Creates(ix)
  PROVE  /\ CreatedSubject(ix) = c.subject /\ c.subject \notin Existing
         /\ ix.op = "initialize" => ix.data \in OnCurve
  <1>1. ix.op = c.op /\ ix.data = Built(c).data /\ c.op \in Op /\ CallFor(c)
    BY DEF SentSlots, ProperCall
  <1>2. CASE c.op = "initialize"
    <2>1. Built(c).data = c.subject
      BY <1>2 DEF Built, initialize, Instruction
    <2>2. c.subject \in OnCurve \ Existing
      BY <1>1, <1>2 DEF CallFor
    <2> QED BY <1>1, <1>2, <2>1, <2>2 DEF CreatedSubject
  <1>3. CASE c.op = "initialize_owned"
    <2>1. Built(c).data = c.args[1]
      BY <1>3 DEF Built, initialize_owned, Instruction
    <2>2. c.subject = owned_subject(c.authority, c.args[1]) /\ c.subject \notin Existing
      BY <1>1, <1>3 DEF CallFor
    <2>3. In(ix, "authority").address = c.authority
      BY <1>1, <1>3, SlotsTogether, SlotsHold
    <2> QED BY <1>1, <1>3, <2>1, <2>2, <2>3 DEF CreatedSubject
  <1> QED BY <1>1, <1>2, <1>3 DEF Creates

\* The DID of a call that creates none, and its buffer, are there.
LEMMA CallIsFor ==
  ASSUME NEW c, ProperCall(c), NEW ix, ix.op = c.op, ix.op \in Op
  PROVE  /\ ~Creates(ix) => c.subject \in Existing
         /\ ix.op = "create_key_buffer" => <<c.subject, c.authority>> \notin Opened
         /\ Has(ix, "buffer") /\ ix.op # "create_key_buffer" => <<c.subject, c.authority>> \in Opened
  <1>1. CallFor(c)
    BY DEF ProperCall
  <1>2. ASSUME ~Creates(ix) PROVE c.subject \in Existing
    BY <1>1, <1>2 DEF CallFor, Creates
  <1>3. ASSUME ix.op = "create_key_buffer" PROVE <<c.subject, c.authority>> \notin Opened
    BY <1>1, <1>3 DEF CallFor
  <1>4. ASSUME Has(ix, "buffer"), ix.op # "create_key_buffer"
        PROVE  <<c.subject, c.authority>> \in Opened
    <2>1. ix.op \in {"write_key_buffer", "add_verification_method_from_buffer", "close_key_buffer"}
      BY <1>4, SlotsTogether
    <2> QED BY <1>1, <2>1 DEF CallFor
  <1> QED BY <1>2, <1>3, <1>4

\* Every check lets a call pass that a client sends.
LEMMA SentIsTaken ==
  ASSUME ClientAssumption, NEW c, ProperCall(c), NEW controller, NEW ix, NEW n,
         SentSlots(c, controller, ix, n)
  PROVE  Taken(ix)
  <1> DEFINE s == c.subject
             a == c.authority
  <1>0. /\ ix.op = c.op /\ ix.data = Built(c).data /\ c.op \in Op /\ ix.op \in Op
        /\ n = Len(Slots[c.op]) /\ n \in Nat
        /\ Len(ix.accounts) = IF controller = NoOne THEN n ELSE n + 1
    BY DEF SentSlots, ProperCall
  <1>1. Len(ix.accounts) >= Len(Slots[ix.op])
    <2> HIDE DEF a, s
    <2>1. Len(ix.accounts) = n \/ Len(ix.accounts) = n + 1
      BY <1>0
    <2>2. Len(Slots[ix.op]) = n
      BY <1>0
    <2>3. Len(ix.accounts) >= n
      BY <1>0, <2>1
    <2> QED BY <2>2, <2>3
  <1>2. check_payer(ix)
    BY <1>0, SlotsHold, Zenon DEF check_payer
  <1>3. check_authority_signer(ix)
    BY <1>0, SlotsHold, Zenon DEF check_authority_signer
  <1>4. check_system_program(ix)
    BY <1>0, SlotsHold, Zenon DEF check_system_program
  <1>5. CheckDid(ix)
    <2> SUFFICES ASSUME Has(ix, "did"), ~Creates(ix)
                 PROVE  In(ix, "did").writable /\ In(ix, "did").address \in {did_account(t) : t \in Existing}
      BY DEF CheckDid
    <2>1. In(ix, "did").address = did_account(s) /\ In(ix, "did").writable
      BY <1>0, SlotsHold, Zenon
    <2>2. s \in Existing
      BY <1>0, CallIsFor
    <2> QED BY <2>1, <2>2, Zenon
  <1>6. Reads(ix.op, ix.data)
    BY <1>0, CallIsRead
  <1>7. CheckNewDid(ix)
    <2> SUFFICES ASSUME Creates(ix)
                 PROVE  /\ In(ix, "did").writable
                        /\ In(ix, "did").address = did_account(CreatedSubject(ix))
                        /\ CreatedSubject(ix) \notin Existing
                        /\ ix.op = "initialize" => ix.data \in OnCurve
      BY DEF CheckNewDid
    <2>1. Has(ix, "did")
      BY <1>0, SlotsTogether
    <2>2. In(ix, "did").address = did_account(s) /\ In(ix, "did").writable
      BY <1>0, <2>1, SlotsHold, Zenon
    <2>3. /\ CreatedSubject(ix) = s /\ s \notin Existing
          /\ ix.op = "initialize" => ix.data \in OnCurve
      BY CreatedAsMeant
    <2>4. did_account(CreatedSubject(ix)) = did_account(s)
      BY <2>3
    <2> HIDE DEF s
    <2> QED BY <2>2, <2>3, <2>4, Zenon
  <1>8. CheckNewBuffer(ix)
    <2> SUFFICES ASSUME ix.op = "create_key_buffer"
                 PROVE  /\ In(ix, "buffer").writable
                        /\ \E t \in Existing :
                              /\ In(ix, "did").address = did_account(t)
                              /\ In(ix, "buffer").address = key_buffer(t, In(ix, "authority").address)
                              /\ <<t, In(ix, "authority").address>> \notin Opened
      BY DEF CheckNewBuffer
    <2>1. Has(ix, "did") /\ Has(ix, "buffer") /\ Has(ix, "authority") /\ ~Creates(ix)
      BY <1>0, SlotsTogether
    <2>2. /\ In(ix, "did").address = did_account(s) /\ In(ix, "authority").address = a
          /\ In(ix, "buffer").address = key_buffer(s, a)
      BY <1>0, <2>1, SlotsHold, Zenon
    <2>3. In(ix, "buffer").writable
      BY <1>0, <2>1, SlotsHold, Zenon
    <2>4. s \in Existing /\ <<s, a>> \notin Opened
      BY <1>0, <2>1, CallIsFor
    <2> HIDE DEF s, a
    <2>5. /\ In(ix, "buffer").address = key_buffer(s, In(ix, "authority").address)
          /\ <<s, In(ix, "authority").address>> \notin Opened
      BY <2>2, <2>4
    <2> QED BY <2>2, <2>3, <2>4, <2>5, Zenon
  <1>9. CheckBuffer(ix)
    <2> SUFFICES ASSUME Has(ix, "buffer"), ix.op # "create_key_buffer"
                 PROVE  /\ In(ix, "buffer").writable
                        /\ \E kb \in Opened :
                              /\ In(ix, "buffer").address = key_buffer(kb[1], kb[2])
                              /\ kb[2] = In(ix, "authority").address
                              /\ Has(ix, "did") => In(ix, "did").address = did_account(kb[1])
      BY DEF CheckBuffer
    <2> DEFINE k == <<s, a>>
    <2>1. Has(ix, "authority")
      BY <1>0, SlotsTogether
    <2>2. /\ In(ix, "authority").address = a /\ In(ix, "buffer").address = key_buffer(s, a)
          /\ Has(ix, "did") => In(ix, "did").address = did_account(s)
      BY <1>0, <2>1, SlotsHold, Zenon
    <2>3. In(ix, "buffer").writable
      BY <1>0, SlotsHold, Zenon
    <2>4. k \in Opened
      BY <1>0, CallIsFor
    <2>5. k[1] = s /\ k[2] = a
      OBVIOUS
    <2> HIDE DEF s, a, k
    <2>6. /\ In(ix, "buffer").address = key_buffer(k[1], k[2])
          /\ k[2] = In(ix, "authority").address
          /\ Has(ix, "did") => In(ix, "did").address = did_account(k[1])
      BY <2>2, <2>5
    <2> QED BY <2>3, <2>4, <2>6, Zenon
  <1>10. CheckMethodType(ix.op, Arguments(ix.op, ix.data))
    <2>1. CheckMethodType(c.op, c.args)
      BY DEF ProperCall
    <2>2. Arguments(ix.op, ix.data) = c.args
      BY <1>0, CallIsRead
    <2> QED BY <1>0, <2>1, <2>2
  <1> QED BY <1>1, <1>2, <1>3, <1>4, <1>5, <1>6, <1>7, <1>8, <1>9, <1>10 DEF Taken

\* The handler acts for the subject that was meant.
LEMMA SubjectIsMeant ==
  ASSUME ClientAssumption, NEW c, ProperCall(c), NEW controller, NEW ix, NEW n,
         SentSlots(c, controller, ix, n)
  PROVE  SubjectOf(ix) = c.subject
  <1> DEFINE s == c.subject
             a == c.authority
  <1>0. ix.op = c.op /\ c.op \in Op /\ ix.op \in Op
    BY DEF SentSlots, ProperCall
  <1>1. CASE Creates(ix)
    BY <1>1, CreatedAsMeant DEF SubjectOf
  <1>2. CASE ~Creates(ix) /\ Has(ix, "did")
    <2> DEFINE t == CHOOSE t \in Existing : did_account(t) = In(ix, "did").address
    <2>1. SubjectOf(ix) = t
      BY <1>2 DEF SubjectOf
    <2>2. s \in Existing /\ did_account(s) = In(ix, "did").address
      BY <1>0, <1>2, CallIsFor, SlotsHold
    <2>3. t \in Existing /\ did_account(t) = did_account(s)
      BY <2>2
    <2> HIDE DEF t, s
    <2>4. IsList(t) /\ IsList(s)
      BY <2>2, <2>3 DEF ClientAssumption
    <2>5. t = s
      BY <2>3, <2>4, DidAccountInjective
    <2> QED BY <2>1, <2>5 DEF s
  <1>3. CASE ~Creates(ix) /\ ~Has(ix, "did")
    <2> DEFINE k == CHOOSE kb \in Opened : key_buffer(kb[1], kb[2]) = In(ix, "buffer").address
               m == <<s, a>>
    <2>1. Has(ix, "buffer") /\ ix.op # "create_key_buffer"
      BY <1>0, <1>3, SlotsTogether
    <2>2. m \in Opened /\ In(ix, "buffer").address = key_buffer(s, a)
      BY <1>0, <2>1, CallIsFor, SlotsHold
    <2>3. m[1] = s /\ m[2] = a
      OBVIOUS
    <2> HIDE DEF m, s, a
    <2>4. key_buffer(m[1], m[2]) = In(ix, "buffer").address
      BY <2>2, <2>3
    <2>5. k \in Opened /\ key_buffer(k[1], k[2]) = key_buffer(s, a)
      BY <2>2, <2>4
    <2>6. SubjectOf(ix) = k[1]
      BY <1>3 DEF SubjectOf
    <2> HIDE DEF k
    <2>7. IsList(k[1]) /\ k[2] \in Key /\ IsList(s) /\ a \in Key
      BY <2>2, <2>3, <2>5 DEF ClientAssumption
    <2>8. k[1] = s
      BY <2>5, <2>7, KeyBufferInjective
    <2> QED BY <2>6, <2>8 DEF s
  <1> QED BY <1>1, <1>2, <1>3

\* What was sent is taken, and understood as it was meant.
LEMMA SentIsUnderstood ==
  ASSUME ClientAssumption, NEW c, ProperCall(c), NEW controller, NEW ix, Sent(c, controller, ix)
  PROVE  /\ Taken(ix) /\ Understood(ix) = c
         /\ Controller(ix) = IF controller = NoOne THEN NoOne ELSE did_account(controller)
  <1> DEFINE n == Len(Slots[c.op])
  <1>1. SentSlots(c, controller, ix, n)
    BY SlotsSent
  <1>2. /\ ix.op = c.op /\ ix.data = Built(c).data /\ n \in Nat /\ n = Len(Slots[ix.op]) /\ c.op \in Op
        /\ Len(ix.accounts) = IF controller = NoOne THEN n ELSE n + 1
        /\ controller # NoOne => ix.accounts[n + 1].address = did_account(controller)
    BY <1>1 DEF SentSlots, ProperCall
  <1> HIDE DEF n
  <1>3. Taken(ix)
    BY <1>1, SentIsTaken
  <1>4. c = [op |-> c.op, payer |-> c.payer, authority |-> c.authority,
             subject |-> c.subject, args |-> c.args]
    BY DEF ProperCall
  <1>5. (IF Has(ix, "payer") THEN In(ix, "payer").address ELSE NoOne) = c.payer
    <2>1. ASSUME ~Has(ix, "payer") PROVE c.payer = NoOne
      BY <1>2, <2>1 DEF ProperCall, Has
    <2>2. ASSUME Has(ix, "payer") PROVE In(ix, "payer").address = c.payer
      BY <1>1, <1>2, <2>2, SlotsHold
    <2> QED BY <2>1, <2>2
  <1>6. (IF Has(ix, "authority") THEN In(ix, "authority").address ELSE NoOne) = c.authority
    <2>1. ASSUME ~Has(ix, "authority") PROVE c.authority = NoOne
      BY <1>2, <2>1 DEF ProperCall, Has
    <2>2. ASSUME Has(ix, "authority") PROVE In(ix, "authority").address = c.authority
      BY <1>1, <1>2, <2>2, SlotsHold
    <2> QED BY <2>1, <2>2
  <1>7. SubjectOf(ix) = c.subject
    BY <1>1, SubjectIsMeant
  <1>8. Arguments(ix.op, ix.data) = c.args
    BY <1>2, CallIsRead
  <1>9. Understood(ix) = c
    BY <1>2, <1>4, <1>5, <1>6, <1>7, <1>8 DEF Understood
  <1>10. Controller(ix) = IF controller = NoOne THEN NoOne ELSE did_account(controller)
    <2>1. CASE controller = NoOne
      BY <1>2, <2>1 DEF Controller
    <2>2. CASE controller # NoOne
      <3>1. n + 1 # n
        BY <1>2
      <3> QED BY <1>2, <2>2, <3>1 DEF Controller
    <2> QED BY <2>1, <2>2
  <1> QED BY <1>3, <1>9, <1>10

SentInv ==
  /\ edits \in Nat
  /\ meant \in Call
  /\ edits = 0 => Sent(meant, via, tx)

\* As long as nobody changes the transaction, it is what a client sent.
THEOREM UnchangedIsSent == ClientSpec => []SentInv
  <1>1. ClientInit => SentInv
    BY DEF ClientInit, SentInv, Sent
  <1>2. SentInv /\ [ClientNext]_vars => SentInv'
    <2> SUFFICES ASSUME SentInv, [ClientNext]_vars PROVE SentInv'
      OBVIOUS
    <2>1. CASE ClientNext
      <3>1. edits' = edits + 1 /\ meant' = meant
        BY <2>1 DEF ClientNext, Truncate, Extend, Corrupt, Relabel, DropAccount, SwapAccounts,
                    OtherAddress, Unsign, ReadOnly, Change
      <3> QED BY <3>1 DEF SentInv
    <2>2. CASE UNCHANGED vars
      BY <2>2 DEF vars, SentInv, Sent
    <2> QED BY <2>1, <2>2
  <1> QED BY <1>1, <1>2, PTL DEF ClientSpec

\* UnderstoodAsMeant: whatever a client calls with arguments that fit, for a DID
\* and a key buffer in the state the call asks for, the program takes, and reads
\* back the same call (client.rs against reader.rs and instructions/*.rs).
THEOREM WhatIsMeantIsUnderstood == ClientSpec => []UnderstoodAsMeant
  <1>1. SentInv => UnderstoodAsMeant
    <2> SUFFICES ASSUME Sent(meant, via, tx), meant \in Call
                 PROVE  /\ Taken(tx) /\ Understood(tx) = meant
                        /\ Controller(tx) = IF via = NoOne THEN NoOne ELSE did_account(via)
      BY DEF SentInv, UnderstoodAsMeant
    <2>1. ProperCall(meant)
      BY ClientAssumption DEF ClientAssumption
    <2> QED BY <2>1, ClientAssumption, SentIsUnderstood
  <1> QED BY <1>1, UnchangedIsSent, PTL

=============================================================================
