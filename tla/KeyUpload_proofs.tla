------------------------- MODULE KeyUpload_proofs --------------------------
(***************************************************************************)
(* Whatever the network does, what lands is one upload's key: for every    *)
(* number of uploads, length of key and length of chunk.  The invariant    *)
(* says that every call under way and every open buffer belongs to the one *)
(* upload of its DID and authority that is not over (Owned).  To resume is *)
(* taken and loses nothing, because buffers end at chunks (Aligned).       *)
(***************************************************************************)
EXTENDS KeyUpload, Registry_proofs

Active(u) == stage[u] \in {"running", "closing"}

SameBuffer(u, v) == u.did = v.did /\ u.authority = v.authority

\* b is the beginning of u's upload.
Begins(b, u) ==
  /\ SameBuffer(b, u) /\ b.header = u.header
  /\ Len(b.key) <= Len(u.key)
  /\ \A i \in 1..Len(b.key) : b.key[i] = u.key[i]

OneActive ==
  \A u, v \in Upload : SameBuffer(u, v) /\ Active(u) /\ Active(v) => u = v

Owned ==
  /\ \A c \in network : \E u \in Upload : Active(u) /\ c \in CallsOf(u)
  /\ \A b \in buffers : \E u \in Upload : Active(u) /\ Begins(b, u)

MethodsMeant ==
  \A s \in Subject : \A m \in account[s].vms :
    m \in Founded[s].vms \/ \E u \in Upload : u.did = s /\ m = MethodOf(u)

UploadInv ==
  /\ TypeOK /\ BuffersFilled /\ OneBufferPerAuthority
  /\ stage \in [Upload -> {"wanted", "running", "closing", "ended"}]
  /\ OneActive /\ Owned /\ MethodsMeant

-----------------------------------------------------------------------------
(* The calls of an upload *)

ChunkCount(key) == (Len(key) + KeyChunkLen - 1) \div KeyChunkLen

LEMMA Division ==
  ASSUME NEW a \in Nat, NEW n \in Nat \ {0}
  PROVE  a \div n \in Nat /\ (a \div n) * n <= a /\ a < (a \div n) * n + n
  OBVIOUS

LEMMA Products ==
  ASSUME NEW a \in Nat, NEW b \in Nat, NEW n \in Nat \ {0}
  PROVE  a * n \in Nat /\ (a <= b => a * n <= b * n) /\ (b + 1) * n = b * n + n
  OBVIOUS

LEMMA UploadTyped ==
  ASSUME NEW u \in Upload
  PROVE  /\ u.did \in Subject /\ u.authority \in Signer /\ u.header \in BufferInput
         /\ u.key \in Seq(Cell) /\ u.header.keyLen = Len(u.key)
         /\ Len(u.key) \in Nat /\ KeyChunkLen \in Nat \ {0} /\ ChunkCount(u.key) \in Nat
  <1>1. /\ u.did \in Subject /\ u.authority \in Signer /\ u.header \in BufferInput
        /\ u.key \in Seq(Cell) /\ u.header.keyLen = Len(u.key)
        /\ Len(u.key) \in Nat /\ KeyChunkLen \in Nat \ {0}
    BY UploadAssumption DEF Material
  <1>2. Len(u.key) + KeyChunkLen - 1 \in Nat
    BY <1>1
  <1> QED BY <1>1, <1>2, Division DEF ChunkCount

\* A chunk that starts inside the key is one of the chunks.
LEMMA ChunkInRange ==
  ASSUME NEW len \in Nat, NEW n \in Nat \ {0}, NEW at \in Nat, at < len
  PROVE  at \div n + 1 \in 1 .. (len + n - 1) \div n
  <1> DEFINE q == at \div n
             r == (len + n - 1) \div n
  <1>1. q \in Nat /\ q * n <= at
    BY Division
  <1>2. len + n - 1 \in Nat
    OBVIOUS
  <1>3. r \in Nat /\ len + n - 1 < r * n + n
    BY <1>2, Division
  <1> HIDE DEF q, r
  <1>4. q < r
    <2> SUFFICES ASSUME r <= q PROVE FALSE
      BY <1>1, <1>3
    <2>1. r * n <= q * n /\ r * n \in Nat /\ q * n \in Nat
      BY <1>1, <1>3, Products
    <2> QED BY <1>1, <1>3, <2>1
  <1> QED BY <1>1, <1>3, <1>4 DEF q, r

LEMMA Joined ==
  ASSUME NEW S, NEW a \in Seq(S), NEW b \in Seq(S)
  PROVE  /\ a \o b \in Seq(S) /\ Len(a \o b) = Len(a) + Len(b)
         /\ \A i \in 1..Len(a) : (a \o b)[i] = a[i]
         /\ \A i \in 1..Len(b) : (a \o b)[Len(a) + i] = b[i]
  OBVIOUS

\* What upload_key lists: a create, a write per chunk, a finish.
LEMMA UploadKeyCalls ==
  ASSUME NEW u \in Upload
  PROVE  LET n == ChunkCount(u.key) IN
         /\ Len(UploadKey(u)) = n + 2 /\ DOMAIN UploadKey(u) = 1 .. n + 2
         /\ UploadKey(u)[1] = CreateCall(u)
         /\ \A i \in 1..n : UploadKey(u)[i + 1] =
              WriteCall(u, (i - 1) * KeyChunkLen, Chunks(u.key)[i])
         /\ UploadKey(u)[n + 2] = Call(u, "finish")
  <1> DEFINE n == ChunkCount(u.key)
             Written(i) == WriteCall(u, (i - 1) * KeyChunkLen, Chunks(u.key)[i])
             first == <<CreateCall(u)>>
             writes == [i \in 1..n |-> Written(i)]
             last == <<Call(u, "finish")>>
             S == {CreateCall(u), Call(u, "finish")} \cup {Written(i) : i \in 1..n}
  <1>1. n \in Nat
    BY UploadTyped
  <1>2. DOMAIN Chunks(u.key) = 1..n
    BY DEF Chunks, ChunkCount
  <1>3. UploadKey(u) = first \o writes \o last
    BY <1>2 DEF UploadKey
  <1> HIDE DEF n, Written
  <1>4. /\ first \in Seq(S) /\ Len(first) = 1 /\ first[1] = CreateCall(u)
        /\ last \in Seq(S) /\ Len(last) = 1 /\ last[1] = Call(u, "finish")
    OBVIOUS
  <1>5. writes \in Seq(S) /\ Len(writes) = n /\ \A i \in 1..n : writes[i] = Written(i)
    BY <1>1
  <1> HIDE DEF first, writes, last, S
  <1> DEFINE front == first \o writes
  <1>6. /\ front \in Seq(S) /\ Len(front) = n + 1 /\ front[1] = CreateCall(u)
        /\ \A i \in 1..n : front[i + 1] = Written(i)
    <2>1. /\ front \in Seq(S) /\ Len(front) = Len(first) + Len(writes)
          /\ \A i \in 1..Len(first) : front[i] = first[i]
          /\ \A i \in 1..Len(writes) : front[Len(first) + i] = writes[i]
      <3>1. first \in Seq(S) /\ writes \in Seq(S)
        BY <1>4, <1>5
      <3> HIDE DEF front
      <3>2. \A b \in Seq(S) :
              /\ first \o b \in Seq(S) /\ Len(first \o b) = Len(first) + Len(b)
              /\ \A i \in 1..Len(first) : (first \o b)[i] = first[i]
              /\ \A i \in 1..Len(b) : (first \o b)[Len(first) + i] = b[i]
        BY <3>1, Joined
      <3> QED BY <3>1, <3>2 DEF front
    <2> HIDE DEF front
    <2>2. front \in Seq(S) /\ Len(front) = n + 1 /\ front[1] = CreateCall(u)
      BY <1>1, <1>4, <1>5, <2>1
    <2>3. \A i \in 1..n : front[1 + i] = Written(i) /\ i + 1 = 1 + i
      BY <1>1, <1>4, <1>5, <2>1
    <2> QED BY <2>2, <2>3
  <1> HIDE DEF front
  <1> DEFINE whole == front \o last
  <1>7. /\ Len(whole) = n + 2 /\ DOMAIN whole = 1 .. n + 2
        /\ whole[n + 2] = Call(u, "finish")
        /\ \A i \in 1 .. n + 1 : whole[i] = front[i]
    <2>1. /\ whole \in Seq(S) /\ Len(whole) = Len(front) + Len(last)
          /\ \A i \in 1..Len(front) : whole[i] = front[i]
          /\ \A i \in 1..Len(last) : whole[Len(front) + i] = last[i]
      BY <1>4, <1>6, Joined
    <2> HIDE DEF whole
    <2>2. (n + 1) + 1 = n + 2
      BY <1>1
    <2> QED BY <1>1, <1>4, <1>6, <2>1, <2>2
  <1>8. UploadKey(u) = whole
    BY <1>3 DEF front
  <1> HIDE DEF whole
  <1>9. whole[1] = CreateCall(u) /\ \A i \in 1..n : whole[i + 1] = Written(i)
    BY <1>1, <1>6, <1>7
  <1> QED BY <1>7, <1>8, <1>9 DEF n, Written

LEMMA CallForms ==
  ASSUME NEW u \in Upload, NEW c \in CallsOf(u)
  PROVE  \/ c = Call(u, "close") \/ c = Call(u, "finish") \/ c = CreateCall(u)
         \/ \E i \in 1 .. ChunkCount(u.key) :
              c = WriteCall(u, (i - 1) * KeyChunkLen, Chunks(u.key)[i])
  <1> SUFFICES ASSUME c \in Range(UploadKey(u))
               PROVE  \/ c = Call(u, "finish") \/ c = CreateCall(u)
                      \/ \E i \in 1 .. ChunkCount(u.key) :
                           c = WriteCall(u, (i - 1) * KeyChunkLen, Chunks(u.key)[i])
    BY DEF CallsOf
  <1> DEFINE n == ChunkCount(u.key)
  <1>1. n \in Nat
    BY UploadTyped
  <1>2. PICK j \in 1 .. n + 2 : c = UploadKey(u)[j]
    BY UploadKeyCalls DEF Range
  <1>3. j = 1 \/ j = n + 2 \/ (j - 1 \in 1..n /\ j = (j - 1) + 1)
    BY <1>1
  <1> QED BY <1>2, <1>3, UploadKeyCalls

\* The calls of an upload name its buffer, create it with its header, write
\* pieces of its key at their places.
LEMMA CallOfUpload ==
  ASSUME NEW u \in Upload, NEW c \in CallsOf(u)
  PROVE  /\ SameBuffer(c, u)
         /\ c.op = "create" => c.header = u.header
         /\ c.op = "write" =>
              \E from \in Nat, to \in Nat :
                /\ to <= Len(u.key)
                /\ c.offset = from /\ c.chunk = SubSeq(u.key, from + 1, to)
  <1>1. CASE c = Call(u, "close") \/ c = Call(u, "finish")
    BY <1>1 DEF Call, SameBuffer
  <1>2. CASE c = CreateCall(u)
    BY <1>2 DEF CreateCall, SameBuffer
  <1>3. ASSUME NEW i \in 1 .. ChunkCount(u.key),
               c = WriteCall(u, (i - 1) * KeyChunkLen, Chunks(u.key)[i])
        PROVE  /\ SameBuffer(c, u) /\ c.op = "write"
               /\ \E from \in Nat, to \in Nat :
                    /\ to <= Len(u.key)
                    /\ c.offset = from /\ c.chunk = SubSeq(u.key, from + 1, to)
    <2> DEFINE from == (i - 1) * KeyChunkLen
               to == Min({i * KeyChunkLen, Len(u.key)})
    <2>1. i \in Nat /\ i - 1 \in Nat
      BY UploadTyped
    <2>2. i * KeyChunkLen \in Nat /\ from \in Nat
      BY <2>1, UploadTyped, Products
    <2>3. to \in Nat /\ to <= Len(u.key)
      BY <2>2, UploadTyped DEF Min
    <2>4. Chunks(u.key)[i] = SubSeq(u.key, from + 1, to)
      BY DEF Chunks, ChunkCount
    <2>5. /\ c.op = "write" /\ c.did = u.did /\ c.authority = u.authority
          /\ c.offset = from /\ c.chunk = SubSeq(u.key, from + 1, to)
      BY <1>3, <2>4 DEF WriteCall
    <2> QED BY <2>2, <2>3, <2>5 DEF SameBuffer
  <1> QED BY <1>1, <1>2, <1>3, CallForms DEF CreateCall, Call

-----------------------------------------------------------------------------
(* Steps of the sender *)

LEMMA StartStep ==
  ASSUME UploadInv, NEW u \in Upload, Start(u)
  PROVE  OneActive' /\ Owned' /\ MethodsMeant'
  <1>1. /\ stage' = [stage EXCEPT ![u] = "running"]
        /\ UNCHANGED <<account, buffers, network>>
    BY DEF Start
  <1>2. stage'[u] = "running" /\ \A v \in Upload \ {u} : stage'[v] = stage[v]
    BY <1>1 DEF UploadInv
  <1>3. \A v \in Upload \ {u} : SameBuffer(u, v) => ~Active(v)
    BY DEF Start, Rivals, SameBuffer, Active
  <1>4. OneActive'
    BY <1>2, <1>3 DEF OneActive, UploadInv, Active, SameBuffer
  <1>5. \A v \in Upload : Active(v) => Active(v)'
    BY <1>2 DEF Active
  <1>6. Owned' /\ MethodsMeant'
    BY <1>1, <1>5 DEF UploadInv, Owned, MethodsMeant
  <1> QED BY <1>4, <1>6

\* A buffer that an active upload finds at its address is its own.
LEMMA HeldIsOwn ==
  ASSUME UploadInv, NEW u \in Upload, Active(u), NEW b \in Held(u.did, u.authority)
  PROVE  Begins(b, u)
  <1>1. b \in buffers /\ SameBuffer(b, u)
    BY DEF Held, SameBuffer
  <1>2. PICK v \in Upload : Active(v) /\ Begins(b, v)
    BY <1>1 DEF UploadInv, Owned
  <1>3. SameBuffer(u, v)
    BY <1>1, <1>2 DEF Begins, SameBuffer
  <1> QED BY <1>2, <1>3 DEF UploadInv, OneActive

LEMMA NextCallListed ==
  ASSUME UploadInv, NEW u \in Upload, Active(u)
  PROVE  NextCall(u) \in Range(UploadKey(u))
  <1> DEFINE n == ChunkCount(u.key)
             held == Held(u.did, u.authority)
             b == CHOOSE b \in held : TRUE
  <1>1. n \in Nat /\ DOMAIN UploadKey(u) = 1 .. n + 2 /\ Len(UploadKey(u)) = n + 2
    BY UploadTyped, UploadKeyCalls
  <1>2. \A i \in 1 .. n + 2 : UploadKey(u)[i] \in Range(UploadKey(u))
    BY <1>1 DEF Range
  <1>3. Last(UploadKey(u)) = UploadKey(u)[n + 2]
    BY <1>1 DEF Last
  <1>4. CASE held = {}
    BY <1>1, <1>2, <1>4 DEF NextCall
  <1>5. CASE held # {}
    <2>1. b \in held
      BY <1>5
    <2>2. b \in Filled /\ Begins(b, u)
      BY <2>1, HeldIsOwn DEF Held, UploadInv, BuffersFilled
    <2>3. Len(b.key) \in Nat /\ b.header.keyLen = Len(u.key)
      BY <2>2, UploadTyped DEF Filled, Begins
    <2> HIDE DEF b, n
    <2>4. ASSUME Len(b.key) < Len(u.key)
          PROVE  Len(b.key) \div KeyChunkLen + 2 \in 1 .. n + 2
      <3>1. Len(b.key) \div KeyChunkLen + 1 \in 1..n
        BY <2>3, <2>4, UploadTyped, ChunkInRange DEF n, ChunkCount
      <3>2. Len(b.key) \div KeyChunkLen \in Nat
        BY <2>3, UploadTyped, Division
      <3> QED BY <1>1, <3>1, <3>2
    <2>5. NextCall(u) = IF Len(b.key) < Len(u.key)
                        THEN UploadKey(u)[Len(b.key) \div KeyChunkLen + 2]
                        ELSE UploadKey(u)[n + 2]
      BY <1>3, <1>5, <2>3 DEF NextCall, b
    <2>6. n + 2 \in 1 .. n + 2
      BY <1>1
    <2> QED BY <1>2, <2>4, <2>5, <2>6
  <1> QED BY <1>4, <1>5

LEMMA SendStep ==
  ASSUME UploadInv, NEW u \in Upload, Send(u)
  PROVE  OneActive' /\ Owned' /\ MethodsMeant'
  <1>1. Active(u) /\ UNCHANGED <<account, buffers, stage>>
    BY DEF Send, Active
  <1>2. PICK c \in CallsOf(u) : network' = network \cup {c}
    BY <1>1, NextCallListed DEF Send, CallsOf
  <1>3. \A v \in Upload : Active(v)' = Active(v)
    BY <1>1 DEF Active
  <1> QED BY <1>1, <1>2, <1>3 DEF UploadInv, OneActive, Owned, MethodsMeant

LEMMA GiveUpStep ==
  ASSUME UploadInv, NEW u \in Upload, GiveUp(u)
  PROVE  OneActive' /\ Owned' /\ MethodsMeant'
  <1>1. /\ stage' = [stage EXCEPT ![u] = "closing"]
        /\ UNCHANGED <<account, buffers, network>>
    BY DEF GiveUp
  <1>2. \A v \in Upload : Active(v)' = Active(v)
    BY <1>1 DEF UploadInv, Active, GiveUp
  <1> QED BY <1>1, <1>2 DEF UploadInv, OneActive, Owned, MethodsMeant

LEMMA EndStep ==
  ASSUME UploadInv, NEW u \in Upload, End(u)
  PROVE  OneActive' /\ Owned' /\ MethodsMeant'
  <1>1. /\ stage' = [stage EXCEPT ![u] = "ended"]
        /\ UNCHANGED <<account, buffers, network>>
    BY DEF End
  <1>2. /\ \A v \in Upload : Active(v)' => Active(v)
        /\ \A v \in Upload \ {u} : Active(v) => Active(v)'
    BY <1>1 DEF UploadInv, Active
  <1>3. \A c \in network : c \notin CallsOf(u)
    BY CallOfUpload DEF End, Of, SameBuffer
  <1>4. \A b \in buffers : ~Begins(b, u)
    BY DEF End, Held, Begins, SameBuffer
  <1>5. OneActive'
    BY <1>2 DEF UploadInv, OneActive
  <1>6. Owned'
    <2>1. ASSUME NEW c \in network
          PROVE  \E v \in Upload : Active(v)' /\ c \in CallsOf(v)
      BY <1>2, <1>3 DEF UploadInv, Owned
    <2>2. ASSUME NEW b \in buffers
          PROVE  \E v \in Upload : Active(v)' /\ Begins(b, v)
      BY <1>2, <1>4 DEF UploadInv, Owned
    <2> QED BY <1>1, <2>1, <2>2 DEF Owned
  <1>7. MethodsMeant'
    BY <1>1 DEF UploadInv, MethodsMeant
  <1> QED BY <1>5, <1>6, <1>7

-----------------------------------------------------------------------------
(* Steps of the network *)

\* A piece of the key, written where it belongs, leaves its beginning.
LEMMA PieceExtends ==
  ASSUME NEW S, NEW T, NEW key \in Seq(S), NEW written \in Seq(T),
         Len(written) <= Len(key),
         \A i \in 1..Len(written) : written[i] = key[i],
         NEW to \in Nat, to <= Len(key)
  PROVE  LET longer == written \o SubSeq(key, Len(written) + 1, to) IN
         /\ Len(longer) <= Len(key)
         /\ \A i \in 1..Len(longer) : longer[i] = key[i]
  <1> DEFINE from == Len(written)
             piece == SubSeq(key, from + 1, to)
             longer == written \o piece
  <1>1. from \in Nat /\ Len(key) \in Nat
    OBVIOUS
  <1>2. CASE to <= from
    <2>1. piece = <<>>
      BY <1>1, <1>2
    <2> HIDE DEF piece
    <2>2. longer = written
      BY <2>1
    <2> QED BY <2>2 DEF piece
  <1>3. CASE from < to
    <2>1. piece \in Seq(S) /\ Len(piece) = to - from
      BY <1>1, <1>3
    <2>2. \A i \in 1 .. to - from : piece[i] = key[from + i]
      BY <1>1, <1>3
    <2> HIDE DEF piece
    <2>3. written \in Seq(S \cup T) /\ piece \in Seq(S \cup T)
      BY <2>1
    <2>4. /\ Len(longer) = from + (to - from)
          /\ \A i \in 1..from : longer[i] = written[i]
          /\ \A i \in 1 .. to - from : longer[from + i] = piece[i]
      BY <2>1, <2>3, Joined
    <2> HIDE DEF longer
    <2>5. Len(longer) = to
      BY <1>1, <1>3, <2>4
    <2>6. ASSUME NEW i \in 1..to PROVE longer[i] = key[i]
      <3>1. CASE i <= from
        BY <1>1, <2>4, <3>1
      <3>2. CASE from < i
        <4>1. i - from \in 1 .. to - from /\ from + (i - from) = i
          BY <1>1, <3>2
        <4> QED BY <2>2, <2>4, <4>1
      <3> QED BY <1>1, <3>1, <3>2
    <2> QED BY <2>5, <2>6 DEF piece, longer
  <1> QED BY <1>1, <1>2, <1>3

LEMMA CreateStep ==
  ASSUME UploadInv, NEW u \in Upload, Active(u), NEW c \in CallsOf(u),
         c.op = "create", Landing(c), UNCHANGED stage, UNCHANGED network
  PROVE  Owned' /\ MethodsMeant'
  <1>1. CreateKeyBuffer(c.did, c.authority) /\ \A b \in buffers' \ buffers : b.header = c.header
    BY DEF Landing
  <1>2. PICK h \in BufferInput :
          buffers' = buffers \cup
            {[did |-> c.did, authority |-> c.authority, header |-> h, key |-> <<>>]}
    BY <1>1 DEF CreateKeyBuffer
  <1> DEFINE new == [did |-> c.did, authority |-> c.authority, header |-> h, key |-> <<>>]
  <1>3. new \notin buffers
    BY <1>1 DEF CreateKeyBuffer, Held
  <1>4. new.header = u.header
    BY <1>1, <1>2, <1>3, CallOfUpload
  <1>5. Begins(new, u)
    BY <1>4, CallOfUpload, UploadTyped DEF Begins, SameBuffer
  <1> HIDE DEF new
  <1>6. UNCHANGED account /\ buffers' = buffers \cup {new}
    BY <1>1, <1>2 DEF CreateKeyBuffer, new
  <1> QED BY <1>5, <1>6 DEF UploadInv, Owned, MethodsMeant, Active

LEMMA WriteStep ==
  ASSUME UploadInv, NEW u \in Upload, Active(u), NEW c \in CallsOf(u),
         c.op = "write", Landing(c), UNCHANGED stage, UNCHANGED network
  PROVE  Owned' /\ MethodsMeant'
  <1>1. /\ WriteKeyBuffer(c.did, c.authority)
        /\ \E b \in Held(c.did, c.authority) :
             /\ Accepts(b, c)
             /\ [b EXCEPT !.key = @ \o c.chunk] \in buffers'
    BY DEF Landing
  <1>2. PICK b \in Held(c.did, c.authority) :
          Accepts(b, c) /\ [b EXCEPT !.key = @ \o c.chunk] \in buffers'
    BY <1>1
  <1>3. PICK b0 \in Held(c.did, c.authority), chunk \in ChunkInput :
          buffers' = (buffers \ {b0}) \cup {[b0 EXCEPT !.key = @ \o chunk]}
    BY <1>1 DEF WriteKeyBuffer
  <1>4. b0 = b /\ b \in buffers /\ b \in Filled
    BY <1>2, <1>3 DEF Held, UploadInv, OneBufferPerAuthority, BuffersFilled
  <1> DEFINE new == [b EXCEPT !.key = @ \o c.chunk]
             other == [b0 EXCEPT !.key = @ \o chunk]
  <1>5. new.did = b.did /\ new.authority = b.authority /\ new.header = b.header
        /\ new.key = b.key \o c.chunk
    BY <1>4 DEF Filled
  <1>6. new \in buffers' /\ buffers' = (buffers \ {b}) \cup {other}
    BY <1>2, <1>3, <1>4
  <1>7. Begins(b, u)
    BY <1>2, HeldIsOwn, CallOfUpload DEF SameBuffer
  <1> HIDE DEF new, other
  <1>8. new \notin buffers \ {b}
    BY <1>4, <1>5 DEF UploadInv, OneBufferPerAuthority
  <1>9. buffers' = (buffers \ {b}) \cup {new}
    BY <1>6, <1>8
  <1>10. Begins(new, u)
    <2>0. PICK from \in Nat, to \in Nat :
            /\ to <= Len(u.key)
            /\ c.offset = from /\ c.chunk = SubSeq(u.key, from + 1, to)
      BY CallOfUpload
    <2>1. to <= Len(u.key) /\ c.chunk = SubSeq(u.key, Len(b.key) + 1, to)
      BY <1>2, <2>0 DEF Accepts
    <2>2. new.key = b.key \o SubSeq(u.key, Len(b.key) + 1, to)
      BY <1>5, <2>1
    <2>3. u.key \in Seq(Cell) /\ b.key \in Seq(UploadCell)
      BY <1>4, UploadTyped DEF Filled
    <2> DEFINE key == u.key
               written == b.key
               longer == written \o SubSeq(key, Len(written) + 1, to)
    <2>4. /\ Len(written) <= Len(key)
          /\ \A i \in 1..Len(written) : written[i] = key[i]
      BY <1>7 DEF Begins
    <2>5. key \in Seq(Cell) /\ written \in Seq(UploadCell) /\ to <= Len(key)
      BY <2>1, <2>3
    <2> HIDE DEF key, written
    <2>6. Len(longer) <= Len(key) /\ \A i \in 1..Len(longer) : longer[i] = key[i]
      BY <2>4, <2>5, PieceExtends
    <2> QED BY <1>5, <1>7, <2>2, <2>6 DEF Begins, SameBuffer, key, written
  <1>11. UNCHANGED account
    BY <1>1 DEF WriteKeyBuffer
  <1> QED BY <1>9, <1>10, <1>11 DEF UploadInv, Owned, MethodsMeant, Active

\* A buffer that is full holds the whole key of its upload.
LEMMA StagedIsMeant ==
  ASSUME NEW u \in Upload, NEW b \in Filled, Begins(b, u), Len(b.key) = b.header.keyLen
  PROVE  Staged(b) = MethodOf(u)
  <1>1. u.key \in Seq(Cell) /\ b.key \in Seq(UploadCell) /\ Len(b.key) = Len(u.key)
    BY UploadTyped DEF Begins, Filled
  <1>2. b.key = u.key
    BY <1>1 DEF Begins
  <1> QED BY <1>2 DEF Begins, Staged, MethodOf

LEMMA FinishedMethods ==
  ASSUME UploadInv, NEW u \in Upload, Active(u), NEW c \in CallsOf(u),
         c.op = "finish", Landing(c)
  PROVE  /\ buffers' \subseteq buffers
         /\ account'[u.did].vms = account[u.did].vms \cup {MethodOf(u)}
         /\ \A s \in Subject \ {u.did} : account'[s] = account[s]
  <1>1. AddVerificationMethodFromBuffer(c.did, c.authority)
    BY DEF Landing
  <1>2. PICK b \in Held(c.did, c.authority) :
          /\ Len(b.key) = b.header.keyLen
          /\ InsertVm(c.did, c.authority, Staged(b))
          /\ buffers' = buffers \ {b}
    BY <1>1 DEF AddVerificationMethodFromBuffer
  <1>3. c.did = u.did /\ c.authority = u.authority /\ u.did \in Subject /\ u.authority \in Signer
    BY CallOfUpload, UploadTyped DEF SameBuffer
  <1>4. b \in Filled /\ Begins(b, u)
    BY <1>2, <1>3, HeldIsOwn DEF Held, UploadInv, BuffersFilled
  <1>5. Staged(b) = MethodOf(u)
    BY <1>2, <1>4, StagedIsMeant
  <1>6. Staged(b) \in Method
    <2>1. Staged(b) \in MethodInput
      BY <1>2, <1>4, StagedIsInput
    <2> QED BY <1>2, <2>1, NewMethodTyped DEF InsertVm, CheckNewMethod, Staged
  <1> DEFINE d == [account[u.did] EXCEPT !.vms = @ \cup {Staged(b)}]
  <1>7. /\ account \in [Subject -> Document] /\ account[u.did] \in Document
    BY <1>3 DEF UploadInv, TypeOK
  <1>8. d \in Document /\ d.vms = account[u.did].vms \cup {Staged(b)}
    BY <1>6, <1>7, AddedDocument DEF Document
  <1>9. Update(u.did, u.authority, d)
    BY <1>2, <1>3 DEF InsertVm
  <1> HIDE DEF d
  <1>10. /\ account'[u.did].vms = account[u.did].vms \cup {MethodOf(u)}
         /\ \A s \in Subject \ {u.did} : account'[s] = account[s]
    BY <1>3, <1>5, <1>7, <1>8, <1>9, UpdateFrame, TouchKeeps
  <1> QED BY <1>2, <1>10

LEMMA FinishLands ==
  ASSUME UploadInv, NEW u \in Upload, Active(u), NEW c \in CallsOf(u),
         c.op = "finish", Landing(c), UNCHANGED stage, UNCHANGED network
  PROVE  Owned' /\ MethodsMeant'
  <1>1. u.did \in Subject
    BY UploadTyped
  <1>2. MethodsMeant'
    BY <1>1, FinishedMethods DEF UploadInv, MethodsMeant, MethodOf
  <1>3. Owned'
    BY FinishedMethods DEF UploadInv, Owned, Active
  <1> QED BY <1>2, <1>3

LEMMA DeliverStep ==
  ASSUME UploadInv, NEW c, Deliver(c)
  PROVE  OneActive' /\ Owned' /\ MethodsMeant'
  <1>1. PICK u \in Upload : Active(u) /\ c \in CallsOf(u)
    BY DEF UploadInv, Owned, Deliver
  <1>2. Landing(c) /\ UNCHANGED stage /\ UNCHANGED network
    BY DEF Deliver
  <1>3. OneActive'
    BY <1>2 DEF UploadInv, OneActive, Active
  <1>4. CASE c.op = "close"
    <2>1. CloseKeyBuffer(c.did, c.authority)
      BY <1>2, <1>4 DEF Landing
    <2>2. UNCHANGED account /\ buffers' \subseteq buffers
      BY <2>1 DEF CloseKeyBuffer
    <2> QED BY <1>2, <1>3, <2>2 DEF UploadInv, Owned, MethodsMeant, Active
  <1>5. CASE c.op \in {"create", "write", "finish"}
    BY <1>1, <1>2, <1>3, <1>5, CreateStep, WriteStep, FinishLands
  <1> QED BY <1>2, <1>4, <1>5 DEF Landing

LEMMA ExpireStep ==
  ASSUME UploadInv, NEW c, Expire(c)
  PROVE  OneActive' /\ Owned' /\ MethodsMeant'
  <1>1. network' \subseteq network /\ UNCHANGED <<account, buffers, stage>>
    BY DEF Expire
  <1> QED BY <1>1 DEF UploadInv, OneActive, Owned, MethodsMeant, Active

LEMMA MeanwhileStep ==
  ASSUME UploadInv, Meanwhile
  PROVE  OneActive' /\ Owned' /\ MethodsMeant'
  <1>1. UNCHANGED <<buffers, stage, network>>
    BY DEF Meanwhile
  <1>2. PICK s \in Subject, k \in Signer :
          RemoveVerificationMethod(s, k) \/ Deactivate(s, k)
    BY DEF Meanwhile
  <1>3. account \in [Subject -> Document] /\ account[s] \in Document
    BY DEF UploadInv, TypeOK
  <1>4. PICK d \in Document : Update(s, k, d) /\ d.vms \subseteq account[s].vms
    <2>1. CASE RemoveVerificationMethod(s, k)
      <3>1. PICK m \in account[s].vms :
              Update(s, k, [account[s] EXCEPT !.vms = @ \ {m}])
        BY <2>1 DEF RemoveVerificationMethod
      <3>2. account[s].vms \ {m} \in SUBSET Method
        BY <1>3 DEF Document
      <3>3. [account[s] EXCEPT !.vms = @ \ {m}] \in Document
        BY <1>3, <3>2, EditedDocument
      <3> QED BY <1>3, <3>1, <3>3 DEF Document
    <2>2. CASE Deactivate(s, k)
      BY <1>3, <2>2, TombstoneDocument DEF Deactivate
    <2> QED BY <1>2, <2>1, <2>2
  <1>5. /\ account'[s].vms \subseteq account[s].vms
        /\ \A t \in Subject \ {s} : account'[t] = account[t]
    BY <1>3, <1>4, UpdateFrame, TouchKeeps
  <1>6. MethodsMeant'
    BY <1>5 DEF UploadInv, MethodsMeant
  <1> QED BY <1>1, <1>6 DEF UploadInv, OneActive, Owned, Active

-----------------------------------------------------------------------------
(* The invariant *)

\* The sender and the network only call the program.
LEMMA UploadCallsProgram ==
  ASSUME UploadInv, [UploadNext]_uploadVars
  PROVE  [BufferNext]_bufferVars
  <1>1. ASSUME NEW c, Deliver(c) PROVE BufferNext
    <2>1. PICK u \in Upload : c \in CallsOf(u)
      BY <1>1 DEF UploadInv, Owned, Deliver
    <2>2. c.did \in Subject /\ c.authority \in Signer
      BY <2>1, CallOfUpload, UploadTyped DEF SameBuffer
    <2> QED BY <1>1, <2>2 DEF Deliver, Landing, BufferNext
  <1>2. ASSUME Meanwhile PROVE BufferNext
    BY <1>2 DEF Meanwhile, BufferNext, Next
  <1>3. ASSUME NEW u \in Upload, Start(u) \/ Send(u) \/ GiveUp(u) \/ End(u)
        PROVE  UNCHANGED bufferVars
    BY <1>3 DEF Start, Send, GiveUp, End, bufferVars
  <1>4. ASSUME NEW c, Expire(c) PROVE UNCHANGED bufferVars
    BY <1>4 DEF Expire, bufferVars
  <1>5. CASE UNCHANGED uploadVars
    BY <1>5 DEF uploadVars, bufferVars
  <1> QED BY <1>1, <1>2, <1>3, <1>4, <1>5 DEF UploadNext

LEMMA StagesTyped ==
  ASSUME UploadInv, [UploadNext]_uploadVars
  PROVE  stage' \in [Upload -> {"wanted", "running", "closing", "ended"}]
  BY DEF UploadInv, UploadNext, uploadVars, Start, Send, GiveUp, End, Deliver, Expire, Meanwhile

LEMMA UploadInvStep ==
  ASSUME UploadInv, [UploadNext]_uploadVars
  PROVE  UploadInv'
  <1>1. [BufferNext]_bufferVars
    BY UploadCallsProgram
  <1>2. BuffersFilled' /\ OneBufferPerAuthority' /\ TypeOK'
    <2>1. TypeOK /\ BuffersFilled /\ OneBufferPerAuthority
      BY DEF UploadInv
    <2> QED BY <1>1, <2>1, FilledStep, OneBufferStep, UploadStep, TypeStep
  <1>3. ASSUME UNCHANGED uploadVars PROVE OneActive' /\ Owned' /\ MethodsMeant'
    BY <1>3 DEF uploadVars, UploadInv, OneActive, Owned, MethodsMeant, Active
  <1>4. ASSUME UploadNext PROVE OneActive' /\ Owned' /\ MethodsMeant'
    BY <1>4, StartStep, SendStep, GiveUpStep, EndStep, DeliverStep, ExpireStep, MeanwhileStep
    DEF UploadNext
  <1>5. OneActive' /\ Owned' /\ MethodsMeant'
    BY <1>3, <1>4
  <1> QED BY <1>2, <1>5, StagesTyped DEF UploadInv

-----------------------------------------------------------------------------
(* Resuming.  A buffer ends where a chunk begins, or holds the whole key,  *)
(* and no close is under way to the buffer of an upload that is running.   *)

Aligned ==
  \A b \in buffers :
    \/ Len(b.key) = b.header.keyLen
    \/ \E i \in Nat : Len(b.key) = i * KeyChunkLen

ClosesMeant ==
  \A c \in network : c.op = "close" =>
    \A u \in Upload : SameBuffer(c, u) => stage[u] # "running"

ResumeInv == UploadInv /\ Aligned /\ ClosesMeant

\* A chunk is a piece of the key that is not empty, and ends where the next
\* begins or where the key ends.
LEMMA ChunkBounds ==
  ASSUME NEW u \in Upload, NEW i \in 1 .. ChunkCount(u.key)
  PROVE  LET from == (i - 1) * KeyChunkLen
             to == Min({i * KeyChunkLen, Len(u.key)})
         IN /\ from \in Nat /\ to \in Nat /\ from < to /\ to <= Len(u.key)
            /\ to = Len(u.key) \/ to = i * KeyChunkLen
            /\ Chunks(u.key)[i] = SubSeq(u.key, from + 1, to)
            /\ Chunks(u.key)[i] \in Seq(Cell) /\ Len(Chunks(u.key)[i]) = to - from
  <1> DEFINE n == KeyChunkLen
             len == Len(u.key)
             from == (i - 1) * n
             last == i * n
             count == ChunkCount(u.key)
  <1>1. i \in Nat /\ i - 1 \in Nat /\ n \in Nat \ {0} /\ len \in Nat /\ count \in Nat
    BY UploadTyped
  <1>2. from \in Nat /\ last \in Nat /\ last = from + n
    <2>1. from \in Nat /\ last \in Nat
      BY <1>1, Products
    <2>2. ((i - 1) + 1) * n = (i - 1) * n + n
      BY <1>1, Products
    <2>3. (i - 1) + 1 = i
      BY <1>1
    <2> QED BY <2>1, <2>2, <2>3
  <1>3. count * n \in Nat /\ last <= count * n
    BY <1>1, Products
  <1>4. count * n <= len + n - 1
    <2>1. len + n - 1 \in Nat
      BY <1>1
    <2> QED BY <1>1, <2>1, Division DEF count, ChunkCount
  <1> HIDE DEF n, len, from, last, count
  <1>5. from < len
    BY <1>1, <1>2, <1>3, <1>4
  <1> DEFINE to == Min({last, len})
  <1>6. /\ to \in Nat /\ from < to /\ to <= len
        /\ to = len \/ to = last
    BY <1>1, <1>2, <1>5 DEF Min
  <1> HIDE DEF to
  <1>7. Chunks(u.key)[i] = SubSeq(u.key, from + 1, to)
    BY DEF Chunks, ChunkCount, n, len, from, last, count, to
  <1>8. u.key \in Seq(Cell) /\ Len(u.key) = len
    BY UploadTyped DEF len
  <1>9. SubSeq(u.key, from + 1, to) \in Seq(Cell) /\ Len(SubSeq(u.key, from + 1, to)) = to - from
    BY <1>2, <1>6, <1>8
  <1> QED BY <1>2, <1>6, <1>7, <1>9 DEF n, len, from, last, to

LEMMA DividedBack ==
  ASSUME NEW i \in Nat, NEW n \in Nat \ {0}
  PROVE  (i * n) \div n = i
  <1> DEFINE a == i * n
             q == a \div n
  <1>1. a \in Nat
    BY Products
  <1>2. q \in Nat /\ q * n <= a /\ a < q * n + n
    BY <1>1, Division
  <1> HIDE DEF q
  <1>3. CASE q < i
    <2>1. (q + 1) * n <= i * n /\ (q + 1) * n = q * n + n
      <3>1. q + 1 \in Nat /\ q + 1 <= i
        BY <1>2, <1>3
      <3> QED BY <1>2, <3>1, Products
    <2>2. q * n \in Nat
      BY <1>2, Products
    <2> QED BY <1>1, <1>2, <2>1, <2>2
  <1>4. CASE i < q
    <2>1. (i + 1) * n <= q * n /\ (i + 1) * n = i * n + n
      <3>1. i + 1 \in Nat /\ i + 1 <= q
        BY <1>2, <1>4
      <3> QED BY <1>2, <3>1, Products
    <2>2. q * n \in Nat
      BY <1>2, Products
    <2> QED BY <1>1, <1>2, <2>1, <2>2
  <1>5. q = i
    BY <1>2, <1>3, <1>4
  <1> QED BY <1>5 DEF q

\* What a write that lands leaves in the buffer.
LEMMA WrittenBuffer ==
  ASSUME UploadInv, NEW u \in Upload, Active(u), NEW c \in CallsOf(u),
         c.op = "write", Landing(c)
  PROVE  \E b \in Held(u.did, u.authority) :
           /\ b \in Filled /\ Accepts(b, c) /\ c.chunk \in Seq(Cell)
           /\ buffers' = (buffers \ {b}) \cup {[b EXCEPT !.key = @ \o c.chunk]}
  <1>1. PICK b \in Held(c.did, c.authority) :
          Accepts(b, c) /\ [b EXCEPT !.key = @ \o c.chunk] \in buffers'
    BY DEF Landing
  <1>2. PICK b0 \in Held(c.did, c.authority), chunk \in ChunkInput :
          buffers' = (buffers \ {b0}) \cup {[b0 EXCEPT !.key = @ \o chunk]}
    BY DEF Landing, WriteKeyBuffer
  <1>3. b0 = b /\ b \in buffers /\ b \in Filled
    BY <1>1, <1>2 DEF Held, UploadInv, OneBufferPerAuthority, BuffersFilled
  <1> DEFINE new == [b EXCEPT !.key = @ \o c.chunk]
             other == [b0 EXCEPT !.key = @ \o chunk]
  <1>4. new.did = b.did /\ new.authority = b.authority
    BY <1>3 DEF Filled
  <1>5. new \in buffers' /\ buffers' = (buffers \ {b}) \cup {other}
    BY <1>1, <1>2, <1>3
  <1>6. \A a \in buffers \ {b} : a.did # b.did \/ a.authority # b.authority
    BY <1>3 DEF UploadInv, OneBufferPerAuthority
  <1> HIDE DEF new, other
  <1>7. buffers' = (buffers \ {b}) \cup {new}
    BY <1>4, <1>5, <1>6
  <1>8. c.chunk \in Seq(Cell)
    <2>1. PICK i \in 1 .. ChunkCount(u.key) : c.chunk = Chunks(u.key)[i]
      BY CallForms DEF Call, CreateCall, WriteCall
    <2> QED BY <2>1, ChunkBounds
  <1>9. c.did = u.did /\ c.authority = u.authority
    BY CallOfUpload DEF SameBuffer
  <1> QED BY <1>1, <1>3, <1>7, <1>8, <1>9 DEF new

LEMMA FilledLength ==
  ASSUME NEW b \in Filled, NEW chunk \in Seq(Cell)
  PROVE  LET new == [b EXCEPT !.key = @ \o chunk] IN
         /\ b.key \in Seq(UploadCell) /\ Len(b.key) \in Nat
         /\ new.did = b.did /\ new.authority = b.authority /\ new.header = b.header
         /\ new.key = b.key \o chunk /\ Len(new.key) = Len(b.key) + Len(chunk)
         /\ IsPrefix(b.key, new.key)
  <1> DEFINE new == [b EXCEPT !.key = @ \o chunk]
             S == UploadCell \cup Cell
             long == b.key \o chunk
  <1>1. /\ b.key \in Seq(UploadCell) /\ Len(b.key) \in Nat
        /\ new.did = b.did /\ new.authority = b.authority /\ new.header = b.header
        /\ new.key = long
    BY DEF Filled
  <1>2. b.key \in Seq(S) /\ chunk \in Seq(S)
    BY <1>1
  <1> HIDE DEF new, long, S
  <1>3. /\ long \in Seq(S) /\ Len(long) = Len(b.key) + Len(chunk)
        /\ \A i \in 1..Len(b.key) : long[i] = b.key[i]
    BY <1>2, Joined DEF long
  <1>4. IsPrefix(b.key, long)
    <2>1. Len(b.key) <= Len(long)
      BY <1>2, <1>3
    <2>2. SubSeq(b.key, 1, Len(b.key)) = SubSeq(long, 1, Len(b.key))
      BY <1>2, <1>3
    <2> QED BY <2>1, <2>2 DEF IsPrefix
  <1> QED BY <1>1, <1>3, <1>4 DEF new, long

LEMMA AlignedWrite ==
  ASSUME UploadInv, NEW u \in Upload, Active(u), NEW c \in CallsOf(u),
         c.op = "write", Landing(c), Aligned
  PROVE  Aligned'
  <1>1. PICK b \in Held(u.did, u.authority) :
          /\ b \in Filled /\ Accepts(b, c) /\ c.chunk \in Seq(Cell)
          /\ buffers' = (buffers \ {b}) \cup {[b EXCEPT !.key = @ \o c.chunk]}
    BY WrittenBuffer
  <1>2. PICK i \in 1 .. ChunkCount(u.key) :
          c = WriteCall(u, (i - 1) * KeyChunkLen, Chunks(u.key)[i])
    BY CallForms DEF Call, CreateCall
  <1> DEFINE from == (i - 1) * KeyChunkLen
             last == i * KeyChunkLen
             to == Min({last, Len(u.key)})
             new == [b EXCEPT !.key = @ \o c.chunk]
  <1>3. /\ from \in Nat /\ to \in Nat
        /\ to = Len(u.key) \/ to = last
        /\ Len(Chunks(u.key)[i]) = to - from
    BY ChunkBounds
  <1>4. Len(b.key) = from /\ c.chunk = Chunks(u.key)[i]
    BY <1>1, <1>2 DEF Accepts, WriteCall
  <1>5. Len(new.key) = Len(b.key) + Len(c.chunk) /\ new.header = b.header
    BY <1>1, FilledLength
  <1>6. b.header.keyLen = Len(u.key)
    BY <1>1, HeldIsOwn, UploadTyped DEF Begins
  <1> HIDE DEF new, from, to
  <1>7. Len(new.key) = to
    BY <1>3, <1>4, <1>5
  <1>8. i \in Nat
    BY UploadTyped
  <1> QED BY <1>1, <1>3, <1>5, <1>6, <1>7, <1>8 DEF Aligned, new, last

\* Only a create adds a buffer, an empty one, and only a write fills one.
LEMMA BuffersChange ==
  ASSUME UploadInv, [UploadNext]_uploadVars
  PROVE  \/ buffers' \subseteq buffers
         \/ \E b : buffers' = buffers \cup {b} /\ b.key = <<>>
         \/ \E u \in Upload : \E c \in CallsOf(u) : Active(u) /\ c.op = "write" /\ Landing(c)
  <1>1. ASSUME NEW c, Deliver(c)
        PROVE  \/ buffers' \subseteq buffers
               \/ \E b : buffers' = buffers \cup {b} /\ b.key = <<>>
               \/ \E u \in Upload : c \in CallsOf(u) /\ Active(u) /\ c.op = "write" /\ Landing(c)
    <2>1. PICK u \in Upload : Active(u) /\ c \in CallsOf(u)
      BY <1>1 DEF UploadInv, Owned, Deliver
    <2>2. Landing(c)
      BY <1>1 DEF Deliver
    <2>3. CASE c.op = "create"
      <3>1. PICK h \in BufferInput :
              buffers' = buffers \cup
                {[did |-> c.did, authority |-> c.authority, header |-> h, key |-> <<>>]}
        BY <2>2, <2>3 DEF Landing, CreateKeyBuffer
      <3> QED BY <3>1
    <2>4. CASE c.op = "write"
      BY <2>1, <2>2, <2>4
    <2>5. CASE c.op \in {"finish", "close"}
      BY <2>2, <2>5 DEF Landing, AddVerificationMethodFromBuffer, CloseKeyBuffer
    <2> QED BY <2>2, <2>3, <2>4, <2>5 DEF Landing
  <1>2. CASE UNCHANGED buffers
    BY <1>2
  <1> QED BY <1>1, <1>2 DEF UploadNext, uploadVars, Start, Send, GiveUp, End, Expire, Meanwhile

LEMMA AlignedStep ==
  ASSUME UploadInv, Aligned, [UploadNext]_uploadVars
  PROVE  Aligned'
  <1>1. CASE buffers' \subseteq buffers
    BY <1>1 DEF Aligned
  <1>2. ASSUME NEW b, buffers' = buffers \cup {b}, b.key = <<>>
        PROVE  Aligned'
    <2>1. Len(b.key) = 0 /\ 0 * KeyChunkLen = 0 /\ 0 \in Nat
      BY <1>2, UploadAssumption
    <2> QED BY <1>2, <2>1 DEF Aligned
  <1> QED BY <1>1, <1>2, BuffersChange, AlignedWrite

LEMMA ClosesStep ==
  ASSUME UploadInv, ClosesMeant, [UploadNext]_uploadVars
  PROVE  ClosesMeant'
  <1>1. ASSUME NEW u \in Upload, Start(u) PROVE ClosesMeant'
    <2>1. /\ network' = network /\ stage' = [stage EXCEPT ![u] = "running"]
          /\ \A c \in network : ~SameBuffer(c, u)
      BY <1>1 DEF Start, Of, SameBuffer
    <2> QED BY <2>1 DEF ClosesMeant, UploadInv
  <1>2. ASSUME NEW u \in Upload, Send(u) PROVE ClosesMeant'
    <2>1. CASE stage[u] = "running"
      <3>1. network' = network \cup {NextCall(u)} /\ stage' = stage
        BY <1>2, <2>1 DEF Send
      <3>2. NextCall(u).op # "close"
        <4>1. NextCall(u) \in Range(UploadKey(u))
          BY <2>1, NextCallListed DEF Active
        <4>2. PICK j \in DOMAIN UploadKey(u) : NextCall(u) = UploadKey(u)[j]
          BY <4>1 DEF Range
        <4>3. ChunkCount(u.key) \in Nat
          BY UploadTyped
        <4>4. \/ j = 1 \/ j = ChunkCount(u.key) + 2
              \/ j - 1 \in 1 .. ChunkCount(u.key) /\ j = (j - 1) + 1
          BY <4>2, <4>3, UploadKeyCalls
        <4>5. ASSUME NEW i \in 1 .. ChunkCount(u.key), j = i + 1
              PROVE  UploadKey(u)[j].op = "write"
          <5>1. UploadKey(u)[i + 1] = WriteCall(u, (i - 1) * KeyChunkLen, Chunks(u.key)[i])
            BY UploadKeyCalls
          <5> QED BY <4>5, <5>1 DEF WriteCall
        <4>6. /\ UploadKey(u)[1] = CreateCall(u)
              /\ UploadKey(u)[ChunkCount(u.key) + 2] = Call(u, "finish")
          BY UploadKeyCalls
        <4>7. CreateCall(u).op = "create" /\ Call(u, "finish").op = "finish"
          BY DEF CreateCall, Call
        <4> QED BY <4>2, <4>4, <4>5, <4>6, <4>7
      <3> QED BY <3>1, <3>2 DEF ClosesMeant
    <2>2. CASE stage[u] = "closing"
      <3>1. network' = network \cup {Call(u, "close")} /\ stage' = stage
        BY <1>2, <2>2 DEF Send
      <3>2. \A v \in Upload : SameBuffer(Call(u, "close"), v) => stage[v] # "running"
        BY <2>2 DEF Call, SameBuffer, UploadInv, OneActive, Active
      <3> QED BY <3>1, <3>2 DEF ClosesMeant
    <2> QED BY <1>2, <2>1, <2>2 DEF Send
  <1>3. ASSUME NEW u \in Upload, GiveUp(u) \/ End(u) PROVE ClosesMeant'
    BY <1>3 DEF GiveUp, End, ClosesMeant, UploadInv
  <1>4. ASSUME NEW c, Deliver(c) \/ Expire(c) PROVE ClosesMeant'
    BY <1>4 DEF Deliver, Expire, ClosesMeant
  <1>5. CASE Meanwhile \/ UNCHANGED uploadVars
    BY <1>5 DEF Meanwhile, uploadVars, ClosesMeant
  <1> QED BY <1>1, <1>2, <1>3, <1>4, <1>5 DEF UploadNext

-----------------------------------------------------------------------------
(* The theorems *)

LEMMA UploadInvHolds == UploadInv => WrittenIsPrefix
  <1> SUFFICES ASSUME UploadInv PROVE WrittenIsPrefix
    OBVIOUS
  <1>1. ASSUME NEW b \in buffers
        PROVE  \E u \in Upload : /\ Held(u.did, u.authority) = {b}
                                 /\ b.header = u.header
                                 /\ IsPrefix(b.key, u.key)
    <2>1. PICK u \in Upload : Begins(b, u)
      BY DEF UploadInv, Owned
    <2>2. Held(u.did, u.authority) = {b}
      BY <2>1 DEF Held, Begins, SameBuffer, UploadInv, OneBufferPerAuthority
    <2>3. u.key \in Seq(Cell) /\ b.key \in Seq(UploadCell) /\ Len(b.key) \in Nat
      BY UploadTyped DEF UploadInv, BuffersFilled, Filled
    <2>4. SubSeq(b.key, 1, Len(b.key)) = SubSeq(u.key, 1, Len(b.key))
      BY <2>1, <2>3 DEF Begins
    <2> QED BY <2>1, <2>2, <2>4 DEF Begins, IsPrefix
  <1>2. ASSUME NEW s \in Subject, NEW m \in account[s].vms
        PROVE  m \in Founded[s].vms \/ \E u \in Upload : u.did = s /\ m = MethodOf(u)
    BY DEF UploadInv, MethodsMeant
  <1> QED BY <1>1, <1>2 DEF WrittenIsPrefix

LEMMA ResumeInvariant == UploadSpec => []ResumeInv
  <1>1. UploadInit => ResumeInv
    <2> SUFFICES ASSUME UploadInit PROVE ResumeInv
      OBVIOUS
    <2>1. TypeOK
      BY UploadAssumption DEF UploadInit, TypeOK
    <2> QED BY <2>1 DEF UploadInit, ResumeInv, UploadInv, BuffersFilled, OneBufferPerAuthority,
                        OneActive, Owned, MethodsMeant, Active, Aligned, ClosesMeant
  <1>2. ResumeInv /\ [UploadNext]_uploadVars => ResumeInv'
    BY UploadInvStep, AlignedStep, ClosesStep DEF ResumeInv
  <1> QED BY <1>1, <1>2, PTL DEF UploadSpec

\* `written' is always a prefix of the key (write_key_buffer.rs), for any
\* number of uploads and authorities, keys and chunks of any length, and a
\* network that loses, repeats, reorders and delays calls at will.
THEOREM WrittenStaysPrefix == UploadSpec => []WrittenIsPrefix
  <1>1. ResumeInv => WrittenIsPrefix
    BY UploadInvHolds DEF ResumeInv
  <1> QED BY <1>1, ResumeInvariant, PTL

\* The checks of a finish are those of the method that is uploaded.
LEMMA FinishIsTaken ==
  ASSUME UploadInv, NEW u \in Upload, Active(u), ~Refused(u),
         NEW b \in Held(u.did, u.authority), Len(b.key) = b.header.keyLen
  PROVE  Takes(Call(u, "finish"))
  <1>1. b \in Filled /\ Begins(b, u)
    BY HeldIsOwn DEF Held, UploadInv, BuffersFilled
  <1>2. Staged(b) = MethodOf(u) /\ b.key = MethodOf(u).key
    BY <1>1, StagedIsMeant DEF Staged
  <1>3. /\ MethodOf(u).fragment = u.header.fragment /\ MethodOf(u).type = u.header.type
        /\ MethodOf(u).flags = u.header.flags /\ MethodOf(u).key = u.key
    BY DEF MethodOf
  <1>4. Len(b.key) = u.header.keyLen
    BY <1>1 DEF Begins
  <1>5. /\ Authorized(u.did, u.authority)
        /\ CheckNewMethod(account[u.did], u.header, u.header.keyLen)
        /\ CheckNewKey(u.header, u.key, u.authority)
    BY DEF Refused
  <1>6. CheckNewMethod(account[u.did], Staged(b), Len(b.key))
    BY <1>2, <1>3, <1>4, <1>5 DEF CheckNewMethod
  <1>7. CheckNewKey(Staged(b), b.key, u.authority)
    BY <1>2, <1>3, <1>5 DEF CheckNewKey, IsProtected
  <1>8. /\ Call(u, "finish").op = "finish" /\ Call(u, "finish").did = u.did
        /\ Call(u, "finish").authority = u.authority
    BY DEF Call
  <1> QED BY <1>5, <1>6, <1>7, <1>8 DEF Takes

\* Where an aligned buffer ends a chunk of the key begins.
LEMMA WriteIsTaken ==
  ASSUME ResumeInv, NEW u \in Upload, Active(u),
         NEW b \in Held(u.did, u.authority), Len(b.key) < b.header.keyLen
  PROVE  Takes(UploadKey(u)[Len(b.key) \div KeyChunkLen + 2])
  <1>1. b \in Filled /\ Begins(b, u) /\ b \in buffers
    BY HeldIsOwn DEF Held, ResumeInv, UploadInv, BuffersFilled
  <1>2. Len(b.key) \in Nat /\ b.header.keyLen = Len(u.key) /\ Len(u.key) \in Nat
        /\ KeyChunkLen \in Nat \ {0} /\ ChunkCount(u.key) \in Nat
    BY <1>1, UploadTyped DEF Filled, Begins
  <1>3. PICK q \in Nat : Len(b.key) = q * KeyChunkLen
    <2>1. \/ Len(b.key) = b.header.keyLen
          \/ \E i \in Nat : Len(b.key) = i * KeyChunkLen
      BY <1>1, Zenon DEF ResumeInv, Aligned
    <2>2. Len(b.key) # b.header.keyLen
      BY <1>2
    <2> QED BY <2>1, <2>2, Zenon
  <1>4. Len(b.key) \div KeyChunkLen = q
    BY <1>2, <1>3, DividedBack
  <1>5. q + 1 \in 1 .. ChunkCount(u.key)
    BY <1>2, <1>4, ChunkInRange DEF ChunkCount
  <1> DEFINE i == q + 1
             chunk == Chunks(u.key)[i]
             c == WriteCall(u, (i - 1) * KeyChunkLen, chunk)
  <1>6. UploadKey(u)[q + 2] = c /\ i - 1 = q
    <2>1. UploadKey(u)[i + 1] = c
      BY <1>5, UploadKeyCalls
    <2>2. i + 1 = q + 2 /\ i - 1 = q
      OBVIOUS
    <2> HIDE DEF c
    <2> QED BY <2>1, <2>2
  <1>7. /\ c.op = "write" /\ c.did = u.did /\ c.authority = u.authority
        /\ c.offset = q * KeyChunkLen /\ c.chunk = chunk
    BY <1>6 DEF WriteCall
  <1>8. chunk \in ChunkInput
    <2>1. i \in DOMAIN Chunks(u.key)
      BY <1>5 DEF Chunks, ChunkCount
    <2> QED BY <2>1, ChunkAssumption DEF Range
  <1>9. chunk # <<>> /\ Len(b.key) + Len(chunk) <= Len(u.key)
    <2> DEFINE from == (i - 1) * KeyChunkLen
               to == Min({i * KeyChunkLen, Len(u.key)})
    <2>1. /\ from \in Nat /\ to \in Nat /\ from < to /\ to <= Len(u.key)
          /\ Len(chunk) = to - from
      BY <1>5, ChunkBounds
    <2>2. from = Len(b.key)
      BY <1>3, <1>6
    <2> HIDE DEF from, to, chunk
    <2> QED BY <1>2, <2>1, <2>2
  <1> HIDE DEF c, chunk, i
  <1>10. Takes(c)
    BY <1>2, <1>3, <1>7, <1>8, <1>9 DEF Takes, Accepts
  <1> QED BY <1>4, <1>6, <1>10

\* What a running upload sends next is taken, for keys and chunks of any
\* length: the buffer ends at a chunk (Aligned) of its own key (Owned).
THEOREM ResumingIsTaken == UploadSpec => []ResumeIsTaken
  <1>1. ResumeInv => ResumeIsTaken
    <2> SUFFICES ASSUME ResumeInv, NEW u \in Upload,
                        stage[u] = "running", ~Refused(u)
                 PROVE  Takes(NextCall(u))
      BY DEF ResumeIsTaken
    <2> DEFINE held == Held(u.did, u.authority)
    <2>1. UploadInv /\ Active(u)
      BY DEF ResumeInv, Active
    <2>2. CASE held = {}
      <3>1. NextCall(u) = CreateCall(u)
        BY <2>2, UploadKeyCalls DEF NextCall
      <3>2. /\ CreateCall(u).op = "create" /\ CreateCall(u).did = u.did
            /\ CreateCall(u).authority = u.authority /\ CreateCall(u).header = u.header
        BY DEF CreateCall
      <3> QED BY <2>2, <3>1, <3>2, UploadTyped DEF Takes, Refused
    <2>3. CASE held # {}
      <3> DEFINE b == CHOOSE b \in held : TRUE
      <3>1. b \in held
        BY <2>3
      <3>2. NextCall(u) = IF Len(b.key) < b.header.keyLen
                          THEN UploadKey(u)[Len(b.key) \div KeyChunkLen + 2]
                          ELSE Last(UploadKey(u))
        BY <2>3 DEF NextCall
      <3> HIDE DEF b
      <3>3. Last(UploadKey(u)) = Call(u, "finish")
        BY UploadKeyCalls DEF Last
      <3>4. Len(b.key) \in Nat /\ b.header.keyLen \in Nat /\ Len(b.key) <= b.header.keyLen
        BY <2>1, <3>1, HeldIsOwn, UploadTyped DEF Begins, Held, UploadInv, BuffersFilled, Filled
      <3> QED BY <2>1, <3>1, <3>2, <3>3, <3>4, WriteIsTaken, FinishIsTaken
    <2> QED BY <2>2, <2>3
  <1> QED BY <1>1, ResumeInvariant, PTL

LEMMA ProgressStepHolds ==
  ASSUME ResumeInv, [UploadNext]_uploadVars
  PROVE  ProgressStep
  <1> SUFFICES ASSUME NEW u \in Upload, NEW b \in Held(u.did, u.authority), stage[u] = "running"
               PROVE  \/ Landed(u)'
                      \/ \E a \in Held(u.did, u.authority)' :
                           a.header = b.header /\ IsPrefix(b.key, a.key)
    BY DEF ProgressStep
  <1>1. /\ UploadInv /\ Active(u) /\ b \in buffers /\ b \in Filled
        /\ b.did = u.did /\ b.authority = u.authority
    BY DEF ResumeInv, UploadInv, BuffersFilled, Held, Active
  <1>2. ASSUME b \in buffers'
        PROVE  \E a \in Held(u.did, u.authority)' :
                 a.header = b.header /\ IsPrefix(b.key, a.key)
    <2>1. Len(b.key) \in Nat
      BY <1>1 DEF Filled
    <2> QED BY <1>1, <1>2, <2>1 DEF Held, IsPrefix
  <1>3. ASSUME NEW c, Deliver(c), b \notin buffers'
        PROVE  \/ Landed(u)'
               \/ \E a \in Held(u.did, u.authority)' :
                    a.header = b.header /\ IsPrefix(b.key, a.key)
    <2>1. PICK v \in Upload : Active(v) /\ c \in CallsOf(v)
      BY <1>1, <1>3 DEF UploadInv, Owned, Deliver
    <2>2. Landing(c) /\ c \in network /\ SameBuffer(c, v)
      BY <1>3, <2>1, CallOfUpload DEF Deliver
    <2>3. c.did = u.did /\ c.authority = u.authority /\ v = u /\ c.op # "create"
      <3>1. c.op # "create"
        BY <1>1, <1>3, <2>2 DEF Landing, CreateKeyBuffer
      <3>2. \E a \in Held(c.did, c.authority) :
              \A e \in buffers \ buffers' : e = a
        <4>1. CASE c.op = "write"
          BY <2>2, <4>1 DEF Landing, WriteKeyBuffer
        <4>2. CASE c.op = "finish" \/ c.op = "close"
          BY <2>2, <4>2 DEF Landing, AddVerificationMethodFromBuffer, CloseKeyBuffer
        <4> QED BY <2>2, <3>1, <4>1, <4>2 DEF Landing
      <3>3. b \in Held(c.did, c.authority)
        BY <1>1, <1>3, <3>2
      <3> QED BY <1>1, <2>1, <2>2, <3>1, <3>3 DEF Held, SameBuffer, UploadInv, OneActive
    <2>4. CASE c.op = "write"
      <3>1. PICK a \in Held(u.did, u.authority) :
              /\ a \in Filled /\ c.chunk \in Seq(Cell)
              /\ buffers' = (buffers \ {a}) \cup {[a EXCEPT !.key = @ \o c.chunk]}
        BY <1>1, <2>1, <2>2, <2>3, <2>4, WrittenBuffer
      <3> DEFINE new == [a EXCEPT !.key = @ \o c.chunk]
      <3>2. a = b
        BY <1>1, <1>3, <3>1
      <3>3. /\ new.did = b.did /\ new.authority = b.authority /\ new.header = b.header
            /\ IsPrefix(b.key, new.key)
        BY <3>1, <3>2, FilledLength
      <3> HIDE DEF new
      <3> QED BY <1>1, <3>1, <3>3 DEF Held, new
    <2>5. CASE c.op = "finish"
      BY <1>1, <2>1, <2>2, <2>3, <2>5, FinishedMethods DEF Landed
    <2>6. CASE c.op = "close"
      BY <2>2, <2>3, <2>6 DEF ResumeInv, ClosesMeant
    <2> QED BY <2>2, <2>3, <2>4, <2>5, <2>6 DEF Landing
  <1>4. ASSUME UNCHANGED buffers PROVE b \in buffers'
    BY <1>1, <1>4
  <1> QED BY <1>2, <1>3, <1>4
      DEF UploadNext, uploadVars, Start, Send, GiveUp, End, Expire, Meanwhile

\* What a running upload has written stays written until its method lands: no
\* create reaches an open buffer, and no close is under way to it.
THEOREM ProgressStays == UploadSpec => ProgressIsKept
  <1>1. ResumeInv /\ [UploadNext]_uploadVars => [ProgressStep]_uploadVars
    BY ProgressStepHolds
  <1> QED BY <1>1, ResumeInvariant, PTL DEF UploadSpec, ProgressIsKept

-----------------------------------------------------------------------------
(* What is under way does what the program does, and what it takes can land *)

\* Whatever the network does, accounts and buffers change only as the
\* program's instructions change them: an upload adds no step of its own.
THEOREM UploadsTakeProgramSteps == UploadSpec => [][BufferNext]_bufferVars
  <1>1. ResumeInv /\ [UploadNext]_uploadVars => [BufferNext]_bufferVars
    BY UploadCallsProgram DEF ResumeInv
  <1> QED BY <1>1, ResumeInvariant, PTL DEF UploadSpec

\* The state that call c leaves, written out.
LandsAs(c) ==
  /\ UNCHANGED <<stage, network>>
  /\ \/ /\ c.op = "create"
        /\ buffers' = buffers \cup {[did |-> c.did, authority |-> c.authority,
                                    header |-> c.header, key |-> <<>>]}
        /\ UNCHANGED <<account, signedBy>>
     \/ /\ c.op = "write"
        /\ \E b \in Held(c.did, c.authority) :
             buffers' = (buffers \ {b}) \cup {[b EXCEPT !.key = @ \o c.chunk]}
        /\ UNCHANGED <<account, signedBy>>
     \/ /\ c.op = "finish"
        /\ \E b \in Held(c.did, c.authority) :
             /\ Update(c.did, c.authority, [account[c.did] EXCEPT !.vms = @ \cup {Staged(b)}])
             /\ buffers' = buffers \ {b}
     \/ /\ c.op = "close"
        /\ \E b \in Held(c.did, c.authority) : buffers' = buffers \ {b}
        /\ UNCHANGED <<account, signedBy>>

\* A call under way that the program's checks would pass can arrive: the state
\* that it leaves is one that a step Deliver(c) reaches.  So ResumeIsTaken says
\* of the call a running upload sends next that it is enabled.
THEOREM TakenCanLand ==
  ASSUME OneBufferPerAuthority, NEW c \in network, Takes(c), LandsAs(c)
  PROVE  Deliver(c)
  <1>1. \A a, b \in Held(c.did, c.authority) : a = b
    BY DEF Held, OneBufferPerAuthority
  <1>2. CASE c.op = "create"
    <2> DEFINE new == [did |-> c.did, authority |-> c.authority,
                       header |-> c.header, key |-> <<>>]
    <2>1. /\ Authorized(c.did, c.authority) /\ Held(c.did, c.authority) = {}
          /\ c.header \in BufferInput
          /\ CheckNewMethod(account[c.did], c.header, c.header.keyLen)
      BY <1>2 DEF Takes
    <2>2. buffers' = buffers \cup {new} /\ UNCHANGED <<account, signedBy>>
      BY <1>2 DEF LandsAs
    <2>3. CreateKeyBuffer(c.did, c.authority)
      BY <2>1, <2>2 DEF CreateKeyBuffer
    <2>4. new.header = c.header
      OBVIOUS
    <2> HIDE DEF new
    <2>5. \A b \in buffers' \ buffers : b.header = c.header
      BY <2>2, <2>4
    <2>6. Landing(c)
      BY <1>2, <2>3, <2>5 DEF Landing
    <2> QED BY <2>6 DEF Deliver, LandsAs
  <1>3. CASE c.op = "write"
    <2>1. PICK b \in Held(c.did, c.authority) :
            Accepts(b, c) /\ Len(b.key) + Len(c.chunk) <= b.header.keyLen
      BY <1>3 DEF Takes
    <2> DEFINE new == [b EXCEPT !.key = @ \o c.chunk]
    <2>2. buffers' = (buffers \ {b}) \cup {new} /\ UNCHANGED <<account, signedBy>>
      BY <1>1, <1>3 DEF LandsAs
    <2>3. c.chunk \in ChunkInput /\ c.chunk # <<>>
      BY <1>3 DEF Takes
    <2>4. WriteKeyBuffer(c.did, c.authority)
      BY <2>1, <2>2, <2>3 DEF WriteKeyBuffer
    <2>5. new \in buffers'
      BY <2>2
    <2>6. Landing(c)
      BY <1>3, <2>1, <2>4, <2>5 DEF Landing
    <2> QED BY <2>6 DEF Deliver, LandsAs
  <1>4. CASE c.op = "finish"
    <2>1. PICK b \in Held(c.did, c.authority) :
            /\ Len(b.key) = b.header.keyLen
            /\ CheckNewMethod(account[c.did], Staged(b), Len(b.key))
            /\ CheckNewKey(Staged(b), b.key, c.authority)
      BY <1>4 DEF Takes
    <2>2. /\ Update(c.did, c.authority, [account[c.did] EXCEPT !.vms = @ \cup {Staged(b)}])
          /\ buffers' = buffers \ {b}
      BY <1>1, <1>4 DEF LandsAs
    <2>3. Staged(b).key = b.key
      BY DEF Staged
    <2>4. InsertVm(c.did, c.authority, Staged(b))
      BY <2>1, <2>2, <2>3 DEF InsertVm
    <2>5. AddVerificationMethodFromBuffer(c.did, c.authority)
      BY <1>4, <2>1, <2>2, <2>4 DEF AddVerificationMethodFromBuffer, Takes
    <2>6. Landing(c)
      BY <1>4, <2>5 DEF Landing
    <2> QED BY <2>6 DEF Deliver, LandsAs
  <1>5. CASE c.op = "close"
    <2>1. CloseKeyBuffer(c.did, c.authority)
      BY <1>5 DEF CloseKeyBuffer, LandsAs
    <2>2. Landing(c)
      BY <1>5, <2>1 DEF Landing
    <2> QED BY <2>2 DEF Deliver, LandsAs
  <1> QED BY <1>2, <1>3, <1>4, <1>5 DEF Takes

=============================================================================
