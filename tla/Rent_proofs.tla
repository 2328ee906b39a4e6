----------------------------- MODULE Rent_proofs -----------------------------
(***************************************************************************)
(* Rent, for any number of payers and accounts and machine words of any    *)
(* width.  Paying for accounts changes nothing that the registry does,     *)
(* lamports are conserved, and a closed key buffer leaves none behind      *)
(* (RentLedger); what the program asks for is what the runtime enforces,   *)
(* or it fails (RentSysvar).                                               *)
(***************************************************************************)
EXTENDS RentLedger, RentSysvar, Registry_proofs, FiniteSums

LEMMA RentIsBuffers ==
  ASSUME [RentNext]_rentVars
  PROVE  [BufferNext]_bufferVars
  <1>1. ASSUME NEW s \in Subject, NEW p, RentInitialize(s, p)
        PROVE  BufferNext
    BY <1>1 DEF RentInitialize, BufferNext, Next
  <1>2. ASSUME NEW k \in Signer, NEW n \in Nonce, NEW p, RentInitializeOwned(k, n, p)
        PROVE  BufferNext
    BY <1>2 DEF RentInitializeOwned, BufferNext, Next
  <1>3. ASSUME NEW s \in Subject, NEW k \in Signer, NEW p, RentResize(s, k, p)
        PROVE  BufferNext
    BY <1>3 DEF RentResize, BufferNext, Next
  <1>4. ASSUME NEW s \in Subject, NEW k \in Signer, NEW p, RentReplace(s, k, p)
        PROVE  BufferNext
    BY <1>4 DEF RentReplace, BufferNext, Next
  <1>5. ASSUME NEW s \in Subject, NEW k \in Signer, NEW p,
               \/ RentCreateKeyBuffer(s, k, p)
               \/ RentAddFromBuffer(s, k, p)
               \/ RentCloseKeyBuffer(s, k, p)
        PROVE  BufferNext
    BY <1>5 DEF RentCreateKeyBuffer, RentAddFromBuffer, RentCloseKeyBuffer, BufferNext
  <1>6. ASSUME NEW s \in Subject, NEW k \in Signer, WithoutPayer(s, k)
        PROVE  BufferNext
    BY <1>6 DEF WithoutPayer, BufferNext, Next
  <1>7. ASSUME NEW p, NEW a, Donate(p, a)
        PROVE  UNCHANGED bufferVars
    BY <1>7 DEF Donate, bufferVars
  <1>8. CASE SetRate
    BY <1>8 DEF SetRate, bufferVars
  <1>9. CASE UNCHANGED rentVars
    BY <1>9 DEF rentVars, bufferVars
  <1> QED BY <1>1, <1>2, <1>3, <1>4, <1>5, <1>6, <1>7, <1>8, <1>9 DEF RentNext

\* Whoever pays, whatever is sent to an address and whatever the rent, an
\* instruction does to documents and buffers what KeyBuffers says, or fails.
THEOREM RentChangesNothing == RentSpec => BufferSpec
  <1>1. RentInit => BufferInit
    BY DEF RentInit
  <1>2. [RentNext]_rentVars => [BufferNext]_bufferVars
    BY RentIsBuffers
  <1> QED BY <1>1, <1>2, PTL DEF RentSpec, BufferSpec

\* So whatever is paid, sent or charged, and whatever is uploaded meanwhile,
\* every promise of the registry is kept.
THEOREM PaidAccountsKeepPromises == RentSpec => []DocumentPromises /\ ChangePromises
  BY RentChangesNothing, UploadsAddNothing, PromisesKept DEF UploadIsAnAdd

-----------------------------------------------------------------------------
(* Addresses *)

LEMMA AddressesDiffer ==
  /\ PayerAddress \cap DidAddress = {}
  /\ PayerAddress \cap BufferAddress = {}
  /\ DidAddress \cap BufferAddress = {}
  BY DEF PayerAddress, DidAddress, BufferAddress, PayerAt, DidAt, BufferAt

LEMMA PayersCounted ==
  IsFiniteSet(PayerAddress) /\ Cardinality(PayerAddress) = Cardinality(Payer)
  <1> DEFINE f == [p \in Payer |-> PayerAt(p)]
  <1>1. f \in Surjection(Payer, PayerAddress)
    BY DEF Surjection, PayerAddress
  <1>2. f \in Injection(Payer, PayerAddress)
    BY DEF Injection, IsInjective, PayerAddress, PayerAt
  <1> HIDE DEF f
  <1> QED BY <1>1, <1>2, FS_Surjection, RentAssumption

LEMMA AddressesFinite == IsFiniteSet(Address)
  <1>1. IsFiniteSet(DidAddress)
    <2> DEFINE f == [s \in Subject |-> DidAt(s)]
    <2>1. f \in Surjection(Subject, DidAddress)
      BY DEF Surjection, DidAddress
    <2> HIDE DEF f
    <2> QED BY <2>1, FS_Surjection, RentAssumption
  <1>2. IsFiniteSet(BufferAddress)
    <2> DEFINE f == [sk \in Subject \X Signer |-> BufferAt(sk[1], sk[2])]
    <2>1. f \in Surjection(Subject \X Signer, BufferAddress)
      <3>1. \A s \in Subject, k \in Signer :
              <<s, k>> \in Subject \X Signer /\ f[<<s, k>>] = BufferAt(s, k)
        OBVIOUS
      <3>2. f \in [Subject \X Signer -> BufferAddress]
        BY DEF BufferAddress
      <3> HIDE DEF f
      <3>3. ASSUME NEW b \in BufferAddress
            PROVE  \E sk \in Subject \X Signer : f[sk] = b
        <4>1. PICK s \in Subject, k \in Signer : b = BufferAt(s, k)
          BY DEF BufferAddress
        <4> QED BY <3>1, <4>1
      <3> QED BY <3>2, <3>3 DEF Surjection
    <2>2. IsFiniteSet(Subject \X Signer)
      BY FS_Product, RentAssumption
    <2> HIDE DEF f
    <2> QED BY <2>1, <2>2, FS_Surjection
  <1> QED BY <1>1, <1>2, PayersCounted, FS_Union DEF Address

-----------------------------------------------------------------------------
(* A ledger, and what the rent plumbing does to it *)

\* Every address has a balance, and they add up to all the money there is.
Balanced(l) ==
  /\ l \in [Address -> Nat]
  /\ Sum(l, Address) = Cardinality(Payer) * Wealth

LEMMA BalancedAtFirst ==
  RentInit => Balanced(lamports)
  <1> SUFFICES ASSUME RentInit PROVE Balanced(lamports)
    OBVIOUS
  <1>1. lamports = [a \in Address |-> IF a \in PayerAddress THEN Wealth ELSE 0]
    BY DEF RentInit
  <1>2. Wealth \in Nat
    BY RentAssumption
  <1>3. Sum(lamports, Address) = Cardinality(Address \cap PayerAddress) * Wealth
    <2> DEFINE l == lamports
               S == Address
               T == PayerAddress
               w == Wealth
    <2>1. /\ \A a \in S : (a \in T => l[a] = w) /\ (a \notin T => l[a] = 0)
          /\ w \in Nat /\ IsFiniteSet(S)
      BY <1>1, <1>2, AddressesFinite
    <2> HIDE DEF l, S, T, w
    <2>2. Sum(l, S) = Cardinality(S \cap T) * w
      BY <2>1, SumConstant
    <2> QED BY <2>2 DEF l, S, T, w
  <1>4. Address \cap PayerAddress = PayerAddress
    BY DEF Address
  <1> QED BY <1>1, <1>2, <1>3, <1>4, PayersCounted DEF Balanced

\* What moves between two addresses stays.
LEMMA MovedBalanced ==
  ASSUME NEW l, Balanced(l), NEW g \in [Address -> Nat],
         NEW a \in Address, NEW b \in Address \ {a},
         \A c \in Address \ {a, b} : g[c] = l[c],
         g[a] + g[b] = l[a] + l[b]
  PROVE  Balanced(g)
  <1>1. l \in [Address -> Int] /\ g \in [Address -> Int]
    BY DEF Balanced
  <1>2. Sum(g, Address) = Sum(l, Address)
    BY <1>1, AddressesFinite, SumMoved
  <1> QED BY <1>2 DEF Balanced

LEMMA FundBalanced ==
  ASSUME Balanced(lamports), NEW a \in Address, NEW p \in Address \ {a},
         NEW len, RentMinimum(len) \in Nat, Fund(a, p, len)
  PROVE  /\ Balanced(lamports')
         /\ lamports'[a] >= RentMinimum(len)
  <1> DEFINE deficit == Deficit(lamports, a, len)
             l == [lamports EXCEPT ![a] = @ + deficit, ![p] = @ - deficit]
  <1>0. lamports \in [Address -> Nat]
    BY DEF Balanced
  <1>1. /\ deficit \in Nat /\ lamports[a] + deficit >= RentMinimum(len)
        /\ lamports[p] >= deficit
    BY <1>0 DEF Deficit, Fund
  <1>2. lamports' = l
    BY DEF Fund
  <1> HIDE DEF deficit
  <1>3. /\ l \in [Address -> Nat] /\ l[a] = lamports[a] + deficit
        /\ l[p] = lamports[p] - deficit
        /\ \A c \in Address \ {a, p} : l[c] = lamports[c]
    BY <1>0, <1>1
  <1> HIDE DEF l
  <1>4. l[a] + l[p] = lamports[a] + lamports[p]
    BY <1>0, <1>1, <1>3
  <1>5. Balanced(l)
    BY <1>3, <1>4, MovedBalanced
  <1> QED BY <1>1, <1>2, <1>3, <1>5

LEMMA SettledBalanced ==
  ASSUME NEW l, Balanced(l), NEW a \in Address, NEW p \in Address \ {a},
         NEW len, RentMinimum(len) \in Nat, CanSettle(l, a, p, len)
  PROVE  /\ Balanced(Settled(l, a, p, len))
         /\ Settled(l, a, p, len)[a] = RentMinimum(len)
  <1> DEFINE min == RentMinimum(len)
             g == [l EXCEPT ![a] = min, ![p] = @ + l[a] - min]
  <1>0. l \in [Address -> Nat]
    BY DEF Balanced
  <1>1. l[p] + l[a] - min \in Nat
    BY <1>0 DEF CanSettle, Deficit
  <1>2. Settled(l, a, p, len) = g
    BY DEF Settled
  <1> HIDE DEF min
  <1>3. /\ g \in [Address -> Nat] /\ g[a] = min /\ g[p] = l[p] + l[a] - min
        /\ \A c \in Address \ {a, p} : g[c] = l[c]
    BY <1>0, <1>1 DEF min
  <1> HIDE DEF g
  <1>4. g[a] + g[p] = l[a] + l[p]
    BY <1>0, <1>3 DEF min
  <1>5. Balanced(g)
    BY <1>3, <1>4, MovedBalanced
  <1> QED BY <1>2, <1>3, <1>5 DEF min

LEMMA ClosedBalanced ==
  ASSUME NEW l, Balanced(l), NEW b \in Address, NEW p \in Address \ {b}, NEW len
  PROVE  /\ Balanced(ClosedTo(l, b, p, len))
         /\ ClosedTo(l, b, p, len)[b] = 0
         /\ \A c \in Address \ {b, p} : ClosedTo(l, b, p, len)[c] = l[c]
  <1> DEFINE g == ClosedTo(l, b, p, len)
  <1>0. l \in [Address -> Nat]
    BY DEF Balanced
  <1>1. /\ g \in [Address -> Nat] /\ g[b] = 0 /\ g[p] = l[p] + l[b]
        /\ \A c \in Address \ {b, p} : g[c] = l[c]
    BY <1>0 DEF ClosedTo
  <1> HIDE DEF g
  <1>2. g[b] + g[p] = l[b] + l[p]
    BY <1>0, <1>1
  <1>3. Balanced(g)
    BY <1>1, <1>2, MovedBalanced
  <1> QED BY <1>1, <1>3 DEF g

-----------------------------------------------------------------------------
(* Sizes.  RentLedger adds up the spaces of entries with MapThenSumSet;    *)
(* each such sum is the Sum of a function.                                 *)

VmSizes == [m \in Method |-> VmSpace(m)]
ServiceSizes == [v \in Service |-> ServiceSpace(v)]
ExternalSizes == [c \in External |-> ExternalSpace(c)]
BufferSizes == [b \in Filled |-> BufferSpace(b)]

LEMMA VmSum ==
  ASSUME NEW S \in SUBSET Method, IsFiniteSet(S)
  PROVE  MapThenSumSet(VmSpace, S) = Sum(VmSizes, S)
  <1> DEFINE Step(iter) == [s \in SUBSET S |-> IF s = {} THEN 0
                              ELSE VmSpace(Pick(s)) + iter[s \ {Pick(s)}]]
             h == CHOOSE iter : iter = Step(iter)
  <1>1. MapThenSumSet(VmSpace, S) = h[S]
    BY DEF MapThenSumSet, MapThenFoldSet, Pick
  <1>2. ASSUME NEW iter
        PROVE  Step(iter) = SumStep(VmSizes, S, iter)
    <2>1. \A s \in SUBSET S : s # {} => VmSizes[Pick(s)] = VmSpace(Pick(s))
      BY PickIn DEF VmSizes
    <2> QED BY <2>1 DEF SumStep
  <1>3. h = Step(h)
    <2>1. Sums(VmSizes, S) = Step(Sums(VmSizes, S))
      BY <1>2, SumsSolve
    <2> QED BY <2>1
  <1> HIDE DEF h
  <1>4. h = SumStep(VmSizes, S, h)
    BY <1>2, <1>3
  <1> QED BY <1>1, <1>4, SumsSolution

LEMMA ServiceSum ==
  ASSUME NEW S \in SUBSET Service, IsFiniteSet(S)
  PROVE  MapThenSumSet(ServiceSpace, S) = Sum(ServiceSizes, S)
  <1> DEFINE Step(iter) == [s \in SUBSET S |-> IF s = {} THEN 0
                              ELSE ServiceSpace(Pick(s)) + iter[s \ {Pick(s)}]]
             h == CHOOSE iter : iter = Step(iter)
  <1>1. MapThenSumSet(ServiceSpace, S) = h[S]
    BY DEF MapThenSumSet, MapThenFoldSet, Pick
  <1>2. ASSUME NEW iter
        PROVE  Step(iter) = SumStep(ServiceSizes, S, iter)
    <2>1. \A s \in SUBSET S : s # {} => ServiceSizes[Pick(s)] = ServiceSpace(Pick(s))
      BY PickIn DEF ServiceSizes
    <2> QED BY <2>1 DEF SumStep
  <1>3. h = Step(h)
    <2>1. Sums(ServiceSizes, S) = Step(Sums(ServiceSizes, S))
      BY <1>2, SumsSolve
    <2> QED BY <2>1
  <1> HIDE DEF h
  <1>4. h = SumStep(ServiceSizes, S, h)
    BY <1>2, <1>3
  <1> QED BY <1>1, <1>4, SumsSolution

LEMMA ExternalSum ==
  ASSUME NEW S \in SUBSET External, IsFiniteSet(S)
  PROVE  MapThenSumSet(ExternalSpace, S) = Sum(ExternalSizes, S)
  <1> DEFINE Step(iter) == [s \in SUBSET S |-> IF s = {} THEN 0
                              ELSE ExternalSpace(Pick(s)) + iter[s \ {Pick(s)}]]
             h == CHOOSE iter : iter = Step(iter)
  <1>1. MapThenSumSet(ExternalSpace, S) = h[S]
    BY DEF MapThenSumSet, MapThenFoldSet, Pick
  <1>2. ASSUME NEW iter
        PROVE  Step(iter) = SumStep(ExternalSizes, S, iter)
    <2>1. \A s \in SUBSET S : s # {} => ExternalSizes[Pick(s)] = ExternalSpace(Pick(s))
      BY PickIn DEF ExternalSizes
    <2> QED BY <2>1 DEF SumStep
  <1>3. h = Step(h)
    <2>1. Sums(ExternalSizes, S) = Step(Sums(ExternalSizes, S))
      BY <1>2, SumsSolve
    <2> QED BY <2>1
  <1> HIDE DEF h
  <1>4. h = SumStep(ExternalSizes, S, h)
    BY <1>2, <1>3
  <1> QED BY <1>1, <1>4, SumsSolution

LEMMA BufferSum ==
  ASSUME NEW S \in SUBSET Filled, IsFiniteSet(S)
  PROVE  MapThenSumSet(BufferSpace, S) = Sum(BufferSizes, S)
  <1> DEFINE Step(iter) == [s \in SUBSET S |-> IF s = {} THEN 0
                              ELSE BufferSpace(Pick(s)) + iter[s \ {Pick(s)}]]
             h == CHOOSE iter : iter = Step(iter)
  <1>1. MapThenSumSet(BufferSpace, S) = h[S]
    BY DEF MapThenSumSet, MapThenFoldSet, Pick
  <1>2. ASSUME NEW iter
        PROVE  Step(iter) = SumStep(BufferSizes, S, iter)
    <2>1. \A s \in SUBSET S : s # {} => BufferSizes[Pick(s)] = BufferSpace(Pick(s))
      BY PickIn DEF BufferSizes
    <2> QED BY <2>1 DEF SumStep
  <1>3. h = Step(h)
    <2>1. Sums(BufferSizes, S) = Step(Sums(BufferSizes, S))
      BY <1>2, SumsSolve
    <2> QED BY <2>1
  <1> HIDE DEF h
  <1>4. h = SumStep(BufferSizes, S, h)
    BY <1>2, <1>3
  <1> QED BY <1>1, <1>4, SumsSolution

LEMMA SizesAreNumbers ==
  /\ \A m \in Method : VmSizes[m] \in Nat
  /\ \A v \in Service : ServiceSizes[v] \in Nat
  /\ \A c \in External : ExternalSizes[c] \in Nat
  /\ \A b \in Filled : BufferSizes[b] \in Nat
  <1>1. ASSUME NEW m \in Method
        PROVE  VmSizes[m] \in Nat
    <2>1. m.fragment \in Fragment /\ m.key \in Seq(Cell)
      BY DEF Method, Material
    <2>2. FragmentLen[m.fragment] \in Nat
      BY <2>1, RentAssumption
    <2>3. Len(m.key) \in Nat
      BY <2>1
    <2>4. VmSizes[m] = 4 + FragmentLen[m.fragment] + 1 + 2 + 4 + Len(m.key)
      BY DEF VmSizes, VmSpace
    <2> QED BY <2>2, <2>3, <2>4
  <1>2. ASSUME NEW v \in Service
        PROVE  ServiceSizes[v] \in Nat
    <2>1. FragmentLen[v.fragment] \in Nat /\ ValueLen[v.value] \in Nat
      BY RentAssumption DEF Service
    <2> QED BY <2>1 DEF ServiceSizes, ServiceSpace
  <1>3. ASSUME NEW c \in External
        PROVE  ExternalSizes[c] \in Nat
    <2>1. ExternalLen[c] \in Nat
      BY RentAssumption
    <2> QED BY <2>1 DEF ExternalSizes, ExternalSpace
  <1>4. ASSUME NEW b \in Filled
        PROVE  BufferSizes[b] \in Nat
    <2>1. b.header.keyLen \in Nat
      BY BufferAssumption DEF Filled, Header
    <2> QED BY <2>1 DEF BufferSizes, BufferSpace, KeyBufferHeader
  <1> QED BY <1>1, <1>2, <1>3, <1>4

LEMMA SpaceIsNumber ==
  ASSUME NEW d \in Document, CountsHold(d)
  PROVE  Space(d) \in Nat
  <1>1. MapThenSumSet(VmSpace, d.vms) \in Nat
    <2>1. d.vms \in SUBSET Method /\ IsFiniteSet(d.vms)
      BY DEF Document, CountsHold
    <2>2. \A m \in d.vms : VmSizes[m] \in Nat
      BY <2>1, SizesAreNumbers
    <2>3. Sum(VmSizes, d.vms) \in Nat
      BY <2>1, <2>2, SumType
    <2> QED BY <2>1, <2>3, VmSum
  <1>2. MapThenSumSet(ServiceSpace, d.services) \in Nat
    <2>1. d.services \in SUBSET Service /\ IsFiniteSet(d.services)
      BY DEF Document, CountsHold
    <2>2. \A v \in d.services : ServiceSizes[v] \in Nat
      BY <2>1, SizesAreNumbers
    <2>3. Sum(ServiceSizes, d.services) \in Nat
      BY <2>1, <2>2, SumType
    <2> QED BY <2>1, <2>3, ServiceSum
  <1>3. MapThenSumSet(ExternalSpace, Range(d.others)) \in Nat
    <2> DEFINE R == Range(d.others)
    <2>1. R \in SUBSET External
      BY DEF Document, Range
    <2>2. IsFiniteSet(R)
      <3> DEFINE f == d.others
      <3>1. f \in Seq(External)
        BY DEF Document
      <3>2. IsFiniteSet(1..Len(f))
        BY <3>1, FS_Interval
      <3>3. R = {f[i] : i \in 1..Len(f)} /\ f \in [1..Len(f) -> R]
        BY <3>1 DEF Range
      <3> HIDE DEF R, f
      <3>4. f \in Surjection(1..Len(f), R)
        BY <3>3 DEF Surjection
      <3> QED BY <3>2, <3>4, FS_Surjection
    <2> HIDE DEF R
    <2>3. \A c \in R : ExternalSizes[c] \in Nat
      BY <2>1, SizesAreNumbers
    <2>4. Sum(ExternalSizes, R) \in Nat
      BY <2>2, <2>3, SumType
    <2>5. MapThenSumSet(ExternalSpace, R) \in Nat
      BY <2>1, <2>2, <2>4, ExternalSum
    <2> QED BY <2>5 DEF R
  <1>4. Len(d.natives) \in Nat
    BY DEF Document
  <1> QED BY <1>1, <1>2, <1>3, <1>4 DEF Space, BaseSpace

\* The flags of a method take the room they take, so an account need not be
\* resized when they change (set_verification_method_flags).
LEMMA ReflagKeepsSpace ==
  ASSUME NEW d \in Document, CountsHold(d), NamesUnique(d),
         NEW m \in d.vms, NEW flags \in SUBSET Flag
  PROVE  Space(Touch([d EXCEPT !.vms = (@ \ {m}) \cup {[m EXCEPT !.flags = flags]}])) = Space(d)
  <1> DEFINE changed == [m EXCEPT !.flags = flags]
             methods == (d.vms \ {m}) \cup {changed}
             e == [d EXCEPT !.vms = methods]
  <1>1. /\ d.vms \in SUBSET Method /\ IsFiniteSet(d.vms) /\ m \in Method
        /\ \A a, b \in d.vms : a.fragment = b.fragment => a = b
    BY DEF Document, CountsHold, NamesUnique
  <1>2. /\ changed \in Method /\ changed.fragment = m.fragment /\ changed.key = m.key
    BY <1>1, ReflaggedTyped DEF Method
  <1> HIDE DEF changed
  <1>3. VmSizes[changed] = VmSizes[m]
    BY <1>1, <1>2 DEF VmSizes, VmSpace
  <1>4. changed \notin d.vms \ {m}
    BY <1>1, <1>2
  <1>5. /\ methods \in SUBSET Method /\ IsFiniteSet(methods)
    <2>1. IsFiniteSet(d.vms \ {m})
      BY <1>1, FS_RemoveElement
    <2> QED BY <1>1, <1>2, <2>1, FS_AddElement
  <1>6. Sum(VmSizes, methods) = Sum(VmSizes, d.vms)
    <2>1. \A z \in d.vms : VmSizes[z] \in Int
      BY <1>1, SizesAreNumbers
    <2> QED BY <1>1, <1>3, <1>4, <2>1, SumReplaced
  <1> HIDE DEF methods
  <1>7. e \in Document /\ e.vms = methods /\ e.services = d.services
        /\ e.natives = d.natives /\ e.others = d.others /\ e.state = d.state
    BY <1>5 DEF Document
  <1> HIDE DEF e
  <1>8. MapThenSumSet(VmSpace, methods) = MapThenSumSet(VmSpace, d.vms)
    BY <1>1, <1>5, <1>6, VmSum
  <1>9. Space(Touch(e)) = Space(d)
    BY <1>7, <1>8, TouchKeeps DEF Space
  <1> QED BY <1>9 DEF e, methods, changed

-----------------------------------------------------------------------------
(* The invariant *)

RentInv ==
  /\ TypeOK
  /\ DocumentsWellFormed
  /\ BuffersFilled
  /\ OneBufferPerAuthority
  /\ rate \in Rate

LEMMA RentInvStep ==
  ASSUME RentInv, [RentNext]_rentVars
  PROVE  RentInv'
  <1>1. [BufferNext]_bufferVars
    BY RentIsBuffers
  <1>2. [Next]_vars
    BY <1>1, UploadStep DEF RentInv
  <1>3. TypeOK' /\ DocumentsWellFormed'
    BY <1>2, TypeStep, WellFormedStep DEF RentInv
  <1>4. BuffersFilled' /\ OneBufferPerAuthority'
    BY <1>1, FilledStep, OneBufferStep DEF RentInv
  <1>5. rate' \in Rate
    BY DEF RentInv, RentNext, SetRate, rentVars
  <1> QED BY <1>3, <1>4, <1>5 DEF RentInv

LEMMA RentInvAtFirst == RentInit => RentInv
  <1>1. BufferInit => BuffersFilled /\ OneBufferPerAuthority
    BY DEF BufferInit, BuffersFilled, OneBufferPerAuthority
  <1>2. Init => TypeOK /\ DocumentsWellFormed
    BY TypeInit, WellFormedAtFirst
  <1> QED BY <1>1, <1>2 DEF RentInit, BufferInit, RentInv

LEMMA MinimumIsNumber ==
  ASSUME NEW len \in Nat, NEW r \in Nat
  PROVE  (128 + len) * r \in Nat
  OBVIOUS

\* What the accounts of this step and of the next take is a number of bytes.
LEMMA RentsAreNumbers ==
  ASSUME RentInv, RentInv'
  PROVE  /\ rate \in Nat /\ rate' \in Nat
         /\ \A s \in Subject : /\ DidSpace(s) \in Nat /\ NewSpace(s) \in Nat
                               /\ RentMinimum(NewSpace(s)) \in Nat
         /\ \A b \in buffers \cup buffers' : /\ BufferSpace(b) \in Nat
                                             /\ RentMinimum(BufferSpace(b)) \in Nat
  <1>1. rate \in Nat /\ rate' \in Nat
    BY RentAssumption DEF RentInv
  <1>2. ASSUME NEW s \in Subject
        PROVE  DidSpace(s) \in Nat /\ NewSpace(s) \in Nat
    <2>1. /\ account[s] \in Document /\ account'[s] \in Document
          /\ CountsHold(account[s]) /\ CountsHold(account'[s])
      BY DEF RentInv, TypeOK, DocumentsWellFormed, WellFormed, CountsHold
    <2> QED BY <2>1, SpaceIsNumber DEF DidSpace, NewSpace
  <1>3. ASSUME NEW b \in buffers \cup buffers'
        PROVE  BufferSpace(b) \in Nat
    BY SizesAreNumbers DEF RentInv, BuffersFilled, BufferSizes
  <1> QED BY <1>1, <1>2, <1>3, MinimumIsNumber DEF RentMinimum

-----------------------------------------------------------------------------
(* Steps *)

\* An instruction writes the account it names.
LEMMA OthersStay ==
  ASSUME RentInv, NEW s \in Subject, NEW k \in Signer,
         \/ Initialize(s)
         \/ \E n \in Nonce : s = OwnedSubject(k, n) /\ InitializeOwned(k, n)
         \/ AddVerificationMethod(s, k)
         \/ RemoveVerificationMethod(s, k)
         \/ SetVerificationMethodFlags(s, k)
         \/ AddService(s, k)
         \/ UpdateService(s, k)
         \/ RemoveService(s, k)
         \/ SetControllers(s, k)
         \/ Deactivate(s, k)
         \/ AddVerificationMethodFromBuffer(s, k)
  PROVE  \A t \in Subject \ {s} : account'[t] = account[t]
  <1>1. PICK d : account' = [account EXCEPT ![s] = d]
    BY DEF Initialize, InitializeOwned, Create, AddVerificationMethod, InsertVm, Update,
           RemoveVerificationMethod, SetVerificationMethodFlags, AddService, UpdateService,
           RemoveService, SetControllers, Deactivate, AddVerificationMethodFromBuffer
  <1> QED BY <1>1 DEF RentInv, TypeOK

\* A DID account that gets a new length is paid for: exempt if it is new, and
\* settled to the minimum otherwise.
DidPaid(s) ==
  NewSpace(s) # DidSpace(s) =>
    /\ rate' = rate
    /\ lamports'[DidAt(s)] >= RentMinimum(NewSpace(s))
    /\ account[s].state # "absent" => lamports'[DidAt(s)] = RentMinimum(NewSpace(s))

LEMMA FundedDid ==
  ASSUME RentInv, RentInv', Balanced(lamports), NEW p \in PayerAddress,
         NEW s \in Subject, account[s].state = "absent",
         \A t \in Subject \ {s} : account'[t] = account[t],
         Fund(DidAt(s), p, NewSpace(s)), UNCHANGED rate
  PROVE  Balanced(lamports') /\ \A t \in Subject : DidPaid(t)
  <1>1. DidAt(s) \in Address /\ p \in Address \ {DidAt(s)}
    BY AddressesDiffer DEF Address, DidAddress
  <1>2. RentMinimum(NewSpace(s)) \in Nat
    BY RentsAreNumbers
  <1>3. Balanced(lamports') /\ lamports'[DidAt(s)] >= RentMinimum(NewSpace(s))
    BY <1>1, <1>2, FundBalanced
  <1> QED BY <1>3 DEF DidPaid, NewSpace, DidSpace

LEMMA SettledDid ==
  ASSUME RentInv, RentInv', Balanced(lamports), NEW p \in PayerAddress, NEW s \in Subject,
         \A t \in Subject \ {s} : account'[t] = account[t],
         CanSettle(lamports, DidAt(s), p, NewSpace(s)),
         Balanced(Settled(lamports, DidAt(s), p, NewSpace(s))) =>
           /\ Balanced(lamports')
           /\ lamports'[DidAt(s)] = Settled(lamports, DidAt(s), p, NewSpace(s))[DidAt(s)],
         UNCHANGED rate
  PROVE  Balanced(lamports') /\ \A t \in Subject : DidPaid(t)
  <1>1. DidAt(s) \in Address /\ p \in Address \ {DidAt(s)}
    BY AddressesDiffer DEF Address, DidAddress
  <1>2. RentMinimum(NewSpace(s)) \in Nat
    BY RentsAreNumbers
  <1>3. /\ Balanced(Settled(lamports, DidAt(s), p, NewSpace(s)))
        /\ Settled(lamports, DidAt(s), p, NewSpace(s))[DidAt(s)] = RentMinimum(NewSpace(s))
    BY <1>1, <1>2, SettledBalanced
  <1>4. Balanced(lamports') /\ lamports'[DidAt(s)] = RentMinimum(NewSpace(s))
    BY <1>3
  <1> QED BY <1>2, <1>4 DEF DidPaid, NewSpace, DidSpace

\* An instruction that changes no account's length moves no more than one
\* transfer.
LEMMA SameLengths ==
  ASSUME \A t \in Subject : NewSpace(t) = DidSpace(t)
  PROVE  \A t \in Subject : DidPaid(t)
  BY DEF DidPaid

LEMMA FlagsKeepLength ==
  ASSUME RentInv, NEW s \in Subject, NEW k \in Signer, SetVerificationMethodFlags(s, k)
  PROVE  \A t \in Subject : NewSpace(t) = DidSpace(t)
  <1> DEFINE Reflagged(m, flags) ==
        [account[s] EXCEPT !.vms = (@ \ {m}) \cup {[m EXCEPT !.flags = flags]}]
  <1>1. PICK m \in account[s].vms, flags \in SUBSET Flag :
          account' = [account EXCEPT ![s] = Touch(Reflagged(m, flags))]
    BY RegistryAssumption DEF SetVerificationMethodFlags, Update
  <1>2. /\ account[s] \in Document /\ CountsHold(account[s]) /\ NamesUnique(account[s])
        /\ account \in [Subject -> Document]
    BY DEF RentInv, TypeOK, DocumentsWellFormed, WellFormed, CountsHold
  <1>3. Space(Touch(Reflagged(m, flags))) = Space(account[s])
    BY <1>2, ReflagKeepsSpace
  <1> HIDE DEF Reflagged
  <1>4. account'[s] = Touch(Reflagged(m, flags))
    BY <1>1, <1>2
  <1>5. \A t \in Subject \ {s} : account'[t] = account[t]
    BY <1>1, <1>2
  <1> QED BY <1>3, <1>4, <1>5 DEF NewSpace, DidSpace

LEMMA StepPays ==
  ASSUME RentInv, RentInv', Balanced(lamports), [RentNext]_rentVars
  PROVE  Balanced(lamports') /\ \A t \in Subject : DidPaid(t)
  <1> DEFINE Pays == Balanced(lamports') /\ \A t \in Subject : DidPaid(t)
  <1>0. UNCHANGED account => \A t \in Subject : NewSpace(t) = DidSpace(t)
    BY DEF NewSpace, DidSpace
  <1>1. ASSUME NEW s \in Subject, NEW p \in PayerAddress, RentInitialize(s, p), UNCHANGED rate
        PROVE  Pays
    <2>1. /\ account[s].state = "absent" /\ Fund(DidAt(s), p, NewSpace(s)) /\ Initialize(s)
      BY <1>1 DEF RentInitialize, Initialize, Create
    <2>2. \A t \in Subject \ {s} : account'[t] = account[t]
      BY <2>1 DEF Initialize, Create, RentInv, TypeOK
    <2> QED BY <1>1, <2>1, <2>2, FundedDid
  <1>2. ASSUME NEW k \in Signer, NEW n \in Nonce, NEW p \in PayerAddress,
               RentInitializeOwned(k, n, p), UNCHANGED rate
        PROVE  Pays
    <2> DEFINE s == OwnedSubject(k, n)
    <2>1. /\ s \in Subject /\ account[s].state = "absent"
          /\ Fund(DidAt(s), p, NewSpace(s)) /\ InitializeOwned(k, n)
      BY <1>2 DEF RentInitializeOwned, InitializeOwned, Create
    <2>2. \A t \in Subject \ {s} : account'[t] = account[t]
      BY <2>1, OthersStay
    <2> HIDE DEF s
    <2> QED BY <1>2, <2>1, <2>2, FundedDid
  <1>3. ASSUME NEW s \in Subject, NEW k \in Signer, NEW p \in PayerAddress,
               RentResize(s, k, p) \/ RentReplace(s, k, p), UNCHANGED rate
        PROVE  Pays
    <2>1. \A t \in Subject \ {s} : account'[t] = account[t]
      BY <1>3, OthersStay DEF RentResize, RentReplace
    <2>2. CASE Settle(DidAt(s), p, NewSpace(s))
      BY <1>3, <2>1, <2>2, SettledDid DEF Settle
    <2>3. CASE UNCHANGED lamports /\ NewSpace(s) = DidSpace(s)
      <3>1. \A t \in Subject : NewSpace(t) = DidSpace(t)
        BY <2>1, <2>3 DEF NewSpace, DidSpace
      <3> QED BY <2>3, <3>1, SameLengths
    <2> QED BY <1>3, <2>2, <2>3 DEF RentResize, RentReplace
  <1>4. ASSUME NEW s \in Subject, NEW k \in Signer, NEW p \in PayerAddress,
               RentCreateKeyBuffer(s, k, p)
        PROVE  Pays
    <2>1. PICK b \in buffers' : Fund(BufferAt(s, k), p, BufferSpace(b))
      BY <1>4 DEF RentCreateKeyBuffer
    <2>2. BufferAt(s, k) \in Address /\ p \in Address \ {BufferAt(s, k)}
      BY AddressesDiffer DEF Address, BufferAddress
    <2>3. Balanced(lamports')
      BY <2>1, <2>2, RentsAreNumbers, FundBalanced
    <2>4. UNCHANGED account
      BY <1>4 DEF RentCreateKeyBuffer, CreateKeyBuffer
    <2> QED BY <1>0, <2>3, <2>4, SameLengths
  <1>5. ASSUME NEW s \in Subject, NEW k \in Signer, NEW p \in PayerAddress,
               RentAddFromBuffer(s, k, p), UNCHANGED rate
        PROVE  Pays
    <2> DEFINE l == Settled(lamports, DidAt(s), p, NewSpace(s))
               b == BufferAt(s, k)
    <2>1. \A t \in Subject \ {s} : account'[t] = account[t]
      BY <1>5, OthersStay DEF RentAddFromBuffer
    <2>2. PICK len : lamports' = ClosedTo(l, b, p, len)
      BY <1>5 DEF RentAddFromBuffer
    <2>3. CanSettle(lamports, DidAt(s), p, NewSpace(s))
      BY <1>5 DEF RentAddFromBuffer
    <2>4. b \in Address /\ p \in Address \ {b} /\ DidAt(s) \in Address \ {b, p}
      BY AddressesDiffer DEF Address, BufferAddress, DidAddress
    <2> HIDE DEF b
    <2>5. Balanced(l) => Balanced(lamports') /\ lamports'[DidAt(s)] = l[DidAt(s)]
      <3> HIDE DEF l
      <3> QED BY <2>2, <2>4, ClosedBalanced
    <2> QED BY <1>5, <2>1, <2>3, <2>5, SettledDid
  <1>6. ASSUME NEW s \in Subject, NEW k \in Signer, NEW p \in PayerAddress,
               RentCloseKeyBuffer(s, k, p)
        PROVE  Pays
    <2>1. PICK len : lamports' = ClosedTo(lamports, BufferAt(s, k), p, len)
      BY <1>6 DEF RentCloseKeyBuffer
    <2>2. BufferAt(s, k) \in Address /\ p \in Address \ {BufferAt(s, k)}
      BY AddressesDiffer DEF Address, BufferAddress
    <2>3. Balanced(lamports')
      BY <2>1, <2>2, ClosedBalanced
    <2>4. UNCHANGED account
      BY <1>6 DEF RentCloseKeyBuffer, CloseKeyBuffer
    <2> QED BY <1>0, <2>3, <2>4, SameLengths
  <1>7. ASSUME NEW s \in Subject, NEW k \in Signer, WithoutPayer(s, k)
        PROVE  Pays
    <2>1. UNCHANGED lamports
      BY <1>7 DEF WithoutPayer
    <2>2. SetVerificationMethodFlags(s, k) \/ UNCHANGED account
      BY <1>7 DEF WithoutPayer, WriteKeyBuffer
    <2> QED BY <1>0, <2>1, <2>2, FlagsKeepLength, SameLengths
  <1>8. ASSUME NEW p \in PayerAddress, NEW a \in DidAddress \cup BufferAddress, Donate(p, a)
        PROVE  Pays
    <2>1. PICK gift \in Gift :
            /\ lamports[p] >= gift
            /\ lamports' = [lamports EXCEPT ![a] = @ + gift, ![p] = @ - gift]
      BY <1>8 DEF Donate
    <2>2. gift \in Nat /\ lamports \in [Address -> Nat]
      BY RentAssumption DEF Balanced
    <2>3. a \in Address /\ p \in Address \ {a}
      BY AddressesDiffer DEF Address
    <2> DEFINE g == [lamports EXCEPT ![a] = @ + gift, ![p] = @ - gift]
    <2>4. /\ g \in [Address -> Nat] /\ g[a] = lamports[a] + gift /\ g[p] = lamports[p] - gift
          /\ \A c \in Address \ {a, p} : g[c] = lamports[c]
      BY <2>1, <2>2, <2>3
    <2> HIDE DEF g
    <2>5. g[a] + g[p] = lamports[a] + lamports[p]
      BY <2>2, <2>3, <2>4
    <2>6. Balanced(g)
      BY <2>3, <2>4, <2>5, MovedBalanced
    <2>7. UNCHANGED account
      BY <1>8 DEF Donate
    <2> QED BY <1>0, <2>1, <2>6, <2>7, SameLengths DEF g
  <1>9. ASSUME SetRate \/ UNCHANGED rentVars
        PROVE  Pays
    BY <1>0, <1>9, SameLengths DEF SetRate, rentVars
  <1> HIDE DEF Pays
  <1>10. Pays
    BY <1>1, <1>2, <1>3, <1>4, <1>5, <1>6, <1>7, <1>8, <1>9 DEF RentNext
  <1> QED BY <1>10 DEF Pays

-----------------------------------------------------------------------------
(* Buffers *)

\* What lies at a buffer's address takes.
HeldSpace(s, k) == MapThenSumSet(BufferSpace, Held(s, k))

LEMMA HeldSpaceOf ==
  /\ MapThenSumSet(BufferSpace, {}) = 0
  /\ \A b \in Filled : MapThenSumSet(BufferSpace, {b}) = BufferSpace(b)
  <1>1. MapThenSumSet(BufferSpace, {}) = 0
    <2>1. {} \in SUBSET Filled /\ IsFiniteSet({})
      BY FS_EmptySet
    <2> QED BY <2>1, BufferSum, SumEmpty
  <1>2. ASSUME NEW b \in Filled
        PROVE  MapThenSumSet(BufferSpace, {b}) = BufferSpace(b)
    <2> DEFINE H == {b}
    <2>1. H \in SUBSET Filled /\ IsFiniteSet(H) /\ b \in H /\ H \ {b} = {}
      BY FS_Singleton
    <2>2. \A c \in H : BufferSizes[c] \in Int
      BY SizesAreNumbers
    <2> HIDE DEF H
    <2>3. Sum(BufferSizes, H) = BufferSizes[b] + Sum(BufferSizes, {})
      BY <2>1, <2>2, SumTaken
    <2>4. Sum(BufferSizes, H) = BufferSizes[b]
      BY <2>3, SumEmpty, SizesAreNumbers
    <2>5. MapThenSumSet(BufferSpace, H) = BufferSpace(b)
      BY <2>1, <2>4, BufferSum DEF BufferSizes
    <2> QED BY <2>5 DEF H
  <1> QED BY <1>1, <1>2

LEMMA BufferStepPays ==
  ASSUME RentInv, RentInv', Balanced(lamports), [RentNext]_rentVars,
         NEW s \in Subject, NEW k \in Signer,
         HeldSpace(s, k)' # HeldSpace(s, k), HeldSpace(s, k)' # 0
  PROVE  rate' = rate /\ lamports'[BufferAt(s, k)] >= RentMinimum(HeldSpace(s, k)')
  <1>1. Held(s, k)' # Held(s, k) /\ Held(s, k)' # {}
    BY HeldSpaceOf DEF HeldSpace
  <1>2. \A b, c \in Held(s, k) : b = c
    BY DEF RentInv, OneBufferPerAuthority, Held
  <1>3. buffers \subseteq Filled /\ buffers' \subseteq Filled
    BY DEF RentInv, BuffersFilled
  <1>4. ASSUME NEW t \in Subject, NEW j \in Signer, NEW p \in PayerAddress,
               RentCreateKeyBuffer(t, j, p), UNCHANGED rate
        PROVE  lamports'[BufferAt(s, k)] >= RentMinimum(HeldSpace(s, k)')
    <2>1. PICK h \in BufferInput :
            buffers' = buffers \cup {[did |-> t, authority |-> j, header |-> h, key |-> <<>>]}
      BY <1>4 DEF RentCreateKeyBuffer, CreateKeyBuffer
    <2> DEFINE new == [did |-> t, authority |-> j, header |-> h, key |-> <<>>]
    <2>2. new.did = t /\ new.authority = j
      OBVIOUS
    <2> HIDE DEF new
    <2>3. t = s /\ j = k
      BY <1>1, <2>1, <2>2 DEF Held, new
    <2>4. Held(s, k) = {} /\ Held(s, k)' = {new} /\ buffers' \ buffers = {new}
      <3>1. Held(s, k) = {}
        BY <1>4, <2>3 DEF RentCreateKeyBuffer, CreateKeyBuffer
      <3> QED BY <2>1, <2>2, <2>3, <3>1 DEF Held, new
    <2>5. Fund(BufferAt(s, k), p, BufferSpace(new))
      BY <1>4, <2>3, <2>4 DEF RentCreateKeyBuffer
    <2>6. new \in buffers'
      BY <2>4
    <2>7. HeldSpace(s, k)' = BufferSpace(new)
      BY <1>3, <2>4, <2>6, HeldSpaceOf DEF HeldSpace
    <2>8. BufferAt(s, k) \in Address /\ p \in Address \ {BufferAt(s, k)}
      BY AddressesDiffer DEF Address, BufferAddress
    <2>9. RentMinimum(BufferSpace(new)) \in Nat
      BY <2>6, RentsAreNumbers
    <2>10. lamports'[BufferAt(s, k)] >= RentMinimum(BufferSpace(new))
      BY <2>5, <2>8, <2>9, FundBalanced
    <2> QED BY <2>7, <2>10
  \* A write changes what is in a buffer and not how long it is.
  <1>5. ASSUME NEW t \in Subject, NEW j \in Signer, WriteKeyBuffer(t, j)
        PROVE  FALSE
    <2> DEFINE Written(b, chunk) == [b EXCEPT !.key = @ \o chunk]
    <2>1. PICK b \in Held(t, j), chunk \in ChunkInput :
            buffers' = (buffers \ {b}) \cup {Written(b, chunk)}
      BY <1>5 DEF WriteKeyBuffer
    <2>2. b \in Filled /\ b \in buffers /\ b.did = t /\ b.authority = j
      BY <1>3, <2>1 DEF Held
    <2>3. /\ Written(b, chunk).did = t /\ Written(b, chunk).authority = j
          /\ Written(b, chunk).header = b.header
      BY <2>2 DEF Filled
    <2> DEFINE new == Written(b, chunk)
    <2>4. BufferSpace(new) = BufferSpace(b)
      BY <2>3 DEF BufferSpace
    <2> HIDE DEF Written, new
    <2>5. new \in buffers' /\ new \in Filled
      BY <1>3, <2>1 DEF new
    <2>6. t = s /\ j = k
      BY <1>1, <2>1, <2>2, <2>3 DEF Held, new
    <2>7. Held(s, k) = {b}
      BY <1>2, <2>1, <2>6
    <2>8. Held(s, k)' = {new}
      BY <2>1, <2>3, <2>6, <2>7 DEF Held, new
    <2>9. HeldSpace(s, k)' = HeldSpace(s, k)
      BY <2>2, <2>4, <2>5, <2>7, <2>8, HeldSpaceOf DEF HeldSpace
    <2> QED BY <2>9
  <1>6. ASSUME NEW t \in Subject, NEW j \in Signer,
               AddVerificationMethodFromBuffer(t, j) \/ CloseKeyBuffer(t, j)
        PROVE  FALSE
    <2>1. PICK b \in Held(t, j) : buffers' = buffers \ {b}
      BY <1>6 DEF AddVerificationMethodFromBuffer, CloseKeyBuffer
    <2> QED BY <1>1, <1>2, <2>1 DEF Held
  <1>7. ASSUME UNCHANGED buffers
        PROVE  FALSE
    BY <1>1, <1>7 DEF Held
  <1> QED
    <2>1. ASSUME NEW t \in Subject, NEW j \in Signer, WithoutPayer(t, j)
          PROVE  FALSE
      BY <1>5, <1>7, <2>1 DEF WithoutPayer
    <2>2. ASSUME NEW t \in Subject, NEW j \in Signer, NEW p,
                 RentAddFromBuffer(t, j, p) \/ RentCloseKeyBuffer(t, j, p)
          PROVE  FALSE
      BY <1>6, <2>2 DEF RentAddFromBuffer, RentCloseKeyBuffer
    <2>3. ASSUME NEW p, NEW a, Donate(p, a)
          PROVE  FALSE
      BY <1>7, <2>3 DEF Donate
    <2>4. ~SetRate /\ ~UNCHANGED rentVars
      BY <1>7 DEF SetRate, rentVars
    <2>5. ASSUME NEW t \in Subject, NEW p, RentInitialize(t, p)
          PROVE  FALSE
      BY <1>7, <2>5 DEF RentInitialize
    <2>6. ASSUME NEW j \in Signer, NEW n \in Nonce, NEW p, RentInitializeOwned(j, n, p)
          PROVE  FALSE
      BY <1>7, <2>6 DEF RentInitializeOwned
    <2>7. ASSUME NEW t \in Subject, NEW j \in Signer, NEW p,
                 RentResize(t, j, p) \/ RentReplace(t, j, p)
          PROVE  FALSE
      BY <1>7, <2>7 DEF RentResize, RentReplace
    <2> QED BY <1>4, <2>1, <2>2, <2>3, <2>4, <2>5, <2>6, <2>7 DEF RentNext

LEMMA SettledDomain ==
  ASSUME NEW l, NEW a, NEW p, NEW len
  PROVE  DOMAIN Settled(l, a, p, len) = DOMAIN l
  BY DEF Settled

LEMMA ClosedToZero ==
  ASSUME NEW l, NEW b \in DOMAIN l, NEW p, NEW len
  PROVE  ClosedTo(l, b, p, len)[b] = 0
  BY DEF ClosedTo

LEMMA EmptiedByStep ==
  ASSUME BuffersFilled, Balanced(lamports), [RentNext]_rentVars
  PROVE  EmptiedStep
  <1> SUFFICES ASSUME NEW b \in buffers, b \notin buffers', Held(b.did, b.authority)' = {}
               PROVE  lamports'[BufferAt(b.did, b.authority)] = 0
    BY DEF EmptiedStep
  <1>1. BufferAt(b.did, b.authority) \in DOMAIN lamports
    BY DEF BuffersFilled, Filled, Balanced, Address, BufferAddress
  \* A write puts the longer buffer in the place of the one it takes.
  <1>2. ASSUME NEW s \in Subject, NEW k \in Signer, WriteKeyBuffer(s, k)
        PROVE  FALSE
    <2> DEFINE Written(c, chunk) == [c EXCEPT !.key = @ \o chunk]
    <2>1. PICK c \in buffers, chunk \in ChunkInput :
            buffers' = (buffers \ {c}) \cup {Written(c, chunk)}
      BY <1>2 DEF WriteKeyBuffer, Held
    <2>2. Written(c, chunk).did = c.did /\ Written(c, chunk).authority = c.authority
      BY DEF BuffersFilled, Filled
    <2> HIDE DEF Written
    <2>3. b = c
      BY <2>1
    <2> QED BY <2>1, <2>2, <2>3 DEF Held
  <1>3. ASSUME NEW s \in Subject, NEW k \in Signer, CreateKeyBuffer(s, k)
        PROVE  FALSE
    BY <1>3 DEF CreateKeyBuffer
  <1>4. ASSUME NEW s \in Subject, NEW k \in Signer, NEW p,
               RentAddFromBuffer(s, k, p) \/ RentCloseKeyBuffer(s, k, p)
        PROVE  lamports'[BufferAt(b.did, b.authority)] = 0
    <2>1. b.did = s /\ b.authority = k
      BY <1>4 DEF RentAddFromBuffer, AddVerificationMethodFromBuffer,
                  RentCloseKeyBuffer, CloseKeyBuffer, Held
    <2>2. PICK l, len : lamports' = ClosedTo(l, BufferAt(s, k), p, len)
                        /\ DOMAIN l = DOMAIN lamports
      BY <1>4, SettledDomain DEF RentAddFromBuffer, RentCloseKeyBuffer
    <2> QED BY <1>1, <2>1, <2>2, ClosedToZero
  <1>5. ASSUME UNCHANGED buffers
        PROVE  FALSE
    BY <1>5
  <1> QED
    <2>1. ASSUME NEW s \in Subject, NEW k \in Signer, WithoutPayer(s, k)
          PROVE  FALSE
      BY <1>2, <1>5, <2>1 DEF WithoutPayer
    <2>2. ASSUME NEW s \in Subject, NEW k \in Signer, NEW p, RentCreateKeyBuffer(s, k, p)
          PROVE  FALSE
      BY <1>3, <2>2 DEF RentCreateKeyBuffer
    <2>3. ASSUME NEW p, NEW a, Donate(p, a)
          PROVE  FALSE
      BY <1>5, <2>3 DEF Donate
    <2>4. ~SetRate /\ ~UNCHANGED rentVars
      BY <1>5 DEF SetRate, rentVars
    <2>5. ASSUME NEW s \in Subject, NEW p, RentInitialize(s, p)
          PROVE  FALSE
      BY <1>5, <2>5 DEF RentInitialize
    <2>6. ASSUME NEW k \in Signer, NEW n \in Nonce, NEW p, RentInitializeOwned(k, n, p)
          PROVE  FALSE
      BY <1>5, <2>6 DEF RentInitializeOwned
    <2>7. ASSUME NEW s \in Subject, NEW k \in Signer, NEW p,
                 RentResize(s, k, p) \/ RentReplace(s, k, p)
          PROVE  FALSE
      BY <1>5, <2>7 DEF RentResize, RentReplace
    <2> QED BY <1>4, <2>1, <2>2, <2>3, <2>4, <2>5, <2>6, <2>7 DEF RentNext

-----------------------------------------------------------------------------
(* The theorems *)

LEMMA RentInvariant == RentSpec => [](RentInv /\ Balanced(lamports))
  <1>1. RentInit => RentInv /\ Balanced(lamports)
    BY RentInvAtFirst, BalancedAtFirst
  <1>2. RentInv /\ [RentNext]_rentVars => RentInv'
    BY RentInvStep
  <1>3. RentInv /\ RentInv' /\ Balanced(lamports) /\ [RentNext]_rentVars => Balanced(lamports)'
    BY StepPays DEF Balanced
  <1> QED BY <1>1, <1>2, <1>3, PTL DEF RentSpec

\* No lamport is made or lost, and nobody is overdrawn, by any sequence of
\* creations, resizes, refunds, closes, gifts and changes of the rent, with
\* any number of payers and accounts.
THEOREM LamportsConserved == RentSpec => []Conserved
  <1>1. Balanced(lamports) => Conserved
    <2> SUFFICES ASSUME Balanced(lamports) PROVE Conserved
      OBVIOUS
    <2>1. MapThenSumSet(Balance, Address) = Sum(lamports, Address)
      BY DEF MapThenSumSet, MapThenFoldSet, Balance, Sum, Sums, SumStep, Pick
    <2> QED BY <2>1 DEF Balanced, Conserved
  <1> QED BY <1>1, RentInvariant, PTL

LEMMA LengthAt ==
  /\ \A s \in Subject :
       DataLen(DidAt(s)) = DidSpace(s) /\ DataLen(DidAt(s))' = NewSpace(s)
  /\ \A s \in Subject, k \in Signer :
       /\ DataLen(BufferAt(s, k)) = HeldSpace(s, k)
       /\ DataLen(BufferAt(s, k))' = HeldSpace(s, k)'
  <1>1. ASSUME NEW s \in Subject
        PROVE  DidAt(s) \in DidAddress /\ DidAt(s)[2] = s
    BY DEF DidAt, DidAddress
  <1>2. ASSUME NEW s \in Subject, NEW k \in Signer
        PROVE  /\ BufferAt(s, k) \in BufferAddress /\ BufferAt(s, k) \notin DidAddress
               /\ BufferAt(s, k)[2] = s /\ BufferAt(s, k)[3] = k
    BY AddressesDiffer DEF BufferAt, BufferAddress
  <1> QED BY <1>1, <1>2 DEF DataLen, HeldSpace, DidSpace, NewSpace

\* Whenever an account gets a new length it is rent exempt at the rate of the
\* moment.
THEOREM ResizedIsExempt == RentSpec => ResizesStayExempt
  <1>1. ASSUME RentInv, RentInv', Balanced(lamports), [RentNext]_rentVars
        PROVE  FundedStep
    <2> SUFFICES ASSUME NEW a \in DidAddress \cup BufferAddress,
                        DataLen(a)' # DataLen(a), DataLen(a)' # 0
                 PROVE  lamports'[a] >= RentMinimum(DataLen(a))'
      BY DEF FundedStep
    <2>1. CASE a \in DidAddress
      <3>1. PICK s \in Subject : a = DidAt(s)
        BY <2>1 DEF DidAddress
      <3>2. DidPaid(s) /\ NewSpace(s) # DidSpace(s) /\ DataLen(a)' = NewSpace(s)
        BY <1>1, <3>1, StepPays, LengthAt
      <3> QED BY <3>1, <3>2 DEF DidPaid, RentMinimum
    <2>2. CASE a \in BufferAddress
      <3>1. PICK s \in Subject, k \in Signer : a = BufferAt(s, k)
        BY <2>2 DEF BufferAddress
      <3>2. DataLen(a)' = HeldSpace(s, k)' /\ DataLen(a) = HeldSpace(s, k)
        BY <3>1, LengthAt
      <3>3. rate' = rate /\ lamports'[a] >= RentMinimum(DataLen(a)')
        BY <1>1, <3>1, <3>2, BufferStepPays
      <3> QED BY <3>3 DEF RentMinimum
    <2> QED BY <2>1, <2>2
  <1>2. RentInv /\ RentInv' /\ Balanced(lamports) /\ [RentNext]_rentVars => [FundedStep]_rentVars
    BY <1>1
  <1> QED BY <1>2, RentInvariant, PTL DEF RentSpec, ResizesStayExempt

\* A resize of an account that is there settles it to the minimum, to the
\* lamport, and what does not settle does not resize.
THEOREM ResizedIsSettled == RentSpec => ResizesSettle
  <1>1. ASSUME RentInv, RentInv', Balanced(lamports), [RentNext]_rentVars
        PROVE  SettledStep
    <2> SUFFICES ASSUME NEW s \in Subject, account[s].state # "absent", NewSpace(s) # DidSpace(s)
                 PROVE  lamports'[DidAt(s)] = RentMinimum(DidSpace(s))'
      BY DEF SettledStep
    <2>1. DidPaid(s)
      BY <1>1, StepPays
    <2> QED BY <2>1 DEF DidPaid, RentMinimum, DidSpace, NewSpace
  <1>2. RentInv /\ RentInv' /\ Balanced(lamports) /\ [RentNext]_rentVars => [SettledStep]_rentVars
    BY <1>1
  <1> QED BY <1>2, RentInvariant, PTL DEF RentSpec, ResizesSettle

\* A buffer that is finished or closed leaves its address empty, whatever was
\* sent to it in between (close_to moves every lamport).
THEOREM ClosedBuffersEmpty == RentSpec => ClosedIsEmpty
  <1>1. RentInv /\ Balanced(lamports) /\ [RentNext]_rentVars => [EmptiedStep]_rentVars
    BY EmptiedByStep DEF RentInv
  <1> QED BY <1>1, RentInvariant, PTL DEF RentSpec, ClosedIsEmpty

-----------------------------------------------------------------------------
(* What can always be done.  That an action is ENABLED is said by writing  *)
(* out the state it leads to.                                              *)

\* s is created under the signatures in signed, and p brings its address to
\* the minimum of the founding document, over what it already holds.
CreatedAs(s, signed, p) ==
  LET len == Space(InitialDocument(FoundingKey(s)))
      deficit == Deficit(lamports, DidAt(s), len) IN
  /\ account' = [account EXCEPT ![s] = InitialDocument(FoundingKey(s))]
  /\ signedBy' = signed
  /\ lamports' = [lamports EXCEPT ![DidAt(s)] = @ + deficit, ![p] = @ - deficit]
  /\ UNCHANGED <<buffers, rate>>

\* No gift keeps a DID from being created: whatever its address holds, with a
\* payer that has what is missing, anyone creates a key's DID and the owner an
\* owned one (materialize's branch for a pre-funded address).
THEOREM GiftsBlockNoCreation ==
  ASSUME RentInv, Balanced(lamports),
         NEW s \in Subject, account[s].state = "absent",
         NEW signed, NEW p \in PayerAddress,
         lamports[p] >= Deficit(lamports, DidAt(s), Space(InitialDocument(FoundingKey(s)))),
         CreatedAs(s, signed, p)
  PROVE  /\ s \in OnCurve /\ signed = {} => RentInitialize(s, p) /\ RentNext
         /\ \A k \in Signer, n \in Nonce :
              s = OwnedSubject(k, n) /\ signed = {k} => RentInitializeOwned(k, n, p) /\ RentNext
  <1> DEFINE d == InitialDocument(FoundingKey(s))
             deficit == Deficit(lamports, DidAt(s), Space(d))
  <1>1. /\ account' = [account EXCEPT ![s] = d] /\ signedBy' = signed
        /\ lamports' = [lamports EXCEPT ![DidAt(s)] = @ + deficit, ![p] = @ - deficit]
        /\ buffers' = buffers /\ rate' = rate
    BY DEF CreatedAs
  <1>2. NewSpace(s) = Space(d)
    <2>1. account \in [Subject -> Document]
      BY DEF RentInv, TypeOK
    <2>2. account'[s] = d
      BY <1>1, <2>1
    <2> QED BY <2>2 DEF NewSpace
  <1>3. Fund(DidAt(s), p, NewSpace(s))
    BY <1>1, <1>2 DEF Fund
  <1>4. ASSUME s \in OnCurve, signed = {}
        PROVE  RentInitialize(s, p)
    <2>1. FoundingKey(s) = s
      BY <1>4, DocumentAssumption DEF FoundingKey
    <2> QED BY <1>1, <1>3, <1>4, <2>1 DEF RentInitialize, Initialize, Create
  <1>5. ASSUME NEW k \in Signer, NEW n \in Nonce, s = OwnedSubject(k, n), signed = {k}
        PROVE  RentInitializeOwned(k, n, p)
    <2>1. s \notin Key /\ s[1] = k
      BY <1>5, RegistryAssumption DEF OwnedSubject
    <2>2. FoundingKey(s) = k
      BY <2>1 DEF FoundingKey
    <2> QED BY <1>1, <1>3, <1>5, <2>2 DEF RentInitializeOwned, InitializeOwned, Create
  <1> QED BY <1>1, <1>4, <1>5 DEF RentNext

\* b is closed, and p takes everything its address holds.
ClosedAs(b, p) ==
  /\ buffers' = buffers \ {b}
  /\ lamports' = ClosedTo(lamports, BufferAt(b.did, b.authority), p, BufferSpace(b))
  /\ UNCHANGED <<account, signedBy, rate>>

\* Its authority closes a buffer whatever became of the DID, of the authority
\* over it and of the rent, and the payer ends up with all that lay there.
THEOREM BuffersCanBeClosed ==
  ASSUME RentInv, Balanced(lamports), NEW b \in buffers, NEW p \in PayerAddress,
         ClosedAs(b, p)
  PROVE  /\ RentCloseKeyBuffer(b.did, b.authority, p) /\ RentNext
         /\ lamports'[p] = lamports[p] + lamports[BufferAt(b.did, b.authority)]
  <1> DEFINE a == BufferAt(b.did, b.authority)
  <1>1. b \in buffers /\ b.did \in Subject /\ b.authority \in Signer
    BY DEF RentInv, BuffersFilled, Filled, Buffer
  <1>2. a \in Address /\ p \in Address /\ a # p
    BY <1>1, AddressesDiffer DEF Address, BufferAddress
  <1>3. b \in Held(b.did, b.authority) /\ buffers \ buffers' = {b}
    BY <1>1 DEF Held, ClosedAs
  <1>4. RentCloseKeyBuffer(b.did, b.authority, p)
    BY <1>3 DEF ClosedAs, RentCloseKeyBuffer, CloseKeyBuffer
  <1>5. lamports'[p] = lamports[p] + lamports[a]
    BY <1>2 DEF ClosedAs, ClosedTo, Balanced
  <1>6. RentNext
    BY <1>1, <1>4 DEF ClosedAs, RentNext
  <1> QED BY <1>4, <1>5, <1>6

-----------------------------------------------------------------------------
(* What rent_minimum_balance computes.  A float is a multiple of a power   *)
(* of two, with at most Precision significant bits (IsFloat).              *)

\* Powers of two, from their recursive definition.
LEMMA Pow2Steps ==
  /\ Pow2 \in [Nat -> Nat] /\ Pow2[0] = 1
  /\ \A n \in Nat : Pow2[n + 1] = 2 * Pow2[n]
  <1> DEFINE double == [m \in Nat |-> 2 * m]
             Rec(g) == [n \in Nat |-> IF n = 0 THEN 1 ELSE 2 * g[n - 1]]
  <1>1. PICK g \in [Nat -> Nat] : g[0] = 1 /\ \A n \in Nat : g[n + 1] = double[g[n]]
    <2> DEFINE S == Nat
               one == 1
    <2>1. double \in [S -> S] /\ one \in S
      OBVIOUS
    <2> HIDE DEF double, one, S
    <2>2. \E g \in [Nat -> S] : g[0] = one /\ \A n \in Nat : g[n + 1] = double[g[n]]
      BY <2>1, Iterates
    <2> QED BY <2>2 DEF one, S
  <1>2. g = Rec(g)
    <2>1. \A n \in Nat : g[n] = Rec(g)[n]
      <3> TAKE n \in Nat
      <3>1. CASE n = 0
        BY <1>1, <3>1
      <3>2. CASE n # 0
        <4>1. n - 1 \in Nat /\ (n - 1) + 1 = n
          BY <3>2
        <4>2. g[n] = double[g[n - 1]] /\ g[n - 1] \in Nat
          BY <1>1, <4>1
        <4> QED BY <3>2, <4>2
      <3> QED BY <3>1, <3>2
    <2> QED BY <2>1
  <1>3. Pow2 = CHOOSE p : p = Rec(p)
    BY DEF Pow2
  <1>4. Pow2 = Rec(Pow2)
    <2> HIDE DEF Rec
    <2> QED BY <1>2, <1>3
  <1>5. \A n \in Nat : Pow2[n] = IF n = 0 THEN 1 ELSE 2 * Pow2[n - 1]
    BY <1>4
  <1>6. Pow2[0] = 1
    BY <1>5
  <1>7. \A n \in Nat : Pow2[n + 1] = 2 * Pow2[n]
    <2> TAKE n \in Nat
    <2>1. n + 1 \in Nat /\ n + 1 # 0 /\ (n + 1) - 1 = n
      OBVIOUS
    <2> QED BY <1>5, <2>1
  <1>8. Pow2 \in [Nat -> Nat]
    <2> DEFINE G == {n \in Nat : Pow2[n] \in Nat}
    <2>1. 0 \in G
      BY <1>6
    <2>2. ASSUME NEW n \in Nat, n \in G
          PROVE  n + 1 \in G
      BY <1>7, <2>2
    <2> HIDE DEF G
    <2>3. Nat \subseteq G
      BY <2>1, <2>2, Induction
    <2>4. \A n \in Nat : Pow2[n] \in Nat
      BY <2>3 DEF G
    <2>5. Pow2 = [n \in Nat |-> Pow2[n]]
      BY <1>4
    <2> QED BY <2>4, <2>5
  <1> QED BY <1>6, <1>7, <1>8

\* A power of two is above its exponent.
LEMMA Pow2Above == \A n \in Nat : Pow2[n] \in Nat /\ n < Pow2[n]
  <1> DEFINE G == {n \in Nat : n < Pow2[n]}
  <1>1. 0 \in G
    BY Pow2Steps
  <1>2. ASSUME NEW n \in Nat, n \in G
        PROVE  n + 1 \in G
    <2>1. Pow2[n] \in Nat /\ n < Pow2[n] /\ Pow2[n + 1] = 2 * Pow2[n]
      BY <1>2, Pow2Steps
    <2> QED BY <2>1
  <1> HIDE DEF G
  <1>3. Nat \subseteq G
    BY <1>1, <1>2, Induction
  <1> QED BY <1>3, Pow2Steps DEF G

\* Exponents add up,
LEMMA Pow2Sum ==
  ASSUME NEW m \in Nat, NEW n \in Nat
  PROVE  Pow2[m + n] = Pow2[m] * Pow2[n]
  <1> DEFINE G == {k \in Nat : Pow2[m + k] = Pow2[m] * Pow2[k]}
  <1>1. 0 \in G
    BY Pow2Steps
  <1>2. ASSUME NEW k \in Nat, k \in G
        PROVE  k + 1 \in G
    <2> DEFINE a == Pow2[m]
               b == Pow2[k]
    <2>1. a \in Nat /\ b \in Nat /\ Pow2[m + k] = a * b
      BY <1>2, Pow2Steps
    <2>2. Pow2[k + 1] = 2 * b
      BY Pow2Steps
    <2>3. Pow2[m + (k + 1)] = 2 * Pow2[m + k]
      <3>1. m + k \in Nat /\ m + (k + 1) = (m + k) + 1
        OBVIOUS
      <3> QED BY <3>1, Pow2Steps
    <2> HIDE DEF a, b
    <2>4. 2 * (a * b) = a * (2 * b)
      BY <2>1
    <2>5. Pow2[m + (k + 1)] = a * Pow2[k + 1]
      BY <2>1, <2>2, <2>3, <2>4
    <2> QED BY <2>5 DEF a
  <1> HIDE DEF G
  <1>3. Nat \subseteq G
    BY <1>1, <1>2, Induction
  <1> QED BY <1>3 DEF G

\* and a larger exponent is a larger power.
LEMMA Pow2Order ==
  ASSUME NEW m \in Nat, NEW n \in Nat, m <= n
  PROVE  Pow2[m] <= Pow2[n]
  <1> DEFINE a == Pow2[m]
             b == Pow2[n - m]
  <1>1. n - m \in Nat /\ m + (n - m) = n
    OBVIOUS
  <1>2. Pow2[n] = a * b
    BY <1>1, Pow2Sum
  <1>3. a \in Nat /\ b \in Nat /\ b >= 1
    <2>1. a \in Nat /\ b \in Nat /\ n - m < b
      BY <1>1, Pow2Above
    <2> HIDE DEF a, b
    <2> QED BY <1>1, <2>1
  <1> HIDE DEF a, b
  <1>4. a * b >= a
    BY <1>3
  <1> QED BY <1>2, <1>4 DEF a

\* A multiple that fits, fits as often.
LEMMA MultipleFits ==
  ASSUME NEW n \in Nat, NEW u \in Nat \ {0}, NEW k \in Nat, k * u <= n
  PROVE  k <= n \div u
  <1> DEFINE q == n \div u
             r == n % u
  <1>1. q \in Nat /\ r \in Nat /\ r < u /\ n = u * q + r
    BY Divided
  <1> HIDE DEF q, r
  <1>2. ASSUME k >= q + 1 PROVE FALSE
    <2>1. k * u >= (q + 1) * u
      BY <1>1, <1>2
    <2>2. (q + 1) * u = u * q + u
      BY <1>1
    <2> QED BY <1>1, <2>1, <2>2
  <1>3. k <= q
    BY <1>1, <1>2
  <1> QED BY <1>3 DEF q

\* Every number has a length in bits.
LEMMA BitsOf ==
  ASSUME NEW n \in Nat
  PROVE  LET b == SignificantBits(n)
         IN  b \in Nat /\ n < Pow2[b] /\ (b = 0 \/ n >= Pow2[b - 1])
  <1> DEFINE T == {b \in Nat : n < Pow2[b]}
             P(b) == n < Pow2[b] /\ (b = 0 \/ n >= Pow2[b - 1])
  <1>1. n \in T
    BY Pow2Above
  <1>2. PICK b \in T : \A c \in T : b <= c
    <2>1. T \in SUBSET Nat /\ T # {}
      BY <1>1
    <2> HIDE DEF T
    <2> QED BY <2>1, LeastNumber
  <1>3. b \in 0..n
    BY <1>1, <1>2
  <1>4. P(b)
    <2>1. n < Pow2[b]
      BY <1>2
    <2>2. ASSUME b # 0 PROVE n >= Pow2[b - 1]
      <3>1. b - 1 \in Nat /\ ~(b <= b - 1)
        BY <1>2, <2>2
      <3>2. b - 1 \notin T
        BY <1>2, <3>1
      <3>3. Pow2[b - 1] \in Nat
        BY <3>1, Pow2Steps
      <3> QED BY <3>1, <3>2, <3>3
    <2> QED BY <2>1, <2>2
  <1>5. SignificantBits(n) = CHOOSE c \in 0..n : P(c)
    BY DEF SignificantBits
  <1> HIDE DEF P
  <1>6. SignificantBits(n) \in 0..n /\ P(SignificantBits(n))
    BY <1>3, <1>4, <1>5
  <1> QED BY <1>6 DEF P

\* What Rounded does to a number of more bits than Precision.
LEMMA RoundedParts ==
  ASSUME SysvarAssumption, NEW n \in Nat, n >= Pow2[Precision]
  PROVE  \E e, q, r \in Nat :
           LET unit == Pow2[e]
           IN  /\ n = unit * q + r /\ r < unit
               /\ Pow2[e + Precision - 1] <= n /\ n < Pow2[e + Precision]
               /\ \/ Rounded(n) = unit * q /\ 2 * r <= unit
                  \/ Rounded(n) = unit * (q + 1) /\ 2 * r >= unit
  <1> DEFINE b == SignificantBits(n)
             P == Precision
             e == b - P
             u == Pow2[e]
             q == n \div u
             r == n % u
             up == (2 * r > u) \/ (2 * r = u /\ q % 2 = 1)
  <1>1. P \in Nat /\ P >= 1
    BY DEF SysvarAssumption
  <1>2. b \in Nat /\ n < Pow2[b] /\ (b = 0 \/ n >= Pow2[b - 1])
    BY BitsOf
  <1>3. Rounded(n) = u * (IF up THEN q + 1 ELSE q)
    <2>1. Pow2[P] \in Nat
      BY <1>1, Pow2Steps
    <2>2. ~(n < Pow2[P])
      BY <2>1
    <2> QED BY <2>2 DEF Rounded
  <1> HIDE DEF b, P
  <1>4. b > P
    <2> SUFFICES ASSUME b <= P PROVE FALSE
      BY <1>1, <1>2
    <2>1. Pow2[b] <= Pow2[P] /\ Pow2[b] \in Nat /\ Pow2[P] \in Nat
      BY <1>1, <1>2, Pow2Order, Pow2Steps
    <2>2. n >= Pow2[P]
      BY DEF P
    <2> QED BY <1>2, <2>1, <2>2
  <1>5. e \in Nat /\ e + P = b /\ e + P - 1 = b - 1 /\ b # 0
    BY <1>1, <1>2, <1>4
  <1>6. u \in Nat \ {0}
    <2>1. u \in Nat /\ e < u
      BY <1>5, Pow2Above
    <2> HIDE DEF u, e
    <2> QED BY <1>5, <2>1
  <1> HIDE DEF e, u
  <1>7. q \in Nat /\ r \in Nat /\ r < u /\ n = u * q + r
    BY <1>6, Divided
  <1> HIDE DEF q, r
  <1>8. \/ Rounded(n) = u * q /\ 2 * r <= u
        \/ Rounded(n) = u * (q + 1) /\ 2 * r >= u
    <2>1. CASE up
      BY <1>3, <1>6, <1>7, <2>1
    <2>2. CASE ~up
      BY <1>3, <1>6, <1>7, <2>2
    <2> QED BY <2>1, <2>2
  <1>9. Pow2[e + P - 1] <= n /\ n < Pow2[e + P]
    BY <1>2, <1>5
  <1> QED BY <1>5, <1>7, <1>8, <1>9 DEF u, P

\* A number with at most Precision significant bits.
IsFloat(n) == \E k, e \in Nat : k <= Pow2[Precision] /\ n = k * Pow2[e]

\* The floats below a number fit into it without its remainder: they are
\* multiples of its unit, or at most its leading bit.
LEMMA FloatFits ==
  ASSUME SysvarAssumption,
         NEW e \in Nat, NEW q \in Nat, NEW r \in Nat, NEW u, u = Pow2[e], r < u,
         Pow2[e + Precision - 1] <= u * q + r,
         NEW v \in Nat, IsFloat(v), v <= u * q + r
  PROVE  v <= u * q
  <1> DEFINE P == Precision
  <1>1. P \in Nat /\ P >= 1 /\ Pow2[P] \in Nat
    BY Pow2Steps DEF SysvarAssumption
  <1>2. u \in Nat
    BY Pow2Steps
  <1>3. PICK k, f \in Nat : k <= Pow2[P] /\ v = k * Pow2[f]
    BY DEF IsFloat
  <1>4. ASSUME NEW x \in Nat, x * u <= u * q + r
        PROVE  x * u <= u * q
    <2>1. x < q + 1
      <3> SUFFICES ASSUME x >= q + 1 PROVE FALSE
        OBVIOUS
      <3>1. x * u >= (q + 1) * u
        BY <1>2
      <3>2. (q + 1) * u = u * q + u
        BY <1>2
      <3>3. x * u \in Nat /\ u * q \in Nat
        BY <1>2
      <3> QED BY <1>2, <1>4, <3>1, <3>2, <3>3
    <2> QED BY <1>2, <2>1
  <1>5. CASE f >= e
    <2> DEFINE g == f - e
               h == Pow2[g]
               x == k * h
    <2>1. g \in Nat /\ f = e + g
      BY <1>5
    <2> HIDE DEF g
    <2>2. Pow2[f] = u * h /\ h \in Nat
      BY <2>1, Pow2Sum, Pow2Steps
    <2> HIDE DEF h
    <2>3. x \in Nat /\ v = x * u
      BY <1>2, <1>3, <2>2
    <2> HIDE DEF x
    <2> QED BY <1>4, <2>3
  <1>6. CASE f < e
    <2> DEFINE w == Pow2[P - 1]
               y == Pow2[f]
               z == Pow2[P]
               lead == Pow2[e + P - 1]
    <2>1. P - 1 \in Nat /\ w \in Nat
      BY <1>1, Pow2Steps
    <2>2. lead = w * u
      <3>1. e + P - 1 = (P - 1) + e
        BY <1>1
      <3> QED BY <2>1, <3>1, Pow2Sum
    <2>3. z * y <= lead
      <3>1. P + f \in Nat /\ e + P - 1 \in Nat /\ P + f <= e + P - 1
        BY <1>1, <1>6
      <3>2. Pow2[P + f] <= lead
        BY <3>1, Pow2Order
      <3> QED BY <1>1, <3>2, Pow2Sum
    <2>4. y \in Nat /\ z \in Nat /\ k <= z /\ v = k * y
      BY <1>1, <1>3, Pow2Steps
    <2>5. lead <= u * q + r
      OBVIOUS
    <2> HIDE DEF w, y, z, lead
    <2>6. lead <= u * q
      BY <1>4, <2>1, <2>2, <2>5
    <2>7. k * y <= z * y
      BY <2>4
    <2> QED BY <1>2, <2>1, <2>2, <2>3, <2>4, <2>6, <2>7
  <1> QED BY <1>5, <1>6

\* So rounding keeps a number above every float that it is above,
LEMMA RoundedAbove ==
  ASSUME SysvarAssumption, NEW n \in Nat, NEW v \in Nat, IsFloat(v), v <= n
  PROVE  v <= Rounded(n)
  <1> DEFINE P == Precision
  <1>1. Pow2[P] \in Nat
    BY Pow2Steps DEF SysvarAssumption
  <1>2. CASE n < Pow2[P]
    BY <1>2 DEF Rounded
  <1>3. CASE n >= Pow2[P]
    <2>1. PICK e, q, r \in Nat :
            /\ n = Pow2[e] * q + r /\ r < Pow2[e]
            /\ Pow2[e + P - 1] <= n /\ n < Pow2[e + P]
            /\ \/ Rounded(n) = Pow2[e] * q /\ 2 * r <= Pow2[e]
               \/ Rounded(n) = Pow2[e] * (q + 1) /\ 2 * r >= Pow2[e]
      BY <1>3, RoundedParts
    <2> DEFINE u == Pow2[e]
    <2>2. u \in Nat
      BY Pow2Steps
    <2>3. /\ r < u /\ Pow2[e + Precision - 1] <= u * q + r /\ v <= u * q + r
          /\ Rounded(n) \in {u * q, u * (q + 1)}
      BY <2>1
    <2> HIDE DEF P
    <2>4. v <= u * q
      BY <2>3, FloatFits
    <2> HIDE DEF u
    <2>5. u * (q + 1) = u * q + u /\ u * q \in Nat
      BY <2>2
    <2> QED BY <2>2, <2>3, <2>4, <2>5
  <1> QED BY <1>1, <1>2, <1>3

\* and leaves a float alone.
LEMMA RoundedExact ==
  ASSUME SysvarAssumption, NEW n \in Nat, IsFloat(n)
  PROVE  Rounded(n) = n
  <1> DEFINE P == Precision
  <1>1. Pow2[P] \in Nat
    BY Pow2Steps DEF SysvarAssumption
  <1>2. CASE n < Pow2[P]
    BY <1>2 DEF Rounded
  <1>3. CASE n >= Pow2[P]
    <2>1. PICK e, q, r \in Nat :
            /\ n = Pow2[e] * q + r /\ r < Pow2[e]
            /\ Pow2[e + P - 1] <= n /\ n < Pow2[e + P]
            /\ \/ Rounded(n) = Pow2[e] * q /\ 2 * r <= Pow2[e]
               \/ Rounded(n) = Pow2[e] * (q + 1) /\ 2 * r >= Pow2[e]
      BY <1>3, RoundedParts
    <2> DEFINE u == Pow2[e]
    <2>2. u \in Nat
      BY Pow2Steps
    <2>3. /\ r < u /\ Pow2[e + Precision - 1] <= u * q + r /\ n <= u * q + r
          /\ n = u * q + r
          /\ \/ Rounded(n) = u * q
             \/ 2 * r >= u
      BY <2>1
    <2> HIDE DEF P
    <2>4. n <= u * q
      BY <2>3, FloatFits
    <2> HIDE DEF u
    <2> QED BY <2>2, <2>3, <2>4
  <1> QED BY <1>1, <1>2, <1>3

\* What it rounds to is a float.
LEMMA RoundedIsFloat ==
  ASSUME SysvarAssumption, NEW n \in Nat
  PROVE  Rounded(n) \in Nat /\ IsFloat(Rounded(n))
  <1> DEFINE P == Precision
  <1>1. P \in Nat /\ P >= 1 /\ Pow2[P] \in Nat
    BY Pow2Steps DEF SysvarAssumption
  <1>2. CASE n < Pow2[P]
    <2>1. n <= Pow2[P] /\ n = n * Pow2[0] /\ 0 \in Nat
      BY <1>1, <1>2, Pow2Steps
    <2>2. Rounded(n) = n
      BY <1>2 DEF Rounded
    <2> QED BY <2>1, <2>2 DEF IsFloat
  <1>3. CASE n >= Pow2[P]
    <2>1. PICK e, q, r \in Nat :
            /\ n = Pow2[e] * q + r /\ r < Pow2[e]
            /\ Pow2[e + P - 1] <= n /\ n < Pow2[e + P]
            /\ \/ Rounded(n) = Pow2[e] * q /\ 2 * r <= Pow2[e]
               \/ Rounded(n) = Pow2[e] * (q + 1) /\ 2 * r >= Pow2[e]
      BY <1>3, RoundedParts
    <2> DEFINE u == Pow2[e]
               z == Pow2[P]
    <2>2. u \in Nat /\ z \in Nat
      BY <1>1, Pow2Steps
    <2>3. n < u * z
      BY <1>1, <2>1, Pow2Sum
    <2>4. n = u * q + r
      BY <2>1
    <2> HIDE DEF u, z
    <2>5. q < z
      <3> SUFFICES ASSUME q >= z PROVE FALSE
        BY <2>2
      <3>1. u * q >= u * z
        BY <2>2
      <3> QED BY <2>2, <2>3, <2>4, <3>1
    <2>6. q <= z /\ q + 1 <= z
      BY <2>2, <2>5
    <2>7. u * q = q * u /\ u * (q + 1) = (q + 1) * u /\ u * q \in Nat /\ u * (q + 1) \in Nat
      BY <2>2
    <2>8. PICK k \in {q, q + 1} : Rounded(n) = u * k
      BY <2>1 DEF u
    <2>9. k \in Nat /\ k <= z /\ Rounded(n) = k * u /\ Rounded(n) \in Nat
      BY <2>6, <2>7, <2>8
    <2> QED BY <2>9 DEF IsFloat, u, z
  <1> QED BY <1>1, <1>2, <1>3

\* Rounding loses less than one part in 2^Precision.
LEMMA RoundedLoses ==
  ASSUME SysvarAssumption, NEW n \in Nat
  PROVE  n - n \div Pow2[Precision] <= Rounded(n)
  <1> DEFINE P == Precision
             z == Pow2[P]
             d == n \div z
  <1>1. P \in Nat /\ P >= 1 /\ z \in Nat \ {0}
    <2>1. P \in Nat /\ P >= 1
      BY DEF SysvarAssumption
    <2>2. z \in Nat /\ P < z
      BY <2>1, Pow2Above
    <2> HIDE DEF z, P
    <2> QED BY <2>1, <2>2
  <1>2. d \in Nat
    <2> HIDE DEF z
    <2> QED BY <1>1, Divided
  <1> SUFFICES n - d <= Rounded(n)
    OBVIOUS
  <1>3. CASE n < z
    <2>1. Rounded(n) = n
      BY <1>3 DEF Rounded
    <2> HIDE DEF d
    <2> QED BY <1>2, <2>1
  <1>4. CASE n >= z
    <2>1. PICK e, q, r \in Nat :
            /\ n = Pow2[e] * q + r /\ r < Pow2[e]
            /\ Pow2[e + P - 1] <= n /\ n < Pow2[e + P]
            /\ \/ Rounded(n) = Pow2[e] * q /\ 2 * r <= Pow2[e]
               \/ Rounded(n) = Pow2[e] * (q + 1) /\ 2 * r >= Pow2[e]
      BY <1>4, RoundedParts
    <2> DEFINE u == Pow2[e]
    <2>2. u \in Nat /\ n = u * q + r /\ r < u
      BY <2>1, Pow2Steps
    <2>3. u * (q + 1) = u * q + u /\ u * q \in Nat
      <3> HIDE DEF u
      <3> QED BY <2>2
    <2>4. CASE Rounded(n) = u * (q + 1)
      <3> HIDE DEF u, z, d
      <3> QED BY <1>2, <2>2, <2>3, <2>4
    <2>5. CASE Rounded(n) = u * q /\ 2 * r <= u
      <3>1. r <= d
        <4>1. CASE e = 0
          <5>1. u = 1
            BY <4>1, Pow2Steps
          <5> HIDE DEF u, d
          <5> QED BY <1>2, <2>2, <5>1
        <4>2. CASE e # 0
          <5> DEFINE w == Pow2[e - 1]
          <5>1. e - 1 \in Nat /\ (e - 1) + 1 = e /\ e + P - 1 = (e - 1) + P
            BY <1>1, <4>2
          <5>2. w \in Nat /\ u = 2 * w
            BY <5>1, Pow2Steps
          <5>3. w * z <= n
            <6>1. Pow2[e + P - 1] = w * z
              BY <1>1, <5>1, Pow2Sum
            <6> QED BY <2>1, <6>1
          <5> HIDE DEF u, w, z
          <5>4. w <= d
            BY <1>1, <5>2, <5>3, MultipleFits
          <5> HIDE DEF d
          <5> QED BY <1>2, <2>5, <5>2, <5>4
        <4> QED BY <4>1, <4>2
      <3> HIDE DEF u, z, d
      <3> QED BY <1>2, <2>2, <2>3, <2>5, <3>1
    <2> QED BY <2>1, <2>4, <2>5
  <1> QED
    <2> HIDE DEF d
    <2> QED BY <1>1, <1>3, <1>4

\* A number of Precision bits is a float, and so is its double.
LEMMA SmallIsFloat ==
  ASSUME SysvarAssumption, NEW n \in Nat, n <= Pow2[Precision]
  PROVE  IsFloat(n) /\ IsFloat(2 * n)
  <1>1. n = n * Pow2[0] /\ 0 \in Nat
    BY Pow2Steps
  <1>2. 2 * n = n * Pow2[1] /\ 1 \in Nat
    <2>1. Pow2[0 + 1] = 2 * Pow2[0] /\ Pow2[0] = 1 /\ 0 + 1 = 1
      BY Pow2Steps
    <2>2. Pow2[1] = 2
      BY <2>1
    <2> QED BY <2>2
  <1> QED BY <1>1, <1>2 DEF IsFloat

\* Such a number times a power of two (One, Two) is exact in floats.
LEMMA FloatTimesExact ==
  ASSUME SysvarAssumption, NEW n \in Nat, n <= Pow2[Precision],
         NEW t, t.exp = 0, t.num \in {1, 2}, t.num * n <= U64Max
  PROVE  FloatTimes(n, t) = t.num * n
  <1> DEFINE m == n * t.num
  <1>1. Rounded(n) = n
    BY SmallIsFloat, RoundedExact
  <1>2. m \in {n, 2 * n} /\ m \in Nat
    OBVIOUS
  <1>3. IsFloat(m)
    BY <1>2, SmallIsFloat
  <1> HIDE DEF m
  <1>4. Rounded(m) = m
    BY <1>2, <1>3, RoundedExact
  <1>5. m \div Pow2[0] = m
    BY <1>2, Pow2Steps
  <1>6. m = t.num * n
    BY DEF m
  <1>7. ~(m > U64Max)
    BY <1>2, <1>6 DEF SysvarAssumption
  <1>8. Rounded(Rounded(n) * t.num) \div Pow2[t.exp] = m
    BY <1>1, <1>4, <1>5 DEF m
  <1> QED BY <1>6, <1>7, <1>8 DEF FloatTimes

\* A threshold of at least 1 takes nothing from a float: both roundings
\* together lose what the first one loses.
LEMMA FloatTimesLoses ==
  ASSUME SysvarAssumption, NEW n \in 0..U64Max,
         NEW t, t.exp \in Nat, t.num \in Nat, t.num >= Pow2[t.exp]
  PROVE  FloatTimes(n, t) >= n - n \div Pow2[Precision]
  <1> DEFINE v == Rounded(n)
             z == Pow2[t.exp]
             p == v * t.num
             w == v * z
             product == Rounded(p) \div z
             least == n - n \div Pow2[Precision]
  <1>1. n \in Nat /\ U64Max \in Nat /\ n <= U64Max
    BY DEF SysvarAssumption
  <1>2. v \in Nat /\ IsFloat(v) /\ least <= v
    BY <1>1, RoundedIsFloat, RoundedLoses
  <1>3. z \in Nat \ {0}
    <2>1. z \in Nat /\ t.exp < z
      BY Pow2Above
    <2> HIDE DEF z
    <2> QED BY <2>1
  <1>4. IsFloat(w) /\ w \in Nat
    <2>1. PICK k, e \in Nat : k <= Pow2[Precision] /\ v = k * Pow2[e]
      BY <1>2 DEF IsFloat
    <2> DEFINE y == Pow2[e]
    <2>2. y * z = Pow2[e + t.exp] /\ e + t.exp \in Nat /\ y \in Nat
      <3> DEFINE f == t.exp
      <3>1. f \in Nat
        OBVIOUS
      <3> HIDE DEF f
      <3>2. y * Pow2[f] = Pow2[e + f]
        BY <3>1, Pow2Sum
      <3>3. e + f \in Nat /\ y \in Nat
        BY <3>1, Pow2Steps
      <3> QED BY <3>2, <3>3 DEF f
    <2> HIDE DEF v, z, y
    <2>3. w = k * (y * z) /\ w \in Nat
      <3>1. v = k * y
        BY <2>1 DEF y
      <3> QED BY <1>2, <1>3, <2>2, <3>1
    <2>4. w = k * Pow2[e + t.exp]
      BY <2>2, <2>3
    <2> HIDE DEF w
    <2> QED BY <2>1, <2>2, <2>3, <2>4 DEF IsFloat
  <1>5. p \in Nat /\ w <= p
    <2>1. t.num >= z
      OBVIOUS
    <2> HIDE DEF v, z
    <2> QED BY <1>2, <1>3, <2>1
  <1>6. w <= Rounded(p) /\ Rounded(p) \in Nat
    <2> HIDE DEF w, p
    <2> QED BY <1>4, <1>5, RoundedAbove, RoundedIsFloat
  <1>7. v <= product
    <2> DEFINE x == Rounded(p)
    <2>1. x \in Nat /\ v * z <= x
      BY <1>6
    <2> HIDE DEF v, z, x
    <2>2. v <= x \div z
      BY <1>2, <1>3, <2>1, MultipleFits
    <2> QED BY <2>2 DEF x
  <1>8. product \in Nat
    <2> DEFINE x == Rounded(p)
    <2>1. x \in Nat
      BY <1>6
    <2> HIDE DEF z, x
    <2>2. x \div z \in Nat
      BY <1>3, <2>1, Divided
    <2> QED BY <2>2 DEF x
  <1>9. least \in Int /\ least <= n
    <2> DEFINE z2 == Pow2[Precision]
               d == n \div z2
    <2>1. z2 \in Nat \ {0}
      <3>1. Precision \in Nat
        BY DEF SysvarAssumption
      <3>2. z2 \in Nat /\ Precision < z2
        BY <3>1, Pow2Above
      <3> HIDE DEF z2
      <3> QED BY <3>1, <3>2
    <2> HIDE DEF z2
    <2>2. d \in Nat
      BY <1>1, <2>1, Divided
    <2>3. least = n - d
      BY DEF z2
    <2> HIDE DEF d, least
    <2> QED BY <1>1, <2>2, <2>3
  <1>10. FloatTimes(n, t) = IF product > U64Max THEN U64Max ELSE product
    BY DEF FloatTimes
  <1> SUFFICES FloatTimes(n, t) >= least
    OBVIOUS
  <1> HIDE DEF least, product, v
  <1> QED BY <1>1, <1>2, <1>7, <1>8, <1>9, <1>10

-----------------------------------------------------------------------------
(* The theorems *)

\* A sysvar and a length that there may be.
SysvarTyped == sysvar \in Sysvar /\ data_len \in DataSize

\* What there is to size is a number.
LEMMA BaseNumber ==
  ASSUME SysvarAssumption, SysvarTyped
  PROVE  Bytes \in Nat /\ Base \in Nat
  <1>1. Overhead \in Nat /\ data_len \in Nat /\ sysvar.rate \in Nat
    <2>1. sysvar.rate \in BytePrice /\ data_len \in DataSize
      BY DEF SysvarTyped, Sysvar
    <2>2. /\ BytePrice \subseteq 0..U64Max /\ DataSize \subseteq Nat
          /\ Overhead \in Nat /\ U64Max \in Nat
      BY DEF SysvarAssumption
    <2>3. sysvar.rate \in 0..U64Max
      BY <2>1, <2>2
    <2>4. data_len \in Nat
      BY <2>1, <2>2
    <2> QED BY <2>2, <2>3, <2>4
  <1>2. Bytes \in Nat
    BY <1>1 DEF Bytes
  <1> QED BY <1>1, <1>2 DEF Base

\* The sysvar and the lengths stay what they may be.
LEMMA SysvarStaysTyped == SysvarSpec => []SysvarTyped
  <1>1. SysvarInit => SysvarTyped
    BY DEF SysvarInit, SysvarTyped
  <1>2. SysvarTyped /\ [ClusterUpdates \/ OtherLength]_sysvarVars => SysvarTyped'
    BY DEF SysvarTyped, ClusterUpdates, OtherLength, sysvarVars, Sysvar
  <1> QED BY <1>1, <1>2, PTL DEF SysvarSpec

\* For words and floats of any width, both layouts and any threshold, the
\* program asks for what the runtime enforces wherever a float holds the
\* product of length and rate (rent_minimum_balance).
THEOREM AskedIsEnforced == SysvarSpec => []AsksWhatTheRuntimeAsks
  <1>1. SysvarTyped => AsksWhatTheRuntimeAsks
    <2> SUFFICES ASSUME SysvarTyped, Base <= Pow2[Precision],
                        NEW minimum \in rent_minimum_balance
                 PROVE  minimum = RuntimeMinimum
      BY DEF AsksWhatTheRuntimeAsks
    <2>1. Base \in Nat /\ SysvarAssumption
      BY BaseNumber, SysvarAssumption
    <2>2. CheckedMul(Bytes, sysvar.rate) = IF Base <= U64Max THEN {Base} ELSE {}
      BY DEF CheckedMul, Base
    <2>3. CASE sysvar.layout = "classic"
      <3> DEFINE t == sysvar.threshold
      <3>1. minimum \in ClassicMinimum
        BY <2>3 DEF rent_minimum_balance, ClassicRead
      <3>2. PICK base \in CheckedMul(Bytes, sysvar.rate) :
              minimum \in IF t = One THEN {base}
                          ELSE IF t = Two THEN CheckedMul(base, 2)
                          ELSE IF t.kind # "finite" THEN {}
                          ELSE {FloatTimes(base, t)}
        BY <3>1 DEF ClassicMinimum
      <3>3. base = Base /\ Base <= U64Max
        BY <2>2, <3>2
      <3>4. RuntimeMinimum = FloatTimes(Base, t)
        BY <2>3 DEF RuntimeMinimum
      <3> HIDE DEF t
      <3>5. CASE t = One
        <4>1. minimum = Base
          BY <3>2, <3>3, <3>5
        <4>2. t.exp = 0 /\ t.num = 1
          BY <3>5 DEF One
        <4>3. t.num * Base = Base
          BY <2>1, <4>2
        <4>4. FloatTimes(Base, t) = t.num * Base
          BY <2>1, <3>3, <4>2, <4>3, FloatTimesExact
        <4> QED BY <3>4, <4>1, <4>3, <4>4
      <3>6. CASE t = Two
        <4>1. minimum \in CheckedMul(Base, 2)
          BY <3>2, <3>3, <3>6 DEF One, Two
        <4>2. minimum = Base * 2 /\ Base * 2 <= U64Max
          BY <4>1 DEF CheckedMul
        <4>3. t.exp = 0 /\ t.num = 2
          BY <3>6 DEF Two
        <4>4. t.num * Base = Base * 2
          BY <2>1, <4>3
        <4>5. FloatTimes(Base, t) = t.num * Base
          BY <2>1, <4>2, <4>3, <4>4, FloatTimesExact
        <4> QED BY <3>4, <4>2, <4>4, <4>5
      <3>7. CASE t # One /\ t # Two
        BY <3>2, <3>3, <3>4, <3>7
      <3> QED BY <3>5, <3>6, <3>7
    <2>4. CASE sysvar.layout # "classic"
      <3>1. minimum \in CheckedMul(Bytes, sysvar.rate)
        BY <2>4 DEF rent_minimum_balance, ClassicRead
      <3>2. minimum = Base
        BY <2>2, <3>1
      <3> QED BY <2>4, <3>2 DEF RuntimeMinimum
    <2> QED BY <2>3, <2>4
  <1> QED BY <1>1, SysvarStaysTyped, PTL

\* For words and floats of any width, it never settles an account to the
\* remainder of an overflow, and has a reason when it fails.
THEOREM OverflowIsRefused == SysvarSpec => []FailsInsteadOfWrapping
  <1>1. SysvarTyped => FailsInsteadOfWrapping
    <2> DEFINE t == sysvar.threshold
               weighed == sysvar.layout = "classic"
               least == Base - Base \div Pow2[Precision]
               product == CheckedMul(Bytes, sysvar.rate)
    <2> SUFFICES ASSUME SysvarTyped
                 PROVE  /\ \A minimum \in rent_minimum_balance :
                             (weighed => t.kind = "finite" /\ t.num >= Pow2[t.exp]) =>
                               minimum >= least
                        /\ rent_minimum_balance = {} =>
                             \/ sysvar.layout = "missing"
                             \/ weighed /\ t.kind # "finite"
                             \/ Base > U64Max
                             \/ weighed /\ t = Two /\ 2 * Base > U64Max
      BY DEF FailsInsteadOfWrapping
    <2>1. /\ Base \in Nat /\ U64Max \in Nat /\ SysvarAssumption
          /\ sysvar \in Sysvar
          /\ t.exp \in Nat /\ t.num \in Nat
          /\ sysvar.layout \in {"classic", "condensed", "missing"}
      BY BaseNumber, SysvarAssumption DEF SysvarAssumption, SysvarTyped, Sysvar
    <2>2. product = IF Base <= U64Max THEN {Base} ELSE {}
      BY DEF CheckedMul, Base
    <2>3. least \in Int /\ least <= Base
      <3> DEFINE z == Pow2[Precision]
                 d == Base \div z
                 b == Base
      <3>1. z \in Nat \ {0}
        <4>1. Precision \in Nat
          BY <2>1 DEF SysvarAssumption
        <4>2. z \in Nat /\ Precision < z
          BY <4>1, Pow2Above
        <4> HIDE DEF z
        <4> QED BY <4>1, <4>2
      <3>2. least = b - d /\ b \in Nat
        BY <2>1
      <3>3. d \in Nat
        <4> HIDE DEF z
        <4> QED BY <2>1, <3>1, Divided
      <3>4. least \in Int /\ least <= b
        <4> HIDE DEF least, d, b
        <4> QED BY <3>2, <3>3
      <3> QED BY <3>4
    <2> HIDE DEF least, product
    <2>4. CASE weighed
      <3>1. rent_minimum_balance =
              UNION {IF t = One THEN {base}
                     ELSE IF t = Two THEN CheckedMul(base, 2)
                     ELSE IF t.kind # "finite" THEN {}
                     ELSE {FloatTimes(base, t)} : base \in product}
        BY <2>4 DEF rent_minimum_balance, ClassicRead, ClassicMinimum, product
      <3> HIDE DEF t
      <3>2. CASE Base <= U64Max
        <4>1. rent_minimum_balance =
                IF t = One THEN {Base}
                ELSE IF t = Two THEN CheckedMul(Base, 2)
                ELSE IF t.kind # "finite" THEN {}
                ELSE {FloatTimes(Base, t)}
          BY <2>2, <3>1, <3>2
        <4>2. CheckedMul(Base, 2) = IF 2 * Base <= U64Max THEN {2 * Base} ELSE {}
          <5>1. Base * 2 = 2 * Base
            BY <2>1
          <5> QED BY <5>1 DEF CheckedMul
        <4>3. ASSUME t.kind = "finite", t.num >= Pow2[t.exp]
              PROVE  FloatTimes(Base, t) >= least
          <5>1. Base \in 0..U64Max
            BY <2>1, <3>2
          <5> QED BY <2>1, <4>3, <5>1, FloatTimesLoses DEF least
        <4>4. ASSUME NEW minimum \in rent_minimum_balance,
                     t.kind = "finite", t.num >= Pow2[t.exp]
              PROVE  minimum >= least
          <5>1. CASE t = One
            <6>1. minimum = Base
              BY <4>1, <4>4, <5>1
            <6> QED BY <2>1, <2>3, <6>1
          <5>2. CASE t # One /\ t = Two
            <6>1. minimum = 2 * Base
              BY <4>1, <4>2, <4>4, <5>2
            <6> QED BY <2>1, <2>3, <6>1
          <5>3. CASE t # One /\ t # Two
            <6>1. minimum = FloatTimes(Base, t)
              BY <4>1, <4>4, <5>3
            <6> QED BY <4>3, <4>4, <6>1
          <5> QED BY <5>1, <5>2, <5>3
        <4>5. ASSUME rent_minimum_balance = {}
              PROVE  t.kind # "finite" \/ (t = Two /\ 2 * Base > U64Max)
          <5>1. CASE t = Two
            <6>1. t # One
              BY <5>1 DEF One, Two
            <6>2. ~(2 * Base <= U64Max)
              BY <4>1, <4>2, <4>5, <5>1, <6>1
            <6> QED BY <2>1, <5>1, <6>2
          <5>2. CASE t # Two
            BY <4>1, <4>5, <5>2
          <5> QED BY <5>1, <5>2
        <4> QED BY <2>4, <4>4, <4>5 DEF t
      <3>3. CASE ~(Base <= U64Max)
        <4>1. rent_minimum_balance = {}
          BY <2>2, <3>1, <3>3
        <4>2. Base > U64Max
          BY <2>1, <3>3
        <4> QED BY <4>1, <4>2
      <3> QED BY <3>2, <3>3
    <2>5. CASE sysvar.layout = "condensed"
      <3>1. rent_minimum_balance = product
        BY <2>5 DEF rent_minimum_balance, ClassicRead, CondensedRead, product
      <3>2. \A minimum \in product : minimum >= least
        BY <2>1, <2>2, <2>3
      <3>3. product = {} => Base > U64Max
        BY <2>1, <2>2
      <3> QED BY <2>5, <3>1, <3>2, <3>3
    <2>6. CASE sysvar.layout = "missing"
      <3>1. rent_minimum_balance = {}
        BY <2>6 DEF rent_minimum_balance, ClassicRead, CondensedRead
      <3> QED BY <2>6, <3>1
    <2> QED BY <2>1, <2>4, <2>5, <2>6
  <1> QED BY <1>1, SysvarStaysTyped, PTL

=============================================================================
