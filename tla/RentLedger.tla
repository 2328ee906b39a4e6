----------------------------- MODULE RentLedger -----------------------------
(***************************************************************************)
(* The lamports behind the accounts: what each instruction of KeyBuffers   *)
(* moves between its payer, the DID account and the key buffer             *)
(* (src/program/src/instructions/shared.rs).  Two things happen that the   *)
(* program does not do: anyone sends lamports to any address, before or    *)
(* after an account is there, and the cluster changes the rent.            *)
(***************************************************************************)
EXTENDS KeyBuffers, Integers, FiniteSetsExt

CONSTANTS
  FragmentLen,  \* the length of a fragment,
  ValueLen,     \* of a service's type and endpoint together,
  ExternalLen,  \* and of an external controller string
  Payer,        \* the wallets that pay
  Wealth,       \* what each of them starts with
  Rate,         \* the values of lamports per byte the cluster may set
  Gift,         \* the amounts strangers send,
  GiftBound     \* to an address until it holds this much

DidAt(s) == <<"bio-did", s>>
BufferAt(s, k) == <<"bio-did-key", s, k>>
PayerAt(p) == <<"wallet", p>>

PayerAddress == {PayerAt(p) : p \in Payer}
DidAddress == {DidAt(s) : s \in Subject}
BufferAddress == {BufferAt(s, k) : s \in Subject, k \in Signer}
Address == PayerAddress \cup DidAddress \cup BufferAddress

ASSUME RentAssumption ==
  /\ IsFiniteSet(Subject) /\ IsFiniteSet(Signer) /\ IsFiniteSet(Payer)
  /\ FragmentLen \in [Fragment -> Nat]
  /\ ValueLen \in [ServiceValue -> Nat]
  /\ ExternalLen \in [External -> Nat]
  /\ Wealth \in Nat
  /\ Rate \subseteq Nat \ {0} /\ Rate # {}
  /\ Gift \subseteq Nat \ {0}
  /\ GiftBound \in Nat

VARIABLES
  lamports,  \* the balance of each address
  rate       \* the rent sysvar: lamports per byte, exemption threshold included

rentVars == <<account, signedBy, buffers, lamports, rate>>

-----------------------------------------------------------------------------
(* Sizes *)

BaseSpace == 74
KeyBufferHeader == 120

VmSpace(m) == 4 + FragmentLen[m.fragment] + 1 + 2 + 4 + Len(m.key)

\* Fragment, type and endpoint, each behind its length.
ServiceSpace(v) == 4 + FragmentLen[v.fragment] + 4 + 4 + ValueLen[v.value]

ExternalSpace(c) == 4 + ExternalLen[c]

\* The length of the account's data: nothing until it is created, and then
\* its serialized document to the byte.
Space(d) ==
  IF d.state = "absent" THEN 0
  ELSE BaseSpace + 32 * Len(d.natives)
       + MapThenSumSet(ExternalSpace, Range(d.others))
       + MapThenSumSet(VmSpace, d.vms)
       + MapThenSumSet(ServiceSpace, d.services)

BufferSpace(b) == KeyBufferHeader + b.header.keyLen

RentMinimum(len) == (128 + len) * rate

-----------------------------------------------------------------------------
(* The rent plumbing.  l is a ledger, a the account and p the payer. *)

Deficit(l, a, len) == IF l[a] < RentMinimum(len) THEN RentMinimum(len) - l[a] ELSE 0

\* Mutated form: a pre-funded address is not provided for.
FundFresh(a, p, len) ==
  /\ lamports[a] = 0
  /\ lamports[p] >= RentMinimum(len)
  /\ lamports' = [lamports EXCEPT ![a] = RentMinimum(len), ![p] = @ - RentMinimum(len)]

\* Mutated form: what is pre-funded is taken to be funded.
FundUnlessGift(a, p, len) ==
  LET price == IF lamports[a] = 0 THEN RentMinimum(len) ELSE 0 IN
  /\ lamports[p] >= price
  /\ lamports' = [lamports EXCEPT ![a] = @ + price, ![p] = @ - price]

\* CreateAccount at an empty address, and at a pre-funded one a Transfer of
\* what is missing, Allocate and Assign.  More than the minimum stays there.
Fund(a, p, len) ==
  LET deficit == Deficit(lamports, a, len) IN
  /\ lamports[p] >= deficit
  /\ lamports' = [lamports EXCEPT ![a] = @ + deficit, ![p] = @ - deficit]

CanSettle(l, a, p, len) == l[p] >= Deficit(l, a, len)

\* Mutated form: the payer gets no refund.
SettledGrowth(l, a, p, len) ==
  [l EXCEPT ![a] = @ + Deficit(l, a, len), ![p] = @ - Deficit(l, a, len)]

\* settle_rent, with the resize before or after it.
Settled(l, a, p, len) ==
  [l EXCEPT ![a] = RentMinimum(len), ![p] = @ + l[a] - RentMinimum(len)]

Settle(a, p, len) ==
  /\ CanSettle(lamports, a, p, len)
  /\ lamports' = Settled(lamports, a, p, len)

\* Mutated form: only the rent is refunded, and a gift stays at the address.
ClosedToMinimum(l, b, p, len) ==
  [l EXCEPT ![p] = @ + RentMinimum(len), ![b] = @ - RentMinimum(len)]

ClosedTo(l, b, p, len) == [l EXCEPT ![p] = @ + l[b], ![b] = 0]

-----------------------------------------------------------------------------
(* The instructions of KeyBuffers, with the wallet p paying *)

DidSpace(s) == Space(account[s])
NewSpace(s) == Space(account'[s])

RentInitialize(s, p) ==
  /\ Initialize(s)
  /\ Fund(DidAt(s), p, NewSpace(s))
  /\ UNCHANGED buffers

RentInitializeOwned(k, n, p) ==
  /\ InitializeOwned(k, n)
  /\ Fund(DidAt(OwnedSubject(k, n)), p, NewSpace(OwnedSubject(k, n)))
  /\ UNCHANGED buffers

\* These resize whatever they do: they grow, or they shrink.
RentResize(s, k, p) ==
  /\ \/ AddVerificationMethod(s, k)
     \/ RemoveVerificationMethod(s, k)
     \/ AddService(s, k)
     \/ RemoveService(s, k)
     \/ Deactivate(s, k)
  /\ Settle(DidAt(s), p, NewSpace(s))
  /\ UNCHANGED buffers

\* These resize, and settle, only if the length changes.
RentReplace(s, k, p) ==
  /\ UpdateService(s, k) \/ SetControllers(s, k)
  /\ IF NewSpace(s) = DidSpace(s)
     THEN UNCHANGED lamports
     ELSE Settle(DidAt(s), p, NewSpace(s))
  /\ UNCHANGED buffers

RentCreateKeyBuffer(s, k, p) ==
  /\ CreateKeyBuffer(s, k)
  /\ \E b \in buffers' \ buffers : Fund(BufferAt(s, k), p, BufferSpace(b))

\* Mutated form: the refund is added to the payer's balance from before the growth.
RentAddFromBufferStale(s, k, p) ==
  /\ AddVerificationMethodFromBuffer(s, k)
  /\ CanSettle(lamports, DidAt(s), p, NewSpace(s))
  /\ lamports' = [Settled(lamports, DidAt(s), p, NewSpace(s))
                   EXCEPT ![p] = lamports[p] + lamports[BufferAt(s, k)],
                          ![BufferAt(s, k)] = 0]

\* The growth is funded before the buffer is refunded.
RentAddFromBuffer(s, k, p) ==
  /\ AddVerificationMethodFromBuffer(s, k)
  /\ CanSettle(lamports, DidAt(s), p, NewSpace(s))
  /\ \E b \in buffers \ buffers' :
       lamports' = ClosedTo(Settled(lamports, DidAt(s), p, NewSpace(s)),
                            BufferAt(s, k), p, BufferSpace(b))

RentCloseKeyBuffer(s, k, p) ==
  /\ CloseKeyBuffer(s, k)
  /\ \E b \in buffers \ buffers' :
       lamports' = ClosedTo(lamports, BufferAt(s, k), p, BufferSpace(b))

\* No payer is among their accounts.
WithoutPayer(s, k) ==
  /\ \/ SetVerificationMethodFlags(s, k) /\ UNCHANGED buffers
     \/ WriteKeyBuffer(s, k)
  /\ UNCHANGED lamports

-----------------------------------------------------------------------------
(* What the program does not do *)

DataLen(a) ==
  IF a \in DidAddress THEN DidSpace(a[2])
  ELSE IF a \in BufferAddress
       THEN MapThenSumSet(BufferSpace, Held(a[2], a[3]))
       ELSE 0

\* The runtime refuses a transfer that leaves its target below the minimum.
Donate(p, a) ==
  /\ \E gift \in Gift :
       /\ lamports[p] >= gift
       /\ lamports[a] + gift <= GiftBound
       /\ lamports[a] + gift >= RentMinimum(DataLen(a))
       /\ lamports' = [lamports EXCEPT ![a] = @ + gift, ![p] = @ - gift]
  /\ UNCHANGED <<account, signedBy, buffers>>

SetRate ==
  /\ rate' \in Rate \ {rate}
  /\ UNCHANGED <<account, signedBy, buffers, lamports>>

RentInit ==
  /\ BufferInit
  /\ lamports = [a \in Address |-> IF a \in PayerAddress THEN Wealth ELSE 0]
  /\ rate \in Rate

RentNext ==
  \/ /\ \/ \E p \in PayerAddress :
             \/ \E s \in Subject : RentInitialize(s, p)
             \/ \E k \in Signer, n \in Nonce : RentInitializeOwned(k, n, p)
             \/ \E s \in Subject, k \in Signer :
                  \/ RentResize(s, k, p)
                  \/ RentReplace(s, k, p)
                  \/ RentCreateKeyBuffer(s, k, p)
                  \/ RentAddFromBuffer(s, k, p)
                  \/ RentCloseKeyBuffer(s, k, p)
        \/ \E s \in Subject, k \in Signer : WithoutPayer(s, k)
        \/ \E p \in PayerAddress, a \in DidAddress \cup BufferAddress : Donate(p, a)
     /\ UNCHANGED rate
  \/ SetRate

RentSpec == RentInit /\ [][RentNext]_rentVars

-----------------------------------------------------------------------------
(* Properties *)

Balance(a) == lamports[a]

\* Over any sequence of creations, resizes, refunds, closes and gifts no
\* lamport is made or lost, and nobody is overdrawn: the direct writes of
\* balances in settle_rent and close_to agree with the system transfers.
Conserved ==
  /\ \A a \in Address : lamports[a] >= 0
  /\ MapThenSumSet(Balance, Address) = Cardinality(Payer) * Wealth

\* Whenever the data of an account gets a new length, through creation, growth,
\* shrinking or an upload, the account is rent exempt at today's rate, even
\* if the rate rose or its address held a gift since the last time.
FundedStep ==
  \A a \in DidAddress \cup BufferAddress :
    DataLen(a)' # DataLen(a) /\ DataLen(a)' # 0 =>
      lamports'[a] >= RentMinimum(DataLen(a))'

ResizesStayExempt == [][FundedStep]_rentVars

\* A resize of an existing DID settles to exactly the minimum, so that gifts,
\* over-funded creations and a fallen rate go back to the payer (settle_rent).
SettledStep ==
  \A s \in Subject :
    account[s].state # "absent" /\ NewSpace(s) # DidSpace(s) =>
      lamports'[DidAt(s)] = RentMinimum(DidSpace(s))'

ResizesSettle == [][SettledStep]_rentVars

\* A gift cannot block a creation: whoever holds what is missing to the
\* minimum can initialize any key's DID, and its owner an owned one, whatever
\* the address holds (the pre-funded branch of materialize).
CreationOpen ==
  \A s \in Subject, p \in PayerAddress :
    /\ account[s].state = "absent"
    /\ lamports[p] >= Deficit(lamports, DidAt(s), Space(InitialDocument(FoundingKey(s))))
    => \/ s \in OnCurve /\ ENABLED RentInitialize(s, p)
       \/ \E k \in Signer, n \in Nonce :
            s = OwnedSubject(k, n) /\ ENABLED RentInitializeOwned(k, n, p)

\* A buffer that goes leaves nothing behind: its rent and what was sent to it
\* are the payer's (close_to).
EmptiedStep ==
  \A b \in buffers \ buffers' :
    Held(b.did, b.authority)' = {} => lamports'[BufferAt(b.did, b.authority)] = 0

ClosedIsEmpty == [][EmptiedStep]_rentVars

\* README.md says: "Every instruction reallocates to the minimal serialized
\* layout and settles the balance to exactly the rent-exempt minimum".  Not
\* all do: set_verification_method_flags and updates of equal length do not
\* settle, and a creation leaves what exceeds the minimum.
SettlesStep ==
  \A s \in Subject :
    account'[s] # account[s] => lamports'[DidAt(s)] = RentMinimum(DidSpace(s))'

EveryInstructionSettles == [][SettlesStep]_rentVars

=============================================================================
