----------------------------- MODULE DidLayout -----------------------------
(***************************************************************************)
(* The DID accounts as bytes: every instruction reads the document through *)
(* the section map and the entry cursors of src/program/src/state.rs, and  *)
(* edits the account in place with the moves of AccountBytes.  account is  *)
(* no longer written by the instructions: it is what a reader of the bytes *)
(* finds, and DidRegistry says what that should be.                        *)
(*                                                                         *)
(* Of the six header fields, version and deactivated are kept; the others  *)
(* are written once or record the clock, and no edit moves the header.     *)
(***************************************************************************)
EXTENDS DidRegistry, AccountBytes, SequencesExt

CONSTANTS
  Spelling,     \* the cells a fragment name is written with
  Address,      \* the cells of the address a subject stands for
  AddressLen    \* 32 in the code, in cells

\* Keys, service values and external controllers are given as the cells they
\* are written with; a value is the pair of a type and an endpoint.
ASSUME LayoutAssumption ==
  /\ Cell \subseteq Nat
  /\ Spelling \in [Fragment -> Seq(Nat)] /\ IsInjective(Spelling)
  /\ ServiceValue \subseteq Seq(Nat) \X Seq(Nat)
  /\ External \subseteq Seq(Nat)
  /\ Address \in [Subject -> Seq(Nat)] /\ IsInjective(Address)
  /\ AddressLen \in Nat /\ \A s \in Subject : Len(Address[s]) = AddressLen

VARIABLE data   \* the data of the account at each subject's address, <<>> if there is none

layoutVars == <<account, signedBy, data>>

-----------------------------------------------------------------------------
(* Encoding *)

OffVersion == 0
OffDeactivated == 1
OffSections == 2
BaseSpace == OffSections + 4

TypeTag == [ed25519 |-> 0, x25519 |-> 1, secp256k1 |-> 2, dilithium5 |-> 3]

Bit == [authentication |-> 1, assertion |-> 2, keyAgreement |-> 4,
        capabilityInvocation |-> 8, capabilityDelegation |-> 16,
        protected |-> 256, reserved |-> 512]

WordOf(flags) == MapThenSumSet(LAMBDA f : Bit[f], flags)

FlagsOf(word) == {f \in Flag : (word \div Bit[f]) % 2 = 1}

VmSpace(m) == 1 + Len(Spelling[m.fragment]) + 1 + 1 + 1 + Len(m.key)

ServiceSpace(v) ==
  1 + Len(Spelling[v.fragment]) + 1 + Len(v.value[1]) + 1 + Len(v.value[2])

VmBytes(m) ==
  Prefixed(Spelling[m.fragment]) \o <<TypeTag[m.type], WordOf(m.flags)>> \o Prefixed(m.key)

ServiceBytes(v) ==
  Prefixed(Spelling[v.fragment]) \o Prefixed(v.value[1]) \o Prefixed(v.value[2])

\* The arguments of set_controllers are byte identical to the two sections.
ControllerBytes(natives, others) ==
  <<Len(natives)>> \o FlattenSeq([i \in DOMAIN natives |-> Address[natives[i]]])
    \o <<Len(others)>> \o FlattenSeq([i \in DOMAIN others |-> Prefixed(others[i])])

InitialBytes(key) ==
  <<1, 0>> \o ControllerBytes(<<>>, <<>>) \o <<1>> \o VmBytes(FoundingMethod(key)) \o <<0>>

-----------------------------------------------------------------------------
(* Reading *)

VmEnd(d) == [p \in Nat |-> LenPrefixed(d, LenPrefixed(d, p) + 2)]

ServiceEnd(d) == [p \in Nat |-> LenPrefixed(d, LenPrefixed(d, LenPrefixed(d, p)))]

AddressesEnd(d, p) == p + 1 + AddressLen * U32(d, p)

\* Where the list ends whose count is at p; end says where an entry ends.
ListEnd(d, end, p) ==
  LET after[n \in Nat] == IF n = 0 THEN p + 1 ELSE end[after[n - 1]]
  IN after[U32(d, p)]

\* Sections::parse: where the four sections begin, and where the last one ends.
Sections(d) ==
  LET oc_count_pos  == AddressesEnd(d, OffSections)
      vm_count_pos  == ListEnd(d, FieldEnd(d), oc_count_pos)
      svc_count_pos == ListEnd(d, VmEnd(d), vm_count_pos)
  IN [nc_items |-> OffSections + 1, oc_count_pos |-> oc_count_pos,
      vm_count_pos |-> vm_count_pos, svc_count_pos |-> svc_count_pos,
      end |-> ListEnd(d, ServiceEnd(d), svc_count_pos)]

\* The walk must account for every byte.
Parses(d) == Sections(d).end = Len(d)

\* The starts of the entries in a window: the cursor stops where the window
\* ends, or at an entry that does not fit in it.
Entries(window, items, end) ==
  LET from[p \in Nat] ==
        IF p >= Len(window) \/ end[p] > Len(window) THEN <<>> ELSE <<p>> \o from[end[p]]
  IN from[items]

VmStarts(d) ==
  LET s == Sections(d)
      window == Slice(d, 0, s.svc_count_pos)
  IN Entries(window, s.vm_count_pos + 1, VmEnd(window))

ServiceStarts(d) ==
  LET s == Sections(d)
      window == Slice(d, 0, s.end)
  IN Entries(window, s.svc_count_pos + 1, ServiceEnd(window))

\* What is written as code, if code means anything.
Decoded(coding, code) ==
  IF code \in Range(coding) THEN CHOOSE x \in DOMAIN coding : coding[x] = code ELSE "nothing"

FlagsPos(d, p) == LenPrefixed(d, p) + 1

VmAt(d, p) ==
  LET f == FlagsPos(d, p) IN
  [fragment |-> Decoded(Spelling, Payload(d, p)),
   type     |-> Decoded(TypeTag, U32(d, f - 1)),
   flags    |-> FlagsOf(U32(d, f)),
   key      |-> Payload(d, f + 1)]

ServiceAt(d, p) ==
  LET t == LenPrefixed(d, p) IN
  [fragment |-> Decoded(Spelling, Payload(d, p)),
   value    |-> <<Payload(d, t), Payload(d, LenPrefixed(d, t))>>]

Vms(d) == LET at == VmStarts(d) IN [i \in DOMAIN at |-> VmAt(d, at[i])]

Services(d) == LET at == ServiceStarts(d) IN [i \in DOMAIN at |-> ServiceAt(d, at[i])]

Natives(d) ==
  LET p == Sections(d).nc_items IN
  [i \in 1..U32(d, OffSections) |->
     Decoded(Address, Slice(d, p + AddressLen * (i - 1), p + AddressLen * i))]

Others(d) ==
  LET s == Sections(d)
      window == Slice(d, 0, s.vm_count_pos)
      at == Entries(window, s.oc_count_pos + 1, FieldEnd(window))
  IN [i \in DOMAIN at |-> Payload(d, at[i])]

\* What DidView::parse makes of an account: nothing at all of one that does
\* not end where its last entry does.
DocumentIn(d) ==
  IF d = <<>> THEN NoAccount
  ELSE IF ~Parses(d) THEN [NoAccount EXCEPT !.state = "unreadable"]
  ELSE [state    |-> IF U32(d, OffDeactivated) = 0 THEN "active" ELSE "deactivated",
        version  |-> U32(d, OffVersion),
        natives  |-> Natives(d),
        others   |-> Others(d),
        vms      |-> Range(Vms(d)),
        services |-> Range(Services(d))]

-----------------------------------------------------------------------------
(* The instructions *)

Touched(d) ==
  Patch(d, OffVersion, <<IF U32(d, OffVersion) < MaxVersion
                         THEN U32(d, OffVersion) + 1 ELSE MaxVersion>>)

Write(s, d) ==
  /\ data' = [data EXCEPT ![s] = d]
  /\ account' = [account EXCEPT ![s] = DocumentIn(d)]

\* touch comes before the resize that ends a removal: no move reaches the header.
Edit(s, k, d) ==
  /\ Write(s, Touched(d))
  /\ signedBy' = {k}

InitializeBytes(s) ==
  /\ s \in OnCurve
  /\ data[s] = <<>>
  /\ Write(s, InitialBytes(s))
  /\ signedBy' = {}

InitializeOwnedBytes(k, n) ==
  /\ OwnedSubject(k, n) \in Subject
  /\ data[OwnedSubject(k, n)] = <<>>
  /\ Write(OwnedSubject(k, n), InitialBytes(k))
  /\ signedBy' = {k}

\* The same edit lands a key from a buffer.
AddVmBytes(s, k) ==
  LET d == data[s]
      at == Sections(d)
  IN /\ Authorized(s, k)
     /\ \E m \in MethodInput :
          /\ CheckNewMethod(account[s], m, Len(m.key))
          /\ CheckNewKey(m, m.key, k)
          /\ Edit(s, k,
               Patch(InsertEntry(d, at.svc_count_pos, VmSpace(m), VmBytes(m)),
                     at.vm_count_pos, <<U32(d, at.vm_count_pos) + 1>>))

AuthorityCountIn(d) == Cardinality({i \in DOMAIN Vms(d) : IsAuthorityMethod(Vms(d)[i])})

RemoveVmBytes(s, k) ==
  LET d == data[s]
      at == Sections(d)
  IN /\ Authorized(s, k)
     /\ \E p \in Range(VmStarts(d)) :
          LET m == VmAt(d, p) IN
          /\ IsProtected(m) => m.key = k
          /\ IsAuthorityMethod(m) => AuthorityCountIn(d) > 1
          /\ Edit(s, k, Patch(RemoveSpan(d, p, VmEnd(d)[p]),
                               at.vm_count_pos, <<U32(d, at.vm_count_pos) - 1>>))

SetFlagsBytes(s, k) ==
  LET d == data[s] IN
  /\ Authorized(s, k)
  /\ \E p \in Range(VmStarts(d)), flags \in FlagInput :
       LET m == VmAt(d, p)
           changed == [m EXCEPT !.flags = flags]
       IN /\ IsProtected(m) \/ IsProtected(changed) => m.key = k
          /\ ValidVmFlags(m.type, flags)
          /\ IsAuthorityMethod(m) /\ ~CanInvoke(changed) => AuthorityCountIn(d) > 1
          /\ Edit(s, k, Patch(d, FlagsPos(d, p), <<WordOf(flags)>>))

NewService == [fragment: ValidFragment, value: ValidServiceValue]

AddServiceBytes(s, k) ==
  LET d == data[s]
      pos == Sections(d).svc_count_pos
  IN /\ Authorized(s, k)
     /\ U32(d, pos) < MaxServices
     /\ \E v \in NewService :
          /\ FragmentFree(account[s], v.fragment)
          /\ Edit(s, k, Patch(AppendEntry(d, ServiceSpace(v), ServiceBytes(v)),
                               pos, <<U32(d, pos) + 1>>))

\* Mutated form: the entry is removed and written again at the end.
UpdateServiceMoving(s, k) ==
  LET d == data[s] IN
  /\ Authorized(s, k)
  /\ \E p \in Range(ServiceStarts(d)), value \in ValidServiceValue :
       LET v == [ServiceAt(d, p) EXCEPT !.value = value] IN
       Edit(s, k, AppendEntry(RemoveSpan(d, p, ServiceEnd(d)[p]),
                               ServiceSpace(v), ServiceBytes(v)))

UpdateServiceBytes(s, k) ==
  LET d == data[s] IN
  /\ Authorized(s, k)
  /\ \E p \in Range(ServiceStarts(d)), value \in ValidServiceValue :
       LET v == [ServiceAt(d, p) EXCEPT !.value = value] IN
       Edit(s, k, ReplaceSpan(d, p, ServiceEnd(d)[p], ServiceSpace(v), ServiceBytes(v)))

RemoveServiceBytes(s, k) ==
  LET d == data[s]
      pos == Sections(d).svc_count_pos
  IN /\ Authorized(s, k)
     /\ \E p \in Range(ServiceStarts(d)) :
          Edit(s, k, Patch(RemoveSpan(d, p, ServiceEnd(d)[p]),
                            pos, <<U32(d, pos) - 1>>))

SetControllersBytes(s, k) ==
  LET d == data[s] IN
  /\ Authorized(s, k)
  /\ \E natives \in ControllerInput, others \in OtherInput :
       LET bytes == ControllerBytes(natives, others) IN
       /\ ValidControllers(s, natives, others)
       /\ Edit(s, k, ReplaceSpan(d, OffSections, Sections(d).vm_count_pos,
                                  Len(bytes), bytes))

\* The flag and the four counts that become the whole tail, then shrink.
DeactivateBytes(s, k) ==
  /\ Authorized(s, k)
  /\ Edit(s, k, Resize(Patch(data[s], OffDeactivated, <<1, 0, 0, 0, 0>>), BaseSpace))

LayoutInit ==
  /\ Init
  /\ data = [s \in Subject |-> <<>>]

LayoutNext ==
  \/ \E s \in Subject : InitializeBytes(s)
  \/ \E k \in Signer, n \in Nonce : InitializeOwnedBytes(k, n)
  \/ \E s \in Subject, k \in Signer :
       \/ AddVmBytes(s, k)
       \/ RemoveVmBytes(s, k)
       \/ SetFlagsBytes(s, k)
       \/ AddServiceBytes(s, k)
       \/ UpdateServiceBytes(s, k)
       \/ RemoveServiceBytes(s, k)
       \/ SetControllersBytes(s, k)
       \/ DeactivateBytes(s, k)

LayoutSpec == LayoutInit /\ [][LayoutNext]_layoutVars

-----------------------------------------------------------------------------
(* Properties *)

Serialized(d) ==
  <<U32(d, OffVersion), U32(d, OffDeactivated)>> \o ControllerBytes(Natives(d), Others(d))
    \o <<Len(Vms(d))>> \o FlattenSeq([i \in DOMAIN Vms(d) |-> VmBytes(Vms(d)[i])])
    \o <<Len(Services(d))>>
    \o FlattenSeq([i \in DOMAIN Services(d) |-> ServiceBytes(Services(d)[i])])

\* "Accounts are exact-size at all times" (README.md): after any sequence of
\* edits an account is the serialization of the document that is read from it,
\* no byte more and none stale, so the counts, the lengths and the entries
\* found by their cursors agree (Sections::parse, VmIter, SvcIter).
ExactlySerialized ==
  \A s \in Subject : data[s] # <<>> => Parses(data[s]) /\ data[s] = Serialized(data[s])

OtherSpace(c) == 1 + Len(c)

\* What the sizes of a document's entries come to (vm_space, service_space).
DocumentSpace(d) ==
  IF d.state = "absent" THEN 0
  ELSE BaseSpace + AddressLen * Len(d.natives)
       + MapThenSumSet(OtherSpace, Range(d.others))
       + MapThenSumSet(VmSpace, d.vms)
       + MapThenSumSet(ServiceSpace, d.services)

\* The length that resizes leave, each by the size of one entry, is always the
\* size of the whole document: rent is paid for every entry, and for no other
\* (grow, shrink).  No two entries are the same, or one would be paid twice.
LengthIsSpace == \A s \in Subject : Len(data[s]) = DocumentSpace(account[s])

Names(entries) == [i \in DOMAIN entries |-> entries[i].fragment]

KeepsPlaces(old, new) ==
  \/ new = old
  \/ new = <<>>
  \/ Len(new) > Len(old) /\ old = Front(new)
  \/ \E i \in DOMAIN old : new = RemoveAt(old, i)

\* An edit of one entry leaves the others in their order, and an updated or
\* re-flagged entry in its place (update_service: "The entry keeps its place").
PlacesStep ==
  \A s \in Subject :
    data[s] # <<>> =>
    /\ KeepsPlaces(Names(Vms(data[s])), Names(Vms(data'[s])))
    /\ KeepsPlaces(Names(Services(data[s])), Names(Services(data'[s])))

PlacesKept == [][PlacesStep]_layoutVars

\* Read back through the section map, every in-place edit is the document
\* edit of DidRegistry: it never panics, loses the tail, or touches another
\* entry (insert_vm, write_service, and the moves of the instructions).
BytesAreDocuments == Spec

=============================================================================
