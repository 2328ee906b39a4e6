-------------------------- MODULE Registry_proofs --------------------------
(***************************************************************************)
(* Proofs about DidRegistry, for every set of keys, subjects and inputs    *)
(* and every limit.  A step rewrites one account: Create writes the        *)
(* founding document, every other instruction is Update(s, k, d) with the  *)
(* edited document d.  So each invariant is shown of d, and the two frame  *)
(* lemmas carry it to the next state.  At the end, KeyBuffers.             *)
(***************************************************************************)
EXTENDS KeyBuffers, FiniteSetTheorems, TLAPS

-----------------------------------------------------------------------------
(* Frames *)

\* Touch changes the version alone, and keeps it within its width.
LEMMA TouchKeeps ==
  ASSUME NEW d \in Document
  PROVE  /\ Touch(d) \in Document
         /\ Touch(d).state = d.state
         /\ Touch(d).vms = d.vms
         /\ Touch(d).services = d.services
         /\ Touch(d).natives = d.natives
         /\ Touch(d).others = d.others
  <1> DEFINE v == IF d.version < MaxVersion THEN d.version + 1 ELSE MaxVersion
  <1>1. v \in 0..MaxVersion
    BY DocumentAssumption DEF Document
  <1>2. Touch(d) = [d EXCEPT !.version = v]
    BY DEF Touch
  <1> HIDE DEF v
  <1> QED BY <1>1, <1>2 DEF Document

\* Update writes the account of s and no other.
LEMMA UpdateFrame ==
  ASSUME account \in [Subject -> Document],
         NEW s \in Subject, NEW k \in Signer, NEW d \in Document,
         Update(s, k, d)
  PROVE  /\ account' \in [Subject -> Document]
         /\ account'[s] = Touch(d)
         /\ \A t \in Subject \ {s} : account'[t] = account[t]
         /\ signedBy' = {k}
  BY TouchKeeps DEF Update

\* Create writes the account of s and no other, around a key.
LEMMA CreateFrame ==
  ASSUME account \in [Subject -> Document],
         NEW s \in Subject, NEW key \in Key, Create(s, key)
  PROVE  /\ InitialDocument(key) \in Document
         /\ IsFiniteSet(InitialDocument(key).vms)
         /\ account' \in [Subject -> Document]
         /\ account'[s] = InitialDocument(key)
         /\ \A t \in Subject \ {s} : account'[t] = account[t]
  <1>1. InitialDocument(key) \in Document
    <2>1. FoundingMethod(key) \in Method
      BY DocumentAssumption
      DEF FoundingMethod, Method, Material, VmType, Flag, ValidFlags, VmRelationship
    <2> QED BY <2>1, DocumentAssumption DEF InitialDocument, Document
  <1>2. IsFiniteSet(InitialDocument(key).vms)
    BY FS_Singleton DEF InitialDocument
  <1> QED BY <1>1, <1>2 DEF Create

-----------------------------------------------------------------------------
(* What a step does to the methods *)

\* d is what the instruction makes of the document of s, under k.
Adds(s, k, d) ==
  \E m \in Method :
    /\ CheckNewMethod(account[s], m, Len(m.key))
    /\ CheckNewKey(m, m.key, k)
    /\ d = [account[s] EXCEPT !.vms = @ \cup {m}]

Removes(s, k, d) ==
  \E m \in account[s].vms :
    /\ IsProtected(m) => m.key = k
    /\ IsAuthorityMethod(m) => AuthorityCount(account[s]) > 1
    /\ d = [account[s] EXCEPT !.vms = @ \ {m}]

Reflags(s, k, d) ==
  \E m \in account[s].vms, flags \in SUBSET Flag :
    LET changed == [m EXCEPT !.flags = flags] IN
    /\ IsProtected(m) \/ IsProtected(changed) => m.key = k
    /\ ValidVmFlags(m.type, flags)
    /\ IsAuthorityMethod(m) /\ ~CanInvoke(changed) => AuthorityCount(account[s]) > 1
    /\ d = [account[s] EXCEPT !.vms = (@ \ {m}) \cup {changed}]

EditsServices(s, d) ==
  \E services \in SUBSET Service :
    /\ d = [account[s] EXCEPT !.services = services]
    /\ \/ \E v \in Service :
            /\ Cardinality(account[s].services) < MaxServices
            /\ FragmentFree(account[s], v.fragment)
            /\ services = account[s].services \cup {v}
       \/ \E v \in account[s].services, w \in Service :
            /\ w.fragment = v.fragment
            /\ services = (account[s].services \ {v}) \cup {w}
       \/ \E v \in account[s].services : services = account[s].services \ {v}

EditsLists(s, d) ==
  \E natives \in Seq(Subject), others \in Seq(External) :
    /\ ValidControllers(s, natives, others)
    /\ d = [account[s] EXCEPT !.natives = natives, !.others = others]

KeepsMethods(s, d) ==
  /\ d.vms = account[s].vms
  /\ d.state = account[s].state
  /\ d.natives = account[s].natives \/ s \notin Range(d.natives)
  /\ EditsServices(s, d) \/ EditsLists(s, d)

Edits(s, k, d) ==
  \/ Adds(s, k, d)
  \/ Removes(s, k, d)
  \/ Reflags(s, k, d)
  \/ KeepsMethods(s, d)
  \/ d = Tombstone(account[s])

\* Created documents hold a key that can sign, and it is the founding key.
Creates(s, key) ==
  /\ Create(s, key)
  /\ key = FoundingKey(s)
  /\ key \in OnCurve \cup Signer
  /\ signedBy' = IF s \in OnCurve THEN {} ELSE {key}

LEMMA AddedDocument ==
  ASSUME NEW d \in Document, NEW m \in Method
  PROVE  [d EXCEPT !.vms = @ \cup {m}] \in Document
  BY DEF Document

LEMMA EditedDocument ==
  ASSUME NEW d \in Document, NEW methods \in SUBSET Method
  PROVE  [d EXCEPT !.vms = methods] \in Document
  BY DEF Document

LEMMA ServedDocument ==
  ASSUME NEW d \in Document, NEW services \in SUBSET Service
  PROVE  /\ [d EXCEPT !.services = services] \in Document
         /\ [d EXCEPT !.services = services].vms = d.vms
         /\ [d EXCEPT !.services = services].state = d.state
         /\ [d EXCEPT !.services = services].natives = d.natives
  BY DEF Document

LEMMA TombstoneDocument ==
  ASSUME NEW d \in Document
  PROVE  /\ Tombstone(d) \in Document
         /\ Tombstone(d).vms = {}
         /\ Tombstone(d).state = "deactivated"
         /\ Tombstone(d).natives = <<>>
  BY DEF Document, Tombstone

LEMMA NewMethodTyped ==
  ASSUME NEW m \in MethodInput, m.type \in VmType
  PROVE  m \in Method
  BY RegistryAssumption DEF Method

LEMMA ReflaggedTyped ==
  ASSUME NEW m \in Method, NEW flags \in SUBSET Flag
  PROVE  /\ [m EXCEPT !.flags = flags] \in Method
         /\ [m EXCEPT !.flags = flags].flags = flags
         /\ [m EXCEPT !.flags = flags].key = m.key
         /\ [m EXCEPT !.flags = flags].type = m.type
         /\ [m EXCEPT !.flags = flags].fragment = m.fragment
  BY DEF Method

\* Every step creates one document or edits one.
LEMMA StepCases ==
  ASSUME TypeOK, Next
  PROVE  \/ \E s \in Subject, key \in Key : Creates(s, key)
         \/ \E s \in Subject, k \in Signer, d \in Document :
              Authorized(s, k) /\ Update(s, k, d) /\ Edits(s, k, d)
  <1>0. Signer \subseteq Key /\ OnCurve \subseteq Key
    BY RegistryAssumption, DocumentAssumption
  <1>1. ASSUME NEW s \in Subject, Initialize(s)
        PROVE  \E key \in Key : Creates(s, key)
    BY <1>1, <1>0 DEF Initialize, Creates, FoundingKey
  <1>2. ASSUME NEW k \in Signer, NEW n \in Nonce, InitializeOwned(k, n)
        PROVE  Creates(OwnedSubject(k, n), k) /\ OwnedSubject(k, n) \in Subject
    BY <1>2, <1>0, RegistryAssumption
    DEF InitializeOwned, Creates, FoundingKey, OwnedSubject
  <1>3. ASSUME NEW s \in Subject, NEW k \in Signer,
               \/ AddVerificationMethod(s, k)
               \/ RemoveVerificationMethod(s, k)
               \/ SetVerificationMethodFlags(s, k)
               \/ AddService(s, k)
               \/ UpdateService(s, k)
               \/ RemoveService(s, k)
               \/ SetControllers(s, k)
               \/ Deactivate(s, k)
        PROVE  \E d \in Document : Authorized(s, k) /\ Update(s, k, d) /\ Edits(s, k, d)
    <2> DEFINE doc == account[s]
    <2>0. doc \in Document
      BY DEF TypeOK
    <2>1. CASE AddVerificationMethod(s, k)
      <3>1. PICK m \in MethodInput : InsertVm(s, k, m)
        BY <2>1 DEF AddVerificationMethod
      <3>2. m \in Method
        BY <3>1, NewMethodTyped DEF InsertVm, CheckNewMethod
      <3>3. [doc EXCEPT !.vms = @ \cup {m}] \in Document
        BY <2>0, <3>2, AddedDocument
      <3> QED BY <2>1, <3>1, <3>2, <3>3 DEF AddVerificationMethod, InsertVm, Edits, Adds
    <2>2. CASE RemoveVerificationMethod(s, k)
      <3>1. PICK m \in doc.vms :
              /\ IsProtected(m) => m.key = k
              /\ IsAuthorityMethod(m) => AuthorityCount(doc) > 1
              /\ Update(s, k, [doc EXCEPT !.vms = @ \ {m}])
        BY <2>2 DEF RemoveVerificationMethod
      <3>2. [doc EXCEPT !.vms = @ \ {m}] \in Document
        BY <2>0 DEF Document
      <3> QED BY <2>2, <3>1, <3>2 DEF RemoveVerificationMethod, Edits, Removes
    <2>3. CASE SetVerificationMethodFlags(s, k)
      <3> DEFINE Changed(m, flags) == [m EXCEPT !.flags = flags]
      <3>1. PICK m \in doc.vms, flags \in FlagInput :
              /\ IsProtected(m) \/ IsProtected(Changed(m, flags)) => m.key = k
              /\ ValidVmFlags(m.type, flags)
              /\ IsAuthorityMethod(m) /\ ~CanInvoke(Changed(m, flags))
                   => AuthorityCount(doc) > 1
              /\ Update(s, k, [doc EXCEPT !.vms = (@ \ {m}) \cup {Changed(m, flags)}])
        BY <2>3 DEF SetVerificationMethodFlags
      <3>2. flags \in SUBSET Flag /\ m \in Method
        BY <2>0, RegistryAssumption DEF Document
      <3>3. Changed(m, flags) \in Method
        BY <3>2, ReflaggedTyped
      <3>4. [doc EXCEPT !.vms = (@ \ {m}) \cup {Changed(m, flags)}] \in Document
        BY <2>0, <3>3 DEF Document
      <3> QED BY <2>3, <3>1, <3>2, <3>4 DEF SetVerificationMethodFlags, Edits, Reflags
    <2>4. CASE AddService(s, k)
      <3>1. PICK f \in ValidFragment, v \in ValidServiceValue :
              /\ Cardinality(doc.services) < MaxServices
              /\ FragmentFree(doc, f)
              /\ Update(s, k, [doc EXCEPT
                   !.services = @ \cup {[fragment |-> f, value |-> v]}])
        BY <2>4 DEF AddService
      <3> DEFINE w == [fragment |-> f, value |-> v]
      <3>2. w \in Service /\ w.fragment = f
        BY DocumentAssumption DEF Service
      <3> HIDE DEF w
      <3>3. doc.services \cup {w} \in SUBSET Service
        BY <2>0, <3>2 DEF Document
      <3> DEFINE d == [doc EXCEPT !.services = doc.services \cup {w}]
      <3>4. d \in Document /\ d.vms = doc.vms /\ d.state = doc.state /\ d.natives = doc.natives
        BY <2>0, <3>3, ServedDocument
      <3>5. EditsServices(s, d)
        BY <3>1, <3>2, <3>3 DEF EditsServices
      <3>6. Authorized(s, k) /\ Update(s, k, d)
        BY <2>4, <3>1 DEF AddService, w
      <3> HIDE DEF d
      <3> QED BY <3>4, <3>5, <3>6 DEF Edits, KeepsMethods
    <2>5. CASE UpdateService(s, k)
      <3>1. PICK service \in doc.services, v \in ValidServiceValue :
              Update(s, k, [doc EXCEPT
                !.services = (@ \ {service}) \cup {[service EXCEPT !.value = v]}])
        BY <2>5 DEF UpdateService
      <3> DEFINE w == [service EXCEPT !.value = v]
      <3>2. w \in Service /\ w.fragment = service.fragment
        BY <2>0, DocumentAssumption DEF Document, Service
      <3> HIDE DEF w
      <3>3. (doc.services \ {service}) \cup {w} \in SUBSET Service
        BY <2>0, <3>2 DEF Document
      <3> DEFINE d == [doc EXCEPT !.services = (doc.services \ {service}) \cup {w}]
      <3>4. d \in Document /\ d.vms = doc.vms /\ d.state = doc.state /\ d.natives = doc.natives
        BY <2>0, <3>3, ServedDocument
      <3>5. EditsServices(s, d)
        BY <3>2, <3>3 DEF EditsServices
      <3>6. Authorized(s, k) /\ Update(s, k, d)
        BY <2>5, <3>1 DEF UpdateService, w
      <3> HIDE DEF d
      <3> QED BY <3>4, <3>5, <3>6 DEF Edits, KeepsMethods
    <2>6. CASE RemoveService(s, k)
      <3>1. PICK service \in doc.services :
              Update(s, k, [doc EXCEPT !.services = @ \ {service}])
        BY <2>6 DEF RemoveService
      <3>2. doc.services \ {service} \in SUBSET Service
        BY <2>0 DEF Document
      <3> DEFINE d == [doc EXCEPT !.services = doc.services \ {service}]
      <3>3. d \in Document /\ d.vms = doc.vms /\ d.state = doc.state /\ d.natives = doc.natives
        BY <2>0, <3>2, ServedDocument
      <3>4. EditsServices(s, d)
        BY <3>2 DEF EditsServices
      <3>5. Authorized(s, k) /\ Update(s, k, d)
        BY <2>6, <3>1 DEF RemoveService
      <3> HIDE DEF d
      <3> QED BY <3>3, <3>4, <3>5 DEF Edits, KeepsMethods
    <2>7. CASE SetControllers(s, k)
      <3>1. PICK natives \in ControllerInput, others \in OtherInput :
              /\ ValidControllers(s, natives, others)
              /\ Update(s, k, [doc EXCEPT !.natives = natives, !.others = others])
        BY <2>7 DEF SetControllers
      <3>2. natives \in Seq(Subject) /\ others \in Seq(External)
        BY RegistryAssumption
      <3> DEFINE d == [doc EXCEPT !.natives = natives, !.others = others]
      <3>3. d \in Document /\ d.vms = doc.vms /\ d.state = doc.state /\ d.natives = natives
        BY <2>0, <3>2 DEF Document
      <3>4. Authorized(s, k) /\ Update(s, k, d)
        BY <2>7, <3>1 DEF SetControllers
      <3>5. s \notin Range(natives)
        BY <3>1 DEF ValidControllers
      <3>6. EditsLists(s, d)
        BY <3>1, <3>2 DEF EditsLists
      <3> HIDE DEF d
      <3> QED BY <3>3, <3>4, <3>5, <3>6 DEF Edits, KeepsMethods
    <2>8. CASE Deactivate(s, k)
      BY <2>0, <2>8, TombstoneDocument DEF Deactivate, Edits
    <2> QED BY <1>3, <2>1, <2>2, <2>3, <2>4, <2>5, <2>6, <2>7, <2>8
  <1> QED BY <1>0, <1>1, <1>2, <1>3 DEF Next

-----------------------------------------------------------------------------
(* Type correctness *)

LEMMA EditedFinite ==
  ASSUME TypeOK, NEW s \in Subject, NEW k \in Signer, NEW d \in Document, Edits(s, k, d)
  PROVE  IsFiniteSet(d.vms)
  <1>0. account[s] \in Document /\ IsFiniteSet(account[s].vms)
    BY DEF TypeOK
  <1>1. CASE Adds(s, k, d)
    <2>1. PICK m \in Method : d = [account[s] EXCEPT !.vms = @ \cup {m}]
      BY <1>1 DEF Adds
    <2>2. d.vms = account[s].vms \cup {m}
      BY <1>0, <2>1 DEF Document
    <2> QED BY <1>0, <2>2, FS_AddElement
  <1>2. CASE Removes(s, k, d)
    <2>1. PICK m \in account[s].vms : d = [account[s] EXCEPT !.vms = @ \ {m}]
      BY <1>2 DEF Removes
    <2>2. d.vms = account[s].vms \ {m}
      BY <1>0, <2>1 DEF Document
    <2> QED BY <1>0, <2>2, FS_RemoveElement
  <1>3. CASE Reflags(s, k, d)
    <2>1. PICK m \in account[s].vms, flags \in SUBSET Flag :
            d = [account[s] EXCEPT !.vms = (@ \ {m}) \cup {[m EXCEPT !.flags = flags]}]
      BY <1>3 DEF Reflags
    <2>2. d.vms = (account[s].vms \ {m}) \cup {[m EXCEPT !.flags = flags]}
      BY <1>0, <2>1 DEF Document
    <2>3. IsFiniteSet(account[s].vms \ {m})
      BY <1>0, FS_RemoveElement
    <2> DEFINE changed == [m EXCEPT !.flags = flags]
    <2> HIDE DEF changed
    <2>4. IsFiniteSet((account[s].vms \ {m}) \cup {changed})
      BY <2>3, FS_AddElement
    <2> QED BY <2>2, <2>4 DEF changed
  <1>4. CASE KeepsMethods(s, d)
    BY <1>0, <1>4 DEF KeepsMethods
  <1>5. CASE d = Tombstone(account[s])
    BY <1>0, <1>5, TombstoneDocument, FS_EmptySet
  <1> QED BY <1>1, <1>2, <1>3, <1>4, <1>5 DEF Edits

LEMMA TypeInit == Init => TypeOK
  <1> SUFFICES ASSUME Init PROVE TypeOK
    OBVIOUS
  <1>1. NoAccount \in Document /\ NoAccount.vms = {}
    BY DocumentAssumption DEF NoAccount, Document
  <1> QED BY <1>1, FS_EmptySet DEF Init, TypeOK

LEMMA TypeStep ==
  ASSUME TypeOK, [Next]_vars
  PROVE  TypeOK'
  <1>0. Signer \subseteq Key /\ OnCurve \subseteq Key
    BY RegistryAssumption, DocumentAssumption
  <1>1. ASSUME NEW s \in Subject, NEW key \in Key, Creates(s, key)
        PROVE  TypeOK'
    BY <1>0, <1>1, CreateFrame DEF Creates, TypeOK
  <1>2. ASSUME NEW s \in Subject, NEW k \in Signer, NEW d \in Document,
               Update(s, k, d), Edits(s, k, d)
        PROVE  TypeOK'
    BY <1>0, <1>2, UpdateFrame, TouchKeeps, EditedFinite DEF TypeOK
  <1>3. CASE UNCHANGED vars
    BY <1>3 DEF vars, TypeOK
  <1> QED BY <1>1, <1>2, <1>3, StepCases

\* Every reachable account is a well-typed document with finitely many
\* methods, whatever instructions ran.
THEOREM TypeCorrect == Spec => []TypeOK
  BY TypeInit, TypeStep, PTL DEF Spec

-----------------------------------------------------------------------------
(* No DID is orphaned *)

LEMMA FoundingMethodSound ==
  ASSUME NEW key \in Key
  PROVE  /\ IsAuthorityMethod(FoundingMethod(key))
         /\ IsProtected(FoundingMethod(key))
         /\ FoundingMethod(key).key = key
         /\ FoundingMethod(key).type = "ed25519"
  BY DEF FoundingMethod, IsAuthorityMethod, IsProtected, CanInvoke,
         ValidFlags, VmRelationship

\* The check authority_count() > 1 leaves another authority.
LEMMA AnotherOne ==
  ASSUME NEW S, IsFiniteSet(S), Cardinality(S) > 1, NEW x
  PROVE  \E y \in S : y # x
  <1> SUFFICES ASSUME \A y \in S : y = x PROVE FALSE
    OBVIOUS
  <1>1. S \in SUBSET {x}
    OBVIOUS
  <1>2. IsFiniteSet({x}) /\ Cardinality({x}) = 1
    BY FS_Singleton
  <1>3. Cardinality(S) \in Nat /\ Cardinality(S) <= 1
    BY <1>1, <1>2, FS_Subset, FS_CardinalityType
  <1> QED BY <1>3

LEMMA AuthorityCounted ==
  ASSUME TypeOK, NEW s \in Subject, AuthorityCount(account[s]) > 1, NEW m
  PROVE  \E a \in Authorities(account[s]) : a # m
  <1>1. Authorities(account[s]) \in SUBSET account[s].vms
    BY DEF Authorities
  <1>2. IsFiniteSet(Authorities(account[s]))
    BY <1>1, FS_Subset DEF TypeOK
  <1> QED BY <1>2, AnotherOne DEF AuthorityCount

\* An edit of a document with an authority leaves one, or a tombstone.
LEMMA EditedAuthority ==
  ASSUME TypeOK, NEW s \in Subject, NEW k \in Signer, NEW d \in Document,
         Edits(s, k, d), Authorities(account[s]) # {}
  PROVE  d.state = "active" => Authorities(d) # {}
  <1>0. account[s] \in Document
    BY DEF TypeOK
  <1>1. CASE Adds(s, k, d)
    <2>1. PICK m \in Method : d = [account[s] EXCEPT !.vms = @ \cup {m}]
      BY <1>1 DEF Adds
    <2>2. d.vms = account[s].vms \cup {m}
      BY <1>0, <2>1 DEF Document
    <2> QED BY <2>2 DEF Authorities
  <1>2. CASE Removes(s, k, d)
    <2>1. PICK m \in account[s].vms :
            /\ IsAuthorityMethod(m) => AuthorityCount(account[s]) > 1
            /\ d = [account[s] EXCEPT !.vms = @ \ {m}]
      BY <1>2 DEF Removes
    <2>2. d.vms = account[s].vms \ {m}
      BY <1>0, <2>1 DEF Document
    <2>3. PICK a \in Authorities(account[s]) : a # m
      BY <2>1, AuthorityCounted DEF Authorities
    <2> QED BY <2>2, <2>3 DEF Authorities
  <1>3. CASE Reflags(s, k, d)
    <2> DEFINE Changed(m, flags) == [m EXCEPT !.flags = flags]
    <2>1. PICK m \in account[s].vms, flags \in SUBSET Flag :
            /\ IsAuthorityMethod(m) /\ ~CanInvoke(Changed(m, flags))
                 => AuthorityCount(account[s]) > 1
            /\ d = [account[s] EXCEPT !.vms = (@ \ {m}) \cup {Changed(m, flags)}]
      BY <1>3 DEF Reflags
    <2>2. d.vms = (account[s].vms \ {m}) \cup {Changed(m, flags)}
      BY <1>0, <2>1 DEF Document
    <2>3. Changed(m, flags).type = m.type
      BY <1>0, ReflaggedTyped DEF Document
    <2>4. CASE IsAuthorityMethod(m) /\ CanInvoke(Changed(m, flags))
      <3> HIDE DEF Changed
      <3> QED BY <2>2, <2>3, <2>4 DEF Authorities, IsAuthorityMethod
    <2>5. CASE ~(IsAuthorityMethod(m) /\ CanInvoke(Changed(m, flags)))
      <3>1. PICK a \in Authorities(account[s]) : a # m
        BY <2>1, <2>5, AuthorityCounted DEF Authorities
      <3> HIDE DEF Changed
      <3> QED BY <2>2, <3>1 DEF Authorities
    <2> QED BY <2>4, <2>5
  <1>4. CASE KeepsMethods(s, d)
    BY <1>4 DEF KeepsMethods, Authorities
  <1>5. CASE d = Tombstone(account[s])
    BY <1>0, <1>5, TombstoneDocument
  <1> QED BY <1>1, <1>2, <1>3, <1>4, <1>5 DEF Edits

LEMMA AuthorityStep ==
  ASSUME TypeOK, AlwaysAnAuthority, [Next]_vars
  PROVE  AlwaysAnAuthority'
  <1>1. ASSUME NEW s \in Subject, NEW key \in Key, Creates(s, key)
        PROVE  AlwaysAnAuthority'
    <2>1. Authorities(InitialDocument(key)) # {}
      BY FoundingMethodSound DEF Authorities, InitialDocument
    <2> QED BY <1>1, <2>1, CreateFrame DEF Creates, TypeOK, AlwaysAnAuthority, Live
  <1>2. ASSUME NEW s \in Subject, NEW k \in Signer, NEW d \in Document,
               Authorized(s, k), Update(s, k, d), Edits(s, k, d)
        PROVE  AlwaysAnAuthority'
    <2>1. d.state = "active" => Authorities(d) # {}
      BY <1>2, EditedAuthority DEF Authorized, AlwaysAnAuthority
    <2>2. Authorities(Touch(d)) = Authorities(d) /\ Touch(d).state = d.state
      BY TouchKeeps DEF Authorities
    <2> QED BY <1>2, <2>1, <2>2, UpdateFrame DEF TypeOK, AlwaysAnAuthority, Live
  <1>3. CASE UNCHANGED vars
    BY <1>3 DEF vars, AlwaysAnAuthority, Live
  <1> QED BY <1>1, <1>2, <1>3, StepCases

\* A live DID keeps an authority of its own through every history of
\* updates by its authorities and controllers.
THEOREM NeverOrphaned == Spec => []AlwaysAnAuthority
  <1>1. Init => AlwaysAnAuthority
    BY DEF Init, AlwaysAnAuthority, Live, NoAccount
  <1> QED BY <1>1, TypeInit, TypeStep, AuthorityStep, PTL DEF Spec

-----------------------------------------------------------------------------
(* Every method in a document obeys the rules it was let in under *)

SoundMethod(m) ==
  /\ IsProtected(m) => IsAuthorityMethod(m)
  /\ m.type = "ed25519" => m.key \in OnCurve \cup Signer
  /\ Len(m.key) = KeyLen[m.type]

MethodsSound == \A s \in Subject : \A m \in account[s].vms : SoundMethod(m)

LEMMA EditedMethodsSound ==
  ASSUME TypeOK, NEW s \in Subject, NEW k \in Signer, NEW d \in Document,
         Edits(s, k, d), \A m \in account[s].vms : SoundMethod(m)
  PROVE  \A m \in d.vms : SoundMethod(m)
  <1>0. account[s] \in Document
    BY DEF TypeOK
  <1>1. CASE Adds(s, k, d)
    <2>1. PICK m \in Method :
            /\ CheckNewMethod(account[s], m, Len(m.key))
            /\ CheckNewKey(m, m.key, k)
            /\ d = [account[s] EXCEPT !.vms = @ \cup {m}]
      BY <1>1 DEF Adds
    <2>2. d.vms = account[s].vms \cup {m}
      BY <1>0, <2>1 DEF Document
    <2>3. IsProtected(m) => IsAuthorityMethod(m)
      BY <2>1 DEF CheckNewMethod, ValidVmFlags, IsProtected, IsAuthorityMethod, CanInvoke
    <2>4. m.type = "ed25519" => m.key \in OnCurve \cup Signer
      BY <2>1 DEF CheckNewKey
    <2>5. Len(m.key) = KeyLen[m.type]
      BY <2>1 DEF CheckNewMethod
    <2> QED BY <2>2, <2>3, <2>4, <2>5 DEF SoundMethod
  <1>2. CASE Removes(s, k, d)
    <2>1. PICK m \in account[s].vms : d = [account[s] EXCEPT !.vms = @ \ {m}]
      BY <1>2 DEF Removes
    <2>2. d.vms = account[s].vms \ {m}
      BY <1>0, <2>1 DEF Document
    <2> QED BY <2>2
  <1>3. CASE Reflags(s, k, d)
    <2> DEFINE Changed(m, flags) == [m EXCEPT !.flags = flags]
    <2>1. PICK m \in account[s].vms, flags \in SUBSET Flag :
            /\ ValidVmFlags(m.type, flags)
            /\ d = [account[s] EXCEPT !.vms = (@ \ {m}) \cup {Changed(m, flags)}]
      BY <1>3 DEF Reflags
    <2>2. d.vms = (account[s].vms \ {m}) \cup {Changed(m, flags)}
      BY <1>0, <2>1 DEF Document
    <2>3. /\ Changed(m, flags).flags = flags
          /\ Changed(m, flags).type = m.type
          /\ Changed(m, flags).key = m.key
      BY <1>0, ReflaggedTyped DEF Document
    <2> HIDE DEF Changed
    <2>4. IsProtected(Changed(m, flags)) => IsAuthorityMethod(Changed(m, flags))
      BY <2>1, <2>3 DEF ValidVmFlags, IsProtected, IsAuthorityMethod, CanInvoke
    <2>5. SoundMethod(Changed(m, flags))
      BY <2>3, <2>4 DEF SoundMethod
    <2> QED BY <2>2, <2>5
  <1>4. CASE KeepsMethods(s, d)
    BY <1>4 DEF KeepsMethods
  <1>5. CASE d = Tombstone(account[s])
    BY <1>0, <1>5, TombstoneDocument
  <1> QED BY <1>1, <1>2, <1>3, <1>4, <1>5 DEF Edits

LEMMA MethodsStep ==
  ASSUME TypeOK, MethodsSound, [Next]_vars
  PROVE  MethodsSound'
  <1>1. ASSUME NEW s \in Subject, NEW key \in Key, Creates(s, key)
        PROVE  MethodsSound'
    <2>1. SoundMethod(FoundingMethod(key))
      BY <1>1, FoundingMethodSound, KeyLengthAssumption DEF SoundMethod, Creates
    <2>2. InitialDocument(key).vms = {FoundingMethod(key)}
      BY DEF InitialDocument
    <2> QED BY <1>1, <2>1, <2>2, CreateFrame DEF Creates, TypeOK, MethodsSound
  <1>2. ASSUME NEW s \in Subject, NEW k \in Signer, NEW d \in Document,
               Update(s, k, d), Edits(s, k, d)
        PROVE  MethodsSound'
    <2>1. \A m \in Touch(d).vms : SoundMethod(m)
      BY <1>2, EditedMethodsSound, TouchKeeps DEF MethodsSound
    <2> QED BY <1>2, <2>1, UpdateFrame DEF TypeOK, MethodsSound
  <1>3. CASE UNCHANGED vars
    BY <1>3 DEF vars, MethodsSound
  <1> QED BY <1>1, <1>2, <1>3, StepCases

LEMMA MethodsInvariant == Spec => []MethodsSound
  <1>1. Init => MethodsSound
    BY DEF Init, MethodsSound, NoAccount
  <1> QED BY <1>1, TypeInit, TypeStep, MethodsStep, PTL DEF Spec

\* A protected method can always be acted on: its key is an authority.
THEOREM ProtectedIsAuthority == Spec => []ProtectedKeepsAuthority
  <1>1. MethodsSound => ProtectedKeepsAuthority
    BY DEF MethodsSound, SoundMethod, ProtectedKeepsAuthority
  <1> QED BY <1>1, MethodsInvariant, PTL

\* No Ed25519 key enters a document that nobody can sign with.
THEOREM EveryKeyCanSign == Spec => []KeysCanSign
  <1>1. MethodsSound => KeysCanSign
    BY DEF MethodsSound, SoundMethod, KeysCanSign
  <1> QED BY <1>1, MethodsInvariant, PTL

\* Every key in a document has the length of its type.
THEOREM KeysAreWhole == Spec => []KeysWhole
  <1>1. MethodsSound => KeysWhole
    BY DEF MethodsSound, SoundMethod, KeysWhole
  <1> QED BY <1>1, MethodsInvariant, PTL

-----------------------------------------------------------------------------
(* A protected method answers to its own key *)

LEMMA EditedProtected ==
  ASSUME TypeOK, NEW s \in Subject, NEW k \in Signer, NEW d \in Document,
         Edits(s, k, d), d.state = "active", NEW m,
         \/ m \in d.vms /\ m \notin account[s].vms
         \/ m \in account[s].vms /\ m \notin d.vms,
         IsProtected(m)
  PROVE  m.key = k
  <1>0. account[s] \in Document
    BY DEF TypeOK
  <1>1. CASE Adds(s, k, d)
    <2>1. PICK n \in Method :
            /\ CheckNewKey(n, n.key, k)
            /\ d = [account[s] EXCEPT !.vms = @ \cup {n}]
      BY <1>1 DEF Adds
    <2>2. d.vms = account[s].vms \cup {n}
      BY <1>0, <2>1 DEF Document
    <2> QED BY <2>1, <2>2 DEF CheckNewKey
  <1>2. CASE Removes(s, k, d)
    <2>1. PICK n \in account[s].vms :
            /\ IsProtected(n) => n.key = k
            /\ d = [account[s] EXCEPT !.vms = @ \ {n}]
      BY <1>2 DEF Removes
    <2>2. d.vms = account[s].vms \ {n}
      BY <1>0, <2>1 DEF Document
    <2> QED BY <2>1, <2>2
  <1>3. CASE Reflags(s, k, d)
    <2> DEFINE Changed(n, flags) == [n EXCEPT !.flags = flags]
    <2>1. PICK n \in account[s].vms, flags \in SUBSET Flag :
            /\ IsProtected(n) \/ IsProtected(Changed(n, flags)) => n.key = k
            /\ d = [account[s] EXCEPT !.vms = (@ \ {n}) \cup {Changed(n, flags)}]
      BY <1>3 DEF Reflags
    <2>2. d.vms = (account[s].vms \ {n}) \cup {Changed(n, flags)}
      BY <1>0, <2>1 DEF Document
    <2>3. Changed(n, flags).key = n.key
      BY <1>0, ReflaggedTyped DEF Document
    <2> HIDE DEF Changed
    <2> QED BY <2>1, <2>2, <2>3
  <1>4. CASE KeepsMethods(s, d)
    BY <1>4 DEF KeepsMethods
  <1>5. CASE d = Tombstone(account[s])
    BY <1>0, <1>5, TombstoneDocument
  <1> QED BY <1>1, <1>2, <1>3, <1>4, <1>5 DEF Edits

LEMMA ProtectedStepHolds ==
  ASSUME TypeOK, [Next]_vars
  PROVE  [ProtectedStep]_vars
  <1>1. ASSUME NEW s \in Subject, NEW key \in Key, Creates(s, key)
        PROVE  ProtectedStep
    BY <1>1, CreateFrame DEF Creates, Create, TypeOK, ProtectedStep, Live, Protected
  <1>2. ASSUME NEW s \in Subject, NEW k \in Signer, NEW d \in Document,
               Update(s, k, d), Edits(s, k, d)
        PROVE  ProtectedStep
    <2>1. /\ account'[s].vms = d.vms /\ account'[s].state = d.state
          /\ signedBy' = {k}
          /\ \A t \in Subject \ {s} : account'[t] = account[t]
      BY <1>2, UpdateFrame, TouchKeeps DEF TypeOK
    <2>2. ASSUME NEW m, d.state = "active", IsProtected(m),
                 \/ m \in d.vms /\ m \notin account[s].vms
                 \/ m \in account[s].vms /\ m \notin d.vms
          PROVE  m.key = k
      BY <1>2, <2>2, EditedProtected
    <2> QED BY <2>1, <2>2 DEF ProtectedStep, Live, Protected
  <1> QED BY <1>1, <1>2, StepCases

\* While a DID lives, only the key of a protected method removes, re-flags or
\* adds it, whoever else is an authority or controls the DID.
THEOREM ProtectedAnswersToItself == Spec => ProtectedUnderOwnKey
  BY TypeCorrect, ProtectedStepHolds, PTL DEF Spec, ProtectedUnderOwnKey

-----------------------------------------------------------------------------
(***************************************************************************)
(* What a document may hold beside its authorities, for every value of     *)
(* the constants: its fragments, its counts, its controller lists, its     *)
(* version, and what is left of it in the end.  All of it is one           *)
(* inductive invariant of a single document, WellFormed, and each kind of  *)
(* edit is shown to keep it.  With it, and what was shown above of         *)
(* authorities, the registry implements DidAuthority.                      *)
(***************************************************************************)

NamesUnique(d) ==
  /\ \A a, b \in d.vms : a.fragment = b.fragment => a = b
  /\ \A a, b \in d.services : a.fragment = b.fragment => a = b
  /\ \A a \in d.vms, b \in d.services : a.fragment # b.fragment

DefaultKept(s, d) ==
  /\ \A m \in d.vms : m.fragment = DefaultFragment => m.key = FoundingKey(s)
  /\ \A v \in d.services : v.fragment # DefaultFragment

ListsWellFormed(s, d) ==
  /\ Len(d.natives) <= MaxNativeControllers /\ Len(d.others) <= MaxOtherControllers
  /\ s \notin Range(d.natives)
  /\ IsInjective(d.natives) /\ IsInjective(d.others)
  /\ Range(d.others) \subseteq ValidExternal

CountsHold(d) ==
  /\ IsFiniteSet(d.vms) /\ Cardinality(d.vms) <= MaxVerificationMethods
  /\ IsFiniteSet(d.services) /\ Cardinality(d.services) <= MaxServices

\* Only a live document has anything in it.
EmptyUnlessLive(d) ==
  d.state # "active" => d.vms = {} /\ d.services = {} /\ d.natives = <<>>

WellFormed(s, d) ==
  NamesUnique(d) /\ DefaultKept(s, d) /\ ListsWellFormed(s, d) /\ CountsHold(d)

DocumentsWellFormed ==
  \A s \in Subject :
    /\ WellFormed(s, account[s])
    /\ EmptyUnlessLive(account[s])
    /\ account[s].state = "absent" => account[s].version = 0

-----------------------------------------------------------------------------
(* Edits *)

\* An edit of the methods leaves the rest.
LEMMA MethodsEdited ==
  ASSUME NEW d \in Document, NEW methods
  PROVE  LET e == [d EXCEPT !.vms = methods] IN
         /\ e.vms = methods /\ e.services = d.services
         /\ e.natives = d.natives /\ e.others = d.others
         /\ e.state = d.state /\ e.version = d.version
  BY DEF Document

LEMMA ServicesEdited ==
  ASSUME NEW d \in Document, NEW services
  PROVE  LET e == [d EXCEPT !.services = services] IN
         /\ e.services = services /\ e.vms = d.vms
         /\ e.natives = d.natives /\ e.others = d.others
         /\ e.state = d.state /\ e.version = d.version
  BY DEF Document

LEMMA ListsEdited ==
  ASSUME NEW d \in Document, NEW natives, NEW others
  PROVE  LET e == [d EXCEPT !.natives = natives, !.others = others] IN
         /\ e.natives = natives /\ e.others = others
         /\ e.vms = d.vms /\ e.services = d.services
         /\ e.state = d.state /\ e.version = d.version
  BY DEF Document

LEMMA LimitsAreNumbers ==
  MaxVerificationMethods \in Nat /\ MaxServices \in Nat
  BY DocumentAssumption

\* What the count of a set becomes when one entry comes, goes or changes.
LEMMA CountAdded ==
  ASSUME NEW S, IsFiniteSet(S), NEW x, NEW max \in Nat, Cardinality(S) < max
  PROVE  IsFiniteSet(S \cup {x}) /\ Cardinality(S \cup {x}) <= max
  <1>1. /\ IsFiniteSet(S \cup {x})
        /\ Cardinality(S \cup {x}) = IF x \in S THEN Cardinality(S) ELSE Cardinality(S) + 1
    BY FS_AddElement
  <1>2. Cardinality(S) \in Nat
    BY FS_CardinalityType
  <1> QED BY <1>1, <1>2

LEMMA CountRemoved ==
  ASSUME NEW S, IsFiniteSet(S), NEW x, NEW max \in Nat, Cardinality(S) <= max
  PROVE  IsFiniteSet(S \ {x}) /\ Cardinality(S \ {x}) <= max
  <1>1. /\ IsFiniteSet(S \ {x})
        /\ Cardinality(S \ {x}) = IF x \in S THEN Cardinality(S) - 1 ELSE Cardinality(S)
    BY FS_RemoveElement
  <1>2. Cardinality(S) \in Nat
    BY FS_CardinalityType
  <1> QED BY <1>1, <1>2

LEMMA CountReplaced ==
  ASSUME NEW S, IsFiniteSet(S), NEW x \in S, NEW y, NEW max \in Nat, Cardinality(S) <= max
  PROVE  IsFiniteSet((S \ {x}) \cup {y}) /\ Cardinality((S \ {x}) \cup {y}) <= max
  <1>1. IsFiniteSet(S \ {x}) /\ Cardinality(S \ {x}) = Cardinality(S) - 1
    BY FS_RemoveElement
  <1>2. Cardinality(S) \in Nat
    BY FS_CardinalityType
  <1> DEFINE R == S \ {x}
  <1>3. IsFiniteSet(R) /\ Cardinality(R) < max
    BY <1>1, <1>2
  <1> HIDE DEF R
  <1>4. IsFiniteSet(R \cup {y}) /\ Cardinality(R \cup {y}) <= max
    BY <1>3, CountAdded
  <1> QED BY <1>4 DEF R

LEMMA AddsWellFormed ==
  ASSUME NEW s \in Subject, NEW k \in Signer, NEW d,
         account[s] \in Document, WellFormed(s, account[s]), Adds(s, k, d)
  PROVE  WellFormed(s, d)
  <1> DEFINE doc == account[s]
  <1>1. PICK m \in Method :
          /\ Cardinality(doc.vms) < MaxVerificationMethods
          /\ FragmentFree(doc, m.fragment)
          /\ d = [doc EXCEPT !.vms = doc.vms \cup {m}]
    BY DEF Adds, CheckNewMethod
  <1>2. /\ d.vms = doc.vms \cup {m} /\ d.services = doc.services
        /\ d.natives = doc.natives /\ d.others = doc.others
    BY <1>1, MethodsEdited
  <1>3. /\ m.fragment # DefaultFragment
        /\ \A a \in doc.vms : a.fragment # m.fragment
        /\ \A v \in doc.services : v.fragment # m.fragment
    BY <1>1 DEF FragmentFree, MethodFragments, ServiceFragments
  <1>4. NamesUnique(d) /\ DefaultKept(s, d)
    BY <1>2, <1>3 DEF WellFormed, NamesUnique, DefaultKept
  <1>5. CountsHold(d)
    <2>1. CountsHold(doc)
      BY DEF WellFormed
    <2>2. IsFiniteSet(doc.vms \cup {m}) /\ Cardinality(doc.vms \cup {m}) <= MaxVerificationMethods
      BY <1>1, <2>1, CountAdded, LimitsAreNumbers, Zenon DEF CountsHold
    <2> QED BY <1>2, <2>1, <2>2 DEF CountsHold
  <1> QED BY <1>2, <1>4, <1>5 DEF WellFormed, ListsWellFormed

LEMMA RemovesWellFormed ==
  ASSUME NEW s \in Subject, NEW k \in Signer, NEW d,
         account[s] \in Document, WellFormed(s, account[s]), Removes(s, k, d)
  PROVE  WellFormed(s, d)
  <1> DEFINE doc == account[s]
  <1>1. PICK m \in doc.vms : d = [doc EXCEPT !.vms = doc.vms \ {m}]
    BY DEF Removes
  <1>2. /\ d.vms = doc.vms \ {m} /\ d.services = doc.services
        /\ d.natives = doc.natives /\ d.others = doc.others
    BY <1>1, MethodsEdited
  <1>3. NamesUnique(d) /\ DefaultKept(s, d)
    BY <1>2 DEF WellFormed, NamesUnique, DefaultKept
  <1>4. CountsHold(d)
    <2>1. CountsHold(doc)
      BY DEF WellFormed
    <2>2. IsFiniteSet(doc.vms \ {m}) /\ Cardinality(doc.vms \ {m}) <= MaxVerificationMethods
      BY <2>1, CountRemoved, LimitsAreNumbers, Zenon DEF CountsHold
    <2> QED BY <1>2, <2>1, <2>2 DEF CountsHold
  <1> QED BY <1>2, <1>3, <1>4 DEF WellFormed, ListsWellFormed

LEMMA ReflagsWellFormed ==
  ASSUME NEW s \in Subject, NEW k \in Signer, NEW d,
         account[s] \in Document, WellFormed(s, account[s]), Reflags(s, k, d)
  PROVE  WellFormed(s, d)
  <1> DEFINE doc == account[s]
             Changed(m, flags) == [m EXCEPT !.flags = flags]
  <1>1. PICK m \in doc.vms, flags \in SUBSET Flag :
          d = [doc EXCEPT !.vms = (doc.vms \ {m}) \cup {Changed(m, flags)}]
    BY DEF Reflags
  <1> DEFINE c == Changed(m, flags)
  <1>2. c.fragment = m.fragment /\ c.key = m.key
    BY ReflaggedTyped DEF Document
  <1>3. /\ d.vms = (doc.vms \ {m}) \cup {c} /\ d.services = doc.services
        /\ d.natives = doc.natives /\ d.others = doc.others
    BY <1>1, MethodsEdited
  <1> HIDE DEF c
  <1>4. NamesUnique(d) /\ DefaultKept(s, d)
    BY <1>2, <1>3 DEF WellFormed, NamesUnique, DefaultKept
  <1>5. CountsHold(d)
    <2>1. CountsHold(doc)
      BY DEF WellFormed
    <2>2. /\ IsFiniteSet((doc.vms \ {m}) \cup {c})
          /\ Cardinality((doc.vms \ {m}) \cup {c}) <= MaxVerificationMethods
      BY <2>1, CountReplaced, LimitsAreNumbers, Zenon DEF CountsHold
    <2> QED BY <1>3, <2>1, <2>2 DEF CountsHold
  <1> QED BY <1>3, <1>4, <1>5 DEF WellFormed, ListsWellFormed

LEMMA ServicesWellFormed ==
  ASSUME NEW s \in Subject, NEW d,
         account[s] \in Document, WellFormed(s, account[s]), EditsServices(s, d)
  PROVE  WellFormed(s, d)
  <1> DEFINE doc == account[s]
  <1>1. PICK services \in SUBSET Service :
          /\ d = [doc EXCEPT !.services = services]
          /\ \/ \E v \in Service :
                  /\ Cardinality(doc.services) < MaxServices
                  /\ FragmentFree(doc, v.fragment)
                  /\ services = doc.services \cup {v}
             \/ \E v \in doc.services, w \in Service :
                  /\ w.fragment = v.fragment
                  /\ services = (doc.services \ {v}) \cup {w}
             \/ \E v \in doc.services : services = doc.services \ {v}
    BY DEF EditsServices
  <1>2. /\ d.vms = doc.vms /\ d.services = services
        /\ d.natives = doc.natives /\ d.others = doc.others
    BY <1>1, ServicesEdited
  <1>0. CountsHold(doc)
    BY DEF WellFormed
  <1>3. ASSUME NEW v, Cardinality(doc.services) < MaxServices,
               FragmentFree(doc, v.fragment), services = doc.services \cup {v}
        PROVE  NamesUnique(d) /\ DefaultKept(s, d) /\ CountsHold(d)
    <2>1. /\ v.fragment # DefaultFragment
          /\ \A a \in doc.vms : a.fragment # v.fragment
          /\ \A w \in doc.services : w.fragment # v.fragment
      BY <1>3 DEF FragmentFree, MethodFragments, ServiceFragments
    <2>2. NamesUnique(d) /\ DefaultKept(s, d)
      BY <1>2, <1>3, <2>1 DEF WellFormed, NamesUnique, DefaultKept
    <2>3. CountsHold(d)
      <3>1. IsFiniteSet(doc.services \cup {v}) /\ Cardinality(doc.services \cup {v}) <= MaxServices
        BY <1>0, <1>3, CountAdded, LimitsAreNumbers, Zenon DEF CountsHold
      <3> QED BY <1>2, <1>3, <1>0, <3>1 DEF CountsHold
    <2> QED BY <2>2, <2>3
  <1>4. ASSUME NEW v \in doc.services, NEW w, w.fragment = v.fragment,
               services = (doc.services \ {v}) \cup {w}
        PROVE  NamesUnique(d) /\ DefaultKept(s, d) /\ CountsHold(d)
    <2>1. NamesUnique(d) /\ DefaultKept(s, d)
      BY <1>2, <1>4 DEF WellFormed, NamesUnique, DefaultKept
    <2>2. CountsHold(d)
      <3>1. /\ IsFiniteSet((doc.services \ {v}) \cup {w})
            /\ Cardinality((doc.services \ {v}) \cup {w}) <= MaxServices
        BY <1>0, CountReplaced, LimitsAreNumbers, Zenon DEF CountsHold
      <3> QED BY <1>2, <1>4, <1>0, <3>1 DEF CountsHold
    <2> QED BY <2>1, <2>2
  <1>5. ASSUME NEW v \in doc.services, services = doc.services \ {v}
        PROVE  NamesUnique(d) /\ DefaultKept(s, d) /\ CountsHold(d)
    <2>1. NamesUnique(d) /\ DefaultKept(s, d)
      BY <1>2, <1>5 DEF WellFormed, NamesUnique, DefaultKept
    <2>2. CountsHold(d)
      <3>1. IsFiniteSet(doc.services \ {v}) /\ Cardinality(doc.services \ {v}) <= MaxServices
        BY <1>0, CountRemoved, LimitsAreNumbers, Zenon DEF CountsHold
      <3> QED BY <1>2, <1>5, <1>0, <3>1 DEF CountsHold
    <2> QED BY <2>1, <2>2
  <1>6. ListsWellFormed(s, d)
    BY <1>2 DEF WellFormed, ListsWellFormed
  <1> QED BY <1>1, <1>3, <1>4, <1>5, <1>6 DEF WellFormed

LEMMA ListsKeptWellFormed ==
  ASSUME NEW s \in Subject, NEW d,
         account[s] \in Document, WellFormed(s, account[s]), EditsLists(s, d)
  PROVE  WellFormed(s, d)
  <1>1. PICK natives \in Seq(Subject), others \in Seq(External) :
          /\ ValidControllers(s, natives, others)
          /\ d = [account[s] EXCEPT !.natives = natives, !.others = others]
    BY DEF EditsLists
  <1>2. /\ d.vms = account[s].vms /\ d.services = account[s].services
        /\ d.natives = natives /\ d.others = others
    BY <1>1, ListsEdited
  <1>3. ListsWellFormed(s, d)
    BY <1>1, <1>2 DEF ValidControllers, ListsWellFormed
  <1> QED BY <1>2, <1>3 DEF WellFormed, NamesUnique, DefaultKept, CountsHold

\* Nothing at all is well formed.
LEMMA BareWellFormed ==
  ASSUME NEW s \in Subject, NEW d,
         d.vms = {}, d.services = {}, d.natives = <<>>, d.others = <<>>
  PROVE  WellFormed(s, d)
  <1>1. ListsWellFormed(s, d)
    BY DocumentAssumption DEF ListsWellFormed, IsInjective, Range
  <1>2. CountsHold(d)
    BY FS_EmptySet, DocumentAssumption DEF CountsHold
  <1> QED BY <1>1, <1>2 DEF WellFormed, NamesUnique, DefaultKept

LEMMA InitialWellFormed ==
  ASSUME NEW s \in Subject, NEW key \in Key, key = FoundingKey(s)
  PROVE  WellFormed(s, InitialDocument(key))
  <1> DEFINE d == InitialDocument(key)
  <1>1. /\ d.vms = {FoundingMethod(key)} /\ d.services = {}
        /\ d.natives = <<>> /\ d.others = <<>>
    BY DEF InitialDocument
  <1>2. FoundingMethod(key).key = FoundingKey(s)
    BY DEF FoundingMethod
  <1> HIDE DEF d
  <1>3. ListsWellFormed(s, d)
    BY <1>1, DocumentAssumption DEF ListsWellFormed, IsInjective, Range
  <1>4. CountsHold(d)
    <2>1. /\ IsFiniteSet({}) /\ Cardinality({}) = 0
          /\ IsFiniteSet({FoundingMethod(key)}) /\ Cardinality({FoundingMethod(key)}) = 1
      BY FS_EmptySet, FS_Singleton
    <2>2. 1 <= MaxVerificationMethods /\ 0 <= MaxServices
      BY DocumentAssumption
    <2> QED BY <1>1, <2>1, <2>2 DEF CountsHold
  <1> QED BY <1>1, <1>2, <1>3, <1>4 DEF WellFormed, NamesUnique, DefaultKept, d

LEMMA EditedWellFormed ==
  ASSUME TypeOK, NEW s \in Subject, NEW k \in Signer, NEW d \in Document,
         Edits(s, k, d), WellFormed(s, account[s])
  PROVE  WellFormed(s, d)
  <1>1. account[s] \in Document
    BY DEF TypeOK
  <1>2. CASE d = Tombstone(account[s])
    BY <1>2, BareWellFormed DEF Tombstone
  <1> QED BY <1>1, <1>2, AddsWellFormed, RemovesWellFormed, ReflagsWellFormed,
             ServicesWellFormed, ListsKeptWellFormed
          DEF Edits, KeepsMethods

\* An edit keeps the state and the version, and a tombstone the version.
LEMMA EditedHeader ==
  ASSUME TypeOK, NEW s \in Subject, NEW k \in Signer, NEW d \in Document, Edits(s, k, d)
  PROVE  /\ d.version = account[s].version
         /\ d.state = account[s].state \/ d = Tombstone(account[s])
  <1>1. account[s] \in Document
    BY DEF TypeOK
  <1>2. CASE Adds(s, k, d) \/ Removes(s, k, d) \/ Reflags(s, k, d)
    <2>1. PICK methods : d = [account[s] EXCEPT !.vms = methods]
      BY <1>2 DEF Adds, Removes, Reflags
    <2> QED BY <1>1, <2>1, MethodsEdited
  <1>3. CASE EditsServices(s, d)
    BY <1>1, <1>3, ServicesEdited DEF EditsServices
  <1>4. CASE EditsLists(s, d)
    BY <1>1, <1>4, ListsEdited DEF EditsLists
  <1>5. CASE d = Tombstone(account[s])
    BY <1>5 DEF Tombstone
  <1> QED BY <1>2, <1>3, <1>4, <1>5 DEF Edits, KeepsMethods

\* What WellFormed reads of a document.
LEMMA SameWellFormed ==
  ASSUME NEW s \in Subject, NEW d, NEW e, WellFormed(s, d),
         e.vms = d.vms, e.services = d.services,
         e.natives = d.natives, e.others = d.others
  PROVE  WellFormed(s, e)
  BY DEF WellFormed, NamesUnique, DefaultKept, ListsWellFormed, CountsHold

-----------------------------------------------------------------------------
(* The invariant *)

LEMMA WellFormedStep ==
  ASSUME TypeOK, DocumentsWellFormed, [Next]_vars
  PROVE  DocumentsWellFormed'
  <1>1. ASSUME NEW s \in Subject, NEW key \in Key, Creates(s, key)
        PROVE  DocumentsWellFormed'
    <2>1. /\ account'[s] = InitialDocument(key)
          /\ \A t \in Subject \ {s} : account'[t] = account[t]
      BY <1>1, CreateFrame DEF Creates, TypeOK
    <2>2. WellFormed(s, InitialDocument(key))
      BY <1>1, InitialWellFormed DEF Creates
    <2>3. InitialDocument(key).state = "active"
      BY DEF InitialDocument
    <2> QED BY <2>1, <2>2, <2>3 DEF DocumentsWellFormed, EmptyUnlessLive
  <1>2. ASSUME NEW s \in Subject, NEW k \in Signer, NEW d \in Document,
               Authorized(s, k), Update(s, k, d), Edits(s, k, d)
        PROVE  DocumentsWellFormed'
    <2>1. /\ account'[s] = Touch(d)
          /\ \A t \in Subject \ {s} : account'[t] = account[t]
      BY <1>2, UpdateFrame DEF TypeOK
    <2>2. WellFormed(s, Touch(d))
      BY <1>2, EditedWellFormed, SameWellFormed, TouchKeeps DEF DocumentsWellFormed
    <2>3. EmptyUnlessLive(Touch(d)) /\ Touch(d).state # "absent"
      <3>1. CASE d = Tombstone(account[s])
        <4>1. d.vms = {} /\ d.services = {} /\ d.natives = <<>> /\ d.state = "deactivated"
          BY <3>1 DEF Tombstone
        <4> QED BY <4>1, TouchKeeps DEF EmptyUnlessLive
      <3>2. CASE d.state = account[s].state
        BY <1>2, <3>2, TouchKeeps DEF Authorized, Live, EmptyUnlessLive
      <3> QED BY <1>2, <3>1, <3>2, EditedHeader
    <2> QED BY <2>1, <2>2, <2>3 DEF DocumentsWellFormed
  <1>3. CASE UNCHANGED vars
    BY <1>3 DEF vars, DocumentsWellFormed
  <1> QED BY <1>1, <1>2, <1>3, StepCases

LEMMA WellFormedAtFirst == Init => DocumentsWellFormed
  <1> SUFFICES ASSUME Init, NEW s \in Subject
               PROVE  /\ WellFormed(s, NoAccount)
                      /\ EmptyUnlessLive(NoAccount)
                      /\ NoAccount.version = 0
    BY DEF Init, DocumentsWellFormed
  <1>1. /\ NoAccount.vms = {} /\ NoAccount.services = {} /\ NoAccount.natives = <<>>
        /\ NoAccount.others = <<>> /\ NoAccount.version = 0
    BY DEF NoAccount
  <1> QED BY <1>1, BareWellFormed DEF EmptyUnlessLive

LEMMA WellFormedInvariant == Spec => []DocumentsWellFormed
  BY WellFormedAtFirst, TypeInit, TypeStep, WellFormedStep, PTL DEF Spec

\* A fragment names one method or one service of a document, after any
\* history of adds, updates and removals.
THEOREM OneEntryPerFragment == Spec => []FragmentsUnique
  <1>1. DocumentsWellFormed => FragmentsUnique
    BY DEF DocumentsWellFormed, WellFormed, NamesUnique, FragmentsUnique,
           MethodFragments, ServiceFragments
  <1> QED BY <1>1, WellFormedInvariant, PTL

\* #default is the founding key in every document, for ever.
THEOREM DefaultNamesFounder == Spec => []DefaultIsFounding
  <1>1. DocumentsWellFormed => DefaultIsFounding
    BY DEF DocumentsWellFormed, WellFormed, DefaultKept, DefaultIsFounding, ServiceFragments
  <1> QED BY <1>1, WellFormedInvariant, PTL

\* No list of a document outgrows the limit it is sized for.
THEOREM ListsStayInLimits == Spec => []LimitsHold
  <1>1. DocumentsWellFormed => LimitsHold
    BY DEF DocumentsWellFormed, WellFormed, CountsHold, ListsWellFormed, LimitsHold
  <1> QED BY <1>1, WellFormedInvariant, PTL

\* No document lists itself, or a controller twice.
THEOREM ControllersStayWellFormed == Spec => []ControllersWellFormed
  <1>1. DocumentsWellFormed => ControllersWellFormed
    BY DEF DocumentsWellFormed, WellFormed, ListsWellFormed, ControllersWellFormed
  <1> QED BY <1>1, WellFormedInvariant, PTL

-----------------------------------------------------------------------------
(* Histories *)

LEMMA VersionStepHolds ==
  ASSUME TypeOK, DocumentsWellFormed, [Next]_vars
  PROVE  [VersionStep]_vars
  <1>1. ASSUME NEW s \in Subject, NEW key \in Key, Creates(s, key)
        PROVE  VersionStep
    <2>1. /\ account'[s] = InitialDocument(key) /\ account[s].state = "absent"
          /\ \A t \in Subject \ {s} : account'[t] = account[t]
      BY <1>1, CreateFrame DEF Creates, Create, TypeOK
    <2>2. InitialDocument(key).version = 1 /\ account[s].version = 0
      BY <2>1 DEF InitialDocument, DocumentsWellFormed
    <2> QED BY <2>1, <2>2, DocumentAssumption DEF VersionStep
  <1>2. ASSUME NEW s \in Subject, NEW k \in Signer, NEW d \in Document,
               Update(s, k, d), Edits(s, k, d)
        PROVE  VersionStep
    <2>1. /\ account'[s] = Touch(d)
          /\ \A t \in Subject \ {s} : account'[t] = account[t]
      BY <1>2, UpdateFrame DEF TypeOK
    <2>2. Touch(d).version = IF d.version < MaxVersion THEN d.version + 1 ELSE MaxVersion
      BY DEF Touch, Document
    <2>3. d.version = account[s].version
      BY <1>2, EditedHeader
    <2> QED BY <2>1, <2>2, <2>3 DEF VersionStep
  <1> QED BY <1>1, <1>2, StepCases

\* Below saturation no change of a document shares its version with another.
THEOREM ChangesAreNumbered == Spec => VersionCounts
  BY TypeCorrect, WellFormedInvariant, VersionStepHolds, PTL DEF Spec, VersionCounts

LEMMA TombstoneStepHolds ==
  ASSUME TypeOK, DocumentsWellFormed, [Next]_vars
  PROVE  [TombstoneStep]_vars
  <1>0. \A s \in Subject : account[s].state = "deactivated" =>
          account[s].vms = {} /\ account[s].services = {} /\ account[s].natives = <<>>
    BY DEF DocumentsWellFormed, EmptyUnlessLive
  <1>1. ASSUME NEW s \in Subject, NEW key \in Key, Creates(s, key)
        PROVE  TombstoneStep
    BY <1>0, <1>1, CreateFrame DEF Creates, Create, TypeOK, TombstoneStep
  <1>2. ASSUME NEW s \in Subject, NEW k \in Signer, NEW d \in Document,
               Authorized(s, k), Update(s, k, d)
        PROVE  TombstoneStep
    BY <1>0, <1>2, UpdateFrame DEF Authorized, Live, TypeOK, TombstoneStep
  <1> QED BY <1>1, <1>2, StepCases

\* A tombstone is empty and is never written again.
THEOREM TombstonesAreFinal == Spec => TombstoneForever
  BY TypeCorrect, WellFormedInvariant, TombstoneStepHolds, PTL DEF Spec, TombstoneForever

\* No edit brings a method under #default.
LEMMA EditedDefault ==
  ASSUME TypeOK, NEW s \in Subject, NEW k \in Signer, NEW d \in Document, Edits(s, k, d),
         DefaultFragment \notin MethodFragments(account[s])
  PROVE  DefaultFragment \notin MethodFragments(d)
  <1>0. account[s] \in Document /\ \A m \in account[s].vms : m.fragment # DefaultFragment
    BY DEF TypeOK, MethodFragments
  <1>1. CASE Adds(s, k, d)
    <2>1. PICK m \in Method : /\ m.fragment # DefaultFragment
                              /\ d = [account[s] EXCEPT !.vms = account[s].vms \cup {m}]
      BY <1>1 DEF Adds, CheckNewMethod, FragmentFree
    <2>2. d.vms = account[s].vms \cup {m}
      BY <1>0, <2>1, MethodsEdited
    <2> QED BY <1>0, <2>1, <2>2 DEF MethodFragments
  <1>2. CASE Removes(s, k, d)
    <2>1. PICK m \in account[s].vms : d = [account[s] EXCEPT !.vms = account[s].vms \ {m}]
      BY <1>2 DEF Removes
    <2>2. d.vms = account[s].vms \ {m}
      BY <1>0, <2>1, MethodsEdited
    <2> QED BY <1>0, <2>2 DEF MethodFragments
  <1>3. CASE Reflags(s, k, d)
    <2> DEFINE Changed(m, flags) == [m EXCEPT !.flags = flags]
    <2>1. PICK m \in account[s].vms, flags \in SUBSET Flag :
            d = [account[s] EXCEPT !.vms = (account[s].vms \ {m}) \cup {Changed(m, flags)}]
      BY <1>3 DEF Reflags
    <2>2. d.vms = (account[s].vms \ {m}) \cup {Changed(m, flags)}
      BY <1>0, <2>1, MethodsEdited
    <2>3. Changed(m, flags).fragment = m.fragment
      BY <1>0, ReflaggedTyped DEF Document
    <2> HIDE DEF Changed
    <2> QED BY <1>0, <2>2, <2>3 DEF MethodFragments
  <1>4. CASE KeepsMethods(s, d)
    BY <1>0, <1>4 DEF KeepsMethods, MethodFragments
  <1>5. CASE d = Tombstone(account[s])
    BY <1>5 DEF Tombstone, MethodFragments
  <1> QED BY <1>1, <1>2, <1>3, <1>4, <1>5 DEF Edits

LEMMA DefaultStepHolds ==
  ASSUME TypeOK, [Next]_vars
  PROVE  [DefaultStep]_vars
  <1>1. ASSUME NEW s \in Subject, NEW key \in Key, Creates(s, key)
        PROVE  DefaultStep
    BY <1>1, CreateFrame DEF Creates, Create, TypeOK, DefaultStep, MethodFragments
  <1>2. ASSUME NEW s \in Subject, NEW k \in Signer, NEW d \in Document,
               Update(s, k, d), Edits(s, k, d)
        PROVE  DefaultStep
    <2>1. /\ account'[s].vms = d.vms
          /\ \A t \in Subject \ {s} : account'[t] = account[t]
      BY <1>2, UpdateFrame, TouchKeeps DEF TypeOK
    <2>2. DefaultFragment \notin MethodFragments(account[s]) =>
            DefaultFragment \notin MethodFragments(d)
      BY <1>2, EditedDefault
    <2> QED BY <2>1, <2>2 DEF DefaultStep, MethodFragments
  <1> QED BY <1>1, <1>2, StepCases

\* A #default that was removed stays gone, whatever is added or re-flagged later.
THEOREM DefaultNeverReturns == Spec => DefaultStaysGone
  BY TypeCorrect, DefaultStepHolds, PTL DEF Spec, DefaultStaysGone

-----------------------------------------------------------------------------
(* DidRegistry implements DidAuthority: creation maps to Create,           *)
(* deactivation to Deactivate, and every other instruction to Change.      *)

\* The inductive invariant that the refinement rests on.
ControlInv == TypeOK /\ AlwaysAnAuthority /\ MethodsSound /\ DocumentsWellFormed

LEMMA ControlInvariant == Spec => []ControlInv
  BY TypeCorrect, NeverOrphaned, MethodsInvariant, WellFormedInvariant, PTL DEF ControlInv

\* Steps of the registry leave every other account as it is.
LEMMA ControlFrame ==
  ASSUME TypeOK, TypeOK', NEW s \in Subject,
         \A t \in Subject \ {s} : account'[t] = account[t]
  PROVE  Control!OnlyAt(s)
  BY DEF Control!OnlyAt, Protected

LEMMA ControlCreate ==
  ASSUME TypeOK, TypeOK', NEW s \in Subject, NEW key \in Key, Creates(s, key)
  PROVE  Control!Create(s)
  <1>1. /\ account'[s] = InitialDocument(key)
        /\ \A t \in Subject \ {s} : account'[t] = account[t]
        /\ account[s].state = "absent"
    BY CreateFrame DEF Creates, Create, TypeOK
  <1>2. /\ InitialDocument(key).vms = {FoundingMethod(key)}
        /\ InitialDocument(key).state = "active"
        /\ Range(InitialDocument(key).natives) = {}
    BY DEF InitialDocument, Range
  <1>3. Keys(Authorities(account'[s])) = {key}
    BY <1>1, <1>2, FoundingMethodSound DEF Keys, Authorities
  <1>4. Keys(Protected(s)') = {key}
    BY <1>1, <1>2, FoundingMethodSound DEF Keys, Protected
  <1>5. Control!OnlyAt(s)
    BY <1>1, ControlFrame
  <1>6. key = FoundingKey(s) /\ signedBy' = IF s \in OnCurve THEN {} ELSE {key}
    BY DEF Creates
  <1> QED BY <1>1, <1>2, <1>3, <1>4, <1>5, <1>6 DEF Control!Create

\* authorize admits exactly the keys that control the subject.
LEMMA ControlAuthorized ==
  ASSUME TypeOK, NEW s \in Subject, NEW k \in Signer, Authorized(s, k)
  PROVE  Control!Controls(k, s)
  <1>1. \A t \in Subject : IsAuthority(account[t], k) => k \in Keys(Authorities(account[t]))
    BY DEF IsAuthority, Keys
  <1> QED BY <1>1 DEF Authorized, Live, IsNativeController, Control!Controls, Control!Live

LEMMA ControlUpdate ==
  ASSUME ControlInv, ControlInv', NEW s \in Subject, NEW k \in Signer, NEW d \in Document,
         Authorized(s, k), Update(s, k, d), Edits(s, k, d)
  PROVE  Control!Change(s, k) \/ Control!Deactivate(s, k)
  <1>0. TypeOK /\ TypeOK' /\ account[s] \in Document /\ account'[s] \in Document
    BY DEF ControlInv, TypeOK
  <1>1. /\ account'[s] = Touch(d)
        /\ signedBy' = {k}
        /\ \A t \in Subject \ {s} : account'[t] = account[t]
    BY <1>0, UpdateFrame DEF TypeOK
  <1>2. Control!OnlyAt(s) /\ Control!Controls(k, s)
    BY <1>0, <1>1, ControlFrame, ControlAuthorized
  <1>3. /\ account'[s].vms = d.vms
        /\ account'[s].state = d.state
        /\ account'[s].natives = d.natives
    BY <1>1, TouchKeeps
  <1>4. CASE d = Tombstone(account[s])
    <2>1. d.vms = {} /\ d.state = "deactivated" /\ Range(d.natives) = {}
      BY <1>0, <1>4, TombstoneDocument DEF Range
    <2>2. Keys(Authorities(account'[s])) = {} /\ Keys(Protected(s)') = {}
      BY <1>3, <2>1 DEF Keys, Authorities, Protected
    <2> QED BY <1>1, <1>2, <1>3, <2>1, <2>2 DEF Control!Deactivate
  <1>5. CASE d.state = "active"
    <2>1. Keys(Authorities(account'[s])) \subseteq Key
      <3>1. \A m \in account'[s].vms : m.type = "ed25519" => m.key \in Key
        BY RegistryAssumption, DocumentAssumption DEF ControlInv, MethodsSound, SoundMethod
      <3> QED BY <3>1 DEF Keys, Authorities, IsAuthorityMethod
    <2>2. Keys(Authorities(account'[s])) # {}
      <3>1. Authorities(account'[s]) # {}
        BY <1>3, <1>5 DEF ControlInv, AlwaysAnAuthority, Live
      <3> QED BY <3>1 DEF Keys
    <2>3. Keys(Protected(s)') \subseteq Keys(Authorities(account'[s]))
      BY DEF ControlInv, MethodsSound, SoundMethod, Keys, Protected, Authorities
    <2>4. Keys(Protected(s)') \ {k} = Keys(Protected(s)) \ {k}
      <3>1. ASSUME NEW m, IsProtected(m),
                   \/ m \in d.vms /\ m \notin account[s].vms
                   \/ m \in account[s].vms /\ m \notin d.vms
            PROVE  m.key = k
        BY <1>0, <1>5, <3>1, EditedProtected
      <3> QED BY <1>3, <3>1 DEF Keys, Protected
    <2>5. Range(account'[s].natives) \subseteq Subject \ {s}
      BY <1>0 DEF ControlInv, DocumentsWellFormed, WellFormed, ListsWellFormed, Document, Range
    <2> QED BY <1>1, <1>2, <1>3, <1>5, <2>1, <2>2, <2>3, <2>4, <2>5 DEF Control!Change
  <1>6. d.state = "active" \/ d = Tombstone(account[s])
    <2>1. account[s].state = "active"
      BY DEF Authorized, Live
    <2>2. ASSUME NEW methods, d = [account[s] EXCEPT !.vms = methods]
          PROVE  d.state = "active"
      BY <1>0, <2>1, <2>2 DEF Document
    <2> QED BY <2>1, <2>2 DEF Edits, Adds, Removes, Reflags, KeepsMethods
  <1> QED BY <1>4, <1>5, <1>6

LEMMA ControlStep ==
  ASSUME ControlInv, ControlInv', [Next]_vars
  PROVE  [Control!Next]_(Control!vars)
  <1>1. ASSUME NEW s \in Subject, NEW key \in Key, Creates(s, key)
        PROVE  Control!Next
    BY <1>1, ControlCreate DEF ControlInv, Control!Next
  <1>2. ASSUME NEW s \in Subject, NEW k \in Signer, NEW d \in Document,
               Authorized(s, k), Update(s, k, d), Edits(s, k, d)
        PROVE  Control!Next
    BY <1>2, ControlUpdate, RegistryAssumption DEF Control!Next
  <1>3. CASE UNCHANGED vars
    BY <1>3 DEF vars, Control!vars, Protected
  <1> QED BY <1>1, <1>2, <1>3, StepCases DEF ControlInv

\* The registry keeps what DidAuthority promises: an account changes only
\* under a live authority of its own or of a live controller, is never left
\* without one, changes its protected keys only under themselves, and stays
\* as it is once deactivated.
THEOREM RegistryImplementsAuthority == Spec => ControlSpec
  <1>1. Init => Control!Init
    BY DEF Init, Control!Init, NoAccount, Keys, Authorities, Protected, Range
  <1>2. ControlInv /\ ControlInv' /\ [Next]_vars => [Control!Next]_(Control!vars)
    BY ControlStep
  <1> QED BY <1>1, <1>2, ControlInvariant, PTL DEF Spec, ControlSpec, Control!Spec

-----------------------------------------------------------------------------
(***************************************************************************)
(* Key buffers add nothing to what the registry can do: with the buffers   *)
(* hidden, KeyBuffers implements DidRegistry, so every theorem above holds *)
(* of the whole program.                                                   *)
(***************************************************************************)

\* What a buffer holds came from the header and the chunks of its calls.
Filled == [did: Subject, authority: Signer, header: BufferInput, key: Seq(UploadCell)]

BuffersFilled == buffers \subseteq Filled

LEMMA ChunkCells ==
  ASSUME NEW chunk \in ChunkInput
  PROVE  chunk \in Seq(UploadCell)
  <1>1. chunk \in Seq(Cell)
    BY BufferAssumption DEF Material
  <1>2. \A i \in 1..Len(chunk) : chunk[i] \in UploadCell
    BY <1>1 DEF UploadCell, Range
  <1> QED BY <1>1, <1>2

LEMMA EmptyBufferFilled ==
  ASSUME NEW s \in Subject, NEW k \in Signer, NEW h \in BufferInput
  PROVE  [did |-> s, authority |-> k, header |-> h, key |-> <<>>] \in Filled
  BY DEF Filled

LEMMA WrittenBufferFilled ==
  ASSUME NEW b \in Filled, NEW chunk \in ChunkInput
  PROVE  [b EXCEPT !.key = @ \o chunk] \in Filled
  <1> DEFINE key == b.key \o chunk
  <1>1. key \in Seq(UploadCell)
    BY ChunkCells DEF Filled
  <1> HIDE DEF key
  <1>2. [b EXCEPT !.key = key] \in Filled
    BY <1>1 DEF Filled
  <1> QED BY <1>2 DEF key

LEMMA FilledStep ==
  ASSUME BuffersFilled, [BufferNext]_bufferVars
  PROVE  BuffersFilled'
  <1>1. CASE Next /\ UNCHANGED buffers
    BY <1>1 DEF BuffersFilled
  <1>2. ASSUME NEW s \in Subject, NEW k \in Signer, CreateKeyBuffer(s, k)
        PROVE  BuffersFilled'
    BY <1>2, EmptyBufferFilled DEF CreateKeyBuffer, BuffersFilled
  <1>3. ASSUME NEW s \in Subject, NEW k \in Signer, WriteKeyBuffer(s, k)
        PROVE  BuffersFilled'
    <2>1. PICK b \in buffers, chunk \in ChunkInput :
            buffers' = (buffers \ {b}) \cup {[b EXCEPT !.key = @ \o chunk]}
      BY <1>3 DEF WriteKeyBuffer, Held
    <2>2. [b EXCEPT !.key = @ \o chunk] \in Filled
      BY WrittenBufferFilled DEF BuffersFilled
    <2> QED BY <2>1, <2>2 DEF BuffersFilled
  <1>4. ASSUME NEW s \in Subject, NEW k \in Signer,
               AddVerificationMethodFromBuffer(s, k) \/ CloseKeyBuffer(s, k)
        PROVE  BuffersFilled'
    BY <1>4 DEF AddVerificationMethodFromBuffer, CloseKeyBuffer, BuffersFilled
  <1>5. CASE UNCHANGED bufferVars
    BY <1>5 DEF bufferVars, BuffersFilled
  <1> QED BY <1>1, <1>2, <1>3, <1>4, <1>5 DEF BufferNext

\* A complete buffer holds a method that a caller could have passed whole.
LEMMA StagedIsInput ==
  ASSUME NEW b \in Filled, Len(b.key) = b.header.keyLen
  PROVE  Staged(b) \in MethodInput
  <1>1. b.header \in BufferInput /\ b.key \in [1..b.header.keyLen -> UploadCell]
    BY DEF Filled
  <1> QED BY <1>1, BufferAssumption DEF Staged

LEMMA UploadStep ==
  ASSUME BuffersFilled, [BufferNext]_bufferVars
  PROVE  [Next]_vars
  <1>1. ASSUME NEW s \in Subject, NEW k \in Signer,
               CreateKeyBuffer(s, k) \/ WriteKeyBuffer(s, k) \/ CloseKeyBuffer(s, k)
        PROVE  UNCHANGED vars
    BY <1>1 DEF CreateKeyBuffer, WriteKeyBuffer, CloseKeyBuffer, vars
  <1>2. ASSUME NEW s \in Subject, NEW k \in Signer, AddVerificationMethodFromBuffer(s, k)
        PROVE  Next
    <2>1. PICK b \in buffers : Len(b.key) = b.header.keyLen /\ InsertVm(s, k, Staged(b))
      BY <1>2 DEF AddVerificationMethodFromBuffer, Held
    <2>2. Staged(b) \in MethodInput
      BY <2>1, StagedIsInput DEF BuffersFilled
    <2>3. AddVerificationMethod(s, k)
      BY <1>2, <2>1, <2>2 DEF AddVerificationMethodFromBuffer, AddVerificationMethod
    <2> QED BY <2>3 DEF Next
  <1> QED BY <1>1, <1>2 DEF BufferNext, bufferVars, vars

\* An upload ends as add_verification_method would end if it ran now, with
\* the document, the authorities and the limits as they are now.
THEOREM UploadsAddNothing == BufferSpec => UploadIsAnAdd
  <1>1. BufferInit => BuffersFilled /\ Init
    BY DEF BufferInit, BuffersFilled
  <1>2. BuffersFilled /\ [BufferNext]_bufferVars => BuffersFilled'
    BY FilledStep
  <1>3. BuffersFilled /\ [BufferNext]_bufferVars => [Next]_vars
    BY UploadStep
  <1> QED BY <1>1, <1>2, <1>3, PTL DEF BufferSpec, UploadIsAnAdd, Spec

\* The DID and the authority name the buffer's address (create_key_buffer), so
\* one is held at a time.
OneBufferPerAuthority ==
  \A b, c \in buffers : b.did = c.did /\ b.authority = c.authority => b = c

LEMMA OneBufferStep ==
  ASSUME BuffersFilled, OneBufferPerAuthority, [BufferNext]_bufferVars
  PROVE  OneBufferPerAuthority'
  <1>1. ASSUME NEW s \in Subject, NEW k \in Signer, CreateKeyBuffer(s, k)
        PROVE  OneBufferPerAuthority'
    <2>1. PICK h \in BufferInput :
            buffers' = buffers \cup {[did |-> s, authority |-> k, header |-> h, key |-> <<>>]}
      BY <1>1 DEF CreateKeyBuffer
    <2>2. \A b \in buffers : ~(b.did = s /\ b.authority = k)
      BY <1>1 DEF CreateKeyBuffer, Held
    <2> QED BY <2>1, <2>2 DEF OneBufferPerAuthority
  <1>2. ASSUME NEW s \in Subject, NEW k \in Signer, WriteKeyBuffer(s, k)
        PROVE  OneBufferPerAuthority'
    <2> DEFINE Written(b, chunk) == [b EXCEPT !.key = @ \o chunk]
    <2>1. PICK b \in buffers, chunk \in ChunkInput :
            buffers' = (buffers \ {b}) \cup {Written(b, chunk)}
      BY <1>2 DEF WriteKeyBuffer, Held
    <2>2. Written(b, chunk).did = b.did /\ Written(b, chunk).authority = b.authority
      BY DEF BuffersFilled, Filled
    <2> HIDE DEF Written
    <2> QED BY <2>1, <2>2 DEF OneBufferPerAuthority
  <1>3. ASSUME NEW s \in Subject, NEW k \in Signer,
               AddVerificationMethodFromBuffer(s, k) \/ CloseKeyBuffer(s, k)
        PROVE  OneBufferPerAuthority'
    BY <1>3 DEF AddVerificationMethodFromBuffer, CloseKeyBuffer, OneBufferPerAuthority
  <1>4. CASE UNCHANGED buffers
    BY <1>4 DEF OneBufferPerAuthority
  <1> QED BY <1>1, <1>2, <1>3, <1>4 DEF BufferNext, bufferVars

LEMMA OneBuffer == BufferSpec => [](BuffersFilled /\ OneBufferPerAuthority)
  <1>1. BufferInit => BuffersFilled /\ OneBufferPerAuthority
    BY DEF BufferInit, BuffersFilled, OneBufferPerAuthority
  <1>2. BuffersFilled /\ OneBufferPerAuthority /\ [BufferNext]_bufferVars
          => BuffersFilled' /\ OneBufferPerAuthority'
    BY FilledStep, OneBufferStep
  <1> QED BY <1>1, <1>2, PTL DEF BufferSpec

-----------------------------------------------------------------------------
(* An upload in progress is only added to *)

LEMMA AppendKeepsPrefix ==
  ASSUME NEW key \in Seq(UploadCell), NEW chunk \in Seq(UploadCell)
  PROVE  /\ Len(key) <= Len(key \o chunk)
         /\ SubSeq(key \o chunk, 1, Len(key)) = key
  <1> DEFINE whole == key \o chunk
             begin == SubSeq(whole, 1, Len(key))
  <1>1. whole \in Seq(UploadCell) /\ Len(whole) = Len(key) + Len(chunk)
    OBVIOUS
  <1>2. \A i \in 1 .. Len(key) : whole[i] = key[i]
    OBVIOUS
  <1> HIDE DEF whole
  <1>3. /\ begin \in Seq(UploadCell) /\ Len(begin) = Len(key)
        /\ \A i \in 1 .. Len(key) : begin[i] = whole[i]
    BY <1>1
  <1> HIDE DEF begin
  <1>4. begin = key
    BY <1>2, <1>3
  <1> QED BY <1>1, <1>4 DEF begin, whole

\* What stands for b after a step: c at the same address, begun as b was.
Continues(b, c) ==
  /\ c.did = b.did /\ c.authority = b.authority /\ c.header = b.header
  /\ Len(b.key) <= Len(c.key) /\ SubSeq(c.key, 1, Len(b.key)) = b.key

LEMMA Unchanged ==
  ASSUME NEW b \in Filled
  PROVE  Continues(b, b)
  <1>1. b.key \in Seq(UploadCell)
    BY DEF Filled
  <1> QED BY <1>1 DEF Continues

LEMMA WrittenContinues ==
  ASSUME NEW b \in Filled, NEW chunk \in ChunkInput
  PROVE  Continues(b, [b EXCEPT !.key = b.key \o chunk])
  <1> DEFINE key == b.key \o chunk
  <1>1. Len(b.key) <= Len(key) /\ SubSeq(key, 1, Len(b.key)) = b.key
    BY ChunkCells, AppendKeepsPrefix DEF Filled
  <1> HIDE DEF key
  <1>2. Continues(b, [b EXCEPT !.key = key])
    BY <1>1 DEF Continues, Filled
  <1> QED BY <1>2 DEF key

LEMMA StagedStepHolds ==
  ASSUME BuffersFilled, OneBufferPerAuthority, [BufferNext]_bufferVars
  PROVE  StagedStep
  <1> SUFFICES ASSUME NEW b \in buffers
               PROVE  \/ \E c \in buffers' : Continues(b, c)
                      \/ Held(b.did, b.authority)' = {}
    BY DEF StagedStep, Held, Continues
  <1>1. Continues(b, b)
    BY Unchanged DEF BuffersFilled
  <1>2. ASSUME NEW s \in Subject, NEW k \in Signer, CreateKeyBuffer(s, k)
        PROVE  b \in buffers'
    BY <1>2 DEF CreateKeyBuffer
  <1>3. ASSUME NEW s \in Subject, NEW k \in Signer, WriteKeyBuffer(s, k)
        PROVE  \E c \in buffers' : Continues(b, c)
    <2>1. PICK w \in buffers, chunk \in ChunkInput :
            buffers' = (buffers \ {w}) \cup {[w EXCEPT !.key = w.key \o chunk]}
      BY <1>3 DEF WriteKeyBuffer, Held
    <2>2. CASE b = w
      BY <2>1, <2>2, WrittenContinues DEF BuffersFilled
    <2>3. CASE b # w
      BY <1>1, <2>1, <2>3
    <2> QED BY <2>2, <2>3
  <1>4. ASSUME NEW s \in Subject, NEW k \in Signer,
               AddVerificationMethodFromBuffer(s, k) \/ CloseKeyBuffer(s, k)
        PROVE  b \in buffers' \/ Held(b.did, b.authority)' = {}
    <2>1. PICK gone \in buffers : buffers' = buffers \ {gone}
      BY <1>4 DEF AddVerificationMethodFromBuffer, CloseKeyBuffer, Held
    <2>2. CASE b = gone
      BY <2>1, <2>2 DEF Held, OneBufferPerAuthority
    <2>3. CASE b # gone
      BY <2>1, <2>3
    <2> QED BY <2>2, <2>3
  <1>5. CASE UNCHANGED buffers
    BY <1>1, <1>5
  <1>6. CASE b \in buffers'
    BY <1>1, <1>6
  <1> HIDE DEF Continues, Held
  <1> QED BY <1>2, <1>3, <1>4, <1>5, <1>6 DEF BufferNext, bufferVars

\* No interleaving of the four instructions replaces an upload in progress:
\* its fragment, type, flags and bytes stand until it is finished or closed.
THEOREM StagedStays == BufferSpec => StagedIsKept
  <1>1. BuffersFilled /\ OneBufferPerAuthority /\ [BufferNext]_bufferVars => [StagedStep]_bufferVars
    BY StagedStepHolds
  <1> QED BY <1>1, OneBuffer, PTL DEF BufferSpec, StagedIsKept

-----------------------------------------------------------------------------
(* A buffer holds no more than it announced *)

NotOverfull == \A b \in buffers : Len(b.key) <= b.header.keyLen

LEMMA NotOverfullStep ==
  ASSUME BuffersFilled, NotOverfull, [BufferNext]_bufferVars
  PROVE  NotOverfull'
  <1>1. ASSUME NEW s \in Subject, NEW k \in Signer, CreateKeyBuffer(s, k)
        PROVE  NotOverfull'
    <2>1. PICK h \in BufferInput :
            buffers' = buffers \cup {[did |-> s, authority |-> k, header |-> h, key |-> <<>>]}
      BY <1>1 DEF CreateKeyBuffer
    <2>2. h.keyLen \in Nat
      BY BufferAssumption DEF Header
    <2> QED BY <2>1, <2>2 DEF NotOverfull
  <1>2. ASSUME NEW s \in Subject, NEW k \in Signer, WriteKeyBuffer(s, k)
        PROVE  NotOverfull'
    <2> DEFINE Written(b, chunk) == [b EXCEPT !.key = @ \o chunk]
    <2>1. PICK b \in buffers, chunk \in ChunkInput :
            /\ Len(b.key) + Len(chunk) <= b.header.keyLen
            /\ buffers' = (buffers \ {b}) \cup {Written(b, chunk)}
      BY <1>2 DEF WriteKeyBuffer, Held
    <2>2. b.key \in Seq(UploadCell) /\ chunk \in Seq(UploadCell) /\ b \in Filled
      BY ChunkCells DEF BuffersFilled, Filled
    <2>3. Written(b, chunk).key = b.key \o chunk /\ Written(b, chunk).header = b.header
      BY <2>2 DEF Filled
    <2>4. Len(b.key \o chunk) = Len(b.key) + Len(chunk)
      BY <2>2
    <2> HIDE DEF Written
    <2> QED BY <2>1, <2>3, <2>4 DEF NotOverfull
  <1>3. ASSUME NEW s \in Subject, NEW k \in Signer,
               AddVerificationMethodFromBuffer(s, k) \/ CloseKeyBuffer(s, k)
        PROVE  NotOverfull'
    BY <1>3 DEF AddVerificationMethodFromBuffer, CloseKeyBuffer, NotOverfull
  <1>4. CASE UNCHANGED buffers
    BY <1>4 DEF NotOverfull
  <1> QED BY <1>1, <1>2, <1>3, <1>4 DEF BufferNext, bufferVars

LEMMA FilledTyped == BuffersFilled => buffers \subseteq Buffer
  <1>1. UploadCell \subseteq Cell
    <2> SUFFICES ASSUME NEW chunk \in ChunkInput PROVE Range(chunk) \subseteq Cell
      BY DEF UploadCell
    <2>1. chunk \in Seq(Cell)
      BY BufferAssumption DEF Material
    <2> QED BY <2>1 DEF Range
  <1>2. \A key \in Seq(UploadCell) : key \in Material
    BY <1>1 DEF Material
  <1> QED BY <1>2, BufferAssumption DEF BuffersFilled, Filled, Buffer

LEMMA BuffersInvariant == BufferSpec => [](TypeOK /\ BuffersFilled /\ NotOverfull)
  <1>1. BufferInit => BuffersFilled /\ NotOverfull
    BY DEF BufferInit, BuffersFilled, NotOverfull
  <1>2. BuffersFilled /\ [BufferNext]_bufferVars => BuffersFilled'
    BY FilledStep
  <1>3. BuffersFilled /\ NotOverfull /\ [BufferNext]_bufferVars => NotOverfull'
    BY NotOverfullStep
  <1>4. BufferSpec => Spec
    BY UploadsAddNothing DEF UploadIsAnAdd
  <1> QED BY <1>1, <1>2, <1>3, <1>4, TypeCorrect, PTL DEF BufferSpec

\* Every buffer is well formed and holds no more than the key it announced,
\* however its chunks were cut.
THEOREM BuffersTyped == BufferSpec => []BufferTypeOK
  <1>1. TypeOK /\ BuffersFilled /\ NotOverfull => BufferTypeOK
    BY FilledTyped DEF BufferTypeOK, NotOverfull
  <1> QED BY <1>1, BuffersInvariant, PTL

-----------------------------------------------------------------------------
(* A buffer goes into the DID it was opened for *)

LEMMA FinishStepHolds ==
  ASSUME TypeOK, BuffersFilled, [BufferNext]_bufferVars
  PROVE  [FinishStep]_bufferVars
  <1>1. ASSUME NEW s \in Subject, NEW k \in Signer,
               CreateKeyBuffer(s, k) \/ WriteKeyBuffer(s, k) \/ CloseKeyBuffer(s, k)
        PROVE  FinishStep
    BY <1>1 DEF CreateKeyBuffer, WriteKeyBuffer, CloseKeyBuffer, FinishStep
  <1>2. ASSUME NEW s \in Subject, NEW k \in Signer, AddVerificationMethodFromBuffer(s, k)
        PROVE  FinishStep
    <2>1. PICK b \in buffers : /\ b.did = s /\ b.authority = k
                               /\ Len(b.key) = b.header.keyLen
                               /\ InsertVm(s, k, Staged(b))
                               /\ buffers' = buffers \ {b}
      BY <1>2 DEF AddVerificationMethodFromBuffer, Held
    <2> DEFINE d == [account[s] EXCEPT !.vms = account[s].vms \cup {Staged(b)}]
    <2>2. account[s] \in Document /\ Staged(b) \in Method
      BY <2>1, StagedIsInput, NewMethodTyped DEF TypeOK, BuffersFilled, InsertVm, CheckNewMethod
    <2>3. d \in Document /\ d.vms = account[s].vms \cup {Staged(b)}
      BY <2>2 DEF Document
    <2>4. Update(s, k, d)
      BY <2>1 DEF InsertVm
    <2> HIDE DEF d
    <2>5. /\ account'[s].vms = account[s].vms \cup {Staged(b)}
          /\ signedBy' = {k}
          /\ \A t \in Subject \ {s} : account'[t] = account[t]
      BY <2>3, <2>4, UpdateFrame, TouchKeeps DEF TypeOK
    <2> QED BY <2>1, <2>5 DEF FinishStep
  <1>3. CASE UNCHANGED buffers
    BY <1>3 DEF FinishStep
  <1> QED BY <1>1, <1>2, <1>3 DEF BufferNext, bufferVars

\* An upload lands whole, in the DID it was opened for and in no other, under
\* the key that opened it.
THEOREM UploadLandsInItsDid == BufferSpec => BufferFinishesInItsDid
  <1>1. TypeOK /\ BuffersFilled /\ [BufferNext]_bufferVars => [FinishStep]_bufferVars
    BY FinishStepHolds
  <1> QED BY <1>1, BuffersInvariant, PTL DEF BufferSpec, BufferFinishesInItsDid

-----------------------------------------------------------------------------
(* What the registry promises about documents, together, for the modules   *)
(* that implement it.                                                      *)

DocumentPromises ==
  /\ TypeOK
  /\ AlwaysAnAuthority /\ ProtectedKeepsAuthority /\ KeysCanSign /\ KeysWhole
  /\ FragmentsUnique /\ DefaultIsFounding /\ LimitsHold /\ ControllersWellFormed

ChangePromises ==
  /\ ProtectedUnderOwnKey /\ DefaultStaysGone
  /\ VersionCounts /\ TombstoneForever
  /\ ControlSpec

LEMMA PromisesKept == Spec => []DocumentPromises /\ ChangePromises
  <1>1. /\ TypeOK /\ AlwaysAnAuthority /\ ProtectedKeepsAuthority /\ KeysCanSign /\ KeysWhole
        /\ FragmentsUnique /\ DefaultIsFounding /\ LimitsHold /\ ControllersWellFormed
        => DocumentPromises
    BY DEF DocumentPromises
  <1>2. Spec => []DocumentPromises
    BY <1>1, TypeCorrect, NeverOrphaned, ProtectedIsAuthority, EveryKeyCanSign, KeysAreWhole,
       OneEntryPerFragment, DefaultNamesFounder, ListsStayInLimits,
       ControllersStayWellFormed, PTL
  <1>3. Spec => ChangePromises
    BY ProtectedAnswersToItself, DefaultNeverReturns, ChangesAreNumbered, TombstonesAreFinal,
       RegistryImplementsAuthority DEF ChangePromises
  <1> QED BY <1>2, <1>3

=============================================================================
