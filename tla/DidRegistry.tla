---------------------------- MODULE DidRegistry ----------------------------
(***************************************************************************)
(* The registry program's DID accounts and the ten instructions that write *)
(* them without a key buffer (src/program/src/instructions/).  An          *)
(* instruction is atomic: it commits every write or fails and leaves the   *)
(* accounts as they were, so a failure is a stuttering step.  What is      *)
(* concurrent is who sends the next one: authorities of the DID, their     *)
(* co-authorities, authorities of its controllers, and strangers.          *)
(***************************************************************************)
EXTENDS DidDocument

CONSTANTS
  Subject,          \* the subjects in play: keys and owned subjects
  Nonce,            \* the nonces of initialize_owned
  Signer,           \* the addresses that sign: wallets, and programs through a CPI
  MethodInput,      \* the methods that add_verification_method is called with
  FlagInput,        \* the words set_verification_method_flags is called with
  ControllerInput,  \* the native and
  OtherInput        \* the external lists that set_controllers is called with

\* The address is a hash of both, off the curve: it is no key's.
OwnedSubject(k, n) == <<k, n>>

ASSUME RegistryAssumption ==
  /\ Subject \subseteq Key \cup (Key \X Nonce)
  /\ Key \cap (Key \X Nonce) = {}
  /\ Signer \subseteq Key
  /\ MethodInput \subseteq [fragment: Fragment, type: VmType \cup {"unknown"},
                            flags: SUBSET Flag, key: Material]
  /\ FlagInput \subseteq SUBSET Flag
  /\ ControllerInput \subseteq Seq(Subject)
  /\ OtherInput \subseteq Seq(External)

VARIABLES
  account,   \* the DID account at each subject's address
  signedBy   \* the authority that signed the last instruction, {} if none had to

vars == <<account, signedBy>>

Document ==
  [state: {"absent", "active", "deactivated"}, version: 0..MaxVersion,
   natives: Seq(Subject), others: Seq(External),
   vms: SUBSET Method, services: SUBSET Service]

NoAccount ==
  [state |-> "absent", version |-> 0, natives |-> <<>>, others |-> <<>>,
   vms |-> {}, services |-> {}]

Live(s) == account[s].state = "active"

Init ==
  /\ account = [s \in Subject |-> NoAccount]
  /\ signedBy = {}

-----------------------------------------------------------------------------
(* Creation *)

Create(s, key) ==
  /\ account[s].state = "absent"
  /\ account' = [account EXCEPT ![s] = InitialDocument(key)]

\* Mutated form: whatever is not live may be initialized.
InitializeAgain(s) ==
  /\ s \in OnCurve
  /\ ~Live(s)
  /\ account' = [account EXCEPT ![s] = InitialDocument(s)]
  /\ signedBy' = {}

\* Anyone may send it.
Initialize(s) ==
  /\ s \in OnCurve
  /\ Create(s, s)
  /\ signedBy' = {}

InitializeOwned(k, n) ==
  /\ OwnedSubject(k, n) \in Subject
  /\ Create(OwnedSubject(k, n), k)
  /\ signedBy' = {k}

-----------------------------------------------------------------------------
(* Updates *)

\* Mutated form: control reaches through a controller's controllers.
AuthorizedTwoLevels(s, k) ==
  /\ Live(s)
  /\ \/ IsAuthority(account[s], k)
     \/ \E c \in Subject, b \in Subject :
          /\ IsNativeController(account[s], c)
          /\ Live(c)
          /\ b = c \/ IsNativeController(account[c], b)
          /\ Live(b)
          /\ IsAuthority(account[b], k)

\* c is the account the caller passes as the controller.
Authorized(s, k) ==
  /\ Live(s)
  /\ \/ IsAuthority(account[s], k)
     \/ \E c \in Subject : /\ IsNativeController(account[s], c)
                           /\ Live(c)
                           /\ IsAuthority(account[c], k)

Update(s, k, document) ==
  /\ account' = [account EXCEPT ![s] = Touch(document)]
  /\ signedBy' = {k}

\* Both ways to add a method share these checks.
InsertVm(s, k, m) ==
  /\ CheckNewMethod(account[s], m, Len(m.key))
  /\ CheckNewKey(m, m.key, k)
  /\ Update(s, k, [account[s] EXCEPT !.vms = @ \cup {m}])

AddVerificationMethod(s, k) ==
  /\ Authorized(s, k)
  /\ \E m \in MethodInput : InsertVm(s, k, m)

\* Mutated form: the last authority may be removed.
RemoveAnyVerificationMethod(s, k) ==
  /\ Authorized(s, k)
  /\ \E m \in account[s].vms :
       /\ IsProtected(m) => m.key = k
       /\ Update(s, k, [account[s] EXCEPT !.vms = @ \ {m}])

RemoveVerificationMethod(s, k) ==
  /\ Authorized(s, k)
  /\ \E m \in account[s].vms :
       /\ IsProtected(m) => m.key = k
       /\ IsAuthorityMethod(m) => AuthorityCount(account[s]) > 1
       /\ Update(s, k, [account[s] EXCEPT !.vms = @ \ {m}])

\* Mutated form: only the old word is asked whether it is protected.
SetFlagsGrantingProtection(s, k) ==
  /\ Authorized(s, k)
  /\ \E m \in account[s].vms, flags \in FlagInput :
       LET changed == [m EXCEPT !.flags = flags] IN
       /\ IsProtected(m) => m.key = k
       /\ ValidVmFlags(m.type, flags)
       /\ IsAuthorityMethod(m) /\ ~CanInvoke(changed) => AuthorityCount(account[s]) > 1
       /\ Update(s, k, [account[s] EXCEPT !.vms = (@ \ {m}) \cup {changed}])

SetVerificationMethodFlags(s, k) ==
  /\ Authorized(s, k)
  /\ \E m \in account[s].vms, flags \in FlagInput :
       LET changed == [m EXCEPT !.flags = flags] IN
       /\ IsProtected(m) \/ IsProtected(changed) => m.key = k
       /\ ValidVmFlags(m.type, flags)
       /\ IsAuthorityMethod(m) /\ ~CanInvoke(changed) => AuthorityCount(account[s]) > 1
       /\ Update(s, k, [account[s] EXCEPT !.vms = (@ \ {m}) \cup {changed}])

AddService(s, k) ==
  /\ Authorized(s, k)
  /\ Cardinality(account[s].services) < MaxServices
  /\ \E f \in ValidFragment, v \in ValidServiceValue :
       /\ FragmentFree(account[s], f)
       /\ Update(s, k, [account[s] EXCEPT
            !.services = @ \cup {[fragment |-> f, value |-> v]}])

UpdateService(s, k) ==
  /\ Authorized(s, k)
  /\ \E service \in account[s].services, v \in ValidServiceValue :
       Update(s, k, [account[s] EXCEPT
         !.services = (@ \ {service}) \cup {[service EXCEPT !.value = v]}])

RemoveService(s, k) ==
  /\ Authorized(s, k)
  /\ \E service \in account[s].services :
       Update(s, k, [account[s] EXCEPT !.services = @ \ {service}])

SetControllers(s, k) ==
  /\ Authorized(s, k)
  /\ \E natives \in ControllerInput, others \in OtherInput :
       /\ ValidControllers(s, natives, others)
       /\ Update(s, k, [account[s] EXCEPT !.natives = natives, !.others = others])

Deactivate(s, k) ==
  /\ Authorized(s, k)
  /\ Update(s, k, Tombstone(account[s]))

Next ==
  \/ \E s \in Subject : Initialize(s)
  \/ \E k \in Signer, n \in Nonce : InitializeOwned(k, n)
  \/ \E s \in Subject, k \in Signer :
       \/ AddVerificationMethod(s, k)
       \/ RemoveVerificationMethod(s, k)
       \/ SetVerificationMethodFlags(s, k)
       \/ AddService(s, k)
       \/ UpdateService(s, k)
       \/ RemoveService(s, k)
       \/ SetControllers(s, k)
       \/ Deactivate(s, k)

Spec == Init /\ [][Next]_vars

-----------------------------------------------------------------------------
(* Invariants *)

\* Every account is a document, absent until created, of finitely many
\* methods: the shape state.rs parses (DidView::parse).
TypeOK ==
  /\ account \in [Subject -> Document]
  /\ signedBy \in SUBSET Key
  /\ \A s \in Subject : IsFiniteSet(account[s].vms)

\* No sequence of updates, by however many co-authorities and controllers,
\* orphans a live DID: it keeps an authority of its own
\* (remove_verification_method.rs and set_verification_method_flags.rs).
AlwaysAnAuthority ==
  \A s \in Subject : Live(s) => Authorities(account[s]) # {}

\* A protected method is an authority, so its key can act on it and the
\* method can never become unremovable (validate_vm_flags).
ProtectedKeepsAuthority ==
  \A s \in Subject : \A m \in account[s].vms :
    IsProtected(m) => IsAuthorityMethod(m)

\* Every Ed25519 key in a document is one that somebody can sign with: a curve
\* point, or a program that already signed (check_new_key, initialize).
KeysCanSign ==
  \A s \in Subject : \A m \in account[s].vms :
    m.type = "ed25519" => m.key \in OnCurve \cup Signer

\* A fragment names one method or one service of the document, never two
\* entries (require_fragment_free), across adds, updates and removals.
FragmentsUnique ==
  \A s \in Subject :
    LET d == account[s] IN
    /\ \A a, b \in d.vms : a.fragment = b.fragment => a = b
    /\ \A a, b \in d.services : a.fragment = b.fragment => a = b
    /\ MethodFragments(d) \cap ServiceFragments(d) = {}

FoundingKey(s) == IF s \in Key THEN s ELSE s[1]

\* #default only ever names the founding method: the subject's own key, or the
\* key that signed initialize_owned.  A resolver may read it as that key
\* whatever happened to the document since (require_fragment_free).
DefaultIsFounding ==
  \A s \in Subject :
    /\ \A m \in account[s].vms :
         m.fragment = DefaultFragment => m.key = FoundingKey(s)
    /\ DefaultFragment \notin ServiceFragments(account[s])

\* The four vectors stay within the limits the account was sized for,
\* whichever of the paths that fill them ran last.
LimitsHold ==
  \A s \in Subject :
    LET d == account[s] IN
    /\ Cardinality(d.vms) <= MaxVerificationMethods
    /\ Cardinality(d.services) <= MaxServices
    /\ Len(d.natives) <= MaxNativeControllers
    /\ Len(d.others) <= MaxOtherControllers

\* No document lists itself or one controller twice (set_controllers), so
\* no DID grants itself a second way in.
ControllersWellFormed ==
  \A s \in Subject :
    LET d == account[s] IN
    /\ s \notin Range(d.natives)
    /\ IsInjective(d.natives) /\ IsInjective(d.others)
    /\ Range(d.others) \subseteq ValidExternal

\* A key is stored whole, at its type's length (expected_key_len), whether
\* it came in one transaction or through a buffer.
KeysWhole ==
  \A s \in Subject : \A m \in account[s].vms : Len(m.key) = KeyLen[m.type]

-----------------------------------------------------------------------------
(* Action properties *)

Protected(s) == {m \in account[s].vms : IsProtected(m)}

\* While a DID lives, its protected methods come, change and go only in an
\* instruction their own key signed, never under a co-authority or a
\* controller (the three checks of VM_FLAG_PROTECTED).
ProtectedStep ==
  \A s \in Subject :
    Live(s) /\ Live(s)' =>
      \A m \in (Protected(s)' \ Protected(s)) \cup (Protected(s) \ Protected(s)') :
        signedBy' = {m.key}

ProtectedUnderOwnKey == [][ProtectedStep]_vars

\* A deactivated DID is final: the tombstone is empty and no instruction, not
\* even a fresh initialize of the same subject, writes it again.
TombstoneStep ==
  \A s \in Subject :
    account[s].state = "deactivated" =>
      /\ account'[s] = account[s]
      /\ account[s].vms = {} /\ account[s].services = {} /\ account[s].natives = <<>>

TombstoneForever == [][TombstoneStep]_vars

\* Below saturation every change of an account raises its version by one, so
\* a reader that saw version v can tell whether what it holds is current (touch).
VersionStep ==
  \A s \in Subject :
    account'[s] # account[s] =>
      account'[s].version =
        IF account[s].version < MaxVersion THEN account[s].version + 1 ELSE MaxVersion

VersionCounts == [][VersionStep]_vars

\* Once the founding method is gone, #default stays gone
\* (DEFAULT_FRAGMENT, state.rs).
DefaultStep ==
  \A s \in Subject :
    account[s].state # "absent" /\ DefaultFragment \notin MethodFragments(account[s]) =>
      DefaultFragment \notin MethodFragments(account[s])'

DefaultStaysGone == [][DefaultStep]_vars

\* state.rs says of VM_FLAG_PROTECTED: "A protected method can only be removed,
\* re-flagged, or newly added when its own key signs".  The code keeps this
\* in every update but deactivate, which removes all methods under any
\* authority and under a controller's.
ProtectedGoesStep ==
  \A s \in Subject : \A m \in Protected(s) \ Protected(s)' : signedBy' = {m.key}

ProtectedGoesUnderOwnKey == [][ProtectedGoesStep]_vars

-----------------------------------------------------------------------------
(* Refinement *)

Keys(methods) == {m.key : m \in methods}

Control == INSTANCE DidAuthority WITH
  Owner       <- [s \in Subject |-> FoundingKey(s)],
  status      <- [s \in Subject |-> account[s].state],
  holders     <- [s \in Subject |-> Keys(Authorities(account[s]))],
  shields     <- [s \in Subject |-> Keys(Protected(s))],
  controllers <- [s \in Subject |-> Range(account[s].natives)]

\* Forgetting all but who controls what, the program does only what
\* DidAuthority promises: an account changes only under the signature of one
\* of its live authorities or a live controller's (authorize), at one level.
ControlSpec == Control!Spec

=============================================================================
