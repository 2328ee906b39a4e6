---------------------------- MODULE DidDocument ----------------------------
(***************************************************************************)
(* The rules of one DID document: src/program/src/state.rs, and the checks *)
(* and edits the instructions make on a document they have loaded.         *)
(*                                                                         *)
(* A key is the sequence of its bytes, because a key longer than one       *)
(* transaction arrives in chunks.  The alphabet Cell stands for the byte   *)
(* values, and KeyLen for the real lengths 32, 32, 33 and 2592.            *)
(*                                                                         *)
(* Verification methods and services are sets here and lists in the        *)
(* account.  Their order is never read by a rule: find_vm and find_service *)
(* stop at the first entry with a fragment, and fragments are unique       *)
(* (FragmentsUnique in DidRegistry).                                       *)
(***************************************************************************)
EXTENDS Naturals, Sequences, FiniteSets, Functions

CONSTANTS
  Cell,                     \* the alphabet that key material is written in
  Compressed,               \* the cells that may open a secp256k1 key: 0x02, 0x03
  Key,                      \* every 32-byte address
  OnCurve,                  \* the addresses that are Ed25519 curve points
  KeyLen,                   \* expected_key_len, by method type
  Fragment,                 \* the fragment names callers pass
  ValidFragment,            \* those that valid_fragment accepts
  ServiceValue,             \* the (type, endpoint) pairs callers pass
  ValidServiceValue,        \* those that valid_uri_ascii accepts in both parts
  External,                 \* the external controller strings callers pass
  ValidExternal,            \* those that valid_external_controller accepts
  MaxVerificationMethods,   \* 16 in the code
  MaxServices,              \* 16 in the code
  MaxNativeControllers,     \* 8 in the code
  MaxOtherControllers,      \* 8 in the code
  MaxVersion                \* u64::MAX in the code, where the version saturates

DefaultFragment == "default"

VmType == {"ed25519", "x25519", "secp256k1", "dilithium5"}

VmRelationship == {"authentication", "assertion", "keyAgreement",
                   "capabilityInvocation", "capabilityDelegation"}

ValidFlags == VmRelationship \cup {"protected"}

\* The 16-bit word also has bits that VM_VALID_MASK rejects.
Flag == ValidFlags \cup {"reserved"}

ASSUME DocumentAssumption ==
  /\ KeyLen \in [VmType -> Nat \ {0}]
  /\ Key \subseteq Seq(Cell)
  /\ OnCurve \subseteq Key
  /\ Compressed \subseteq Cell
  /\ DefaultFragment \in ValidFragment
  /\ ValidFragment \subseteq Fragment
  /\ ValidServiceValue \subseteq ServiceValue
  /\ ValidExternal \subseteq External
  /\ MaxVerificationMethods \in Nat \ {0}
  /\ {MaxServices, MaxNativeControllers, MaxOtherControllers} \subseteq Nat
  /\ MaxVersion \in Nat \ {0}

\* A 32-byte address used as an Ed25519 key has the length of one.
ASSUME KeyLengthAssumption == \A k \in Key : Len(k) = KeyLen["ed25519"]

Material == Seq(Cell)

Method == [fragment: Fragment, type: VmType, flags: SUBSET Flag, key: Material]

Service == [fragment: Fragment, value: ServiceValue]

-----------------------------------------------------------------------------
(* Authority *)

IsProtected(m) == "protected" \in m.flags

CanInvoke(m) == "capabilityInvocation" \in m.flags

IsAuthorityMethod(m) == m.type = "ed25519" /\ CanInvoke(m)

Authorities(d) == {m \in d.vms : IsAuthorityMethod(m)}

IsAuthority(d, k) == \E m \in Authorities(d) : m.key = k

AuthorityCount(d) == Cardinality(Authorities(d))

IsNativeController(d, c) == c \in Range(d.natives)

-----------------------------------------------------------------------------
(* The checks on what an instruction brings *)

MethodFragments(d) == {m.fragment : m \in d.vms}

ServiceFragments(d) == {v.fragment : v \in d.services}

\* Mutated form: only the methods are searched.
FragmentFreeAmongMethods(d, f) ==
  /\ f \notin MethodFragments(d)
  /\ f # DefaultFragment

\* Mutated form: the founding fragment is an ordinary one.
FragmentFreeWithDefault(d, f) ==
  f \notin MethodFragments(d) \cup ServiceFragments(d)

FragmentFree(d, f) ==
  /\ f \notin MethodFragments(d) \cup ServiceFragments(d)
  /\ f # DefaultFragment

\* Mutated form: protection does not require capabilityInvocation.
ValidVmFlagsAnyProtection(type, flags) ==
  /\ flags \subseteq ValidFlags
  /\ flags \cap {"capabilityInvocation", "protected"} # {} => type = "ed25519"

ValidVmFlags(type, flags) ==
  /\ flags \subseteq ValidFlags
  /\ flags \cap {"capabilityInvocation", "protected"} # {} => type = "ed25519"
  /\ "protected" \in flags => "capabilityInvocation" \in flags
  /\ type = "x25519" => flags \cap VmRelationship \subseteq {"keyAgreement"}
  /\ type = "dilithium5" => "keyAgreement" \notin flags

\* Mutated form: the limit is off by one.
CheckNewMethodOneMore(d, m, len) ==
  /\ Cardinality(d.vms) <= MaxVerificationMethods
  /\ m.fragment \in ValidFragment
  /\ FragmentFree(d, m.fragment)
  /\ m.type \in VmType
  /\ len = KeyLen[m.type]
  /\ ValidVmFlags(m.type, m.flags)

\* m is the method without its key bytes, len how many of them there are.
CheckNewMethod(d, m, len) ==
  /\ Cardinality(d.vms) < MaxVerificationMethods
  /\ m.fragment \in ValidFragment
  /\ FragmentFree(d, m.fragment)
  /\ m.type \in VmType
  /\ len = KeyLen[m.type]
  /\ ValidVmFlags(m.type, m.flags)

\* Mutated form: any Ed25519 key may enter.
CheckNewKeyAnyPoint(m, key, signer) ==
  /\ IsProtected(m) => key = signer
  /\ m.type = "secp256k1" => Head(key) \in Compressed

CheckNewKey(m, key, signer) ==
  /\ IsProtected(m) => key = signer
  /\ m.type = "ed25519" => key = signer \/ key \in OnCurve
  /\ m.type = "secp256k1" => Head(key) \in Compressed

\* Mutated form: repeated native controllers are accepted.
ValidControllersWithRepeats(s, natives, others) ==
  /\ Len(natives) <= MaxNativeControllers
  /\ Len(others) <= MaxOtherControllers
  /\ s \notin Range(natives)
  /\ Range(others) \subseteq ValidExternal
  /\ IsInjective(others)

ValidControllers(s, natives, others) ==
  /\ Len(natives) <= MaxNativeControllers
  /\ Len(others) <= MaxOtherControllers
  /\ s \notin Range(natives)
  /\ IsInjective(natives)
  /\ Range(others) \subseteq ValidExternal
  /\ IsInjective(others)

-----------------------------------------------------------------------------
(* The documents an instruction writes *)

\* Mutated form: the version is not capped.
TouchUncapped(d) == [d EXCEPT !.version = @ + 1]

\* Mutated form: the version wraps around.
TouchWrapping(d) == [d EXCEPT !.version = (@ + 1) % (MaxVersion + 1)]

Touch(d) == [d EXCEPT !.version = IF @ < MaxVersion THEN @ + 1 ELSE MaxVersion]

\* VM_FLAGS_DEFAULT: all five relationships and protection.
FoundingMethod(key) ==
  [fragment |-> DefaultFragment, type |-> "ed25519", flags |-> ValidFlags, key |-> key]

\* Initialize and InitializeOwned write the same document around a key.
InitialDocument(key) ==
  [state |-> "active", version |-> 1, natives |-> <<>>, others |-> <<>>,
   vms |-> {FoundingMethod(key)}, services |-> {}]

Tombstone(d) ==
  [state |-> "deactivated", version |-> d.version, natives |-> <<>>,
   others |-> <<>>, vms |-> {}, services |-> {}]

=============================================================================
