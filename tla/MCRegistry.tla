---------------------------- MODULE MCRegistry ----------------------------
(***************************************************************************)
(* Constants of DidRegistry for TLC.  A key is one cell, except secp256k1  *)
(* and dilithium5 keys, which are two.  alice and bob are wallets, prog is *)
(* a program (off the curve, signs through a CPI) and ghost an address off *)
(* the curve that nobody signs for.                                        *)
(***************************************************************************)
EXTENDS DidRegistry

CONSTANTS alice, bob, prog, ghost, point

MCCell == {alice, bob, prog, ghost, point}
MCCompressed == {point}
MCKey == {<<alice>>, <<bob>>, <<prog>>, <<ghost>>}
MCOnCurve == {<<alice>>, <<bob>>}
MCKeyLen == [t \in VmType |-> IF t \in {"ed25519", "x25519"} THEN 1 ELSE 2]
MCSigner == {<<alice>>, <<bob>>, <<prog>>}
Wallets == {<<alice>>, <<bob>>}

OwnedByProg == {<<<<prog>>, 1>>}
\* ghost can be listed as a controller, and can never have an account.
AliceAndGhost == {<<alice>>, <<ghost>>}
ThreeDids == {<<alice>>, <<bob>>, <<<<prog>>, 1>>}

FoundingFlags == ValidFlags
InvocationOnly == {"capabilityInvocation"}
ProtectedInvocation == {"capabilityInvocation", "protected"}

\* Words with and without authority and protection, one that protects without
\* authority, and one with an unknown bit.
AuthorityFlags == {InvocationOnly, ProtectedInvocation, {"authentication"}}
AllFlags == AuthorityFlags \cup {{"protected"}, {"reserved"}, {"keyAgreement"}}

New(fragments, types, words, keys) ==
  [fragment: fragments, type: types, flags: words, key: keys]

\* Every Ed25519 key, and the other types with keys of right and wrong form.
ProtectionMethods ==
  New({"default", "m1", "m2"}, {"ed25519"},
      {InvocationOnly, ProtectedInvocation, {"protected"}},
      {<<alice>>, <<bob>>, <<prog>>, <<ghost>>})

TypedMethods ==
  New({"m1"}, VmType \cup {"unknown"}, AllFlags,
      {<<ghost>>, <<point, alice>>, <<alice, bob>>})

FewMethods ==
  New({"default", "m1", "m2", "bad name"}, {"ed25519"},
      {InvocationOnly, ProtectedInvocation}, {<<bob>>})

OneMethod == New({"m1"}, {"ed25519"}, {InvocationOnly, ProtectedInvocation}, {<<bob>>})

ServiceMethods == TypedMethods \cup FewMethods

NoControllers == {<<>>}

EveryPair(S) == {<<>>} \cup {<<a>> : a \in S} \cup {<<a, b>> : a \in S, b \in S}

SubjectPairs == EveryPair(Subject)
ExternalPairs == EveryPair(External)
=============================================================================
