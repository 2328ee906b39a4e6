---------------------------- MODULE MCDidEvents ----------------------------
(***************************************************************************)
(* Constants of DidEvents for TLC: a DID that bob owns, with one input for *)
(* each kind of update and an upload of one cell, and alice's own DID,     *)
(* which somebody creates and nobody edits.                                *)
(***************************************************************************)
EXTENDS DidEvents

CONSTANTS alice, bob

MCCell == {alice, bob}
MCKey == {<<alice>>, <<bob>>}
MCKeyLen == [t \in VmType |-> 1]
MCSubject == {<<alice>>, <<<<bob>>, 1>>}
MCSigner == {<<bob>>}

MCBufferInput ==
  {[fragment |-> "m1", type |-> "x25519", flags |-> {}, keyLen |-> 1]}

MCMethodInput ==
  {[fragment |-> "m1", type |-> "x25519", flags |-> {}, key |-> <<alice>>]}

MCChunkInput == {<<alice>>}

MCFlagInput == {{"capabilityInvocation"}}

MCControllerInput == {<<>>, <<<<alice>>>>}

NoList == {<<>>}
=============================================================================
