---------------------------- MODULE MCKeyUpload ----------------------------
(***************************************************************************)
(* Constants of KeyUpload for TLC: a DID with two authorities.  A key is   *)
(* three cells and goes in two chunks; addresses are one cell.             *)
(***************************************************************************)
EXTENDS KeyUpload

CONSTANTS alice, bob

MCCell == {alice, bob}
MCKey == {<<alice>>, <<bob>>}
MCKeyLen == [t \in VmType |-> IF t = "dilithium5" THEN 3 ELSE 1]
MCSubject == {<<alice>>}

Staging(f) == [fragment |-> f, type |-> "dilithium5", flags |-> {}, keyLen |-> 3]
MCBufferInput == {Staging("m1"), Staging("m2")}

Want(k, f, key) == [did |-> <<alice>>, authority |-> <<k>>, header |-> Staging(f), key |-> key]

\* Alice wants two keys, one after the other.
Hers == {Want(alice, "m1", <<alice, alice, bob>>), Want(alice, "m2", <<bob, bob, alice>>)}

MCChunkInput == {c.chunk : c \in {c \in Calls : c.op = "write"}}

MCMethodInput ==
  {[fragment |-> h.fragment, type |-> h.type, flags |-> h.flags, key |-> key] :
     h \in BufferInput, key \in [1..3 -> MCCell]}

BobsMethod ==
  [fragment |-> "bob", type |-> "ed25519", flags |-> {"capabilityInvocation"}, key |-> <<bob>>]

MCFounded ==
  [s \in MCSubject |->
     [InitialDocument(<<alice>>) EXCEPT !.vms = @ \cup {BobsMethod}, !.version = MaxVersion]]

NoList == {<<>>}
=============================================================================
