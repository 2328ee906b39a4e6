--------------------------- MODULE MCKeyBuffers ---------------------------
(***************************************************************************)
(* Constants of KeyBuffers for TLC: alice's own DID and one that bob owns, *)
(* an Ed25519 upload of one cell and ML-DSA uploads of two.                *)
(***************************************************************************)
EXTENDS KeyBuffers

CONSTANTS alice, bob

MCCell == {alice, bob}
MCKey == {<<alice>>, <<bob>>}
MCKeyLen == [t \in VmType |-> IF t \in {"ed25519", "x25519"} THEN 1 ELSE 2]
MCSubject == {<<alice>>, <<<<bob>>, 1>>}

MCBufferInput ==
  {[fragment |-> "m1", type |-> "dilithium5", flags |-> {"authentication"}, keyLen |-> 2],
   [fragment |-> "m2", type |-> "ed25519", flags |-> {"capabilityInvocation"}, keyLen |-> 1]}

MCChunkInput == {<<>>, <<bob>>, <<bob, bob>>}

Complete(h) ==
  {[fragment |-> h.fragment, type |-> h.type, flags |-> h.flags, key |-> key] :
     key \in [1..h.keyLen -> UploadCell]}

MCMethodInput == UNION {Complete(h) : h \in BufferInput}

\* Bob's DID may put itself under alice's.
MCControllerInput == {<<>>, <<<<alice>>>>}

NoList == {<<>>}
=============================================================================
