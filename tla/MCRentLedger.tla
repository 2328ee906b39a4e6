--------------------------- MODULE MCRentLedger ---------------------------
(***************************************************************************)
(* Constants of RentLedger for TLC: alice's DID and one she owns, which    *)
(* entries of equal and of different lengths come to and go from, and an   *)
(* upload to each.                                                         *)
(***************************************************************************)
EXTENDS RentLedger

CONSTANTS alice, bob

MCKey == {<<alice>>, <<bob>>}
MCKeyLen == [t \in VmType |-> IF t \in {"ed25519", "x25519"} THEN 1 ELSE 2]
Alice == {<<alice>>}
AliceAndOwned == Alice \cup {<<<<alice>>, 1>>}

MCBufferInput ==
  {[fragment |-> "m1", type |-> "dilithium5", flags |-> {"authentication"}, keyLen |-> 2]}

MCChunkInput == {<<bob, bob>>}

MCMethodInput ==
  {[fragment |-> "m1", type |-> "dilithium5", flags |-> {"authentication"},
    key |-> <<bob, bob>>]}

MCFlagInput == {{"assertion"}}

\* Two of the values are of one length.
MCValueLen == [web |-> 10, mail |-> 10, chat |-> 30]
MCExternalLen == [x |-> 10]
MCOtherInput == {<<>>, <<"x">>}
NoList == {<<>>}
MCFragmentLen == [f \in Fragment |-> IF f = DefaultFragment THEN 7 ELSE 2]
=============================================================================
