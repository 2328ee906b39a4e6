------------------------------ MODULE MCLayout ------------------------------
(***************************************************************************)
(* Constants of DidLayout for TLC.  Addresses are three cells, ML-DSA     *)
(* keys four, names, values and controllers one or two, so that every pair *)
(* of lengths that an edit compares is met: equal, longer, shorter.        *)
(***************************************************************************)
EXTENDS DidLayout

MCAlice == <<11, 12, 13>>
MCBob == <<21, 22, 23>>
MCCarol == <<31, 32, 33>>
MCKey == {MCAlice, MCBob, MCCarol}
MCCell == UNION {Range(k) : k \in MCKey}
MCOnCurve == {MCBob}
MCKeyLen == [t \in VmType |-> IF t = "dilithium5" THEN 4 ELSE 3]
\* Alice signs, for the DID she owns.  Anyone may create Bob's, and nobody
\* signs for it; Carol's cannot be created.
MCSigner == {MCAlice}
MCSubject == {<<MCAlice, 5>>, MCBob, MCCarol}
MCAddress == [s \in MCSubject |-> IF s \in MCKey THEN s ELSE <<14, 15, 16>>]

MCSpelling ==
  [f \in Fragment |-> CASE f = "default" -> <<41>> [] f = "m1" -> <<42>> [] f = "m2" -> <<43, 44>>
                       [] f = "m3" -> <<45>>]

MCMethodInput ==
  {[fragment |-> "m1", type |-> "ed25519", flags |-> {"capabilityInvocation"}, key |-> MCAlice],
   [fragment |-> "m2", type |-> "dilithium5", flags |-> {}, key |-> <<11, 22, 31, 33>>]}

MCFlagInput == {{"capabilityInvocation"}, {"authentication"}}

MCServiceValue == {<<<<51>>, <<61>>>>, <<<<51, 52>>, <<62, 63>>>>}
MCExternal == {<<71>>, <<72, 73>>}
MCControllerInput == {<<>>, <<MCCarol, MCBob>>}
MCOtherInput == {<<>>, <<<<72, 73>>>>, <<<<71>>, <<72, 73>>>>}
=============================================================================
