---------------------------- MODULE DidAuthority ----------------------------
(***************************************************************************)
(* What the registry promises about control, without documents: who may    *)
(* change a DID, that a live DID is never left without an authority, that  *)
(* a protected key answers only to itself, and that deactivation is final. *)
(* DidRegistry implements this specification.                              *)
(***************************************************************************)
CONSTANTS
  Key,      \* every address
  OnCurve,  \* those that are public keys
  Subject,  \* what is controlled
  Owner     \* the key a subject belongs to when it is created

VARIABLES
  status,      \* "absent", "active" or "deactivated"
  holders,     \* the keys that are authorities of the subject
  shields,     \* the keys that are protected in it
  controllers, \* the subjects that control it
  signedBy     \* the key that signed the last instruction, {} if none had to

vars == <<status, holders, shields, controllers, signedBy>>

Init ==
  /\ status = [s \in Subject |-> "absent"]
  /\ holders = [s \in Subject |-> {}]
  /\ shields = [s \in Subject |-> {}]
  /\ controllers = [s \in Subject |-> {}]
  /\ signedBy = {}

Live(s) == status[s] = "active"

\* A key controls a live subject as its own authority, or as an authority of
\* a live controller; control reaches one level.
Controls(k, s) ==
  /\ Live(s)
  /\ \/ k \in holders[s]
     \/ \E c \in controllers[s] : Live(c) /\ k \in holders[c]

\* Whatever happens to s, every other subject stays as it is.
OnlyAt(s) ==
  /\ status' = [status EXCEPT ![s] = status'[s]]
  /\ holders' = [holders EXCEPT ![s] = holders'[s]]
  /\ shields' = [shields EXCEPT ![s] = shields'[s]]
  /\ controllers' = [controllers EXCEPT ![s] = controllers'[s]]

\* A subject that is a key needs no signature; any other needs its owner's.
Create(s) ==
  /\ status[s] = "absent"
  /\ OnlyAt(s)
  /\ status'[s] = "active"
  /\ holders'[s] = {Owner[s]}
  /\ shields'[s] = {Owner[s]}
  /\ controllers'[s] = {}
  /\ signedBy' = IF s \in OnCurve THEN {} ELSE {Owner[s]}

Change(s, k) ==
  /\ Controls(k, s)
  /\ signedBy' = {k}
  /\ OnlyAt(s)
  /\ status'[s] = "active"
  /\ holders'[s] \subseteq Key
  /\ holders'[s] # {}
  /\ shields'[s] \subseteq holders'[s]
  /\ shields'[s] \ {k} = shields[s] \ {k}
  /\ controllers'[s] \subseteq Subject \ {s}

Deactivate(s, k) ==
  /\ Controls(k, s)
  /\ signedBy' = {k}
  /\ OnlyAt(s)
  /\ status'[s] = "deactivated"
  /\ holders'[s] = {}
  /\ shields'[s] = {}
  /\ controllers'[s] = {}

Next ==
  \E s \in Subject :
    \/ Create(s)
    \/ \E k \in Key : Change(s, k) \/ Deactivate(s, k)

Spec == Init /\ [][Next]_vars

=============================================================================
