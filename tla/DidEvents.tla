----------------------------- MODULE DidEvents -----------------------------
(***************************************************************************)
(* The events that instructions log (events.rs), and an indexer that keeps *)
(* a copy of every document by following them.  An event names the account *)
(* and its new version, not the change, so the indexer reads the account   *)
(* when it handles one.  Events reach it late and in any order, and the    *)
(* account it then reads may be far ahead of the event.                    *)
(***************************************************************************)
EXTENDS KeyBuffers

CONSTANT MaxEvents  \* bound: how many events are logged in all

VARIABLES
  log,    \* per DID, the events logged about it
  seen,   \* per DID, the positions in log that the indexer has handled
  index   \* the indexer's copy of each account

eventVars == <<account, signedBy, buffers, log, seen, index>>

EventCount == FoldFunction(LAMBDA events, n : n + Len(events), 0, log)

EventInit ==
  /\ BufferInit
  /\ log = [s \in Subject |-> <<>>]
  /\ seen = [s \in Subject |-> {}]
  /\ index = account

-----------------------------------------------------------------------------
(* The program *)

Emit(s, kind, version) ==
  /\ EventCount < MaxEvents
  /\ log' = [log EXCEPT ![s] = Append(@, [kind |-> kind, version |-> version])]
  /\ UNCHANGED <<seen, index>>

\* initialize and initialize_owned log the version they wrote, 1.
Initialized(s) == Emit(s, "initialized", 1)

\* Mutated form: the version is read before touch raises it.
ModifiedBeforeTouch(s) == Emit(s, "modified", account[s].version)

\* The version is read back from the account after touch.
Modified(s) == Emit(s, "modified", account'[s].version)

Deactivated(s) == Emit(s, "deactivated", account'[s].version)

\* Mutated form: finishing an upload logs nothing, like the other three
\* instructions on buffers.
FinishSilently(s, k) ==
  /\ AddVerificationMethodFromBuffer(s, k)
  /\ UNCHANGED <<log, seen, index>>

FinishLogged(s, k) ==
  /\ AddVerificationMethodFromBuffer(s, k)
  /\ Modified(s)

LoggedNext ==
  \/ \E s \in Subject :
       /\ Initialize(s)
       /\ Initialized(s)
       /\ UNCHANGED buffers
  \/ \E k \in Signer, n \in Nonce :
       /\ InitializeOwned(k, n)
       /\ Initialized(OwnedSubject(k, n))
       /\ UNCHANGED buffers
  \/ \E s \in Subject, k \in Signer :
       /\ \/ AddVerificationMethod(s, k)
          \/ RemoveVerificationMethod(s, k)
          \/ SetVerificationMethodFlags(s, k)
          \/ AddService(s, k)
          \/ UpdateService(s, k)
          \/ RemoveService(s, k)
          \/ SetControllers(s, k)
       /\ Modified(s)
       /\ UNCHANGED buffers
  \/ \E s \in Subject, k \in Signer :
       /\ Deactivate(s, k)
       /\ Deactivated(s)
       /\ UNCHANGED buffers
  \/ \E s \in Subject, k \in Signer : FinishLogged(s, k)
  \/ \E s \in Subject, k \in Signer :
       /\ \/ CreateKeyBuffer(s, k)
          \/ WriteKeyBuffer(s, k)
          \/ CloseKeyBuffer(s, k)
       /\ UNCHANGED <<log, seen, index>>

-----------------------------------------------------------------------------
(* The indexer *)

\* Skips an event that its copy is not older than; else reads the account.
Handle(s, i) ==
  /\ i \in DOMAIN log[s] \ seen[s]
  /\ seen' = [seen EXCEPT ![s] = @ \cup {i}]
  /\ index' = IF log[s][i].version > index[s].version
              THEN [index EXCEPT ![s] = account[s]]
              ELSE index
  /\ UNCHANGED <<account, signedBy, buffers, log>>

EventNext ==
  \/ LoggedNext
  \/ \E s \in Subject : \E i \in DOMAIN log[s] : Handle(s, i)

\* Every logged event reaches the indexer in the end, in no given order.
EventSpec ==
  /\ EventInit
  /\ [][EventNext]_eventVars
  /\ \A s \in Subject, i \in 1..MaxEvents : WF_eventVars(Handle(s, i))

-----------------------------------------------------------------------------
(* Properties *)

\* The log tells the whole history of a DID: a first event for its creation
\* and one for each change after it, numbered 1, 2, 3, ... until the version
\* saturates, the last with the version the account has now, and an event of
\* deactivation last exactly if the account is a tombstone.
LogTellsAll ==
  \A s \in Subject :
    LET n == Len(log[s]) IN
    /\ (n = 0) = (account[s].state = "absent")
    /\ \A i \in 1..n :
         /\ log[s][i].version = IF i < MaxVersion THEN i ELSE MaxVersion
         /\ (log[s][i].kind = "initialized") = (i = 1)
         /\ log[s][i].kind = "deactivated" => i = n /\ account[s].state = "deactivated"
    /\ account[s].state = "deactivated" => log[s][n].kind = "deactivated"
    /\ n > 0 => log[s][n].version = account[s].version

\* An indexer that has handled every event of a DID holds its document as it
\* is, in whatever order the events came: no change of a document goes
\* without a version, and no two of its documents share one, until the
\* version saturates.  From there on versions tell nothing.
IndexIsCurrent ==
  \A s \in Subject :
    account[s].version < MaxVersion /\ seen[s] = DOMAIN log[s] =>
      index[s] = account[s]

\* The indexer reaches every version, or a later one, also while updates and
\* uploads go on.
IndexCatchesUp ==
  \A s \in Subject, v \in 1..MaxVersion :
    account[s].version = v ~> index[s].version >= v

=============================================================================
