------------------------- MODULE DidEvents_proofs --------------------------
(***************************************************************************)
(* The log tells every change, and versions alone bring an indexer up to   *)
(* date, for every number of DIDs and events.  A step logs at most one     *)
(* event, about the one account it writes (LoggedStep).                    *)
(***************************************************************************)
EXTENDS DidEvents, Registry_proofs

Raise(version) == IF version < MaxVersion THEN version + 1 ELSE MaxVersion

\* The account of s is live and gets its next version; no other is written.
Raised(s, state) ==
  /\ Live(s)
  /\ account'[s].version = Raise(account[s].version)
  /\ account'[s].state = state
  /\ \A t \in Subject \ {s} : account'[t] = account[t]

-----------------------------------------------------------------------------
(* Updates raise the version *)

LEMMA MethodsRaise ==
  ASSUME TypeOK, NEW s \in Subject, NEW k, NEW methods, Live(s),
         Update(s, k, [account[s] EXCEPT !.vms = methods])
  PROVE  Raised(s, "active")
  BY DEF TypeOK, Document, Update, Touch, Raised, Raise, Live

LEMMA ServicesRaise ==
  ASSUME TypeOK, NEW s \in Subject, NEW k, NEW services, Live(s),
         Update(s, k, [account[s] EXCEPT !.services = services])
  PROVE  Raised(s, "active")
  BY DEF TypeOK, Document, Update, Touch, Raised, Raise, Live

LEMMA ListsRaise ==
  ASSUME TypeOK, NEW s \in Subject, NEW k, NEW natives, NEW others, Live(s),
         Update(s, k, [account[s] EXCEPT !.natives = natives, !.others = others])
  PROVE  Raised(s, "active")
  BY DEF TypeOK, Document, Update, Touch, Raised, Raise, Live

LEMMA TombstoneRaises ==
  ASSUME TypeOK, NEW s \in Subject, NEW k, Live(s), Update(s, k, Tombstone(account[s]))
  PROVE  Raised(s, "deactivated")
  BY DEF TypeOK, Document, Update, Touch, Tombstone, Raised, Raise, Live

LEMMA ModificationRaises ==
  ASSUME TypeOK, NEW s \in Subject, NEW k \in Signer,
         \/ AddVerificationMethod(s, k)
         \/ RemoveVerificationMethod(s, k)
         \/ SetVerificationMethodFlags(s, k)
         \/ AddService(s, k)
         \/ UpdateService(s, k)
         \/ RemoveService(s, k)
         \/ SetControllers(s, k)
         \/ AddVerificationMethodFromBuffer(s, k)
  PROVE  Raised(s, "active")
  <1>1. Live(s)
    BY DEF AddVerificationMethod, RemoveVerificationMethod, SetVerificationMethodFlags,
           AddService, UpdateService, RemoveService, SetControllers,
           AddVerificationMethodFromBuffer, Authorized
  <1>2. CASE \/ AddVerificationMethod(s, k) \/ RemoveVerificationMethod(s, k)
             \/ SetVerificationMethodFlags(s, k) \/ AddVerificationMethodFromBuffer(s, k)
    <2>1. \E methods : Update(s, k, [account[s] EXCEPT !.vms = methods])
      BY <1>2 DEF AddVerificationMethod, RemoveVerificationMethod, InsertVm,
                  SetVerificationMethodFlags, AddVerificationMethodFromBuffer
    <2> QED BY <1>1, <2>1, MethodsRaise
  <1>3. CASE AddService(s, k) \/ UpdateService(s, k) \/ RemoveService(s, k)
    <2>1. \E services : Update(s, k, [account[s] EXCEPT !.services = services])
      BY <1>3 DEF AddService, UpdateService, RemoveService
    <2> QED BY <1>1, <2>1, ServicesRaise
  <1>4. CASE SetControllers(s, k)
    <2>1. \E natives, others :
            Update(s, k, [account[s] EXCEPT !.natives = natives, !.others = others])
      BY <1>4 DEF SetControllers
    <2> QED BY <1>1, <2>1, ListsRaise
  <1> QED BY <1>2, <1>3, <1>4

\* A creation that is logged.
Founded(s) ==
  /\ account[s].state = "absent"
  /\ account'[s].state = "active" /\ account'[s].version = 1
  /\ \A t \in Subject \ {s} : account'[t] = account[t]

LEMMA CreationFounds ==
  ASSUME TypeOK, NEW s \in Subject, NEW key, Create(s, key)
  PROVE  Founded(s)
  BY DEF TypeOK, Create, InitialDocument, Founded

\* What a step of the program logs.
LEMMA LoggedStep ==
  ASSUME TypeOK, LoggedNext
  PROVE  \/ \E s \in Subject : Founded(s) /\ Emit(s, "initialized", 1)
         \/ \E s \in Subject : Raised(s, "active") /\ Emit(s, "modified", account'[s].version)
         \/ \E s \in Subject :
              Raised(s, "deactivated") /\ Emit(s, "deactivated", account'[s].version)
         \/ UNCHANGED <<account, log, seen, index>>
  <1>1. ASSUME NEW s \in Subject, Initialize(s), Initialized(s)
        PROVE  Founded(s) /\ Emit(s, "initialized", 1)
    BY <1>1, CreationFounds DEF Initialize, Initialized
  <1>2. ASSUME NEW k \in Signer, NEW n \in Nonce, InitializeOwned(k, n),
               Initialized(OwnedSubject(k, n))
        PROVE  /\ OwnedSubject(k, n) \in Subject
               /\ Founded(OwnedSubject(k, n)) /\ Emit(OwnedSubject(k, n), "initialized", 1)
    BY <1>2, CreationFounds DEF InitializeOwned, Initialized
  <1>3. ASSUME NEW s \in Subject, NEW k \in Signer,
               \/ AddVerificationMethod(s, k)
               \/ RemoveVerificationMethod(s, k)
               \/ SetVerificationMethodFlags(s, k)
               \/ AddService(s, k)
               \/ UpdateService(s, k)
               \/ RemoveService(s, k)
               \/ SetControllers(s, k)
               \/ AddVerificationMethodFromBuffer(s, k),
               Modified(s)
        PROVE  Raised(s, "active") /\ Emit(s, "modified", account'[s].version)
    BY <1>3, ModificationRaises DEF Modified
  <1>4. ASSUME NEW s \in Subject, NEW k \in Signer, Deactivate(s, k), Deactivated(s)
        PROVE  Raised(s, "deactivated") /\ Emit(s, "deactivated", account'[s].version)
    BY <1>4, TombstoneRaises DEF Deactivate, Authorized, Deactivated
  <1>5. ASSUME NEW s \in Subject, NEW k \in Signer,
               CreateKeyBuffer(s, k) \/ WriteKeyBuffer(s, k) \/ CloseKeyBuffer(s, k)
        PROVE  UNCHANGED account
    BY <1>5 DEF CreateKeyBuffer, WriteKeyBuffer, CloseKeyBuffer
  <1> QED BY <1>1, <1>2, <1>3, <1>4, <1>5 DEF LoggedNext, FinishLogged

-----------------------------------------------------------------------------
(* The log *)

Event == [kind: {"initialized", "modified", "deactivated"}, version: Nat]

Capped(n) == IF n < MaxVersion THEN n ELSE MaxVersion

\* What a log says of the document it is about.
Tells(events, d) ==
  LET n == Len(events) IN
  /\ d.version = Capped(n)
  /\ (n = 0) = (d.state = "absent")
  /\ \A i \in 1..n :
       /\ events[i].version = Capped(i)
       /\ (events[i].kind = "initialized") = (i = 1)
       /\ events[i].kind = "deactivated" => i = n /\ d.state = "deactivated"
  /\ d.state = "deactivated" => events[n].kind = "deactivated"

LogInv ==
  /\ log \in [Subject -> Seq(Event)]
  /\ \A s \in Subject : Tells(log[s], account[s])

LEMMA TellsFirst ==
  ASSUME NEW events \in Seq(Event), NEW d, NEW e, Tells(events, d), d.state = "absent",
         e.state = "active", e.version = 1
  PROVE  Tells(Append(events, [kind |-> "initialized", version |-> 1]), e)
  <1> DEFINE event == [kind |-> "initialized", version |-> 1]
             longer == Append(events, event)
  <1>1. event \in Event /\ event.kind = "initialized" /\ event.version = 1
    BY DEF Event
  <1>2. Len(events) = 0
    BY DEF Tells
  <1> HIDE DEF event
  <1>3. Len(longer) = 1 /\ longer[1] = event
    BY <1>1, <1>2
  <1>4. Capped(1) = 1
    BY DocumentAssumption DEF Capped
  <1> HIDE DEF longer
  <1>5. Tells(longer, e)
    BY <1>1, <1>3, <1>4 DEF Tells
  <1> QED BY <1>5 DEF longer, event

LEMMA TellsNext ==
  ASSUME NEW events \in Seq(Event), NEW d, NEW e, NEW kind, Tells(events, d),
         d.state = "active", e.version = Raise(d.version),
         \/ kind = "modified" /\ e.state = "active"
         \/ kind = "deactivated" /\ e.state = "deactivated"
  PROVE  Tells(Append(events, [kind |-> kind, version |-> e.version]), e)
  <1> DEFINE n == Len(events)
             event == [kind |-> kind, version |-> e.version]
             longer == Append(events, event)
  <1>0. MaxVersion \in Nat \ {0} /\ n \in Nat /\ n # 0
    BY DocumentAssumption DEF Tells
  <1>1. e.version = Capped(n + 1)
    BY <1>0 DEF Tells, Raise, Capped
  <1>2. e.version \in Nat
    BY <1>0, <1>1 DEF Capped
  <1>3. event \in Event /\ event.kind = kind /\ event.version = e.version
    BY <1>2 DEF Event
  <1> HIDE DEF event
  <1>4. /\ Len(longer) = n + 1 /\ longer[n + 1] = event
        /\ \A i \in 1..n : longer[i] = events[i]
    BY <1>3
  <1>5. \A i \in 1..n : /\ events[i].version = Capped(i)
                        /\ (events[i].kind = "initialized") = (i = 1)
                        /\ events[i].kind # "deactivated"
    BY DEF Tells
  <1> HIDE DEF longer, n
  <1>6. ASSUME NEW i \in 1..n + 1
        PROVE  /\ longer[i].version = Capped(i)
               /\ (longer[i].kind = "initialized") = (i = 1)
               /\ longer[i].kind = "deactivated" => i = n + 1 /\ e.state = "deactivated"
    <2>1. CASE i = n + 1
      BY <1>0, <1>1, <1>3, <1>4, <2>1
    <2>2. CASE i \in 1..n
      BY <1>4, <1>5, <2>2
    <2> QED BY <1>0, <2>1, <2>2
  <1>7. Tells(longer, e)
    BY <1>0, <1>1, <1>3, <1>4, <1>6 DEF Tells
  <1> QED BY <1>7 DEF longer, event

\* Only the log of s gets longer.
LEMMA EmitFrame ==
  ASSUME log \in [Subject -> Seq(Event)], NEW s \in Subject, NEW kind, NEW version,
         Emit(s, kind, version)
  PROVE  /\ log'[s] = Append(log[s], [kind |-> kind, version |-> version])
         /\ \A t \in Subject \ {s} : log'[t] = log[t]
         /\ [kind |-> kind, version |-> version] \in Event => log' \in [Subject -> Seq(Event)]
         /\ UNCHANGED <<seen, index>>
  <1> DEFINE event == [kind |-> kind, version |-> version]
  <1>1. log' = [log EXCEPT ![s] = Append(@, event)]
    BY DEF Emit
  <1>2. UNCHANGED <<seen, index>>
    BY DEF Emit
  <1> HIDE DEF event
  <1>3. event \in Event => log' \in [Subject -> Seq(Event)]
    BY <1>1
  <1>4. log'[s] = Append(log[s], event) /\ \A t \in Subject \ {s} : log'[t] = log[t]
    BY <1>1
  <1> QED BY <1>2, <1>3, <1>4 DEF event

LEMMA LogStep ==
  ASSUME TypeOK, LogInv, [EventNext]_eventVars
  PROVE  LogInv'
  <1>1. ASSUME NEW s \in Subject, Founded(s), Emit(s, "initialized", 1)
        PROVE  LogInv'
    <2>1. [kind |-> "initialized", version |-> 1] \in Event
      BY DEF Event
    <2>2. Tells(log'[s], account'[s])
      <3>1. log'[s] = Append(log[s], [kind |-> "initialized", version |-> 1])
        BY <1>1, EmitFrame DEF LogInv
      <3>2. log[s] \in Seq(Event) /\ Tells(log[s], account[s])
        BY DEF LogInv
      <3>3. /\ account[s].state = "absent"
            /\ account'[s].state = "active" /\ account'[s].version = 1
        BY <1>1 DEF Founded
      <3> DEFINE d == account[s]
                 e == account'[s]
                 events == log[s]
      <3> HIDE DEF d, e, events
      <3>4. Tells(Append(events, [kind |-> "initialized", version |-> 1]), e)
        BY <3>2, <3>3, TellsFirst DEF d, e, events
      <3> QED BY <3>1, <3>4 DEF e, events
    <2> QED BY <1>1, <2>1, <2>2, EmitFrame DEF LogInv, Founded
  <1>2. ASSUME NEW s \in Subject, NEW kind \in {"modified", "deactivated"},
               Raised(s, IF kind = "modified" THEN "active" ELSE "deactivated"),
               Emit(s, kind, account'[s].version)
        PROVE  LogInv'
    <2>1. [kind |-> kind, version |-> account'[s].version] \in Event
      <3>1. account[s].version \in Nat
        BY DEF TypeOK, Document
      <3> QED BY <1>2, <3>1, DocumentAssumption DEF Raised, Raise, Event
    <2>2. Tells(log'[s], account'[s])
      <3>1. log'[s] = Append(log[s], [kind |-> kind, version |-> account'[s].version])
        BY <1>2, EmitFrame DEF LogInv
      <3>2. log[s] \in Seq(Event) /\ Tells(log[s], account[s])
        BY DEF LogInv
      <3>3. /\ account[s].state = "active"
            /\ account'[s].version = Raise(account[s].version)
            /\ \/ kind = "modified" /\ account'[s].state = "active"
               \/ kind = "deactivated" /\ account'[s].state = "deactivated"
        BY <1>2 DEF Raised, Live
      <3> QED BY <3>1, <3>2, <3>3, TellsNext
    <2> QED BY <1>2, <2>1, <2>2, EmitFrame DEF LogInv, Raised
  <1>3. CASE UNCHANGED <<account, log>>
    BY <1>3 DEF LogInv
  <1>4. CASE LoggedNext
    BY <1>1, <1>2, <1>3, <1>4, LoggedStep
  <1> QED BY <1>3, <1>4 DEF EventNext, Handle, eventVars

-----------------------------------------------------------------------------
(* The indexer *)

\* The copy is never ahead, and current once it has the account's version;
\* every event that was handled left it at that event's version or later.
Indexed(s) ==
  /\ index[s].version \in Nat /\ index[s].version <= account[s].version
  /\ index[s].version = account[s].version /\ account[s].version < MaxVersion =>
       index[s] = account[s]
  /\ \A i \in seen[s] : i \in DOMAIN log[s] /\ log[s][i].version <= index[s].version

IndexInv ==
  /\ index \in [Subject -> Document] /\ seen \in [Subject -> SUBSET Nat]
  /\ \A s \in Subject : Indexed(s)

LEMMA IndexedKept ==
  ASSUME TypeOK, LogInv, NEW s \in Subject, Indexed(s), NEW event,
         account'[s].version = Raise(account[s].version),
         log'[s] = Append(log[s], event), UNCHANGED <<seen, index>>, event \in Event
  PROVE  Indexed(s)'
  <1>1. account[s].version \in Nat /\ account[s].version <= MaxVersion
        /\ MaxVersion \in Nat
    BY DocumentAssumption DEF TypeOK, Document
  <1>2. /\ account'[s].version >= account[s].version
        /\ account'[s].version < MaxVersion => account'[s].version > account[s].version
        /\ account'[s].version \in Nat
    BY <1>1 DEF Raise
  <1>3. \A i \in DOMAIN log[s] : i \in DOMAIN log'[s] /\ log'[s][i] = log[s][i]
    BY DEF LogInv
  <1> QED BY <1>1, <1>2, <1>3 DEF Indexed

LEMMA IndexStep ==
  ASSUME TypeOK, LogInv, IndexInv, [EventNext]_eventVars
  PROVE  IndexInv'
  <1>1. ASSUME NEW s \in Subject, NEW event \in Event,
               account'[s].version = Raise(account[s].version),
               log'[s] = Append(log[s], event), UNCHANGED <<seen, index>>,
               \A t \in Subject \ {s} : account'[t] = account[t] /\ log'[t] = log[t]
        PROVE  IndexInv'
    <2>1. Indexed(s)'
      BY <1>1, IndexedKept DEF IndexInv
    <2>2. \A t \in Subject \ {s} : Indexed(t)'
      BY <1>1 DEF IndexInv, Indexed
    <2> QED BY <1>1, <2>1, <2>2 DEF IndexInv
  <1>2. CASE LoggedNext
    <2>1. ASSUME NEW s \in Subject, Founded(s), Emit(s, "initialized", 1)
          PROVE  IndexInv'
      <3>1. [kind |-> "initialized", version |-> 1] \in Event
        BY DEF Event
      <3>2. account[s].version = 0
        BY <2>1, DocumentAssumption DEF Founded, LogInv, Tells, Capped
      <3>3. account'[s].version = Raise(account[s].version)
        BY <2>1, <3>2, DocumentAssumption DEF Founded, Raise
      <3>4. /\ log'[s] = Append(log[s], [kind |-> "initialized", version |-> 1])
            /\ \A t \in Subject \ {s} : log'[t] = log[t]
            /\ UNCHANGED <<seen, index>>
        BY <2>1, EmitFrame DEF LogInv
      <3> QED BY <1>1, <2>1, <3>1, <3>3, <3>4 DEF Founded
    <2>2. ASSUME NEW s \in Subject, NEW kind \in {"modified", "deactivated"}, NEW state,
                 Raised(s, state), Emit(s, kind, account'[s].version)
          PROVE  IndexInv'
      <3>1. [kind |-> kind, version |-> account'[s].version] \in Event
        <4>1. account[s].version \in Nat
          BY DEF TypeOK, Document
        <4> QED BY <2>2, <4>1, DocumentAssumption DEF Raised, Raise, Event
      <3>2. /\ log'[s] = Append(log[s], [kind |-> kind, version |-> account'[s].version])
            /\ \A t \in Subject \ {s} : log'[t] = log[t]
            /\ UNCHANGED <<seen, index>>
        BY <2>2, EmitFrame DEF LogInv
      <3> QED BY <1>1, <2>2, <3>1, <3>2 DEF Raised
    <2>3. CASE UNCHANGED <<account, log, seen, index>>
      BY <2>3 DEF IndexInv, Indexed
    <2> QED BY <1>2, <2>1, <2>2, <2>3, LoggedStep
  <1>3. ASSUME NEW s \in Subject, NEW i \in DOMAIN log[s], Handle(s, i)
        PROVE  IndexInv'
    <2>1. /\ account' = account /\ log' = log
          /\ seen'[s] = seen[s] \cup {i}
          /\ index'[s] = IF log[s][i].version > index[s].version THEN account[s] ELSE index[s]
          /\ \A t \in Subject \ {s} : seen'[t] = seen[t] /\ index'[t] = index[t]
          /\ index' \in [Subject -> Document] /\ seen' \in [Subject -> SUBSET Nat]
      BY <1>3 DEF Handle, IndexInv, TypeOK, LogInv
    <2>2. /\ account[s].version \in Nat
          /\ \A j \in DOMAIN log[s] :
               log[s][j].version \in Nat /\ log[s][j].version <= account[s].version
      <3>1. /\ DOMAIN log[s] = 1..Len(log[s]) /\ Len(log[s]) \in Nat
            /\ MaxVersion \in Nat
        BY DocumentAssumption DEF LogInv
      <3>2. /\ account[s].version = Capped(Len(log[s]))
            /\ \A j \in 1..Len(log[s]) : log[s][j].version = Capped(j)
        BY DEF LogInv, Tells
      <3> QED BY <3>1, <3>2 DEF Capped
    <2>3. Indexed(s)
      BY DEF IndexInv
    <2>4. Indexed(s)'
      <3>1. CASE log[s][i].version > index[s].version
        BY <2>1, <2>2, <2>3, <3>1 DEF Indexed
      <3>2. CASE ~(log[s][i].version > index[s].version)
        BY <2>1, <2>2, <2>3, <3>2 DEF Indexed
      <3> QED BY <3>1, <3>2
    <2>5. \A t \in Subject \ {s} : Indexed(t)'
      BY <2>1 DEF IndexInv, Indexed
    <2> QED BY <2>1, <2>4, <2>5 DEF IndexInv
  <1>4. CASE UNCHANGED eventVars
    BY <1>4 DEF eventVars, IndexInv, Indexed
  <1> QED BY <1>2, <1>3, <1>4 DEF EventNext

-----------------------------------------------------------------------------
(* The theorems *)

\* Logging and indexing add nothing to what the program does: the accounts and
\* buffers of DidEvents behave as those of KeyBuffers.
THEOREM EventsAddNothing == EventSpec => BufferSpec
  <1>1. EventInit => BufferInit
    BY DEF EventInit
  <1>2. LoggedNext => BufferNext
    BY DEF LoggedNext, FinishLogged, BufferNext, Next
  <1>3. [EventNext]_eventVars => [BufferNext]_bufferVars
    BY <1>2 DEF EventNext, Handle, eventVars, bufferVars
  <1> QED BY <1>1, <1>3, PTL DEF EventSpec, BufferSpec

LEMMA EventInvariant == EventSpec => [](LogInv /\ IndexInv)
  <1>1. EventInit => LogInv /\ IndexInv
    <2> SUFFICES ASSUME EventInit PROVE LogInv /\ IndexInv
      OBVIOUS
    <2>1. /\ NoAccount \in Document /\ NoAccount.version = 0 /\ NoAccount.state = "absent"
          /\ account = [s \in Subject |-> NoAccount]
      BY DocumentAssumption DEF NoAccount, Document, EventInit, BufferInit, Init
    <2>2. Capped(0) = 0
      BY DocumentAssumption DEF Capped
    <2>3. LogInv
      BY <2>1, <2>2 DEF EventInit, LogInv, Tells
    <2>4. IndexInv
      BY <2>1 DEF EventInit, IndexInv, Indexed
    <2> QED BY <2>3, <2>4
  <1>2. TypeOK /\ LogInv /\ IndexInv /\ [EventNext]_eventVars => (LogInv /\ IndexInv)'
    BY LogStep, IndexStep
  <1> QED BY <1>1, <1>2, EventsAddNothing, BuffersInvariant, PTL DEF EventSpec

\* The log of a DID is its whole history, version by version, from its
\* creation to its deactivation.
THEOREM LogIsHistory == EventSpec => []LogTellsAll
  <1>1. LogInv => LogTellsAll
    <2> SUFFICES ASSUME LogInv, NEW s \in Subject
                 PROVE  LET n == Len(log[s]) IN
                        /\ (n = 0) = (account[s].state = "absent")
                        /\ \A i \in 1..n :
                             /\ log[s][i].version = IF i < MaxVersion THEN i ELSE MaxVersion
                             /\ (log[s][i].kind = "initialized") = (i = 1)
                             /\ log[s][i].kind = "deactivated" =>
                                  i = n /\ account[s].state = "deactivated"
                        /\ account[s].state = "deactivated" => log[s][n].kind = "deactivated"
                        /\ n > 0 => log[s][n].version = account[s].version
      BY DEF LogTellsAll
    <2>1. Len(log[s]) \in Nat
      BY DEF LogInv
    <2> QED BY <2>1 DEF LogInv, Tells, Capped
  <1> QED BY <1>1, EventInvariant, PTL

\* Versions are enough for an indexer: when it has handled every event of a
\* DID, in whatever order, it holds the document.
THEOREM VersionsSuffice == EventSpec => []IndexIsCurrent
  <1>1. TypeOK /\ LogInv /\ IndexInv => IndexIsCurrent
    <2> SUFFICES ASSUME TypeOK, LogInv, IndexInv, NEW s \in Subject,
                        account[s].version < MaxVersion, seen[s] = DOMAIN log[s]
                 PROVE  index[s] = account[s]
      BY DEF IndexIsCurrent
    <2>1. /\ Indexed(s) /\ Tells(log[s], account[s])
          /\ Len(log[s]) \in Nat /\ DOMAIN log[s] = 1..Len(log[s])
          /\ account[s].version \in Nat
      BY DEF IndexInv, LogInv, TypeOK, Document
    <2>2. CASE Len(log[s]) = 0
      <3>1. account[s].version = 0
        BY <2>1, <2>2, DocumentAssumption DEF Tells, Capped
      <3> QED BY <2>1, <3>1 DEF Indexed
    <2>3. CASE Len(log[s]) # 0
      <3>1. Len(log[s]) \in seen[s] /\ Len(log[s]) \in 1..Len(log[s])
        BY <2>1, <2>3
      <3>2. log[s][Len(log[s])].version = account[s].version
        BY <2>1, <3>1 DEF Tells
      <3>3. account[s].version <= index[s].version
        BY <2>1, <3>1, <3>2 DEF Indexed
      <3> QED BY <2>1, <3>3 DEF Indexed
    <2> QED BY <2>2, <2>3
  <1> QED BY <1>1, EventInvariant, EventsAddNothing, BuffersInvariant, PTL

\* An indexer that is behind has an event left to handle that it will not
\* skip: it is never stuck on an old document, also once versions saturate and
\* whatever later events it has handled before.
LagIsPending ==
  \A s \in Subject :
    index[s].version < account[s].version =>
      \E i \in DOMAIN log[s] \ seen[s] : log[s][i].version > index[s].version

\* An indexer that is behind has news waiting: the last event logged, which it
\* cannot have handled.
THEOREM LagIsSeen == EventSpec => []LagIsPending
  <1>1. TypeOK /\ LogInv /\ IndexInv => LagIsPending
    <2> SUFFICES ASSUME TypeOK, LogInv, IndexInv, NEW s \in Subject,
                        index[s].version < account[s].version
                 PROVE  \E i \in DOMAIN log[s] \ seen[s] : log[s][i].version > index[s].version
      BY DEF LagIsPending
    <2> DEFINE n == Len(log[s])
    <2>1. /\ Indexed(s) /\ Tells(log[s], account[s])
          /\ n \in Nat /\ DOMAIN log[s] = 1..n
          /\ account[s].version \in Nat /\ index[s].version \in Nat
      BY DEF IndexInv, LogInv, TypeOK, Document, Indexed
    <2>2. n # 0
      BY <2>1, DocumentAssumption DEF Tells, Capped
    <2>3. n \in DOMAIN log[s] /\ log[s][n].version = account[s].version
      BY <2>1, <2>2 DEF Tells
    <2>4. n \notin seen[s]
      BY <2>1, <2>3 DEF Indexed
    <2> QED BY <2>1, <2>3, <2>4
  <1> QED BY <1>1, EventInvariant, EventsAddNothing, BuffersInvariant, PTL

=============================================================================
