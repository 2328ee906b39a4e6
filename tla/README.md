# bio-did-registry: TLA+ specifications and proofs

The registry is a Solana program that keeps one account per decentralized
identifier (DID) and lets the DID's authorities edit it in place. This directory
models the program, checks the models with TLC and proves the properties that
matter most with TLAPS. Paths below are relative to the repository.

## The system

| Component | State | Operations | Code |
|---|---|---|---|
| Document rules | none (pure) | authority, fragment, flag, key and limit checks; version bump | `src/program/src/state.rs` |
| DID accounts | one document per subject: deactivated flag, version, native and external controllers, verification methods, services | `initialize`, `initialize_owned`, add / remove / re-flag a method, add / update / remove a service, `set_controllers`, `deactivate` | `src/program/src/instructions/` |
| Authorization | none | `authorize`: is the signer an authority of the DID, or of a listed live controller | `instructions/shared.rs` |
| Key buffers | one staging account per (DID, authority): method header, bytes written so far | create, write a chunk, finish into the DID, close | `instructions/*key_buffer*.rs`, `add_verification_method_from_buffer.rs` |
| Rent settlement | lamports of accounts and payers; the rent sysvar | `settle_rent`, `grow`, `shrink`, `close_to`, pre-funded creation, `rent_minimum_balance` | `instructions/shared.rs` |
| Byte layout | the account's bytes | `Sections::parse`, `insert_vm`, `write_service`, the `copy_within` moves | `state.rs`, `reader.rs` |
| Client | none; its sender has the progress of an upload and the calls under way | instruction builders; `upload_key`, a sequence of transactions | `client.rs` |
| Dispatch and arguments | none | the fourteen arms, account slots, the argument cursor | `lib.rs`, `reader.rs`, `instructions/` |
| Events | the transaction log; an indexer's copy of the documents | one log line per instruction that changes a document | `events.rs` |
| Errors | none | error codes | `error.rs` |

How they interact. An instruction is a transaction step: the runtime runs it
alone, and either all of its writes land or none does. There are no threads and
no callbacks. What is hard is the *order* of instructions, because several
parties send them without coordination:

- a DID's authorities may be at odds with one another, and with the authorities
  of the DIDs it lists as controllers;
- authorization is read from *other* accounts (a controller's document), which
  their own authorities rotate and deactivate at any time;
- an upload takes several transactions, and everything checked when it was
  opened can have changed when it is finished;
- creation is permissionless for a key's own DID, so anyone may race the owner;
- deactivation and version numbers are promises about the whole future;
- outside the program, transactions are lost, sent twice, delayed and reordered,
  and so are the events that an indexer follows.

Two more difficulties are sequential: every edit moves bytes inside the account that
it also resizes, in an order that differs for growing and shrinking, and the
client and the handlers encode and decode the same instruction in separate code.

What makes each component correct:

- *DID accounts*: a live DID is never left without an authority; a protected
  method answers only to its own key; every Ed25519 key is one somebody can sign
  with; one fragment names one entry; `#default` is the founding key for ever; a
  tombstone is final; versions never repeat below saturation.
- *Authorization*: an account changes only under a key that holds it now, itself
  or through a live controller, one level up.
- *Key buffers*: an upload in progress is only added to until it is finished or closed; it can do nothing that one large add could not do at the
  moment it finishes; it lands whole, in its own DID; its rent is never locked.
- *Rent*: lamports are conserved; a resize leaves its account rent exempt and
  settles it exactly; a closed buffer leaves nothing behind; nobody can block a
  creation by sending lamports to its address.
- *Byte layout*: the in-place edits are the document edits; the account is the exact
  serialization of its document after each; nothing else changes place.
- *Reader, client and dispatch*: what a builder returns is taken as the call that was
  meant, and whatever is taken, from whoever, is a call some builder returns.
- *Uploads over a network*: a buffer always holds the beginning of one upload's key;
  resuming from `written` is taken up, loses nothing and reaches the end; an upload that is given up frees its buffer.
- *Events*: the log is the history of the document, and versions are enough for an
  indexer that handles events in any order to end with the current document.

`PROJECT.json` lists the hazards, each at the line where it bites, with the
properties that would catch it.

## The modules

| Module | What it models |
|---|---|
| `DidDocument` | the rules of one document (`state.rs`) and the documents that instructions write, as operators |
| `DidRegistry` | all accounts and the ten instructions that write them; the invariants, action properties and the refinement mapping |
| `DidAuthority` | the abstract specification: who controls what, and nothing else |
| `KeyBuffers` | the four key-buffer instructions, interleaved with all of `DidRegistry` |
| `RentLedger` | the lamports every instruction moves, with gifts and a changing rent |
| `RentSysvar` | `rent_minimum_balance`: both sysvar layouts, checked `u64` and rounded `f64` arithmetic |
| `AccountBytes` | reads by offset, `copy_within`, resize, and the four in-place edits they make up |
| `DidLayout` | the section map, the entry cursors and every instruction as an edit of the account's bytes |
| `KeyUpload` | `upload_key`'s calls over a faulty network, beside other authorities |
| `ClientCalls` | the fourteen builders and what the handlers take apart again |
| `DidEvents` | every emitted event, and an indexer that follows them |
| `MCRegistry`, `MCKeyBuffers`, `MCRentLedger`, `MCRentSysvar`, `MCLayout`, `MCKeyUpload`, `MCClientCalls`, `MCDidEvents` | values of the constants for TLC |
| `Registry_proofs` | type correctness, no orphan, protection, signable and whole keys; fragments, `#default`, limits, controller lists, versions, tombstones; `DidRegistry` implements `DidAuthority`; `KeyBuffers` implements `DidRegistry`; buffers are typed, only added to, and land in their own DID; what all of these promise of documents, together (`DocumentPromises`, `ChangePromises`) |
| `KeyUpload_proofs` | what is written is a prefix of the key, whatever the network does; resuming is taken up and loses nothing |
| `FiniteSums` | lemmas only: sums over finite sets, induction and recursion over numbers, induction over finite sets |
| `Rent_proofs` | `RentLedger` implements `KeyBuffers`; lamports are conserved; a resize leaves its account exempt and settles it; a closed buffer is empty; a creation can be paid for and a buffer closed in every state; `rent_minimum_balance` asks what the runtime enforces, or fails |
| `AccountBytes_proofs` | each in-place edit is the splice it is meant to be; what a splice of one part leaves of the others; entries laid out one after the other |
| `DidLayout_proofs` | an account is always an exact serialization, and as long as its document's entries; `DidLayout` implements `DidRegistry` and keeps its promises; entries keep their places |
| `DidEvents_proofs` | `DidEvents` implements `KeyBuffers`; the log is the history; versions suffice; an indexer that is behind has news waiting |
| `ClientCalls_proofs` | what a client builds is taken as it was meant, and nothing else is taken |

`DidRegistry` extends `DidDocument`, `KeyBuffers` extends `DidRegistry`, and
`RentLedger`, `KeyUpload` and `DidEvents` extend `KeyBuffers`, each conjoining its own
state to the actions of the one below. `DidLayout` extends `AccountBytes` and
`DidRegistry`, which it implements. `ClientCalls` and `RentSysvar` stand alone: one is
about calls before the rules of a document are asked, the other about one number.

**State.** `account[s]` is the account at the address derived from subject `s`.
An account that does not exist is the document with state `"absent"`. `signedBy`
is the authority that signed the last instruction (empty for `initialize`, which
nobody has to authorize). The program does not store it: it is a history variable,
and no guard reads it. `buffers` is the set of open key buffers, `key` being
the bytes written so far, so that its length is the code's `written`.
`lamports[a]` is the balance of address `a`: a wallet's, a DID account's or a key
buffer's, whether or not an account is there. `rate` is the rent sysvar, in lamports
per byte with the exemption threshold multiplied in.

**Actions.** One per instruction, named as in the code. Its guard is every
check the handler makes before its first write, in conjunction; an instruction
that fails changes nothing, so it is a stuttering step, and the order of two
failing checks (which error code wins) is not modelled. `authorize` takes a
controller account chosen by the caller: `Authorized` quantifies over it.
`Update` is the common end of the handlers, the new document with its version
bumped by `touch`. `updated_at` only records the clock and is left out.

In `RentLedger` every action of `KeyBuffers` also moves lamports: `Fund` is what
creation does at an empty or a pre-funded address, `Settle` is `settle_rent` with the
resize (`grow` or `shrink`), `ClosedTo` is `close_to`. An action is refused if the
payer cannot pay. `Donate` and `SetRate` are not the program's: anyone may send
lamports to any address, and the cluster may change the rent. `Space` computes the
data length from the document, which is what `Sections::parse` finds as its end.

In `RentSysvar` the state is what a sysvar account holds (its length, rate and threshold)
and the length of the data that is sized; the two actions set them to any value, and
what the program asks for is compared with what the runtime enforces in every state.
`U64Max` is the largest word; a float has `Precision` significant bits and rounds to even.

In `DidLayout` the state is `data`, the account's bytes, as a sequence of cells: a cell
is a byte of a payload, or a whole count, length or other field of fixed width. An
instruction finds its place by walking the cells as `Sections::parse`, `VmIter` and
`SvcIter` do, and edits them with the operators of `AccountBytes`, resize and move in
the code's order. `account` is there what `DidView::parse` makes of the cells, so that
`DidRegistry`'s specification is a property of it. A range out of bounds, where the code panics
and the runtime rolls back, marks the account instead, so that the properties see it.

In `KeyUpload` each upload has a `stage` (wanted, running, closing, ended), and `network` is
the set of calls that may still arrive. `Send` puts in the call the buffer is
waiting for, which is how the comment on `upload_key` has a client resume; `Deliver` lets
one arrive and leaves it there, so it may arrive again, and in any order; `Expire` takes
it away. `Landing` runs the handler. `Meanwhile` removes methods and deactivates. The sender
is not in the repository. It does one thing the program cannot check: it sends nothing of
another upload to a buffer while calls for the last one may arrive. `write_key_buffer`
checks offsets and not contents, so without that wait a late chunk of one upload can
land in another's buffer. `WrittenIsPrefix` and `ProgressIsKept` hold of senders that wait: with `StartAtOnce`
in place of `Start`, both fail. `StagedIsKept` is what the program promises on its own, to any sender.

In `ClientCalls` a behaviour starts from an instruction that a call of `client.rs` builds,
and each step changes it: a byte, the discriminator, an account or a role of one. In every
state `Taken` says whether the handlers take the instruction, and `Understood` as which call.
`ClientAssumption` says which calls a client makes: arguments of their Rust types whose lengths fit
a `u32`, with a method type that `expected_key_len` knows (`MethodType`), for a DID and a buffer that are there, or not yet if the call creates them.

In `DidEvents` every action that changes a document appends to its `log`, with the version the
handler passes to `emit`. `Handle` is the indexer's, which is not in the repository: an event
names the account and its version and not the change, so the indexer reads the account,
unless its copy is as new as the event.

**Data.** A key is a sequence over a small alphabet `Cell`; `KeyLen` gives the
length per type. `Key` is the set of 32-byte addresses, `OnCurve` those that are
curve points, `Signer` those that sign transactions, wallets and programs (through
a CPI). The flag word is the set of its bits with one bit that no mask accepts.
Fragments, service values and external controllers are small sets with subsets
of valid ones, which stand for `valid_fragment`, `valid_uri_ascii` and
`valid_external_controller`. Methods and services are sets: no rule reads their
order, and fragments are unique, which is an invariant here and not assumed. The
address of an owned subject is the pair it is derived from, which is no key and
differs for different pairs: that is what is assumed of the hash.

Definitions whose comment says "Mutated form" are wrong on purpose. No
specification uses them. Each is a plausible bug, and exchanging it for the
definition after it must break the property `PROJECT.json` names for it.

## What is checked

| Run | Instance | Question |
|---|---|---|
| `protection` | a program's owned DID; signers alice, bob and the program; `ghost`, an off-curve key nobody signs for; three methods | can any order of adds, removals and re-flaggings orphan the DID, touch another's protected method, let in a dead key, or bring `#default` back? |
| `services` | alice's DID, every method type with right and wrong keys and flags, two services, all controller lists up to two entries | do fragments stay unique across both lists, are the limits and list rules kept, does every change raise the version? |
| `controllers` | three DIDs (two wallets', one a program's) that list one another | refinement of `DidAuthority`: is every change signed by a current authority, own or one live level up? Is a tombstone final? |
| `key_buffers` | two DIDs, two uploaders, uploads of one and two cells, room for one more method | refinement of `DidRegistry`: is finishing an add under today's rules and limits? Is an upload in progress only added to? Does it land whole and in its own DID? |
| `rent` | a key's DID and one it owns, entries of equal and different lengths, an upload to each, gifts, rents 1 and 2 | is every lamport accounted for? Can a gift or a new rent keep a DID from being created? Does a resize leave the account exempt and settle it? Is a closed buffer empty? |
| `sysvar` | both sysvar layouts, eleven thresholds (1, 2, fractions, infinities, NaN), products beyond a word | does the program ask for what the runtime enforces, or fail? |
| `layout` | three DIDs as cells: one edited by its owner, one anybody creates, one that cannot be | refinement of `DidRegistry`: is each in-place edit the document edit? Is the account always the exact serialization, and as long as its entries make it? Do entries keep their places? |
| `upload` | two uploads of one authority in two chunks each, a second authority that removes it or deactivates | does what lands belong to one upload? Is the call that resumes always taken, and does it keep what was written? Does resuming end? Is the buffer of an upload that is given up closed? |
| `calls` | fifteen calls, one of each builder and two of one, and all instructions two changes away | is a built call taken as itself? Is all that is taken a call somebody could have built? |
| `events` | two DIDs under every instruction that logs, an indexer that is late and out of order | is the log the history? Are versions enough to end with the current document? |
| `settling` | as `rent`, with one DID | *violated*: the words of `src/README.md` on settling, see Findings |
| `deactivation` | as `protection` | *violated*: the words on `VM_FLAG_PROTECTED` against `deactivate`, see Findings |

The bounds. Two wallets, a program and an unusable key are all the kinds of key
the rules distinguish, and two other parties are enough to be outvoted. Three
DIDs make the shortest chain that one-level control must refuse, and the
shortest loops. Fragments `default`, up to three others and an invalid one cover taken,
free, reserved and refused. Limits of two or three are reached in every run
where they matter; what happens at a limit does not depend on its value.
`MaxVersion` is small so that the saturated version is reached, and from there
documents keep changing: a small cap on the version does not cut the state space
off. Longer keys need more chunks and add no new kind of step. In `controllers`,
`set_verification_method_flags` has no input (protection has its own run), and a
DID lists at most one controller at a time; lists of two are in `services`.

In `rent` a gift is 150 and a new DID of the small instance takes 221 bytes. At rate 1 one
gift is too little and two are too much, at rate 2 (442) both are too little, so creation
tops up, and finds more than it needs. `GiftBound` = 400 ends the gifts to one address and
`Wealth` = 1000 is all the money there is: a DID with an upload at rate 2 takes 972, so a wallet
also runs out before a growth it has to pay. There is one wallet, because what it holds
follows from the other balances. Keys have one or two bytes here, which only scales the sizes.

In `sysvar` a word has 10 bits and a float 7 significant ones instead of 64 and 53: the program
compares, multiplies and rounds, and where it turns from exact to rounded to overflowing
depends on the order of these widths and not on their size.

In `layout` addresses have three cells, ML-DSA keys four, and names, values and external controllers one
or two, so every edit meets an old and a new length that are equal, longer and shorter; three
methods, two services and two controllers of each kind give an edit something before and behind it.
Cells of addresses differ from counts and lengths, so a cursor that is off by one reads
something else.

In `upload` a key of three cells in chunks of two has a full chunk and a rest; two uploads are the
least that a late call can confuse. `network` is a set and needs no bound.

In `calls` a byte has `Radix` 4 values, of which three are method types, an address two bytes, and `MaxEdits` is 2: the argument widths,
field orders and account orders are the real ones, and an encoding that is ambiguous, or a
check that is missing, shows after one change or two that make up for each other.

In `events` `MaxEvents` is 5 and `MaxVersion` 4, so the version saturates and documents change
after it did.

Deadlock is not checked: once every DID is deactivated the program has nothing
left to do, so it may stop.

**Fairness.** The registry owes nobody progress, since nothing happens unless someone sends a
transaction; what must always *remain possible* is stated with `ENABLED` (`CreationOpen`). Two specifications assume fairness, of the parties around the program:

- `UploadSpec`: weak fairness of `Send` and `End`, because a sender that has not given up keeps
  trying, and notices when it is done; strong fairness of `Deliver`, because a call that is
  sent over and over arrives some time although any one copy may be lost; weak fairness of
  `Expire`, because a transaction's blockhash gets too old. `Start`, `GiveUp` and
  `Meanwhile` are not fair: nobody has to start, give up or intervene.
- `EventSpec`: weak fairness of `Handle`, because an indexer reads the log to its end.

## What is proved

For every value of the constants that satisfies the named assumptions
(`DocumentAssumption`, `KeyLengthAssumption`, `RegistryAssumption`,
`BufferAssumption`, `UploadAssumption`, `ChunkAssumption`, `RentAssumption`, `LayoutAssumption`, `SysvarAssumption`,
`ClientAssumption`), so for any number of keys, DIDs,
methods, uploads and bytes:

- `TypeCorrect`, `NeverOrphaned`, `ProtectedIsAuthority`, `EveryKeyCanSign`, `KeysAreWhole`: the
  invariants `TypeOK`, `AlwaysAnAuthority`, `ProtectedKeepsAuthority`, `KeysCanSign`, `KeysWhole`.
- `OneEntryPerFragment`, `DefaultNamesFounder`, `ListsStayInLimits`, `ControllersStayWellFormed`: the
  invariants `FragmentsUnique`, `DefaultIsFounding`, `LimitsHold`, `ControllersWellFormed`.
- `ProtectedAnswersToItself`, `ChangesAreNumbered`, `TombstonesAreFinal`, `DefaultNeverReturns`: the action
  properties `ProtectedUnderOwnKey`, `VersionCounts`, `TombstoneForever`, `DefaultStaysGone`.
- `RegistryImplementsAuthority`: `DidRegistry` implements `DidAuthority`.
- `UploadsAddNothing`: `KeyBuffers` implements `DidRegistry`, so the theorems
  above hold of the program with uploads as well.
- `BuffersTyped`, `StagedStays`, `UploadLandsInItsDid`: `BufferTypeOK`, `StagedIsKept` and
  `BufferFinishesInItsDid`.
- `WrittenStaysPrefix`: `WrittenIsPrefix`, for any number of uploads and authorities, keys and chunks of
  any length, and a network that loses, repeats, delays and reorders calls at will.
- `ResumingIsTaken`, `ProgressStays`: `ResumeIsTaken` and `ProgressIsKept`, the safety half of
  `UploadsEnd`: in every state the call that resumes an upload is one the program takes, and no step
  takes back what was written. `TakenCanLand` writes out the state such a call leads to.
  `UploadsTakeProgramSteps`: accounts and buffers change by `KeyBuffers`' steps alone.
- `RentChangesNothing`: `RentLedger` implements `KeyBuffers`, so all of the above holds of
  the program with its lamports too.
- `LamportsConserved`: the invariant `Conserved`, with any number of wallets, DIDs and buffers.
- `ResizedIsExempt`, `ResizedIsSettled`, `ClosedBuffersEmpty`: the action properties `ResizesStayExempt`,
  `ResizesSettle` and `ClosedIsEmpty`.
- `PaidAccountsKeepPromises`, `BytesKeepPromises`: every promise of `DidRegistry` in the list above (nine
  invariants, four action properties and the refinement) holds of `RentLedger`, with its payers, gifts,
  uploads and rents, and of `DidLayout`, where documents are what is read from edited bytes.
- `GiftsBlockNoCreation`, `BuffersCanBeClosed`: what `CreationOpen` says with `ENABLED`, and the same of
  closing a buffer, said by writing out the next state (`CreatedAs`, `ClosedAs`): in every state that `RentInv` and
  `Balanced` allow, and so in every reachable one, it is one that `RentLedger` steps to.
- `AskedIsEnforced`, `OverflowIsRefused`: `AsksWhatTheRuntimeAsks` and `FailsInsteadOfWrapping`, for words and
  floats of any width, so for 64 bits and 53, which no run can enumerate.
- `LogIsHistory`, `VersionsSuffice`, `LagIsSeen`: `LogTellsAll` and `IndexIsCurrent`, and `LagIsPending`, the safety half of
  `IndexCatchesUp`: an indexer that is behind has an event to handle that it will not skip. `EventsAddNothing`: `DidEvents` implements `KeyBuffers`.
- `InsertSplices`, `AppendSplices`, `RemoveSplices`, `ReplaceSplices`: on data of any length, the
  four edits of `AccountBytes` (moves and resizes in the code's order) put the new entry where it
  belongs, keep everything before and behind it, and never leave the bounds. They need no assumption.
- `EveryAccountIsWritten` and, from it, `AccountsAreExactlySerialized`, `BytesImplementDocuments` and
  `EntriesKeepPlaces`: the properties `ExactlySerialized`, `BytesAreDocuments` and `PlacesKept`, with lists
  and fields of any length. By the second, every theorem about `DidRegistry` holds of the documents
  that the program reads from its bytes.
- `LengthFollowsDocument`: `LengthIsSpace`, an account is as long as its document's entries together. It is the sum
  that `RentLedger` has them pay for (`Space`), counted in cells.
- `WhatIsTakenIsACall`, `WhatIsMeantIsUnderstood`: `TakenIsACall` and `UnderstoodAsMeant`, for addresses and
  arguments of any length, any calls, subjects and buffers, and any number of changes to an instruction, so
  also for the widths of the code (a radix of 256, addresses of 32 bytes).

The argument. `StepCases` reduces the twelve kinds of step to six: a document is
created, or one document gains a method, loses one, has one re-flagged, keeps its
methods, or becomes a tombstone. Each invariant is then a fact about the edited
document, which the frame lemmas carry to the next state.

- *No orphan.* `AlwaysAnAuthority` is inductive given finitely many methods, which
  is why `TypeOK` says so: `authority_count() > 1` of a finite set yields an
  authority other than the one that is edited (`AnotherOne`).
- *Protection.* A method's rules (`SoundMethod`: protected implies authority, an
  Ed25519 key can sign, the key has its type's length) hold when it is let in and
  are kept by re-flagging, so they are proved together as `MethodsSound`.
- *Refinement.* `ControlInv` joins the invariants above: authorities remain, protected methods are
  authorities, no account lists itself. Creation maps to
  `Create`, deactivation to `Deactivate`, all else to `Change`.
- *Entries.* `DocumentsWellFormed` joins what one document promises on its own: unique fragments,
  limits, well-formed lists, `#default` the founder's, an empty tombstone. They are proved
  together because creation and `insert_vm` establish them together. The three action
  properties follow from it and the frame of `Update`.
- *Uploads.* `BuffersFilled` says that buffers hold headers and bytes that were
  passed in, so a complete buffer is an input of `add_verification_method`. Such an
  input is longer than a transaction can be; the program does not know that. `OneBufferPerAuthority` says that
  the DID and the authority of a buffer name it. So a write, a finish or a close of one takes nothing from
  another (`StagedStepHolds`), and what is finished or closed leaves nothing of the upload behind.
- *Uploads over a network.* `WrittenIsPrefix` is not inductive: a stray call could spoil a buffer later.
  `UploadInv` adds that every call under way and every open buffer belongs to an upload that
  is running or closing (`Owned`), of which a DID and authority have one at a time (`OneActive`).
  `Start` keeps the latter, because it waits for rivals; `End` the former, because it waits
  for calls to expire. A write that is accepted then is a piece of the very key the buffer begins
  (`PieceExtends`), and a full buffer holds all of it.
- *Resuming.* `ResumeInv` adds two facts to `UploadInv`: a buffer ends where a chunk begins or holds the whole key (`Aligned`, because
  writes are whole chunks at the offset `written`), and no close is under way to the buffer of an upload that
  is running (`ClosesMeant`, because only giving up sends one, and calls expire before the next upload
  starts). By the first, the chunk at `written` is one of `Chunks(u.key)`, by the second, nothing discards it.
  `ChunkAssumption` says that what a client cuts a key into is among the inputs of `write_key_buffer`.
- *Events.* `LogInv` ties the length of a DID's log to its version. `IndexInv` says that the
  indexer's copy is as new as every event it has handled, and is the document wherever the
  two have one version below saturation: every change raises the version, so the copy
  cannot be an older document with the version of today's.
- *Splices.* `NoPanic`, `Resized`, `Copied` and `Patched` say what one resize or move does to each cell;
  an edit is three of them, and `SplicedCells` is what they amount to.
- *Bytes.* `ExactlySerialized` says what the cursors find in an account, and so nothing about where an edit will
  find its place next. `LayoutInv` says instead what there is to find: an account is `Written(x)`, the
  header, the controllers, a count and the methods, a count and the services, for contents `x` whose
  fragments are distinct, and `account` is their document. `LayoutStep` takes it through a step in three parts.
  *Reading back*: `Placed` lays entries end to end, and a cursor that leads from each entry to the
  next (`Steps`, shown for each kind of entry by `CursorsEnd`) stops after as many as the count says, at the
  end of the list; hence `SectionsFound`, `VmsFound`, `ServicesFound`, `ControllersRead`. *Editing*: an instruction
  grows or shrinks one of six parts, and the splice theorems say that the others are as they were, where they
  now belong (`MethodInserted`, `MethodRemoved`, ..., `ControllersReplaced`, `EmptiedWritten`). *Guards*: what an instruction checks
  in the bytes (a name is found or not, a count, the last authority) is what `DidRegistry` checks in the document.
  The constants' encodings (`Spelling`, `Address`) are injective and have cells of numbers, as `LayoutAssumption` says;
  that a method, a service or a controller can be read back from its cells is proved, and not assumed.
- *Lengths.* `Written(x)` lists entries and a document has sets of them. `TextIsSum` shows, prefix by prefix, that a list that names
  no entry twice is as long as the sum over its set; `Distinct` in `LayoutInv` and `ControllersWellFormed`,
  which the refinement brings over from `DidRegistry`, say that none is named twice. `DidLayout_proofs` extends
  `Registry_proofs` for such facts; the buffers that come with it play no part there.
- *Recursion over data.* A cursor that walks a list, and the community modules' `FlattenSeq`, are functions chosen to satisfy
  a recursive equation. `FiniteSums` proves that such a function exists and is what the equation says (`Recursion`, `Iteration`),
  by the same least counterexample, so nothing is assumed about either.
- *Calls.* The two properties of `ClientCalls` are inverse to each other. What is taken: `ArrivesInv` says only that a discriminator,
  bytes and a list of accounts arrive, which no change undoes. A field that ends within the data is the slice its value
  is encoded to (`FieldIsWritten`, from the digits of a number, `ReadIsWritten`, up to lists of strings, `StrsField`). A handler
  that reads to the end has cut the data into these slices (`ReadToTheEnd`), and the builder joins the same
  (`BuiltData`). The checks on the slots leave one subject: a derived address is its seeds, so
  `DidAccountInjective` and `KeyBufferInjective` hold (`SlotGiven`). What is meant: a value that fits is read from
  its encoding wherever that is held (`FieldIsRead`: `DigitsEnd` for a number that fits its width, and
  `WalksAgree` for a cursor that meets the end of each entry), and every check finds what the builder listed (`SlotsHold`).
  An account that is listed in two slots has the roles of both (`MergedIs`).
- *Lamports.* `Balanced` says that the balances are natural numbers that add up to `Wealth`. All that an
  instruction does to them is one or two transfers (`Fund`, `Settle`, `ClosedTo`), and a transfer
  between two addresses keeps the sum (`SumMoved`, `MovedBalanced`). A transfer that is refused when the
  payer cannot pay keeps balances from going below 0.
- *Resizes.* `Settle` leaves the account with what its new length costs, in either direction. What needs
  proof is that nothing else resizes: `set_verification_method_flags` does not settle, and leaves the
  length alone because fragments are unique, so the one method it takes away and the one it puts back
  have one size (`ReflagKeepsSpace`). This is why `RentInv` has `DocumentsWellFormed`, and
  `BuffersFilled` for the size of a key that lands from a buffer.
- *Sums.* `Conserved` and `Space` add up over sets with `MapThenSumSet`. The library's induction theorems
  cannot be used (an operator is their parameter), so `FiniteSums` puts induction as the least
  counterexample, for sets of numbers (`Induction`) and of subsets (`SubsetInduction`), shows that there is
  one function of sums (`SumsExist`, `SumsUnique`) and that it is the community modules' sum
  (`SumsSolution`). The sums need finite sets of subjects, signers and wallets, which `RentAssumption`
  says: addresses have 32 bytes.
- *Rounding.* A float is a multiple of a power of two with at most `Precision` significant bits (`IsFloat`). Rounding
  leaves floats alone (`RoundedExact`), so the shortcuts for the thresholds 1.0 and 2.0 agree with the float path; it
  keeps a number above every float below it (`RoundedAbove`), so of the two roundings in a product with a threshold
  of at least 1 only the first loses anything, and no more than one part in `2^Precision` (`RoundedLoses`).
- *Closed buffers.* By `Balanced` every address has a balance; then a closed buffer's balance is the 0
  that `close_to` writes last, also after the growth that finishing settles first.

Only model-checked:

- `CreationOpen`, because it uses `ENABLED`, which the prover does not have. What it says of the
  actions is proved, as `GiftsBlockNoCreation`; that a state of that description
  exists is plain from its form, one value for each variable, but not a step tlapm can take.
- `UploadsEnd`, `AbandonedCloses` and `IndexCatchesUp`, because they are liveness under fairness. What is proved
  is that nothing goes wrong on the way: a running upload always has a next call that is taken and loses nothing, and an
  indexer that is behind has news waiting. That the steps are taken is left to the runs.

## Findings

*Deactivation erases protected methods under any key.* `state.rs:91` says that a
protected method "can only be removed, re-flagged, or newly added when its own
key signs", and `src/README.md:189` that protected methods "only change under
their own key" and that a controller cannot remove them. `deactivate` empties the
method list under any authority or a controller's (`deactivate.rs:40`), and
`tests/lifecycle.rs:2140` expects it to. Run `deactivation` shows the shortest
history. `ProtectedUnderOwnKey`, the same claim about DIDs that stay alive, holds
and is proved.

*Not every instruction settles the balance.* `src/README.md:61` says that every
instruction "reallocates to the minimal serialized layout and settles the balance to
exactly the rent-exempt minimum". Run `settling` shows a DID created over a gift
(`initialize.rs:85` only tops up); `set_verification_method_flags` and replacements of
equal length do not settle either. `tests/lifecycle.rs:627` expects the surplus to stay
until the next resize. `ResizesSettle` is that claim, and holds.

## Plan

Every invariant and action property of the runs is proved, except `CreationOpen`, which uses `ENABLED`. Left is what only a run can say more about: two
authorities of one DID that upload at the same time, in `upload`, where safety is proved already
(`WrittenStaysPrefix`) and liveness is too large to check at once.

## Not modelled

- *Errors*: a failed instruction changes nothing, whatever its code; codes, texts and the
  order in which two failing checks report are left out.
- *Overflow of lamports* in a transfer; the runtime's rule that a wallet is left empty or rent
  exempt; compute budgets and the limit on growth per instruction.
- *The runtime's account checks* beyond the owner, writable, signer and address checks that
  `ClientCalls` has. The other modules take an instruction that passed them, on the accounts of
  the subject it names.
- *`updated_at`*, which only records the clock, and the fields of the header that are written once.
- *A key buffer's bytes*: a header of fixed size and the key behind it; nothing in it moves.
- *Helpers that no instruction calls*, the test program `cpi-caller` (a signer `prog` stands for
  it) and the benchmarks.

One thing `ClientCalls` takes as it is: `create_key_buffer` does not insist that the DID account is
writable, as the other handlers that receive it do, since it only reads it; `TakenIsACall` says so, by
the account's address, because an account that is listed in two slots is one account.
