----------------------------- MODULE KeyUpload -----------------------------
(***************************************************************************)
(* Uploading a key: the calls that upload_key of src/program/src/client.rs *)
(* lists, sent one transaction each over a network that delays, repeats,   *)
(* reorders and drops them.  Meanwhile authorities remove keys, one        *)
(* another's too, or deactivate the DID.                                   *)
(*                                                                         *)
(* Whoever sends the calls is not in the repository.  It is modelled as    *)
(* the comment on upload_key has it: it reads the buffer and resumes from  *)
(* `written'.  It minds one thing more, which the program cannot check: it *)
(* sends nothing of another upload to a buffer while calls for the last    *)
(* one may still arrive.  They expire.                                     *)
(***************************************************************************)
EXTENDS KeyBuffers, SequencesExt

CONSTANTS
  Upload,       \* the uploads the authorities want: did, authority, header, key
  KeyChunkLen,  \* KEY_CHUNK_LEN: 900 in the code
  Founded       \* the documents the DIDs begin with

ASSUME UploadAssumption ==
  /\ Upload \subseteq [did: Subject, authority: Signer, header: BufferInput, key: Material]
  /\ \A u \in Upload : u.header.keyLen = Len(u.key)
  /\ KeyChunkLen \in Nat \ {0}
  /\ Founded \in [Subject -> Document]
  /\ \A s \in Subject : IsFiniteSet(Founded[s].vms)

VARIABLES
  stage,    \* how far the sender of each upload is
  network   \* the calls that may still arrive, any number of times

uploadVars == <<account, signedBy, buffers, stage, network>>

-----------------------------------------------------------------------------
(* The calls *)

Call(u, op) == [op |-> op, did |-> u.did, authority |-> u.authority]

CreateCall(u) ==
  [op |-> "create", did |-> u.did, authority |-> u.authority, header |-> u.header]

WriteCall(u, offset, chunk) ==
  [op |-> "write", did |-> u.did, authority |-> u.authority,
   offset |-> offset, chunk |-> chunk]

Chunks(key) ==
  [i \in 1 .. (Len(key) + KeyChunkLen - 1) \div KeyChunkLen |->
     SubSeq(key, (i - 1) * KeyChunkLen + 1, Min({i * KeyChunkLen, Len(key)}))]

\* Mutated form: a chunk is sent at its number instead of its offset.
UploadKeyAtNumbers(u) ==
  <<CreateCall(u)>>
    \o [i \in DOMAIN Chunks(u.key) |-> WriteCall(u, i - 1, Chunks(u.key)[i])]
    \o <<Call(u, "finish")>>

UploadKey(u) ==
  <<CreateCall(u)>>
    \o [i \in DOMAIN Chunks(u.key) |->
          WriteCall(u, (i - 1) * KeyChunkLen, Chunks(u.key)[i])]
    \o <<Call(u, "finish")>>

\* The chunks are among those that write_key_buffer is called with.
ASSUME ChunkAssumption ==
  \A u \in Upload : Range(Chunks(u.key)) \subseteq ChunkInput

CallsOf(u) == Range(UploadKey(u)) \cup {Call(u, "close")}

Calls == UNION {CallsOf(u) : u \in Upload}

Of(u, calls) == {c \in calls : c.did = u.did /\ c.authority = u.authority}

-----------------------------------------------------------------------------
(* The sender *)

MethodOf(u) ==
  [fragment |-> u.header.fragment, type |-> u.header.type,
   flags |-> u.header.flags, key |-> u.key]

Landed(u) == MethodOf(u) \in account[u.did].vms

Rivals(u) == {v \in Upload \ {u} : v.did = u.did /\ v.authority = u.authority}

\* Mutated form: the sender does not wait for the last upload's calls.
StartAtOnce(u) ==
  /\ stage[u] = "wanted"
  /\ stage' = [stage EXCEPT ![u] = "running"]
  /\ UNCHANGED <<account, signedBy, buffers, network>>

Start(u) ==
  /\ stage[u] = "wanted"
  /\ \A v \in Rivals(u) : stage[v] \in {"wanted", "ended"}
  /\ Of(u, network) = {} /\ Held(u.did, u.authority) = {}
  /\ stage' = [stage EXCEPT ![u] = "running"]
  /\ UNCHANGED <<account, signedBy, buffers, network>>

\* What the buffer is waiting for: chunk i starts where i chunks end.
NextCall(u) ==
  LET held == Held(u.did, u.authority)
      b == CHOOSE b \in held : TRUE
  IN IF held = {} THEN UploadKey(u)[1]
     ELSE IF Len(b.key) < b.header.keyLen THEN UploadKey(u)[Len(b.key) \div KeyChunkLen + 2]
     ELSE Last(UploadKey(u))

Send(u) ==
  /\ \/ /\ stage[u] = "running" /\ ~Landed(u)
        /\ network' = network \cup {NextCall(u)}
     \/ /\ stage[u] = "closing" /\ Held(u.did, u.authority) # {}
        /\ network' = network \cup {Call(u, "close")}
  /\ UNCHANGED <<account, signedBy, buffers, stage>>

\* At any time, and for any reason.
GiveUp(u) ==
  /\ stage[u] = "running" /\ ~Landed(u)
  /\ stage' = [stage EXCEPT ![u] = "closing"]
  /\ UNCHANGED <<account, signedBy, buffers, network>>

End(u) ==
  /\ stage[u] = "closing" \/ (stage[u] = "running" /\ Landed(u))
  /\ Of(u, network) = {} /\ Held(u.did, u.authority) = {}
  /\ stage' = [stage EXCEPT ![u] = "ended"]
  /\ UNCHANGED <<account, signedBy, buffers, network>>

-----------------------------------------------------------------------------
(* The network.  A call that the program refuses changes nothing. *)

\* Mutated form: a chunk is appended wherever it was meant to go.
AcceptsAnywhere(b, c) == TRUE

Accepts(b, c) == c.offset = Len(b.key)

Landing(c) ==
  \/ /\ c.op = "create"
     /\ CreateKeyBuffer(c.did, c.authority)
     /\ \A b \in buffers' \ buffers : b.header = c.header
  \/ /\ c.op = "write"
     /\ WriteKeyBuffer(c.did, c.authority)
     /\ \E b \in Held(c.did, c.authority) :
          /\ Accepts(b, c)
          /\ [b EXCEPT !.key = @ \o c.chunk] \in buffers'
  \/ /\ c.op = "finish"
     /\ AddVerificationMethodFromBuffer(c.did, c.authority)
  \/ /\ c.op = "close"
     /\ CloseKeyBuffer(c.did, c.authority)

\* A call that was sent twice is still there.
Deliver(c) ==
  /\ c \in network
  /\ Landing(c)
  /\ UNCHANGED <<stage, network>>

\* The call is lost, or its blockhash too old, or the program has refused it.
Expire(c) ==
  /\ c \in network
  /\ network' = network \ {c}
  /\ UNCHANGED <<account, signedBy, buffers, stage>>

\* What turns an upload away halfway: its authority goes, or the DID does.
Meanwhile ==
  /\ \E s \in Subject, k \in Signer :
       RemoveVerificationMethod(s, k) \/ Deactivate(s, k)
  /\ UNCHANGED <<buffers, stage, network>>

UploadInit ==
  /\ account = Founded
  /\ signedBy = {}
  /\ buffers = {}
  /\ stage = [u \in Upload |-> "wanted"]
  /\ network = {}

UploadNext ==
  \/ \E u \in Upload : Start(u) \/ Send(u) \/ GiveUp(u) \/ End(u)
  \/ \E c \in Calls : Deliver(c) \/ Expire(c)
  \/ Meanwhile

\* A sender keeps sending while it has not given up, a call that is sent
\* over and over arrives at last, and every call expires.
Fairness ==
  /\ \A u \in Upload : WF_uploadVars(Send(u)) /\ WF_uploadVars(End(u))
  /\ \A c \in Calls : SF_uploadVars(Deliver(c)) /\ WF_uploadVars(Expire(c))

UploadSpec == UploadInit /\ [][UploadNext]_uploadVars /\ Fairness

-----------------------------------------------------------------------------
(* Properties *)

\* "`written' is always a prefix of the key" (write_key_buffer.rs): whatever
\* is lost, repeated or late, a buffer holds the beginning of one upload's
\* key, and what lands in a document is one upload's key.
WrittenIsPrefix ==
  /\ \A b \in buffers :
       \E u \in Upload : /\ Held(u.did, u.authority) = {b}
                         /\ b.header = u.header
                         /\ IsPrefix(b.key, u.key)
  /\ \A s \in Subject : \A m \in account[s].vms :
       \/ m \in Founded[s].vms
       \/ \E u \in Upload : u.did = s /\ m = MethodOf(u)

Refused(u) ==
  \/ ~Authorized(u.did, u.authority)
  \/ ~CheckNewMethod(account[u.did], u.header, u.header.keyLen)
  \/ ~CheckNewKey(u.header, u.key, u.authority)

\* The program's checks on a call, were it to arrive now.
Takes(c) ==
  \/ /\ c.op = "create"
     /\ Authorized(c.did, c.authority) /\ Held(c.did, c.authority) = {}
     /\ c.header \in BufferInput
     /\ CheckNewMethod(account[c.did], c.header, c.header.keyLen)
  \/ /\ c.op = "write"
     /\ c.chunk \in ChunkInput \ {<<>>}
     /\ \E b \in Held(c.did, c.authority) :
          Accepts(b, c) /\ Len(b.key) + Len(c.chunk) <= b.header.keyLen
  \/ /\ c.op = "finish"
     /\ Authorized(c.did, c.authority)
     /\ \E b \in Held(c.did, c.authority) :
          /\ Len(b.key) = b.header.keyLen
          /\ CheckNewMethod(account[c.did], Staged(b), Len(b.key))
          /\ CheckNewKey(Staged(b), b.key, c.authority)
  \/ c.op = "close" /\ Held(c.did, c.authority) # {}

\* Whatever was lost, repeated or late before it, the call a running upload
\* sends next is one the program takes now, unless it would take the method
\* from nobody: `written' always says which chunk is missing (upload_key).
ResumeIsTaken ==
  \A u \in Upload :
    stage[u] = "running" /\ ~Landed(u) /\ ~Refused(u) => Takes(NextCall(u))

\* No late or repeated call takes back what a running upload has written: its
\* buffer only grows, until the method lands (close_key_buffer of an upload
\* before it, or a second create, would discard it).
ProgressStep ==
  \A u \in Upload : \A b \in Held(u.did, u.authority) :
    stage[u] = "running" =>
      \/ Landed(u)'
      \/ \E c \in Held(u.did, u.authority)' :
           c.header = b.header /\ IsPrefix(b.key, c.key)

ProgressIsKept == [][ProgressStep]_uploadVars

\* "An interrupted upload can resume from the buffer's `written' count"
\* (upload_key): resuming reaches the end, unless the sender gives up or the
\* program would no longer take the method.
UploadsEnd ==
  \A u \in Upload :
    stage[u] = "running" ~> stage[u] = "closing" \/ Landed(u) \/ Refused(u)

\* An upload given up frees its buffer in the end, also after its authority
\* has been rotated out or the DID deactivated (close_key_buffer), and though
\* a late create may open it again.
AbandonedCloses ==
  \A u \in Upload :
    stage[u] = "closing" ~> stage[u] = "ended" /\ Held(u.did, u.authority) = {}

=============================================================================
