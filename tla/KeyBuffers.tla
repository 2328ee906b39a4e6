---------------------------- MODULE KeyBuffers ----------------------------
(***************************************************************************)
(* Key buffers beside the DID accounts: the four instructions that bring a *)
(* key in over several transactions (create_key_buffer, write_key_buffer,  *)
(* add_verification_method_from_buffer, close_key_buffer).  Between two of *)
(* them anything can happen to the document the buffer is meant for: the   *)
(* uploader rotated out, the fragment taken, the last free place filled by *)
(* another upload, the DID deactivated.                                    *)
(***************************************************************************)
EXTENDS DidRegistry

CONSTANTS
  BufferInput,  \* the methods, without key bytes, that buffers are opened for
  ChunkInput    \* the chunks that write_key_buffer is called with

UploadCell == UNION {Range(chunk) : chunk \in ChunkInput}

Header == [fragment: Fragment, type: VmType \cup {"unknown"},
           flags: SUBSET Flag, keyLen: Nat]

\* A complete buffer holds a method that some caller could also name in one
\* call, were a transaction long enough.
ASSUME BufferAssumption ==
  /\ BufferInput \subseteq Header
  /\ ChunkInput \subseteq Material
  /\ \A h \in BufferInput : \A key \in [1..h.keyLen -> UploadCell] :
       [fragment |-> h.fragment, type |-> h.type, flags |-> h.flags, key |-> key]
         \in MethodInput

\* key holds the bytes written so far, so `written' is its length.
Buffer == [did: Subject, authority: Signer, header: Header, key: Material]

VARIABLE buffers

bufferVars == <<account, signedBy, buffers>>

BufferInit == Init /\ buffers = {}

Held(s, k) == {b \in buffers : b.did = s /\ b.authority = k}

Staged(b) == [fragment |-> b.header.fragment, type |-> b.header.type,
              flags |-> b.header.flags, key |-> b.key]

\* Mutated form: a buffer in progress is begun anew.
CreateOverKeyBuffer(s, k) ==
  /\ Authorized(s, k)
  /\ \E h \in BufferInput :
       /\ CheckNewMethod(account[s], h, h.keyLen)
       /\ buffers' = (buffers \ Held(s, k))
                       \cup {[did |-> s, authority |-> k, header |-> h, key |-> <<>>]}
  /\ UNCHANGED <<account, signedBy>>

CreateKeyBuffer(s, k) ==
  /\ Authorized(s, k)
  /\ Held(s, k) = {}
  /\ \E h \in BufferInput :
       /\ CheckNewMethod(account[s], h, h.keyLen)
       /\ buffers' = buffers \cup {[did |-> s, authority |-> k, header |-> h, key |-> <<>>]}
  /\ UNCHANGED <<account, signedBy>>

\* Mutated form: a chunk may run past the announced length.
WriteKeyBufferOver(s, k) ==
  /\ \E b \in Held(s, k), chunk \in ChunkInput :
       /\ chunk # <<>>
       /\ Len(b.key) < b.header.keyLen
       /\ buffers' = (buffers \ {b}) \cup {[b EXCEPT !.key = @ \o chunk]}
  /\ UNCHANGED <<account, signedBy>>

\* The DID is not consulted.  A chunk at any other offset than the end of
\* what is written is refused.
WriteKeyBuffer(s, k) ==
  /\ \E b \in Held(s, k), chunk \in ChunkInput :
       /\ chunk # <<>>
       /\ Len(b.key) + Len(chunk) <= b.header.keyLen
       /\ buffers' = (buffers \ {b}) \cup {[b EXCEPT !.key = @ \o chunk]}
  /\ UNCHANGED <<account, signedBy>>

\* Mutated form: the checks made when the buffer was opened are trusted.
AddFromBufferUnchecked(s, k) ==
  /\ Authorized(s, k)
  /\ \E b \in Held(s, k) :
       /\ Len(b.key) = b.header.keyLen
       /\ CheckNewKey(b.header, b.key, k)
       /\ Update(s, k, [account[s] EXCEPT !.vms = @ \cup {Staged(b)}])
       /\ buffers' = buffers \ {b}

\* Mutated form: the uploader's authority is not asked again.
AddFromBufferUnauthorized(s, k) ==
  /\ Live(s)
  /\ \E b \in Held(s, k) :
       /\ Len(b.key) = b.header.keyLen
       /\ InsertVm(s, k, Staged(b))
       /\ buffers' = buffers \ {b}

\* Mutated form: the buffer is not bound to the DID it was opened for.
AddFromAnyBuffer(s, k) ==
  /\ Authorized(s, k)
  /\ \E b \in buffers :
       /\ b.authority = k
       /\ Len(b.key) = b.header.keyLen
       /\ InsertVm(s, k, Staged(b))
       /\ buffers' = buffers \ {b}

\* Mutated form: an unfinished upload may be added.
AddFromPartialBuffer(s, k) ==
  /\ Authorized(s, k)
  /\ \E b \in Held(s, k) :
       /\ CheckNewMethod(account[s], b.header, b.header.keyLen)
       /\ CheckNewKey(b.header, b.key, k)
       /\ Update(s, k, [account[s] EXCEPT !.vms = @ \cup {Staged(b)}])
       /\ buffers' = buffers \ {b}

AddVerificationMethodFromBuffer(s, k) ==
  /\ Authorized(s, k)
  /\ \E b \in Held(s, k) :
       /\ Len(b.key) = b.header.keyLen
       /\ InsertVm(s, k, Staged(b))
       /\ buffers' = buffers \ {b}

\* Mutated form: only a current authority may close its buffer.
CloseKeyBufferAuthorized(s, k) ==
  /\ Authorized(s, k)
  /\ \E b \in Held(s, k) : buffers' = buffers \ {b}
  /\ UNCHANGED <<account, signedBy>>

\* The DID is not consulted.
CloseKeyBuffer(s, k) ==
  /\ \E b \in Held(s, k) : buffers' = buffers \ {b}
  /\ UNCHANGED <<account, signedBy>>

BufferNext ==
  \/ Next /\ UNCHANGED buffers
  \/ \E s \in Subject, k \in Signer :
       \/ CreateKeyBuffer(s, k)
       \/ WriteKeyBuffer(s, k)
       \/ AddVerificationMethodFromBuffer(s, k)
       \/ CloseKeyBuffer(s, k)

BufferSpec == BufferInit /\ [][BufferNext]_bufferVars

-----------------------------------------------------------------------------
(* Properties *)

\* Buffers are well formed, and never hold more than the key they announced.
BufferTypeOK ==
  /\ TypeOK
  /\ buffers \subseteq Buffer
  /\ \A b \in buffers : Len(b.key) <= b.header.keyLen

\* An upload in progress is only ever added to: its fragment, type, flags and
\* the bytes written stay what they are until it is finished or closed, and
\* then nothing of it is left (the check on an existing buffer in
\* create_key_buffer, the offset check of write_key_buffer).
StagedStep ==
  \A b \in buffers :
    \/ \E c \in Held(b.did, b.authority)' :
         /\ c.header = b.header
         /\ Len(b.key) <= Len(c.key) /\ SubSeq(c.key, 1, Len(b.key)) = b.key
    \/ Held(b.did, b.authority)' = {}

StagedIsKept == [][StagedStep]_bufferVars

\* A buffer that goes while a document changes goes into that document alone,
\* whole, and under the key that opened it
\* (add_verification_method_from_buffer).
FinishStep ==
  \A b \in buffers \ buffers' :
    account' # account =>
      /\ signedBy' = {b.authority}
      /\ account'[b.did].vms = account[b.did].vms \cup {Staged(b)}
      /\ \A s \in Subject \ {b.did} : account'[s] = account[s]

BufferFinishesInItsDid == [][FinishStep]_bufferVars

\* With the buffers hidden this is DidRegistry: finishing an upload does what
\* add_verification_method would do now, under today's authorities, limits
\* and fragments, and nothing that was true when the buffer was opened counts.
UploadIsAnAdd == Spec

=============================================================================
