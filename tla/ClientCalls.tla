----------------------------- MODULE ClientCalls -----------------------------
(***************************************************************************)
(* What travels between a client and the program.  client.rs builds an     *)
(* instruction: a discriminator, accounts in an order with signer and      *)
(* writable roles, and encoded arguments.  The handlers take it apart      *)
(* again with code of their own: account slots, role and address checks,   *)
(* and a bounds-checked cursor over the arguments.                         *)
(*                                                                         *)
(* A behaviour starts from an instruction some call of client.rs builds    *)
(* and changes it a little at a time, since nobody has to use client.rs:   *)
(* a transaction may hold any accounts, roles and bytes.                   *)
(***************************************************************************)
EXTENDS Integers, Sequences, FiniteSets, SequencesExt

CONSTANTS
    Radix,       \* values of a byte, 256 in the code
    AddressLen,  \* bytes of an address, 32 in the code
    MethodType,  \* the tags that expected_key_len knows
    TextByte,    \* the bytes that make valid UTF-8
    OnCurve,     \* addresses that are Ed25519 points
    Existing,    \* subjects with a DID account
    Opened,      \* <<subject, authority>> with an open key buffer
    Address,     \* addresses an account may be replaced by
    Call,        \* calls of the client that behaviours start from
    MaxEdits     \* bound: changes made to the instruction that was built

VARIABLES meant, via, tx, edits

vars == <<meant, via, tx, edits>>

Byte == 0 .. Radix - 1
Key == [1 .. AddressLen -> Byte]
NoOne == <<>>

(***************************************************************************)
(* Addresses.  A derived address is its seeds, so it is equal only to one  *)
(* derived from the same seeds.                                            *)
(***************************************************************************)
SYSTEM_PROGRAM == [i \in 1 .. AddressLen |-> 0]
did_account(subject) == <<"bio-did">> \o subject
key_buffer(subject, authority) == <<"bio-did-key">> \o did_account(subject) \o authority
owned_subject(authority, nonce) == <<"bio-did-owned">> \o authority \o nonce

(***************************************************************************)
(* The client: encoding and the fourteen builders.                         *)
(***************************************************************************)
\* to_le_bytes of n in w bytes.
LE(n, w) ==
    LET quotient[i \in 0 .. w] == IF i = 0 THEN n ELSE quotient[i - 1] \div Radix
    IN  [i \in 1 .. w |-> quotient[i - 1] % Radix]

bytes(value) == LE(Len(value), 4) \o value
str(value) == bytes(value)

writable(address, signer) == [address |-> address, signer |-> signer, writable |-> TRUE]
readonly(address, signer) == [address |-> address, signer |-> signer, writable |-> FALSE]

Instruction(op, accounts, data) == [op |-> op, accounts |-> accounts, data |-> data]

update_accounts(payer, authority, subject) ==
    << writable(payer, TRUE), readonly(authority, TRUE),
       writable(did_account(subject), FALSE), readonly(SYSTEM_PROGRAM, FALSE) >>

\* Mutated form: the buffer is listed before the DID account.
BufferAccountsSwapped(payer, authority, subject) ==
    << writable(payer, TRUE), readonly(authority, TRUE),
       writable(key_buffer(subject, authority), FALSE),
       writable(did_account(subject), FALSE), readonly(SYSTEM_PROGRAM, FALSE) >>

buffer_accounts(payer, authority, subject) ==
    << writable(payer, TRUE), readonly(authority, TRUE),
       writable(did_account(subject), FALSE),
       writable(key_buffer(subject, authority), FALSE), readonly(SYSTEM_PROGRAM, FALSE) >>

initialize(payer, subject) ==
    Instruction("initialize",
        << writable(payer, TRUE), writable(did_account(subject), FALSE),
           readonly(SYSTEM_PROGRAM, FALSE) >>, subject)

initialize_owned(payer, authority, nonce) ==
    Instruction("initialize_owned",
        update_accounts(payer, authority, owned_subject(authority, nonce)), nonce)

add_verification_method(payer, authority, subject, fragment, method_type, flags, key) ==
    Instruction("add_verification_method", update_accounts(payer, authority, subject),
        str(fragment) \o <<method_type>> \o LE(flags, 2) \o bytes(key))

remove_verification_method(payer, authority, subject, fragment) ==
    Instruction("remove_verification_method", update_accounts(payer, authority, subject),
        str(fragment))

set_verification_method_flags(authority, subject, fragment, flags) ==
    Instruction("set_verification_method_flags",
        << readonly(authority, TRUE), writable(did_account(subject), FALSE) >>,
        str(fragment) \o LE(flags, 2))

add_service(payer, authority, subject, fragment, service_type, endpoint) ==
    Instruction("add_service", update_accounts(payer, authority, subject),
        str(fragment) \o str(service_type) \o str(endpoint))

update_service(payer, authority, subject, fragment, service_type, endpoint) ==
    Instruction("update_service", update_accounts(payer, authority, subject),
        str(fragment) \o str(service_type) \o str(endpoint))

remove_service(payer, authority, subject, fragment) ==
    Instruction("remove_service", update_accounts(payer, authority, subject), str(fragment))

set_controllers(payer, authority, subject, native, external) ==
    Instruction("set_controllers", update_accounts(payer, authority, subject),
        LE(Len(native), 4) \o FlattenSeq(native)
        \o LE(Len(external), 4) \o FlattenSeq([i \in DOMAIN external |-> str(external[i])]))

deactivate(payer, authority, subject) ==
    Instruction("deactivate", update_accounts(payer, authority, subject), <<>>)

create_key_buffer(payer, authority, subject, fragment, method_type, flags, key_len) ==
    Instruction("create_key_buffer", buffer_accounts(payer, authority, subject),
        str(fragment) \o <<method_type>> \o LE(flags, 2) \o LE(key_len, 4))

write_key_buffer(authority, subject, offset, chunk) ==
    Instruction("write_key_buffer",
        << readonly(authority, TRUE), writable(key_buffer(subject, authority), FALSE) >>,
        LE(offset, 4) \o bytes(chunk))

add_verification_method_from_buffer(payer, authority, subject) ==
    Instruction("add_verification_method_from_buffer",
        buffer_accounts(payer, authority, subject), <<>>)

close_key_buffer(payer, authority, subject) ==
    Instruction("close_key_buffer",
        << writable(payer, TRUE), readonly(authority, TRUE),
           writable(key_buffer(subject, authority), FALSE) >>, <<>>)

via_controller(ix, controller) ==
    [ix EXCEPT !.accounts = Append(@, readonly(did_account(controller), FALSE))]

\* The instruction of a call c; c.args are the builder's remaining arguments.
Built(c) ==
    LET p == c.payer  a == c.authority  s == c.subject  x == c.args
    IN  CASE c.op = "initialize" -> initialize(p, s)
          [] c.op = "initialize_owned" -> initialize_owned(p, a, x[1])
          [] c.op = "add_verification_method" ->
                add_verification_method(p, a, s, x[1], x[2], x[3], x[4])
          [] c.op = "remove_verification_method" -> remove_verification_method(p, a, s, x[1])
          [] c.op = "set_verification_method_flags" ->
                set_verification_method_flags(a, s, x[1], x[2])
          [] c.op = "add_service" -> add_service(p, a, s, x[1], x[2], x[3])
          [] c.op = "update_service" -> update_service(p, a, s, x[1], x[2], x[3])
          [] c.op = "remove_service" -> remove_service(p, a, s, x[1])
          [] c.op = "set_controllers" -> set_controllers(p, a, s, x[1], x[2])
          [] c.op = "deactivate" -> deactivate(p, a, s)
          [] c.op = "create_key_buffer" ->
                create_key_buffer(p, a, s, x[1], x[2], x[3], x[4])
          [] c.op = "write_key_buffer" -> write_key_buffer(a, s, x[1], x[2])
          [] c.op = "add_verification_method_from_buffer" ->
                add_verification_method_from_buffer(p, a, s)
          [] c.op = "close_key_buffer" -> close_key_buffer(p, a, s)

(***************************************************************************)
(* The program: the argument cursor.                                       *)
(***************************************************************************)
\* What each handler reads, in order, and then finishes.
Fields ==
    [ initialize |-> <<"address">>,
      initialize_owned |-> <<"nonce">>,
      add_verification_method |-> <<"str", "u8", "u16", "bytes">>,
      remove_verification_method |-> <<"str">>,
      set_verification_method_flags |-> <<"str", "u16">>,
      add_service |-> <<"str", "str", "str">>,
      update_service |-> <<"str", "str", "str">>,
      remove_service |-> <<"str">>,
      set_controllers |-> <<"addresses", "strs">>,
      deactivate |-> <<>>,
      create_key_buffer |-> <<"str", "u8", "u16", "u32">>,
      write_key_buffer |-> <<"u32", "bytes">>,
      add_verification_method_from_buffer |-> <<>>,
      close_key_buffer |-> <<>> ]

Op == DOMAIN Fields

Width == [u8 |-> 1, u16 |-> 2, u32 |-> 4, nonce |-> 8, address |-> AddressLen]

\* from_le_bytes of the w bytes of data at offset p.
Number(data, p, w) ==
    LET last[i \in 0 .. w] ==
            IF i = 0 THEN 0 ELSE data[p + w - (i - 1)] + Radix * last[i - 1]
    IN  last[w]

Body(data, p) == SubSeq(data, p + 5, p + 4 + Number(data, p, 4))

\* The offset behind the field at p; one past the end of the data if it is
\* short there, or is a string that is no text.
Short(data) == Len(data) + 1

PrefixedEnd(data, p) ==
    IF p + 4 > Len(data) THEN Short(data) ELSE p + 4 + Number(data, p, 4)

StrEnd(data, p) ==
    LET e == PrefixedEnd(data, p)
    IN  IF e <= Len(data) /\ Range(Body(data, p)) \subseteq TextByte THEN e ELSE Short(data)

\* The ends of the strings of a list, behind its count.
StrEnds(data, p) ==
    LET e[i \in 0 .. Number(data, p, 4)] == IF i = 0 THEN p + 4 ELSE StrEnd(data, e[i - 1])
    IN  e

\* A list of strings is short if it has no room for the four bytes that each
\* string begins with.
EndOf(field, data, p) ==
    CASE field \in DOMAIN Width -> p + Width[field]
      [] field = "bytes" -> PrefixedEnd(data, p)
      [] field = "str" -> StrEnd(data, p)
      [] field = "addresses" ->
            IF p + 4 > Len(data) THEN Short(data)
            ELSE p + 4 + AddressLen * Number(data, p, 4)
      [] field = "strs" ->
            IF p + 4 > Len(data) \/ p + 4 + 4 * Number(data, p, 4) > Len(data)
            THEN Short(data) ELSE StrEnds(data, p)[Number(data, p, 4)]

Offsets(op, data) ==
    LET offset[i \in 0 .. Len(Fields[op])] ==
            IF i = 0 THEN 0 ELSE EndOf(Fields[op][i], data, offset[i - 1])
    IN  offset

\* Mutated form: a handler that never calls finish.
ReadsWithoutFinish(op, data) == Offsets(op, data)[Len(Fields[op])] <= Len(data)

\* Every field is there and the data ends behind the last one.
Reads(op, data) == Offsets(op, data)[Len(Fields[op])] = Len(data)

FieldValue(field, data, p) ==
    CASE field \in {"u8", "u16", "u32"} -> Number(data, p, Width[field])
      [] field \in {"address", "nonce"} -> SubSeq(data, p + 1, p + Width[field])
      [] field \in {"str", "bytes"} -> Body(data, p)
      [] field = "addresses" ->
            [i \in 1 .. Number(data, p, 4) |->
                SubSeq(data, p + 5 + AddressLen * (i - 1), p + 4 + AddressLen * i)]
      [] field = "strs" ->
            [i \in 1 .. Number(data, p, 4) |-> Body(data, StrEnds(data, p)[i - 1])]

Arguments(op, data) ==
    [i \in DOMAIN Fields[op] |-> FieldValue(Fields[op][i], data, Offsets(op, data)[i - 1])]

\* What fits into a field.
Fitting(value) == Len(value) < Radix * Radix * Radix * Radix
Str == {text \in Seq(TextByte) : Fitting(text)}

Values(field) ==
    CASE field = "u8" -> Byte
      [] field = "u16" -> 0 .. Radix * Radix - 1
      [] field = "u32" -> 0 .. Radix * Radix * Radix * Radix - 1
      [] field = "nonce" -> [1 .. 8 -> Byte]
      [] field = "address" -> Key
      [] field = "str" -> Str
      [] field = "bytes" -> {value \in Seq(Byte) : Fitting(value)}
      [] field = "addresses" -> {list \in Seq(Key) : Fitting(list)}
      [] field = "strs" -> {list \in Seq(Str) : Fitting(list)}

(***************************************************************************)
(* The program: account slots and the checks on them.                      *)
(***************************************************************************)
\* The slots each handler destructures; further accounts are `rest`.
Slots ==
    LET update == <<"payer", "authority", "did", "system">>
        buffer == <<"payer", "authority", "did", "buffer", "system">>
    IN  [ initialize |-> <<"payer", "did", "system">>,
          initialize_owned |-> update,
          add_verification_method |-> update,
          remove_verification_method |-> update,
          set_verification_method_flags |-> <<"authority", "did">>,
          add_service |-> update,
          update_service |-> update,
          remove_service |-> update,
          set_controllers |-> update,
          deactivate |-> update,
          create_key_buffer |-> buffer,
          write_key_buffer |-> <<"authority", "buffer">>,
          add_verification_method_from_buffer |-> buffer,
          close_key_buffer |-> <<"payer", "authority", "buffer">> ]

\* The runtime passes an account listed twice with the roles of both entries.
Merged(accounts) ==
    [i \in DOMAIN accounts |->
        LET same == {j \in DOMAIN accounts : accounts[j].address = accounts[i].address}
        IN  [ address |-> accounts[i].address,
              signer |-> \E j \in same : accounts[j].signer,
              writable |-> \E j \in same : accounts[j].writable ]]

Has(ix, slot) == slot \in Range(Slots[ix.op])

In(ix, slot) ==
    Merged(ix.accounts)[CHOOSE i \in DOMAIN Slots[ix.op] : Slots[ix.op][i] = slot]

Creates(ix) == ix.op \in {"initialize", "initialize_owned"}

check_payer(ix) ==
    Has(ix, "payer") => In(ix, "payer").signer /\ In(ix, "payer").writable

check_authority_signer(ix) == Has(ix, "authority") => In(ix, "authority").signer

check_system_program(ix) == Has(ix, "system") => In(ix, "system").address = SYSTEM_PROGRAM

\* The subject a creation derives the account's address from.
CreatedSubject(ix) ==
    IF ix.op = "initialize" THEN ix.data
    ELSE owned_subject(In(ix, "authority").address, ix.data)

\* materialize: writable, at the subject's address, not there yet.
CheckNewDid(ix) ==
    Creates(ix) =>
        /\ In(ix, "did").writable
        /\ In(ix, "did").address = did_account(CreatedSubject(ix))
        /\ CreatedSubject(ix) \notin Existing
        /\ ix.op = "initialize" => ix.data \in OnCurve

\* load_did_account, and verify_did_account where the DID is written.
CheckDid(ix) ==
    Has(ix, "did") /\ ~Creates(ix) =>
        /\ ix.op # "create_key_buffer" => In(ix, "did").writable
        /\ In(ix, "did").address \in {did_account(s) : s \in Existing}

CheckNewBuffer(ix) ==
    ix.op = "create_key_buffer" =>
        /\ In(ix, "buffer").writable
        /\ \E s \in Existing :
              /\ In(ix, "did").address = did_account(s)
              /\ In(ix, "buffer").address = key_buffer(s, In(ix, "authority").address)
              /\ <<s, In(ix, "authority").address>> \notin Opened

\* Mutated form: the buffer is not compared with the DID account it was
\* opened for.
CheckBufferUnbound(ix) ==
    Has(ix, "buffer") /\ ix.op # "create_key_buffer" =>
        /\ In(ix, "buffer").writable
        /\ \E kb \in Opened :
              /\ In(ix, "buffer").address = key_buffer(kb[1], kb[2])
              /\ kb[2] = In(ix, "authority").address

\* check_key_buffer: bound to the authority and, if one is given, to the DID.
CheckBuffer(ix) ==
    Has(ix, "buffer") /\ ix.op # "create_key_buffer" =>
        /\ In(ix, "buffer").writable
        /\ \E kb \in Opened :
              /\ In(ix, "buffer").address = key_buffer(kb[1], kb[2])
              /\ kb[2] = In(ix, "authority").address
              /\ Has(ix, "did") => In(ix, "did").address = did_account(kb[1])

\* expected_key_len: a handler that names a method type asks for a known one.
CheckMethodType(op, args) ==
    op \in {"add_verification_method", "create_key_buffer"} => args[2] \in MethodType

\* The instruction reaches the rules of the document (authorize and after).
Taken(ix) ==
    /\ Len(ix.accounts) >= Len(Slots[ix.op])
    /\ check_payer(ix)
    /\ check_authority_signer(ix)
    /\ check_system_program(ix)
    /\ CheckDid(ix)
    /\ Reads(ix.op, ix.data)
    /\ CheckMethodType(ix.op, Arguments(ix.op, ix.data))
    /\ CheckNewDid(ix)
    /\ CheckNewBuffer(ix)
    /\ CheckBuffer(ix)

\* The subject the handler acts for: the one that is stored in the account.
SubjectOf(ix) ==
    IF Creates(ix) THEN CreatedSubject(ix)
    ELSE IF Has(ix, "did")
         THEN CHOOSE s \in Existing : did_account(s) = In(ix, "did").address
         ELSE (CHOOSE kb \in Opened : key_buffer(kb[1], kb[2]) = In(ix, "buffer").address)[1]

\* The call that the handler acts on.
Understood(ix) ==
    [ op |-> ix.op,
      payer |-> IF Has(ix, "payer") THEN In(ix, "payer").address ELSE NoOne,
      authority |-> IF Has(ix, "authority") THEN In(ix, "authority").address ELSE NoOne,
      subject |-> SubjectOf(ix),
      args |-> Arguments(ix.op, ix.data) ]

\* rest.first(), which authorize reads; the other handlers ignore it.
Controller(ix) ==
    IF Len(ix.accounts) = Len(Slots[ix.op]) THEN NoOne
    ELSE ix.accounts[Len(Slots[ix.op]) + 1].address

(***************************************************************************)
(* What a client calls: arguments that fit, for a DID or a buffer that is  *)
(* there, or is not there yet if it is to be created.                      *)
(***************************************************************************)
CallFor(c) ==
    CASE c.op = "initialize" -> c.subject = c.args[1] /\ c.subject \in OnCurve \ Existing
      [] c.op = "initialize_owned" ->
            c.subject = owned_subject(c.authority, c.args[1]) /\ c.subject \notin Existing
      [] c.op = "create_key_buffer" ->
            c.subject \in Existing /\ <<c.subject, c.authority>> \notin Opened
      [] c.op \in {"write_key_buffer", "add_verification_method_from_buffer",
                   "close_key_buffer"} ->
            c.subject \in Existing /\ <<c.subject, c.authority>> \in Opened
      [] OTHER -> c.subject \in Existing

ProperCall(c) ==
    /\ c = [ op |-> c.op, payer |-> c.payer, authority |-> c.authority,
             subject |-> c.subject, args |-> c.args ]
    /\ c.op \in Op
    /\ c.args = [i \in DOMAIN Fields[c.op] |-> c.args[i]]
    /\ \A i \in DOMAIN Fields[c.op] : c.args[i] \in Values(Fields[c.op][i])
    /\ CheckMethodType(c.op, c.args)
    /\ ~Has(c, "payer") => c.payer = NoOne
    /\ ~Has(c, "authority") => c.authority = NoOne
    /\ CallFor(c)

IsList(s) == Len(s) \in Nat /\ s = [i \in 1 .. Len(s) |-> s[i]]

ASSUME ClientAssumption ==
    /\ Radix \in Nat \ {0} /\ AddressLen \in Nat /\ MaxEdits \in Nat
    /\ TextByte \subseteq Byte /\ MethodType \subseteq Byte
    /\ \A s \in Existing : IsList(s)
    /\ \A kb \in Opened : kb = <<kb[1], kb[2]>> /\ IsList(kb[1]) /\ kb[2] \in Key
    /\ \A c \in Call : ProperCall(c)

(***************************************************************************)
(* Behaviours.                                                             *)
(***************************************************************************)
ClientInit ==
    /\ meant \in Call
    /\ via \in Existing \cup {NoOne}
    /\ tx = IF via = NoOne THEN Built(meant) ELSE via_controller(Built(meant), via)
    /\ edits = 0

Change(ix) ==
    /\ edits < MaxEdits
    /\ edits' = edits + 1
    /\ tx' = ix
    /\ UNCHANGED <<meant, via>>

Truncate == tx.data # <<>> /\ Change([tx EXCEPT !.data = Front(@)])

Extend == \E b \in Byte : Change([tx EXCEPT !.data = Append(@, b)])

Corrupt == \E i \in DOMAIN tx.data, b \in Byte : Change([tx EXCEPT !.data[i] = b])

Relabel == \E op \in Op : Change([tx EXCEPT !.op = op])

DropAccount == \E i \in DOMAIN tx.accounts : Change([tx EXCEPT !.accounts = RemoveAt(@, i)])

SwapAccounts ==
    \E i, j \in DOMAIN tx.accounts :
        Change([tx EXCEPT !.accounts[i] = tx.accounts[j], !.accounts[j] = tx.accounts[i]])

OtherAddress ==
    \E i \in DOMAIN tx.accounts, a \in Address :
        Change([tx EXCEPT !.accounts[i].address = a])

Unsign == \E i \in DOMAIN tx.accounts : Change([tx EXCEPT !.accounts[i].signer = FALSE])

ReadOnly == \E i \in DOMAIN tx.accounts : Change([tx EXCEPT !.accounts[i].writable = FALSE])

ClientNext ==
    \/ Truncate
    \/ Extend
    \/ Corrupt
    \/ Relabel
    \/ DropAccount
    \/ SwapAccounts
    \/ OtherAddress
    \/ Unsign
    \/ ReadOnly

ClientSpec == ClientInit /\ [][ClientNext]_vars

(***************************************************************************)
(* Properties.                                                             *)
(***************************************************************************)
\* What a builder of client.rs returns, the program takes, and understands
\* as the very call: the same instruction for the same payer, authority,
\* DID and arguments, with the controller of via_controller next.  Payer and
\* authority may be one account.
UnderstoodAsMeant ==
    edits = 0 =>
        /\ Taken(tx)
        /\ Understood(tx) = meant
        /\ Controller(tx) = IF via = NoOne THEN NoOne ELSE did_account(via)

\* Whatever bytes and accounts arrive, an instruction that is taken is one
\* that a builder returns for the call it is understood as: every argument
\* byte is the one encoding of what was read ("Instruction arguments are
\* exact", src/README.md:78), every slot holds the address derived for this
\* call, everybody signs whose signature the client asks for, and what the
\* client marks writable is writable.  Only create_key_buffer does not
\* insist on a writable DID account, which it does not write.
TakenIsACall ==
    Taken(tx) =>
        LET built == Built(Understood(tx))
            asked == Merged(built.accounts)
            given == Merged(tx.accounts)
        IN  /\ tx.data = built.data
            /\ \A i \in DOMAIN asked :
                  /\ given[i].address = asked[i].address
                  /\ asked[i].signer => given[i].signer
                  /\ asked[i].writable =>
                        \/ given[i].writable
                        \/ /\ tx.op = "create_key_buffer"
                           /\ given[i].address = In(tx, "did").address

==============================================================================
