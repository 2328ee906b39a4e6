--------------------------- MODULE MCClientCalls ---------------------------
(***************************************************************************)
(* Small calls for TLC: two wallets, one of them with a DID of its own and *)
(* an owned one, and key buffers of either for both DIDs.                  *)
(***************************************************************************)
EXTENDS ClientCalls

MCAlice == <<1, 2>>
MCBob == <<2, 2>>
MCNonce == <<1, 0, 0, 0, 0, 0, 0, 0>>
MCOwned == owned_subject(MCAlice, <<0, 0, 0, 0, 0, 0, 0, 0>>)

MCMethodType == 0 .. 2
MCTextByte == {1, 2}
MCOnCurve == {MCAlice, MCBob}
MCExisting == {MCAlice, MCOwned}
MCOpened == {<<MCAlice, MCAlice>>, <<MCOwned, MCAlice>>}

MCAddress ==
    {MCAlice, MCBob, did_account(MCAlice), did_account(MCOwned),
     key_buffer(MCAlice, MCAlice), key_buffer(MCAlice, MCBob)}

Of(op, payer, authority, subject, args) ==
    [op |-> op, payer |-> payer, authority |-> authority, subject |-> subject, args |-> args]

MCCall ==
    { Of("initialize", MCAlice, NoOne, MCBob, <<MCBob>>),
      Of("initialize_owned", MCBob, MCAlice, owned_subject(MCAlice, MCNonce), <<MCNonce>>),
      Of("add_verification_method", MCBob, MCAlice, MCAlice, << <<1, 2>>, 2, 9, <<3, 0>> >>),
      Of("remove_verification_method", MCAlice, MCAlice, MCOwned, << <<2>> >>),
      Of("set_verification_method_flags", NoOne, MCAlice, MCOwned, << <<1>>, 6 >>),
      Of("add_service", MCAlice, MCAlice, MCAlice, << <<1>>, <<2>>, <<1, 1>> >>),
      Of("update_service", MCBob, MCAlice, MCOwned, << <<1>>, <<>>, <<2>> >>),
      Of("remove_service", MCBob, MCAlice, MCAlice, << <<>> >>),
      Of("set_controllers", MCAlice, MCAlice, MCOwned, << <<MCBob>>, << <<1>>, <<2>> >> >>),
      Of("set_controllers", MCAlice, MCAlice, MCAlice, << <<>>, <<>> >>),
      Of("deactivate", MCBob, MCAlice, MCOwned, <<>>),
      Of("create_key_buffer", MCAlice, MCBob, MCAlice, << <<2>>, 1, 4, 7 >>),
      Of("write_key_buffer", NoOne, MCAlice, MCOwned, << 5, <<3, 1>> >>),
      Of("add_verification_method_from_buffer", MCBob, MCAlice, MCOwned, <<>>),
      Of("close_key_buffer", MCAlice, MCAlice, MCAlice, <<>>) }

==============================================================================
