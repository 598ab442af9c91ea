------------------------------- MODULE MCSync -------------------------------
(***************************************************************************)
(* SyncCommands with what a user may type.                                 *)
(***************************************************************************)
EXTENDS SyncCommands

MvarOrTest == {<<"mvar", "mvar">>, <<"test_sync">>}
TwoMvars == {<<"mvar", "mvar">>}
=============================================================================
