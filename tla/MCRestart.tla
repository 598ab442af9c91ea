----------------------------- MODULE MCRestart ------------------------------
(***************************************************************************)
(* Restart with two sets of user programs: those that use the clock and    *)
(* the speaker, and those that use named semaphores.                       *)
(***************************************************************************)
EXTENDS Restart

Usual == {{"sound", "sleep", "loop", "fault"}, {"sem", "fault"}}
Yielding == {{"sleep"}}
=============================================================================
