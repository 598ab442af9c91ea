------------------------------ MODULE MCFiles ------------------------------
(***************************************************************************)
(* Files with processes that make descriptor calls in any order.           *)
(***************************************************************************)
EXTENDS Files

CONSTANTS init, p1, p2

NextWithCtrlC == FilesNext \/ \E p \in Procs : ZombieCall(p)
CtrlCSpec == FilesInit /\ [][NextWithCtrlC]_<<fileVars, state>>

Others == Permutations({p1, p2})
=============================================================================
