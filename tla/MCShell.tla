------------------------------ MODULE MCShell ------------------------------
(***************************************************************************)
(* Shell with a few command slots: background lines may still be running   *)
(* when the next ones are typed, and the process table may be full.        *)
(***************************************************************************)
EXTENDS Shell

CONSTANTS init, shell, terminal, c1, c2

Interchangeable == Permutations({c1, c2})
=============================================================================
