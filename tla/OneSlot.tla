------------------------------ MODULE OneSlot ------------------------------
(***************************************************************************)
(* What a one-slot buffer promises: a value put is taken by exactly one    *)
(* reader before the next is put.  Only a new run discards a value.        *)
(***************************************************************************)
EXTENDS Naturals

CONSTANTS Values, Takers, Nothing

VARIABLES
    slot,
    taken,      \* taken[r]: what r took and has not shown yet
    run         \* how often the buffer was started

Init == slot = Nothing /\ taken = [r \in Takers |-> Nothing] /\ run = 0

Put == slot = Nothing /\ slot' \in Values /\ UNCHANGED <<taken, run>>

Take(r) ==
    /\ slot # Nothing /\ taken[r] = Nothing
    /\ taken' = [taken EXCEPT ![r] = slot]
    /\ slot' = Nothing
    /\ UNCHANGED run

\* Readers show what they took, or are killed with it.
Done(R) ==
    /\ taken' = [r \in Takers |-> IF r \in R THEN Nothing ELSE taken[r]]
    /\ UNCHANGED <<slot, run>>

Restart == run' = run + 1 /\ slot' = Nothing /\ UNCHANGED taken

Next ==
    \/ Put
    \/ Restart
    \/ \E r \in Takers : Take(r)
    \/ \E R \in SUBSET Takers : Done(R)

Spec == Init /\ [][Next]_<<slot, taken, run>>
=============================================================================
