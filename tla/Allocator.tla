----------------------------- MODULE Allocator -----------------------------
(***************************************************************************)
(* What Kernel/include/memoryManager.h promises its callers, whichever     *)
(* manager is built in: the bytes asked for, inside the heap, and not the  *)
(* bytes of anybody else.                                                  *)
(***************************************************************************)
EXTENDS Naturals, Functions, TLC

CONSTANTS HeapSize, Requests

VARIABLE held    \* the addresses callers hold, with the bytes they asked for

Bytes(a, n) == a .. a + n - 1

AllocatorInit == held = <<>>

Grant == \E n \in Requests \ {0} : \E a \in 0 .. HeapSize - n :
    /\ a \notin DOMAIN held
    /\ \A b \in DOMAIN held : Bytes(a, n) \cap Bytes(b, held[b]) = {}
    /\ held' = held @@ (a :> n)

Release == \E a \in DOMAIN held : held' = Restrict(held, DOMAIN held \ {a})

AllocatorSpec == AllocatorInit /\ [][Grant \/ Release]_held
=============================================================================
