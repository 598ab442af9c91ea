-------------------------- MODULE SharedSemaphores --------------------------
(***************************************************************************)
(* The named semaphores of Kernel/semaphores/sharedSemaphores.c: a table   *)
(* of names with reference counts over semaphore objects on the heap.      *)
(*                                                                         *)
(* A system call runs with interrupts off, so each operation is one step   *)
(* up to the point where its caller blocks.  Names are model values: the   *)
(* check for an empty name has no counterpart.                             *)
(***************************************************************************)
EXTENDS Semaphore, Functions

CONSTANTS Procs, MAX_SHARED_SEMS, MaxSems    \* MaxSems bounds the heap

ASSUME SharedAssumption == MAX_SHARED_SEMS \in Nat /\ MaxSems \in Nat

VARIABLES
    table,      \* slots: [used, name, sem, refCount]
    heap,       \* the allocated semaphore objects
    status      \* "FREE", "READY", "BLOCKED" or "DEAD"

sharedVars == <<table, heap, status>>

Slots == 1 .. MAX_SHARED_SEMS
Ids == 1 .. MaxSems
Unused == [used |-> FALSE, sem |-> 0, refCount |-> 0]
Least(S) == CHOOSE i \in S : \A j \in S : i <= j
Blocked == {p \in Procs : status[p] = "BLOCKED"}

SharedInit ==
    /\ table = [i \in Slots |-> Unused]
    /\ heap = <<>>

Matches(name) == {i \in Slots : table[i].used /\ table[i].name = name}
findByName(name) == IF Matches(name) = {} THEN -1 ELSE Least(Matches(name))
FreeSlots == {i \in Slots : ~table[i].used}
findFreeSlot == IF FreeSlots = {} THEN -1 ELSE Least(FreeSlots)
FreeIds == Ids \ DOMAIN heap

sharedSemOpen(name, initialValue) ==
    \E idx \in {findByName(name)}, new \in {findFreeSlot} :
        /\ \/ /\ idx > 0
              /\ table' = [table EXCEPT ![idx].refCount = @ + 1]
              /\ UNCHANGED heap
           \/ /\ idx < 0 /\ new > 0 /\ FreeIds # {}
              /\ \E s \in {Least(FreeIds)} :
                   /\ heap' = [i \in DOMAIN heap \cup {s} |->
                                 IF i = s THEN newSemaphore(initialValue) ELSE heap[i]]
                   /\ table' = [table EXCEPT ![new] =
                                  [used |-> TRUE, name |-> name, sem |-> s, refCount |-> 1]]
           \/ /\ idx < 0 /\ (new < 0 \/ FreeIds = {})       \* returns -1
              /\ UNCHANGED <<table, heap>>
        /\ UNCHANGED status

\* freeSemaphore keeps a semaphore that somebody, dead or alive, is queued on.
freeSemaphore(s) ==
    heap' = IF heap[s].blockedQueue = <<>> THEN Restrict(heap, DOMAIN heap \ {s}) ELSE heap

\* Seeded fault: the slot is freed whoever else still has the name open.
sharedSemCloseForAll(name) ==
    \E idx \in {findByName(name)} :
        /\ \/ idx < 0 /\ UNCHANGED <<table, heap>>
           \/ /\ idx > 0
              /\ table' = [table EXCEPT ![idx] = Unused]
              /\ freeSemaphore(table[idx].sem)
        /\ UNCHANGED status

sharedSemClose(name) ==
    \E idx \in {findByName(name)} :
        /\ \/ /\ idx < 0                                    \* returns -1
              /\ UNCHANGED <<table, heap>>
           \/ /\ idx > 0 /\ table[idx].refCount > 1
              /\ table' = [table EXCEPT ![idx].refCount = @ - 1]
              /\ UNCHANGED heap
           \/ /\ idx > 0 /\ table[idx].refCount <= 1
              /\ table' = [table EXCEPT ![idx] = Unused]
              /\ freeSemaphore(table[idx].sem)
        /\ UNCHANGED status

\* Of a name nobody has open both return -1 at once.
sharedSemWait(name, p) ==
    \E idx \in {findByName(name)} :
        /\ \/ /\ idx < 0
              /\ UNCHANGED <<heap, status>>
           \/ /\ idx > 0
              /\ heap' = [heap EXCEPT ![table[idx].sem] = semWait(@, p)]
              /\ status' = [status EXCEPT ![p] =
                              IF mustBlock(heap[table[idx].sem]) THEN "BLOCKED" ELSE @]
        /\ UNCHANGED table

sharedSemPost(name) ==
    \E idx \in {findByName(name)} :
        /\ \/ /\ idx < 0
              /\ UNCHANGED <<heap, status>>
           \/ /\ idx > 0
              /\ \E s \in {table[idx].sem}, woken \in {Woken(heap[table[idx].sem], Blocked)} :
                   /\ heap' = [heap EXCEPT ![s] = semPost(@, Blocked)]
                   /\ status' = [p \in Procs |-> IF p \in woken THEN "READY" ELSE status[p]]
        /\ UNCHANGED table

Listed == {table[i].sem : i \in {j \in Slots : table[j].used}}
QueuedOn(s) == Range(heap[s].blockedQueue)
=============================================================================
