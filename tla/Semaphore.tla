----------------------------- MODULE Semaphore -----------------------------
(***************************************************************************)
(* The counting semaphore of Kernel/semaphores/semaphore.c as operators on *)
(* [value, blockedQueue], for the modules whose processes block on pipes   *)
(* and on named semaphores.  Waiters that were killed stay queued, so a    *)
(* post is told which processes are BLOCKED, the ones setReady accepts.    *)
(***************************************************************************)
EXTENDS Integers, Sequences, FiniteSets

newSemaphore(v) == [value |-> v, blockedQueue |-> <<>>]

mustBlock(s) == s.value - 1 < 0

semWait(s, p) ==
    [value        |-> s.value - 1,
     blockedQueue |-> IF mustBlock(s) THEN Append(s.blockedQueue, p) ELSE s.blockedQueue]

\* The waiters a post polls: up to the first that setReady accepts, and only
\* while the value is not positive.
Polled(s, blocked) ==
    LET Candidates == {i \in 1 .. Len(s.blockedQueue) : i <= -s.value}
    IN  {i \in Candidates : \A j \in 1 .. i - 1 : s.blockedQueue[j] \notin blocked}

Woken(s, blocked) ==
    {s.blockedQueue[i] : i \in Polled(s, blocked)} \cap blocked

\* Every waiter polled in vain gives its unit of value back.
semPost(s, blocked) ==
    LET q == s.blockedQueue
        Vain == {i \in Polled(s, blocked) : q[i] \notin blocked}
    IN  [value        |-> s.value + 1 + Cardinality(Vain),
         blockedQueue |-> SubSeq(q, Cardinality(Polled(s, blocked)) + 1, Len(q))]
=============================================================================
