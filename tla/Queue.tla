-------------------------------- MODULE Queue -------------------------------
(***************************************************************************)
(* The FIFO of Kernel/queue.c as a sequence: first is the head, last the   *)
(* tail, count the length.  The linked nodes are heap cells.               *)
(***************************************************************************)
EXTENDS Integers, Sequences, FiniteSets

isIn(e, q) == \E i \in DOMAIN q : q[i] = e
before(d, e, q) == \E i, j \in DOMAIN q : i < j /\ q[i] = d /\ q[j] = e
noRepeats(q) == \A i, j \in DOMAIN q : q[i] = q[j] => i = j

\* pollQueue: an empty queue gives NULL, which the callers read as PID 0.
polled(q) == IF q = <<>> THEN 0 ELSE Head(q)
afterPoll(q) == IF q = <<>> THEN q ELSE Tail(q)

\* removeFromQueue drops every entry equal to e and keeps the others in order:
\* the n-th entry of the result is the n-th of the positions that are kept.
keptPositions(q, e) == {i \in DOMAIN q : q[i] # e}
rank(S, i) == Cardinality({j \in S : j <= i})
nth(S, n) == CHOOSE i \in S : rank(S, i) = n

removeFromQueue(q, e) ==
    [n \in 1 .. Cardinality(keptPositions(q, e)) |-> q[nth(keptPositions(q, e), n)]]

=============================================================================
