----------------------------- MODULE SyncProofs -----------------------------
(***************************************************************************)
(* Proofs about SyncCommands, for every number of writers, readers, runs,  *)
(* adders and iterations, with one command at a time (OneAtATime).  A      *)
(* counting semaphore first (keeps), then the table of names (tableOK) and *)
(* the programs of the commands; then the inductive invariants of mvar     *)
(* (MvarInv) and of test_sync (TestInv), step by step; and the theorems.   *)
(***************************************************************************)
EXTENDS SyncCommands, QueueTheorems

\* One command after the other, Ctrl+C once the workers are in the foreground,
\* and room in the table and on the heap for what the runs of mvar leave there.
OneAtATime ==
    /\ ~MayBackground /\ CtrlCWhen \subseteq {"yield"}
    /\ \A s \in Sessions : s = <<"test_sync">> \/ s \in Seq({"mvar"})
    /\ MAX_SHARED_SEMS >= 3 /\ MaxSems >= 3 * MaxRuns

Sems == [value : Int, blockedQueue : Seq(Procs)]

-----------------------------------------------------------------------------
(* A semaphore whose queue is the processes it keeps blocked *)

\* The queue holds members of B, each once, and as many as the value is short.
keeps(s, B) ==
    /\ s \in Sems /\ s.value <= 1
    /\ noRepeats(s.blockedQueue)
    /\ Len(s.blockedQueue) = IF s.value < 0 THEN -s.value ELSE 0
    /\ \A p \in Procs : isIn(p, s.blockedQueue) => p \in B

LEMMA KeepsOthers ==
    ASSUME NEW s, NEW B, NEW C, keeps(s, B),
           \A p \in B : isIn(p, s.blockedQueue) => p \in C
    PROVE  keeps(s, C)
  BY DEF keeps

LEMMA NewKeeps ==
    ASSUME NEW v \in {0, 1}, NEW B
    PROVE  /\ keeps(newSemaphore(v), B)
           /\ newSemaphore(v).value = v /\ newSemaphore(v).blockedQueue = <<>>
<1>1. newSemaphore(v) = [value |-> v, blockedQueue |-> <<>>]
  BY DEF newSemaphore
<1>. QED
  BY <1>1, EmptyQueue DEF keeps, Sems

\* Nobody is queued while the value is not short.
LEMMA NobodyQueued ==
    ASSUME NEW s, NEW B, keeps(s, B), s.value >= 0
    PROVE  s.blockedQueue = <<>>
  BY DEF keeps, Sems

LEMMA WaitTakes ==
    ASSUME NEW s, NEW B, keeps(s, B), s.value = 1, NEW p
    PROVE  /\ ~mustBlock(s)
           /\ keeps(semWait(s, p), B) /\ semWait(s, p).value = 0
<1>1. ~mustBlock(s)
  BY DEF mustBlock
<1>2. semWait(s, p) = [value |-> 0, blockedQueue |-> s.blockedQueue]
  BY <1>1 DEF semWait
<1>. QED
  BY <1>1, <1>2 DEF keeps, Sems

LEMMA WaitBlocks ==
    ASSUME NEW s, NEW B, keeps(s, B), s.value <= 0, NEW p \in Procs, p \notin B
    PROVE  /\ mustBlock(s)
           /\ keeps(semWait(s, p), B \cup {p}) /\ semWait(s, p).value <= 0
<1> DEFINE q == s.blockedQueue
<1>1. mustBlock(s)
  BY DEF mustBlock, keeps, Sems
<1>2. semWait(s, p) = [value |-> s.value - 1, blockedQueue |-> Append(q, p)]
  BY <1>1 DEF semWait
<1>3. q \in Seq(Procs) /\ noRepeats(q) /\ ~isIn(p, q) /\ s.value \in Int
      /\ Len(q) = IF s.value < 0 THEN -s.value ELSE 0
  BY DEF keeps, Sems
<1>4. /\ Append(q, p) \in Seq(Procs) /\ noRepeats(Append(q, p))
      /\ Len(Append(q, p)) = Len(q) + 1
      /\ \A d : isIn(d, Append(q, p)) <=> isIn(d, q) \/ d = p
  BY <1>3, EnqueueProperties
<1> HIDE DEF q
<1>5. semWait(s, p) \in Sems /\ semWait(s, p).value = s.value - 1
      /\ semWait(s, p).blockedQueue = Append(q, p)
  BY <1>2, <1>3, <1>4 DEF Sems
<1>6. \A d \in Procs : isIn(d, q) => d \in B
  BY DEF keeps, q
<1>. QED
  BY <1>1, <1>3, <1>4, <1>5, <1>6 DEF keeps

LEMMA PostFrees ==
    ASSUME NEW s, NEW B, keeps(s, B), s.value = 0, NEW blocked
    PROVE  /\ Woken(s, blocked) = {}
           /\ keeps(semPost(s, blocked), B) /\ semPost(s, blocked).value = 1
<1>1. s.blockedQueue = <<>>
  BY NobodyQueued
<1>2. Polled(s, blocked) = {}
  BY <1>1 DEF Polled
<1>3. Woken(s, blocked) = {}
  BY <1>2 DEF Woken
<1>4. {i \in Polled(s, blocked) : s.blockedQueue[i] \notin blocked} = {}
  BY <1>2
<1>5. Cardinality({}) = 0
  BY FS_EmptySet
<1>6. SubSeq(s.blockedQueue, 1, 0) = <<>> /\ Len(s.blockedQueue) = 0
  BY <1>1
<1>7. semPost(s, blocked) = [value |-> 1, blockedQueue |-> <<>>]
  BY <1>2, <1>4, <1>5, <1>6 DEF semPost
<1>. QED
  BY <1>3, <1>7, EmptyQueue DEF keeps, Sems

\* The first in the queue is woken, and nobody else.
LEMMA PostWakes ==
    ASSUME NEW s, NEW B, keeps(s, B), s.value < 0, NEW blocked, B \subseteq blocked
    PROVE  \E p \in Procs :
              /\ isIn(p, s.blockedQueue) /\ p \in B /\ Woken(s, blocked) = {p}
              /\ keeps(semPost(s, blocked), B \ {p}) /\ semPost(s, blocked).value <= 0
<1> DEFINE q == s.blockedQueue
           p == q[1]
<1>1. /\ q \in Seq(Procs) /\ noRepeats(q) /\ s.value \in Int /\ Len(q) = -s.value
      /\ \A d \in Procs : isIn(d, q) => d \in B
  BY DEF keeps, Sems
<1>2. Len(q) >= 1 /\ 1 \in DOMAIN q /\ q # <<>> /\ p \in Procs
  BY <1>1
<1>3. isIn(p, q) /\ p \in B /\ p \in blocked
  BY <1>1, <1>2 DEF isIn
<1>4. Polled(s, blocked) = {1}
  <2>1. \A i \in 1 .. Len(q) : i > 1 => \E j \in 1 .. i - 1 : q[j] \in blocked
    BY <1>1, <1>3
  <2>2. 1 \in 1 .. Len(q) /\ \A i \in 1 .. Len(q) : i <= -s.value
    BY <1>1, <1>2
  <2>3. \A i \in 1 .. Len(q) : (\A j \in 1 .. i - 1 : q[j] \notin blocked) => i = 1
    BY <2>1
  <2>4. \A j \in 1 .. 1 - 1 : q[j] \notin blocked
    OBVIOUS
  <2>5. Polled(s, blocked) = {i \in {m \in 1 .. Len(q) : m <= -s.value} :
                                \A j \in 1 .. i - 1 : q[j] \notin blocked}
    BY DEF Polled
  <2>. QED
    BY <2>2, <2>3, <2>4, <2>5
<1>5. Woken(s, blocked) = {p}
  BY <1>3, <1>4 DEF Woken
<1>6. {i \in Polled(s, blocked) : q[i] \notin blocked} = {}
  BY <1>3, <1>4
<1>7. Cardinality({}) = 0 /\ Cardinality({1}) = 1
  BY FS_EmptySet, FS_Singleton
<1>8. SubSeq(q, 2, Len(q)) = Tail(q)
  BY <1>1, <1>2
<1>9. semPost(s, blocked) = [value |-> s.value + 1, blockedQueue |-> Tail(q)]
  <2>1. Cardinality({i \in Polled(s, blocked) : q[i] \notin blocked}) = 0
    BY <1>6, <1>7
  <2>2. SubSeq(q, Cardinality(Polled(s, blocked)) + 1, Len(q)) = Tail(q)
    BY <1>4, <1>7, <1>8
  <2> DEFINE v == Cardinality({i \in Polled(s, blocked) : q[i] \notin blocked})
             t == SubSeq(q, Cardinality(Polled(s, blocked)) + 1, Len(q))
  <2>3. semPost(s, blocked) = [value |-> s.value + 1 + v, blockedQueue |-> t]
    BY DEF semPost
  <2> HIDE DEF v, t
  <2>4. s.value + 1 + v = s.value + 1
    BY <1>1, <2>1 DEF v
  <2>. QED
    BY <2>2, <2>3, <2>4 DEF t
<1>10. /\ Tail(q) \in Seq(Procs) /\ noRepeats(Tail(q)) /\ ~isIn(p, Tail(q))
       /\ Len(Tail(q)) = Len(q) - 1 /\ \A d : isIn(d, q) <=> isIn(d, Tail(q)) \/ d = p
  <2>1. Head(q) = p
    BY <1>1, <1>2
  <2>. QED
    BY <1>1, <1>2, <2>1, PollProperties
<1> HIDE DEF p, q
<1>11. /\ semPost(s, blocked) \in Sems /\ semPost(s, blocked).value = s.value + 1
       /\ semPost(s, blocked).blockedQueue = Tail(q)
  BY <1>1, <1>9, <1>10 DEF Sems
<1>12. keeps(semPost(s, blocked), B \ {p}) /\ semPost(s, blocked).value <= 0
  BY <1>1, <1>10, <1>11 DEF keeps
<1>. QED
  BY <1>2, <1>3, <1>5, <1>12 DEF q

-----------------------------------------------------------------------------
(* The table of names *)

Names == {"excl", "libre", "lleno", "sem"}
Rows == {Unused} \cup [used : {TRUE}, name : Names, sem : Ids, refCount : Nat]

\* Slot i has name n, for the semaphore s.
row(tb, i, n, s) == tb[i].used /\ tb[i].name = n /\ tb[i].sem = s
names(tb, n, s) == \E i \in Slots : row(tb, i, n, s)

\* A name is in one slot, a semaphore has one name and is on the heap.
tableOK(tb, hp) ==
    /\ tb \in [Slots -> Rows]
    /\ hp \in [DOMAIN hp -> Sems] /\ DOMAIN hp \subseteq Ids
    /\ \A i \in Slots : tb[i].used => tb[i].sem \in DOMAIN hp
    /\ \A i, j \in Slots : tb[i].used /\ tb[j].used /\ i # j
                             => tb[i].name # tb[j].name /\ tb[i].sem # tb[j].sem

LEMMA Sizes == MAX_SHARED_SEMS \in Nat /\ MaxSems \in Nat
  BY SharedAssumption

LEMMA LeastIsIn ==
    ASSUME NEW S \in SUBSET Nat, S # {}
    PROVE  Least(S) \in S /\ \A j \in S : Least(S) <= j
<1>1. \E i \in S : \A j \in S : i <= j
  BY LeastNatural
<1>. QED
  BY <1>1 DEF Least

LEMMA RowFields ==
    ASSUME NEW r \in Rows
    PROVE  /\ r.used \in BOOLEAN
           /\ r.used => r.name \in Names /\ r.sem \in Ids /\ r.refCount \in Nat
           /\ r.used => r \in [used : {TRUE}, name : Names, sem : Ids, refCount : Nat]
           /\ ~r.used => r = Unused
<1>1. CASE r = Unused
  BY <1>1 DEF Unused
<1>2. CASE r \in [used : {TRUE}, name : Names, sem : Ids, refCount : Nat]
  BY <1>2
<1>. QED
  BY <1>1, <1>2 DEF Rows

LEMMA Found ==
    ASSUME tableOK(table, heap), NEW i \in Slots, NEW n, NEW s, row(table, i, n, s)
    PROVE  findByName(n) = i /\ i > 0
<1>1. Matches(n) = {i}
  BY DEF Matches, tableOK, row
<1>2. Slots \subseteq Nat /\ i > 0
  BY Sizes DEF Slots
<1>3. Least({i}) = i
  BY <1>2, LeastIsIn
<1>. QED
  BY <1>1, <1>2, <1>3 DEF findByName

LEMMA NotFound ==
    ASSUME NEW n, \A s : ~names(table, n, s)
    PROVE  findByName(n) = -1
<1>1. Matches(n) = {}
  BY DEF Matches, names, row
<1>. QED
  BY <1>1 DEF findByName

LEMMA WaitOn ==
    ASSUME tableOK(table, heap), NEW n, NEW s, names(table, n, s), NEW p, sharedSemWait(n, p)
    PROVE  /\ s \in DOMAIN heap /\ heap' = [heap EXCEPT ![s] = semWait(@, p)]
           /\ status' = [status EXCEPT ![p] = IF mustBlock(heap[s]) THEN "BLOCKED" ELSE @]
           /\ table' = table
<1>1. PICK i \in Slots : row(table, i, n, s)
  BY DEF names
<1>2. findByName(n) = i /\ i > 0 /\ ~(i < 0)
  BY <1>1, Found, Sizes DEF Slots
<1>3. table[i].sem = s /\ s \in DOMAIN heap
  BY <1>1 DEF row, tableOK
<1>. QED
  BY <1>2, <1>3 DEF sharedSemWait

LEMMA PostOn ==
    ASSUME tableOK(table, heap), NEW n, NEW s, names(table, n, s), sharedSemPost(n)
    PROVE  /\ s \in DOMAIN heap /\ heap' = [heap EXCEPT ![s] = semPost(@, Blocked)]
           /\ status' = [p \in Procs |-> IF p \in Woken(heap[s], Blocked) THEN "READY" ELSE status[p]]
           /\ table' = table
<1>1. PICK i \in Slots : row(table, i, n, s)
  BY DEF names
<1>2. findByName(n) = i /\ i > 0 /\ ~(i < 0)
  BY <1>1, Found, Sizes DEF Slots
<1>3. table[i].sem = s /\ s \in DOMAIN heap
  BY <1>1 DEF row, tableOK
<1>. QED
  BY <1>2, <1>3 DEF sharedSemPost

\* A close of a name nobody has open.
LEMMA CloseNone ==
    ASSUME NEW n, \A s : ~names(table, n, s), sharedSemClose(n)
    PROVE  UNCHANGED <<table, heap, status>>
  BY NotFound DEF sharedSemClose

\* The last close: the name is gone, and with it the semaphore unless it has a
\* queue.
LEMMA CloseLast ==
    ASSUME tableOK(table, heap), NEW i \in Slots, NEW n, NEW s, row(table, i, n, s),
           table[i].refCount <= 1, sharedSemClose(n)
    PROVE  /\ table' = [table EXCEPT ![i] = Unused]
           /\ heap' = IF heap[s].blockedQueue = <<>>
                      THEN [d \in DOMAIN heap \ {s} |-> heap[d]] ELSE heap
           /\ status' = status
<1>1. findByName(n) = i /\ i > 0 /\ ~(i < 0)
  BY Found, Sizes DEF Slots
<1>2. table[i].sem = s /\ table[i].refCount \in Nat
  BY RowFields DEF row, tableOK
<1>3. ~(table[i].refCount > 1)
  BY <1>2
<1>. QED
  BY <1>1, <1>2, <1>3 DEF sharedSemClose, freeSemaphore, Restrict

LEMMA CloseOneOfMany ==
    ASSUME tableOK(table, heap), NEW i \in Slots, NEW n, NEW s, row(table, i, n, s),
           table[i].refCount > 1, sharedSemClose(n)
    PROVE  table' = [table EXCEPT ![i].refCount = @ - 1] /\ UNCHANGED <<heap, status>>
<1>1. findByName(n) = i /\ i > 0 /\ ~(i < 0)
  BY Found, Sizes DEF Slots
<1>2. table[i].refCount \in Nat
  BY RowFields DEF row, tableOK
<1>3. ~(table[i].refCount <= 1)
  BY <1>2
<1>. QED
  BY <1>1, <1>3 DEF sharedSemClose

LEMMA OpenAgain ==
    ASSUME tableOK(table, heap), NEW i \in Slots, NEW n, NEW s, row(table, i, n, s),
           NEW v, sharedSemOpen(n, v)
    PROVE  table' = [table EXCEPT ![i].refCount = @ + 1] /\ UNCHANGED <<heap, status>>
<1>1. findByName(n) = i /\ i > 0 /\ ~(i < 0)
  BY Found, Sizes DEF Slots
<1>. QED
  BY <1>1 DEF sharedSemOpen

\* A name nobody has open, with a slot and a place on the heap to spare.
LEMMA OpenNew ==
    ASSUME tableOK(table, heap), NEW n, \A s : ~names(table, n, s), NEW v, sharedSemOpen(n, v),
           FreeSlots # {}, FreeIds # {}
    PROVE  \E i \in Slots, s \in Ids :
              /\ ~table[i].used /\ s \notin DOMAIN heap /\ \A h \in FreeIds : s <= h
              /\ heap' = [d \in DOMAIN heap \cup {s} |-> IF d = s THEN newSemaphore(v) ELSE heap[d]]
              /\ table' = [table EXCEPT ![i] = [used |-> TRUE, name |-> n, sem |-> s, refCount |-> 1]]
              /\ status' = status
<1> DEFINE i == Least(FreeSlots)
           s == Least(FreeIds)
<1>1. findByName(n) = -1
  BY NotFound
<1>2. i \in FreeSlots
  <2>1. FreeSlots \in SUBSET Nat
    BY Sizes DEF FreeSlots, Slots
  <2>. QED
    BY <2>1, LeastIsIn
<1>3. s \in FreeIds /\ \A h \in FreeIds : s <= h
  <2>1. FreeIds \in SUBSET Nat
    BY Sizes DEF FreeIds, Ids
  <2>. QED
    BY <2>1, LeastIsIn
<1>4. findFreeSlot = i /\ i \in Slots /\ i > 0 /\ FreeIds # {}
  BY <1>2, <1>3, Sizes DEF findFreeSlot, FreeSlots, Slots
<1>5. i \in Slots /\ s \in Ids /\ ~table[i].used /\ s \notin DOMAIN heap
  BY <1>2, <1>3 DEF FreeSlots, FreeIds
<1> HIDE DEF i, s
<1>6. /\ heap' = [d \in DOMAIN heap \cup {s} |-> IF d = s THEN newSemaphore(v) ELSE heap[d]]
      /\ table' = [table EXCEPT ![i] = [used |-> TRUE, name |-> n, sem |-> s, refCount |-> 1]]
      /\ status' = status
  <2>1. \E idx \in {-1}, new \in {i} :
          /\ \/ /\ idx > 0
                /\ table' = [table EXCEPT ![idx].refCount = @ + 1]
                /\ UNCHANGED heap
             \/ /\ idx < 0 /\ new > 0 /\ FreeIds # {}
                /\ \E x \in {s} :
                     /\ heap' = [d \in DOMAIN heap \cup {x} |->
                                   IF d = x THEN newSemaphore(v) ELSE heap[d]]
                     /\ table' = [table EXCEPT ![new] =
                                    [used |-> TRUE, name |-> n, sem |-> x, refCount |-> 1]]
             \/ /\ idx < 0 /\ (new < 0 \/ FreeIds = {})
                /\ UNCHANGED <<table, heap>>
          /\ UNCHANGED status
    BY <1>1, <1>4 DEF sharedSemOpen, s
  <2>2. ~(-1 > 0) /\ ~(i < 0)
    BY <1>4, Sizes DEF Slots
  <2>. QED
    BY <1>4, <2>1, <2>2
<1>. QED
  BY <1>2, <1>3, <1>5, <1>6

\* A semaphore changes.
LEMMA SemChanged ==
    ASSUME tableOK(table, heap), NEW s \in DOMAIN heap, NEW x \in Sems,
           heap' = [heap EXCEPT ![s] = x]
    PROVE  /\ tableOK(table, heap') /\ DOMAIN heap' = DOMAIN heap
           /\ heap'[s] = x /\ \A d \in DOMAIN heap \ {s} : heap'[d] = heap[d]
  BY DEF tableOK

\* A row goes, and the semaphore with it unless somebody is queued on it.
LEMMA RowDropped ==
    ASSUME tableOK(table, heap), NEW i \in Slots, NEW n, NEW s, row(table, i, n, s),
           table' = [table EXCEPT ![i] = Unused],
           heap' = IF heap[s].blockedQueue = <<>> THEN [d \in DOMAIN heap \ {s} |-> heap[d]] ELSE heap
    PROVE  /\ tableOK(table', heap')
           /\ \A m, t : names(table', m, t) <=> names(table, m, t) /\ m # n
           /\ \A j \in Slots : table'[j].used => table'[j] = table[j] /\ table[j].used /\ j # i
           /\ DOMAIN heap' = IF heap[s].blockedQueue = <<>> THEN DOMAIN heap \ {s} ELSE DOMAIN heap
           /\ \A d \in DOMAIN heap' : heap'[d] = heap[d]
<1>1. /\ table' \in [Slots -> Rows] /\ ~table'[i].used
      /\ \A j \in Slots : j # i => table'[j] = table[j]
  BY DEF tableOK, Rows, Unused
<1>2. /\ DOMAIN heap' = IF heap[s].blockedQueue = <<>> THEN DOMAIN heap \ {s} ELSE DOMAIN heap
      /\ \A d \in DOMAIN heap' : heap'[d] = heap[d]
  OBVIOUS
<1>3. heap' \in [DOMAIN heap' -> Sems] /\ DOMAIN heap' \subseteq Ids
  BY <1>2 DEF tableOK
<1>4. \A j \in Slots : table'[j].used => table'[j] = table[j] /\ table[j].used /\ j # i /\ table[j].sem # s
  BY <1>1 DEF tableOK, row
<1>5. \A j \in Slots : table'[j].used => table'[j].sem \in DOMAIN heap'
  BY <1>2, <1>4 DEF tableOK
<1>6. tableOK(table', heap')
  BY <1>1, <1>3, <1>4, <1>5 DEF tableOK
<1>7. ASSUME NEW m, NEW t
      PROVE  names(table', m, t) <=> names(table, m, t) /\ m # n
  BY <1>1, <1>4 DEF names, row, tableOK
<1>. QED
  BY <1>2, <1>4, <1>6, <1>7

\* A row comes, with a semaphore of its own.
LEMMA RowAdded ==
    ASSUME tableOK(table, heap), NEW i \in Slots, ~table[i].used,
           NEW n \in Names, \A t : ~names(table, n, t), NEW s \in Ids, s \notin DOMAIN heap,
           table' = [table EXCEPT ![i] = [used |-> TRUE, name |-> n, sem |-> s, refCount |-> 1]],
           heap' \in [DOMAIN heap \cup {s} -> Sems], \A d \in DOMAIN heap : heap'[d] = heap[d]
    PROVE  /\ tableOK(table', heap') /\ names(table', n, s)
           /\ \A m, t : names(table', m, t) <=> names(table, m, t) \/ (m = n /\ t = s)
           /\ table'[i].used /\ table'[i].refCount = 1
           /\ \A j \in Slots \ {i} : table'[j] = table[j]
           /\ DOMAIN heap' = DOMAIN heap \cup {s}
<1> DEFINE new == [used |-> TRUE, name |-> n, sem |-> s, refCount |-> 1]
<1>1. new \in Rows
  BY DEF Rows
<1>2. /\ table' \in [Slots -> Rows] /\ table'[i] = new
      /\ \A j \in Slots \ {i} : table'[j] = table[j]
  BY <1>1 DEF tableOK
<1>3. DOMAIN heap' = DOMAIN heap \cup {s}
  OBVIOUS
<1>4. heap' \in [DOMAIN heap' -> Sems] /\ DOMAIN heap' \subseteq Ids
  BY <1>3 DEF tableOK
<1>5. \A j \in Slots \ {i} : table[j].used => table[j].name # n /\ table[j].sem # s /\ table[j].sem \in DOMAIN heap
  BY DEF tableOK, names, row
<1>6. table'[i].used /\ table'[i].name = n /\ table'[i].sem = s /\ table'[i].refCount = 1
  BY <1>2
<1> HIDE DEF new
<1>7. \A j \in Slots : table'[j].used => table'[j].sem \in DOMAIN heap'
  BY <1>2, <1>3, <1>5, <1>6
<1>8. \A j, k \in Slots : table'[j].used /\ table'[k].used /\ j # k
                            => table'[j].name # table'[k].name /\ table'[j].sem # table'[k].sem
  BY <1>2, <1>5, <1>6 DEF tableOK
<1>9. tableOK(table', heap')
  BY <1>2, <1>4, <1>7, <1>8 DEF tableOK
<1>10. ASSUME NEW m, NEW t
       PROVE  names(table', m, t) <=> names(table, m, t) \/ (m = n /\ t = s)
  BY <1>2, <1>6 DEF names, row
<1>. QED
  BY <1>2, <1>3, <1>6, <1>9, <1>10

\* A name has one semaphore and a semaphore one name.
LEMMA NamesAreUnique ==
    ASSUME NEW tb, NEW hp, tableOK(tb, hp), NEW n, NEW s, names(tb, n, s), NEW m, NEW t, names(tb, m, t)
    PROVE  /\ n = m <=> s = t
           /\ s \in DOMAIN hp /\ hp[s] \in Sems
  BY DEF tableOK, names, row

\* A reference more or less.
LEMMA RefChanged ==
    ASSUME tableOK(table, heap), NEW i \in Slots, table[i].used, NEW k \in Nat,
           table' = [table EXCEPT ![i].refCount = k], heap' = heap
    PROVE  /\ tableOK(table', heap')
           /\ \A m, t : names(table', m, t) <=> names(table, m, t)
           /\ table'[i].used /\ table'[i].refCount = k /\ table'[i].name = table[i].name
           /\ \A j \in Slots \ {i} : table'[j] = table[j]
<1>1. table[i] \in [used : {TRUE}, name : Names, sem : Ids, refCount : Nat]
  BY RowFields DEF tableOK
<1>2. /\ table'[i] = [table[i] EXCEPT !.refCount = k]
      /\ \A j \in Slots \ {i} : table'[j] = table[j]
      /\ DOMAIN table' = Slots
  BY DEF tableOK
<1>3. /\ table'[i].used /\ table'[i].refCount = k
      /\ table'[i].name = table[i].name /\ table'[i].sem = table[i].sem
      /\ table'[i] \in Rows
  BY <1>1, <1>2 DEF Rows
<1>4. table' \in [Slots -> Rows]
  <2>1. \A j \in Slots : table'[j] \in Rows
    BY <1>2, <1>3 DEF tableOK
  <2>2. table' = [j \in Slots |-> table'[j]]
    BY DEF tableOK
  <2>. QED
    BY <2>1, <2>2
<1>5. \A j \in Slots : /\ table'[j].used <=> table[j].used
                       /\ table[j].used => table'[j].name = table[j].name /\ table'[j].sem = table[j].sem
  BY <1>2, <1>3
<1>6. tableOK(table', heap')
  BY <1>4, <1>5 DEF tableOK
<1>7. ASSUME NEW m, NEW t
      PROVE  names(table', m, t) <=> names(table, m, t)
  BY <1>5 DEF names, row
<1>. QED
  BY <1>2, <1>3, <1>6, <1>7

-----------------------------------------------------------------------------
(* Processes and programs *)

LEMMA Numbers ==
    /\ NWriters \in Nat \ {0} /\ NReaders \in Nat \ {0}
    /\ NPairs \in Nat \ {0} /\ Iterations \in Nat \ {0}
    /\ MaxRuns \in Nat /\ Procs = SyncProcs
  BY SyncAssumption

LEMMA Kinds ==
    /\ \A p \in Mains : p.kind = "main" /\ p.i = 0 /\ p.run \in Runs /\ p = Proc("main", 0, p.run)
    /\ \A p \in Writers : p.kind = "writer" /\ p.i \in 1 .. NWriters /\ p.run \in Runs
                            /\ p = Proc("writer", p.i, p.run)
    /\ \A p \in Readers : p.kind = "reader" /\ p.i \in 1 .. NReaders /\ p.run \in Runs
                            /\ p = Proc("reader", p.i, p.run)
    /\ \A p \in Adders : p.kind = "adder" /\ p.i \in 1 .. 2 * NPairs /\ p.run = 1
                            /\ p = Proc("adder", p.i, 1)
    /\ SyncProcs = Mains \cup Writers \cup Readers \cup Adders
    /\ \A r \in Runs : Proc("main", 0, r) \in Mains
    /\ \A r \in Runs : \A i \in 1 .. NWriters : Proc("writer", i, r) \in Writers
    /\ \A r \in Runs : \A i \in 1 .. NReaders : Proc("reader", i, r) \in Readers
    /\ \A i \in 1 .. 2 * NPairs : Proc("adder", i, 1) \in Adders
  BY DEF Mains, Writers, Readers, Adders, SyncProcs, Workers, Proc

LEMMA Records ==
    \A k, i, r : Proc(k, i, r).kind = k /\ Proc(k, i, r).i = i /\ Proc(k, i, r).run = r
  BY DEF Proc

LEMMA Programs ==
    /\ \A p \in Mains : session[p.run] = "mvar" => Program(p) = mvarCommand
    /\ \A p \in Mains : session[p.run] = "test_sync" => Program(p) = test_sync_command
    /\ \A p \in Writers : Program(p) = producerEntry
    /\ \A p \in Readers : Program(p) = consumerEntry
    /\ \A p \in Adders : Program(p) = my_process_inc
  BY Kinds DEF Program

\* The step that creates a worker of mvar, and what the steps from the seventh do.
Last == 7 + 2 * (NWriters + NReaders)
createdAt(p) == IF p.kind = "writer" THEN 5 + 2 * p.i ELSE 5 + 2 * NWriters + 2 * p.i
kindAt(j) == IF j <= 6 + 2 * NWriters THEN "writer" ELSE "reader"
numAt(j) == IF j <= 6 + 2 * NWriters THEN (j - 5) \div 2 ELSE (j - 5 - 2 * NWriters) \div 2

LEMMA Halves ==
    ASSUME NEW n \in Nat, NEW j \in 1 .. 2 * n
    PROVE  /\ (j + 1) \div 2 \in 1 .. n
           /\ j % 2 = 1 => j + 1 = 2 * ((j + 1) \div 2)
           /\ j % 2 # 1 => j % 2 = 0 /\ j = 2 * ((j + 1) \div 2)
<1> DEFINE h == (j + 1) \div 2
<1>1. h \in Int /\ (j + 1 = 2 * h \/ j + 1 = 2 * h + 1)
  OBVIOUS
<1>2. j % 2 = 1 <=> j + 1 = 2 * h
  OBVIOUS
<1>3. j % 2 \in {0, 1}
  OBVIOUS
<1> HIDE DEF h
<1>. QED
  BY <1>1, <1>2, <1>3 DEF h

LEMMA SpawnSteps ==
    ASSUME NEW k, NEW n \in Nat
    PROVE  /\ Len(SpawnAll(k, n)) = 2 * n /\ DOMAIN SpawnAll(k, n) = 1 .. 2 * n
           /\ \E S : SpawnAll(k, n) \in Seq(S)
           /\ \A j \in 1 .. 2 * n :
                 SpawnAll(k, n)[j] = <<IF j % 2 = 1 THEN "create" ELSE "foreground", k, (j + 1) \div 2>>
<1> DEFINE step(j) == <<IF j % 2 = 1 THEN "create" ELSE "foreground", k, (j + 1) \div 2>>
           S == {step(j) : j \in 1 .. 2 * n}
<1>1. SpawnAll(k, n) = [j \in 1 .. 2 * n |-> step(j)]
  BY DEF SpawnAll
<1>2. \A j \in 1 .. 2 * n : step(j) \in S
  OBVIOUS
<1> HIDE DEF step, S
<1>3. SpawnAll(k, n) \in [1 .. 2 * n -> S] /\ 2 * n \in Nat
  BY <1>1, <1>2
<1>4. SpawnAll(k, n) \in Seq(S) /\ Len(SpawnAll(k, n)) = 2 * n
  BY <1>3, SeqDef
<1>. QED
  BY <1>1, <1>4 DEF step

\* Two sequences, one after the other.
LEMMA Joined ==
    ASSUME NEW S, NEW s \in Seq(S), NEW T, NEW t \in Seq(T)
    PROVE  /\ \E U : s \o t \in Seq(U)
           /\ Len(s \o t) = Len(s) + Len(t)
           /\ \A i \in 1 .. Len(s) + Len(t) :
                 (s \o t)[i] = IF i <= Len(s) THEN s[i] ELSE t[i - Len(s)]
<1> DEFINE U == S \cup T
<1>1. s \in Seq(U) /\ t \in Seq(U)
  OBVIOUS
<1> HIDE DEF U
<1>. QED
  BY <1>1, ConcatProperties

LEMMA SpawnsSteps ==
    /\ \E S : Spawns \in Seq(S)
    /\ Len(Spawns) = 2 * (NWriters + NReaders)
    /\ \A j \in 1 .. 2 * (NWriters + NReaders) :
          Spawns[j] = <<IF j % 2 = 1 THEN "create" ELSE "foreground", kindAt(j + 6), numAt(j + 6)>>
<1> DEFINE W == SpawnAll("writer", NWriters)
           R == SpawnAll("reader", NReaders)
<1>1. /\ Len(W) = 2 * NWriters
      /\ \A j \in 1 .. 2 * NWriters :
            W[j] = <<IF j % 2 = 1 THEN "create" ELSE "foreground", "writer", (j + 1) \div 2>>
  BY SpawnSteps, Numbers
<1>2. /\ Len(R) = 2 * NReaders
      /\ \A j \in 1 .. 2 * NReaders :
            R[j] = <<IF j % 2 = 1 THEN "create" ELSE "foreground", "reader", (j + 1) \div 2>>
  BY SpawnSteps, Numbers
<1>3. PICK S : W \in Seq(S)
  BY SpawnSteps, Numbers
<1>4. PICK T : R \in Seq(T)
  BY SpawnSteps, Numbers
<1> HIDE DEF W, R
<1>5. /\ \E U : W \o R \in Seq(U)
      /\ Len(W \o R) = Len(W) + Len(R)
      /\ \A i \in 1 .. Len(W) + Len(R) : (W \o R)[i] = IF i <= Len(W) THEN W[i] ELSE R[i - Len(W)]
  BY <1>3, <1>4, Joined
<1>6. Spawns = W \o R
  BY DEF Spawns, W, R
<1>7. ASSUME NEW j \in 1 .. 2 * (NWriters + NReaders)
      PROVE  Spawns[j] = <<IF j % 2 = 1 THEN "create" ELSE "foreground", kindAt(j + 6), numAt(j + 6)>>
  <2>1. CASE j <= 2 * NWriters
    <3>1. j \in 1 .. 2 * NWriters
      BY <2>1, Numbers
    <3>2. kindAt(j + 6) = "writer" /\ numAt(j + 6) = (j + 1) \div 2
      BY <2>1, Numbers DEF kindAt, numAt
    <3>3. Spawns[j] = W[j]
      BY <1>1, <1>2, <1>5, <1>6, <2>1, Numbers
    <3>. QED
      BY <1>1, <3>1, <3>2, <3>3
  <2>2. CASE j > 2 * NWriters
    <3> DEFINE k == j - 2 * NWriters
    <3>1. k \in 1 .. 2 * NReaders /\ k % 2 = j % 2
      BY <2>2, Numbers
    <3>2. kindAt(j + 6) = "reader" /\ numAt(j + 6) = (k + 1) \div 2
      BY <2>2, Numbers DEF kindAt, numAt
    <3>3. /\ j \in 1 .. Len(W) + Len(R) /\ ~(j <= Len(W)) /\ j - Len(W) = k
      BY <1>1, <1>2, <2>2, Numbers
    <3> HIDE DEF k
    <3>4. Spawns[j] = R[k]
      BY <1>5, <1>6, <3>3
    <3>. QED
      BY <1>2, <3>1, <3>2, <3>4
  <2>. QED
    BY <2>1, <2>2, Numbers
<1>8. Len(Spawns) = 2 * (NWriters + NReaders)
  BY <1>1, <1>2, <1>5, <1>6, Numbers
<1>. QED
  BY <1>5, <1>6, <1>7, <1>8

LEMMA MvarSteps ==
    /\ Len(mvarCommand) = Last
    /\ mvarCommand[1] = <<"close", "excl">> /\ mvarCommand[2] = <<"close", "libre">>
    /\ mvarCommand[3] = <<"close", "lleno">> /\ mvarCommand[4] = <<"open", "excl", 1>>
    /\ mvarCommand[5] = <<"open", "libre", 1>> /\ mvarCommand[6] = <<"open", "lleno", 0>>
    /\ \A j \in 7 .. Last - 1 :
          mvarCommand[j] = <<IF j % 2 = 1 THEN "create" ELSE "foreground", kindAt(j), numAt(j)>>
    /\ mvarCommand[Last] = <<"yield">>
<1> DEFINE A == <<<<"close", "excl">>, <<"close", "libre">>, <<"close", "lleno">>,
                  <<"open", "excl", 1>>, <<"open", "libre", 1>>, <<"open", "lleno", 0>>>>
           Z == <<<<"yield">>>>
           N == 2 * (NWriters + NReaders)
<1>0. A \in Seq({<<"close", "excl">>, <<"close", "libre">>, <<"close", "lleno">>,
               <<"open", "excl", 1>>, <<"open", "libre", 1>>, <<"open", "lleno", 0>>})
  OBVIOUS
<1>1. /\ Len(A) = 6
      /\ \E S : A \in Seq(S)
      /\ A[1] = <<"close", "excl">> /\ A[2] = <<"close", "libre">> /\ A[3] = <<"close", "lleno">>
      /\ A[4] = <<"open", "excl", 1>> /\ A[5] = <<"open", "libre", 1>> /\ A[6] = <<"open", "lleno", 0>>
  BY <1>0
<1>2. Len(Z) = 1 /\ Z \in Seq({<<"yield">>}) /\ Z[1] = <<"yield">>
  OBVIOUS
<1>3. PICK S : Spawns \in Seq(S)
  BY SpawnsSteps
<1>4. N \in Nat /\ Len(Spawns) = N /\ Last = N + 7 /\ N >= 4
  BY SpawnsSteps, Numbers DEF Last
<1>5. mvarCommand = (A \o Spawns) \o Z
  BY DEF mvarCommand
<1> HIDE DEF A, Z, N
<1>6. /\ \E U : A \o Spawns \in Seq(U)
      /\ Len(A \o Spawns) = 6 + N
      /\ \A i \in 1 .. 6 + N : (A \o Spawns)[i] = IF i <= 6 THEN A[i] ELSE Spawns[i - 6]
  <2>1. PICK V : A \in Seq(V)
    BY <1>1
  <2>2. PICK T : Spawns \in Seq(T)
    BY <1>3
  <2>3. Len(A) + Len(Spawns) = 6 + N
    BY <1>1, <1>4
  <2>4. /\ \E U : A \o Spawns \in Seq(U)
        /\ Len(A \o Spawns) = Len(A) + Len(Spawns)
        /\ \A i \in 1 .. Len(A) + Len(Spawns) :
              (A \o Spawns)[i] = IF i <= Len(A) THEN A[i] ELSE Spawns[i - Len(A)]
    BY <2>1, <2>2, Joined
  <2>. QED
    BY <1>1, <2>3, <2>4
<1>7. /\ Len(mvarCommand) = 7 + N
      /\ \A i \in 1 .. 7 + N : mvarCommand[i] = IF i <= 6 + N THEN (A \o Spawns)[i] ELSE Z[i - 6 - N]
  <2>1. PICK U : A \o Spawns \in Seq(U)
    BY <1>6
  <2> DEFINE B == A \o Spawns
  <2> HIDE DEF B
  <2>2. /\ Len(B \o Z) = Len(B) + Len(Z)
        /\ \A i \in 1 .. Len(B) + Len(Z) : (B \o Z)[i] = IF i <= Len(B) THEN B[i] ELSE Z[i - Len(B)]
    BY <1>2, <2>1, Joined DEF B
  <2>3. Len(B) = 6 + N /\ mvarCommand = B \o Z
    BY <1>5, <1>6 DEF B
  <2>4. Len(B) + Len(Z) = 7 + N /\ \A i \in 1 .. 7 + N : i - Len(B) = i - 6 - N /\ (i <= Len(B) <=> i <= 6 + N)
    BY <1>2, <1>4, <2>3
  <2>5. \A i \in 1 .. 7 + N : mvarCommand[i] = IF i <= 6 + N THEN B[i] ELSE Z[i - 6 - N]
    BY <2>2, <2>3, <2>4
  <2>6. Len(mvarCommand) = 7 + N
    BY <2>2, <2>3, <2>4
  <2>. QED
    BY <2>5, <2>6 DEF B
<1>8. \A i \in 1 .. 6 + N : mvarCommand[i] = IF i <= 6 THEN A[i] ELSE Spawns[i - 6]
  <2>1. ASSUME NEW i \in 1 .. 6 + N
        PROVE  mvarCommand[i] = IF i <= 6 THEN A[i] ELSE Spawns[i - 6]
    <3>1. i \in 1 .. 7 + N /\ i <= 6 + N
      BY <1>4
    <3>2. mvarCommand[i] = (A \o Spawns)[i]
      BY <1>7, <3>1
    <3>. QED
      BY <1>6, <3>2
  <2>. QED
    BY <2>1
<1>9. ASSUME NEW j \in 7 .. Last - 1
      PROVE  mvarCommand[j] = <<IF j % 2 = 1 THEN "create" ELSE "foreground", kindAt(j), numAt(j)>>
  <2>1. mvarCommand[j] = Spawns[j - 6] /\ j - 6 \in 1 .. N /\ (j - 6) + 6 = j /\ (j - 6) % 2 = j % 2
    BY <1>4, <1>8
  <2>2. \A k \in 1 .. N : Spawns[k] = <<IF k % 2 = 1 THEN "create" ELSE "foreground", kindAt(k + 6), numAt(k + 6)>>
    BY SpawnsSteps DEF N
  <2>. QED
    BY <2>1, <2>2
<1>10. mvarCommand[Last] = <<"yield">>
  <2>1. Last \in 1 .. 7 + N /\ ~(Last <= 6 + N) /\ Last - 6 - N = 1
    BY <1>4
  <2>. QED
    BY <1>2, <1>7, <2>1
<1>. QED
  BY <1>1, <1>4, <1>7, <1>8, <1>9, <1>10

\* The worker that a step of mvarCommand creates or puts in the foreground.
LEMMA CreatedAt ==
    /\ \A p \in Writers \cup Readers : createdAt(p) \in 7 .. Last - 2 /\ createdAt(p) % 2 = 1
    /\ \A j \in 7 .. Last - 1 : \A r \in Runs :
          /\ Proc(kindAt(j), numAt(j), r) \in Writers \cup Readers
          /\ createdAt(Proc(kindAt(j), numAt(j), r)) = IF j % 2 = 1 THEN j ELSE j - 1
    /\ \A p, q \in Writers \cup Readers : p.run = q.run /\ createdAt(p) = createdAt(q) => p = q
<1>1. ASSUME NEW p \in Writers \cup Readers
      PROVE  createdAt(p) \in 7 .. Last - 2 /\ createdAt(p) % 2 = 1
  <2>1. CASE p \in Writers
    <3>1. p.kind = "writer" /\ p.i \in 1 .. NWriters
      BY <2>1, Kinds
    <3>. QED
      BY <3>1, Numbers DEF createdAt, Last
  <2>2. CASE p \in Readers
    <3>1. p.kind = "reader" /\ p.i \in 1 .. NReaders
      BY <2>2, Kinds
    <3>. QED
      BY <3>1, Numbers DEF createdAt, Last
  <2>. QED
    BY <2>1, <2>2
<1>2. ASSUME NEW j \in 7 .. Last - 1, NEW r \in Runs
      PROVE  /\ Proc(kindAt(j), numAt(j), r) \in Writers \cup Readers
             /\ createdAt(Proc(kindAt(j), numAt(j), r)) = IF j % 2 = 1 THEN j ELSE j - 1
  <2>1. CASE j <= 6 + 2 * NWriters
    <3> DEFINE h == (j - 5) \div 2
    <3>1. h \in 1 .. NWriters /\ (j % 2 = 1 => 5 + 2 * h = j) /\ (j % 2 # 1 => 5 + 2 * h = j - 1)
      BY <2>1, Numbers DEF Last
    <3>2. kindAt(j) = "writer" /\ numAt(j) = h
      BY <2>1 DEF kindAt, numAt
    <3> HIDE DEF h
    <3>3. createdAt(Proc("writer", h, r)) = 5 + 2 * h
      BY Records DEF createdAt
    <3>. QED
      BY <3>1, <3>2, <3>3, Kinds
  <2>2. CASE ~(j <= 6 + 2 * NWriters)
    <3> DEFINE h == (j - 5 - 2 * NWriters) \div 2
    <3>1. h \in 1 .. NReaders /\ (j % 2 = 1 => 5 + 2 * NWriters + 2 * h = j)
          /\ (j % 2 # 1 => 5 + 2 * NWriters + 2 * h = j - 1)
      BY <2>2, Numbers DEF Last
    <3>2. kindAt(j) = "reader" /\ numAt(j) = h
      BY <2>2 DEF kindAt, numAt
    <3> HIDE DEF h
    <3>3. createdAt(Proc("reader", h, r)) = 5 + 2 * NWriters + 2 * h
      BY Records DEF createdAt
    <3>. QED
      BY <3>1, <3>2, <3>3, Kinds
  <2>. QED
    BY <2>1, <2>2
<1>3. ASSUME NEW p \in Writers \cup Readers, NEW q \in Writers \cup Readers,
             p.run = q.run, createdAt(p) = createdAt(q)
      PROVE  p = q
  <2>1. /\ p \in Writers => createdAt(p) = 5 + 2 * p.i /\ p.i \in 1 .. NWriters
        /\ p \in Readers => createdAt(p) = 5 + 2 * NWriters + 2 * p.i /\ p.i \in 1 .. NReaders
        /\ q \in Writers => createdAt(q) = 5 + 2 * q.i /\ q.i \in 1 .. NWriters
        /\ q \in Readers => createdAt(q) = 5 + 2 * NWriters + 2 * q.i /\ q.i \in 1 .. NReaders
    BY Kinds DEF createdAt
  <2>2. p \in Writers <=> q \in Writers
    BY <1>3, <2>1, Numbers
  <2>3. p.i = q.i
    BY <1>3, <2>1, <2>2, Numbers
  <2>. QED
    BY <1>3, <2>2, <2>3, Kinds
<1>. QED
  BY <1>1, <1>2, <1>3

-----------------------------------------------------------------------------
(* What holds in every state of the runs of mvar *)

M == Proc("main", 0, run)
MainOn == run \in Runs /\ status[M] = "READY"
Stage == pc[M]
Crew == {p \in Writers \cup Readers : p.run = run}

Types ==
    /\ session \in Sessions /\ run \in 0 .. Len(session)
    /\ status \in [Procs -> {"FREE", "READY", "BLOCKED", "DEAD"}]
    /\ pc \in [Procs -> Nat] /\ foregroundSet \subseteq Procs
    /\ tableOK(table, heap)
    /\ slotValue \in 0 .. NWriters /\ unread \in BOOLEAN /\ (unread => slotValue > 0)
    /\ ch \in [Readers -> Nat]

\* The worker of a main that goes on, each once it was created; who is in the
\* foreground set.
Roster ==
    /\ \A p \in Procs : Alive(p) => MainOn /\ p.run = run /\ p \notin Adders
    /\ \A p \in Mains : status[p] # "BLOCKED"
    /\ \A p \in Procs : p.run > run => status[p] = "FREE" /\ pc[p] = 1
    /\ \A p \in Adders : status[p] = "FREE"
    /\ ~MainOn => foregroundSet = {}
    /\ MainOn => /\ Stage \in 1 .. Last
                 /\ foregroundSet = {M} \cup {p \in Crew : Stage > createdAt(p) + 1}
                 /\ \A p \in Crew : IF Stage > createdAt(p) THEN Alive(p)
                                    ELSE status[p] = "FREE" /\ pc[p] = 1
    /\ \A p \in Writers : pc[p] \in 1 .. 5
    /\ \A p \in Readers : pc[p] \in 1 .. 6

closed(tb, n) == \A i \in Slots : tb[i].used => tb[i].name # n

\* How many semaphores the run has still to open.
unopened(c) == IF c <= 4 THEN 3 ELSE IF c = 5 THEN 2 ELSE IF c = 6 THEN 1 ELSE 0

\* Which names are open while mvarCommand closes and opens them.
Opened ==
    /\ \A i \in Slots : table[i].used => /\ table[i].refCount = 1
                                         /\ table[i].name \in {"excl", "libre", "lleno"}
    /\ DOMAIN heap \subseteq 1 .. 3 * run - IF MainOn THEN unopened(Stage) ELSE 0
    /\ MainOn => /\ Stage \in 2 .. 4 => closed(table, "excl")
                 /\ Stage \in 3 .. 5 => closed(table, "libre")
                 /\ Stage \in 4 .. 6 => closed(table, "lleno")
                 /\ Stage >= 5 => ~closed(table, "excl")
                 /\ Stage >= 6 => ~closed(table, "libre")
                 /\ Stage >= 7 => ~closed(table, "lleno")

\* Only the dead are queued on a semaphore of an earlier run.
Queued ==
    \A s \in DOMAIN heap : \A p \in Procs : isIn(p, heap[s].blockedQueue) =>
        \/ status[p] = "DEAD"
        \/ MainOn /\ Stage >= 7 /\ (names(table, "libre", s) \/ names(table, "lleno", s))

\* The one worker between its first wait and its last post.
Mid(p) == p \in Crew /\ status[p] = "READY" /\ pc[p] \in 2 .. 5
Locks(p) == Mid(p) /\ pc[p] \in {3, 4}
Waiting(S) == {p \in S : p.run = run /\ status[p] = "BLOCKED"}
NoMid == \A p \in Procs : ~Mid(p)

ExclOK ==
    \A s \in DOMAIN heap : names(table, "excl", s) =>
        keeps(heap[s], {}) /\ heap[s].value = IF \E p \in Procs : Locks(p) THEN 0 ELSE 1

LibreOK ==
    \A s \in DOMAIN heap : names(table, "libre", s) =>
        keeps(heap[s], Waiting(Writers)) /\ (heap[s].value = 1 => NoMid /\ ~unread)

LlenoOK ==
    \A s \in DOMAIN heap : names(table, "lleno", s) =>
        keeps(heap[s], Waiting(Readers)) /\ (heap[s].value = 1 => NoMid /\ unread)

\* The turn is with libre, with a writer, with lleno or with a reader.
Turn ==
    /\ \A p, q \in Procs : Mid(p) /\ Mid(q) => p = q
    /\ \A p \in Writers : Mid(p) => (unread <=> pc[p] \in {4, 5})
    /\ \A p \in Readers : Mid(p) => (unread <=> pc[p] \in {2, 3})
    /\ \A p \in Crew : status[p] = "BLOCKED" => pc[p] = 2

Baton ==
    MainOn => /\ Stage >= 5 => ExclOK
              /\ Stage >= 6 => LibreOK
              /\ Stage >= 7 => LlenoOK
              /\ Stage <= 7 => ~unread
              /\ Turn

\* A reader has a letter between its read and its print.
Carries ==
    \A r \in Readers : ch[r] # 0 => r.run = run /\ status[r] = "READY" /\ pc[r] \in 4 .. 6

MvarInv == Types /\ Roster /\ Opened /\ Queued /\ Baton /\ Carries

-----------------------------------------------------------------------------
(* The steps of mvarCommand and of its workers *)

Mvar == session \in Seq({"mvar"})

LEMMA MvarRuns ==
    ASSUME Mvar, Types, NEW r \in 1 .. Len(session)
    PROVE  session[r] = "mvar" /\ r \in Runs
<1>1. session[r] = "mvar" /\ Len(session) \in Nat
  BY DEF Mvar
<1>2. Len(session) \in 0 .. MaxRuns
  BY SyncAssumption DEF Types
<1>. QED
  BY <1>1, <1>2, Numbers DEF Runs

LEMMA AtYield ==
    Last \in Nat /\ Last >= 11 /\ Last % 2 = 1
  BY Numbers DEF Last

\* What one step of p does, by the operation it is at.
does(p, op) == Semaphores(p, op) \/ SharedMemory(p, op) \/ Processes(p, op)

LEMMA TwoSteps ==
    ASSUME NEW p, NEW k, NEW n, does(p, <<k, n>>)
    PROVE  /\ k = "close" => sharedSemClose(n)
           /\ k = "wait" => sharedSemWait(n, p)
           /\ k = "post" => sharedSemPost(n)
           /\ k \in {"close", "wait", "post"}
                => Advance(p) /\ UNCHANGED <<session, foregroundSet, run, progVars>>
<1> DEFINE op == <<k, n>>
<1>1. op[1] = k /\ op[2] = n
  OBVIOUS
<1> HIDE DEF op
<1>. QED
  BY <1>1 DEF does, Semaphores, SharedMemory, Processes, op

LEMMA ThreeSteps ==
    ASSUME NEW p, NEW k, NEW n, NEW v, does(p, <<k, n, v>>)
    PROVE  /\ k = "open" => /\ sharedSemOpen(n, v)
                            /\ UNCHANGED <<session, foregroundSet, run, progVars>>
           /\ k = "create" => /\ status' = [status EXCEPT ![Proc(n, v, p.run)] = "READY"]
                              /\ UNCHANGED <<foregroundSet, table, heap, session, run, progVars>>
           /\ k = "foreground" => /\ foregroundSet' = foregroundSet \cup {Proc(n, v, p.run)}
                                  /\ UNCHANGED <<status, table, heap, session, run, progVars>>
           /\ k = "waitpid" => /\ status[Proc(n, v, p.run)] = "DEAD"
                               /\ UNCHANGED <<status, foregroundSet, table, heap, session, run, progVars>>
           /\ k \in {"open", "create", "foreground", "waitpid"} => Advance(p)
<1> DEFINE op == <<k, n, v>>
<1>1. op[1] = k /\ op[2] = n /\ op[3] = v
  OBVIOUS
<1> HIDE DEF op
<1>. QED
  BY <1>1 DEF does, Semaphores, SharedMemory, Processes, op

LEMMA OneSteps ==
    ASSUME NEW p, NEW k, does(p, <<k>>)
    PROVE  /\ k # "yield"
           /\ k = "write" => /\ slotValue' = p.i /\ unread' = TRUE
                             /\ UNCHANGED <<ch, global, aux>>
           /\ k = "read" => /\ ch' = [ch EXCEPT ![p] = slotValue] /\ unread' = FALSE
                            /\ UNCHANGED <<slotValue, global, aux>>
           /\ k = "print" => /\ ch' = [ch EXCEPT ![p] = Zero]
                             /\ UNCHANGED <<slotValue, unread, global, aux>>
           /\ k = "load" => /\ aux' = [aux EXCEPT ![p] = global]
                            /\ UNCHANGED <<slotValue, ch, unread, global>>
           /\ k = "store" => /\ global' = aux[p] + (IF p.i % 2 = 1 THEN -1 ELSE 1)
                             /\ aux' = [aux EXCEPT ![p] = 0]
                             /\ UNCHANGED <<slotValue, ch, unread>>
           /\ k \in {"write", "read", "print", "load", "store"}
                => Advance(p) /\ UNCHANGED <<sharedVars, session, foregroundSet, run>>
           /\ k = "exit" => /\ status' = [status EXCEPT ![p] = "DEAD"]
                            /\ foregroundSet' = foregroundSet \ {p} /\ Advance(p)
                            /\ UNCHANGED <<table, heap, session, run, progVars>>
<1> DEFINE op == <<k>>
<1>1. op[1] = k
  OBVIOUS
<1> HIDE DEF op
<1>. QED
  BY <1>1 DEF does, Semaphores, SharedMemory, Processes, op

LEMMA MainSteps ==
    ASSUME Mvar, Types, Roster, MainOn, Step(M)
    PROVE  /\ UNCHANGED <<session, run, progVars>>
           /\ Stage \in 1 .. Last - 1 /\ pc' = [pc EXCEPT ![M] = Stage + 1]
           /\ \/ Stage = 1 /\ sharedSemClose("excl") /\ UNCHANGED foregroundSet
              \/ Stage = 2 /\ sharedSemClose("libre") /\ UNCHANGED foregroundSet
              \/ Stage = 3 /\ sharedSemClose("lleno") /\ UNCHANGED foregroundSet
              \/ Stage = 4 /\ sharedSemOpen("excl", 1) /\ UNCHANGED foregroundSet
              \/ Stage = 5 /\ sharedSemOpen("libre", 1) /\ UNCHANGED foregroundSet
              \/ Stage = 6 /\ sharedSemOpen("lleno", 0) /\ UNCHANGED foregroundSet
              \/ \E q \in Crew : /\ createdAt(q) = Stage
                                 /\ status' = [status EXCEPT ![q] = "READY"]
                                 /\ UNCHANGED <<foregroundSet, table, heap>>
              \/ \E q \in Crew : /\ createdAt(q) + 1 = Stage
                                 /\ foregroundSet' = foregroundSet \cup {q}
                                 /\ UNCHANGED <<status, table, heap>>
<1>1. M \in Mains /\ M.run = run /\ run \in Runs /\ session[run] = "mvar"
  <2>1. run \in 1 .. Len(session)
    <3>1. run \in 0 .. Len(session) /\ run \in 1 .. MaxRuns
      BY DEF MainOn, Types, Runs
    <3>2. Len(session) \in Nat /\ MaxRuns \in Nat
      BY Numbers DEF Mvar
    <3> HIDE DEF MaxRuns
    <3>. QED
      BY <3>1, <3>2
  <2>2. session[run] = "mvar" /\ run \in Runs
    BY <2>1, MvarRuns
  <2>. QED
    BY <2>2, Kinds, Records DEF M
<1>2. Program(M) = mvarCommand /\ Stage \in 1 .. Last /\ Last \in Nat
  <2>1. Program(M) = mvarCommand
    BY <1>1, Programs
  <2>2. Stage \in 1 .. Last
    BY DEF Roster
  <2>. QED
    BY <2>1, <2>2, AtYield
<1>3. does(M, mvarCommand[Stage])
  BY <1>2 DEF Step, Stage, does
<1>4. Stage # Last
  <2>1. ~does(M, <<"yield">>)
    BY OneSteps
  <2>2. mvarCommand[Last] = <<"yield">>
    BY MvarSteps
  <2>. QED
    BY <1>3, <2>1, <2>2
<1>5. Advance(M) => pc' = [pc EXCEPT ![M] = Stage + 1]
  <2>1. Stage < Len(Program(M))
    BY <1>2, <1>4, MvarSteps
  <2>. QED
    BY <2>1 DEF Advance, Stage
<1>6. CASE Stage \in 7 .. Last - 1
  <2> DEFINE q == Proc(kindAt(Stage), numAt(Stage), run)
  <2>1. q \in Crew /\ createdAt(q) = IF Stage % 2 = 1 THEN Stage ELSE Stage - 1
    <3>1. q \in Writers \cup Readers /\ createdAt(q) = IF Stage % 2 = 1 THEN Stage ELSE Stage - 1
      BY <1>1, <1>6, CreatedAt
    <3>2. q.run = run
      BY Records
    <3>. QED
      BY <3>1, <3>2 DEF Crew
  <2>2. mvarCommand[Stage] = <<IF Stage % 2 = 1 THEN "create" ELSE "foreground", kindAt(Stage), numAt(Stage)>>
    BY <1>6, MvarSteps
  <2>3. CASE Stage % 2 = 1
    <3>1. does(M, <<"create", kindAt(Stage), numAt(Stage)>>)
      BY <1>3, <2>2, <2>3
    <3>2. /\ status' = [status EXCEPT ![q] = "READY"] /\ Advance(M)
          /\ UNCHANGED <<foregroundSet, table, heap, session, run, progVars>>
      BY <1>1, <3>1, ThreeSteps
    <3>3. q \in Crew /\ createdAt(q) = Stage
      BY <2>1, <2>3
    <3> HIDE DEF q
    <3>4. \E r \in Crew : /\ createdAt(r) = Stage
                          /\ status' = [status EXCEPT ![r] = "READY"]
                          /\ UNCHANGED <<foregroundSet, table, heap>>
      BY <3>2, <3>3
    <3>5. /\ UNCHANGED <<session, run, progVars>>
          /\ Stage \in 1 .. Last - 1 /\ pc' = [pc EXCEPT ![M] = Stage + 1]
      BY <1>5, <1>6, <3>2, AtYield
    <3>. QED
      BY <3>4, <3>5
  <2>4. CASE Stage % 2 # 1
    <3>1. does(M, <<"foreground", kindAt(Stage), numAt(Stage)>>)
      BY <1>3, <2>2, <2>4
    <3>2. /\ foregroundSet' = foregroundSet \cup {q} /\ Advance(M)
          /\ UNCHANGED <<status, table, heap, session, run, progVars>>
      BY <1>1, <3>1, ThreeSteps
    <3>3. createdAt(q) + 1 = Stage
      BY <1>6, <2>1, <2>4
    <3> HIDE DEF q
    <3>. QED
      BY <1>5, <1>6, <2>1, <3>2, <3>3
  <2>. QED
    BY <2>3, <2>4
<1>7. CASE Stage = 1
  <2>1. does(M, <<"close", "excl">>)
    BY <1>3, <1>7, MvarSteps
  <2>. QED
    BY <1>5, <1>7, <2>1, TwoSteps, AtYield
<1>8. CASE Stage = 2
  <2>1. does(M, <<"close", "libre">>)
    BY <1>3, <1>8, MvarSteps
  <2>. QED
    BY <1>5, <1>8, <2>1, TwoSteps, AtYield
<1>9. CASE Stage = 3
  <2>1. does(M, <<"close", "lleno">>)
    BY <1>3, <1>9, MvarSteps
  <2>. QED
    BY <1>5, <1>9, <2>1, TwoSteps, AtYield
<1>10. CASE Stage = 4
  <2>1. does(M, <<"open", "excl", 1>>)
    BY <1>3, <1>10, MvarSteps
  <2>. QED
    BY <1>5, <1>10, <2>1, ThreeSteps, AtYield
<1>11. CASE Stage = 5
  <2>1. does(M, <<"open", "libre", 1>>)
    BY <1>3, <1>11, MvarSteps
  <2>. QED
    BY <1>5, <1>11, <2>1, ThreeSteps, AtYield
<1>12. CASE Stage = 6
  <2>1. does(M, <<"open", "lleno", 0>>)
    BY <1>3, <1>12, MvarSteps
  <2>. QED
    BY <1>5, <1>12, <2>1, ThreeSteps, AtYield
<1>13. Stage \in 1 .. 6 \/ Stage \in 7 .. Last - 1
  BY <1>2, <1>4, AtYield
<1>. QED
  BY <1>6, <1>7, <1>8, <1>9, <1>10, <1>11, <1>12, <1>13

LEMMA WriterSteps ==
    ASSUME NEW p \in Writers, Types, pc[p] \in 1 .. 5, Step(p)
    PROVE  /\ UNCHANGED <<session, run, foregroundSet, global, aux, ch>>
           /\ pc' = [pc EXCEPT ![p] = IF pc[p] = 5 THEN 1 ELSE pc[p] + 1]
           /\ \/ pc[p] = 1 /\ sharedSemWait("libre", p) /\ UNCHANGED <<slotValue, unread>>
              \/ pc[p] = 2 /\ sharedSemWait("excl", p) /\ UNCHANGED <<slotValue, unread>>
              \/ pc[p] = 3 /\ slotValue' = p.i /\ unread' = TRUE /\ UNCHANGED sharedVars
              \/ pc[p] = 4 /\ sharedSemPost("excl") /\ UNCHANGED <<slotValue, unread>>
              \/ pc[p] = 5 /\ sharedSemPost("lleno") /\ UNCHANGED <<slotValue, unread>>
<1>1. Program(p) = producerEntry /\ p \notin Mains
  BY Programs, Kinds
<1>2. /\ Len(producerEntry) = 5
      /\ producerEntry[1] = <<"wait", "libre">> /\ producerEntry[2] = <<"wait", "excl">>
      /\ producerEntry[3] = <<"write">> /\ producerEntry[4] = <<"post", "excl">>
      /\ producerEntry[5] = <<"post", "lleno">>
  BY DEF producerEntry
<1>3. does(p, producerEntry[pc[p]])
  BY <1>1 DEF Step, does
<1>4. Advance(p) => pc' = [pc EXCEPT ![p] = IF pc[p] = 5 THEN 1 ELSE pc[p] + 1]
  <2>1. pc[p] < 5 <=> pc[p] # 5
    OBVIOUS
  <2>. QED
    BY <1>1, <1>2, <2>1 DEF Advance
<1>5. CASE pc[p] = 1
  <2>1. does(p, <<"wait", "libre">>)
    BY <1>2, <1>3, <1>5
  <2>. QED
    BY <1>4, <1>5, <2>1, TwoSteps DEF progVars
<1>6. CASE pc[p] = 2
  <2>1. does(p, <<"wait", "excl">>)
    BY <1>2, <1>3, <1>6
  <2>. QED
    BY <1>4, <1>6, <2>1, TwoSteps DEF progVars
<1>7. CASE pc[p] = 3
  <2>1. does(p, <<"write">>)
    BY <1>2, <1>3, <1>7
  <2>. QED
    BY <1>4, <1>7, <2>1, OneSteps
<1>8. CASE pc[p] = 4
  <2>1. does(p, <<"post", "excl">>)
    BY <1>2, <1>3, <1>8
  <2>. QED
    BY <1>4, <1>8, <2>1, TwoSteps DEF progVars
<1>9. CASE pc[p] = 5
  <2>1. does(p, <<"post", "lleno">>)
    BY <1>2, <1>3, <1>9
  <2>. QED
    BY <1>4, <1>9, <2>1, TwoSteps DEF progVars
<1>10. pc[p] = 1 \/ pc[p] = 2 \/ pc[p] = 3 \/ pc[p] = 4 \/ pc[p] = 5
  OBVIOUS
<1>. QED
  BY <1>5, <1>6, <1>7, <1>8, <1>9, <1>10, Zenon

LEMMA ReaderSteps ==
    ASSUME NEW p \in Readers, Types, pc[p] \in 1 .. 6, Step(p)
    PROVE  /\ UNCHANGED <<session, run, foregroundSet, global, aux, slotValue>>
           /\ pc' = [pc EXCEPT ![p] = IF pc[p] = 6 THEN 1 ELSE pc[p] + 1]
           /\ \/ pc[p] = 1 /\ sharedSemWait("lleno", p) /\ UNCHANGED <<ch, unread>>
              \/ pc[p] = 2 /\ sharedSemWait("excl", p) /\ UNCHANGED <<ch, unread>>
              \/ /\ pc[p] = 3 /\ ch' = [ch EXCEPT ![p] = slotValue] /\ unread' = FALSE
                 /\ UNCHANGED sharedVars
              \/ pc[p] = 4 /\ sharedSemPost("excl") /\ UNCHANGED <<ch, unread>>
              \/ pc[p] = 5 /\ sharedSemPost("libre") /\ UNCHANGED <<ch, unread>>
              \/ /\ pc[p] = 6 /\ ch' = [ch EXCEPT ![p] = Zero] /\ unread' = unread
                 /\ UNCHANGED sharedVars
<1>1. Program(p) = consumerEntry /\ p \notin Mains
  BY Programs, Kinds
<1>2. /\ Len(consumerEntry) = 6
      /\ consumerEntry[1] = <<"wait", "lleno">> /\ consumerEntry[2] = <<"wait", "excl">>
      /\ consumerEntry[3] = <<"read">> /\ consumerEntry[4] = <<"post", "excl">>
      /\ consumerEntry[5] = <<"post", "libre">> /\ consumerEntry[6] = <<"print">>
  BY DEF consumerEntry
<1>3. does(p, consumerEntry[pc[p]])
  BY <1>1 DEF Step, does
<1>4. Advance(p) => pc' = [pc EXCEPT ![p] = IF pc[p] = 6 THEN 1 ELSE pc[p] + 1]
  <2>1. pc[p] < 6 <=> pc[p] # 6
    OBVIOUS
  <2>. QED
    BY <1>1, <1>2, <2>1 DEF Advance
<1>5. CASE pc[p] = 1
  <2>1. does(p, <<"wait", "lleno">>)
    BY <1>2, <1>3, <1>5
  <2>. QED
    BY <1>4, <1>5, <2>1, TwoSteps DEF progVars
<1>6. CASE pc[p] = 2
  <2>1. does(p, <<"wait", "excl">>)
    BY <1>2, <1>3, <1>6
  <2>. QED
    BY <1>4, <1>6, <2>1, TwoSteps DEF progVars
<1>7. CASE pc[p] = 3
  <2>1. does(p, <<"read">>)
    BY <1>2, <1>3, <1>7
  <2>. QED
    BY <1>4, <1>7, <2>1, OneSteps
<1>8. CASE pc[p] = 4
  <2>1. does(p, <<"post", "excl">>)
    BY <1>2, <1>3, <1>8
  <2>. QED
    BY <1>4, <1>8, <2>1, TwoSteps DEF progVars
<1>9. CASE pc[p] = 5
  <2>1. does(p, <<"post", "libre">>)
    BY <1>2, <1>3, <1>9
  <2>. QED
    BY <1>4, <1>9, <2>1, TwoSteps DEF progVars
<1>10. CASE pc[p] = 6
  <2>1. does(p, <<"print">>)
    BY <1>2, <1>3, <1>10
  <2>. QED
    BY <1>4, <1>10, <2>1, OneSteps
<1>11. pc[p] = 1 \/ pc[p] = 2 \/ pc[p] = 3 \/ pc[p] = 4 \/ pc[p] = 5 \/ pc[p] = 6
  OBVIOUS
<1>. QED
  BY <1>5, <1>6, <1>7, <1>8, <1>9, <1>10, <1>11, Zenon

-----------------------------------------------------------------------------
(* The steps of mvarCommand keep the invariant *)

LEMMA MainFacts ==
    ASSUME Mvar, Types, Roster, MainOn
    PROVE  /\ M \in Mains /\ M.run = run /\ run \in Runs /\ run \in Nat /\ M \in Procs
           /\ M \notin Crew /\ Crew \subseteq Procs /\ Stage \in 1 .. Last
           /\ \A p \in Mains : p.run = run => p = M
<1>1. run \in Runs /\ run \in Nat
  BY Numbers DEF MainOn, Runs
<1>2. M \in Mains /\ M.run = run
  BY <1>1, Kinds, Records DEF M
<1>. QED
  BY <1>1, <1>2, Kinds, Numbers DEF M, Crew, Roster

LEMMA NobodyYet ==
    ASSUME Mvar, Types, Roster, MainOn, Stage <= 7
    PROVE  /\ \A p \in Crew : status[p] = "FREE" /\ pc[p] = 1 /\ createdAt(p) >= Stage
           /\ NoMid /\ Waiting(Writers) = {} /\ Waiting(Readers) = {}
<1>1. \A p \in Crew : createdAt(p) \in Nat /\ createdAt(p) >= 7 /\ Stage \in Nat
  BY CreatedAt, MainFacts, AtYield DEF Crew
<1>2. \A p \in Crew : ~(Stage > createdAt(p)) /\ createdAt(p) >= Stage
  BY <1>1
<1>3. \A p \in Crew : status[p] = "FREE" /\ pc[p] = 1
  BY <1>2 DEF Roster
<1>. QED
  BY <1>2, <1>3 DEF NoMid, Mid, Waiting, Crew

LEMMA MainKeepsRoster ==
    ASSUME Mvar, Types, Roster, MainOn, Step(M)
    PROVE  /\ Roster' /\ MainOn' /\ Stage' = Stage + 1 /\ M' = M /\ Crew' = Crew
           /\ status' \in [Procs -> {"FREE", "READY", "BLOCKED", "DEAD"}]
           /\ pc' \in [Procs -> Nat] /\ foregroundSet' \subseteq Procs
           /\ \A p \in Procs : p # M => pc'[p] = pc[p]
           /\ \A p \in Procs : status'[p] = status[p]
                 \/ (p \in Crew /\ status[p] = "FREE" /\ status'[p] = "READY" /\ pc[p] = 1)
<1>1. /\ M \in Mains /\ M.run = run /\ run \in Runs /\ run \in Nat /\ M \in Procs
      /\ M \notin Crew /\ Crew \subseteq Procs /\ Stage \in 1 .. Last
      /\ \A p \in Mains : p.run = run => p = M
  BY MainFacts
<1>2. /\ run' = run /\ session' = session
      /\ Stage \in 1 .. Last - 1 /\ pc' = [pc EXCEPT ![M] = Stage + 1]
  BY MainSteps
<1>3. M' = M /\ Crew' = Crew
  BY <1>2 DEF M, Crew
<1>4. Stage' = Stage + 1 /\ pc' \in [Procs -> Nat] /\ \A p \in Procs : p # M => pc'[p] = pc[p]
  BY <1>1, <1>2, <1>3, AtYield DEF Stage, Types
<1>5. \A p \in Crew : createdAt(p) \in Nat /\ createdAt(p) >= 7 /\ createdAt(p) % 2 = 1
  BY CreatedAt, AtYield DEF Crew
<1>6. \A p, q \in Crew : createdAt(p) = createdAt(q) => p = q
  BY CreatedAt DEF Crew
<1>7. /\ status' \in [Procs -> {"FREE", "READY", "BLOCKED", "DEAD"}] /\ status'[M] = "READY"
      /\ \A p \in Procs : status'[p] = status[p]
            \/ (p \in Crew /\ status[p] = "FREE" /\ status'[p] = "READY" /\ pc[p] = 1)
      /\ \A p \in Crew : IF Stage + 1 > createdAt(p) THEN status'[p] \in {"READY", "BLOCKED"}
                         ELSE status'[p] = "FREE" /\ pc[p] = 1
      /\ foregroundSet' = {M} \cup {p \in Crew : Stage + 1 > createdAt(p) + 1}
  <2>1. /\ foregroundSet = {M} \cup {p \in Crew : Stage > createdAt(p) + 1}
        /\ \A p \in Crew : IF Stage > createdAt(p) THEN status[p] \in {"READY", "BLOCKED"}
                           ELSE status[p] = "FREE" /\ pc[p] = 1
        /\ status \in [Procs -> {"FREE", "READY", "BLOCKED", "DEAD"}] /\ status[M] = "READY"
    BY DEF Roster, Types, Alive, MainOn
  <2>2. CASE Stage \in 1 .. 6 /\ status' = status /\ foregroundSet' = foregroundSet
    <3>1. \A p \in Crew : ~(Stage > createdAt(p)) /\ ~(Stage + 1 > createdAt(p))
                            /\ ~(Stage > createdAt(p) + 1) /\ ~(Stage + 1 > createdAt(p) + 1)
      BY <1>5, <2>2
    <3>. QED
      BY <2>1, <2>2, <3>1
  <2>3. ASSUME NEW q \in Crew, createdAt(q) = Stage, status' = [status EXCEPT ![q] = "READY"],
               UNCHANGED foregroundSet
        PROVE  <1>7
    <3>1. Stage % 2 = 1
      BY <1>5, <2>3
    <3>2. \A p \in Crew : createdAt(p) + 1 # Stage
      BY <1>5, <3>1
    <3>3. \A p \in Crew : p # q => createdAt(p) # Stage
      BY <1>6, <2>3
    <3>4. \A p \in Crew : /\ (Stage + 1 > createdAt(p) <=> Stage > createdAt(p) \/ p = q)
                          /\ (Stage + 1 > createdAt(p) + 1 <=> Stage > createdAt(p) + 1)
      BY <1>1, <1>5, <2>3, <3>2, <3>3, AtYield
    <3>5. status[q] = "FREE" /\ pc[q] = 1 /\ q # M /\ q \in Procs
      BY <1>1, <1>5, <2>1, <2>3
    <3>6. \A p \in Procs : status'[p] = IF p = q THEN "READY" ELSE status[p]
      BY <2>1, <2>3
    <3>7. status' \in [Procs -> {"FREE", "READY", "BLOCKED", "DEAD"}]
      BY <2>1, <2>3
    <3>. QED
      BY <1>1, <2>1, <2>3, <3>4, <3>5, <3>6, <3>7
  <2>4. ASSUME NEW q \in Crew, createdAt(q) + 1 = Stage, foregroundSet' = foregroundSet \cup {q},
               status' = status
        PROVE  <1>7
    <3>1. \A p \in Crew : createdAt(p) + 1 = Stage => p = q
      BY <1>5, <1>6, <2>4
    <3>2. \A p \in Crew : createdAt(p) # Stage
      <4>1. Stage % 2 # 1
        BY <1>5, <2>4
      <4>. QED
        BY <1>5, <4>1
    <3>3. \A p \in Crew : /\ (Stage + 1 > createdAt(p) <=> Stage > createdAt(p))
                          /\ (Stage + 1 > createdAt(p) + 1 <=> Stage > createdAt(p) + 1 \/ p = q)
      BY <1>1, <1>5, <2>4, <3>1, <3>2, AtYield
    <3>. QED
      BY <2>1, <2>4, <3>3
  <2>5. \/ Stage \in 1 .. 6 /\ status' = status /\ foregroundSet' = foregroundSet
        \/ \E q \in Crew : /\ createdAt(q) = Stage
                           /\ status' = [status EXCEPT ![q] = "READY"]
                           /\ UNCHANGED <<foregroundSet, table, heap>>
        \/ \E q \in Crew : /\ createdAt(q) + 1 = Stage
                           /\ foregroundSet' = foregroundSet \cup {q}
                           /\ UNCHANGED <<status, table, heap>>
    BY MainSteps DEF sharedSemClose, sharedSemOpen
  <2>. QED
    BY <2>2, <2>3, <2>4, <2>5
<1>8. MainOn'
  BY <1>1, <1>2, <1>3, <1>7 DEF MainOn
<1>9. \A p \in Procs : Alive(p)' => p.run = run /\ p \notin Adders
  BY <1>7, Kinds DEF Alive, Crew, Roster
<1>10. Roster'
  <2>1. \A p \in Mains : status'[p] # "BLOCKED"
    BY <1>7, Kinds, Numbers DEF Roster
  <2>2. \A p \in Procs : p.run > run => status'[p] = "FREE" /\ pc'[p] = 1
    <3>1. \A p \in Procs : p.run > run => p # M /\ p \notin Crew
      BY <1>1 DEF Crew
    <3>. QED
      BY <1>4, <1>7, <3>1 DEF Roster
  <2>3. \A p \in Adders : status'[p] = "FREE"
    BY <1>7, Kinds, Numbers DEF Roster, Crew
  <2>4. (\A p \in Writers : pc'[p] \in 1 .. 5) /\ (\A p \in Readers : pc'[p] \in 1 .. 6)
    BY <1>1, <1>4, Kinds, Numbers DEF Roster
  <2>5. \A p \in Crew : pc'[p] = pc[p]
    BY <1>1, <1>4
  <2>6. Stage' \in 1 .. Last
    BY <1>2, <1>4, AtYield
  <2>. QED
    BY <1>2, <1>3, <1>4, <1>7, <1>8, <1>9, <2>1, <2>2, <2>3, <2>4, <2>5, <2>6 DEF Roster, Alive
<1>. QED
  BY <1>3, <1>4, <1>7, <1>8, <1>10, <1>1

\* A name is closed, or its row leads to a semaphore on the heap.
LEMMA OpenOrClosed ==
    ASSUME NEW tb, NEW hp, tableOK(tb, hp), NEW n
    PROVE  /\ closed(tb, n) <=> \A s : ~names(tb, n, s)
           /\ ~closed(tb, n) => \E s \in DOMAIN hp : names(tb, n, s)
           /\ ~closed(tb, n) => \E i \in Slots : tb[i].used /\ row(tb, i, n, tb[i].sem)
  BY DEF closed, names, row, tableOK

\* A close takes the name out of the table; what it leaves on the heap is as
\* before.
LEMMA MainCloses ==
    ASSUME Types, Opened, NEW n \in Names, sharedSemClose(n)
    PROVE  /\ tableOK(table', heap') /\ closed(table', n)
           /\ \A m, s : names(table', m, s) => names(table, m, s)
           /\ \A m : m # n => (closed(table', m) <=> closed(table, m))
           /\ \A i \in Slots : table'[i].used => table'[i] = table[i] /\ table[i].used
           /\ DOMAIN heap' \subseteq DOMAIN heap /\ \A s \in DOMAIN heap' : heap'[s] = heap[s]
<1>1. tableOK(table, heap)
  BY DEF Types
<1>2. CASE closed(table, n)
  <2>1. UNCHANGED <<table, heap, status>>
    BY <1>1, <1>2, OpenOrClosed, CloseNone
  <2>. QED
    BY <1>1, <1>2, <2>1
<1>3. CASE ~closed(table, n)
  <2>1. PICK i \in Slots : table[i].used /\ row(table, i, n, table[i].sem)
    BY <1>1, <1>3, OpenOrClosed
  <2> DEFINE s == table[i].sem
  <2>2. table[i].refCount <= 1
    BY <2>1 DEF Opened
  <2>3. /\ table' = [table EXCEPT ![i] = Unused]
        /\ heap' = IF heap[s].blockedQueue = <<>>
                   THEN [d \in DOMAIN heap \ {s} |-> heap[d]] ELSE heap
    BY <1>1, <2>1, <2>2, CloseLast
  <2>4. row(table, i, n, s)
    BY <2>1
  <2> HIDE DEF s
  <2>5. /\ tableOK(table', heap')
        /\ \A m, t : names(table', m, t) <=> names(table, m, t) /\ m # n
        /\ \A j \in Slots : table'[j].used => table'[j] = table[j] /\ table[j].used /\ j # i
        /\ DOMAIN heap' = IF heap[s].blockedQueue = <<>> THEN DOMAIN heap \ {s} ELSE DOMAIN heap
        /\ \A d \in DOMAIN heap' : heap'[d] = heap[d]
    BY <1>1, <2>3, <2>4, RowDropped
  <2>6. /\ \A m : closed(table, m) <=> \A t : ~names(table, m, t)
        /\ \A m : closed(table', m) <=> \A t : ~names(table', m, t)
    BY <1>1, <2>5, OpenOrClosed
  <2>. QED
    BY <2>5, <2>6
<1>. QED
  BY <1>2, <1>3

\* There is room for a name that is not open.
LEMMA MainOpens ==
    ASSUME OneAtATime, Types, Opened, run \in Runs, NEW n \in {"excl", "libre", "lleno"}, closed(table, n),
           NEW v \in {0, 1}, sharedSemOpen(n, v),
           NEW k \in 0 .. 3 * run - 1, DOMAIN heap \subseteq 1 .. k
    PROVE  /\ tableOK(table', heap') /\ status' = status
           /\ DOMAIN heap \subseteq DOMAIN heap' /\ DOMAIN heap' \subseteq 1 .. k + 1
           /\ \A s \in DOMAIN heap : heap'[s] = heap[s]
           /\ \A s \in DOMAIN heap' \ DOMAIN heap : heap'[s] = newSemaphore(v)
           /\ \A m : m # n => \A s : names(table', m, s) <=> names(table, m, s)
           /\ \A s : names(table', n, s) => s \in DOMAIN heap' \ DOMAIN heap
           /\ ~closed(table', n)
           /\ \A m : m # n => (closed(table', m) <=> closed(table, m))
           /\ \A i \in Slots : table'[i].used =>
                 table'[i] = table[i] \/ (table'[i].name = n /\ table'[i].refCount = 1)
<1>1. tableOK(table, heap)
  BY DEF Types
<1>2. \A s : ~names(table, n, s)
  BY <1>1, OpenOrClosed
<1>3. FreeSlots # {}
  <2>1. 1 \in Slots /\ 2 \in Slots /\ 3 \in Slots
    BY Sizes DEF OneAtATime, Slots
  <2>2. SUFFICES ASSUME table[1].used, table[2].used, table[3].used PROVE FALSE
    BY <2>1 DEF FreeSlots
  <2>3. \A i \in {1, 2, 3} : table[i].name \in {"excl", "libre", "lleno"} \ {n}
    BY <2>1, <2>2 DEF Opened, closed
  <2>4. /\ table[1].name # table[2].name /\ table[1].name # table[3].name
        /\ table[2].name # table[3].name
    BY <1>1, <2>1, <2>2 DEF tableOK
  <2>. QED
    BY <2>3, <2>4
<1>4. k + 1 \in FreeIds
  <2>1. run \in 1 .. MaxRuns /\ MaxRuns \in Nat /\ MaxSems >= 3 * MaxRuns /\ MaxSems \in Nat
    BY Numbers, Sizes DEF Runs, OneAtATime
  <2> HIDE DEF MaxRuns
  <2>2. k + 1 <= 3 * run
    BY <2>1
  <2>3. k + 1 \in 1 .. MaxSems
    BY <2>1, <2>2
  <2>4. k + 1 \notin 1 .. k
    BY <2>1
  <2>5. k + 1 \notin DOMAIN heap
    BY <2>4
  <2>. QED
    BY <2>3, <2>5 DEF Ids, FreeIds
<1>5. PICK i \in Slots, s \in Ids :
              /\ ~table[i].used /\ s \notin DOMAIN heap /\ \A h \in FreeIds : s <= h
              /\ heap' = [d \in DOMAIN heap \cup {s} |-> IF d = s THEN newSemaphore(v) ELSE heap[d]]
              /\ table' = [table EXCEPT ![i] = [used |-> TRUE, name |-> n, sem |-> s, refCount |-> 1]]
              /\ status' = status
  <2>1. FreeIds # {}
    BY <1>4
  <2>. QED
    BY <1>1, <1>2, <1>3, <2>1, OpenNew
<1>6. newSemaphore(v) \in Sems /\ n \in Names
  <2>1. keeps(newSemaphore(v), {})
    BY NewKeeps
  <2>. QED
    BY <2>1 DEF keeps, Names
<1>7. /\ heap' \in [DOMAIN heap \cup {s} -> Sems] /\ heap'[s] = newSemaphore(v)
       /\ \A d \in DOMAIN heap : heap'[d] = heap[d]
  BY <1>1, <1>5, <1>6 DEF tableOK
<1>8. /\ tableOK(table', heap') /\ names(table', n, s)
      /\ \A m, t : names(table', m, t) <=> names(table, m, t) \/ (m = n /\ t = s)
      /\ table'[i].used /\ table'[i].refCount = 1
      /\ \A j \in Slots \ {i} : table'[j] = table[j]
      /\ DOMAIN heap' = DOMAIN heap \cup {s}
  BY <1>1, <1>2, <1>5, <1>6, <1>7, RowAdded
<1>9. table'[i].name = n
  BY <1>1, <1>5 DEF tableOK
<1>10. s \in 1 .. k + 1
  BY <1>4, <1>5, Sizes DEF Ids
<1>11. /\ \A m : closed(table, m) <=> \A t : ~names(table, m, t)
       /\ \A m : closed(table', m) <=> \A t : ~names(table', m, t)
  BY <1>1, <1>8, OpenOrClosed
<1>12. /\ DOMAIN heap \subseteq DOMAIN heap' /\ DOMAIN heap' \subseteq 1 .. k + 1
       /\ \A d \in DOMAIN heap' \ DOMAIN heap : heap'[d] = newSemaphore(v)
  <2>1. 1 .. k \subseteq 1 .. k + 1
    BY Numbers DEF Runs
  <2>. QED
    BY <1>7, <1>8, <1>10, <2>1
<1>13. /\ \A m : m # n => \A d : names(table', m, d) <=> names(table, m, d)
       /\ \A d : names(table', n, d) => d \in DOMAIN heap' \ DOMAIN heap
       /\ ~closed(table', n)
       /\ \A m : m # n => (closed(table', m) <=> closed(table, m))
  BY <1>2, <1>5, <1>8, <1>11
<1>14. \A j \in Slots : table'[j].used =>
                 table'[j] = table[j] \/ (table'[j].name = n /\ table'[j].refCount = 1)
  BY <1>8, <1>9
<1>. QED
  BY <1>5, <1>7, <1>8, <1>12, <1>13, <1>14

\* Nobody but the dead is queued while no worker is there.
LEMMA DeadQueues ==
    ASSUME Mvar, Types, Roster, Queued, MainOn, Stage <= 6
    PROVE  \A s \in DOMAIN heap : \A p \in Procs : isIn(p, heap[s].blockedQueue) => status[p] = "DEAD"
<1>1. ~(Stage >= 7)
  BY MainFacts, AtYield
<1>. QED
  BY <1>1 DEF Queued

\* While no worker is there nobody has the turn.
LEMMA NobodysTurn ==
    ASSUME Mvar, Types, Roster, MainOn, Stage <= 6, Step(M)
    PROVE  /\ NoMid' /\ Waiting(Writers)' = {} /\ Waiting(Readers)' = {} /\ Turn'
           /\ ~(\E p \in Procs : Locks(p))'
<1>1. /\ status' = status /\ run' = run
  BY MainSteps, MainFacts, CreatedAt, AtYield DEF sharedSemOpen, sharedSemClose, Crew
<1>2. \A p \in Crew : status[p] = "FREE"
  BY NobodyYet, MainFacts, AtYield
<1>3. Crew' = Crew
  BY MainKeepsRoster
<1>4. NoMid' /\ Waiting(Writers)' = {} /\ Waiting(Readers)' = {}
  BY <1>1, <1>2, <1>3 DEF NoMid, Mid, Waiting, Crew
<1>5. \A p \in Procs : ~Mid(p)'
  BY <1>4 DEF NoMid
<1>6. \A p \in Crew' : status'[p] # "BLOCKED"
  BY <1>1, <1>2, <1>3
<1>. QED
  BY <1>4, <1>5, <1>6, Numbers, Kinds DEF Turn, Locks

LEMMA ClosesKeep ==
    ASSUME Mvar, MvarInv, MainOn, Step(M), Stage \in 1 .. 3
    PROVE  tableOK(table', heap') /\ Opened' /\ Queued' /\ Baton'
<1>1. Types /\ Roster /\ Opened /\ Queued /\ Baton
  BY DEF MvarInv
<1>2. MainOn' /\ Stage' = Stage + 1 /\ Stage' \in 2 .. 4 /\ run' = run /\ unread' = unread
  BY <1>1, MainKeepsRoster, MainSteps DEF progVars
<1>3. PICK n \in {"excl", "libre", "lleno"} :
          /\ sharedSemClose(n)
          /\ n = IF Stage = 1 THEN "excl" ELSE IF Stage = 2 THEN "libre" ELSE "lleno"
  <2>1. \A q \in Crew : createdAt(q) # Stage /\ createdAt(q) + 1 # Stage
    BY CreatedAt, AtYield DEF Crew
  <2>. QED
    BY <1>1, <2>1, MainSteps
<1>4. status' = status /\ n \in Names
  BY <1>3 DEF sharedSemClose, Names
<1>5. /\ tableOK(table', heap') /\ closed(table', n)
      /\ \A m, s : names(table', m, s) => names(table, m, s)
      /\ \A m : m # n => (closed(table', m) <=> closed(table, m))
      /\ \A i \in Slots : table'[i].used => table'[i] = table[i] /\ table[i].used
      /\ DOMAIN heap' \subseteq DOMAIN heap /\ \A s \in DOMAIN heap' : heap'[s] = heap[s]
  BY <1>1, <1>3, <1>4, MainCloses
<1>6. Opened'
  <2>1. unopened(Stage) = 3 /\ unopened(Stage') = 3
    BY <1>2 DEF unopened
  <2>2. DOMAIN heap' \subseteq 1 .. 3 * run' - IF MainOn' THEN unopened(Stage') ELSE 0
    BY <1>1, <1>2, <1>5, <2>1 DEF Opened
  <2>3. \A i \in Slots : table'[i].used => /\ table'[i].refCount = 1
                                           /\ table'[i].name \in {"excl", "libre", "lleno"}
    BY <1>1, <1>5 DEF Opened
  <2>4. /\ closed(table', "excl") /\ (Stage' \in 3 .. 4 => closed(table', "libre"))
        /\ (Stage' = 4 => closed(table', "lleno"))
    BY <1>1, <1>2, <1>3, <1>5 DEF Opened
  <2>. QED
    BY <1>2, <2>2, <2>3, <2>4 DEF Opened
<1>7. Queued'
  <2>1. \A s \in DOMAIN heap' : \A p \in Procs : isIn(p, heap'[s].blockedQueue) => status'[p] = "DEAD"
    BY <1>1, <1>4, <1>5, DeadQueues
  <2>. QED
    BY <2>1 DEF Queued
<1>8. Baton'
  <2>1. Turn'
    BY <1>1, NobodysTurn
  <2>2. ~unread'
    BY <1>1, <1>2 DEF Baton
  <2>. QED
    BY <1>2, <2>1, <2>2 DEF Baton
<1>. QED
  BY <1>5, <1>6, <1>7, <1>8

LEMMA OpensKeep ==
    ASSUME OneAtATime, Mvar, MvarInv, MainOn, Step(M), Stage \in 4 .. 6
    PROVE  tableOK(table', heap') /\ Opened' /\ Queued' /\ Baton'
<1>1. Types /\ Roster /\ Opened /\ Queued /\ Baton
  BY DEF MvarInv
<1>2. MainOn' /\ Stage' = Stage + 1 /\ Stage' \in 5 .. 7 /\ run' = run /\ unread' = unread
  BY <1>1, MainKeepsRoster, MainSteps DEF progVars
<1>3. PICK n \in {"excl", "libre", "lleno"}, v \in {0, 1} :
          /\ sharedSemOpen(n, v)
          /\ n = IF Stage = 4 THEN "excl" ELSE IF Stage = 5 THEN "libre" ELSE "lleno"
          /\ v = IF Stage = 6 THEN 0 ELSE 1
  <2>1. \A q \in Crew : createdAt(q) # Stage /\ createdAt(q) + 1 # Stage
    BY CreatedAt, AtYield DEF Crew
  <2>. QED
    BY <1>1, <2>1, MainSteps
<1> DEFINE k == 3 * run - unopened(Stage)
<1>4. /\ run \in Runs /\ k \in 0 .. 3 * run - 1 /\ DOMAIN heap \subseteq 1 .. k
      /\ k + 1 = 3 * run - unopened(Stage')
  BY <1>1, <1>2, MainFacts, Numbers DEF Opened, unopened, Runs
<1>5. closed(table, n)
  BY <1>1, <1>3 DEF Opened
<1> HIDE DEF k
<1>6. /\ tableOK(table', heap') /\ status' = status
      /\ DOMAIN heap \subseteq DOMAIN heap' /\ DOMAIN heap' \subseteq 1 .. k + 1
      /\ \A s \in DOMAIN heap : heap'[s] = heap[s]
      /\ \A s \in DOMAIN heap' \ DOMAIN heap : heap'[s] = newSemaphore(v)
      /\ \A m : m # n => \A s : names(table', m, s) <=> names(table, m, s)
      /\ \A s : names(table', n, s) => s \in DOMAIN heap' \ DOMAIN heap
      /\ ~closed(table', n)
      /\ \A m : m # n => (closed(table', m) <=> closed(table, m))
      /\ \A i \in Slots : table'[i].used =>
            table'[i] = table[i] \/ (table'[i].name = n /\ table'[i].refCount = 1)
  BY <1>1, <1>3, <1>4, <1>5, MainOpens
<1>7. Opened'
  <2>1. DOMAIN heap' \subseteq 1 .. 3 * run' - IF MainOn' THEN unopened(Stage') ELSE 0
    BY <1>2, <1>4, <1>6
  <2>2. \A i \in Slots : table'[i].used => /\ table'[i].refCount = 1
                                           /\ table'[i].name \in {"excl", "libre", "lleno"}
    BY <1>1, <1>3, <1>6 DEF Opened
  <2>3. /\ ~closed(table', "excl") /\ (Stage' = 5 => closed(table', "libre"))
        /\ (Stage' \in 5 .. 6 => closed(table', "lleno"))
        /\ (Stage' >= 6 => ~closed(table', "libre")) /\ (Stage' >= 7 => ~closed(table', "lleno"))
    BY <1>1, <1>2, <1>3, <1>6 DEF Opened
  <2>. QED
    BY <1>2, <2>1, <2>2, <2>3 DEF Opened
<1>8. keeps(newSemaphore(v), {}) /\ newSemaphore(v).value = v /\ newSemaphore(v).blockedQueue = <<>>
  BY NewKeeps
<1>9. Queued'
  <2>1. \A s \in DOMAIN heap' : \A p \in Procs : isIn(p, heap'[s].blockedQueue) => status'[p] = "DEAD"
    BY <1>1, <1>6, <1>8, DeadQueues, EmptyQueue
  <2>. QED
    BY <2>1 DEF Queued
<1>10. Baton'
  <2>1. /\ NoMid' /\ Waiting(Writers)' = {} /\ Waiting(Readers)' = {} /\ Turn'
        /\ ~(\E p \in Procs : Locks(p))'
    BY <1>1, NobodysTurn
  <2>2. ~unread'
    BY <1>1, <1>2 DEF Baton
  <2>3. ExclOK'
    <3>1. ASSUME NEW s \in DOMAIN heap', names(table', "excl", s)
          PROVE  keeps(heap'[s], {}) /\ heap'[s].value = 1
      <4>1. CASE Stage = 4
        BY <1>3, <1>6, <1>8, <3>1, <4>1
      <4>2. CASE Stage # 4
        <5>1. names(table, "excl", s) /\ Stage >= 5
          BY <1>3, <1>6, <3>1, <4>2
        <5>2. s \in DOMAIN heap
          BY <1>1, <5>1, NamesAreUnique DEF Types
        <5>3. ~\E p \in Procs : Locks(p)
          BY <1>1, NobodyYet DEF NoMid, Locks
        <5>. QED
          BY <1>1, <1>6, <5>1, <5>2, <5>3 DEF Baton, ExclOK
      <4>. QED
        BY <4>1, <4>2
    <3>. QED
      BY <2>1, <3>1 DEF ExclOK
  <2>4. Stage' >= 6 => LibreOK'
    <3>1. ASSUME NEW s \in DOMAIN heap', names(table', "libre", s), Stage' >= 6
          PROVE  keeps(heap'[s], {})
      <4>1. CASE Stage = 5
        BY <1>3, <1>6, <1>8, <3>1, <4>1
      <4>2. CASE Stage # 5
        <5>1. names(table, "libre", s) /\ Stage = 6
          BY <1>2, <1>3, <1>6, <3>1, <4>2
        <5>2. s \in DOMAIN heap
          BY <1>1, <5>1, NamesAreUnique DEF Types
        <5>3. Waiting(Writers) = {}
          BY <1>1, NobodyYet
        <5>. QED
          BY <1>1, <1>6, <5>1, <5>2, <5>3 DEF Baton, LibreOK
      <4>. QED
        BY <4>1, <4>2
    <3>. QED
      BY <2>1, <2>2, <3>1 DEF LibreOK
  <2>5. Stage' >= 7 => LlenoOK'
    <3>1. ASSUME NEW s \in DOMAIN heap', names(table', "lleno", s), Stage' >= 7
          PROVE  keeps(heap'[s], {}) /\ heap'[s].value = 0
      BY <1>2, <1>3, <1>6, <1>8, <3>1
    <3>. QED
      BY <2>1, <3>1 DEF LlenoOK
  <2>. QED
    BY <1>2, <2>1, <2>2, <2>3, <2>4, <2>5 DEF Baton
<1>. QED
  BY <1>6, <1>7, <1>9, <1>10

LEMMA SpawnsKeep ==
    ASSUME Mvar, MvarInv, MainOn, Step(M), Stage >= 7
    PROVE  tableOK(table', heap') /\ Opened' /\ Queued' /\ Baton'
<1>1. Types /\ Roster /\ Opened /\ Queued /\ Baton
  BY DEF MvarInv
<1>2. /\ MainOn' /\ Stage' = Stage + 1 /\ Stage' >= 8 /\ Stage \in Nat /\ Crew' = Crew
      /\ run' = run /\ unread' = unread /\ M \notin Crew
  BY <1>1, MainFacts, MainKeepsRoster, MainSteps, AtYield DEF progVars
<1>3. table' = table /\ heap' = heap
  BY <1>1, MainSteps
<1>4. /\ \A p \in Procs : p # M => pc'[p] = pc[p]
      /\ \A p \in Procs : status'[p] = status[p]
            \/ (p \in Crew /\ status[p] = "FREE" /\ status'[p] = "READY" /\ pc[p] = 1)
  BY <1>1, MainKeepsRoster
<1>5. Opened'
  <2>1. unopened(Stage) = 0 /\ unopened(Stage') = 0
    BY <1>2 DEF unopened
  <2>. QED
    BY <1>1, <1>2, <1>3, <2>1 DEF Opened
<1>6. Queued'
  BY <1>1, <1>2, <1>3, <1>4 DEF Queued
<1>7. \A p \in Procs : (Mid(p)' <=> Mid(p)) /\ (Locks(p)' <=> Locks(p)) /\ (p # M => pc'[p] = pc[p])
  <2>1. ASSUME NEW p \in Procs
        PROVE  Mid(p)' <=> Mid(p)
    <3>1. CASE p \in Crew /\ status[p] = "FREE" /\ status'[p] = "READY" /\ pc[p] = 1
      BY <1>2, <1>4, <3>1 DEF Mid
    <3>2. CASE status'[p] = status[p]
      BY <1>2, <1>4, <3>2 DEF Mid
    <3>. QED
      BY <1>4, <3>1, <3>2
  <2>2. ASSUME NEW p \in Procs, Mid(p)
        PROVE  pc'[p] = pc[p]
    BY <1>2, <1>4, <2>2 DEF Mid
  <2>. QED
    BY <1>4, <2>1, <2>2 DEF Locks
<1>8. Waiting(Writers)' = Waiting(Writers) /\ Waiting(Readers)' = Waiting(Readers)
  <2>1. \A p \in Writers \cup Readers : status'[p] = "BLOCKED" <=> status[p] = "BLOCKED"
    BY <1>4, Kinds, Numbers
  <2>. QED
    BY <1>2, <2>1 DEF Waiting
<1>9. Turn'
  <2>1. \A p \in Writers \cup Readers : p \in Procs /\ p # M
    BY <1>1, MainFacts, Kinds, Numbers
  <2>2. /\ \A p, q \in Procs : Mid(p) /\ Mid(q) => p = q
        /\ \A p \in Writers : Mid(p) => (unread <=> pc[p] \in {4, 5})
        /\ \A p \in Readers : Mid(p) => (unread <=> pc[p] \in {2, 3})
        /\ \A p \in Crew : status[p] = "BLOCKED" => pc[p] = 2
    BY <1>1, <1>2 DEF Baton, Turn
  <2>3. \A p \in Crew : status'[p] = "BLOCKED" => status[p] = "BLOCKED"
    BY <1>1, <1>4, MainFacts
  <2>. QED
    BY <1>2, <1>7, <2>1, <2>2, <2>3 DEF Turn, Crew
<1>10. NoMid' <=> NoMid
  BY <1>7 DEF NoMid
<1>11. ExclOK' /\ LibreOK' /\ LlenoOK'
  <2>1. ExclOK /\ LibreOK /\ LlenoOK
    BY <1>1, <1>2 DEF Baton
  <2>. QED
    BY <1>2, <1>3, <1>7, <1>8, <1>10, <2>1 DEF ExclOK, LibreOK, LlenoOK
<1>12. Baton'
  BY <1>2, <1>9, <1>11 DEF Baton
<1>. QED
  BY <1>1, <1>3, <1>5, <1>6, <1>12 DEF Types

LEMMA MainKeeps ==
    ASSUME OneAtATime, Mvar, MvarInv, MainOn, Step(M)
    PROVE  MvarInv'
<1>1. Types /\ Roster /\ Carries
  BY DEF MvarInv
<1>2. /\ UNCHANGED <<session, run, slotValue, ch, unread>> /\ Stage \in 1 .. Last - 1
  BY <1>1, MainSteps DEF progVars
<1>3. /\ Roster' /\ status' \in [Procs -> {"FREE", "READY", "BLOCKED", "DEAD"}]
      /\ pc' \in [Procs -> Nat] /\ foregroundSet' \subseteq Procs
      /\ \A p \in Procs : p # M => pc'[p] = pc[p]
      /\ \A p \in Procs : status'[p] = status[p]
                 \/ (p \in Crew /\ status[p] = "FREE" /\ status'[p] = "READY" /\ pc[p] = 1)
  BY <1>1, MainKeepsRoster
<1>4. tableOK(table', heap') /\ Opened' /\ Queued' /\ Baton'
  <2>1. Stage \in 1 .. 3 \/ Stage \in 4 .. 6 \/ Stage >= 7
    BY <1>2, AtYield
  <2>. QED
    BY <2>1, ClosesKeep, OpensKeep, SpawnsKeep
<1>5. Types'
  BY <1>1, <1>2, <1>3, <1>4 DEF Types
<1>6. Carries'
  <2>1. \A r \in Readers : r \in Procs /\ r # M
    BY <1>1, MainFacts, Kinds, Numbers
  <2>. QED
    BY <1>1, <1>2, <1>3, <2>1 DEF Carries
<1>. QED
  BY <1>3, <1>4, <1>5, <1>6 DEF MvarInv

-----------------------------------------------------------------------------
(* The steps of the workers keep the invariant *)

LEMMA WorkerFacts ==
    ASSUME Mvar, Types, Roster, NEW p \in SyncProcs, status[p] = "READY", p # M
    PROVE  /\ MainOn /\ p \in Crew /\ p.run = run /\ p \in Procs /\ Stage >= 8 /\ Stage \in Nat
           /\ p \in Writers \/ p \in Readers
           /\ p \in Writers => p \notin Readers /\ pc[p] \in 1 .. 5
           /\ p \in Readers => p \notin Writers /\ pc[p] \in 1 .. 6
<1>1. MainOn /\ p.run = run /\ p \notin Adders /\ p \in Procs
  BY Numbers DEF Roster, Alive
<1>2. p \notin Mains
  BY <1>1, MainFacts
<1>3. p \in Writers \cup Readers /\ p \in Crew
  BY <1>1, <1>2, Kinds DEF Crew
<1>4. Stage > createdAt(p) /\ createdAt(p) \in 7 .. Last - 2
  BY <1>1, <1>3, CreatedAt DEF Roster
<1>5. Stage >= 8 /\ Stage \in Nat
  BY <1>1, <1>4, MainFacts, AtYield
<1>. QED
  BY <1>1, <1>3, <1>5, Kinds DEF Roster

\* The three semaphores of the run.
sems(e, l, f) ==
    /\ names(table, "excl", e) /\ names(table, "libre", l) /\ names(table, "lleno", f)
    /\ e \in DOMAIN heap /\ l \in DOMAIN heap /\ f \in DOMAIN heap
    /\ \A s : names(table, "excl", s) => s = e
    /\ \A s : names(table, "libre", s) => s = l
    /\ \A s : names(table, "lleno", s) => s = f
    /\ e # l /\ e # f /\ l # f

LEMMA TheSems ==
    ASSUME Types, Opened, MainOn, Stage >= 7, Stage \in Nat
    PROVE  \E e, l, f : sems(e, l, f)
<1>1. ~closed(table, "excl") /\ ~closed(table, "libre") /\ ~closed(table, "lleno")
  BY DEF Opened
<1>2. tableOK(table, heap)
  BY DEF Types
<1>3. PICK e \in DOMAIN heap : names(table, "excl", e)
  BY <1>1, <1>2, OpenOrClosed
<1>4. PICK l \in DOMAIN heap : names(table, "libre", l)
  BY <1>1, <1>2, OpenOrClosed
<1>5. PICK f \in DOMAIN heap : names(table, "lleno", f)
  BY <1>1, <1>2, OpenOrClosed
<1>6. sems(e, l, f)
  BY <1>2, <1>3, <1>4, <1>5, NamesAreUnique DEF sems
<1>. QED
  BY <1>6

\* What the invariant says of them.
baton(e, l, f) ==
    /\ keeps(heap[e], {})
    /\ heap[e].value = IF \E q \in Procs : Locks(q) THEN 0 ELSE 1
    /\ keeps(heap[l], Waiting(Writers)) /\ (heap[l].value = 1 => NoMid /\ ~unread)
    /\ keeps(heap[f], Waiting(Readers)) /\ (heap[f].value = 1 => NoMid /\ unread)
    /\ Turn

LEMMA BatonIs ==
    ASSUME Types, Roster, Baton, MainOn, Stage >= 7, Stage \in Nat, NEW e, NEW l, NEW f, sems(e, l, f)
    PROVE  baton(e, l, f)
  BY DEF Baton, ExclOK, LibreOK, LlenoOK, sems, baton

\* A step of a worker changes at most the three semaphores, who of the workers
\* is blocked and their places.
crewMoves ==
    /\ UNCHANGED <<session, run, foregroundSet, table>>
    /\ status' \in [Procs -> {"FREE", "READY", "BLOCKED", "DEAD"}] /\ pc' \in [Procs -> Nat]
    /\ \A q \in Procs : status'[q] # status[q] \/ pc'[q] # pc[q] =>
           /\ q \in Crew /\ Alive(q) /\ status'[q] \in {"READY", "BLOCKED"}
           /\ q \in Writers => pc'[q] \in 1 .. 5
           /\ q \in Readers => pc'[q] \in 1 .. 6

semsMove(e, l, f) ==
    /\ tableOK(table, heap') /\ DOMAIN heap' = DOMAIN heap
    /\ \A s \in DOMAIN heap \ {e, l, f} : heap'[s] = heap[s]

\* The turn and the three semaphores after the step.
batonNext(e, l, f) ==
    /\ keeps(heap'[e], {})
    /\ heap'[e].value = IF \E p \in Procs : Locks(p)' THEN 0 ELSE 1
    /\ keeps(heap'[l], Waiting(Writers)') /\ (heap'[l].value = 1 => NoMid' /\ ~unread')
    /\ keeps(heap'[f], Waiting(Readers)') /\ (heap'[f].value = 1 => NoMid' /\ unread')
    /\ Turn'

slotMoves ==
    /\ slotValue' \in 0 .. NWriters /\ unread' \in BOOLEAN /\ (unread' => slotValue' > 0)
    /\ ch' \in [Readers -> Nat]

LEMMA CrewKeeps ==
    ASSUME Mvar, MvarInv, MainOn, Stage >= 8, NEW e, NEW l, NEW f, sems(e, l, f),
           crewMoves, semsMove(e, l, f), batonNext(e, l, f), slotMoves, Carries'
    PROVE  MvarInv'
<1>1. Types /\ Roster /\ Opened /\ Queued /\ Baton
  BY DEF MvarInv
<1>2. /\ M \in Mains /\ M.run = run /\ run \in Runs /\ run \in Nat /\ M \in Procs
      /\ M \notin Crew /\ Crew \subseteq Procs /\ Stage \in 1 .. Last
  BY <1>1, MainFacts
<1>3. /\ M' = M /\ Crew' = Crew /\ status'[M] = status[M] /\ pc'[M] = pc[M]
  BY <1>2 DEF M, Crew, crewMoves
<1>4. MainOn' /\ Stage' = Stage
  BY <1>3 DEF MainOn, Stage, crewMoves
<1>5. Types'
  BY <1>1 DEF Types, crewMoves, slotMoves, semsMove
<1>6. Roster'
  <2>1. \A q \in Procs : Alive(q)' => Alive(q)
    BY DEF Alive, crewMoves
  <2>2. \A q \in Procs : Alive(q)' => MainOn' /\ q.run = run /\ q \notin Adders
    BY <1>1, <1>4, <2>1 DEF Roster
  <2>3. /\ \A p \in Mains : status'[p] # "BLOCKED"
        /\ \A p \in Adders : status'[p] = "FREE"
        /\ \A p \in Procs : p.run > run => status'[p] = "FREE" /\ pc'[p] = 1
    <3>1. \A p \in Mains \cup Adders : p \in Procs /\ p \notin Crew
      BY Kinds, Numbers DEF Crew
    <3>2. \A p \in Procs : p.run > run => p \notin Crew
      BY <1>2 DEF Crew
    <3>. QED
      BY <1>1, <3>1, <3>2 DEF Roster, crewMoves
  <2>4. \A p \in Crew : IF Stage > createdAt(p) THEN Alive(p)'
                        ELSE status'[p] = "FREE" /\ pc'[p] = 1
    <3>1. \A p \in Crew : IF Stage > createdAt(p) THEN Alive(p)
                          ELSE status[p] = "FREE" /\ pc[p] = 1
      BY <1>1 DEF Roster
    <3>. QED
      BY <1>2, <3>1 DEF Alive, crewMoves
  <2>5. (\A p \in Writers : pc'[p] \in 1 .. 5) /\ (\A p \in Readers : pc'[p] \in 1 .. 6)
    BY <1>1, Kinds, Numbers DEF Roster, crewMoves
  <2>6. foregroundSet = {M} \cup {p \in Crew : Stage > createdAt(p) + 1}
    BY <1>1 DEF Roster
  <2>. QED
    BY <1>2, <1>3, <1>4, <2>2, <2>3, <2>4, <2>5, <2>6 DEF Roster, crewMoves
<1>7. Opened'
  BY <1>1, <1>4 DEF Opened, crewMoves, semsMove
<1>8. Queued'
  <2>1. \A q \in Procs : status[q] = "DEAD" => status'[q] = "DEAD"
    BY DEF Alive, crewMoves
  <2>2. DOMAIN heap' = DOMAIN heap /\ \A s \in DOMAIN heap \ {e, l, f} : heap'[s] = heap[s]
    BY DEF semsMove
  <2>3. \A q \in Procs : ~isIn(q, heap'[e].blockedQueue)
    BY DEF keeps, batonNext
  <2>4. table' = table
    BY DEF crewMoves
  <2>5. ASSUME NEW s \in DOMAIN heap, NEW q \in Procs, isIn(q, heap'[s].blockedQueue)
        PROVE  \/ status'[q] = "DEAD"
               \/ names(table, "libre", s) \/ names(table, "lleno", s)
    <3>1. CASE s \in {l, f}
      BY <3>1 DEF sems
    <3>2. CASE s \notin {l, f}
      <4>1. heap'[s] = heap[s]
        BY <2>2, <2>3, <2>5, <3>2
      <4>. QED
        BY <1>1, <2>1, <2>5, <4>1 DEF Queued
    <3>. QED
      BY <3>1, <3>2
  <2>. QED
    BY <1>2, <1>4, <2>2, <2>4, <2>5, AtYield DEF Queued
<1>9. Baton'
  BY <1>2, <1>4, AtYield DEF Baton, ExclOK, LibreOK, LlenoOK, sems, crewMoves, semsMove, batonNext
<1>. QED
  BY <1>5, <1>6, <1>7, <1>8, <1>9 DEF MvarInv

\* Only p moves.
moves(p) == pc' \in [Procs -> Nat] /\ \A q \in Procs \ {p} : pc'[q] = pc[q]

LEMMA Moves ==
    ASSUME Types, NEW p \in Procs, NEW k \in Nat, pc' = [pc EXCEPT ![p] = k]
    PROVE  moves(p) /\ pc'[p] = k
  BY DEF Types, moves

\* One worker moves on and nobody blocks or wakes.
LEMMA MovesOn ==
    ASSUME Types, run' = run, NEW p \in Crew, p \in Procs, status[p] = "READY", status' = status,
           moves(p)
    PROVE  /\ Crew' = Crew
           /\ \A q \in Procs \ {p} : (Mid(q)' <=> Mid(q)) /\ (Locks(q)' <=> Locks(q))
           /\ (Mid(p)' <=> pc'[p] \in 2 .. 5) /\ (Locks(p)' <=> pc'[p] \in {3, 4})
           /\ Waiting(Writers)' = Waiting(Writers) /\ Waiting(Readers)' = Waiting(Readers)
<1>1. Crew' = Crew
  BY DEF Crew
<1>2. pc' \in [Procs -> Nat] /\ \A q \in Procs \ {p} : pc'[q] = pc[q]
  BY DEF moves
<1>3. \A q \in Procs \ {p} : (Mid(q)' <=> Mid(q)) /\ (Locks(q)' <=> Locks(q))
  BY <1>1, <1>2 DEF Mid, Locks
<1>4. (Mid(p)' <=> pc'[p] \in 2 .. 5) /\ (Locks(p)' <=> pc'[p] \in {3, 4})
  BY <1>1, <1>2 DEF Mid, Locks
<1>. QED
  BY <1>1, <1>2, <1>3, <1>4 DEF Waiting

\* One worker blocks at its first wait.
LEMMA Blocks ==
    ASSUME Types, run' = run, NEW p \in Crew, p \in Procs, status[p] = "READY", pc[p] = 1,
           status' = [status EXCEPT ![p] = "BLOCKED"], moves(p)
    PROVE  /\ Crew' = Crew
           /\ status' \in [Procs -> {"FREE", "READY", "BLOCKED", "DEAD"}]
           /\ status'[p] = "BLOCKED" /\ \A q \in Procs \ {p} : status'[q] = status[q]
           /\ \A q \in Procs : (Mid(q)' <=> Mid(q)) /\ (Locks(q)' <=> Locks(q)) /\ (Mid(q) => q # p)
           /\ p \in Writers => /\ Waiting(Writers)' = Waiting(Writers) \cup {p}
                               /\ p \notin Waiting(Writers)
           /\ p \in Readers => /\ Waiting(Readers)' = Waiting(Readers) \cup {p}
                               /\ p \notin Waiting(Readers)
           /\ p \notin Writers => Waiting(Writers)' = Waiting(Writers)
           /\ p \notin Readers => Waiting(Readers)' = Waiting(Readers)
<1>1. Crew' = Crew
  BY DEF Crew
<1>2. /\ pc' \in [Procs -> Nat] /\ status'[p] = "BLOCKED"
      /\ status' \in [Procs -> {"FREE", "READY", "BLOCKED", "DEAD"}]
      /\ \A q \in Procs \ {p} : pc'[q] = pc[q] /\ status'[q] = status[q]
  BY DEF Types, moves
<1>3. \A q \in Procs \ {p} : (Mid(q)' <=> Mid(q)) /\ (Locks(q)' <=> Locks(q))
  BY <1>1, <1>2 DEF Mid, Locks
<1>4. ~Mid(p)' /\ ~Mid(p) /\ ~Locks(p)' /\ ~Locks(p)
  BY <1>1, <1>2 DEF Mid, Locks
<1>5. p.run = run /\ \A q \in Writers \cup Readers : q \in Procs
  BY Kinds, Numbers DEF Crew
<1>6. /\ p \in Writers => /\ Waiting(Writers)' = Waiting(Writers) \cup {p}
                               /\ p \notin Waiting(Writers)
      /\ p \in Readers => /\ Waiting(Readers)' = Waiting(Readers) \cup {p}
                          /\ p \notin Waiting(Readers)
      /\ p \notin Writers => Waiting(Writers)' = Waiting(Writers)
      /\ p \notin Readers => Waiting(Readers)' = Waiting(Readers)
  BY <1>2, <1>5 DEF Waiting
<1>. QED
  BY <1>1, <1>2, <1>3, <1>4, <1>6

\* The worker that has the turn gives it to one that waits.
LEMMA Wakes ==
    ASSUME Types, Turn, run' = run, NEW p \in Crew, p \in Procs, Mid(p), moves(p), ~(pc'[p] \in 2 .. 5),
           NEW q \in Crew, q \in Procs, status[q] = "BLOCKED",
           status' = [r \in Procs |-> IF r \in {q} THEN "READY" ELSE status[r]]
    PROVE  /\ Crew' = Crew /\ p # q /\ pc'[q] = 2
           /\ status' \in [Procs -> {"FREE", "READY", "BLOCKED", "DEAD"}] /\ status'[q] = "READY"
           /\ \A r \in Procs \ {q} : status'[r] = status[r]
           /\ \A r \in Procs : (Mid(r)' <=> r = q) /\ ~Locks(r)'
           /\ Waiting(Writers)' = Waiting(Writers) \ {q}
           /\ Waiting(Readers)' = Waiting(Readers) \ {q}
<1>1. Crew' = Crew
  BY DEF Crew
<1>2. /\ pc' \in [Procs -> Nat] /\ p # q
      /\ status' \in [Procs -> {"FREE", "READY", "BLOCKED", "DEAD"}] /\ status'[q] = "READY"
      /\ \A r \in Procs \ {p} : pc'[r] = pc[r]
      /\ \A r \in Procs \ {q} : status'[r] = status[r]
  BY DEF Types, Mid, moves
<1>3. pc'[q] = 2
  BY <1>2 DEF Turn
<1>4. Mid(q)' /\ ~Locks(q)'
  BY <1>1, <1>2, <1>3 DEF Mid, Locks
<1>5. ~Mid(p)' /\ ~Locks(p)'
  BY <1>1, <1>2 DEF Mid, Locks
<1>6. ASSUME NEW r \in Procs, r # p, r # q
      PROVE  ~Mid(r)' /\ ~Locks(r)'
  <2>1. ~Mid(r)
    BY <1>6 DEF Turn
  <2>. QED
    BY <1>1, <1>2, <1>6, <2>1 DEF Mid, Locks
<1>7. Waiting(Writers)' = Waiting(Writers) \ {q} /\ Waiting(Readers)' = Waiting(Readers) \ {q}
  <2>1. \A r \in Writers \cup Readers : r \in Procs
    BY Kinds, Numbers
  <2>. QED
    BY <1>2, <2>1 DEF Waiting
<1>. QED
  BY <1>1, <1>2, <1>3, <1>4, <1>5, <1>6, <1>7

\* A letter is written or read by the worker that has the turn and the lock.
LEMMA TurnGoesOn ==
    ASSUME Types, Turn, run' = run, NEW p \in Crew, p \in Procs, Mid(p), status' = status,
           moves(p), pc'[p] \in 2 .. 5,
           p \in Writers => (unread' <=> pc'[p] \in {4, 5}),
           p \in Readers => (unread' <=> pc'[p] \in {2, 3})
    PROVE  Turn'
<1>1. status[p] = "READY"
  BY DEF Mid
<1>2. /\ Crew' = Crew /\ pc' \in [Procs -> Nat]
      /\ \A q \in Procs \ {p} : pc'[q] = pc[q] /\ (Mid(q)' <=> Mid(q))
      /\ Mid(p)'
  BY <1>1, MovesOn DEF moves
<1>3. \A q \in Procs : Mid(q)' => q = p
  BY <1>2 DEF Turn
<1>4. \A q \in Crew : status'[q] = "BLOCKED" => pc'[q] = 2
  BY <1>1, <1>2, Kinds, Numbers DEF Turn, Crew
<1>5. \A q \in Writers \cup Readers : q \in Procs
  BY Kinds, Numbers
<1>. QED
  BY <1>2, <1>3, <1>4, <1>5 DEF Turn

LEMMA CarriesOn ==
    ASSUME Carries, run' = run, ch' = ch,
           \A r \in Readers : status[r] = "READY" /\ pc[r] \in 4 .. 6
                                => status'[r] = "READY" /\ pc'[r] \in 4 .. 6
    PROVE  Carries'
  BY DEF Carries

\* Where a worker is in the invariant.
LEMMA InCrew ==
    ASSUME Mvar, MvarInv, NEW p \in SyncProcs, status[p] = "READY", p # M
    PROVE  /\ Types /\ Roster /\ Carries /\ Turn
           /\ MainOn /\ p \in Crew /\ p.run = run /\ p \in Procs /\ Stage >= 8
           /\ p \in Writers \/ p \in Readers
           /\ p \in Writers => p \notin Readers
           /\ p \in Readers => p \notin Writers
           /\ \E e, l, f : sems(e, l, f) /\ baton(e, l, f)
<1>1. Types /\ Roster /\ Opened /\ Baton /\ Carries
  BY DEF MvarInv
<1>2. /\ MainOn /\ p \in Crew /\ p.run = run /\ p \in Procs /\ Stage >= 8 /\ Stage \in Nat
      /\ p \in Writers \/ p \in Readers
      /\ p \in Writers => p \notin Readers
      /\ p \in Readers => p \notin Writers
  BY <1>1, WorkerFacts
<1>3. Stage >= 7
  BY <1>2
<1>4. PICK e, l, f : sems(e, l, f)
  BY <1>1, <1>2, <1>3, TheSems
<1>5. baton(e, l, f)
  BY <1>1, <1>2, <1>3, <1>4, BatonIs
<1>6. Turn
  BY <1>5 DEF baton
<1>. QED
  BY <1>1, <1>2, <1>4, <1>5, <1>6

becomes(s, x) == heap' = [heap EXCEPT ![s] = x]

\* A semaphore of the run that is waited on or posted.
LEMMA OneSemMoves ==
    ASSUME Types, NEW e, NEW l, NEW f, sems(e, l, f), NEW s \in {e, l, f}, NEW x \in Sems,
           becomes(s, x)
    PROVE  /\ semsMove(e, l, f) /\ heap'[s] = x
           /\ \A d \in {e, l, f} \ {s} : heap'[d] = heap[d]
<1>1. s \in DOMAIN heap /\ tableOK(table, heap)
  BY DEF sems, Types
<1>2. /\ tableOK(table, heap') /\ DOMAIN heap' = DOMAIN heap
      /\ heap'[s] = x /\ \A d \in DOMAIN heap \ {s} : heap'[d] = heap[d]
  BY <1>1, SemChanged DEF becomes
<1>. QED
  BY <1>2 DEF semsMove, sems

\* The second wait: the lock is free for the worker that has the turn.
LEMMA TakesLock ==
    ASSUME Mvar, MvarInv, NEW p \in SyncProcs, status[p] = "READY", p # M, pc[p] = 2,
           sharedSemWait("excl", p), pc' = [pc EXCEPT ![p] = 3],
           UNCHANGED <<session, run, foregroundSet, slotValue, ch, unread>>
    PROVE  MvarInv'
<1>1. /\ Types /\ Roster /\ Carries /\ Turn
      /\ MainOn /\ p \in Crew /\ p.run = run /\ p \in Procs /\ Stage >= 8
      /\ p \in Writers \/ p \in Readers
      /\ p \in Writers => p \notin Readers
      /\ p \in Readers => p \notin Writers
  BY InCrew
<1>2. PICK e, l, f : sems(e, l, f) /\ baton(e, l, f)
  BY InCrew
<1>3. Mid(p) /\ ~Locks(p)
  BY <1>1 DEF Mid, Locks
<1>4. heap[e].value = 1 /\ keeps(heap[e], {})
  <2>1. \A q \in Procs : ~Locks(q)
    BY <1>1, <1>3 DEF Turn, Locks
  <2>. QED
    BY <1>2, <2>1 DEF baton
<1>5. heap[l].value # 1 /\ heap[f].value # 1
  BY <1>1, <1>2, <1>3 DEF NoMid, baton
<1> DEFINE x == semWait(heap[e], p)
<1>6. /\ heap' = [heap EXCEPT ![e] = x]
      /\ status' = [status EXCEPT ![p] = IF mustBlock(heap[e]) THEN "BLOCKED" ELSE @]
      /\ table' = table
  <2>1. names(table, "excl", e) /\ tableOK(table, heap)
    BY <1>1, <1>2 DEF sems, Types
  <2>. QED
    BY <2>1, WaitOn
<1>7. ~mustBlock(heap[e]) /\ keeps(x, {}) /\ x.value = 0
  BY <1>4, WaitTakes
<1> HIDE DEF x
<1>8. status' = status
  BY <1>1, <1>6, <1>7 DEF Types
<1>9. semsMove(e, l, f) /\ heap'[e] = x /\ heap'[l] = heap[l] /\ heap'[f] = heap[f]
  <2>1. x \in Sems /\ e # l /\ e # f /\ becomes(e, x)
    BY <1>2, <1>6, <1>7 DEF keeps, sems, becomes
  <2>. QED
    BY <1>1, <1>2, <2>1, OneSemMoves
<1>10. moves(p) /\ pc'[p] = 3 /\ pc' \in [Procs -> Nat] /\ \A q \in Procs \ {p} : pc'[q] = pc[q]
  BY <1>1, Moves DEF moves
<1>11. /\ \A q \in Procs \ {p} : (Mid(q)' <=> Mid(q)) /\ (Locks(q)' <=> Locks(q))
       /\ Mid(p)' /\ Locks(p)'
       /\ Waiting(Writers)' = Waiting(Writers) /\ Waiting(Readers)' = Waiting(Readers)
  BY <1>1, <1>8, <1>10, MovesOn
<1>12. Turn'
  <2>1. /\ p \in Writers => (unread' <=> pc'[p] \in {4, 5})
        /\ p \in Readers => (unread' <=> pc'[p] \in {2, 3})
    BY <1>1, <1>3, <1>10 DEF Turn
  <2>. QED
    BY <1>1, <1>3, <1>8, <1>10, <2>1, TurnGoesOn
<1>13. Carries'
  BY <1>1, <1>8, <1>10, CarriesOn, Kinds, Numbers
<1>14. crewMoves
  BY <1>1, <1>6, <1>8, <1>10 DEF Alive, crewMoves, Types
<1>15. batonNext(e, l, f)
  <2>1. \E q \in Procs : Locks(q)'
    BY <1>1, <1>11
  <2>. QED
    BY <1>2, <1>5, <1>7, <1>9, <1>11, <1>12, <2>1 DEF baton, batonNext
<1>16. slotMoves
  BY <1>1 DEF slotMoves, Types
<1>. QED
  BY <1>1, <1>2, <1>9, <1>13, <1>14, <1>15, <1>16, CrewKeeps

\* The first post: the lock is given back, the turn is kept.
LEMMA GivesLock ==
    ASSUME Mvar, MvarInv, NEW p \in SyncProcs, status[p] = "READY", p # M, pc[p] = 4,
           sharedSemPost("excl"), pc' = [pc EXCEPT ![p] = 5],
           UNCHANGED <<session, run, foregroundSet, slotValue, ch, unread>>
    PROVE  MvarInv'
<1>1. /\ Types /\ Roster /\ Carries /\ Turn
      /\ MainOn /\ p \in Crew /\ p.run = run /\ p \in Procs /\ Stage >= 8
      /\ p \in Writers \/ p \in Readers
      /\ p \in Writers => p \notin Readers
      /\ p \in Readers => p \notin Writers
  BY InCrew
<1>2. PICK e, l, f : sems(e, l, f) /\ baton(e, l, f)
  BY InCrew
<1>3. Mid(p) /\ Locks(p)
  BY <1>1 DEF Mid, Locks
<1>4. heap[e].value = 0 /\ keeps(heap[e], {})
  BY <1>1, <1>2, <1>3 DEF baton
<1>5. heap[l].value # 1 /\ heap[f].value # 1
  BY <1>1, <1>2, <1>3 DEF NoMid, baton
<1> DEFINE x == semPost(heap[e], Blocked)
<1>6. /\ heap' = [heap EXCEPT ![e] = x]
      /\ status' = [q \in Procs |-> IF q \in Woken(heap[e], Blocked) THEN "READY" ELSE status[q]]
      /\ table' = table
  <2>1. names(table, "excl", e) /\ tableOK(table, heap)
    BY <1>1, <1>2 DEF sems, Types
  <2>. QED
    BY <2>1, PostOn
<1>7. Woken(heap[e], Blocked) = {} /\ keeps(x, {}) /\ x.value = 1
  BY <1>4, PostFrees
<1> HIDE DEF x
<1>8. status' = status
  BY <1>1, <1>6, <1>7 DEF Types
<1>9. semsMove(e, l, f) /\ heap'[e] = x /\ heap'[l] = heap[l] /\ heap'[f] = heap[f]
  <2>1. x \in Sems /\ e # l /\ e # f /\ becomes(e, x)
    BY <1>2, <1>6, <1>7 DEF keeps, sems, becomes
  <2>. QED
    BY <1>1, <1>2, <2>1, OneSemMoves
<1>10. moves(p) /\ pc'[p] = 5 /\ pc' \in [Procs -> Nat] /\ \A q \in Procs \ {p} : pc'[q] = pc[q]
  BY <1>1, Moves DEF moves
<1>11. /\ \A q \in Procs \ {p} : (Mid(q)' <=> Mid(q)) /\ (Locks(q)' <=> Locks(q))
       /\ Mid(p)' /\ ~Locks(p)'
       /\ Waiting(Writers)' = Waiting(Writers) /\ Waiting(Readers)' = Waiting(Readers)
  BY <1>1, <1>8, <1>10, MovesOn
<1>12. Turn'
  <2>1. /\ p \in Writers => (unread' <=> pc'[p] \in {4, 5})
        /\ p \in Readers => (unread' <=> pc'[p] \in {2, 3})
    BY <1>1, <1>3, <1>10 DEF Turn
  <2>. QED
    BY <1>1, <1>3, <1>8, <1>10, <2>1, TurnGoesOn
<1>13. Carries'
  BY <1>1, <1>8, <1>10, CarriesOn, Kinds, Numbers
<1>14. crewMoves
  BY <1>1, <1>6, <1>8, <1>10 DEF Alive, crewMoves, Types
<1>15. batonNext(e, l, f)
  <2>1. \A q \in Procs : ~Locks(q)'
    BY <1>1, <1>3, <1>11 DEF Turn, Locks
  <2>. QED
    BY <1>2, <1>5, <1>7, <1>9, <1>11, <1>12, <2>1 DEF baton, batonNext
<1>16. slotMoves
  BY <1>1 DEF slotMoves, Types
<1>. QED
  BY <1>1, <1>2, <1>9, <1>13, <1>14, <1>15, <1>16, CrewKeeps

\* The letter is written while the slot is empty.
LEMMA Writes ==
    ASSUME Mvar, MvarInv, NEW p \in SyncProcs, p \in Writers, status[p] = "READY", p # M, pc[p] = 3,
           slotValue' = p.i, unread' = TRUE, UNCHANGED ch, UNCHANGED sharedVars,
           pc' = [pc EXCEPT ![p] = 4], UNCHANGED <<session, run, foregroundSet>>
    PROVE  MvarInv'
<1>1. /\ Types /\ Roster /\ Carries /\ Turn
      /\ MainOn /\ p \in Crew /\ p.run = run /\ p \in Procs /\ Stage >= 8
      /\ p \in Writers \/ p \in Readers
      /\ p \in Writers => p \notin Readers
      /\ p \in Readers => p \notin Writers
  BY InCrew
<1>2. PICK e, l, f : sems(e, l, f) /\ baton(e, l, f)
  BY InCrew
<1>3. Mid(p) /\ Locks(p)
  BY <1>1 DEF Mid, Locks
<1>4. heap[e].value = 0
  BY <1>1, <1>2, <1>3 DEF baton
<1>5. heap[l].value # 1 /\ heap[f].value # 1
  BY <1>1, <1>2, <1>3 DEF NoMid, baton
<1>6. table' = table /\ heap' = heap /\ status' = status
  BY DEF sharedVars
<1>7. moves(p) /\ pc'[p] = 4 /\ pc' \in [Procs -> Nat] /\ \A q \in Procs \ {p} : pc'[q] = pc[q]
  BY <1>1, Moves DEF moves
<1>8. /\ \A q \in Procs \ {p} : (Mid(q)' <=> Mid(q)) /\ (Locks(q)' <=> Locks(q))
      /\ Mid(p)' /\ Locks(p)'
      /\ Waiting(Writers)' = Waiting(Writers) /\ Waiting(Readers)' = Waiting(Readers)
  BY <1>1, <1>6, <1>7, MovesOn
<1>9. Turn'
  BY <1>1, <1>3, <1>6, <1>7, TurnGoesOn
<1>10. Carries'
  BY <1>1, <1>6, <1>7, CarriesOn, Kinds, Numbers
<1>11. slotMoves
  <2>1. p.i \in 1 .. NWriters
    BY Kinds
  <2>2. slotValue' \in 0 .. NWriters /\ slotValue' > 0
    BY <2>1, Numbers
  <2>. QED
    BY <1>1, <2>2 DEF slotMoves, Types
<1>12. crewMoves
  BY <1>1, <1>6, <1>7 DEF Alive, crewMoves, Types
<1>13. batonNext(e, l, f)
  <2>1. \E q \in Procs : Locks(q)'
    BY <1>1, <1>8
  <2>. QED
    BY <1>2, <1>4, <1>5, <1>6, <1>8, <1>9, <2>1 DEF baton, batonNext
<1>14. semsMove(e, l, f)
  BY <1>1, <1>6 DEF semsMove, Types
<1>. QED
  BY <1>1, <1>2, <1>10, <1>11, <1>12, <1>13, <1>14, CrewKeeps

\* The letter is read by a reader that carries none.
LEMMA Reads ==
    ASSUME Mvar, MvarInv, NEW p \in SyncProcs, p \in Readers, status[p] = "READY", p # M, pc[p] = 3,
           ch' = [ch EXCEPT ![p] = slotValue], unread' = FALSE, UNCHANGED slotValue, UNCHANGED sharedVars,
           pc' = [pc EXCEPT ![p] = 4], UNCHANGED <<session, run, foregroundSet>>
    PROVE  MvarInv'
<1>1. /\ Types /\ Roster /\ Carries /\ Turn
      /\ MainOn /\ p \in Crew /\ p.run = run /\ p \in Procs /\ Stage >= 8
      /\ p \in Writers \/ p \in Readers
      /\ p \in Writers => p \notin Readers
      /\ p \in Readers => p \notin Writers
  BY InCrew
<1>2. PICK e, l, f : sems(e, l, f) /\ baton(e, l, f)
  BY InCrew
<1>3. Mid(p) /\ Locks(p)
  BY <1>1 DEF Mid, Locks
<1>4. heap[e].value = 0
  BY <1>1, <1>2, <1>3 DEF baton
<1>5. heap[l].value # 1 /\ heap[f].value # 1
  BY <1>1, <1>2, <1>3 DEF NoMid, baton
<1>6. table' = table /\ heap' = heap /\ status' = status
  BY DEF sharedVars
<1>7. moves(p) /\ pc'[p] = 4 /\ pc' \in [Procs -> Nat] /\ \A q \in Procs \ {p} : pc'[q] = pc[q]
  BY <1>1, Moves DEF moves
<1>8. /\ \A q \in Procs \ {p} : (Mid(q)' <=> Mid(q)) /\ (Locks(q)' <=> Locks(q))
      /\ Mid(p)' /\ Locks(p)'
      /\ Waiting(Writers)' = Waiting(Writers) /\ Waiting(Readers)' = Waiting(Readers)
  BY <1>1, <1>6, <1>7, MovesOn
<1>9. Turn'
  BY <1>1, <1>3, <1>6, <1>7, TurnGoesOn
<1>10. Carries'
  <2>1. \A r \in Readers \ {p} : ch'[r] = ch[r] /\ r \in Procs
    BY <1>1, Kinds, Numbers DEF Types
  <2>. QED
    BY <1>1, <1>6, <1>7, <2>1 DEF Carries
<1>11. slotMoves
  <2>1. slotValue \in Nat /\ ch \in [Readers -> Nat] /\ slotValue' \in 0 .. NWriters /\ unread' = FALSE
    BY <1>1, Numbers DEF Types
  <2>2. ch' \in [Readers -> Nat]
    BY <2>1
  <2>. QED
    BY <2>1, <2>2 DEF slotMoves
<1>12. crewMoves
  BY <1>1, <1>6, <1>7 DEF Alive, crewMoves, Types
<1>13. batonNext(e, l, f)
  <2>1. \E q \in Procs : Locks(q)'
    BY <1>1, <1>8
  <2>. QED
    BY <1>2, <1>4, <1>5, <1>6, <1>8, <1>9, <2>1 DEF baton, batonNext
<1>14. semsMove(e, l, f)
  BY <1>1, <1>6 DEF semsMove, Types
<1>. QED
  BY <1>1, <1>2, <1>10, <1>11, <1>12, <1>13, <1>14, CrewKeeps

\* What was read is shown.
LEMMA Prints ==
    ASSUME Mvar, MvarInv, NEW p \in SyncProcs, p \in Readers, status[p] = "READY", p # M, pc[p] = 6,
           ch' = [ch EXCEPT ![p] = Zero], UNCHANGED <<unread, slotValue>>, UNCHANGED sharedVars,
           pc' = [pc EXCEPT ![p] = 1], UNCHANGED <<session, run, foregroundSet>>
    PROVE  MvarInv'
<1>1. /\ Types /\ Roster /\ Carries /\ Turn
      /\ MainOn /\ p \in Crew /\ p.run = run /\ p \in Procs /\ Stage >= 8
      /\ p \in Writers \/ p \in Readers
      /\ p \in Writers => p \notin Readers
      /\ p \in Readers => p \notin Writers
  BY InCrew
<1>2. PICK e, l, f : sems(e, l, f) /\ baton(e, l, f)
  BY InCrew
<1>3. ~Mid(p) /\ ~Locks(p)
  BY <1>1 DEF Mid, Locks
<1>4. table' = table /\ heap' = heap /\ status' = status
  BY DEF sharedVars
<1>5. moves(p) /\ pc'[p] = 1 /\ pc' \in [Procs -> Nat] /\ \A q \in Procs \ {p} : pc'[q] = pc[q]
  BY <1>1, Moves DEF moves
<1>6. /\ \A q \in Procs \ {p} : (Mid(q)' <=> Mid(q)) /\ (Locks(q)' <=> Locks(q))
      /\ ~Mid(p)' /\ ~Locks(p)'
      /\ Waiting(Writers)' = Waiting(Writers) /\ Waiting(Readers)' = Waiting(Readers)
      /\ Crew' = Crew
  BY <1>1, <1>4, <1>5, MovesOn
<1>7. \A q \in Procs : (Mid(q)' <=> Mid(q)) /\ (Locks(q)' <=> Locks(q))
  BY <1>3, <1>6
<1>8. Turn'
  <2>1. \A q \in Writers \cup Readers : q \in Procs /\ (Mid(q)' => q # p)
    BY <1>6, Kinds, Numbers
  <2>2. \A q \in Crew : status[q] = "BLOCKED" => q # p /\ q \in Procs
    BY <1>1, Kinds, Numbers DEF Crew
  <2>. QED
    BY <1>1, <1>4, <1>5, <1>6, <1>7, <2>1, <2>2 DEF Turn
<1>9. Carries'
  <2>1. \A r \in Readers \ {p} : ch'[r] = ch[r] /\ r \in Procs
    BY <1>1, Kinds, Numbers DEF Types
  <2>2. ch'[p] = 0
    BY <1>1 DEF Types, Zero
  <2>. QED
    BY <1>1, <1>4, <1>5, <2>1, <2>2 DEF Carries
<1>10. slotMoves
  BY <1>1 DEF slotMoves, Types, Zero
<1>11. crewMoves
  BY <1>1, <1>4, <1>5 DEF Alive, crewMoves, Types
<1>12. batonNext(e, l, f)
  <2>1. NoMid' <=> NoMid
    BY <1>7 DEF NoMid
  <2>. QED
    BY <1>2, <1>4, <1>6, <1>7, <1>8, <2>1 DEF baton, batonNext
<1>13. semsMove(e, l, f)
  BY <1>1, <1>4 DEF semsMove, Types
<1>. QED
  BY <1>1, <1>2, <1>9, <1>10, <1>11, <1>12, <1>13, CrewKeeps

\* The first wait of a writer: it takes the turn, or blocks until a reader gives it.
LEMMA WaitsForLibre ==
    ASSUME Mvar, MvarInv, NEW p \in SyncProcs, p \in Writers, status[p] = "READY", p # M, pc[p] = 1,
           sharedSemWait("libre", p), pc' = [pc EXCEPT ![p] = 2],
           UNCHANGED <<session, run, foregroundSet, slotValue, ch, unread>>
    PROVE  MvarInv'
<1>1. /\ Types /\ Roster /\ Carries /\ Turn
      /\ MainOn /\ p \in Crew /\ p.run = run /\ p \in Procs /\ Stage >= 8
      /\ p \in Writers \/ p \in Readers
      /\ p \in Writers => p \notin Readers
      /\ p \in Readers => p \notin Writers
  BY InCrew
<1>2. PICK e, l, f : sems(e, l, f) /\ baton(e, l, f)
  BY InCrew
<1>3. ~Mid(p) /\ ~Locks(p)
  BY <1>1 DEF Mid, Locks
<1> DEFINE x == semWait(heap[l], p)
<1>4. /\ heap' = [heap EXCEPT ![l] = x]
      /\ status' = [status EXCEPT ![p] = IF mustBlock(heap[l]) THEN "BLOCKED" ELSE @]
      /\ table' = table
  <2>1. names(table, "libre", l) /\ tableOK(table, heap)
    BY <1>1, <1>2 DEF sems, Types
  <2>. QED
    BY <2>1, WaitOn
<1>5. becomes(l, x)
  BY <1>4 DEF becomes
<1>6. /\ keeps(heap[l], Waiting(Writers)) /\ heap[l].value \in Int /\ heap[l].value <= 1
      /\ p \notin Waiting(Writers)
  BY <1>1, <1>2 DEF baton, keeps, Sems, Waiting
<1>7. moves(p) /\ pc'[p] = 2 /\ pc' \in [Procs -> Nat] /\ \A q \in Procs \ {p} : pc'[q] = pc[q]
  BY <1>1, Moves DEF moves
<1>8. slotMoves
  BY <1>1 DEF slotMoves, Types
<1>9. CASE heap[l].value = 1
  <2>1. ~mustBlock(heap[l]) /\ keeps(x, Waiting(Writers)) /\ x.value = 0
    BY <1>6, <1>9, WaitTakes
  <2> HIDE DEF x
  <2>2. status' = status
    BY <1>1, <1>4, <2>1 DEF Types
  <2>3. semsMove(e, l, f) /\ heap'[l] = x /\ heap'[e] = heap[e] /\ heap'[f] = heap[f]
    <3>1. x \in Sems /\ e # l /\ e # f /\ l # f
      BY <1>2, <2>1 DEF keeps, sems
    <3>. QED
      BY <1>1, <1>2, <1>5, <3>1, OneSemMoves
  <2>4. NoMid /\ (unread <=> FALSE) /\ heap[f].value # 1
    BY <1>2, <1>9 DEF baton
  <2>5. /\ \A q \in Procs \ {p} : (Mid(q)' <=> Mid(q)) /\ (Locks(q)' <=> Locks(q))
        /\ Mid(p)' /\ ~Locks(p)'
        /\ Waiting(Writers)' = Waiting(Writers) /\ Waiting(Readers)' = Waiting(Readers)
        /\ Crew' = Crew
    BY <1>1, <1>7, <2>2, MovesOn
  <2>6. \A q \in Procs : ~Locks(q) /\ ~Locks(q)' /\ (Mid(q)' => q = p)
    BY <1>3, <2>4, <2>5 DEF NoMid, Locks
  <2>7. Turn'
    <3>1. \A q \in Writers \cup Readers : q \in Procs /\ (Mid(q)' => q = p)
      BY <2>6, Kinds, Numbers
    <3>2. \A q \in Crew : status[q] = "BLOCKED" => q # p /\ q \in Procs
      BY <1>1, Kinds, Numbers DEF Crew
    <3>. QED
      BY <1>1, <1>7, <2>2, <2>4, <2>5, <2>6, <3>1, <3>2 DEF Turn
  <2>8. Carries'
    BY <1>1, <1>7, <2>2, CarriesOn, Kinds, Numbers
  <2>9. crewMoves
    BY <1>1, <1>4, <1>7, <2>2 DEF Alive, crewMoves, Types
  <2>10. batonNext(e, l, f)
    BY <1>2, <2>1, <2>3, <2>4, <2>5, <2>6, <2>7 DEF baton, batonNext
  <2>. QED
    BY <1>1, <1>2, <1>8, <2>3, <2>8, <2>9, <2>10, CrewKeeps
<1>10. CASE heap[l].value <= 0
  <2>1. mustBlock(heap[l]) /\ keeps(x, Waiting(Writers) \cup {p}) /\ x.value <= 0
    BY <1>1, <1>6, <1>10, WaitBlocks
  <2> HIDE DEF x
  <2>2. status' = [status EXCEPT ![p] = "BLOCKED"]
    BY <1>4, <2>1
  <2>3. semsMove(e, l, f) /\ heap'[l] = x /\ heap'[e] = heap[e] /\ heap'[f] = heap[f]
    <3>1. x \in Sems /\ e # l /\ e # f /\ l # f
      BY <1>2, <2>1 DEF keeps, sems
    <3>. QED
      BY <1>1, <1>2, <1>5, <3>1, OneSemMoves
  <2>4. /\ Crew' = Crew
        /\ status' \in [Procs -> {"FREE", "READY", "BLOCKED", "DEAD"}]
        /\ status'[p] = "BLOCKED" /\ \A q \in Procs \ {p} : status'[q] = status[q]
        /\ \A q \in Procs : (Mid(q)' <=> Mid(q)) /\ (Locks(q)' <=> Locks(q)) /\ (Mid(q) => q # p)
        /\ Waiting(Writers)' = Waiting(Writers) \cup {p}
        /\ Waiting(Readers)' = Waiting(Readers)
    BY <1>1, <1>7, <2>2, Blocks
  <2>5. (NoMid' <=> NoMid) /\ x.value # 1
    BY <2>1, <2>4 DEF NoMid
  <2>6. Turn'
    <3>1. \A q \in Writers \cup Readers : q \in Procs
      BY Kinds, Numbers
    <3>2. \A q \in Crew : q \in Procs
      BY Kinds, Numbers DEF Crew
    <3>. QED
      BY <1>1, <1>7, <2>4, <3>1, <3>2 DEF Turn
  <2>7. Carries'
    <3>1. \A r \in Readers : r \in Procs
      BY Kinds, Numbers
    <3>. QED
      BY <1>1, <1>7, <2>4, <3>1, CarriesOn
  <2>8. crewMoves
    BY <1>1, <1>4, <1>7, <2>4 DEF Alive, crewMoves
  <2>9. batonNext(e, l, f)
    BY <1>2, <2>1, <2>3, <2>4, <2>5, <2>6 DEF baton, batonNext
  <2>. QED
    BY <1>1, <1>2, <1>8, <2>3, <2>7, <2>8, <2>9, CrewKeeps
<1>. QED
  BY <1>6, <1>9, <1>10

\* The first wait of a reader: it takes the turn, or blocks until a writer gives it.
LEMMA WaitsForLleno ==
    ASSUME Mvar, MvarInv, NEW p \in SyncProcs, p \in Readers, status[p] = "READY", p # M, pc[p] = 1,
           sharedSemWait("lleno", p), pc' = [pc EXCEPT ![p] = 2],
           UNCHANGED <<session, run, foregroundSet, slotValue, ch, unread>>
    PROVE  MvarInv'
<1>1. /\ Types /\ Roster /\ Carries /\ Turn
      /\ MainOn /\ p \in Crew /\ p.run = run /\ p \in Procs /\ Stage >= 8
      /\ p \in Writers \/ p \in Readers
      /\ p \in Writers => p \notin Readers
      /\ p \in Readers => p \notin Writers
  BY InCrew
<1>2. PICK e, l, f : sems(e, l, f) /\ baton(e, l, f)
  BY InCrew
<1>3. ~Mid(p) /\ ~Locks(p)
  BY <1>1 DEF Mid, Locks
<1> DEFINE x == semWait(heap[f], p)
<1>4. /\ heap' = [heap EXCEPT ![f] = x]
      /\ status' = [status EXCEPT ![p] = IF mustBlock(heap[f]) THEN "BLOCKED" ELSE @]
      /\ table' = table
  <2>1. names(table, "lleno", f) /\ tableOK(table, heap)
    BY <1>1, <1>2 DEF sems, Types
  <2>. QED
    BY <2>1, WaitOn
<1>5. becomes(f, x)
  BY <1>4 DEF becomes
<1>6. /\ keeps(heap[f], Waiting(Readers)) /\ heap[f].value \in Int /\ heap[f].value <= 1
      /\ p \notin Waiting(Readers)
  BY <1>1, <1>2 DEF baton, keeps, Sems, Waiting
<1>7. moves(p) /\ pc'[p] = 2 /\ pc' \in [Procs -> Nat] /\ \A q \in Procs \ {p} : pc'[q] = pc[q]
  BY <1>1, Moves DEF moves
<1>8. slotMoves
  BY <1>1 DEF slotMoves, Types
<1>9. CASE heap[f].value = 1
  <2>1. ~mustBlock(heap[f]) /\ keeps(x, Waiting(Readers)) /\ x.value = 0
    BY <1>6, <1>9, WaitTakes
  <2> HIDE DEF x
  <2>2. status' = status
    BY <1>1, <1>4, <2>1 DEF Types
  <2>3. semsMove(e, l, f) /\ heap'[f] = x /\ heap'[e] = heap[e] /\ heap'[l] = heap[l]
    <3>1. x \in Sems /\ e # l /\ e # f /\ l # f
      BY <1>2, <2>1 DEF keeps, sems
    <3>. QED
      BY <1>1, <1>2, <1>5, <3>1, OneSemMoves
  <2>4. NoMid /\ (unread <=> TRUE) /\ heap[l].value # 1
    BY <1>2, <1>9 DEF baton
  <2>5. /\ \A q \in Procs \ {p} : (Mid(q)' <=> Mid(q)) /\ (Locks(q)' <=> Locks(q))
        /\ Mid(p)' /\ ~Locks(p)'
        /\ Waiting(Writers)' = Waiting(Writers) /\ Waiting(Readers)' = Waiting(Readers)
        /\ Crew' = Crew
    BY <1>1, <1>7, <2>2, MovesOn
  <2>6. \A q \in Procs : ~Locks(q) /\ ~Locks(q)' /\ (Mid(q)' => q = p)
    BY <1>3, <2>4, <2>5 DEF NoMid, Locks
  <2>7. Turn'
    <3>1. \A q \in Writers \cup Readers : q \in Procs /\ (Mid(q)' => q = p)
      BY <2>6, Kinds, Numbers
    <3>2. \A q \in Crew : status[q] = "BLOCKED" => q # p /\ q \in Procs
      BY <1>1, Kinds, Numbers DEF Crew
    <3>. QED
      BY <1>1, <1>7, <2>2, <2>4, <2>5, <2>6, <3>1, <3>2 DEF Turn
  <2>8. Carries'
    BY <1>1, <1>7, <2>2, CarriesOn, Kinds, Numbers
  <2>9. crewMoves
    BY <1>1, <1>4, <1>7, <2>2 DEF Alive, crewMoves, Types
  <2>10. batonNext(e, l, f)
    BY <1>2, <2>1, <2>3, <2>4, <2>5, <2>6, <2>7 DEF baton, batonNext
  <2>. QED
    BY <1>1, <1>2, <1>8, <2>3, <2>8, <2>9, <2>10, CrewKeeps
<1>10. CASE heap[f].value <= 0
  <2>1. mustBlock(heap[f]) /\ keeps(x, Waiting(Readers) \cup {p}) /\ x.value <= 0
    BY <1>1, <1>6, <1>10, WaitBlocks
  <2> HIDE DEF x
  <2>2. status' = [status EXCEPT ![p] = "BLOCKED"]
    BY <1>4, <2>1
  <2>3. semsMove(e, l, f) /\ heap'[f] = x /\ heap'[e] = heap[e] /\ heap'[l] = heap[l]
    <3>1. x \in Sems /\ e # l /\ e # f /\ l # f
      BY <1>2, <2>1 DEF keeps, sems
    <3>. QED
      BY <1>1, <1>2, <1>5, <3>1, OneSemMoves
  <2>4. /\ Crew' = Crew
        /\ status' \in [Procs -> {"FREE", "READY", "BLOCKED", "DEAD"}]
        /\ status'[p] = "BLOCKED" /\ \A q \in Procs \ {p} : status'[q] = status[q]
        /\ \A q \in Procs : (Mid(q)' <=> Mid(q)) /\ (Locks(q)' <=> Locks(q)) /\ (Mid(q) => q # p)
        /\ Waiting(Readers)' = Waiting(Readers) \cup {p}
        /\ Waiting(Writers)' = Waiting(Writers)
    BY <1>1, <1>7, <2>2, Blocks
  <2>5. (NoMid' <=> NoMid) /\ x.value # 1
    BY <2>1, <2>4 DEF NoMid
  <2>6. Turn'
    <3>1. \A q \in Writers \cup Readers : q \in Procs
      BY Kinds, Numbers
    <3>2. \A q \in Crew : q \in Procs
      BY Kinds, Numbers DEF Crew
    <3>. QED
      BY <1>1, <1>7, <2>4, <3>1, <3>2 DEF Turn
  <2>7. Carries'
    <3>1. \A r \in Readers : r \in Procs
      BY Kinds, Numbers
    <3>. QED
      BY <1>1, <1>7, <2>4, <3>1, CarriesOn
  <2>8. crewMoves
    BY <1>1, <1>4, <1>7, <2>4 DEF Alive, crewMoves
  <2>9. batonNext(e, l, f)
    BY <1>2, <2>1, <2>3, <2>4, <2>5, <2>6 DEF baton, batonNext
  <2>. QED
    BY <1>1, <1>2, <1>8, <2>3, <2>7, <2>8, <2>9, CrewKeeps
<1>. QED
  BY <1>6, <1>9, <1>10

\* The last post of a writer: the turn goes to lleno, or to the reader that waits longest.
LEMMA GivesToReaders ==
    ASSUME Mvar, MvarInv, NEW p \in SyncProcs, p \in Writers, status[p] = "READY", p # M, pc[p] = 5,
           sharedSemPost("lleno"), pc' = [pc EXCEPT ![p] = 1],
           UNCHANGED <<session, run, foregroundSet, slotValue, ch, unread>>
    PROVE  MvarInv'
<1>1. /\ Types /\ Roster /\ Carries /\ Turn
      /\ MainOn /\ p \in Crew /\ p.run = run /\ p \in Procs /\ Stage >= 8
      /\ p \in Writers \/ p \in Readers
      /\ p \in Writers => p \notin Readers
      /\ p \in Readers => p \notin Writers
  BY InCrew
<1>2. PICK e, l, f : sems(e, l, f) /\ baton(e, l, f)
  BY InCrew
<1>3. Mid(p) /\ ~Locks(p) /\ (unread <=> TRUE)
  BY <1>1 DEF Mid, Locks, Turn
<1> DEFINE x == semPost(heap[f], Blocked)
<1>4. /\ heap' = [heap EXCEPT ![f] = x]
      /\ status' = [q \in Procs |-> IF q \in Woken(heap[f], Blocked) THEN "READY" ELSE status[q]]
      /\ table' = table
  <2>1. names(table, "lleno", f) /\ tableOK(table, heap)
    BY <1>1, <1>2 DEF sems, Types
  <2>. QED
    BY <2>1, PostOn
<1>5. becomes(f, x)
  BY <1>4 DEF becomes
<1>6. /\ keeps(heap[f], Waiting(Readers)) /\ heap[f].value \in Int /\ heap[f].value <= 0
      /\ Waiting(Readers) \subseteq Blocked /\ heap[l].value # 1
  <2>1. keeps(heap[f], Waiting(Readers)) /\ heap[f].value # 1 /\ heap[l].value # 1
    BY <1>1, <1>2, <1>3 DEF baton, NoMid
  <2>2. Waiting(Readers) \subseteq Blocked
    BY Kinds, Numbers DEF Waiting, Blocked
  <2>. QED
    BY <2>1, <2>2 DEF keeps, Sems
<1>7. moves(p) /\ pc'[p] = 1 /\ pc' \in [Procs -> Nat] /\ \A q \in Procs \ {p} : pc'[q] = pc[q]
  BY <1>1, Moves DEF moves
<1>8. slotMoves
  BY <1>1 DEF slotMoves, Types
<1>9. \A q \in Procs : ~Locks(q) /\ (Mid(q) => q = p)
  BY <1>1, <1>3 DEF Turn, Locks
<1>10. CASE heap[f].value = 0
  <2>1. Woken(heap[f], Blocked) = {} /\ keeps(x, Waiting(Readers)) /\ x.value = 1
    BY <1>6, <1>10, PostFrees
  <2> HIDE DEF x
  <2>2. status' = status
    BY <1>1, <1>4, <2>1 DEF Types
  <2>3. semsMove(e, l, f) /\ heap'[f] = x /\ heap'[e] = heap[e] /\ heap'[l] = heap[l]
    <3>1. x \in Sems /\ e # l /\ e # f /\ l # f
      BY <1>2, <2>1 DEF keeps, sems
    <3>. QED
      BY <1>1, <1>2, <1>5, <3>1, OneSemMoves
  <2>4. /\ \A q \in Procs \ {p} : (Mid(q)' <=> Mid(q)) /\ (Locks(q)' <=> Locks(q))
        /\ ~Mid(p)' /\ ~Locks(p)'
        /\ Waiting(Writers)' = Waiting(Writers) /\ Waiting(Readers)' = Waiting(Readers)
        /\ Crew' = Crew
    BY <1>1, <1>7, <2>2, MovesOn
  <2>5. \A q \in Procs : ~Mid(q)' /\ ~Locks(q)'
    BY <1>9, <2>4
  <2>6. Turn'
    <3>1. \A q \in Writers \cup Readers : q \in Procs
      BY Kinds, Numbers
    <3>2. \A q \in Crew : status[q] = "BLOCKED" => q # p /\ q \in Procs
      BY <1>1, Kinds, Numbers DEF Crew
    <3>. QED
      BY <1>1, <1>7, <2>2, <2>4, <2>5, <3>1, <3>2 DEF Turn
  <2>7. Carries'
    BY <1>1, <1>7, <2>2, CarriesOn, Kinds, Numbers
  <2>8. crewMoves
    BY <1>1, <1>4, <1>7, <2>2 DEF Alive, crewMoves, Types
  <2>9. NoMid'
    BY <2>5 DEF NoMid
  <2>10. batonNext(e, l, f)
    BY <1>2, <1>3, <1>6, <1>9, <2>1, <2>3, <2>4, <2>5, <2>6, <2>9 DEF baton, batonNext
  <2>. QED
    BY <1>1, <1>2, <1>8, <2>3, <2>7, <2>8, <2>10, CrewKeeps
<1>11. CASE heap[f].value < 0
  <2>1. PICK q \in Procs :
           /\ isIn(q, heap[f].blockedQueue) /\ q \in Waiting(Readers) /\ Woken(heap[f], Blocked) = {q}
           /\ keeps(x, Waiting(Readers) \ {q}) /\ x.value <= 0
    BY <1>6, <1>11, PostWakes
  <2>2. q \in Crew /\ q \in Readers /\ q \notin Writers /\ status[q] = "BLOCKED"
    BY <2>1, Kinds DEF Waiting, Crew
  <2> HIDE DEF x
  <2>3. status' = [r \in Procs |-> IF r \in {q} THEN "READY" ELSE status[r]]
    BY <1>4, <2>1
  <2>4. semsMove(e, l, f) /\ heap'[f] = x /\ heap'[e] = heap[e] /\ heap'[l] = heap[l]
    <3>1. x \in Sems /\ e # l /\ e # f /\ l # f
      BY <1>2, <2>1 DEF keeps, sems
    <3>. QED
      BY <1>1, <1>2, <1>5, <3>1, OneSemMoves
  <2>5. /\ Crew' = Crew /\ p # q /\ pc'[q] = 2
        /\ status' \in [Procs -> {"FREE", "READY", "BLOCKED", "DEAD"}] /\ status'[q] = "READY"
        /\ \A r \in Procs \ {q} : status'[r] = status[r]
        /\ \A r \in Procs : (Mid(r)' <=> r = q) /\ ~Locks(r)'
        /\ Waiting(Writers)' = Waiting(Writers) \ {q}
        /\ Waiting(Readers)' = Waiting(Readers) \ {q}
    BY <1>1, <1>3, <1>7, <2>2, <2>3, Wakes
  <2>6. Turn'
    <3>1. \A r \in Writers \cup Readers : r \in Procs
      BY Kinds, Numbers
    <3>2. \A r \in Crew : status'[r] = "BLOCKED" => r # q /\ r # p /\ r \in Procs
      BY <1>1, <2>5, Kinds, Numbers DEF Crew
    <3>. QED
      BY <1>1, <1>3, <1>7, <2>2, <2>5, <3>1, <3>2 DEF Turn
  <2>7. Carries'
    <3>1. \A r \in Readers : r \in Procs
      BY Kinds, Numbers
    <3>. QED
      BY <1>1, <1>7, <2>2, <2>5, <3>1, CarriesOn
  <2>8. crewMoves
    BY <1>1, <1>4, <1>7, <2>2, <2>5 DEF Alive, crewMoves
  <2>9. Waiting(Writers)' = Waiting(Writers)
    BY <2>2, <2>5 DEF Waiting
  <2>10. batonNext(e, l, f)
    <3>1. keeps(heap'[e], {}) /\ heap'[e].value = 1 /\ ~\E r \in Procs : Locks(r)'
      BY <1>2, <1>9, <2>4, <2>5 DEF baton
    <3>. QED
      BY <1>2, <1>6, <2>1, <2>4, <2>5, <2>6, <2>9, <3>1 DEF baton, batonNext
  <2>. QED
    BY <1>1, <1>2, <1>8, <2>4, <2>7, <2>8, <2>10, CrewKeeps
<1>. QED
  BY <1>6, <1>10, <1>11

\* The last post of a reader: the turn goes to libre, or to the writer that waits longest.
LEMMA GivesToWriters ==
    ASSUME Mvar, MvarInv, NEW p \in SyncProcs, p \in Readers, status[p] = "READY", p # M, pc[p] = 5,
           sharedSemPost("libre"), pc' = [pc EXCEPT ![p] = 6],
           UNCHANGED <<session, run, foregroundSet, slotValue, ch, unread>>
    PROVE  MvarInv'
<1>1. /\ Types /\ Roster /\ Carries /\ Turn
      /\ MainOn /\ p \in Crew /\ p.run = run /\ p \in Procs /\ Stage >= 8
      /\ p \in Writers \/ p \in Readers
      /\ p \in Writers => p \notin Readers
      /\ p \in Readers => p \notin Writers
  BY InCrew
<1>2. PICK e, l, f : sems(e, l, f) /\ baton(e, l, f)
  BY InCrew
<1>3. Mid(p) /\ ~Locks(p) /\ (unread <=> FALSE)
  BY <1>1 DEF Mid, Locks, Turn
<1> DEFINE x == semPost(heap[l], Blocked)
<1>4. /\ heap' = [heap EXCEPT ![l] = x]
      /\ status' = [q \in Procs |-> IF q \in Woken(heap[l], Blocked) THEN "READY" ELSE status[q]]
      /\ table' = table
  <2>1. names(table, "libre", l) /\ tableOK(table, heap)
    BY <1>1, <1>2 DEF sems, Types
  <2>. QED
    BY <2>1, PostOn
<1>5. becomes(l, x)
  BY <1>4 DEF becomes
<1>6. /\ keeps(heap[l], Waiting(Writers)) /\ heap[l].value \in Int /\ heap[l].value <= 0
      /\ Waiting(Writers) \subseteq Blocked /\ heap[f].value # 1
  <2>1. keeps(heap[l], Waiting(Writers)) /\ heap[l].value # 1 /\ heap[f].value # 1
    BY <1>1, <1>2, <1>3 DEF baton, NoMid
  <2>2. Waiting(Writers) \subseteq Blocked
    BY Kinds, Numbers DEF Waiting, Blocked
  <2>. QED
    BY <2>1, <2>2 DEF keeps, Sems
<1>7. moves(p) /\ pc'[p] = 6 /\ pc' \in [Procs -> Nat] /\ \A q \in Procs \ {p} : pc'[q] = pc[q]
  BY <1>1, Moves DEF moves
<1>8. slotMoves
  BY <1>1 DEF slotMoves, Types
<1>9. \A q \in Procs : ~Locks(q) /\ (Mid(q) => q = p)
  BY <1>1, <1>3 DEF Turn, Locks
<1>10. CASE heap[l].value = 0
  <2>1. Woken(heap[l], Blocked) = {} /\ keeps(x, Waiting(Writers)) /\ x.value = 1
    BY <1>6, <1>10, PostFrees
  <2> HIDE DEF x
  <2>2. status' = status
    BY <1>1, <1>4, <2>1 DEF Types
  <2>3. semsMove(e, l, f) /\ heap'[l] = x /\ heap'[e] = heap[e] /\ heap'[f] = heap[f]
    <3>1. x \in Sems /\ e # l /\ e # f /\ l # f
      BY <1>2, <2>1 DEF keeps, sems
    <3>. QED
      BY <1>1, <1>2, <1>5, <3>1, OneSemMoves
  <2>4. /\ \A q \in Procs \ {p} : (Mid(q)' <=> Mid(q)) /\ (Locks(q)' <=> Locks(q))
        /\ ~Mid(p)' /\ ~Locks(p)'
        /\ Waiting(Writers)' = Waiting(Writers) /\ Waiting(Readers)' = Waiting(Readers)
        /\ Crew' = Crew
    BY <1>1, <1>7, <2>2, MovesOn
  <2>5. \A q \in Procs : ~Mid(q)' /\ ~Locks(q)'
    BY <1>9, <2>4
  <2>6. Turn'
    <3>1. \A q \in Writers \cup Readers : q \in Procs
      BY Kinds, Numbers
    <3>2. \A q \in Crew : status[q] = "BLOCKED" => q # p /\ q \in Procs
      BY <1>1, Kinds, Numbers DEF Crew
    <3>. QED
      BY <1>1, <1>7, <2>2, <2>4, <2>5, <3>1, <3>2 DEF Turn
  <2>7. Carries'
    BY <1>1, <1>7, <2>2, CarriesOn, Kinds, Numbers
  <2>8. crewMoves
    BY <1>1, <1>4, <1>7, <2>2 DEF Alive, crewMoves, Types
  <2>9. NoMid'
    BY <2>5 DEF NoMid
  <2>10. batonNext(e, l, f)
    BY <1>2, <1>3, <1>6, <1>9, <2>1, <2>3, <2>4, <2>5, <2>6, <2>9 DEF baton, batonNext
  <2>. QED
    BY <1>1, <1>2, <1>8, <2>3, <2>7, <2>8, <2>10, CrewKeeps
<1>11. CASE heap[l].value < 0
  <2>1. PICK q \in Procs :
           /\ isIn(q, heap[l].blockedQueue) /\ q \in Waiting(Writers) /\ Woken(heap[l], Blocked) = {q}
           /\ keeps(x, Waiting(Writers) \ {q}) /\ x.value <= 0
    BY <1>6, <1>11, PostWakes
  <2>2. q \in Crew /\ q \in Writers /\ q \notin Readers /\ status[q] = "BLOCKED"
    BY <2>1, Kinds DEF Waiting, Crew
  <2> HIDE DEF x
  <2>3. status' = [r \in Procs |-> IF r \in {q} THEN "READY" ELSE status[r]]
    BY <1>4, <2>1
  <2>4. semsMove(e, l, f) /\ heap'[l] = x /\ heap'[e] = heap[e] /\ heap'[f] = heap[f]
    <3>1. x \in Sems /\ e # l /\ e # f /\ l # f
      BY <1>2, <2>1 DEF keeps, sems
    <3>. QED
      BY <1>1, <1>2, <1>5, <3>1, OneSemMoves
  <2>5. /\ Crew' = Crew /\ p # q /\ pc'[q] = 2
        /\ status' \in [Procs -> {"FREE", "READY", "BLOCKED", "DEAD"}] /\ status'[q] = "READY"
        /\ \A r \in Procs \ {q} : status'[r] = status[r]
        /\ \A r \in Procs : (Mid(r)' <=> r = q) /\ ~Locks(r)'
        /\ Waiting(Writers)' = Waiting(Writers) \ {q}
        /\ Waiting(Readers)' = Waiting(Readers) \ {q}
    BY <1>1, <1>3, <1>7, <2>2, <2>3, Wakes
  <2>6. Turn'
    <3>1. \A r \in Writers \cup Readers : r \in Procs
      BY Kinds, Numbers
    <3>2. \A r \in Crew : status'[r] = "BLOCKED" => r # q /\ r # p /\ r \in Procs
      BY <1>1, <2>5, Kinds, Numbers DEF Crew
    <3>. QED
      BY <1>1, <1>3, <1>7, <2>2, <2>5, <3>1, <3>2 DEF Turn
  <2>7. Carries'
    <3>1. \A r \in Readers : r \in Procs
      BY Kinds, Numbers
    <3>. QED
      BY <1>1, <1>7, <2>2, <2>5, <3>1, CarriesOn
  <2>8. crewMoves
    BY <1>1, <1>4, <1>7, <2>2, <2>5 DEF Alive, crewMoves
  <2>9. Waiting(Readers)' = Waiting(Readers)
    BY <2>2, <2>5 DEF Waiting
  <2>10. batonNext(e, l, f)
    <3>1. keeps(heap'[e], {}) /\ heap'[e].value = 1 /\ ~\E r \in Procs : Locks(r)'
      BY <1>2, <1>9, <2>4, <2>5 DEF baton
    <3>. QED
      BY <1>2, <1>6, <2>1, <2>4, <2>5, <2>6, <2>9, <3>1 DEF baton, batonNext
  <2>. QED
    BY <1>1, <1>2, <1>8, <2>4, <2>7, <2>8, <2>10, CrewKeeps
<1>. QED
  BY <1>6, <1>10, <1>11

LEMMA WorkersKeep ==
    ASSUME Mvar, MvarInv, NEW p \in SyncProcs, p # M, Step(p)
    PROVE  MvarInv'
<1>1. status[p] = "READY" /\ Types /\ Roster
  BY DEF Step, MvarInv
<1>2. /\ p \in Writers \/ p \in Readers
      /\ p \in Writers => pc[p] \in 1 .. 5
      /\ p \in Readers => pc[p] \in 1 .. 6
  BY <1>1, WorkerFacts
<1>3. CASE p \in Writers
  <2>1. /\ UNCHANGED <<session, run, foregroundSet, global, aux, ch>>
        /\ pc' = [pc EXCEPT ![p] = IF pc[p] = 5 THEN 1 ELSE pc[p] + 1]
        /\ \/ pc[p] = 1 /\ sharedSemWait("libre", p) /\ UNCHANGED <<slotValue, unread>>
           \/ pc[p] = 2 /\ sharedSemWait("excl", p) /\ UNCHANGED <<slotValue, unread>>
           \/ pc[p] = 3 /\ slotValue' = p.i /\ unread' = TRUE /\ UNCHANGED sharedVars
           \/ pc[p] = 4 /\ sharedSemPost("excl") /\ UNCHANGED <<slotValue, unread>>
           \/ pc[p] = 5 /\ sharedSemPost("lleno") /\ UNCHANGED <<slotValue, unread>>
    BY <1>1, <1>2, <1>3, WriterSteps
  <2>2. CASE pc[p] = 1 /\ sharedSemWait("libre", p) /\ UNCHANGED <<slotValue, unread>>
    <3>1. pc' = [pc EXCEPT ![p] = 2]
      BY <2>1, <2>2
    <3>. QED
      BY <1>1, <1>3, <2>1, <2>2, <3>1, WaitsForLibre
  <2>3. CASE pc[p] = 2 /\ sharedSemWait("excl", p) /\ UNCHANGED <<slotValue, unread>>
    <3>1. pc' = [pc EXCEPT ![p] = 3]
      BY <2>1, <2>3
    <3>. QED
      BY <1>1, <2>1, <2>3, <3>1, TakesLock
  <2>4. CASE pc[p] = 3 /\ slotValue' = p.i /\ unread' = TRUE /\ UNCHANGED sharedVars
    <3>1. pc' = [pc EXCEPT ![p] = 4]
      BY <2>1, <2>4
    <3>. QED
      BY <1>1, <1>3, <2>1, <2>4, <3>1, Writes
  <2>5. CASE pc[p] = 4 /\ sharedSemPost("excl") /\ UNCHANGED <<slotValue, unread>>
    <3>1. pc' = [pc EXCEPT ![p] = 5]
      BY <2>1, <2>5
    <3>. QED
      BY <1>1, <2>1, <2>5, <3>1, GivesLock
  <2>6. CASE pc[p] = 5 /\ sharedSemPost("lleno") /\ UNCHANGED <<slotValue, unread>>
    <3>1. pc' = [pc EXCEPT ![p] = 1]
      BY <2>1, <2>6
    <3>. QED
      BY <1>1, <1>3, <2>1, <2>6, <3>1, GivesToReaders
  <2>. QED
    BY <2>1, <2>2, <2>3, <2>4, <2>5, <2>6
<1>4. CASE p \in Readers
  <2>1. /\ UNCHANGED <<session, run, foregroundSet, global, aux, slotValue>>
        /\ pc' = [pc EXCEPT ![p] = IF pc[p] = 6 THEN 1 ELSE pc[p] + 1]
        /\ \/ pc[p] = 1 /\ sharedSemWait("lleno", p) /\ UNCHANGED <<ch, unread>>
           \/ pc[p] = 2 /\ sharedSemWait("excl", p) /\ UNCHANGED <<ch, unread>>
           \/ /\ pc[p] = 3 /\ ch' = [ch EXCEPT ![p] = slotValue] /\ unread' = FALSE
              /\ UNCHANGED sharedVars
           \/ pc[p] = 4 /\ sharedSemPost("excl") /\ UNCHANGED <<ch, unread>>
           \/ pc[p] = 5 /\ sharedSemPost("libre") /\ UNCHANGED <<ch, unread>>
           \/ /\ pc[p] = 6 /\ ch' = [ch EXCEPT ![p] = Zero] /\ unread' = unread
              /\ UNCHANGED sharedVars
    BY <1>1, <1>2, <1>4, ReaderSteps
  <2>2. CASE pc[p] = 1 /\ sharedSemWait("lleno", p) /\ UNCHANGED <<ch, unread>>
    <3>1. pc' = [pc EXCEPT ![p] = 2]
      BY <2>1, <2>2
    <3>. QED
      BY <1>1, <1>4, <2>1, <2>2, <3>1, WaitsForLleno
  <2>3. CASE pc[p] = 2 /\ sharedSemWait("excl", p) /\ UNCHANGED <<ch, unread>>
    <3>1. pc' = [pc EXCEPT ![p] = 3]
      BY <2>1, <2>3
    <3>. QED
      BY <1>1, <2>1, <2>3, <3>1, TakesLock
  <2>4. CASE pc[p] = 3 /\ ch' = [ch EXCEPT ![p] = slotValue] /\ unread' = FALSE
             /\ UNCHANGED sharedVars
    <3>1. pc' = [pc EXCEPT ![p] = 4]
      BY <2>1, <2>4
    <3>. QED
      BY <1>1, <1>4, <2>1, <2>4, <3>1, Reads
  <2>5. CASE pc[p] = 4 /\ sharedSemPost("excl") /\ UNCHANGED <<ch, unread>>
    <3>1. pc' = [pc EXCEPT ![p] = 5]
      BY <2>1, <2>5
    <3>. QED
      BY <1>1, <2>1, <2>5, <3>1, GivesLock
  <2>6. CASE pc[p] = 5 /\ sharedSemPost("libre") /\ UNCHANGED <<ch, unread>>
    <3>1. pc' = [pc EXCEPT ![p] = 6]
      BY <2>1, <2>6
    <3>. QED
      BY <1>1, <1>4, <2>1, <2>6, <3>1, GivesToWriters
  <2>7. CASE pc[p] = 6 /\ ch' = [ch EXCEPT ![p] = Zero] /\ unread' = unread /\ UNCHANGED sharedVars
    <3>1. pc' = [pc EXCEPT ![p] = 1]
      BY <2>1, <2>7
    <3>. QED
      BY <1>1, <1>4, <2>1, <2>7, <3>1, Prints
  <2>. QED
    BY <2>1, <2>2, <2>3, <2>4, <2>5, <2>6, <2>7
<1>. QED
  BY <1>2, <1>3, <1>4

-----------------------------------------------------------------------------
(* Commands start and are ended by Ctrl+C *)

LEMMA StartKeeps ==
    ASSUME OneAtATime, Mvar, MvarInv, Start
    PROVE  MvarInv'
<1>1. Types /\ Roster /\ Opened /\ Queued /\ Carries
  BY DEF MvarInv
<1> DEFINE N == Proc("main", 0, run + 1)
<1>2. run \in Nat /\ run + 1 \in 1 .. Len(session) /\ Len(session) \in Nat
  BY <1>1 DEF Start, Types, Mvar
<1>3. session[run + 1] = "mvar" /\ run + 1 \in Runs
  BY <1>1, <1>2, MvarRuns
<1>4. N \in Mains /\ N.run = run + 1 /\ N \in Procs /\ N \notin Writers \cup Readers \cup Adders
  BY <1>3, Kinds, Records, Numbers
<1>5. ~MainOn
  BY MainFacts, <1>1 DEF Start, OneAtATime, MainOn, Alive
<1>6. \A p \in Procs : ~Alive(p)
  BY <1>1, <1>5 DEF Roster
<1>7. M' = N /\ run' = run + 1 /\ session' = session
  BY DEF Start, M
<1>8. status' = [status EXCEPT ![N] = "READY"] /\ foregroundSet' = {N}
  BY <1>1, <1>5 DEF Start, Roster
<1>9. /\ UNCHANGED <<table, heap, pc, ch>>
      /\ slotValue' = 0 /\ unread' = FALSE
  BY <1>3 DEF Start, Zero
<1> HIDE DEF N
<1>10. /\ status' \in [Procs -> {"FREE", "READY", "BLOCKED", "DEAD"}] /\ status'[N] = "READY"
       /\ \A p \in Procs \ {N} : status'[p] = status[p]
  BY <1>1, <1>4, <1>8 DEF Types
<1>11. MainOn' /\ Stage' = 1
  <2>1. pc[N] = 1
    BY <1>1, <1>2, <1>4 DEF Roster
  <2>. QED
    BY <1>3, <1>7, <1>9, <1>10, <2>1 DEF MainOn, Stage
<1>12. Types'
  <2>1. run' \in 0 .. Len(session') /\ slotValue' \in 0 .. NWriters
    BY <1>2, <1>7, <1>9, Numbers
  <2>2. tableOK(table', heap')
    BY <1>1, <1>9 DEF Types
  <2>. QED
    BY <1>1, <1>4, <1>7, <1>8, <1>9, <1>10, <2>1, <2>2 DEF Types
<1>13. \A p \in Crew' : /\ p \in Procs \ {N} /\ p \in Writers \cup Readers /\ p.run = run + 1
                        /\ status[p] = "FREE" /\ status'[p] = "FREE" /\ pc[p] = 1
                        /\ createdAt(p) >= 7 /\ createdAt(p) \in Nat
  <2>1. \A p \in Crew' : p \in Procs \ {N} /\ p \in Writers \cup Readers /\ p.run = run + 1
    BY <1>4, <1>7, Kinds, Numbers DEF Crew
  <2>2. \A p \in Crew' : status[p] = "FREE" /\ pc[p] = 1
    BY <1>1, <1>2, <2>1 DEF Roster
  <2>. QED
    BY <1>10, <2>1, <2>2, CreatedAt, AtYield
<1>14. Roster'
  <2>1. \A p \in Procs : Alive(p)' => p = N
    BY <1>6, <1>10 DEF Alive
  <2>2. /\ \A p \in Mains : status'[p] # "BLOCKED"
        /\ \A p \in Adders : status'[p] = "FREE"
    BY <1>1, <1>4, <1>10, Kinds, Numbers DEF Roster
  <2>3. \A p \in Procs : p.run > run + 1 => status'[p] = "FREE" /\ pc[p] = 1
    <3>1. \A p \in Procs : p.run > run + 1 => p # N /\ p.run > run
      <4>1. \A p \in Procs : p.run \in Nat
        BY Kinds, Numbers DEF Runs
      <4>. QED
        BY <1>2, <1>4, <4>1
    <3>. QED
      BY <1>1, <1>10, <3>1 DEF Roster
  <2>4. /\ Stage' \in 1 .. Last
        /\ foregroundSet' = {N} \cup {p \in Crew' : Stage' > createdAt(p) + 1}
        /\ \A p \in Crew' : ~(Stage' > createdAt(p))
    BY <1>8, <1>11, <1>13, AtYield
  <2>. QED
    BY <1>1, <1>4, <1>7, <1>9, <1>11, <1>13, <2>1, <2>2, <2>3, <2>4 DEF Roster
<1>15. Opened'
  <2>1. DOMAIN heap \subseteq 1 .. 3 * run /\ 3 * (run + 1) - 3 = 3 * run
    BY <1>1, <1>2, <1>5 DEF Opened
  <2>2. unopened(Stage') = 3
    BY <1>11 DEF unopened
  <2>. QED
    BY <1>1, <1>7, <1>9, <1>11, <2>1, <2>2 DEF Opened
<1>16. Queued'
  <2>1. \A p \in Procs : status[p] = "DEAD" => status'[p] = "DEAD"
    <3>1. status[N] = "FREE"
      BY <1>1, <1>2, <1>4 DEF Roster
    <3>. QED
      BY <1>10, <3>1
  <2>. QED
    BY <1>1, <1>5, <1>9, <2>1 DEF Queued
<1>17. Baton'
  <2>1. \A p \in Procs : ~Mid(p)'
    BY <1>13 DEF Mid
  <2>2. Turn'
    BY <1>13, <2>1, Kinds, Numbers DEF Turn
  <2>. QED
    BY <1>9, <1>11, <2>2 DEF Baton
<1>18. Carries'
  <2>1. \A r \in Readers : ch[r] = 0
    BY <1>1, <1>6, Kinds, Numbers DEF Carries, Alive
  <2>. QED
    BY <1>9, <2>1 DEF Carries
<1>. QED
  BY <1>12, <1>14, <1>15, <1>16, <1>17, <1>18 DEF MvarInv

\* Ctrl+C comes at the yield, with every worker in the foreground.
LEMMA KillsTheCrew ==
    ASSUME OneAtATime, Mvar, Types, Roster, CtrlC
    PROVE  /\ MainOn /\ Stage = Last /\ \A p \in Crew : p \in foregroundSet
           /\ M \in foregroundSet /\ \A p \in foregroundSet : p = M \/ p \in Crew
<1>1. MainOn
  BY DEF CtrlC, Roster
<1>2. M \in Mains /\ M.run = run /\ run \in Runs /\ Stage \in 1 .. Last
  BY <1>1, MainFacts
<1>3. session[run] = "mvar"
  <2>1. run \in 1 .. Len(session)
    BY <1>1 DEF Types, MainOn, Runs
  <2>. QED
    BY <2>1, MvarRuns
<1>4. mvarCommand[Stage][1] = "yield"
  <2>1. Program(M) = mvarCommand
    BY <1>2, <1>3, Programs
  <2>2. Alive(M)
    BY <1>1 DEF MainOn, Alive
  <2>. QED
    BY <1>2, <2>1, <2>2 DEF CtrlC, OneAtATime, Stage
<1>5. Stage = Last
  <2>1. \A k, n : <<k, n>>[1] = k
    OBVIOUS
  <2>2. \A k, n, v : <<k, n, v>>[1] = k
    OBVIOUS
  <2>3. \A j \in 1 .. 6 : mvarCommand[j][1] # "yield"
    BY MvarSteps
  <2>4. \A j \in 7 .. Last - 1 : mvarCommand[j][1] # "yield"
    BY <2>2, MvarSteps
  <2>. QED
    BY <1>2, <1>4, <2>3, <2>4, AtYield
<1>6. \A p \in Crew : Last > createdAt(p) + 1
  BY CreatedAt, AtYield DEF Crew
<1>. QED
  BY <1>1, <1>5, <1>6 DEF Roster

LEMMA CtrlCKeeps ==
    ASSUME OneAtATime, Mvar, MvarInv, CtrlC
    PROVE  MvarInv'
<1>1. Types /\ Roster /\ Opened /\ Queued /\ Baton /\ Carries
  BY DEF MvarInv
<1>2. /\ MainOn /\ Stage = Last /\ \A p \in Crew : p \in foregroundSet
      /\ M \in foregroundSet /\ \A p \in foregroundSet : p = M \/ p \in Crew
  BY <1>1, KillsTheCrew
<1>3. /\ M \in Mains /\ M.run = run /\ M \in Procs /\ Crew \subseteq Procs /\ M \notin Crew
      /\ run \in Nat /\ \A p \in Mains : p.run = run => p = M
  BY <1>1, <1>2, MainFacts
<1>4. /\ status' \in [Procs -> {"FREE", "READY", "BLOCKED", "DEAD"}] /\ pc' \in [Procs -> Nat]
      /\ \A p \in Procs : /\ status'[p] = IF p \in foregroundSet THEN "DEAD" ELSE status[p]
                          /\ pc'[p] = IF p \in foregroundSet THEN 1 ELSE pc[p]
      /\ foregroundSet' = {} /\ UNCHANGED <<table, heap, session, run, slotValue, unread>>
      /\ ch' = [r \in Readers |-> IF r \in foregroundSet THEN 0 ELSE ch[r]]
  BY <1>1 DEF CtrlC, Types, Zero
<1>5. M' = M /\ Crew' = Crew /\ ~MainOn'
  BY <1>2, <1>3, <1>4 DEF M, MainOn, Crew
<1>6. \A p \in Procs : ~Alive(p)'
  <2>1. \A p \in Procs : Alive(p) => p = M \/ p \in Crew
    BY <1>1, <1>3, Kinds, Numbers DEF Roster, Crew
  <2>. QED
    BY <1>2, <1>4, <2>1 DEF Alive
<1>7. Types'
  BY <1>1, <1>4 DEF Types
<1>8. Roster'
  <2>1. \A p \in Procs : p.run > run => p \notin foregroundSet
    BY <1>2, <1>3 DEF Crew
  <2>2. \A p \in Adders : p \notin foregroundSet /\ p \in Procs
    BY <1>2, <1>3, Kinds, Numbers DEF Crew
  <2>3. \A p \in Mains : status'[p] # "BLOCKED"
    BY <1>6, Kinds, Numbers DEF Alive
  <2>4. (\A p \in Writers : pc'[p] \in 1 .. 5) /\ (\A p \in Readers : pc'[p] \in 1 .. 6)
    BY <1>1, <1>4, Kinds, Numbers DEF Roster
  <2>. QED
    BY <1>1, <1>4, <1>5, <1>6, <2>1, <2>2, <2>3, <2>4 DEF Roster
<1>9. Opened'
  <2>1. unopened(Stage) = 0
    BY <1>2, AtYield DEF unopened
  <2>. QED
    BY <1>1, <1>2, <1>4, <1>5, <2>1 DEF Opened
<1>10. Queued'
  <2>1. Stage >= 7 /\ Stage \in Nat
    BY <1>2, AtYield
  <2>2. PICK e, l, f : sems(e, l, f)
    BY <1>1, <1>2, <2>1, TheSems
  <2>3. baton(e, l, f)
    BY <1>1, <1>2, <2>1, <2>2, BatonIs
  <2>4. ASSUME NEW s \in DOMAIN heap, NEW p \in Procs, isIn(p, heap[s].blockedQueue)
        PROVE  status'[p] = "DEAD"
    <3>1. CASE status[p] = "DEAD"
      BY <1>4, <3>1
    <3>2. CASE status[p] # "DEAD"
      <4>1. s = l \/ s = f
        BY <1>1, <2>2, <2>4, <3>2 DEF Queued, sems
      <4>2. p \in Waiting(Writers) \/ p \in Waiting(Readers)
        BY <2>3, <2>4, <4>1 DEF baton, keeps
      <4>3. p \in Crew
        BY <4>2 DEF Waiting, Crew
      <4>. QED
        BY <1>2, <1>4, <4>3
    <3>. QED
      BY <3>1, <3>2
  <2>. QED
    BY <1>4, <2>4 DEF Queued
<1>11. Baton'
  BY <1>5 DEF Baton
<1>12. Carries'
  <2>1. \A r \in Readers : ch[r] # 0 => r \in foregroundSet
    BY <1>1, <1>2 DEF Carries, Crew
  <2>. QED
    BY <1>4, <2>1 DEF Carries
<1>. QED
  BY <1>7, <1>8, <1>9, <1>10, <1>11, <1>12 DEF MvarInv

-----------------------------------------------------------------------------
(* What holds in every state of a run of test_sync *)

T == Proc("main", 0, 1)
Ends == 4 * NPairs + 1

PerAdder == 4 * Iterations

\* The step of an adder: from its open to its close, and which of wait, load,
\* store and post it is at.
inside(p) == pc[p] \in 2 .. PerAdder + 1
quarter(p) == (pc[p] - 2) % 4

\* Adders with the semaphore open, and the one between its wait and its post.
Openers == {p \in Adders : Alive(p) /\ pc[p] \in 2 .. PerAdder + 2}
Adding(p) == p \in Adders /\ status[p] = "READY" /\ inside(p) /\ quarter(p) # 0
NoneAdding == \A p \in Procs : ~Adding(p)
Asleep == {p \in Adders : status[p] = "BLOCKED"}

TestTypes ==
    /\ session = <<"test_sync">> /\ session \in Sessions /\ run \in {0, 1}
    /\ status \in [Procs -> {"FREE", "READY", "BLOCKED", "DEAD"}] /\ pc \in [Procs -> Nat]
    /\ tableOK(table, heap)
    /\ global \in Int /\ aux \in [Adders -> Int]
    /\ unread = FALSE /\ ch = [r \in Readers |-> 0]

TestRoster ==
    /\ \A p \in Procs : p \notin Adders /\ p # T => status[p] = "FREE"
    /\ IF run = 0 THEN status[T] = "FREE" /\ pc[T] = 1 ELSE status[T] \in {"READY", "DEAD"}
    /\ foregroundSet = IF status[T] = "READY" THEN {T} ELSE {}
    /\ pc[T] \in 1 .. Ends
    /\ \A p \in Adders : /\ pc[p] \in 1 .. PerAdder + 3
                         /\ pc[T] <= p.i => status[p] = "FREE" /\ pc[p] = 1
                         /\ pc[T] > p.i => status[p] # "FREE"
                         /\ pc[T] > 2 * NPairs + p.i => status[p] = "DEAD"

\* The name is there while an adder has it open.
TestOpened ==
    /\ \A i \in Slots : table[i].used =>
          table[i].name = "sem" /\ table[i].refCount = Cardinality(Openers)
    /\ closed(table, "sem") <=> Openers = {}
    /\ \A s \in DOMAIN heap : names(table, "sem", s)

\* One adder at a time is between load and store, and what it loaded is current.
TestBaton ==
    /\ \A s \in DOMAIN heap : keeps(heap[s], Asleep) /\ (heap[s].value = 1 => NoneAdding)
    /\ \A p, q \in Procs : Adding(p) /\ Adding(q) => p = q
    /\ \A p \in Asleep : inside(p) /\ quarter(p) = 1
    /\ \A p \in Adders : Adding(p) /\ quarter(p) = 2 => aux[p] = global

\* The increments and decrements that were stored.
stored(p) == IF status[p] = "DEAD" THEN Iterations ELSE (pc[p] - 1) \div 4
Stores(r) == {x \in Adders \X (1 .. Iterations) : x[1].i % 2 = r /\ x[2] <= stored(x[1])}
TestSum == global = Cardinality(Stores(0)) - Cardinality(Stores(1))

TestInv == TestTypes /\ TestRoster /\ TestOpened /\ TestBaton /\ TestSum

-----------------------------------------------------------------------------
(* The steps of test_sync_command and of its processes *)

Test == session = <<"test_sync">>

LEMMA Quarters ==
    ASSUME NEW c \in Nat, c >= 1
    PROVE  /\ (c - 2) % 4 \in {0, 1, 2, 3}
           /\ (c - 2) % 4 # 3 => (c + 1 - 2) % 4 = ((c - 2) % 4) + 1
           /\ (c - 2) % 4 = 3 => (c + 1 - 2) % 4 = 0
           /\ (c - 1) \div 4 \in Nat
           /\ (c - 2) % 4 # 2 => (c + 1 - 1) \div 4 = (c - 1) \div 4
           /\ (c - 2) % 4 = 2 => (c + 1 - 1) \div 4 = ((c - 1) \div 4) + 1
  OBVIOUS

LEMMA InAdder ==
    ASSUME NEW c \in Nat
    PROVE  /\ c \in 2 .. PerAdder + 1 => (c - 1) \div 4 <= Iterations
           /\ c \in 2 .. PerAdder + 1 /\ (c - 2) % 4 = 2 => ((c - 1) \div 4) + 1 <= Iterations
           /\ c \in 2 .. PerAdder + 1 /\ (c - 2) % 4 # 3 => c + 1 \in 2 .. PerAdder + 1
           /\ c = PerAdder + 2 => (c - 2) % 4 = 0 /\ (c - 1) \div 4 = Iterations
           /\ c = PerAdder + 3 => (c - 2) % 4 = 1 /\ (c - 1) \div 4 = Iterations
  BY Numbers DEF PerAdder

LEMMA AdderProgram ==
    /\ Len(my_process_inc) = PerAdder + 3
    /\ my_process_inc[1] = <<"open", "sem", 1>>
    /\ \A c \in 2 .. PerAdder + 1 :
          /\ (c - 2) % 4 = 0 => my_process_inc[c] = <<"wait", "sem">>
          /\ (c - 2) % 4 = 1 => my_process_inc[c] = <<"load">>
          /\ (c - 2) % 4 = 2 => my_process_inc[c] = <<"store">>
          /\ (c - 2) % 4 = 3 => my_process_inc[c] = <<"post", "sem">>
    /\ my_process_inc[PerAdder + 2] = <<"close", "sem">>
    /\ my_process_inc[PerAdder + 3] = <<"exit">>
<1> DEFINE A == <<<<"open", "sem", 1>>>>
           S == {<<"wait", "sem">>, <<"load">>, <<"store">>, <<"post", "sem">>}
           F == [j \in 1 .. PerAdder |-> Increment[((j - 1) % 4) + 1]]
           Z == <<<<"close", "sem">>, <<"exit">>>>
<1>1. Len(A) = 1 /\ A \in Seq({<<"open", "sem", 1>>}) /\ A[1] = <<"open", "sem", 1>>
  OBVIOUS
<1>2. Z \in Seq({<<"close", "sem">>, <<"exit">>})
  OBVIOUS
<1>3. Len(Z) = 2 /\ Z[1] = <<"close", "sem">> /\ Z[2] = <<"exit">>
  BY <1>2
<1>4. /\ Increment[1] = <<"wait", "sem">> /\ Increment[2] = <<"load">>
      /\ Increment[3] = <<"store">> /\ Increment[4] = <<"post", "sem">>
  BY DEF Increment
<1>5. PerAdder \in Nat
  BY Numbers DEF PerAdder
<1>6. /\ F \in Seq(S) /\ Len(F) = PerAdder
      /\ \A j \in 1 .. PerAdder : F[j] = Increment[((j - 1) % 4) + 1]
  <2>1. \A j \in 1 .. PerAdder : Increment[((j - 1) % 4) + 1] \in S
    <3>1. ASSUME NEW j \in 1 .. PerAdder
          PROVE  (j - 1) % 4 \in {0, 1, 2, 3}
      BY <1>5
    <3>2. \A m \in {0, 1, 2, 3} : Increment[m + 1] \in S
      BY <1>4
    <3>. QED
      BY <3>1, <3>2
  <2> HIDE DEF S
  <2>2. F \in [1 .. PerAdder -> S]
    BY <2>1
  <2> HIDE DEF F
  <2>3. F \in Seq(S) /\ Len(F) = PerAdder
    BY <1>5, <2>2, SeqDef
  <2>. QED
    BY <2>3 DEF F
<1>7. my_process_inc = (A \o F) \o Z
  BY DEF my_process_inc, PerAdder
<1> HIDE DEF A, F, Z, S
<1> DEFINE B == A \o F
<1>8. /\ \E U : B \in Seq(U)
      /\ Len(B) = 1 + PerAdder
      /\ \A i \in 1 .. 1 + PerAdder : B[i] = IF i <= 1 THEN A[i] ELSE F[i - 1]
  <2>1. /\ \E U : A \o F \in Seq(U)
        /\ Len(A \o F) = Len(A) + Len(F)
        /\ \A i \in 1 .. Len(A) + Len(F) : (A \o F)[i] = IF i <= Len(A) THEN A[i] ELSE F[i - Len(A)]
    BY <1>1, <1>6, Joined
  <2>. QED
    BY <1>1, <1>6, <2>1
<1> HIDE DEF B
<1>9. /\ Len(my_process_inc) = 3 + PerAdder
      /\ \A i \in 1 .. 3 + PerAdder : my_process_inc[i] = IF i <= 1 + PerAdder THEN B[i] ELSE Z[i - 1 - PerAdder]
  <2>1. PICK U : B \in Seq(U)
    BY <1>8
  <2>2. /\ Len(B \o Z) = Len(B) + Len(Z)
        /\ \A i \in 1 .. Len(B) + Len(Z) : (B \o Z)[i] = IF i <= Len(B) THEN B[i] ELSE Z[i - Len(B)]
    BY <1>2, <2>1, Joined
  <2>3. Len(B) + Len(Z) = 3 + PerAdder /\ \A i \in 1 .. 3 + PerAdder : i - Len(B) = i - 1 - PerAdder
    BY <1>3, <1>5, <1>8
  <2>. QED
    BY <1>5, <1>7, <1>8, <2>2, <2>3 DEF B
<1>10. my_process_inc[1] = <<"open", "sem", 1>>
  BY <1>1, <1>5, <1>8, <1>9
<1>11. my_process_inc[PerAdder + 2] = <<"close", "sem">> /\ my_process_inc[PerAdder + 3] = <<"exit">>
  BY <1>3, <1>5, <1>9
<1>12. ASSUME NEW c \in 2 .. PerAdder + 1
       PROVE  my_process_inc[c] = Increment[((c - 2) % 4) + 1]
  <2>1. my_process_inc[c] = F[c - 1] /\ c - 1 \in 1 .. PerAdder
    BY <1>5, <1>8, <1>9
  <2>2. (c - 1) - 1 = c - 2
    OBVIOUS
  <2>. QED
    BY <1>6, <2>1, <2>2
<1>. QED
  BY <1>4, <1>5, <1>9, <1>10, <1>11, <1>12

LEMMA TestProgram ==
    /\ Len(test_sync_command) = Ends /\ Ends \in Nat
    /\ \A c \in 1 .. 2 * NPairs : test_sync_command[c] = <<"create", "adder", c>>
    /\ \A c \in 2 * NPairs + 1 .. 4 * NPairs : test_sync_command[c] = <<"waitpid", "adder", c - 2 * NPairs>>
    /\ test_sync_command[Ends] = <<"exit">>
<1> DEFINE N == 2 * NPairs
           S == {<<"create", "adder", i>> : i \in 1 .. N}
           R == {<<"waitpid", "adder", i>> : i \in 1 .. N}
           A == [i \in 1 .. N |-> <<"create", "adder", i>>]
           F == [i \in 1 .. N |-> <<"waitpid", "adder", i>>]
           Z == <<<<"exit">>>>
<1>1. N \in Nat /\ Ends = N + N + 1
  BY Numbers DEF Ends
<1>2. Len(Z) = 1 /\ Z \in Seq({<<"exit">>}) /\ Z[1] = <<"exit">>
  OBVIOUS
<1>3. A \in [1 .. N -> S] /\ F \in [1 .. N -> R]
  OBVIOUS
<1>4. /\ \A i \in 1 .. N : A[i] = <<"create", "adder", i>>
      /\ \A i \in 1 .. N : F[i] = <<"waitpid", "adder", i>>
  OBVIOUS
<1>5. test_sync_command = (A \o F) \o Z
  BY DEF test_sync_command
<1>0. N = 2 * NPairs
  OBVIOUS
<1> HIDE DEF A, F, Z, S, R, N
<1>6. A \in Seq(S) /\ Len(A) = N /\ F \in Seq(R) /\ Len(F) = N
  BY <1>1, <1>3, SeqDef
<1> DEFINE B == A \o F
<1>7. /\ \E U : B \in Seq(U)
      /\ Len(B) = N + N
      /\ \A i \in 1 .. N + N : B[i] = IF i <= N THEN A[i] ELSE F[i - N]
  <2>1. /\ \E U : A \o F \in Seq(U)
        /\ Len(A \o F) = Len(A) + Len(F)
        /\ \A i \in 1 .. Len(A) + Len(F) : (A \o F)[i] = IF i <= Len(A) THEN A[i] ELSE F[i - Len(A)]
    BY <1>6, Joined
  <2>. QED
    BY <1>6, <2>1
<1> HIDE DEF B
<1>8. /\ Len(test_sync_command) = N + N + 1
      /\ \A i \in 1 .. N + N + 1 : test_sync_command[i] = IF i <= N + N THEN B[i] ELSE Z[i - (N + N)]
  <2>1. PICK U : B \in Seq(U)
    BY <1>7
  <2>2. /\ Len(B \o Z) = Len(B) + Len(Z)
        /\ \A i \in 1 .. Len(B) + Len(Z) : (B \o Z)[i] = IF i <= Len(B) THEN B[i] ELSE Z[i - Len(B)]
    BY <1>2, <2>1, Joined
  <2>. QED
    BY <1>2, <1>5, <1>7, <2>2 DEF B
<1>9. \A c \in 1 .. N : test_sync_command[c] = <<"create", "adder", c>>
  BY <1>1, <1>4, <1>7, <1>8
<1>10. \A c \in N + 1 .. N + N : test_sync_command[c] = <<"waitpid", "adder", c - N>>
  <2>1. ASSUME NEW c \in N + 1 .. N + N
        PROVE  test_sync_command[c] = F[c - N] /\ c - N \in 1 .. N
    BY <1>1, <1>7, <1>8
  <2>. QED
    BY <1>4, <2>1
<1>11. test_sync_command[Ends] = <<"exit">>
  <2>1. Ends \in 1 .. N + N + 1 /\ ~(Ends <= N + N) /\ Ends - (N + N) = 1
    BY <1>1
  <2>. QED
    BY <1>2, <1>8, <2>1
<1>12. 2 * NPairs = N /\ 4 * NPairs = N + N /\ Ends \in Nat
  BY <1>1, <1>0, Numbers
<1>. QED
  BY <1>1, <1>8, <1>9, <1>10, <1>11, <1>12

LEMMA AdderSteps ==
    ASSUME NEW p \in Adders, pc \in [Procs -> Nat], pc[p] \in 1 .. PerAdder + 3, Step(p)
    PROVE  /\ UNCHANGED <<session, run, slotValue, ch, unread>>
           /\ pc' = [pc EXCEPT ![p] = IF pc[p] = PerAdder + 3 THEN 1 ELSE pc[p] + 1]
           /\ \/ pc[p] = 1 /\ sharedSemOpen("sem", 1) /\ UNCHANGED <<foregroundSet, global, aux>>
              \/ /\ pc[p] \in 2 .. PerAdder + 1 /\ (pc[p] - 2) % 4 = 0
                 /\ sharedSemWait("sem", p) /\ UNCHANGED <<foregroundSet, global, aux>>
              \/ /\ pc[p] \in 2 .. PerAdder + 1 /\ (pc[p] - 2) % 4 = 1
                 /\ aux' = [aux EXCEPT ![p] = global] /\ UNCHANGED <<sharedVars, foregroundSet, global>>
              \/ /\ pc[p] \in 2 .. PerAdder + 1 /\ (pc[p] - 2) % 4 = 2
                 /\ global' = aux[p] + (IF p.i % 2 = 1 THEN -1 ELSE 1)
                 /\ aux' = [aux EXCEPT ![p] = 0] /\ UNCHANGED <<sharedVars, foregroundSet>>
              \/ /\ pc[p] \in 2 .. PerAdder + 1 /\ (pc[p] - 2) % 4 = 3
                 /\ sharedSemPost("sem") /\ UNCHANGED <<foregroundSet, global, aux>>
              \/ /\ pc[p] = PerAdder + 2
                 /\ sharedSemClose("sem") /\ UNCHANGED <<foregroundSet, global, aux>>
              \/ /\ pc[p] = PerAdder + 3
                 /\ status' = [status EXCEPT ![p] = "DEAD"] /\ foregroundSet' = foregroundSet \ {p}
                 /\ UNCHANGED <<table, heap, global, aux>>
<1>0. PerAdder \in Nat
  BY Numbers DEF PerAdder
<1>1. Program(p) = my_process_inc /\ p \notin Mains
  BY Programs, Kinds
<1>2. does(p, my_process_inc[pc[p]])
  BY <1>1 DEF Step, does
<1>3. Advance(p) => pc' = [pc EXCEPT ![p] = IF pc[p] = PerAdder + 3 THEN 1 ELSE pc[p] + 1]
  <2>1. pc[p] < PerAdder + 3 <=> pc[p] # PerAdder + 3
    BY <1>0
  <2>. QED
    BY <1>1, <2>1, AdderProgram DEF Advance
<1>4. CASE pc[p] = 1
  <2>1. does(p, <<"open", "sem", 1>>)
    BY <1>2, <1>4, AdderProgram
  <2>. QED
    BY <1>3, <1>4, <2>1, ThreeSteps DEF progVars
<1>5. CASE pc[p] \in 2 .. PerAdder + 1
  <2>0. pc[p] \in Nat /\ pc[p] >= 1 /\ (pc[p] - 2) % 4 \in {0, 1, 2, 3}
    <3>1. pc[p] \in Nat /\ pc[p] >= 1
      BY <1>0, <1>5
    <3>. QED
      BY <3>1, Quarters
  <2>1. CASE (pc[p] - 2) % 4 = 0
    <3>1. does(p, <<"wait", "sem">>)
      BY <1>2, <1>5, <2>1, AdderProgram
    <3>. QED
      BY <1>3, <1>5, <2>1, <3>1, TwoSteps DEF progVars
  <2>2. CASE (pc[p] - 2) % 4 = 1
    <3>1. does(p, <<"load">>)
      BY <1>2, <1>5, <2>2, AdderProgram
    <3>. QED
      BY <1>3, <1>5, <2>2, <3>1, OneSteps
  <2>3. CASE (pc[p] - 2) % 4 = 2
    <3>1. does(p, <<"store">>)
      BY <1>2, <1>5, <2>3, AdderProgram
    <3>. QED
      BY <1>3, <1>5, <2>3, <3>1, OneSteps
  <2>4. CASE (pc[p] - 2) % 4 = 3
    <3>1. does(p, <<"post", "sem">>)
      BY <1>2, <1>5, <2>4, AdderProgram
    <3>. QED
      BY <1>3, <1>5, <2>4, <3>1, TwoSteps DEF progVars
  <2>. QED
    BY <2>0, <2>1, <2>2, <2>3, <2>4
<1>6. CASE pc[p] = PerAdder + 2
  <2>1. does(p, <<"close", "sem">>)
    BY <1>2, <1>6, AdderProgram
  <2>. QED
    BY <1>3, <1>6, <2>1, TwoSteps DEF progVars
<1>7. CASE pc[p] = PerAdder + 3
  <2>1. does(p, <<"exit">>)
    BY <1>2, <1>7, AdderProgram
  <2>. QED
    BY <1>3, <1>7, <2>1, OneSteps DEF progVars
<1>8. pc[p] = 1 \/ pc[p] \in 2 .. PerAdder + 1 \/ pc[p] = PerAdder + 2 \/ pc[p] = PerAdder + 3
  BY <1>0
<1>. QED
  BY <1>4, <1>5, <1>6, <1>7, <1>8

LEMMA TestFacts ==
    ASSUME Test, TestTypes
    PROVE  /\ 1 \in Runs /\ T \in Mains /\ T \in Procs /\ T \notin Adders /\ T.run = 1 /\ T.kind = "main"
           /\ session[1] = "test_sync" /\ Len(session) = 1 /\ MaxRuns >= 1
           /\ Program(T) = test_sync_command
<1>1. Len(session) = 1 /\ session[1] = "test_sync"
  BY DEF Test
<1>2. MaxRuns >= 1 /\ 1 \in Runs
  <2>1. session \in Sessions
    BY DEF TestTypes
  <2>2. Len(session) \in 0 .. MaxRuns /\ MaxRuns \in Nat
    BY <2>1, SyncAssumption
  <2> HIDE DEF MaxRuns
  <2>3. MaxRuns >= 1
    BY <1>1, <2>2
  <2>. QED
    BY <2>2, <2>3 DEF Runs
<1>3. T \in Mains /\ T.run = 1 /\ T.kind = "main" /\ T \in Procs
  BY <1>2, Kinds, Records, Numbers DEF T
<1>. QED
  BY <1>1, <1>2, <1>3, Programs, Kinds

LEMMA TestSteps ==
    ASSUME Test, TestTypes, pc[T] \in 1 .. Ends, Step(T)
    PROVE  /\ UNCHANGED <<session, run, table, heap, progVars>>
           /\ pc' = [pc EXCEPT ![T] = IF pc[T] < Ends THEN pc[T] + 1 ELSE pc[T]]
           /\ \/ \E q \in Adders : /\ pc[T] = q.i /\ status' = [status EXCEPT ![q] = "READY"]
                                    /\ UNCHANGED foregroundSet
              \/ \E q \in Adders : /\ pc[T] = 2 * NPairs + q.i /\ status[q] = "DEAD"
                                    /\ UNCHANGED <<status, foregroundSet>>
              \/ /\ pc[T] = Ends /\ status' = [status EXCEPT ![T] = "DEAD"]
                 /\ foregroundSet' = foregroundSet \ {T}
<1>1. Program(T) = test_sync_command /\ T \in Mains /\ T.run = 1
  BY TestFacts
<1>2. does(T, test_sync_command[pc[T]])
  BY <1>1 DEF Step, does
<1>3. Advance(T) => pc' = [pc EXCEPT ![T] = IF pc[T] < Ends THEN pc[T] + 1 ELSE pc[T]]
  BY <1>1, TestProgram DEF Advance
<1>4. \A i \in 1 .. 2 * NPairs : Proc("adder", i, T.run) \in Adders /\ Proc("adder", i, T.run).i = i
  BY <1>1, Kinds, Records
<1>5. CASE pc[T] \in 1 .. 2 * NPairs
  <2>1. does(T, <<"create", "adder", pc[T]>>)
    BY <1>2, <1>5, TestProgram
  <2>. QED
    BY <1>3, <1>4, <1>5, <2>1, ThreeSteps
<1>6. CASE pc[T] \in 2 * NPairs + 1 .. 4 * NPairs
  <2> DEFINE i == pc[T] - 2 * NPairs
  <2>1. does(T, <<"waitpid", "adder", i>>)
    BY <1>2, <1>6, TestProgram
  <2>2. i \in 1 .. 2 * NPairs /\ pc[T] = 2 * NPairs + i
    BY <1>6, Numbers
  <2> HIDE DEF i
  <2>. QED
    BY <1>3, <1>4, <2>1, <2>2, ThreeSteps
<1>7. CASE pc[T] = Ends
  <2>1. does(T, <<"exit">>)
    BY <1>2, <1>7, TestProgram
  <2>. QED
    BY <1>3, <1>7, <2>1, OneSteps
<1>8. pc[T] \in 1 .. 2 * NPairs \/ pc[T] \in 2 * NPairs + 1 .. 4 * NPairs \/ pc[T] = Ends
  BY Numbers DEF Ends
<1>. QED
  BY <1>5, <1>6, <1>7, <1>8

-----------------------------------------------------------------------------
(* Counting: who has the semaphore open, and what was stored *)

LEMMA AddersAreFinite ==
    IsFiniteSet(Adders)
<1> DEFINE f == [i \in 1 .. 2 * NPairs |-> Proc("adder", i, 1)]
<1>1. IsFiniteSet(1 .. 2 * NPairs)
  BY Numbers, FS_Interval
<1>2. f \in Surjection(1 .. 2 * NPairs, Adders)
  BY DEF Surjection, Adders
<1>. QED
  BY <1>1, <1>2, FS_Surjection

LEMMA OpenersAreFinite ==
    /\ IsFiniteSet(Openers) /\ Cardinality(Openers) \in Nat
    /\ Cardinality(Openers) = 0 <=> Openers = {}
<1>1. Openers \subseteq Adders
  BY DEF Openers
<1>2. IsFiniteSet(Openers)
  BY <1>1, AddersAreFinite, FS_Subset
<1>. QED
  BY <1>2, FS_CardinalityType, FS_EmptySet

LEMMA OneMore ==
    ASSUME NEW S, IsFiniteSet(S), NEW x, x \notin S
    PROVE  Cardinality(S \cup {x}) = Cardinality(S) + 1
  BY FS_AddElement

LEMMA OneLess ==
    ASSUME NEW S, IsFiniteSet(S), NEW x \in S
    PROVE  Cardinality(S \ {x}) = Cardinality(S) - 1
  BY FS_RemoveElement

LEMMA StoresAreFinite ==
    ASSUME NEW r
    PROVE  IsFiniteSet(Stores(r)) /\ Cardinality(Stores(r)) \in Nat
<1>1. IsFiniteSet(1 .. Iterations)
  BY Numbers, FS_Interval
<1>2. IsFiniteSet(Adders \X (1 .. Iterations))
  BY <1>1, AddersAreFinite, FS_Product
<1>3. Stores(r) \subseteq Adders \X (1 .. Iterations)
  BY DEF Stores
<1>4. IsFiniteSet(Stores(r))
  BY <1>2, <1>3, FS_Subset
<1>. QED
  BY <1>4, FS_CardinalityType

-----------------------------------------------------------------------------
(* Every step of test_sync keeps the invariant *)

PcNext(p) ==
    moves(p) /\ pc'[p] = IF pc[p] = PerAdder + 3 THEN 1 ELSE pc[p] + 1

LEMMA AdderMoves ==
    ASSUME TestTypes, NEW p \in Adders, pc[p] \in 1 .. PerAdder + 3, PcNext(p)
    PROVE  /\ pc'[p] \in 1 .. PerAdder + 3
           /\ pc[p] = 1 => /\ inside(p)' /\ quarter(p)' = 0
                           /\ (pc'[p] - 1) \div 4 = (pc[p] - 1) \div 4
           /\ inside(p) => /\ pc'[p] \in 2 .. PerAdder + 2
                           /\ quarter(p) # 3 => inside(p)' /\ quarter(p)' = quarter(p) + 1
                           /\ quarter(p) = 3 => quarter(p)' = 0
                           /\ quarter(p) # 2 => (pc'[p] - 1) \div 4 = (pc[p] - 1) \div 4
                           /\ quarter(p) = 2 => (pc'[p] - 1) \div 4 = ((pc[p] - 1) \div 4) + 1
           /\ pc[p] = PerAdder + 2 => /\ pc'[p] = PerAdder + 3
                                      /\ (pc'[p] - 1) \div 4 = (pc[p] - 1) \div 4
           /\ pc[p] = PerAdder + 3 => (pc[p] - 1) \div 4 = Iterations
           /\ quarter(p) \in {0, 1, 2, 3}
<1>1. pc[p] \in Nat /\ pc[p] >= 1 /\ PerAdder \in Nat /\ PerAdder >= 4
  BY Numbers DEF TestTypes, PerAdder
<1> DEFINE c == pc[p]
<1>2. /\ (c - 2) % 4 \in {0, 1, 2, 3}
      /\ (c - 2) % 4 # 3 => (c + 1 - 2) % 4 = ((c - 2) % 4) + 1
      /\ (c - 2) % 4 = 3 => (c + 1 - 2) % 4 = 0
      /\ (c - 1) \div 4 \in Nat
      /\ (c - 2) % 4 # 2 => (c + 1 - 1) \div 4 = (c - 1) \div 4
      /\ (c - 2) % 4 = 2 => (c + 1 - 1) \div 4 = ((c - 1) \div 4) + 1
  BY <1>1, Quarters
<1>3. /\ c \in 2 .. PerAdder + 1 /\ (c - 2) % 4 # 3 => c + 1 \in 2 .. PerAdder + 1
      /\ c = PerAdder + 2 => (c - 2) % 4 = 0 /\ (c - 1) \div 4 = Iterations
      /\ c = PerAdder + 3 => (c - 2) % 4 = 1 /\ (c - 1) \div 4 = Iterations
  BY <1>1, InAdder
<1>4. pc'[p] = IF c = PerAdder + 3 THEN 1 ELSE c + 1
  BY DEF PcNext
<1>5. c \in 2 .. PerAdder + 1 => c + 1 \in 2 .. PerAdder + 2 /\ c # PerAdder + 3
  BY <1>1
<1>6. c = 1 => c # PerAdder + 3 /\ c + 1 \in 2 .. PerAdder + 1 /\ (c + 1 - 2) % 4 = 0 /\ (c - 2) % 4 # 2
  BY <1>1
<1>7. c = PerAdder + 2 => c # PerAdder + 3 /\ c + 1 = PerAdder + 3
  BY <1>1
<1>8. pc'[p] \in 1 .. PerAdder + 3
  BY <1>1, <1>4
<1> DEFINE d == pc'[p]
<1>9. /\ inside(p) = (c \in 2 .. PerAdder + 1) /\ quarter(p) = (c - 2) % 4
      /\ inside(p)' = (d \in 2 .. PerAdder + 1) /\ quarter(p)' = (d - 2) % 4
  BY DEF inside, quarter
<1>10. d = IF c = PerAdder + 3 THEN 1 ELSE c + 1
  BY <1>4
<1> HIDE DEF c, d
<1>11. /\ c = 1 => /\ d \in 2 .. PerAdder + 1 /\ (d - 2) % 4 = 0 /\ (d - 1) \div 4 = (c - 1) \div 4
       /\ c = PerAdder + 2 => d = PerAdder + 3 /\ (d - 1) \div 4 = (c - 1) \div 4
       /\ c \in 2 .. PerAdder + 1 =>
             /\ d \in 2 .. PerAdder + 2
             /\ (c - 2) % 4 # 3 => d \in 2 .. PerAdder + 1 /\ (d - 2) % 4 = ((c - 2) % 4) + 1
             /\ (c - 2) % 4 = 3 => (d - 2) % 4 = 0
             /\ (c - 2) % 4 # 2 => (d - 1) \div 4 = (c - 1) \div 4
             /\ (c - 2) % 4 = 2 => (d - 1) \div 4 = ((c - 1) \div 4) + 1
  <2>1. CASE c = 1
    <3>1. d = 1 + 1 /\ 1 + 1 \in 2 .. PerAdder + 1 /\ (1 + 1 - 2) % 4 = 0
          /\ (1 + 1 - 1) \div 4 = (1 - 1) \div 4
      BY <1>1, <1>6, <1>10, <2>1
    <3>. QED
      BY <1>1, <2>1, <3>1
  <2>2. CASE c = PerAdder + 2
    <3>1. d = c + 1 /\ (c - 2) % 4 # 2
      BY <1>3, <1>7, <1>10, <2>2
    <3>2. (c + 1 - 1) \div 4 = (c - 1) \div 4
      BY <1>2, <3>1
    <3>. QED
      BY <1>1, <1>7, <2>2, <3>1, <3>2
  <2>3. CASE c \in 2 .. PerAdder + 1
    <3>1. d = c + 1
      BY <1>5, <1>10, <2>3
    <3>2. c # 1 /\ c # PerAdder + 2
      BY <1>1, <2>3
    <3>. QED
      BY <1>2, <1>3, <1>5, <2>3, <3>1, <3>2
  <2>. QED
    BY <2>1, <2>2, <2>3
<1>12. c = pc[p] /\ d = pc'[p]
  BY DEF c, d
<1>. QED
  BY <1>2, <1>3, <1>8, <1>9, <1>11, <1>12

\* Who changes status at an adder's step.
StatusNext ==
    /\ status' \in [Procs -> {"FREE", "READY", "BLOCKED", "DEAD"}]
    /\ \A q \in Procs : status'[q] # status[q] =>
          q \in Adders /\ Alive(q) /\ status'[q] # "FREE"

LEMMA AdderKeepsRoster ==
    ASSUME Test, TestTypes, TestRoster, NEW p \in Adders, Alive(p), PcNext(p), StatusNext,
           UNCHANGED <<session, run, foregroundSet>>
    PROVE  TestRoster'
<1>1. T \in Procs /\ T \notin Adders /\ p \in Procs /\ Adders \subseteq Procs
  BY TestFacts, Kinds, Numbers
<1>2. pc[p] \in 1 .. PerAdder + 3 /\ status[p] # "FREE"
  BY DEF TestRoster, Alive
<1>3. pc'[p] \in 1 .. PerAdder + 3
  BY <1>2, AdderMoves
<1>4. pc'[T] = pc[T] /\ status'[T] = status[T]
  BY <1>1 DEF PcNext, moves, StatusNext
<1>5. \A q \in Procs : q \notin Adders => status'[q] = status[q]
  BY DEF StatusNext
<1>6. ASSUME NEW q \in Adders
      PROVE  /\ pc'[q] \in 1 .. PerAdder + 3
             /\ pc'[T] <= q.i => status'[q] = "FREE" /\ pc'[q] = 1
             /\ pc'[T] > q.i => status'[q] # "FREE"
             /\ pc'[T] > 2 * NPairs + q.i => status'[q] = "DEAD"
  <2>1. q \in Procs
    BY <1>1
  <2>2. q # p => pc'[q] = pc[q]
    BY <2>1 DEF PcNext, moves
  <2>3. status'[q] = status[q] \/ (Alive(q) /\ status'[q] # "FREE")
    BY <2>1 DEF StatusNext
  <2>4. Alive(q) => status[q] # "FREE" /\ status[q] # "DEAD"
    BY DEF Alive
  <2>. QED
    BY <1>2, <1>3, <1>4, <2>2, <2>3, <2>4 DEF TestRoster
<1>. QED
  BY <1>4, <1>5, <1>6 DEF TestRoster

LEMMA StoresStay ==
    ASSUME NEW r, \A q \in Adders : stored(q)' = stored(q)
    PROVE  Stores(r)' = Stores(r)
<1>1. \A x \in Adders \X (1 .. Iterations) : x[1] \in Adders
  OBVIOUS
<1>2. \A x \in Adders \X (1 .. Iterations) : stored(x[1])' = stored(x[1])
  BY <1>1
<1>. QED
  BY <1>2 DEF Stores

LEMMA SumStays ==
    ASSUME TestSum, global' = global, \A q \in Adders : stored(q)' = stored(q)
    PROVE  TestSum'
<1>1. Stores(0)' = Stores(0) /\ Stores(1)' = Stores(1)
  BY StoresStay
<1>. QED
  BY <1>1 DEF TestSum

\* Nothing is stored but by a store.
LEMMA NothingStored ==
    ASSUME Test, TestInv, NEW p \in Adders, Alive(p), PcNext(p), StatusNext, global' = global,
           pc[p] # PerAdder + 3, ~(inside(p) /\ quarter(p) = 2),
           \A q \in Procs : status'[q] # status[q] => status'[q] # "DEAD"
    PROVE  TestSum'
<1>1. pc[p] \in 1 .. PerAdder + 3 /\ TestTypes
  BY DEF TestInv, TestRoster
<1>2. (pc'[p] - 1) \div 4 = (pc[p] - 1) \div 4
  <2>1. pc[p] = 1 \/ inside(p) \/ pc[p] = PerAdder + 2
    BY <1>1, Numbers DEF inside, PerAdder
  <2>. QED
    BY <1>1, <2>1, AdderMoves
<1>3. \A q \in Adders : stored(q)' = stored(q)
  <2>1. ASSUME NEW q \in Adders
        PROVE  stored(q)' = stored(q)
    <3>1. q \in Procs
      BY Kinds, Numbers
    <3>2. status[q] = "DEAD" <=> status'[q] = "DEAD"
      BY <3>1 DEF StatusNext, Alive
    <3>3. (pc'[q] - 1) \div 4 = (pc[q] - 1) \div 4
      BY <1>2, <3>1 DEF PcNext, moves
    <3>. QED
      BY <3>2, <3>3 DEF stored
  <2>. QED
    BY <2>1
<1>. QED
  BY <1>3, SumStays DEF TestInv

LEMMA AdderFacts ==
    ASSUME Test, TestInv, NEW p \in Adders, status[p] = "READY"
    PROVE  /\ TestTypes /\ TestRoster /\ TestOpened /\ TestBaton /\ TestSum
           /\ p \in Procs /\ Adders \subseteq Procs /\ Alive(p) /\ p \notin Asleep
           /\ pc[p] \in 1 .. PerAdder + 3 /\ PerAdder \in Nat /\ PerAdder >= 4
           /\ pc[p] = 1 \/ inside(p) \/ pc[p] = PerAdder + 2 \/ pc[p] = PerAdder + 3
           /\ pc[p] \in 2 .. PerAdder + 2 <=> p \in Openers
           /\ inside(p) => p \in Openers
<1>1. pc[p] \in 1 .. PerAdder + 3 /\ PerAdder \in Nat /\ PerAdder >= 4
  BY Numbers DEF TestInv, TestRoster, PerAdder
<1>2. pc[p] = 1 \/ inside(p) \/ pc[p] = PerAdder + 2 \/ pc[p] = PerAdder + 3
  BY <1>1 DEF inside
<1>3. Alive(p) /\ p \notin Asleep
  BY DEF Alive, Asleep
<1>4. p \in Procs /\ Adders \subseteq Procs
  BY Kinds, Numbers
<1>5. inside(p) => pc[p] \in 2 .. PerAdder + 2
  BY <1>1 DEF inside
<1>. QED
  BY <1>1, <1>2, <1>3, <1>4, <1>5 DEF TestInv, Openers

\* What no step of an adder touches.
Untouched == UNCHANGED <<session, run, slotValue, ch, unread, foregroundSet>>

LEMMA AdderKeepsTypes ==
    ASSUME Test, TestInv, NEW p \in Adders, status[p] = "READY", PcNext(p), StatusNext, Untouched,
           tableOK(table', heap'), global' \in Int, aux' \in [Adders -> Int]
    PROVE  TestTypes' /\ TestRoster'
<1>1. TestTypes'
  BY AdderFacts DEF TestTypes, StatusNext, PcNext, moves, Untouched
<1>2. TestRoster'
  BY AdderFacts, AdderKeepsRoster DEF Untouched
<1>. QED
  BY <1>1, <1>2

LEMMA OthersStay ==
    ASSUME NEW p \in Adders, PcNext(p), NEW q \in Procs, q # p
    PROVE  /\ inside(q)' = inside(q) /\ quarter(q)' = quarter(q) /\ pc'[q] = pc[q]
           /\ status'[q] = status[q] => (Adding(q)' <=> Adding(q))
<1>1. pc'[q] = pc[q]
  BY DEF PcNext, moves
<1>. QED
  BY <1>1 DEF Adding, inside, quarter

\* The set of those who have it open, unless somebody ends.
LEMMA OpenersMove ==
    ASSUME Test, TestInv, NEW p \in Adders, status[p] = "READY", PcNext(p), StatusNext,
           \A q \in Procs : status'[q] # status[q] => status'[q] # "DEAD"
    PROVE  /\ pc[p] = 1 => p \notin Openers /\ Openers' = Openers \cup {p}
           /\ inside(p) => Openers' = Openers
           /\ pc[p] = PerAdder + 2 => p \in Openers /\ Openers' = Openers \ {p}
           /\ pc[p] = PerAdder + 3 => Openers' = Openers
<1>1. \A q \in Procs : Alive(q)' <=> Alive(q)
  BY DEF StatusNext, Alive
<1>2. ASSUME NEW q \in Adders, q # p
      PROVE  q \in Openers' <=> q \in Openers
  <2>1. q \in Procs
    BY AdderFacts
  <2>2. pc'[q] = pc[q]
    BY <1>2, <2>1, OthersStay
  <2>. QED
    BY <1>1, <2>1, <2>2 DEF Openers
<1>3. p \in Openers' <=> pc'[p] \in 2 .. PerAdder + 2
  BY <1>1, AdderFacts DEF Openers
<1>4. p \in Openers <=> pc[p] \in 2 .. PerAdder + 2
  BY AdderFacts
<1>5. Openers \subseteq Adders /\ Openers' \subseteq Adders
  BY DEF Openers
<1>6. PerAdder \in Nat /\ PerAdder >= 4
  BY AdderFacts
<1>7. CASE pc[p] = 1
  <2>1. pc'[p] = 2
    BY <1>6, <1>7 DEF PcNext
  <2>. QED
    BY <1>2, <1>3, <1>4, <1>5, <1>6, <1>7, <2>1 DEF inside
<1>8. CASE inside(p)
  <2>1. pc'[p] \in 2 .. PerAdder + 2
    BY <1>8, AdderFacts, AdderMoves
  <2>2. pc[p] # 1 /\ pc[p] # PerAdder + 2 /\ pc[p] # PerAdder + 3
    BY <1>6, <1>8 DEF inside
  <2>. QED
    BY <1>2, <1>3, <1>4, <1>5, <1>8, <2>1, <2>2, AdderFacts
<1>9. CASE pc[p] = PerAdder + 2
  <2>1. pc'[p] = PerAdder + 3
    BY <1>6, <1>9 DEF PcNext
  <2>2. pc[p] \in 2 .. PerAdder + 2 /\ ~(pc'[p] \in 2 .. PerAdder + 2) /\ pc[p] # 1 /\ ~inside(p)
        /\ pc[p] # PerAdder + 3
    BY <1>6, <1>9, <2>1 DEF inside
  <2>. QED
    BY <1>2, <1>3, <1>4, <1>5, <2>2
<1>10. CASE pc[p] = PerAdder + 3
  <2>1. pc'[p] = 1
    BY <1>10 DEF PcNext
  <2>2. ~(pc[p] \in 2 .. PerAdder + 2) /\ ~(pc'[p] \in 2 .. PerAdder + 2) /\ pc[p] # 1 /\ ~inside(p)
        /\ pc[p] # PerAdder + 2
    BY <1>6, <1>10, <2>1 DEF inside
  <2>. QED
    BY <1>2, <1>3, <1>4, <1>5, <2>2
<1>. QED
  BY <1>7, <1>8, <1>9, <1>10, AdderFacts

LEMMA OpenedStays ==
    ASSUME TestOpened, table' = table, DOMAIN heap' = DOMAIN heap, Openers' = Openers
    PROVE  TestOpened'
  BY DEF TestOpened, names, row, closed

\* A step outside the critical section, of the one who makes it.
LEMMA QuietBaton ==
    ASSUME Test, TestInv, NEW p \in Adders, status[p] = "READY", PcNext(p),
           \A q \in Procs \ {p} : status'[q] = status[q], status'[p] # "BLOCKED",
           ~Adding(p), ~Adding(p)', UNCHANGED <<aux, global>>,
           \A s \in DOMAIN heap' : s \in DOMAIN heap /\ heap'[s] = heap[s]
    PROVE  TestBaton'
<1>1. Asleep' = Asleep
  BY AdderFacts DEF Asleep
<1>2. \A q \in Procs : Adding(q)' <=> Adding(q)
  BY AdderFacts, OthersStay
<1>3. \A q \in Procs : Adding(q) => inside(q)' = inside(q) /\ quarter(q)' = quarter(q)
  BY OthersStay
<1>4. \A s \in DOMAIN heap' : keeps(heap'[s], Asleep') /\ (heap'[s].value = 1 => NoneAdding')
  BY <1>1, <1>2, AdderFacts DEF TestBaton, NoneAdding
<1>5. \A q, r \in Procs : Adding(q)' /\ Adding(r)' => q = r
  BY <1>2, AdderFacts DEF TestBaton
<1>6. \A q \in Asleep' : inside(q)' /\ quarter(q)' = 1
  <2>1. \A q \in Asleep : q # p /\ q \in Procs
    BY AdderFacts DEF Asleep
  <2>. QED
    BY <1>1, <2>1, OthersStay, AdderFacts DEF TestBaton
<1>7. \A q \in Adders : Adding(q)' /\ quarter(q)' = 2 => aux'[q] = global'
  BY <1>2, <1>3, AdderFacts DEF TestBaton
<1>. QED
  BY <1>4, <1>5, <1>6, <1>7 DEF TestBaton

LEMMA AdderOpensFirst ==
    ASSUME OneAtATime, Test, TestInv, NEW p \in Adders, status[p] = "READY", PcNext(p), Untouched,
           pc[p] = 1, Openers = {}, sharedSemOpen("sem", 1), UNCHANGED <<global, aux>>
    PROVE  TestInv'
<1>1. /\ \A i \in Slots : ~table[i].used
      /\ \A s : ~names(table, "sem", s)
      /\ DOMAIN heap = {}
  BY AdderFacts DEF TestOpened, closed, names, row
<1>2. tableOK(table, heap)
  BY AdderFacts DEF TestTypes
<1>3. FreeSlots # {} /\ FreeIds # {}
  <2>1. 1 \in Slots
    BY Sizes DEF OneAtATime, Slots
  <2>2. MaxRuns >= 1 /\ MaxRuns \in Nat
    BY AdderFacts, TestFacts, Numbers
  <2>3. MaxSems >= 3 * MaxRuns /\ MaxSems \in Nat
    BY Sizes DEF OneAtATime
  <2> HIDE DEF MaxRuns
  <2>4. 1 \in Ids
    BY <2>2, <2>3 DEF Ids
  <2>. QED
    BY <1>1, <2>1, <2>4 DEF FreeSlots, FreeIds
<1>4. PICK i \in Slots, s \in Ids :
              /\ ~table[i].used /\ s \notin DOMAIN heap
              /\ heap' = [d \in DOMAIN heap \cup {s} |-> IF d = s THEN newSemaphore(1) ELSE heap[d]]
              /\ table' = [table EXCEPT ![i] = [used |-> TRUE, name |-> "sem", sem |-> s, refCount |-> 1]]
              /\ status' = status
  <2> DEFINE n == "sem"
             v == 1
  <2>1. sharedSemOpen(n, v) /\ \A s : ~names(table, n, s)
    BY <1>1
  <2> HIDE DEF n, v
  <2>2. \E i \in Slots, s \in Ids :
              /\ ~table[i].used /\ s \notin DOMAIN heap /\ \A h \in FreeIds : s <= h
              /\ heap' = [d \in DOMAIN heap \cup {s} |-> IF d = s THEN newSemaphore(v) ELSE heap[d]]
              /\ table' = [table EXCEPT ![i] = [used |-> TRUE, name |-> n, sem |-> s, refCount |-> 1]]
              /\ status' = status
    BY <1>2, <1>3, <2>1, OpenNew
  <2>. QED
    BY <2>2 DEF n, v
<1>5. /\ newSemaphore(1) \in Sems /\ \A B : keeps(newSemaphore(1), B)
  <2>1. \A B : keeps(newSemaphore(1), B)
    BY NewKeeps
  <2>. QED
    BY <2>1 DEF keeps
<1>6. /\ heap' \in [DOMAIN heap \cup {s} -> Sems] /\ DOMAIN heap' = {s} /\ heap'[s] = newSemaphore(1)
      /\ \A d \in DOMAIN heap : heap'[d] = heap[d]
  BY <1>1, <1>4, <1>5
<1>7. /\ tableOK(table', heap') /\ names(table', "sem", s)
      /\ table'[i].used /\ table'[i].refCount = 1
      /\ \A j \in Slots \ {i} : table'[j] = table[j]
  BY <1>1, <1>2, <1>4, <1>6, RowAdded DEF Names
<1>8. StatusNext
  BY <1>4, AdderFacts DEF StatusNext, TestTypes
<1>9. TestTypes' /\ TestRoster'
  BY <1>7, <1>8, AdderFacts, AdderKeepsTypes DEF TestTypes
<1>10. Openers' = {p}
  BY <1>4, <1>8, OpenersMove
<1>11. Cardinality(Openers') = 1
  BY <1>10, FS_Singleton
<1>12. table'[i].name = "sem" /\ \A j \in Slots : table'[j].used => j = i
  BY <1>1, <1>7 DEF names, row
<1>13. TestOpened'
  BY <1>6, <1>7, <1>10, <1>11, <1>12 DEF TestOpened, closed
<1>14. NoneAdding'
  <2>1. ~Adding(p)'
    BY AdderFacts, AdderMoves DEF Adding
  <2>2. ASSUME NEW q \in Procs, q # p
        PROVE  ~Adding(q)'
    <3>1. ~Adding(q)
      BY AdderFacts DEF Adding, Openers, Alive, inside
    <3>. QED
      BY <1>4, <2>2, <3>1, OthersStay
  <2>. QED
    BY <2>1, <2>2 DEF NoneAdding
<1>15. Asleep' = {}
  <2>1. Asleep = {}
    BY AdderFacts DEF Asleep, Openers, TestBaton, inside, Alive
  <2>. QED
    BY <1>4, <2>1 DEF Asleep
<1>16. TestBaton'
  <2>1. \A q \in Procs : ~Adding(q)'
    BY <1>14 DEF NoneAdding
  <2>2. \A t \in DOMAIN heap' : keeps(heap'[t], Asleep')
    BY <1>5, <1>6
  <2>. QED
    BY <1>14, <1>15, <2>1, <2>2, AdderFacts DEF TestBaton
<1>17. TestSum'
  <2>1. pc[p] # PerAdder + 3 /\ ~inside(p)
    BY AdderFacts DEF inside
  <2>. QED
    BY <1>4, <1>8, <2>1, AdderFacts, NothingStored
<1>. QED
  BY <1>9, <1>13, <1>16, <1>17 DEF TestInv

LEMMA AdderOpensAgain ==
    ASSUME Test, TestInv, NEW p \in Adders, status[p] = "READY", PcNext(p), Untouched,
           pc[p] = 1, Openers # {}, sharedSemOpen("sem", 1), UNCHANGED <<global, aux>>
    PROVE  TestInv'
<1>1. tableOK(table, heap)
  BY AdderFacts DEF TestTypes
<1>2. PICK i \in Slots : table[i].used /\ table[i].name = "sem"
  BY AdderFacts DEF TestOpened, closed
<1>3. row(table, i, "sem", table[i].sem)
  BY <1>2 DEF row
<1>4. table' = [table EXCEPT ![i].refCount = @ + 1] /\ UNCHANGED <<heap, status>>
  BY <1>1, <1>3, OpenAgain
<1>5. table[i].refCount = Cardinality(Openers) /\ Cardinality(Openers) \in Nat
  BY <1>2, AdderFacts, OpenersAreFinite DEF TestOpened
<1>6. StatusNext
  BY <1>4, AdderFacts DEF StatusNext, TestTypes
<1>7. p \notin Openers /\ Openers' = Openers \cup {p}
  BY <1>4, <1>6, OpenersMove
<1>8. Cardinality(Openers') = Cardinality(Openers) + 1
  BY <1>7, OneMore, OpenersAreFinite
<1> DEFINE k == Cardinality(Openers) + 1
<1>9. table' = [table EXCEPT ![i].refCount = k] /\ k \in Nat
  <2>1. table' = [table EXCEPT ![i].refCount = table[i].refCount + 1]
    BY <1>4
  <2>. QED
    BY <1>5, <2>1
<1>10. k = Cardinality(Openers')
  BY <1>8
<1> HIDE DEF k
<1>11. /\ tableOK(table', heap')
       /\ \A m, t : names(table', m, t) <=> names(table, m, t)
       /\ table'[i].used /\ table'[i].refCount = k /\ table'[i].name = table[i].name
       /\ \A j \in Slots \ {i} : table'[j] = table[j]
  BY <1>1, <1>2, <1>4, <1>9, RefChanged
<1>12. TestTypes' /\ TestRoster'
  BY <1>6, <1>11, AdderFacts, AdderKeepsTypes DEF TestTypes
<1>13. TestOpened'
  <2>1. \A j \in Slots : table'[j].used => j = i
    BY <1>1, <1>2, <1>11, AdderFacts DEF TestOpened, tableOK
  <2>2. ~closed(table', "sem") /\ Openers' # {}
    BY <1>2, <1>7, <1>11 DEF closed
  <2>3. \A s \in DOMAIN heap' : names(table', "sem", s)
    BY <1>4, <1>11, AdderFacts DEF TestOpened
  <2>. QED
    BY <1>2, <1>10, <1>11, <2>1, <2>2, <2>3 DEF TestOpened
<1>14. TestBaton'
  <2>1. ~Adding(p) /\ ~Adding(p)'
    BY AdderFacts, AdderMoves DEF Adding, inside
  <2>. QED
    BY <1>4, <2>1, QuietBaton
<1>15. TestSum'
  <2>1. pc[p] # PerAdder + 3 /\ ~inside(p)
    BY AdderFacts DEF inside
  <2>. QED
    BY <1>4, <1>6, <2>1, AdderFacts, NothingStored
<1>. QED
  BY <1>12, <1>13, <1>14, <1>15 DEF TestInv

LEMMA AdderCloses ==
    ASSUME Test, TestInv, NEW p \in Adders, status[p] = "READY", PcNext(p), Untouched,
           pc[p] = PerAdder + 2, sharedSemClose("sem"), UNCHANGED <<global, aux>>
    PROVE  TestInv'
<1>1. tableOK(table, heap)
  BY AdderFacts DEF TestTypes
<1>2. p \in Openers
  BY AdderFacts
<1>3. PICK i \in Slots : table[i].used /\ table[i].name = "sem"
  BY <1>2, AdderFacts DEF TestOpened, closed
<1> DEFINE s == table[i].sem
<1>4. row(table, i, "sem", s)
  BY <1>3 DEF row
<1>5. table[i].refCount = Cardinality(Openers) /\ Cardinality(Openers) \in Nat
  BY <1>3, AdderFacts, OpenersAreFinite DEF TestOpened
<1>6. \A j \in Slots : table[j].used => j = i
  BY <1>1, <1>3, AdderFacts DEF TestOpened, tableOK
<1>7. ~Adding(p) /\ ~Adding(p)' /\ ~inside(p) /\ pc[p] # PerAdder + 3
  BY AdderFacts, AdderMoves DEF Adding, inside
<1>8. ASSUME status' = status
      PROVE  /\ StatusNext /\ Openers' = Openers \ {p}
             /\ Cardinality(Openers') = Cardinality(Openers) - 1
             /\ TestSum'
  <2>1. StatusNext
    BY <1>8, AdderFacts DEF StatusNext, TestTypes
  <2>2. Openers' = Openers \ {p}
    BY <1>8, <2>1, OpenersMove
  <2>3. Cardinality(Openers') = Cardinality(Openers) - 1
    BY <1>2, <2>2, OneLess, OpenersAreFinite
  <2>. QED
    BY <1>7, <1>8, <2>1, <2>2, <2>3, AdderFacts, NothingStored
<1>9. CASE table[i].refCount > 1
  <2>1. table' = [table EXCEPT ![i].refCount = @ - 1] /\ UNCHANGED <<heap, status>>
    BY <1>1, <1>4, <1>9, CloseOneOfMany
  <2> DEFINE k == Cardinality(Openers) - 1
  <2>2. table' = [table EXCEPT ![i].refCount = k] /\ k \in Nat /\ k >= 1
    <3>1. table' = [table EXCEPT ![i].refCount = table[i].refCount - 1]
      BY <2>1
    <3>. QED
      BY <1>5, <1>9, <3>1
  <2>3. k = Cardinality(Openers')
    BY <1>8, <2>1
  <2> HIDE DEF k
  <2>4. Openers' # {}
    BY <2>2, <2>3, FS_EmptySet
  <2>5. /\ tableOK(table', heap')
        /\ \A m, t : names(table', m, t) <=> names(table, m, t)
        /\ table'[i].used /\ table'[i].refCount = k /\ table'[i].name = table[i].name
        /\ \A j \in Slots \ {i} : table'[j] = table[j]
    BY <1>1, <1>3, <2>1, <2>2, RefChanged
  <2>6. TestTypes' /\ TestRoster'
    BY <1>8, <2>1, <2>5, AdderFacts, AdderKeepsTypes DEF TestTypes
  <2>7. TestOpened'
    <3>1. \A j \in Slots : table'[j].used => j = i
      BY <1>6, <2>5
    <3>2. ~closed(table', "sem")
      BY <1>3, <2>5 DEF closed
    <3>3. \A t \in DOMAIN heap' : names(table', "sem", t)
      BY <2>1, <2>5, AdderFacts DEF TestOpened
    <3>. QED
      BY <1>3, <2>3, <2>4, <2>5, <3>1, <3>2, <3>3 DEF TestOpened
  <2>8. TestBaton'
    BY <1>7, <2>1, QuietBaton
  <2>. QED
    BY <1>8, <2>1, <2>6, <2>7, <2>8 DEF TestInv
<1>10. CASE table[i].refCount <= 1
  <2>1. /\ table' = [table EXCEPT ![i] = Unused]
        /\ heap' = IF heap[s].blockedQueue = <<>>
                   THEN [d \in DOMAIN heap \ {s} |-> heap[d]] ELSE heap
        /\ status' = status
    BY <1>1, <1>4, <1>10, CloseLast
  <2>2. Openers' = {}
    <3>1. IsFiniteSet(Openers')
      BY <1>2, <1>8, <2>1, OpenersAreFinite, FS_Subset
    <3>2. Cardinality(Openers') \in Nat /\ Cardinality(Openers') = Cardinality(Openers) - 1
      BY <1>8, <2>1, <3>1, FS_CardinalityType
    <3>3. Cardinality(Openers') = 0
      BY <1>5, <1>10, <3>2
    <3>. QED
      BY <3>1, <3>3, FS_EmptySet
  <2>3. Asleep = {}
    <3>1. Asleep \subseteq Openers
      BY AdderFacts DEF Asleep, Openers, TestBaton, inside, Alive
    <3>. QED
      BY <1>8, <2>1, <2>2, <3>1, AdderFacts
  <2>4. s \in DOMAIN heap /\ heap[s].blockedQueue = <<>>
    <3>1. s \in DOMAIN heap /\ heap[s] \in Sems
      BY <1>1, <1>3 DEF tableOK
    <3>2. keeps(heap[s], {})
      BY <2>3, <3>1, AdderFacts DEF TestBaton
    <3> DEFINE q == heap[s].blockedQueue
    <3>3. q \in Seq(Procs)
      BY <3>1 DEF Sems
    <3>4. \A x \in Procs : ~isIn(x, q)
      BY <3>2 DEF keeps
    <3> HIDE DEF q
    <3>5. ASSUME Len(q) >= 1
          PROVE  FALSE
      <4>1. q[1] \in Procs /\ isIn(q[1], q)
        BY <3>3, <3>5 DEF isIn
      <4>. QED
        BY <3>4, <4>1
    <3>6. q = <<>>
      BY <3>3, <3>5
    <3>. QED
      BY <3>1, <3>6 DEF q
  <2> HIDE DEF s
  <2>5. /\ tableOK(table', heap')
        /\ \A j \in Slots : table'[j].used => table'[j] = table[j] /\ table[j].used /\ j # i
        /\ DOMAIN heap' = DOMAIN heap \ {s}
        /\ \A d \in DOMAIN heap' : heap'[d] = heap[d]
    BY <1>1, <1>4, <2>1, <2>4, RowDropped
  <2>6. \A j \in Slots : ~table'[j].used
    BY <1>6, <2>5
  <2>7. DOMAIN heap' = {}
    BY <1>6, <2>5, AdderFacts DEF TestOpened, names, row, s
  <2>8. TestTypes' /\ TestRoster'
    BY <1>8, <2>1, <2>5, AdderFacts, AdderKeepsTypes DEF TestTypes
  <2>9. TestOpened'
    BY <2>2, <2>6, <2>7 DEF TestOpened, closed
  <2>10. TestBaton'
    BY <1>7, <2>1, <2>5, QuietBaton
  <2>. QED
    BY <1>8, <2>1, <2>8, <2>9, <2>10 DEF TestInv
<1>. QED
  BY <1>5, <1>9, <1>10

\* The one semaphore there is while somebody has it open.
LEMMA TheSem ==
    ASSUME Test, TestInv, Openers # {}
    PROVE  \E s \in DOMAIN heap :
              /\ names(table, "sem", s) /\ DOMAIN heap = {s} /\ heap[s] \in Sems
              /\ keeps(heap[s], Asleep) /\ heap[s].value \in Int /\ heap[s].value <= 1
              /\ tableOK(table, heap)
<1>1. tableOK(table, heap) /\ TestOpened /\ TestBaton
  BY DEF TestInv, TestTypes
<1>2. PICK i \in Slots : table[i].used /\ table[i].name = "sem"
  BY <1>1 DEF TestOpened, closed
<1> DEFINE s == table[i].sem
<1>3. names(table, "sem", s) /\ s \in DOMAIN heap
  BY <1>1, <1>2 DEF names, row, tableOK
<1>4. \A t \in DOMAIN heap : t = s
  BY <1>1, <1>3, NamesAreUnique DEF TestOpened
<1>5. heap[s] \in Sems /\ keeps(heap[s], Asleep)
  BY <1>1, <1>3 DEF tableOK, TestBaton
<1>. QED
  BY <1>1, <1>3, <1>4, <1>5 DEF keeps, Sems

\* The one who is adding stays the one.
LEMMA LockedBaton ==
    ASSUME Test, TestInv, NEW p \in Adders, status[p] = "READY", PcNext(p),
           Adding(p), Adding(p)', status' = status, heap' = heap,
           quarter(p)' = 2 => aux'[p] = global'
    PROVE  TestBaton'
<1>1. \A q \in Procs : Adding(q) => q = p
  BY AdderFacts DEF TestBaton
<1>2. \A q \in Procs : Adding(q)' => q = p
  BY <1>1, OthersStay
<1>3. Asleep' = Asleep /\ \A q \in Asleep : q \in Procs /\ q # p
  BY AdderFacts DEF Asleep
<1>4. \A q \in Asleep' : inside(q)' /\ quarter(q)' = 1
  BY <1>3, OthersStay, AdderFacts DEF TestBaton
<1>5. \A s \in DOMAIN heap' : keeps(heap'[s], Asleep') /\ heap'[s].value # 1
  BY <1>3, AdderFacts DEF TestBaton, NoneAdding
<1>6. \A q \in Adders : q \in Procs
  BY AdderFacts
<1>. QED
  BY <1>2, <1>4, <1>5, <1>6 DEF TestBaton

LEMMA AdderLoads ==
    ASSUME Test, TestInv, NEW p \in Adders, status[p] = "READY", PcNext(p), Untouched,
           inside(p), quarter(p) = 1, aux' = [aux EXCEPT ![p] = global],
           UNCHANGED <<table, heap, status, global>>
    PROVE  TestInv'
<1>1. StatusNext
  BY AdderFacts DEF StatusNext, TestTypes
<1>2. Adding(p) /\ Adding(p)' /\ pc[p] # PerAdder + 3
  BY AdderFacts, AdderMoves DEF Adding, inside
<1>3. aux' \in [Adders -> Int] /\ aux'[p] = global
  BY AdderFacts DEF TestTypes
<1>4. TestTypes' /\ TestRoster'
  BY <1>1, <1>3, AdderFacts, AdderKeepsTypes DEF TestTypes
<1>5. TestBaton'
  BY <1>2, <1>3, LockedBaton
<1>6. TestOpened'
  BY <1>1, AdderFacts, OpenersMove, OpenedStays
<1>7. TestSum'
  BY <1>1, <1>2, AdderFacts, NothingStored
<1>. QED
  BY <1>4, <1>5, <1>6, <1>7 DEF TestInv

LEMMA AdderStores ==
    ASSUME Test, TestInv, NEW p \in Adders, status[p] = "READY", PcNext(p), Untouched,
           inside(p), quarter(p) = 2, global' = aux[p] + (IF p.i % 2 = 1 THEN -1 ELSE 1),
           aux' = [aux EXCEPT ![p] = 0], UNCHANGED <<table, heap, status>>
    PROVE  TestInv'
<1>1. StatusNext
  BY AdderFacts DEF StatusNext, TestTypes
<1>2. Adding(p) /\ Adding(p)' /\ pc[p] # PerAdder + 3 /\ quarter(p)' = 3
  BY AdderFacts, AdderMoves DEF Adding, inside
<1>3. /\ aux' \in [Adders -> Int] /\ global \in Int
      /\ global' = global + (IF p.i % 2 = 1 THEN -1 ELSE 1) /\ global' \in Int
  <2>1. aux[p] = global
    BY <1>2, AdderFacts DEF TestBaton
  <2>2. global \in Int /\ aux \in [Adders -> Int]
    BY AdderFacts DEF TestTypes
  <2>3. global' = global + (IF p.i % 2 = 1 THEN -1 ELSE 1)
    BY <2>1
  <2>4. aux' \in [Adders -> Int]
    BY <2>2
  <2>. QED
    BY <2>2, <2>3, <2>4
<1>4. TestTypes' /\ TestRoster'
  BY <1>1, <1>3, AdderFacts, AdderKeepsTypes DEF TestTypes
<1>5. TestBaton'
  BY <1>2, LockedBaton
<1>6. TestOpened'
  BY <1>1, AdderFacts, OpenersMove, OpenedStays
<1> DEFINE k == stored(p) + 1
<1>7. /\ \A q \in Adders : q # p => stored(q)' = stored(q)
      /\ stored(p)' = k /\ k \in 1 .. Iterations /\ stored(p) \in Nat
  <2>1. \A q \in Adders : q # p => pc'[q] = pc[q]
    BY AdderFacts, OthersStay
  <2>2. stored(p) = (pc[p] - 1) \div 4 /\ stored(p)' = (pc'[p] - 1) \div 4
    BY DEF stored
  <2>3. (pc'[p] - 1) \div 4 = ((pc[p] - 1) \div 4) + 1
    BY AdderFacts, AdderMoves
  <2>4. (pc[p] - 1) \div 4 \in Nat /\ ((pc[p] - 1) \div 4) + 1 <= Iterations
    <3>1. pc[p] \in Nat /\ pc[p] >= 1
      BY AdderFacts
    <3>. QED
      BY <3>1, Quarters, InAdder DEF inside, quarter
  <2>. QED
    BY <2>1, <2>2, <2>3, <2>4, Numbers DEF stored
<1> DEFINE x == <<p, k>>
<1>8. ASSUME NEW r
      PROVE  /\ p.i % 2 = r => x \notin Stores(r) /\ Stores(r)' = Stores(r) \cup {x}
             /\ p.i % 2 # r => Stores(r)' = Stores(r)
  <2>1. stored(p) \in Int
    BY <1>7
  <2>2. ASSUME NEW q \in Adders, NEW j \in 1 .. Iterations
        PROVE  <<q, j>> \in Stores(r)' <=> <<q, j>> \in Stores(r) \/ (p.i % 2 = r /\ q = p /\ j = k)
    <3>1. <<q, j>> \in Stores(r) <=> q.i % 2 = r /\ j <= stored(q)
      BY DEF Stores
    <3>2. <<q, j>> \in Stores(r)' <=> q.i % 2 = r /\ j <= stored(q)'
      BY DEF Stores
    <3>3. CASE q = p
      <4>1. j <= stored(p)' <=> j <= stored(p) \/ j = k
        BY <1>7, <2>1
      <4>. QED
        BY <3>1, <3>2, <3>3, <4>1
    <3>4. CASE q # p
      BY <1>7, <3>1, <3>2, <3>4
    <3>. QED
      BY <3>3, <3>4
  <2>3. x \notin Stores(r)
    <3>1. ~(k <= stored(p))
      BY <2>1
    <3>. QED
      BY <3>1 DEF Stores
  <2>4. Stores(r) \subseteq Adders \X (1 .. Iterations) /\ Stores(r)' \subseteq Adders \X (1 .. Iterations)
    BY DEF Stores
  <2> HIDE DEF k
  <2>5. x \in Adders \X (1 .. Iterations)
    BY <1>7
  <2>6. \A y \in Adders \X (1 .. Iterations) : y = <<y[1], y[2]>> /\ y[1] \in Adders /\ y[2] \in 1 .. Iterations
    OBVIOUS
  <2>7. ASSUME NEW y \in Adders \X (1 .. Iterations)
        PROVE  y \in Stores(r)' <=> y \in Stores(r) \/ (p.i % 2 = r /\ y = x)
    <3>1. y = <<y[1], y[2]>> /\ y[1] \in Adders /\ y[2] \in 1 .. Iterations
      BY <2>6
    <3>2. y = x <=> y[1] = p /\ y[2] = k
      BY <3>1
    <3>. QED
      BY <2>2, <3>1, <3>2
  <2> HIDE DEF x
  <2>. QED
    BY <2>3, <2>4, <2>5, <2>7
<1> HIDE DEF k, x
<1>9. TestSum'
  <2>1. p.i \in Nat /\ (p.i % 2 = 0 \/ p.i % 2 = 1)
    <3>1. p.i \in 1 .. 2 * NPairs
      BY Kinds
    <3>2. p.i \in Nat
      BY <3>1, Numbers
    <3>. QED
      BY <3>2
  <2> DEFINE even == Cardinality(Stores(0))
             odd == Cardinality(Stores(1))
  <2>2. even \in Nat /\ odd \in Nat /\ global = even - odd
    BY StoresAreFinite, AdderFacts DEF TestSum
  <2>3. CASE p.i % 2 = 0
    <3>1. Cardinality(Stores(0)') = even + 1
      BY <1>8, <2>3, OneMore, StoresAreFinite
    <3>2. Stores(1)' = Stores(1)
      BY <1>8, <2>3
    <3>3. global' = global + 1
      BY <1>3, <2>3
    <3>4. Cardinality(Stores(1)') = odd
      BY <3>2
    <3> HIDE DEF even, odd
    <3>5. global' = (even + 1) - odd
      BY <2>2, <3>3
    <3>. QED
      BY <3>1, <3>4, <3>5 DEF TestSum
  <2>4. CASE p.i % 2 = 1
    <3>1. Cardinality(Stores(1)') = odd + 1
      BY <1>8, <2>4, OneMore, StoresAreFinite
    <3>2. Stores(0)' = Stores(0)
      BY <1>8, <2>4
    <3>3. global' = global + (-1)
      BY <1>3, <2>4
    <3>4. Cardinality(Stores(0)') = even
      BY <3>2
    <3> HIDE DEF even, odd
    <3>5. global' = even - (odd + 1)
      BY <2>2, <3>3
    <3>. QED
      BY <3>1, <3>4, <3>5 DEF TestSum
  <2>. QED
    BY <2>1, <2>3, <2>4
<1>. QED
  BY <1>4, <1>5, <1>6, <1>9 DEF TestInv

LEMMA AdderWaits ==
    ASSUME Test, TestInv, NEW p \in Adders, status[p] = "READY", PcNext(p), Untouched,
           inside(p), quarter(p) = 0, sharedSemWait("sem", p), UNCHANGED <<global, aux>>
    PROVE  TestInv'
<1>1. Openers # {}
  BY AdderFacts
<1>2. PICK s \in DOMAIN heap :
              /\ names(table, "sem", s) /\ DOMAIN heap = {s} /\ heap[s] \in Sems
              /\ keeps(heap[s], Asleep) /\ heap[s].value \in Int /\ heap[s].value <= 1
              /\ tableOK(table, heap)
  BY <1>1, TheSem
<1>3. /\ heap' = [heap EXCEPT ![s] = semWait(heap[s], p)]
      /\ status' = [status EXCEPT ![p] = IF mustBlock(heap[s]) THEN "BLOCKED" ELSE status[p]]
      /\ table' = table
  BY <1>2, WaitOn
<1>4. /\ inside(p)' /\ quarter(p)' = 1 /\ pc[p] # PerAdder + 3
      /\ ~Adding(p)
  BY AdderFacts, AdderMoves DEF Adding, inside
<1>5. status \in [Procs -> {"FREE", "READY", "BLOCKED", "DEAD"}] /\ p \in Procs
  BY AdderFacts DEF TestTypes
<1>6. \A q \in Asleep : q \in Procs /\ q # p
  BY AdderFacts DEF Asleep
<1> DEFINE x == semWait(heap[s], p)
<1>7. ASSUME x \in Sems, StatusNext, \A q \in Procs : status'[q] # status[q] => status'[q] # "DEAD"
      PROVE  TestTypes' /\ TestRoster' /\ TestOpened' /\ TestSum'
             /\ DOMAIN heap' = {s} /\ heap'[s] = x
  <2> HIDE DEF x
  <2>1. tableOK(table, heap') /\ DOMAIN heap' = DOMAIN heap /\ heap'[s] = x
    <3>1. heap' = [heap EXCEPT ![s] = x]
      BY <1>3 DEF x
    <3>. QED
      BY <1>2, <1>7, <3>1, SemChanged
  <2>2. TestTypes' /\ TestRoster'
    BY <1>3, <1>7, <2>1, AdderFacts, AdderKeepsTypes DEF TestTypes
  <2>3. TestOpened'
    BY <1>3, <1>7, <2>1, AdderFacts, OpenersMove, OpenedStays
  <2>4. TestSum'
    BY <1>4, <1>7, AdderFacts, NothingStored
  <2>. QED
    BY <1>2, <2>1, <2>2, <2>3, <2>4
<1>8. CASE heap[s].value = 1
  <2>1. ~mustBlock(heap[s]) /\ keeps(x, Asleep) /\ x.value = 0
    BY <1>2, <1>8, WaitTakes
  <2>2. status' = status
    BY <1>3, <1>5, <2>1
  <2>3. StatusNext /\ x \in Sems
    BY <1>5, <2>1, <2>2 DEF StatusNext, keeps
  <2>4. Asleep' = Asleep
    BY <2>2 DEF Asleep
  <2>5. \A q \in Procs : ~Adding(q)
    BY <1>2, <1>8, AdderFacts DEF TestBaton, NoneAdding
  <2>6. \A q \in Procs : Adding(q)' => q = p
    BY <2>2, <2>5, OthersStay
  <2>7. \A q \in Asleep' : inside(q)' /\ quarter(q)' = 1
    BY <1>6, <2>4, OthersStay, AdderFacts DEF TestBaton
  <2>8. TestBaton'
    <3>1. \A t \in DOMAIN heap' : keeps(heap'[t], Asleep') /\ heap'[t].value # 1
      BY <1>7, <2>1, <2>2, <2>3, <2>4
    <3>. QED
      BY <1>4, <2>6, <2>7, <3>1, AdderFacts DEF TestBaton
  <2>. QED
    BY <1>7, <2>2, <2>3, <2>8 DEF TestInv
<1>9. CASE heap[s].value <= 0
  <2>1. mustBlock(heap[s]) /\ keeps(x, Asleep \cup {p}) /\ x.value <= 0
    BY <1>2, <1>5, <1>6, <1>9, WaitBlocks
  <2>2. status'[p] = "BLOCKED" /\ \A q \in Procs \ {p} : status'[q] = status[q]
    BY <1>3, <1>5, <2>1
  <2>3. StatusNext /\ x \in Sems /\ \A q \in Procs : status'[q] # status[q] => status'[q] # "DEAD"
    BY <1>3, <1>5, <2>1, <2>2, AdderFacts DEF StatusNext, keeps
  <2>4. Asleep' = Asleep \cup {p}
    BY <1>5, <2>2, AdderFacts DEF Asleep
  <2>5. \A q \in Procs : Adding(q)' => Adding(q) /\ q # p
    BY <2>2, OthersStay DEF Adding
  <2>6. \A q \in Asleep' : inside(q)' /\ quarter(q)' = 1
    BY <1>4, <1>6, <2>4, OthersStay, AdderFacts DEF TestBaton
  <2>7. TestBaton'
    <3>1. \A t \in DOMAIN heap' : keeps(heap'[t], Asleep') /\ heap'[t].value # 1
      BY <1>7, <2>1, <2>3, <2>4
    <3>2. \A q \in Adders : Adding(q)' /\ quarter(q)' = 2 => aux'[q] = global'
      BY <2>5, OthersStay, AdderFacts DEF TestBaton
    <3>3. \A q, r \in Procs : Adding(q)' /\ Adding(r)' => q = r
      BY <2>5, AdderFacts DEF TestBaton
    <3>. QED
      BY <2>6, <3>1, <3>2, <3>3 DEF TestBaton
  <2>. QED
    BY <1>7, <2>3, <2>7 DEF TestInv
<1>. QED
  BY <1>2, <1>8, <1>9

LEMMA AdderPosts ==
    ASSUME Test, TestInv, NEW p \in Adders, status[p] = "READY", PcNext(p), Untouched,
           inside(p), quarter(p) = 3, sharedSemPost("sem"), UNCHANGED <<global, aux>>
    PROVE  TestInv'
<1>1. Openers # {}
  BY AdderFacts
<1>2. PICK s \in DOMAIN heap :
              /\ names(table, "sem", s) /\ DOMAIN heap = {s} /\ heap[s] \in Sems
              /\ keeps(heap[s], Asleep) /\ heap[s].value \in Int /\ heap[s].value <= 1
              /\ tableOK(table, heap)
  BY <1>1, TheSem
<1> DEFINE x == semPost(heap[s], Blocked)
           woken == Woken(heap[s], Blocked)
<1>3. /\ heap' = [heap EXCEPT ![s] = x]
      /\ status' = [q \in Procs |-> IF q \in woken THEN "READY" ELSE status[q]]
      /\ table' = table
  BY <1>2, PostOn
<1>4. /\ quarter(p)' = 0 /\ pc[p] # PerAdder + 3 /\ Adding(p) /\ ~Adding(p)'
  BY AdderFacts, AdderMoves DEF Adding, inside
<1>5. status \in [Procs -> {"FREE", "READY", "BLOCKED", "DEAD"}] /\ p \in Procs
  BY AdderFacts DEF TestTypes
<1>6. /\ \A q \in Asleep : q \in Procs /\ q # p /\ inside(q)' /\ quarter(q)' = 1
      /\ \A q \in Procs : Adding(q) => q = p
      /\ heap[s].value # 1
  <2>1. \A q \in Asleep : q \in Procs /\ q # p
    BY AdderFacts DEF Asleep
  <2>2. \A q \in Asleep : inside(q)' /\ quarter(q)' = 1
    BY <2>1, OthersStay, AdderFacts DEF TestBaton
  <2>3. \A q \in Procs : Adding(q) => q = p
    BY <1>4, <1>5, AdderFacts DEF TestBaton
  <2>4. heap[s].value # 1
    BY <1>2, <1>4, <1>5, AdderFacts DEF TestBaton, NoneAdding
  <2>. QED
    BY <2>1, <2>2, <2>3, <2>4
<1> HIDE DEF x, woken
<1>7. ASSUME x \in Sems, StatusNext, \A q \in Procs : status'[q] # status[q] => status'[q] # "DEAD"
      PROVE  TestTypes' /\ TestRoster' /\ TestOpened' /\ TestSum'
             /\ DOMAIN heap' = {s} /\ heap'[s] = x
  <2>1. tableOK(table, heap') /\ DOMAIN heap' = DOMAIN heap /\ heap'[s] = x
    BY <1>2, <1>3, <1>7, SemChanged
  <2>2. TestTypes' /\ TestRoster'
    BY <1>3, <1>7, <2>1, AdderFacts, AdderKeepsTypes DEF TestTypes
  <2>3. TestOpened'
    BY <1>3, <1>7, <2>1, AdderFacts, OpenersMove, OpenedStays
  <2>4. TestSum'
    BY <1>4, <1>7, AdderFacts, NothingStored
  <2>. QED
    BY <1>2, <2>1, <2>2, <2>3, <2>4
<1>8. CASE heap[s].value = 0
  <2>1. woken = {} /\ keeps(x, Asleep) /\ x.value = 1
    BY <1>2, <1>8, PostFrees DEF x, woken
  <2>2. status' = status
    BY <1>3, <1>5, <2>1
  <2>3. StatusNext /\ x \in Sems
    BY <1>5, <2>1, <2>2 DEF StatusNext, keeps
  <2>4. Asleep' = Asleep
    BY <2>2 DEF Asleep
  <2>5. \A q \in Procs : ~Adding(q)'
    BY <1>4, <1>6, <2>2, OthersStay
  <2>6. TestBaton'
    <3>1. \A t \in DOMAIN heap' : keeps(heap'[t], Asleep')
      BY <1>7, <2>1, <2>2, <2>3, <2>4
    <3>2. \A q \in Asleep' : inside(q)' /\ quarter(q)' = 1
      BY <1>6, <2>4
    <3>. QED
      BY <2>5, <3>1, <3>2, AdderFacts DEF TestBaton, NoneAdding
  <2>. QED
    BY <1>7, <2>2, <2>3, <2>6 DEF TestInv
<1>9. CASE heap[s].value < 0
  <2>1. Asleep \subseteq Blocked
    BY AdderFacts DEF Asleep, Blocked
  <2>2. PICK w \in Procs :
              /\ isIn(w, heap[s].blockedQueue) /\ w \in Asleep /\ woken = {w}
              /\ keeps(x, Asleep \ {w}) /\ x.value <= 0
    BY <1>2, <1>9, <2>1, PostWakes DEF x, woken
  <2>3. status'[w] = "READY" /\ \A q \in Procs \ {w} : status'[q] = status[q]
    BY <1>3, <2>2
  <2>4. /\ StatusNext /\ x \in Sems
        /\ \A q \in Procs : status'[q] # status[q] => status'[q] # "DEAD"
    BY <1>3, <1>5, <2>2, <2>3 DEF StatusNext, keeps, Asleep, Alive
  <2>5. Asleep' = Asleep \ {w}
    BY <2>3, AdderFacts DEF Asleep
  <2>6. \A q \in Procs : Adding(q)' => q = w
    <3>1. ASSUME NEW q \in Procs, q # w, q # p
          PROVE  ~Adding(q)'
      BY <1>6, <2>3, <3>1, OthersStay
    <3>. QED
      BY <1>4, <3>1
  <2>7. quarter(w)' = 1
    BY <1>6, <2>2
  <2>8. TestBaton'
    <3>1. \A t \in DOMAIN heap' : keeps(heap'[t], Asleep') /\ heap'[t].value # 1
      BY <1>7, <2>2, <2>4, <2>5
    <3>2. \A q \in Asleep' : inside(q)' /\ quarter(q)' = 1
      BY <1>6, <2>5
    <3>. QED
      BY <2>6, <2>7, <3>1, <3>2, AdderFacts DEF TestBaton
  <2>. QED
    BY <1>7, <2>4, <2>8 DEF TestInv
<1>. QED
  BY <1>2, <1>6, <1>8, <1>9

LEMMA AdderEnds ==
    ASSUME Test, TestInv, NEW p \in Adders, status[p] = "READY", PcNext(p), Untouched,
           pc[p] = PerAdder + 3, status' = [status EXCEPT ![p] = "DEAD"],
           UNCHANGED <<table, heap, global, aux>>
    PROVE  TestInv'
<1>1. /\ status \in [Procs -> {"FREE", "READY", "BLOCKED", "DEAD"}] /\ p \in Procs
      /\ status'[p] = "DEAD" /\ \A q \in Procs \ {p} : status'[q] = status[q]
  BY AdderFacts DEF TestTypes
<1>2. StatusNext
  BY <1>1, AdderFacts DEF StatusNext
<1>3. TestTypes' /\ TestRoster'
  BY <1>2, AdderFacts, AdderKeepsTypes DEF TestTypes
<1>4. Openers' = Openers
  <2>1. p \notin Openers /\ p \notin Openers'
    <3>1. ~(pc[p] \in 2 .. PerAdder + 2)
      BY AdderFacts
    <3>2. ~Alive(p)'
      BY <1>1 DEF Alive
    <3>. QED
      BY <3>1, <3>2 DEF Openers
  <2>2. ASSUME NEW q \in Adders, q # p
        PROVE  q \in Openers' <=> q \in Openers
    <3>1. q \in Procs /\ status'[q] = status[q]
      BY <1>1, <2>2, AdderFacts
    <3>2. pc'[q] = pc[q]
      BY <2>2, <3>1, OthersStay
    <3>. QED
      BY <3>1, <3>2 DEF Openers, Alive
  <2>. QED
    BY <2>1, <2>2 DEF Openers
<1>5. TestOpened'
  BY <1>4, AdderFacts, OpenedStays
<1>6. TestBaton'
  <2>1. ~Adding(p) /\ ~Adding(p)'
    BY <1>1, AdderFacts DEF Adding, inside
  <2>. QED
    BY <1>1, <2>1, QuietBaton
<1>7. TestSum'
  <2>1. ASSUME NEW q \in Adders
        PROVE  stored(q)' = stored(q)
    <3>1. CASE q = p
      <4>1. (pc[p] - 1) \div 4 = Iterations
        BY AdderFacts, AdderMoves
      <4>. QED
        BY <1>1, <3>1, <4>1 DEF stored
    <3>2. CASE q # p
      <4>1. q \in Procs /\ status'[q] = status[q]
        BY <1>1, <3>2, AdderFacts
      <4>2. pc'[q] = pc[q]
        BY <3>2, <4>1, OthersStay
      <4>. QED
        BY <4>1, <4>2 DEF stored
    <3>. QED
      BY <3>1, <3>2
  <2>. QED
    BY <2>1, AdderFacts, SumStays
<1>. QED
  BY <1>3, <1>5, <1>6, <1>7 DEF TestInv

LEMMA AddersKeep ==
    ASSUME OneAtATime, Test, TestInv, NEW p \in SyncProcs, p # T, Step(p)
    PROVE  TestInv'
<1>1. status[p] = "READY" /\ p \in Adders
  <2>1. status[p] = "READY"
    BY DEF Step
  <2>. QED
    BY <2>1, Numbers DEF TestInv, TestRoster
<1>2. pc \in [Procs -> Nat] /\ pc[p] \in 1 .. PerAdder + 3 /\ p \in Procs /\ T \notin Adders
  BY <1>1, AdderFacts, TestFacts DEF TestTypes
<1>3. foregroundSet \ {p} = foregroundSet
  BY <1>1, <1>2 DEF TestInv, TestRoster
<1>4. UNCHANGED <<session, run, slotValue, ch, unread>>
      /\ pc' = [pc EXCEPT ![p] = IF pc[p] = PerAdder + 3 THEN 1 ELSE pc[p] + 1]
  BY <1>1, <1>2, AdderSteps
<1>5. PcNext(p)
  BY <1>2, <1>4 DEF PcNext, moves
<1>6. UNCHANGED foregroundSet => Untouched
  BY <1>4 DEF Untouched
<1>7. CASE pc[p] = 1 /\ sharedSemOpen("sem", 1) /\ UNCHANGED <<foregroundSet, global, aux>>
  <2>1. CASE Openers = {}
    BY <1>1, <1>5, <1>6, <1>7, <2>1, AdderOpensFirst
  <2>2. CASE Openers # {}
    BY <1>1, <1>5, <1>6, <1>7, <2>2, AdderOpensAgain
  <2>. QED
    BY <2>1, <2>2
<1>8. CASE /\ pc[p] \in 2 .. PerAdder + 1 /\ (pc[p] - 2) % 4 = 0
           /\ sharedSemWait("sem", p) /\ UNCHANGED <<foregroundSet, global, aux>>
  BY <1>1, <1>5, <1>6, <1>8, AdderWaits DEF inside, quarter
<1>9. CASE /\ pc[p] \in 2 .. PerAdder + 1 /\ (pc[p] - 2) % 4 = 1
           /\ aux' = [aux EXCEPT ![p] = global] /\ UNCHANGED <<sharedVars, foregroundSet, global>>
  BY <1>1, <1>5, <1>6, <1>9, AdderLoads DEF inside, quarter, sharedVars
<1>10. CASE /\ pc[p] \in 2 .. PerAdder + 1 /\ (pc[p] - 2) % 4 = 2
            /\ global' = aux[p] + (IF p.i % 2 = 1 THEN -1 ELSE 1)
            /\ aux' = [aux EXCEPT ![p] = 0] /\ UNCHANGED <<sharedVars, foregroundSet>>
  BY <1>1, <1>5, <1>6, <1>10, AdderStores DEF inside, quarter, sharedVars
<1>11. CASE /\ pc[p] \in 2 .. PerAdder + 1 /\ (pc[p] - 2) % 4 = 3
            /\ sharedSemPost("sem") /\ UNCHANGED <<foregroundSet, global, aux>>
  BY <1>1, <1>5, <1>6, <1>11, AdderPosts DEF inside, quarter
<1>12. CASE /\ pc[p] = PerAdder + 2
            /\ sharedSemClose("sem") /\ UNCHANGED <<foregroundSet, global, aux>>
  BY <1>1, <1>5, <1>6, <1>12, AdderCloses
<1>13. CASE /\ pc[p] = PerAdder + 3
            /\ status' = [status EXCEPT ![p] = "DEAD"] /\ foregroundSet' = foregroundSet \ {p}
            /\ UNCHANGED <<table, heap, global, aux>>
  BY <1>1, <1>3, <1>5, <1>6, <1>13, AdderEnds
<1>. QED
  BY <1>1, <1>2, <1>7, <1>8, <1>9, <1>10, <1>11, <1>12, <1>13, AdderSteps

\* The main process creates adders, waits for them and ends; they do not move.
LEMMA AddersAtRest ==
    ASSUME Test, TestInv, UNCHANGED <<table, heap, global, aux>>,
           \A q \in Adders : /\ pc'[q] = pc[q]
                             /\ \/ status'[q] = status[q]
                                \/ status[q] = "FREE" /\ pc[q] = 1 /\ status'[q] = "READY"
    PROVE  TestOpened' /\ TestBaton' /\ TestSum'
<1>1. Openers' = Openers
  BY DEF Openers, Alive
<1>2. Asleep' = Asleep
  BY DEF Asleep
<1>3. \A q \in Procs : /\ Adding(q)' <=> Adding(q)
                       /\ q \in Adders => inside(q)' = inside(q) /\ quarter(q)' = quarter(q)
  BY DEF Adding, inside, quarter
<1>4. \A q \in Adders : stored(q)' = stored(q)
  BY DEF stored
<1>5. TestOpened' /\ TestSum'
  BY <1>1, <1>4, OpenedStays, SumStays DEF TestInv
<1>6. TestBaton'
  <2>1. NoneAdding' <=> NoneAdding
    BY <1>3 DEF NoneAdding
  <2>2. \A q \in Adders : q \in Procs
    BY Kinds, Numbers
  <2>3. Asleep \subseteq Adders
    BY DEF Asleep
  <2>4. TestBaton
    BY DEF TestInv
  <2>5. \A s \in DOMAIN heap' : keeps(heap'[s], Asleep') /\ (heap'[s].value = 1 => NoneAdding')
    BY <1>2, <2>1, <2>4 DEF TestBaton
  <2>6. \A q, r \in Procs : Adding(q)' /\ Adding(r)' => q = r
    BY <1>3, <2>4 DEF TestBaton
  <2>7. \A q \in Asleep' : inside(q)' /\ quarter(q)' = 1
    BY <1>2, <1>3, <2>2, <2>3, <2>4 DEF TestBaton
  <2>8. \A q \in Adders : Adding(q)' /\ quarter(q)' = 2 => aux'[q] = global'
    BY <1>3, <2>2, <2>4 DEF TestBaton
  <2>. QED
    BY <2>5, <2>6, <2>7, <2>8 DEF TestBaton
<1>. QED
  BY <1>5, <1>6

LEMMA TestMainKeeps ==
    ASSUME Test, TestInv, Step(T)
    PROVE  TestInv'
<1>1. /\ TestTypes /\ TestRoster
      /\ pc[T] \in 1 .. Ends /\ status[T] = "READY" /\ T \in Procs /\ T \notin Adders
      /\ status \in [Procs -> {"FREE", "READY", "BLOCKED", "DEAD"}] /\ pc \in [Procs -> Nat]
      /\ foregroundSet = {T} /\ run # 0
  BY TestFacts DEF TestInv, TestTypes, TestRoster, Step
<1>2. /\ UNCHANGED <<session, run, table, heap, slotValue, ch, unread, global, aux>>
      /\ pc' = [pc EXCEPT ![T] = IF pc[T] < Ends THEN pc[T] + 1 ELSE pc[T]]
  BY <1>1, TestSteps DEF progVars
<1>3. /\ pc' \in [Procs -> Nat] /\ \A q \in Procs \ {T} : pc'[q] = pc[q]
      /\ pc'[T] = IF pc[T] < Ends THEN pc[T] + 1 ELSE pc[T]
      /\ pc'[T] \in 1 .. Ends
  BY <1>1, <1>2, TestProgram
<1>4. \A q \in Adders : q \in Procs /\ q # T /\ pc'[q] = pc[q] /\ q.i \in 1 .. 2 * NPairs
  BY <1>1, <1>3, Kinds, Numbers
<1>5. NPairs \in Nat /\ Ends = 4 * NPairs + 1
  BY Numbers DEF Ends
<1>6. ASSUME status' \in [Procs -> {"FREE", "READY", "BLOCKED", "DEAD"}]
      PROVE  TestTypes'
  BY <1>1, <1>2, <1>3, <1>6 DEF TestTypes
<1>7. CASE \E q \in Adders : /\ pc[T] = q.i /\ status' = [status EXCEPT ![q] = "READY"]
                             /\ UNCHANGED foregroundSet
  <2>1. PICK q \in Adders : /\ pc[T] = q.i /\ status' = [status EXCEPT ![q] = "READY"]
                            /\ UNCHANGED foregroundSet
    BY <1>7
  <2>2. /\ status' \in [Procs -> {"FREE", "READY", "BLOCKED", "DEAD"}]
        /\ status'[q] = "READY" /\ \A x \in Procs \ {q} : status'[x] = status[x]
    BY <1>1, <1>4, <2>1
  <2>3. status[q] = "FREE" /\ pc[q] = 1
    BY <1>1, <1>4, <2>1 DEF TestRoster
  <2>4. pc'[T] = q.i + 1
    BY <1>1, <1>3, <1>4, <1>5, <2>1
  <2>5. \A x \in Adders : x # q => x.i # q.i
    BY Kinds
  <2>6. ASSUME NEW x \in Adders
        PROVE  /\ pc'[x] \in 1 .. PerAdder + 3
               /\ pc'[T] <= x.i => status'[x] = "FREE" /\ pc'[x] = 1
               /\ pc'[T] > x.i => status'[x] # "FREE"
               /\ pc'[T] > 2 * NPairs + x.i => status'[x] = "DEAD"
    <3>1. /\ pc[x] \in 1 .. PerAdder + 3
          /\ pc[T] <= x.i => status[x] = "FREE" /\ pc[x] = 1
          /\ pc[T] > x.i => status[x] # "FREE"
      BY <1>1 DEF TestRoster
    <3>2. ~(q.i + 1 > 2 * NPairs + x.i)
      BY <1>4, <1>5
    <3>3. CASE x = q
      BY <1>4, <1>5, <2>2, <2>4, <3>1, <3>2, <3>3
    <3>4. CASE x # q
      <4>1. x.i # q.i /\ x.i \in Nat /\ q.i \in Nat
        BY <1>4, <1>5, <2>5, <3>4
      <4>2. /\ q.i + 1 <= x.i => q.i <= x.i
            /\ q.i + 1 > x.i => q.i > x.i
        BY <4>1
      <4>3. status'[x] = status[x] /\ pc'[x] = pc[x]
        BY <1>4, <2>2, <3>4
      <4>. QED
        BY <2>1, <2>4, <3>1, <3>2, <4>2, <4>3
    <3>. QED
      BY <3>3, <3>4
  <2>7. TestRoster'
    BY <1>1, <1>2, <1>3, <1>4, <2>1, <2>2, <2>6 DEF TestRoster
  <2>8. TestOpened' /\ TestBaton' /\ TestSum'
    <3>1. \A x \in Adders : /\ pc'[x] = pc[x]
                            /\ \/ status'[x] = status[x]
                               \/ status[x] = "FREE" /\ pc[x] = 1 /\ status'[x] = "READY"
      BY <1>4, <2>2, <2>3
    <3>. QED
      BY <1>2, <3>1, AddersAtRest
  <2>. QED
    BY <1>6, <2>2, <2>7, <2>8 DEF TestInv
<1>8. CASE \E q \in Adders : /\ pc[T] = 2 * NPairs + q.i /\ status[q] = "DEAD"
                             /\ UNCHANGED <<status, foregroundSet>>
  <2>1. PICK q \in Adders : /\ pc[T] = 2 * NPairs + q.i /\ status[q] = "DEAD"
                            /\ UNCHANGED <<status, foregroundSet>>
    BY <1>8
  <2>2. pc'[T] = 2 * NPairs + q.i + 1
    BY <1>1, <1>3, <1>4, <1>5, <2>1
  <2>3. \A x \in Adders : x # q => x.i # q.i
    BY Kinds
  <2>4. ASSUME NEW x \in Adders
        PROVE  /\ pc'[x] \in 1 .. PerAdder + 3
               /\ pc'[T] <= x.i => status'[x] = "FREE" /\ pc'[x] = 1
               /\ pc'[T] > x.i => status'[x] # "FREE"
               /\ pc'[T] > 2 * NPairs + x.i => status'[x] = "DEAD"
    <3>1. /\ pc[x] \in 1 .. PerAdder + 3
          /\ pc[T] > x.i => status[x] # "FREE"
          /\ pc[T] > 2 * NPairs + x.i => status[x] = "DEAD"
      BY <1>1 DEF TestRoster
    <3>2. /\ ~(2 * NPairs + q.i + 1 <= x.i) /\ 2 * NPairs + q.i > x.i
          /\ 2 * NPairs + q.i + 1 > 2 * NPairs + x.i /\ x.i # q.i => 2 * NPairs + q.i > 2 * NPairs + x.i
      BY <1>4, <1>5
    <3>3. status'[x] = status[x] /\ pc'[x] = pc[x]
      BY <1>4, <2>1
    <3>4. x.i = q.i => x = q
      BY <2>3
    <3>. QED
      BY <2>1, <2>2, <3>1, <3>2, <3>3, <3>4
  <2>5. TestRoster'
    BY <1>1, <1>2, <1>3, <1>4, <2>1, <2>4 DEF TestRoster
  <2>6. TestOpened' /\ TestBaton' /\ TestSum'
    BY <1>2, <1>4, <2>1, AddersAtRest
  <2>. QED
    BY <1>1, <1>6, <2>1, <2>5, <2>6 DEF TestInv
<1>9. CASE /\ pc[T] = Ends /\ status' = [status EXCEPT ![T] = "DEAD"]
           /\ foregroundSet' = foregroundSet \ {T}
  <2>1. /\ status' \in [Procs -> {"FREE", "READY", "BLOCKED", "DEAD"}]
        /\ status'[T] = "DEAD" /\ \A x \in Procs \ {T} : status'[x] = status[x]
    BY <1>1, <1>9
  <2>2. pc'[T] = pc[T]
    BY <1>3, <1>5, <1>9
  <2>3. \A x \in Adders : status'[x] = status[x] /\ pc'[x] = pc[x]
    BY <1>4, <2>1
  <2>4. TestRoster'
    BY <1>1, <1>2, <1>3, <1>9, <2>1, <2>2, <2>3 DEF TestRoster
  <2>5. TestOpened' /\ TestBaton' /\ TestSum'
    BY <1>2, <2>3, AddersAtRest
  <2>. QED
    BY <1>6, <2>1, <2>4, <2>5 DEF TestInv
<1>. QED
  BY <1>1, <1>7, <1>8, <1>9, TestSteps

LEMMA TestStartKeeps ==
    ASSUME Test, TestInv, Start
    PROVE  TestInv'
<1>1. TestTypes /\ TestRoster /\ Len(session) = 1 /\ session[1] = "test_sync"
      /\ T \in Procs /\ T \notin Adders
  BY TestFacts DEF TestInv
<1>2. run = 0
  BY <1>1 DEF Start, TestTypes
<1>3. /\ run' = 1 /\ status' = [status EXCEPT ![T] = "READY"]
      /\ foregroundSet' = foregroundSet \cup {T} /\ session' = session
      /\ global' = 0 /\ UNCHANGED <<table, heap, pc, ch, aux, unread>>
  BY <1>1, <1>2 DEF Start, T
<1>4. status[T] = "FREE" /\ pc[T] = 1 /\ foregroundSet = {}
  BY <1>1, <1>2 DEF TestRoster
<1>5. /\ status' \in [Procs -> {"FREE", "READY", "BLOCKED", "DEAD"}]
      /\ status'[T] = "READY" /\ \A q \in Procs \ {T} : status'[q] = status[q]
  BY <1>1, <1>3 DEF TestTypes
<1>6. TestTypes'
  BY <1>1, <1>3, <1>5 DEF TestTypes
<1>7. \A q \in Adders : q \in Procs \ {T} /\ q.i \in Nat /\ pc[T] <= q.i /\ NPairs \in Nat
  <2>1. \A q \in Adders : q \in Procs \ {T} /\ q.i \in 1 .. 2 * NPairs
    BY <1>1, Kinds, Numbers
  <2>. QED
    BY <1>4, <2>1, Numbers
<1>8. \A q \in Adders : status[q] = "FREE" /\ pc[q] = 1
  BY <1>1, <1>7 DEF TestRoster
<1>9. TestRoster'
  BY <1>1, <1>3, <1>4, <1>5, <1>7 DEF TestRoster
<1>10. TestOpened'
  <2>1. Openers' = Openers
    BY <1>3, <1>5, <1>7 DEF Openers, Alive
  <2>. QED
    BY <1>3, <2>1, OpenedStays DEF TestInv
<1>11. TestBaton'
  <2>1. \A q \in Procs : ~Adding(q)'
    BY <1>3, <1>5, <1>7, <1>8 DEF Adding
  <2>2. Asleep' = {} /\ Asleep = {}
    BY <1>5, <1>7, <1>8 DEF Asleep
  <2>3. \A s \in DOMAIN heap' : keeps(heap'[s], Asleep')
    BY <1>3, <2>2 DEF TestInv, TestBaton
  <2>. QED
    BY <1>7, <2>1, <2>2, <2>3 DEF TestBaton, NoneAdding
<1>12. TestSum'
  <2>1. \A q \in Adders : stored(q)' = 0
    BY <1>3, <1>5, <1>7, <1>8 DEF stored
  <2>2. ASSUME NEW r
        PROVE  Stores(r)' = {}
    <3>1. \A x \in Adders \X (1 .. Iterations) : x[1] \in Adders /\ x[2] \in 1 .. Iterations
      OBVIOUS
    <3>2. \A x \in Adders \X (1 .. Iterations) : ~(x[2] <= stored(x[1])')
      BY <2>1, <3>1, Numbers
    <3>. QED
      BY <3>2 DEF Stores
  <2>3. Cardinality({}) = 0
    BY FS_EmptySet
  <2>. QED
    BY <1>3, <2>2, <2>3 DEF TestSum
<1>. QED
  BY <1>6, <1>9, <1>10, <1>11, <1>12 DEF TestInv

\* Nobody types Ctrl+C: the main process is at none of the steps it comes at.
LEMMA NoCtrlC ==
    ASSUME OneAtATime, Test, TestInv
    PROVE  ~CtrlC
<1>1. TestTypes /\ TestRoster
  BY DEF TestInv
<1>2. SUFFICES ASSUME CtrlC PROVE FALSE
  OBVIOUS
<1>3. status[T] = "READY" /\ Alive(T) /\ T \in Mains /\ pc[T] \in 1 .. Ends
      /\ Program(T) = test_sync_command
  BY <1>1, <1>2, TestFacts DEF CtrlC, TestRoster, Alive
<1>4. test_sync_command[pc[T]][1] = "yield"
  BY <1>2, <1>3 DEF CtrlC, OneAtATime
<1>5. CASE pc[T] \in 1 .. 2 * NPairs
  BY <1>4, <1>5, TestProgram
<1>6. CASE pc[T] \in 2 * NPairs + 1 .. 4 * NPairs
  BY <1>4, <1>6, TestProgram
<1>7. CASE pc[T] = Ends
  BY <1>4, <1>7, TestProgram
<1>. QED
  BY <1>3, <1>5, <1>6, <1>7, Numbers DEF Ends

-----------------------------------------------------------------------------
(* Both commands *)

SyncInv ==
    \/ Mvar /\ MvarInv
    \/ Test /\ TestInv

LEMMA NoNamesYet ==
    ASSUME Init
    PROVE  /\ tableOK(table, heap) /\ DOMAIN heap = {}
           /\ \A i \in Slots : ~table[i].used
<1>1. table = [i \in Slots |-> Unused] /\ heap = <<>>
  BY DEF Init, SharedInit
<1>2. Unused \in Rows /\ ~Unused.used
  BY DEF Rows, Unused
<1>3. DOMAIN heap = {} /\ heap \in [{} -> Sems]
  BY <1>1
<1>. QED
  BY <1>1, <1>2, <1>3 DEF tableOK

LEMMA InitMvar ==
    ASSUME Mvar, Init
    PROVE  MvarInv
<1>1. /\ session \in Sessions /\ run = 0 /\ foregroundSet = {}
      /\ status = [p \in Procs |-> "FREE"] /\ pc = [p \in Procs |-> 1]
      /\ slotValue = 0 /\ ch = [r \in Readers |-> 0] /\ unread = FALSE
  BY DEF Init, Zero
<1>2. ~MainOn
  BY <1>1, Numbers DEF MainOn, Runs
<1>3. \A p \in Procs : ~Alive(p)
  BY <1>1 DEF Alive
<1>4. /\ Writers \subseteq Procs /\ Readers \subseteq Procs /\ Adders \subseteq Procs /\ Mains \subseteq Procs
  BY Kinds, Numbers
<1>5. Types
  <2>1. Len(session) \in Nat
    BY DEF Mvar
  <2>2. run \in 0 .. Len(session) /\ slotValue \in 0 .. NWriters
    BY <1>1, <2>1, Numbers
  <2>3. /\ status \in [Procs -> {"FREE", "READY", "BLOCKED", "DEAD"}] /\ pc \in [Procs -> Nat]
        /\ ch \in [Readers -> Nat]
    BY <1>1
  <2>. QED
    BY <1>1, <2>2, <2>3, NoNamesYet DEF Types
<1>6. Roster
  BY <1>1, <1>2, <1>3, <1>4 DEF Roster
<1>7. Opened /\ Queued
  BY <1>2, NoNamesYet DEF Opened, Queued
<1>8. Baton /\ Carries
  BY <1>1, <1>2, <1>4 DEF Baton, Carries
<1>. QED
  BY <1>5, <1>6, <1>7, <1>8 DEF MvarInv

LEMMA InitTest ==
    ASSUME Test, Init
    PROVE  TestInv
<1>1. /\ session \in Sessions /\ run = 0 /\ foregroundSet = {}
      /\ status = [p \in Procs |-> "FREE"] /\ pc = [p \in Procs |-> 1]
      /\ ch = [r \in Readers |-> 0] /\ unread = FALSE
      /\ global = 0 /\ aux = [p \in Adders |-> 0]
  BY DEF Init, Zero
<1>2. TestTypes
  BY <1>1, NoNamesYet DEF TestTypes, Test
<1>3. T \in Procs /\ Adders \subseteq Procs /\ \A q \in Adders : q.i \in Nat /\ q.i >= 1
  <2>1. \A q \in Adders : q.i \in 1 .. 2 * NPairs
    BY Kinds
  <2>. QED
    BY <1>2, <2>1, TestFacts, Kinds, Numbers
<1>4. \A q \in Adders : status[q] = "FREE" /\ pc[q] = 1
  BY <1>1, <1>3
<1>5. TestRoster
  <2>1. 1 \in 1 .. Ends /\ 1 \in 1 .. PerAdder + 3
    BY Numbers DEF Ends, PerAdder
  <2>2. \A q \in Adders : 1 <= q.i /\ ~(1 > q.i) /\ ~(1 > 2 * NPairs + q.i)
    BY <1>3, Numbers
  <2>. QED
    BY <1>1, <1>3, <1>4, <2>1, <2>2 DEF TestRoster
<1>6. TestOpened
  <2>1. Openers = {}
    BY <1>4 DEF Openers, Alive
  <2>. QED
    BY <2>1, NoNamesYet DEF TestOpened, closed
<1>7. TestBaton
  <2>1. (\A q \in Procs : ~Adding(q)) /\ Asleep = {}
    BY <1>4 DEF Adding, Asleep
  <2>. QED
    BY <1>3, <2>1, NoNamesYet DEF TestBaton, NoneAdding
<1>8. TestSum
  <2>1. \A q \in Adders : stored(q) = 0
    BY <1>4 DEF stored
  <2>2. ASSUME NEW r
        PROVE  Stores(r) = {}
    <3>1. \A x \in Adders \X (1 .. Iterations) : x[1] \in Adders /\ x[2] \in 1 .. Iterations
      OBVIOUS
    <3>2. \A x \in Adders \X (1 .. Iterations) : ~(x[2] <= stored(x[1]))
      BY <2>1, <3>1, Numbers
    <3>. QED
      BY <3>2 DEF Stores
  <2>3. Cardinality({}) = 0
    BY FS_EmptySet
  <2>. QED
    BY <1>1, <2>2, <2>3 DEF TestSum
<1>. QED
  BY <1>2, <1>5, <1>6, <1>7, <1>8 DEF TestInv

LEMMA InitSync ==
    ASSUME OneAtATime, Init
    PROVE  SyncInv
<1>1. session \in Sessions
  BY DEF Init
<1>2. Mvar \/ Test
  BY <1>1 DEF OneAtATime, Mvar, Test
<1>. QED
  BY <1>2, InitMvar, InitTest DEF SyncInv

LEMMA MainOrWorker ==
    ASSUME Mvar, MvarInv, NEW p \in SyncProcs, Step(p)
    PROVE  p = M => MainOn
  BY Numbers DEF Step, MainOn, MvarInv, Roster, Alive

LEMMA NextSync ==
    ASSUME OneAtATime, SyncInv, [Next]_syncVars
    PROVE  SyncInv'
<1>1. session' = session
  BY DEF Next, Start, CtrlC, Step, Semaphores, SharedMemory, Processes, syncVars
<1>2. (Mvar' <=> Mvar) /\ (Test' <=> Test)
  BY <1>1 DEF Mvar, Test
<1>3. CASE UNCHANGED syncVars
  <2>1. MvarInv => MvarInv'
    BY <1>3 DEF syncVars, sharedVars, progVars, MvarInv, Types, Roster, Opened, Queued, Baton, Carries,
                MainOn, M, Stage, Crew, Alive, closed, ExclOK, LibreOK, LlenoOK, Turn, Mid, Locks,
                NoMid, Waiting, tableOK, names, row, keeps
  <2>2. TestInv => TestInv'
    <3>1. /\ UNCHANGED <<table, heap, status, session, run, pc, foregroundSet>>
          /\ UNCHANGED <<ch, unread, global, aux>>
      BY <1>3 DEF syncVars, sharedVars, progVars
    <3>2. ASSUME TestInv
          PROVE  TestOpened' /\ TestBaton' /\ TestSum'
      <4>1. Openers' = Openers /\ Asleep' = Asleep
        BY <3>1 DEF Openers, Asleep, Alive
      <4>2. \A q : /\ Adding(q)' <=> Adding(q)
                   /\ inside(q)' = inside(q) /\ quarter(q)' = quarter(q) /\ stored(q)' = stored(q)
        BY <3>1 DEF Adding, inside, quarter, stored
      <4>3. TestOpened' /\ TestSum'
        BY <3>1, <3>2, <4>1, <4>2, OpenedStays, SumStays DEF TestInv
      <4>4. TestBaton'
        BY <3>1, <3>2, <4>1, <4>2 DEF TestInv, TestBaton, NoneAdding
      <4>. QED
        BY <4>3, <4>4
    <3>3. TestTypes /\ TestRoster => TestTypes' /\ TestRoster'
      BY <3>1 DEF TestTypes, TestRoster
    <3>. QED
      BY <3>2, <3>3 DEF TestInv
  <2>. QED
    BY <1>2, <2>1, <2>2 DEF SyncInv
<1>4. CASE Start
  BY <1>2, <1>4, StartKeeps, TestStartKeeps DEF SyncInv
<1>5. CASE CtrlC
  BY <1>2, <1>5, CtrlCKeeps, NoCtrlC DEF SyncInv
<1>6. CASE \E p \in SyncProcs : Step(p)
  <2>1. PICK p \in SyncProcs : Step(p)
    BY <1>6
  <2>2. ASSUME Mvar, MvarInv
        PROVE  MvarInv'
    <3>1. CASE p = M
      BY <2>1, <2>2, <3>1, MainOrWorker, MainKeeps
    <3>2. CASE p # M
      BY <2>1, <2>2, <3>2, WorkersKeep
    <3>. QED
      BY <3>1, <3>2
  <2>3. ASSUME Test, TestInv
        PROVE  TestInv'
    <3>1. CASE p = T
      BY <2>1, <2>3, <3>1, TestMainKeeps
    <3>2. CASE p # T
      BY <2>1, <2>3, <3>2, AddersKeep
    <3>. QED
      BY <3>1, <3>2
  <2>. QED
    BY <1>2, <2>2, <2>3 DEF SyncInv
<1>. QED
  BY <1>3, <1>4, <1>5, <1>6 DEF Next

\* The table of sharedSemaphores.c, its semaphores and the processes of mvar.c
\* and test_sync.c are as MvarInv or TestInv says in every reachable state.
THEOREM SyncInvariance ==
    ASSUME OneAtATime PROVE Spec => []SyncInv
<1>1. Init => SyncInv
  BY InitSync
<1>2. SyncInv /\ [Next]_syncVars => SyncInv'
  BY NextSync
<1>. QED
  BY <1>1, <1>2, PTL DEF Spec

-----------------------------------------------------------------------------
(* What it implies *)

LEMMA NobodyIsStranded ==
    ASSUME SyncInv
    PROVE  NobodyStranded
<1> SUFFICES ASSUME NEW s \in DOMAIN heap, QueuedOn(s) \cap Blocked # {}
             PROVE  s \in Listed
  BY DEF NobodyStranded
<1>1. PICK p \in Procs : p \in QueuedOn(s) /\ status[p] = "BLOCKED"
  BY DEF Blocked
<1>2. \A n : names(table, n, s) => s \in Listed
  BY DEF names, row, Listed
<1>3. CASE Mvar /\ MvarInv
  <2>1. heap[s] \in Sems
    BY <1>3 DEF MvarInv, Types, tableOK
  <2>2. isIn(p, heap[s].blockedQueue)
    BY <1>1, <2>1 DEF QueuedOn, Range, isIn, Sems
  <2>. QED
    BY <1>1, <1>2, <1>3, <2>2 DEF MvarInv, Queued
<1>4. CASE Test /\ TestInv
  BY <1>2, <1>4 DEF TestInv, TestOpened
<1>. QED
  BY <1>3, <1>4 DEF SyncInv

\* When all the adders have ended, as many went up as went down.
LEMMA AllStored ==
    ASSUME \A q \in Adders : stored(q) = Iterations
    PROVE  Cardinality(Stores(0)) = Cardinality(Stores(1))
<1> DEFINE S == Stores(0)
           D == Stores(1)
           f == [x \in S |-> <<Proc("adder", x[1].i - 1, 1), x[2]>>]
<1>1. NPairs \in Nat /\ Iterations \in Nat
  BY Numbers
<1>2. ASSUME NEW r
      PROVE  \A x : x \in Stores(r) <=> x \in Adders \X (1 .. Iterations) /\ x[1].i % 2 = r
  <2>1. \A x \in Adders \X (1 .. Iterations) : x[1] \in Adders /\ x[2] \in 1 .. Iterations
    OBVIOUS
  <2>2. \A x \in Adders \X (1 .. Iterations) : x[2] <= stored(x[1])
    BY <1>1, <2>1
  <2>. QED
    BY <2>2 DEF Stores
<1>3. \A q \in Adders : q.i \in 1 .. 2 * NPairs /\ q = Proc("adder", q.i, 1)
  BY Kinds
<1>4. \A i \in 1 .. 2 * NPairs : Proc("adder", i, 1) \in Adders /\ Proc("adder", i, 1).i = i
  BY Kinds, Records
<1>5. \A i \in 1 .. 2 * NPairs :
         /\ i % 2 = 0 => i - 1 \in 1 .. 2 * NPairs /\ (i - 1) % 2 = 1
         /\ i % 2 = 1 => i + 1 \in 1 .. 2 * NPairs /\ (i + 1) % 2 = 0 /\ (i + 1) - 1 = i
  BY <1>1
<1>6. ASSUME NEW q \in Adders, NEW j \in 1 .. Iterations
      PROVE  /\ <<q, j>> \in S <=> q.i % 2 = 0
             /\ <<q, j>> \in D <=> q.i % 2 = 1
  BY <1>2
<1>7. \A x \in S \cup D : /\ x = <<x[1], x[2]>> /\ x[1] \in Adders /\ x[2] \in 1 .. Iterations
                          /\ x \in S => x[1].i % 2 = 0
                          /\ x \in D => x[1].i % 2 = 1
  BY <1>2
<1> HIDE DEF S, D
<1>8. f \in [S -> D]
  <2>1. ASSUME NEW x \in S
        PROVE  <<Proc("adder", x[1].i - 1, 1), x[2]>> \in D
    <3>1. x[1].i - 1 \in 1 .. 2 * NPairs /\ (x[1].i - 1) % 2 = 1
      BY <1>3, <1>5, <1>7
    <3>. QED
      BY <1>4, <1>6, <1>7, <3>1
  <2>. QED
    BY <2>1
<1>9. \A x, y \in S : f[x] = f[y] => x = y
  <2>1. ASSUME NEW x \in S, NEW y \in S, f[x] = f[y]
        PROVE  x = y
    <3>1. Proc("adder", x[1].i - 1, 1) = Proc("adder", y[1].i - 1, 1) /\ x[2] = y[2]
      BY <2>1
    <3>2. x[1].i - 1 = y[1].i - 1
      BY <3>1, Records
    <3>3. x[1].i \in Int /\ y[1].i \in Int
      BY <1>1, <1>3, <1>7
    <3>4. x[1] = y[1]
      BY <1>3, <1>7, <3>2, <3>3
    <3>. QED
      BY <1>7, <3>1, <3>4
  <2>. QED
    BY <2>1
<1>10. \A y \in D : \E x \in S : f[x] = y
  <2>1. ASSUME NEW y \in D
        PROVE  \E x \in S : f[x] = y
    <3>1. /\ y[1].i + 1 \in 1 .. 2 * NPairs /\ (y[1].i + 1) % 2 = 0 /\ (y[1].i + 1) - 1 = y[1].i
          /\ y[2] \in 1 .. Iterations /\ y[1] = Proc("adder", y[1].i, 1) /\ y = <<y[1], y[2]>>
      BY <1>3, <1>5, <1>7
    <3> DEFINE q == Proc("adder", y[1].i + 1, 1)
               x == <<q, y[2]>>
    <3>2. q \in Adders /\ q.i = y[1].i + 1
      BY <1>4, <3>1
    <3>3. x \in S
      BY <1>6, <3>1, <3>2
    <3>4. f[x] = <<Proc("adder", q.i - 1, 1), y[2]>>
      BY <3>3
    <3>5. f[x] = y
      BY <3>1, <3>2, <3>4
    <3>. QED
      BY <3>3, <3>5
  <2>. QED
    BY <2>1
<1>11. ExistsBijection(S, D)
  <2> HIDE DEF f
  <2>1. f \in Bijection(S, D)
    BY <1>8, <1>9, <1>10 DEF Bijection, Injection, Surjection, IsInjective
  <2>. QED
    BY <2>1 DEF ExistsBijection
<1>. QED
  BY <1>11, StoresAreFinite, FS_Bijection DEF S, D

LEMMA SumIsZeroAtLast ==
    ASSUME OneAtATime, SyncInv
    PROVE  SumIsZero
<1> SUFFICES ASSUME NEW p \in Mains, status[p] = "READY", session[p.run] = "test_sync",
                    Program(p)[pc[p]][1] = "exit"
             PROVE  global = 0
  BY DEF SumIsZero
<1>0. p \in Procs
  BY Kinds, Numbers
<1>1. CASE Mvar /\ MvarInv
  <2>1. MainOn /\ p.run = run
    BY <1>0, <1>1 DEF MvarInv, Roster, Alive
  <2>2. run \in 1 .. Len(session)
    <3>1. Len(session) \in Nat /\ run \in 0 .. Len(session) /\ run \in Runs /\ MaxRuns \in Nat
      BY <1>1, <2>1, Numbers DEF Mvar, MvarInv, Types, MainOn
    <3> HIDE DEF MaxRuns
    <3>. QED
      BY <3>1 DEF Runs
  <2>3. session[run] = "mvar"
    BY <1>1, <2>2, MvarRuns DEF MvarInv
  <2>. QED
    BY <2>1, <2>3
<1>2. CASE Test /\ TestInv
  <2>1. p = T /\ TestTypes /\ TestRoster /\ TestSum
    BY <1>0, <1>2, Kinds, Programs, TestFacts DEF TestInv, TestRoster
  <2>2. pc[T] \in 1 .. Ends /\ test_sync_command[pc[T]][1] = "exit"
    BY <1>2, <2>1, TestFacts DEF TestRoster
  <2>3. pc[T] = Ends
    <3>1. ~(pc[T] \in 1 .. 2 * NPairs) /\ ~(pc[T] \in 2 * NPairs + 1 .. 4 * NPairs)
      BY <2>2, TestProgram
    <3>. QED
      BY <2>2, <3>1, Numbers DEF Ends
  <2>4. \A q \in Adders : pc[T] > 2 * NPairs + q.i
    <3>1. \A q \in Adders : q.i \in 1 .. 2 * NPairs
      BY Kinds
    <3>. QED
      BY <2>3, <3>1, Numbers DEF Ends
  <2>5. \A q \in Adders : stored(q) = Iterations
    BY <2>1, <2>4 DEF TestRoster, stored
  <2>. QED
    BY <2>1, <2>5, AllStored, StoresAreFinite DEF TestSum
<1>. QED
  BY <1>1, <1>2 DEF SyncInv

-----------------------------------------------------------------------------
(* Every step is a step of the one-slot buffer *)

Slot == IF unread THEN slotValue ELSE Zero
bufferVars == <<Slot, ch, run>>

LEMMA WriteIsPut ==
    ASSUME slotValue' \in 1 .. NWriters, ~unread, unread' = TRUE, UNCHANGED <<ch, run>>
    PROVE  Buffer!Next
<1>1. Slot = Zero /\ Slot' = slotValue'
  BY DEF Slot
<1>. QED
  BY <1>1 DEF Buffer!Next, Buffer!Put, Slot

LEMMA ReadIsTake ==
    ASSUME NEW p \in Readers, unread, slotValue > 0, slotValue \in Nat, ch[p] = 0,
           ch' = [ch EXCEPT ![p] = slotValue], unread' = FALSE, run' = run
    PROVE  Buffer!Next
<1>1. Slot = slotValue /\ Slot' = Zero /\ slotValue # Zero
  BY DEF Slot, Zero
<1>2. Buffer!Take(p)
  BY <1>1 DEF Buffer!Take, Slot, Zero
<1>. QED
  BY <1>2 DEF Buffer!Next

LEMMA ForgetIsDone ==
    ASSUME NEW R \in SUBSET Readers, ch' = [r \in Readers |-> IF r \in R THEN Zero ELSE ch[r]],
           UNCHANGED <<slotValue, unread, run>>
    PROVE  Buffer!Next
<1>1. Slot' = Slot
  BY DEF Slot
<1>2. Buffer!Done(R)
  BY <1>1 DEF Buffer!Done, Slot
<1>. QED
  BY <1>2 DEF Buffer!Next

LEMMA StartIsRestart ==
    ASSUME unread' = FALSE, run' = run + 1, ch' = ch
    PROVE  Buffer!Next
<1>1. Slot' = Zero
  BY DEF Slot
<1>2. Buffer!Restart
  BY <1>1 DEF Buffer!Restart, Slot
<1>. QED
  BY <1>2 DEF Buffer!Next

LEMMA BufferInit ==
    ASSUME Init
    PROVE  Buffer!Init
  BY DEF Init, Buffer!Init, Zero

\* The steps of a writer and of a reader.
LEMMA WorkersBuffer ==
    ASSUME Mvar, MvarInv, NEW p \in SyncProcs, p # M, Step(p)
    PROVE  Buffer!Next \/ UNCHANGED <<slotValue, ch, unread, run>>
<1>1. /\ status[p] = "READY" /\ Types /\ Roster /\ Carries /\ Turn
      /\ p \in Procs /\ p \in Crew
      /\ p \in Writers \/ p \in Readers
  <2>1. status[p] = "READY"
    BY DEF Step
  <2>. QED
    BY <2>1, InCrew
<1>2. pc[p] = 3 => Mid(p)
  BY <1>1 DEF Mid
<1>3. CASE p \in Writers
  <2>1. pc[p] \in 1 .. 5
    BY <1>1, <1>3 DEF Roster
  <2>2. /\ UNCHANGED <<ch, run>>
        /\ \/ UNCHANGED <<slotValue, unread>>
           \/ pc[p] = 3 /\ slotValue' = p.i /\ unread' = TRUE
    BY <1>1, <1>3, <2>1, WriterSteps
  <2>3. ASSUME pc[p] = 3, slotValue' = p.i, unread' = TRUE
        PROVE  Buffer!Next
    <3>1. ~unread
      BY <1>1, <1>2, <1>3, <2>3 DEF Turn
    <3>2. slotValue' \in 1 .. NWriters
      BY <1>3, <2>3, Kinds
    <3>. QED
      BY <2>2, <2>3, <3>1, <3>2, WriteIsPut
  <2>. QED
    BY <2>2, <2>3
<1>4. CASE p \in Readers
  <2>1. pc[p] \in 1 .. 6
    BY <1>1, <1>4 DEF Roster
  <2>2. /\ UNCHANGED <<slotValue, run>>
        /\ \/ UNCHANGED <<ch, unread>>
           \/ pc[p] = 3 /\ ch' = [ch EXCEPT ![p] = slotValue] /\ unread' = FALSE
           \/ ch' = [ch EXCEPT ![p] = Zero] /\ unread' = unread
    BY <1>1, <1>4, <2>1, ReaderSteps
  <2>3. ASSUME pc[p] = 3, ch' = [ch EXCEPT ![p] = slotValue], unread' = FALSE
        PROVE  Buffer!Next
    <3>1. unread
      BY <1>1, <1>2, <1>4, <2>3 DEF Turn
    <3>2. slotValue \in Nat /\ slotValue > 0
      BY <1>1, <3>1, Numbers DEF Types
    <3>3. ch[p] = 0
      BY <1>1, <1>4, <2>3 DEF Carries
    <3>. QED
      BY <1>4, <2>2, <2>3, <3>1, <3>2, <3>3, ReadIsTake
  <2>4. ASSUME ch' = [ch EXCEPT ![p] = Zero], unread' = unread
        PROVE  Buffer!Next
    <3>1. ch' = [r \in Readers |-> IF r \in {p} THEN Zero ELSE ch[r]]
      BY <1>1, <2>4 DEF Types
    <3>. QED
      BY <1>4, <2>2, <2>4, <3>1, ForgetIsDone
  <2>. QED
    BY <2>2, <2>3, <2>4
<1>. QED
  BY <1>1, <1>3, <1>4

LEMMA NextBuffer ==
    ASSUME OneAtATime, SyncInv, [Next]_syncVars
    PROVE  [Buffer!Next]_bufferVars
<1>1. UNCHANGED <<slotValue, ch, unread, run>> => UNCHANGED bufferVars
  BY DEF bufferVars, Slot
<1>2. CASE UNCHANGED syncVars
  BY <1>1, <1>2 DEF syncVars, progVars
<1>3. CASE Start
  <2>1. Mvar => unread' = FALSE
    <3>1. ASSUME Mvar
          PROVE  session[run + 1] = "mvar"
      <4>1. run + 1 \in 1 .. Len(session)
        BY <1>3, <3>1 DEF Start, SyncInv, MvarInv, TestInv, Types, TestTypes, Mvar
      <4>. QED
        BY <3>1, <4>1 DEF Mvar
    <3>. QED
      BY <1>3, <3>1 DEF Start
  <2>2. Test /\ TestInv => unread' = FALSE
    BY <1>3 DEF Start, TestInv, TestTypes
  <2>3. run' = run + 1 /\ ch' = ch
    BY <1>3 DEF Start
  <2>. QED
    BY <2>1, <2>2, <2>3, StartIsRestart DEF SyncInv
<1>4. CASE CtrlC
  <2>1. ch' = [r \in Readers |-> IF r \in foregroundSet \cap Readers THEN Zero ELSE ch[r]]
        /\ UNCHANGED <<slotValue, unread, run>>
    BY <1>4 DEF CtrlC
  <2>. QED
    BY <2>1, ForgetIsDone
<1>5. CASE \E p \in SyncProcs : Step(p)
  <2>1. PICK p \in SyncProcs : Step(p)
    BY <1>5
  <2>2. ASSUME Mvar, MvarInv
        PROVE  Buffer!Next \/ UNCHANGED <<slotValue, ch, unread, run>>
    <3>1. CASE p = M
      BY <2>1, <2>2, <3>1, MainOrWorker, MainSteps DEF MvarInv, progVars
    <3>2. CASE p # M
      BY <2>1, <2>2, <3>2, WorkersBuffer
    <3>. QED
      BY <3>1, <3>2
  <2>3. ASSUME Test, TestInv
        PROVE  UNCHANGED <<slotValue, ch, unread, run>>
    <3>1. CASE p = T
      BY <2>1, <2>3, <3>1, TestSteps DEF TestInv, TestRoster, progVars
    <3>2. CASE p # T
      <4>1. p \in Adders
        BY <2>1, <2>3, <3>2, Numbers DEF Step, TestInv, TestRoster
      <4>2. pc \in [Procs -> Nat] /\ pc[p] \in 1 .. PerAdder + 3
        BY <2>3, <4>1 DEF TestInv, TestTypes, TestRoster
      <4>. QED
        BY <2>1, <4>1, <4>2, AdderSteps
    <3>. QED
      BY <3>1, <3>2
  <2>. QED
    BY <1>1, <2>2, <2>3 DEF SyncInv
<1>. QED
  BY <1>2, <1>3, <1>4, <1>5 DEF Next

\* The protocol in the head of mvar.c: under excl, libre and lleno no letter that
\* a producer writes to slotValue is overwritten before a consumer has read it
\* and none is read twice, across sharedSemClose and sharedSemOpen of the next
\* run and the dead that Ctrl+C leaves in the queues.
THEOREM SlotIsABuffer ==
    ASSUME OneAtATime PROVE Spec => IsAOneSlotBuffer
<1>1. Init => Buffer!Init
  BY BufferInit
<1>2. SyncInv /\ [Next]_syncVars => [Buffer!Next]_bufferVars
  BY NextBuffer
<1>. QED
  BY <1>1, <1>2, SyncInvariance, PTL DEF Spec, IsAOneSlotBuffer, Buffer!Spec, bufferVars, Slot

\* sharedSemClose never takes a name away from a semaphore somebody alive is
\* queued on, though it frees the slot at the last reference without a look at
\* the queue: in mvar the workers have died before the next run closes the
\* names, in test_sync whoever waits has the semaphore open.
THEOREM NobodyEverStranded ==
    ASSUME OneAtATime PROVE Spec => []NobodyStranded
<1>1. SyncInv => NobodyStranded
  BY NobodyIsStranded
<1>. QED
  BY <1>1, SyncInvariance, PTL

\* What test_sync_command finds in global when its last waitpid has returned is
\* 0: no increment of slowInc is lost, however often the semaphore is freed and
\* made again between two processes that open it.
THEOREM SumAlwaysZero ==
    ASSUME OneAtATime PROVE Spec => []SumIsZero
<1>1. SyncInv => SumIsZero
  BY SumIsZeroAtLast
<1>. QED
  BY <1>1, SyncInvariance, PTL
=============================================================================
