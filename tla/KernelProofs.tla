----------------------------- MODULE KernelProofs ---------------------------
(***************************************************************************)
(* Proofs about Kernel for every MAX_PROCESSES and every set of            *)
(* semaphores.                                                             *)
(* First whatever programs do: what setReady, semWait, semPost and the     *)
(* others return, CoreInv, and that dispatch finds no zombie.              *)
(* Then under programs that keep to the rules: the process family and the  *)
(* queues, in an invariant whose parts are predicates on values, and how   *)
(* each kernel operation preserves each part; FamilyInv, step by step; the *)
(* theorems.                                                               *)
(***************************************************************************)
EXTENDS Kernel, QueueTheorems

SchedStates == [state      : [PIDs -> States],
                readyQueue : Seq(PIDs),
                sem        : [SemIds -> Semaphores]]

\* IDLE_PID and INIT_PID are slots of the table.
LEMMA PidFacts == /\ PIDs \subseteq Nat
                  /\ IDLE_PID \in PIDs
                  /\ INIT_PID \in PIDs
                  /\ NoPid \notin PIDs
                  /\ 0 \in PIDs
BY ProcessesAssumption DEF PIDs, IDLE_PID, INIT_PID, NoPid

\* The semaphores of a process and the named ones are semaphores.
LEMMA SemIdFacts == /\ \A p \in PIDs : terminated(p) \in SemIds
                    /\ \A p \in PIDs : childTerminated(p) \in SemIds
                    /\ \A u \in UserSems : userSem(u) \in SemIds
BY DEF SemIds

-----------------------------------------------------------------------------
\* setReady: the process goes to the end of readyQueue.
LEMMA SetReadyProperties ==
    ASSUME NEW k \in SchedStates, NEW p \in PIDs
    PROVE  /\ setReady(k, p) \in SchedStates
           /\ setReady(k, p).state = [k.state EXCEPT ![p] = "READY"]
           /\ setReady(k, p).readyQueue = Append(k.readyQueue, p)
           /\ setReady(k, p).sem = k.sem
  BY DEF setReady, SchedStates, States

\* The loop of semPost polls at most the waiters there are.
LEMMA PollableProperties ==
    ASSUME NEW k \in SchedStates, NEW s \in SemIds
    PROVE  /\ pollable(k, s) \in 0 .. Len(k.sem[s].blockedQueue)
           /\ debtIsQueue(k.sem[s]) =>
                pollable(k, s) = IF k.sem[s].value < 0 THEN -k.sem[s].value ELSE 0
<1>1. k.sem[s].value \in Int /\ Len(k.sem[s].blockedQueue) \in Nat
  BY DEF SchedStates, Semaphores
<1>. QED
  BY <1>1 DEF pollable, debtIsQueue

\* Replacing a semaphore touches nothing else.
LEMMA WithSemProperties ==
    ASSUME NEW k \in SchedStates, NEW s \in SemIds, NEW x \in Semaphores
    PROVE  /\ withSem(k, s, x) \in SchedStates
           /\ withSem(k, s, x).state = k.state
           /\ withSem(k, s, x).readyQueue = k.readyQueue
           /\ withSem(k, s, x).sem = [k.sem EXCEPT ![s] = x]
  BY DEF withSem, SchedStates

\* What the loop leaves of the semaphore after n polls.
LEMMA DrainedProperties ==
    ASSUME NEW k \in SchedStates, NEW s \in SemIds, NEW m \in Int,
           NEW n \in 0 .. Len(k.sem[s].blockedQueue)
    PROVE  /\ drained(k, s, n, m) \in Semaphores
           /\ drained(k, s, n, m).value = k.sem[s].value + m
           /\ Len(drained(k, s, n, m).blockedQueue) = Len(k.sem[s].blockedQueue) - n
<1> DEFINE q == k.sem[s].blockedQueue
<1>1. q \in Seq(PIDs) /\ k.sem[s].value \in Int
  BY DEF SchedStates, Semaphores
<1>2. Len(q) \in Nat /\ \A i \in 1 .. Len(q) : q[i] \in PIDs
  BY <1>1
<1>3. \A i \in n + 1 .. Len(q) : q[i] \in PIDs
  BY <1>2
<1>4. /\ SubSeq(q, n + 1, Len(q)) \in Seq(PIDs)
      /\ Len(SubSeq(q, n + 1, Len(q))) = Len(q) - n
  BY <1>2, <1>3, SubSeqProperties
<1>. QED
  BY <1>1, <1>4 DEF drained, Semaphores

\* semPost from any state: types, the debt of each semaphore, and the only
\* state change, BLOCKED to READY at the end of readyQueue.
LEMMA SemPostProperties ==
    ASSUME NEW k \in SchedStates, NEW s \in SemIds
    PROVE  /\ semPost(k, s) \in SchedStates
           /\ (\A t \in SemIds : debtIsQueue(k.sem[t]))
                 => \A t \in SemIds : debtIsQueue(semPost(k, s).sem[t])
           /\ \/ /\ semPost(k, s).state = k.state
                 /\ semPost(k, s).readyQueue = k.readyQueue
              \/ \E p \in PIDs :
                    /\ k.state[p] = "BLOCKED"
                    /\ semPost(k, s).state = [k.state EXCEPT ![p] = "READY"]
                    /\ semPost(k, s).readyQueue = Append(k.readyQueue, p)
<1> DEFINE q == k.sem[s].blockedQueue
           v == k.sem[s].value
<1>1. /\ q \in Seq(PIDs) /\ Len(q) \in Nat /\ v \in Int
      /\ \A i \in 1 .. Len(q) : q[i] \in PIDs
      /\ k.sem \in [SemIds -> Semaphores]
  BY DEF SchedStates, Semaphores
<1>2. CASE stopsAt(k, s) = {}
  <2> DEFINE n == pollable(k, s)
             x == drained(k, s, n, n + 1)
  <2>1. n \in 0 .. Len(q) /\ n \in Int
    BY <1>1, PollableProperties
  <2>2. x \in Semaphores /\ x.value = v + (n + 1) /\ Len(x.blockedQueue) = Len(q) - n
    <3> HIDE DEF n
    <3>. QED
      BY <2>1, DrainedProperties
  <2>3. semPost(k, s) = withSem(k, s, x)
    BY <1>2 DEF semPost
  <2>4. debtIsQueue(k.sem[s]) => debtIsQueue(x)
    <3>1. debtIsQueue(k.sem[s]) => n = Len(q)
      BY <1>1, PollableProperties DEF debtIsQueue
    <3>. QED
      BY <1>1, <2>1, <2>2, <3>1 DEF debtIsQueue
  <2>5. /\ semPost(k, s) \in SchedStates
        /\ semPost(k, s).state = k.state
        /\ semPost(k, s).readyQueue = k.readyQueue
        /\ semPost(k, s).sem = [k.sem EXCEPT ![s] = x]
    BY <2>2, <2>3, WithSemProperties
  <2>. QED
    BY <1>1, <2>4, <2>5
<1>3. CASE stopsAt(k, s) # {}
  <2> DEFINE j == CHOOSE i \in stopsAt(k, s) : TRUE
             x == drained(k, s, j, j)
             p == q[j]
  <2>1. j \in 1 .. pollable(k, s) /\ k.state[p] = "BLOCKED"
    <3>1. j \in stopsAt(k, s)
      BY <1>3
    <3>. QED
      BY <3>1 DEF stopsAt, canBeReady
  <2>2. j \in 1 .. Len(q) /\ j \in 0 .. Len(q) /\ j \in Int /\ p \in PIDs
    BY <1>1, <2>1, PollableProperties
  <2>3. x \in Semaphores /\ x.value = v + j /\ Len(x.blockedQueue) = Len(q) - j
    <3>1. j \in 0 .. Len(q) /\ j \in Int
      BY <2>2
    <3> HIDE DEF j
    <3>. QED
      BY <3>1, DrainedProperties
  <2>4. semPost(k, s) = setReady(withSem(k, s, x), p)
    BY <1>3 DEF semPost
  <2>5. debtIsQueue(k.sem[s]) => debtIsQueue(x)
    <3>1. debtIsQueue(k.sem[s]) => v < 0 /\ Len(q) = -v
      BY <1>1, <2>1, PollableProperties DEF debtIsQueue
    <3>. QED
      BY <1>1, <2>2, <2>3, <3>1 DEF debtIsQueue
  <2>6. /\ withSem(k, s, x) \in SchedStates
        /\ withSem(k, s, x).state = k.state
        /\ withSem(k, s, x).readyQueue = k.readyQueue
        /\ withSem(k, s, x).sem = [k.sem EXCEPT ![s] = x]
    BY <2>3, WithSemProperties
  <2>7. /\ semPost(k, s) \in SchedStates
        /\ semPost(k, s).state = [k.state EXCEPT ![p] = "READY"]
        /\ semPost(k, s).readyQueue = Append(k.readyQueue, p)
        /\ semPost(k, s).sem = [k.sem EXCEPT ![s] = x]
    <3> DEFINE w == withSem(k, s, x)
    <3>1. /\ semPost(k, s) = setReady(w, p) /\ w \in SchedStates /\ p \in PIDs
          /\ w.state = k.state /\ w.readyQueue = k.readyQueue
          /\ w.sem = [k.sem EXCEPT ![s] = x]
      BY <2>2, <2>4, <2>6
    <3> HIDE DEF w, p, x
    <3>. QED
      BY <3>1, SetReadyProperties
  <2>. QED
    BY <1>1, <2>1, <2>2, <2>5, <2>7
<1>. QED
  BY <1>2, <1>3
-----------------------------------------------------------------------------
\* Membership in a queue across enqueue and pollQueue.
LEMMA AppendIsIn ==
    ASSUME NEW q \in Seq(PIDs), NEW p \in PIDs
    PROVE  /\ Append(q, p) \in Seq(PIDs)
           /\ \A d : isIn(d, q) => isIn(d, Append(q, p))
           /\ isIn(p, Append(q, p))
<1>1. /\ Append(q, p) \in Seq(PIDs)
      /\ Len(q) \in Nat
      /\ DOMAIN q = 1 .. Len(q)
      /\ DOMAIN Append(q, p) = 1 .. Len(q) + 1
      /\ \A i \in 1 .. Len(q) : Append(q, p)[i] = q[i]
      /\ Append(q, p)[Len(q) + 1] = p
  OBVIOUS
<1>. QED
  BY <1>1 DEF isIn

\* pollQueue takes out the head and nothing else.
LEMMA TailIsIn ==
    ASSUME NEW q \in Seq(PIDs), q # <<>>
    PROVE  /\ Tail(q) \in Seq(PIDs)
           /\ Head(q) \in PIDs
           /\ \A d : isIn(d, q) /\ d # Head(q) => isIn(d, Tail(q))
<1>1. /\ Tail(q) \in Seq(PIDs) /\ Head(q) \in PIDs /\ Head(q) = q[1]
      /\ Len(q) \in Nat /\ Len(q) >= 1 /\ Len(Tail(q)) = Len(q) - 1
      /\ DOMAIN q = 1 .. Len(q)
      /\ DOMAIN Tail(q) = 1 .. Len(q) - 1
      /\ \A i \in 1 .. Len(q) - 1 : Tail(q)[i] = q[i + 1]
  OBVIOUS
<1>2. ASSUME NEW d, isIn(d, q), d # Head(q)
      PROVE  isIn(d, Tail(q))
  <2>1. PICK i \in 1 .. Len(q) : q[i] = d
    BY <1>1, <1>2 DEF isIn
  <2>2. i - 1 \in 1 .. Len(q) - 1 /\ Tail(q)[i - 1] = q[(i - 1) + 1] /\ (i - 1) + 1 = i
    BY <1>1, <1>2, <2>1
  <2>. QED
    BY <1>1, <2>1, <2>2 DEF isIn
<1>. QED
  BY <1>1, <1>2

\* The hand-over: whatever processes and queue it starts from, what comes out
\* is well typed, loses no READY process and leaves at most the dispatched
\* process RUNNING.
LEMMA DispatchProperties ==
    ASSUME TypeOK, NEW st \in [PIDs -> States], NEW rq \in Seq(PIDs),
           dispatch(st, rq)
    PROVE  /\ state' \in [PIDs -> States]
           /\ readyQueue' \in Seq(PIDs)
           /\ currentProcess' \in PIDs \cup {NoPid}
           /\ remainingQuantums' \in [PIDs -> Nat]
           /\ kernel' \in {NoLoop, Halted}
           /\ readyAreQueued(st, rq) => readyAreQueued(state', readyQueue')
           /\ (\A p \in PIDs : st[p] # "RUNNING") => onlyRuns(state', currentProcess')
<1> DEFINE next == IF rq = <<>> THEN IDLE_PID ELSE Head(rq)
<1>1. next \in PIDs
  BY PidFacts, TailIsIn
<1>2. afterPoll(rq) \in Seq(PIDs) /\ \A d \in PIDs : isIn(d, rq) /\ d # next => isIn(d, afterPoll(rq))
  BY TailIsIn DEF afterPoll
<1>3. /\ readyQueue' = afterPoll(rq)
      /\ \/ st[next] = "FREE" /\ state' = st /\ currentProcess' = NoPid
            /\ kernel' = Halted /\ remainingQuantums' = remainingQuantums
         \/ /\ state' = [st EXCEPT ![next] = "RUNNING"] /\ currentProcess' = next
            /\ kernel' = NoLoop
            /\ remainingQuantums' = [remainingQuantums EXCEPT ![next] = priorityLevel[next] - 1]
  BY DEF dispatch
<1> HIDE DEF next
<1>4. priorityLevel[next] - 1 \in Nat /\ remainingQuantums \in [PIDs -> Nat]
  BY <1>1 DEF TypeOK
<1>5. readyAreQueued(st, rq) => readyAreQueued(state', readyQueue')
  BY <1>1, <1>2, <1>3 DEF readyAreQueued
<1>6. (\A p \in PIDs : st[p] # "RUNNING") => onlyRuns(state', currentProcess')
  BY <1>1, <1>3 DEF onlyRuns
<1>7. state' \in [PIDs -> States]
  BY <1>1, <1>3 DEF States
<1>. QED
  BY <1>1, <1>2, <1>3, <1>4, <1>5, <1>6, <1>7

\* The same for the whole of schedule, from the processes and the queue as the
\* caller left them.
LEMMA ScheduleProperties ==
    ASSUME TypeOK, NEW st \in [PIDs -> States], NEW rq \in Seq(PIDs),
           schedule(st, rq)
    PROVE  /\ state' \in [PIDs -> States]
           /\ readyQueue' \in Seq(PIDs)
           /\ currentProcess' \in PIDs \cup {NoPid}
           /\ remainingQuantums' \in [PIDs -> Nat]
           /\ kernel' \in {NoLoop, Halted}
           /\ readyAreQueued(st, rq) => readyAreQueued(state', readyQueue')
           /\ onlyRuns(st, currentProcess) => onlyRuns(state', currentProcess')
<1> DEFINE cur == currentProcess
<1>0. cur \in PIDs \cup {NoPid} /\ remainingQuantums \in [PIDs -> Nat]
  BY DEF TypeOK
<1>1. CASE cur # NoPid /\ st[cur] = "RUNNING" /\ remainingQuantums[cur] > 0
  <2>1. /\ remainingQuantums' = [remainingQuantums EXCEPT ![cur] = @ - 1]
        /\ state' = st /\ readyQueue' = rq /\ kernel' = NoLoop
        /\ currentProcess' = currentProcess
    BY <1>1 DEF schedule
  <2>. QED
    BY <1>0, <1>1, <2>1
<1>2. CASE cur # NoPid /\ st[cur] = "RUNNING" /\ ~(remainingQuantums[cur] > 0)
  <2> DEFINE st2 == [st EXCEPT ![cur] = "READY"]
             rq2 == Append(rq, cur)
  <2>1. dispatch(st2, rq2)
    BY <1>2 DEF schedule
  <2>2. cur \in PIDs
    BY <1>0, <1>2
  <2>3. st2 \in [PIDs -> States] /\ rq2 \in Seq(PIDs)
    BY <2>2 DEF States
  <2>4. readyAreQueued(st, rq) => readyAreQueued(st2, rq2)
    BY <2>2, AppendIsIn DEF readyAreQueued
  <2>5. onlyRuns(st, cur) => \A p \in PIDs : st2[p] # "RUNNING"
    BY <2>2 DEF onlyRuns
  <2> HIDE DEF st2, rq2
  <2>. QED
    BY <2>1, <2>3, <2>4, <2>5, DispatchProperties
<1>3. CASE ~(cur # NoPid /\ st[cur] = "RUNNING")
  <2>1. dispatch(st, rq)
    BY <1>3 DEF schedule
  <2>2. onlyRuns(st, cur) => \A p \in PIDs : st[p] # "RUNNING"
    BY <1>3, PidFacts DEF onlyRuns
  <2>. QED
    BY <2>1, <2>2, DispatchProperties
<1>. QED
  BY <1>1, <1>2, <1>3

-----------------------------------------------------------------------------
(* The inductive invariant.  safe gathers what the semaphores and the ready  *)
(* queue owe each other, as a predicate on values, so that lemmas about the  *)
(* operators of Kernel can state that they preserve it.                      *)

safe(st, rq, sm, cur) ==
    /\ st \in [PIDs -> States]
    /\ rq \in Seq(PIDs)
    /\ sm \in [SemIds -> Semaphores]
    /\ \A s \in SemIds : debtIsQueue(sm[s])
    /\ readyAreQueued(st, rq)
    /\ onlyRuns(st, cur)

treeTypes(par, ch, tc, fg) ==
    /\ par \in [PIDs -> PIDs]
    /\ ch \in [PIDs -> Seq(PIDs)]
    /\ tc \in [PIDs -> Seq(PIDs)]
    /\ fg \subseteq PIDs

cpuTypes(cur, pl, rem, ct, kn) ==
    /\ cur \in PIDs \cup {NoPid}
    /\ pl \in [PIDs -> Nat \ {0}]
    /\ rem \in [PIDs -> Nat]
    /\ ct \in [PIDs -> Conts]
    /\ kn \in Loops
    /\ kn = Reaping => cur # NoPid

CoreInv ==
    /\ safe(state, readyQueue, sem, currentProcess)
    /\ treeTypes(ppid, children, terminatedChildren, foregroundSet)
    /\ cpuTypes(currentProcess, priorityLevel, remainingQuantums, cont, kernel)

\* CoreInv is the conjunction of the invariants the runs check.
LEMMA CoreInvMeans ==
    CoreInv <=> TypeOK /\ SemAccounting /\ NoLostReady /\ OneRunning
BY DEF CoreInv, safe, treeTypes, cpuTypes, TypeOK, SemAccounting, NoLostReady,
       OneRunning

\* The records that name continuations and loops have their types.
LEMMA LabelFacts ==
    /\ UserCode \in Conts /\ IdleCode \in Conts
    /\ InitAt("start") \in Conts /\ InitAt("wait_any") \in Conts /\ InitAt("poll") \in Conts
    /\ \A p \in PIDs : AfterWaitPid(p) \in Conts /\ InitUnlinking(p) \in Conts
                        /\ InitReaping(p) \in Conts /\ InitClearing(p) \in Conts
    /\ NoLoop \in Loops /\ Halted \in Loops /\ Reaping \in Loops
    /\ NoLoop # Reaping /\ Halted # Reaping
    /\ \A n \in 0 .. MAX_PROCESSES : KillingFG(n) \in Loops /\ KillingFG(n) # Reaping
    /\ \A p \in PIDs : \A n \in {NoPid} \cup 0 .. MAX_PROCESSES :
          OrphansOf(p, n) \in Loops /\ OrphansOf(p, n) # Reaping
    /\ \A c \in Conts : c.op \in {"wait_pid", "unlink", "reap", "clear"} => c.pid \in PIDs
    /\ \A l \in Loops : /\ l.op = "orphans" => l.pid \in PIDs /\ l.next \in {NoPid} \cup 0 .. MAX_PROCESSES
                        /\ l.op = "ctrl_c" => l.next \in 0 .. MAX_PROCESSES
<1>1. /\ UserCode \in Conts /\ IdleCode \in Conts
      /\ InitAt("start") \in Conts /\ InitAt("wait_any") \in Conts /\ InitAt("poll") \in Conts
      /\ \A p \in PIDs : AfterWaitPid(p) \in Conts /\ InitUnlinking(p) \in Conts
                          /\ InitReaping(p) \in Conts /\ InitClearing(p) \in Conts
  BY DEF Conts, UserCode, IdleCode, InitAt, AfterWaitPid, InitUnlinking, InitReaping, InitClearing
<1>2. /\ NoLoop \in Loops /\ Halted \in Loops /\ Reaping \in Loops
      /\ NoLoop # Reaping /\ Halted # Reaping
  BY DEF Loops, NoLoop, Halted, Reaping
<1>3. \A n \in 0 .. MAX_PROCESSES : KillingFG(n) \in Loops /\ KillingFG(n) # Reaping
  BY DEF Loops, KillingFG, Reaping
<1>4. \A p \in PIDs : \A n \in {NoPid} \cup 0 .. MAX_PROCESSES :
          OrphansOf(p, n) \in Loops /\ OrphansOf(p, n) # Reaping
  BY DEF Loops, OrphansOf, Reaping
<1>5. \A c \in Conts : c.op \in {"wait_pid", "unlink", "reap", "clear"} => c.pid \in PIDs
  BY DEF Conts
<1>6. \A l \in Loops : /\ l.op = "orphans" => l.pid \in PIDs /\ l.next \in {NoPid} \cup 0 .. MAX_PROCESSES
                       /\ l.op = "ctrl_c" => l.next \in 0 .. MAX_PROCESSES
  BY DEF Loops
<1>. QED
  BY <1>1, <1>2, <1>3, <1>4, <1>5, <1>6

\* A post keeps the state safe.
LEMMA PostIsSafe ==
    ASSUME NEW k \in SchedStates, NEW s \in SemIds, NEW cur,
           safe(k.state, k.readyQueue, k.sem, cur)
    PROVE  /\ semPost(k, s) \in SchedStates
           /\ safe(semPost(k, s).state, semPost(k, s).readyQueue, semPost(k, s).sem, cur)
<1> DEFINE r == semPost(k, s)
<1>1. /\ r \in SchedStates
      /\ (\A t \in SemIds : debtIsQueue(k.sem[t])) => \A t \in SemIds : debtIsQueue(r.sem[t])
      /\ \/ r.state = k.state /\ r.readyQueue = k.readyQueue
         \/ \E p \in PIDs :
               /\ k.state[p] = "BLOCKED"
               /\ r.state = [k.state EXCEPT ![p] = "READY"]
               /\ r.readyQueue = Append(k.readyQueue, p)
  BY SemPostProperties, Zenon
<1> HIDE DEF r
<1>2. k.state \in [PIDs -> States] /\ k.readyQueue \in Seq(PIDs)
  BY DEF SchedStates
<1>3. r.state \in [PIDs -> States] /\ r.readyQueue \in Seq(PIDs) /\ r.sem \in [SemIds -> Semaphores]
  BY <1>1 DEF SchedStates
<1>4. readyAreQueued(r.state, r.readyQueue) /\ onlyRuns(r.state, cur)
  <2>1. CASE r.state = k.state /\ r.readyQueue = k.readyQueue
    BY <2>1 DEF safe
  <2>2. ASSUME NEW p \in PIDs, k.state[p] = "BLOCKED",
               r.state = [k.state EXCEPT ![p] = "READY"],
               r.readyQueue = Append(k.readyQueue, p)
        PROVE  readyAreQueued(r.state, r.readyQueue) /\ onlyRuns(r.state, cur)
    BY <1>2, <2>2, AppendIsIn DEF safe, readyAreQueued, onlyRuns
  <2>. QED
    BY <1>1, <2>1, <2>2
<1>5. \A t \in SemIds : debtIsQueue(r.sem[t])
  BY <1>1 DEF safe
<1>6. safe(r.state, r.readyQueue, r.sem, cur)
  BY <1>3, <1>4, <1>5 DEF safe
<1>. QED
  BY <1>1, <1>6 DEF r

\* schedule, called with a state that is safe, keeps it so.
LEMMA ScheduleIsSafe ==
    ASSUME CoreInv, NEW st, safe(st, readyQueue, sem, currentProcess),
           NEW sm, sm \in [SemIds -> Semaphores],
           \A s \in SemIds : debtIsQueue(sm[s]),
           schedule(st, readyQueue)
    PROVE  /\ safe(state', readyQueue', sm, currentProcess')
           /\ currentProcess' \in PIDs \cup {NoPid}
           /\ remainingQuantums' \in [PIDs -> Nat]
           /\ kernel' \in Loops
           /\ kernel' # Reaping
<1>1. TypeOK
  BY CoreInvMeans
<1>2. /\ st \in [PIDs -> States] /\ readyQueue \in Seq(PIDs)
      /\ readyAreQueued(st, readyQueue) /\ onlyRuns(st, currentProcess)
  BY DEF safe
<1>3. /\ state' \in [PIDs -> States]
      /\ readyQueue' \in Seq(PIDs)
      /\ currentProcess' \in PIDs \cup {NoPid}
      /\ remainingQuantums' \in [PIDs -> Nat]
      /\ kernel' \in {NoLoop, Halted}
      /\ readyAreQueued(state', readyQueue')
      /\ onlyRuns(state', currentProcess')
  BY <1>1, <1>2, ScheduleProperties
<1>. QED
  BY <1>3, LabelFacts DEF safe

\* semWait: the debt of the semaphore stays its queue, and the caller, if
\* blocked, leaves RUNNING.
LEMMA WaitIsSafe ==
    ASSUME CoreInv, currentProcess \in PIDs, NEW s \in SemIds
    PROVE  /\ semWait(Sched, s).sem \in [SemIds -> Semaphores]
           /\ \A t \in SemIds : debtIsQueue(semWait(Sched, s).sem[t])
           /\ mustBlock(Sched, s) =>
                safe(semWait(Sched, s).state, readyQueue, sem, currentProcess)
<1> DEFINE x == [value        |-> sem[s].value - 1,
                 blockedQueue |-> Append(sem[s].blockedQueue, currentProcess)]
           y == [sem[s] EXCEPT !.value = @ - 1]
<1>1. /\ sem \in [SemIds -> Semaphores] /\ state \in [PIDs -> States]
      /\ readyQueue \in Seq(PIDs)
      /\ \A t \in SemIds : debtIsQueue(sem[t])
  BY DEF CoreInv, safe
<1>2. /\ sem[s] \in Semaphores /\ sem[s].value \in Int
      /\ sem[s].blockedQueue \in Seq(PIDs) /\ Len(sem[s].blockedQueue) \in Nat
  BY <1>1 DEF Semaphores
<1>3. x \in Semaphores /\ (mustBlock(Sched, s) => debtIsQueue(x))
  BY <1>1, <1>2 DEF Semaphores, debtIsQueue, mustBlock, Sched
<1>4. y \in Semaphores /\ (~mustBlock(Sched, s) => debtIsQueue(y))
  BY <1>1, <1>2 DEF Semaphores, debtIsQueue, mustBlock, Sched
<1>5. CASE mustBlock(Sched, s)
  <2>1. /\ semWait(Sched, s).sem = [sem EXCEPT ![s] = x]
        /\ semWait(Sched, s).state = [state EXCEPT ![currentProcess] = "BLOCKED"]
    BY <1>5 DEF semWait, withSem, Sched
  <2>2. [state EXCEPT ![currentProcess] = "BLOCKED"] \in [PIDs -> States]
    BY <1>1 DEF States
  <2>3. safe([state EXCEPT ![currentProcess] = "BLOCKED"], readyQueue, sem, currentProcess)
    BY <1>1, <2>2 DEF CoreInv, safe, readyAreQueued, onlyRuns
  <2> HIDE DEF x
  <2>. QED
    BY <1>1, <1>3, <1>5, <2>1, <2>3
<1>6. CASE ~mustBlock(Sched, s)
  <2>1. semWait(Sched, s).sem = [sem EXCEPT ![s] = y]
    BY <1>6 DEF semWait, withSem, Sched
  <2> HIDE DEF y
  <2>. QED
    BY <1>1, <1>4, <1>6, <2>1
<1>. QED
  BY <1>5, <1>6

\* semWait as a whole, the context switch included.
LEMMA WaitOnPreserves ==
    ASSUME CoreInv, currentProcess \in PIDs, kernel = NoLoop,
           NEW s \in SemIds, NEW c \in Conts, waitOn(s, c),
           UNCHANGED <<priorityLevel, treeVars, foregroundSet>>
    PROVE  CoreInv'
<1>1. /\ sem' \in [SemIds -> Semaphores]
      /\ \A t \in SemIds : debtIsQueue(sem'[t])
      /\ mustBlock(Sched, s) =>
           safe(semWait(Sched, s).state, readyQueue, sem, currentProcess)
  BY WaitIsSafe DEF waitOn
<1>2. cont' \in [PIDs -> Conts]
  BY DEF waitOn, CoreInv, cpuTypes
<1>3. treeTypes(ppid, children, terminatedChildren, foregroundSet)'
  BY DEF CoreInv, treeTypes, treeVars
<1>4. CASE mustBlock(Sched, s)
  <2>1. schedule(semWait(Sched, s).state, readyQueue)
    BY <1>4 DEF waitOn
  <2>2. /\ safe(state', readyQueue', sem', currentProcess')
        /\ currentProcess' \in PIDs \cup {NoPid}
        /\ remainingQuantums' \in [PIDs -> Nat]
        /\ kernel' \in Loops
        /\ kernel' # Reaping
    BY <1>1, <1>4, <2>1, ScheduleIsSafe
  <2>. QED
    BY <1>2, <1>3, <2>2 DEF CoreInv, cpuTypes
<1>5. CASE ~mustBlock(Sched, s)
  <2>1. UNCHANGED <<state, readyQueue, currentProcess, remainingQuantums, kernel>>
    BY <1>5 DEF waitOn
  <2>2. safe(state, readyQueue, sem, currentProcess)'
    BY <1>1, <2>1 DEF CoreInv, safe
  <2>. QED
    BY <1>2, <1>3, <2>1, <2>2, LabelFacts DEF CoreInv, cpuTypes
<1>. QED
  BY <1>4, <1>5

\* A call whose only scheduler step is schedule itself.
LEMMA SchedulePreserves ==
    ASSUME CoreInv, schedule(state, readyQueue),
           UNCHANGED <<sem, priorityLevel, treeVars, foregroundSet, cont>>
    PROVE  CoreInv'
<1>1. /\ safe(state, readyQueue, sem, currentProcess)
      /\ sem \in [SemIds -> Semaphores]
      /\ \A s \in SemIds : debtIsQueue(sem[s])
  BY DEF CoreInv, safe
<1>2. /\ safe(state', readyQueue', sem, currentProcess')
      /\ currentProcess' \in PIDs \cup {NoPid}
      /\ remainingQuantums' \in [PIDs -> Nat]
      /\ kernel' \in Loops
      /\ kernel' # Reaping
  BY <1>1, ScheduleIsSafe
<1>. QED
  BY <1>2 DEF CoreInv, treeTypes, cpuTypes, treeVars

\* notifyTermination: the process leaves readyQueue as it becomes a zombie,
\* and the two posts keep the rest.
LEMMA NotifiedIsSafe ==
    ASSUME CoreInv, NEW p \in PIDs
    PROVE  safe(notified(p).state, notified(p).readyQueue, notified(p).sem, currentProcess)
<1> DEFINE k == [state      |-> [state EXCEPT ![p] = "ZOMBIE"],
                 readyQueue |-> removeFromQueue(readyQueue, p),
                 sem        |-> sem]
           j == semPost(k, terminated(p))
           r == semPost(j, childTerminated(ppid[p]))
<1>1. /\ state \in [PIDs -> States] /\ readyQueue \in Seq(PIDs)
      /\ sem \in [SemIds -> Semaphores] /\ ppid[p] \in PIDs
  BY DEF CoreInv, safe, treeTypes
<1>2. /\ removeFromQueue(readyQueue, p) \in Seq(PIDs)
      /\ \A d : isIn(d, removeFromQueue(readyQueue, p)) <=> isIn(d, readyQueue) /\ d # p
  BY <1>1, RemoveFromQueueProperties
<1>3. [state EXCEPT ![p] = "ZOMBIE"] \in [PIDs -> States]
  BY <1>1 DEF States
<1>4. k \in SchedStates
  BY <1>1, <1>2, <1>3 DEF SchedStates
<1>5. safe([state EXCEPT ![p] = "ZOMBIE"], removeFromQueue(readyQueue, p), sem, currentProcess)
  BY <1>1, <1>2, <1>3 DEF CoreInv, safe, readyAreQueued, onlyRuns
<1>6. safe(k.state, k.readyQueue, k.sem, currentProcess)
  BY <1>5
<1>7. terminated(p) \in SemIds /\ childTerminated(ppid[p]) \in SemIds
  BY <1>1, SemIdFacts
<1>8. notified(p) = r
  BY DEF notified
<1> HIDE DEF k
<1>9. j \in SchedStates /\ safe(j.state, j.readyQueue, j.sem, currentProcess)
  BY <1>4, <1>6, <1>7, PostIsSafe
<1> HIDE DEF j
<1>10. safe(r.state, r.readyQueue, r.sem, currentProcess)
  BY <1>7, <1>9, PostIsSafe
<1>. QED
  BY <1>8, <1>10

\* terminateProcess and killFromIsr, up to the transfer of the orphans.
LEMMA TerminatePreserves ==
    ASSUME CoreInv, NEW p \in PIDs, NEW n \in {NoPid} \cup 0 .. MAX_PROCESSES,
           terminate(p, n)
    PROVE  CoreInv'
<1>1. safe(state', readyQueue', sem', currentProcess')
  BY NotifiedIsSafe DEF terminate, continueWith
<1>2. treeTypes(ppid, children, terminatedChildren, foregroundSet)'
  BY DEF CoreInv, treeTypes, terminate
<1>3. kernel' \in Loops /\ kernel' # Reaping
  BY LabelFacts DEF terminate
<1>. QED
  BY <1>1, <1>2, <1>3 DEF CoreInv, cpuTypes, terminate, continueWith

\* semTryWait takes a token only where there is one, so no debt arises.
LEMMA TryWaitIsSafe ==
    ASSUME CoreInv, NEW s \in SemIds
    PROVE  /\ semTryWait(s) \in [SemIds -> Semaphores]
           /\ \A t \in SemIds : debtIsQueue(semTryWait(s)[t])
<1> DEFINE x == [value |-> sem[s].value - 1, blockedQueue |-> sem[s].blockedQueue]
<1>1. sem \in [SemIds -> Semaphores] /\ \A t \in SemIds : debtIsQueue(sem[t])
  BY DEF CoreInv, safe
<1>2. sem[s] \in Semaphores
  BY <1>1
<1>3. x \in Semaphores
  BY <1>2 DEF Semaphores
<1>4. CASE hasToken(s)
  <2>1. debtIsQueue(x)
    BY <1>1, <1>2, <1>4 DEF debtIsQueue, hasToken, Semaphores
  <2>2. semTryWait(s) = [sem EXCEPT ![s] = x]
    BY <1>4 DEF semTryWait
  <2> HIDE DEF x
  <2>. QED
    BY <1>1, <1>3, <2>1, <2>2
<1>5. CASE ~hasToken(s)
  BY <1>1, <1>5 DEF semTryWait
<1>. QED
  BY <1>4, <1>5

\* A semaphore just created owes nothing.
LEMMA NewSemaphoreFacts ==
    \A v \in Nat : newSemaphore(v) \in Semaphores /\ debtIsQueue(newSemaphore(v))
BY DEF newSemaphore, Semaphores, debtIsQueue

\* Replacing the two semaphores of a process by new ones.
LEMMA FreshSemaphores ==
    ASSUME NEW sm \in [SemIds -> Semaphores], NEW p \in PIDs,
           \A s \in SemIds : debtIsQueue(sm[s]),
           NEW r, r = [sm EXCEPT ![terminated(p)] = newSemaphore(0),
                                 ![childTerminated(p)] = newSemaphore(0)]
    PROVE  /\ r \in [SemIds -> Semaphores]
           /\ \A s \in SemIds : debtIsQueue(r[s])
<1> DEFINE z == newSemaphore(0)
<1>1. z \in Semaphores /\ debtIsQueue(z)
  BY NewSemaphoreFacts
<1>2. terminated(p) \in SemIds /\ childTerminated(p) \in SemIds
  BY SemIdFacts
<1>3. r = [sm EXCEPT ![terminated(p)] = z, ![childTerminated(p)] = z]
  OBVIOUS
<1> HIDE DEF z
<1>. QED
  BY <1>1, <1>2, <1>3

\* Freeing a slot, whatever slot it is, with reapProcess's clearing of the
\* foreground set or before it.
LEMMA FreePreserves ==
    ASSUME CoreInv, NEW p \in PIDs,
           NEW sm \in [SemIds -> Semaphores], \A s \in SemIds : debtIsQueue(sm[s]),
           NEW ch \in [PIDs -> Seq(PIDs)], NEW tc \in [PIDs -> Seq(PIDs)],
           freeSlot(p, sm, ch, tc), cont' \in [PIDs -> Conts],
           foregroundSet' \in {foregroundSet, foregroundSet \ {p}},
           UNCHANGED <<readyQueue, currentProcess, kernel>>
    PROVE  CoreInv'
<1>0. /\ state \in [PIDs -> States] /\ readyQueue \in Seq(PIDs)
      /\ readyAreQueued(state, readyQueue) /\ onlyRuns(state, currentProcess)
      /\ ppid \in [PIDs -> PIDs] /\ foregroundSet \subseteq PIDs
      /\ priorityLevel \in [PIDs -> Nat \ {0}] /\ remainingQuantums \in [PIDs -> Nat]
      /\ currentProcess \in PIDs \cup {NoPid} /\ kernel \in Loops
      /\ kernel = Reaping => currentProcess # NoPid
  BY DEF CoreInv, safe, treeTypes, cpuTypes
<1>1. CASE state[p] = "FREE"
  <2>1. /\ sem' = sm /\ children' = ch /\ terminatedChildren' = tc
        /\ UNCHANGED <<state, ppid, schedVars>>
    BY <1>1 DEF freeSlot
  <2>. QED
    BY <1>0, <2>1 DEF CoreInv, safe, treeTypes, cpuTypes, schedVars
<1>2. CASE state[p] # "FREE"
  <2>1. /\ state' = [state EXCEPT ![p] = "FREE"]
        /\ sem' = [sm EXCEPT ![terminated(p)] = newSemaphore(0),
                             ![childTerminated(p)] = newSemaphore(0)]
        /\ children' = [ch EXCEPT ![p] = <<>>]
        /\ terminatedChildren' = [tc EXCEPT ![p] = <<>>]
        /\ ppid' = [ppid EXCEPT ![p] = INIT_PID]
        /\ priorityLevel' = [priorityLevel EXCEPT ![p] = 1]
        /\ remainingQuantums' = [remainingQuantums EXCEPT ![p] = 0]
    BY <1>2 DEF freeSlot
  <2>2. sem' \in [SemIds -> Semaphores] /\ \A s \in SemIds : debtIsQueue(sem'[s])
    BY <2>1, FreshSemaphores
  <2>3. state' \in [PIDs -> States]
    BY <1>0, <2>1 DEF States
  <2>4. readyAreQueued(state', readyQueue') /\ onlyRuns(state', currentProcess')
    BY <1>0, <2>1 DEF readyAreQueued, onlyRuns
  <2>5. treeTypes(ppid, children, terminatedChildren, foregroundSet)'
    <3>1. INIT_PID \in PIDs /\ <<>> \in Seq(PIDs)
      BY PidFacts
    <3>. QED
      BY <1>0, <2>1, <3>1 DEF treeTypes
  <2>6. priorityLevel' \in [PIDs -> Nat \ {0}] /\ remainingQuantums' \in [PIDs -> Nat]
    BY <1>0, <2>1
  <2>. QED
    BY <1>0, <2>2, <2>3, <2>4, <2>5, <2>6 DEF CoreInv, safe, cpuTypes
<1>. QED
  BY <1>1, <1>2

\* startNewProcess: the new process is READY and queued, with new semaphores.
LEMMA StartPreserves ==
    ASSUME CoreInv, currentProcess \in PIDs, NEW p \in PIDs, startNewProcess(p),
           cont' \in [PIDs -> Conts],
           UNCHANGED <<currentProcess, foregroundSet, kernel>>
    PROVE  CoreInv'
<1>0. /\ state \in [PIDs -> States] /\ readyQueue \in Seq(PIDs)
      /\ sem \in [SemIds -> Semaphores] /\ \A s \in SemIds : debtIsQueue(sem[s])
      /\ readyAreQueued(state, readyQueue) /\ onlyRuns(state, currentProcess)
      /\ ppid \in [PIDs -> PIDs] /\ foregroundSet \subseteq PIDs
      /\ children \in [PIDs -> Seq(PIDs)] /\ terminatedChildren \in [PIDs -> Seq(PIDs)]
      /\ priorityLevel \in [PIDs -> Nat \ {0}] /\ remainingQuantums \in [PIDs -> Nat]
  BY DEF CoreInv, safe, treeTypes, cpuTypes
<1>1. sem' \in [SemIds -> Semaphores] /\ \A s \in SemIds : debtIsQueue(sem'[s])
  BY <1>0, FreshSemaphores DEF startNewProcess, newProcess
<1>2. state' \in [PIDs -> States] /\ readyQueue' \in Seq(PIDs)
  BY <1>0, AppendIsIn DEF startNewProcess, newProcess, States
<1>3. readyAreQueued(state', readyQueue') /\ onlyRuns(state', currentProcess')
  BY <1>0, AppendIsIn DEF startNewProcess, newProcess, readyAreQueued, onlyRuns
<1>4. ppid' \in [PIDs -> PIDs]
  <2>1. INIT_PID \in PIDs
    BY PidFacts
  <2>2. ppid' = [ppid EXCEPT ![p] = INIT_PID] \/ ppid' = [ppid EXCEPT ![p] = currentProcess]
    BY DEF startNewProcess, newProcess
  <2>. QED
    BY <1>0, <2>1, <2>2
<1>5. children' \in [PIDs -> Seq(PIDs)]
  <2>1. CASE currentProcess = IDLE_PID
    <3>1. children' = [children EXCEPT ![p] = <<>>]
      BY <2>1 DEF startNewProcess, newProcess
    <3>. QED
      BY <1>0, <3>1
  <2>2. CASE currentProcess # IDLE_PID
    <3> DEFINE c == [children EXCEPT ![p] = <<>>]
    <3>1. c \in [PIDs -> Seq(PIDs)]
      BY <1>0
    <3>2. children' = [c EXCEPT ![currentProcess] = Append(c[currentProcess], p)]
      BY <2>2, <1>0, SMTT(30) DEF startNewProcess, newProcess
    <3> HIDE DEF c
    <3>. QED
      BY <3>1, <3>2
  <2>. QED
    BY <2>1, <2>2
<1>6. terminatedChildren' \in [PIDs -> Seq(PIDs)]
  BY <1>0 DEF startNewProcess, newProcess
<1>7. priorityLevel' \in [PIDs -> Nat \ {0}] /\ remainingQuantums' \in [PIDs -> Nat]
  BY <1>0 DEF startNewProcess, newProcess
<1>. QED
  BY <1>0, <1>1, <1>2, <1>3, <1>4, <1>5, <1>6, <1>7 DEF CoreInv, safe, treeTypes, cpuTypes

-----------------------------------------------------------------------------
(* The invariant holds at the start and every action keeps it *)

\* initializeScheduler: idle and init are READY and queued, nothing is owed.
LEMMA InitIsSafe == Init => CoreInv
<1> SUFFICES ASSUME Init PROVE CoreInv
  OBVIOUS
<1>1. INIT_PID \in PIDs /\ IDLE_PID \in PIDs /\ <<>> \in Seq(PIDs)
  BY PidFacts
<1>2. state \in [PIDs -> States] /\ \A p \in PIDs : state[p] # "RUNNING"
  BY DEF Init, States
<1>3. /\ readyQueue \in Seq(PIDs)
      /\ readyQueue = <<IDLE_PID, INIT_PID>>
      /\ DOMAIN readyQueue = 1 .. 2
  BY <1>1 DEF Init
<1>4. isIn(IDLE_PID, readyQueue) /\ isIn(INIT_PID, readyQueue)
  BY <1>3 DEF isIn
<1>5. \A p \in PIDs : state[p] = "READY" => p \in {IDLE_PID, INIT_PID}
  BY DEF Init, isUnkillable
<1>6. /\ sem \in [SemIds -> Semaphores]
      /\ \A s \in SemIds : debtIsQueue(sem[s])
  <2>1. \A s \in SemIds : \E v \in Nat : sem[s] = newSemaphore(v)
    BY BoundsAssumption DEF Init
  <2>2. \A s \in SemIds : sem[s] \in Semaphores /\ debtIsQueue(sem[s])
    BY <2>1, NewSemaphoreFacts
  <2>3. sem = [s \in SemIds |-> sem[s]]
    BY DEF Init
  <2>. QED
    BY <2>2, <2>3
<1>7. safe(state, readyQueue, sem, currentProcess)
  BY <1>2, <1>3, <1>4, <1>5, <1>6 DEF safe, readyAreQueued, onlyRuns
<1>8. treeTypes(ppid, children, terminatedChildren, foregroundSet)
  BY <1>1 DEF Init, treeTypes
<1>9. cont \in [PIDs -> Conts]
  BY LabelFacts DEF Init
<1>10. cpuTypes(currentProcess, priorityLevel, remainingQuantums, cont, kernel)
  BY <1>9, LabelFacts DEF Init, cpuTypes
<1>. QED
  BY <1>7, <1>8, <1>10 DEF CoreInv

\* Actions of user programs.
LEMMA SystemCallPreserves == CoreInv /\ SystemCall => CoreInv'
<1> SUFFICES ASSUME CoreInv, SystemCall PROVE CoreInv'
  OBVIOUS
<1>0. /\ InUserCode => kernel = NoLoop /\ currentProcess \in PIDs
      /\ state \in [PIDs -> States] /\ readyQueue \in Seq(PIDs)
      /\ sem \in [SemIds -> Semaphores] /\ \A s \in SemIds : debtIsQueue(sem[s])
      /\ readyAreQueued(state, readyQueue) /\ onlyRuns(state, currentProcess)
      /\ cont \in [PIDs -> Conts]
  BY DEF CoreInv, safe, cpuTypes, InUserCode
<1>1. CASE SysYield
  BY <1>1, SchedulePreserves DEF SysYield
<1>2. CASE SysExit /\ killable(currentProcess)
  BY <1>0, <1>2, TerminatePreserves DEF SysExit
<1>3. CASE SysExit /\ ~killable(currentProcess)
  BY <1>3, LabelFacts DEF SysExit, CoreInv, cpuTypes, treeVars, schedVars
<1>4. CASE SysReapZombies
  BY <1>0, <1>4, LabelFacts, PidFacts
  DEF SysReapZombies, CoreInv, cpuTypes, treeVars, schedVars
<1>5. ASSUME NEW p \in PIDs, SysCreateProcess(p) PROVE CoreInv'
  <2>1. cont' \in [PIDs -> Conts]
    BY <1>0, <1>5, LabelFacts DEF SysCreateProcess
  <2>. QED
    BY <1>0, <1>5, <2>1, StartPreserves DEF SysCreateProcess
<1>6. ASSUME NEW p \in PIDs, SysWaitpid(p) PROVE CoreInv'
  <2>1. terminated(p) \in SemIds /\ AfterWaitPid(p) \in Conts
    BY SemIdFacts, LabelFacts
  <2>. QED
    BY <1>0, <1>6, <2>1, WaitOnPreserves DEF SysWaitpid
<1>7. ASSUME NEW p \in PIDs, SysKill(p) PROVE CoreInv'
  BY <1>7, TerminatePreserves DEF SysKill
<1>8. ASSUME NEW p \in PIDs, SysBlock(p) PROVE CoreInv'
  <2>1. state' = [state EXCEPT ![p] = "BLOCKED"] /\ state' \in [PIDs -> States]
    BY <1>0, <1>8 DEF SysBlock, States
  <2>2. /\ readyQueue' \in Seq(PIDs)
        /\ \A d : isIn(d, readyQueue) /\ d # p => isIn(d, readyQueue')
    BY <1>0, <1>8, RemoveFromQueueProperties DEF SysBlock, withoutReady
  <2>3. readyAreQueued(state', readyQueue') /\ onlyRuns(state', currentProcess')
    BY <1>0, <1>8, <2>1, <2>2 DEF SysBlock, readyAreQueued, onlyRuns
  <2>4. safe(state, readyQueue, sem, currentProcess)'
    BY <1>0, <1>8, <2>1, <2>2, <2>3 DEF SysBlock, safe
  <2>. QED
    BY <1>8, <2>4 DEF SysBlock, CoreInv, treeTypes, cpuTypes, treeVars, schedVars
<1>9. ASSUME NEW p \in PIDs, SysUnblock(p) PROVE CoreInv'
  <2>1. /\ state' = [state EXCEPT ![p] = "READY"] /\ readyQueue' = Append(readyQueue, p)
        /\ UNCHANGED <<sem, currentProcess, remainingQuantums, priorityLevel, treeVars,
                       foregroundSet, cont, kernel>>
        /\ state[p] = "BLOCKED"
    BY <1>9 DEF SysUnblock, setReady, continueWith, Sched, canBeReady
  <2>2. state' \in [PIDs -> States]
    BY <1>0, <2>1 DEF States
  <2>3. readyAreQueued(state', readyQueue') /\ onlyRuns(state', currentProcess')
    BY <1>0, <2>1, AppendIsIn DEF readyAreQueued, onlyRuns
  <2>4. safe(state, readyQueue, sem, currentProcess)'
    BY <1>0, <2>1, <2>2, <2>3, AppendIsIn DEF safe
  <2>. QED
    BY <2>1, <2>4 DEF CoreInv, treeTypes, cpuTypes, treeVars
<1>10. ASSUME NEW p \in PIDs, SysForeground(p) PROVE CoreInv'
  BY <1>10 DEF SysForeground, CoreInv, treeTypes, cpuTypes, treeVars, schedVars
<1>11. ASSUME NEW p \in PIDs, NEW level \in Priorities, SysNice(p, level) PROVE CoreInv'
  <2>1. level \in Nat \ {0}
    BY PrioritiesAssumption
  <2>2. priorityLevel' \in [PIDs -> Nat \ {0}] /\ remainingQuantums' \in [PIDs -> Nat]
    BY <1>11, <2>1 DEF SysNice, setPriority, CoreInv, cpuTypes
  <2>. QED
    BY <1>11, <2>2 DEF SysNice, CoreInv, treeTypes, cpuTypes, treeVars
<1>12. ASSUME NEW u \in UserSems, SysSemWait(u) PROVE CoreInv'
  <2>1. userSem(u) \in SemIds /\ UserCode \in Conts
    BY SemIdFacts, LabelFacts
  <2>. QED
    BY <1>0, <1>12, <2>1, WaitOnPreserves DEF SysSemWait
<1>13. ASSUME NEW u \in UserSems, SysSemPost(u) PROVE CoreInv'
  <2>1. userSem(u) \in SemIds
    BY SemIdFacts
  <2>2. /\ Sched \in SchedStates
        /\ safe(Sched.state, Sched.readyQueue, Sched.sem, currentProcess)
    BY <1>0 DEF SchedStates, Sched, CoreInv
  <2>3. safe(state', readyQueue', sem', currentProcess')
    BY <1>13, <2>1, <2>2, PostIsSafe DEF SysSemPost, continueWith
  <2>. QED
    BY <1>13, <2>3 DEF SysSemPost, continueWith, CoreInv, treeTypes, cpuTypes, treeVars
<1>. QED
  BY <1>1, <1>2, <1>3, <1>4, <1>5, <1>6, <1>7, <1>8, <1>9, <1>10, <1>11, <1>12, <1>13
  DEF SystemCall

\* enqueue on one of the queues of a table of queues.
LEMMA AppendToTable ==
    ASSUME NEW f \in [PIDs -> Seq(PIDs)], NEW i \in PIDs, NEW c \in PIDs
    PROVE  [f EXCEPT ![i] = Append(f[i], c)] \in [PIDs -> Seq(PIDs)]
OBVIOUS

\* Loops of kernel code with interrupts off.
LEMMA KernelStepPreserves == CoreInv /\ KernelStep => CoreInv'
<1> SUFFICES ASSUME CoreInv, KernelStep PROVE CoreInv'
  OBVIOUS
<1>0. /\ state \in [PIDs -> States] /\ readyQueue \in Seq(PIDs)
      /\ sem \in [SemIds -> Semaphores] /\ \A s \in SemIds : debtIsQueue(sem[s])
      /\ ppid \in [PIDs -> PIDs]
      /\ children \in [PIDs -> Seq(PIDs)] /\ terminatedChildren \in [PIDs -> Seq(PIDs)]
      /\ cont \in [PIDs -> Conts] /\ kernel \in Loops
      /\ currentProcess \in PIDs \cup {NoPid}
      /\ kernel = Reaping => currentProcess \in PIDs
  BY DEF CoreInv, safe, treeTypes, cpuTypes
<1>1. CASE TransferOrphan
  <2> DEFINE p == kernel.pid
             c == Head(children[p])
             r == initTold
             d == [children EXCEPT ![p] = Tail(children[p])]
             e == [d EXCEPT ![INIT_PID] = Append(d[INIT_PID], c)]
  <2>1. p \in PIDs /\ children[p] \in Seq(PIDs) /\ children[p] # <<>>
    BY <1>0, <1>1, LabelFacts DEF TransferOrphan
  <2>2. c \in PIDs /\ Tail(children[p]) \in Seq(PIDs)
    BY <2>1, TailIsIn
  <2>3. INIT_PID \in PIDs /\ childTerminated(INIT_PID) \in SemIds
    BY PidFacts, SemIdFacts
  <2>4. safe(r.state, r.readyQueue, r.sem, currentProcess)
    <3>1. /\ Sched \in SchedStates
          /\ safe(Sched.state, Sched.readyQueue, Sched.sem, currentProcess)
      BY <1>0 DEF SchedStates, Sched, CoreInv
    <3>. QED
      BY <2>3, <3>1, PostIsSafe DEF initTold
  <2>5. /\ UNCHANGED <<currentProcess, schedVars, foregroundSet, cont, kernel>>
        /\ children' = d \/ children' = e
        /\ ppid' = ppid \/ ppid' = [ppid EXCEPT ![c] = INIT_PID]
        /\ \/ terminatedChildren' = terminatedChildren
           \/ terminatedChildren' = [terminatedChildren EXCEPT ![INIT_PID] = Append(@, c)]
        /\ \/ UNCHANGED <<state, readyQueue, sem>>
           \/ state' = r.state /\ readyQueue' = r.readyQueue /\ sem' = r.sem
    BY <1>1 DEF TransferOrphan, setInitParent
  <2>6. children' \in [PIDs -> Seq(PIDs)]
    <3>1. children' = d \/ children' = e
      BY <2>5
    <3> HIDE DEF p, c, r
    <3>2. d \in [PIDs -> Seq(PIDs)]
      BY <1>0, <2>1, <2>2
    <3>3. e \in [PIDs -> Seq(PIDs)]
      <4> HIDE DEF d
      <4>. QED
        BY <2>2, <2>3, <3>2, AppendToTable
    <3>. QED
      BY <3>1, <3>2, <3>3
  <2> HIDE DEF p, c, r, d, e
  <2>7. ppid' \in [PIDs -> PIDs] /\ terminatedChildren' \in [PIDs -> Seq(PIDs)]
    <3>1. ppid' \in [PIDs -> PIDs]
      <4>1. ppid' = ppid \/ ppid' = [ppid EXCEPT ![c] = INIT_PID]
        BY <2>5
      <4>. QED
        BY <1>0, <2>2, <2>3, <4>1
    <3>2. terminatedChildren' \in [PIDs -> Seq(PIDs)]
      <4>1. \/ terminatedChildren' = terminatedChildren
            \/ terminatedChildren' = [terminatedChildren EXCEPT ![INIT_PID] = Append(@, c)]
        BY <2>5
      <4>2. [terminatedChildren EXCEPT ![INIT_PID] = Append(@, c)] \in [PIDs -> Seq(PIDs)]
        BY <1>0, <2>2, <2>3, AppendToTable
      <4>. QED
        BY <1>0, <4>1, <4>2
    <3>. QED
      BY <3>1, <3>2
  <2>8. safe(state', readyQueue', sem', currentProcess')
    BY <2>4, <2>5 DEF CoreInv
  <2>. QED
    BY <2>5, <2>6, <2>7, <2>8 DEF CoreInv, treeTypes, cpuTypes, schedVars
<1>2. CASE FinishTermination
  <2>1. CASE schedule(state, readyQueue)
    BY <1>2, <2>1, SchedulePreserves DEF FinishTermination
  <2>2. CASE UNCHANGED <<state, readyQueue, currentProcess, remainingQuantums>>
             /\ \/ kernel' = NoLoop
                \/ kernel.next # NoPid /\ kernel' = KillingFG(kernel.next)
    <3>1. kernel' \in Loops /\ kernel' # Reaping
      BY <1>0, <1>2, <2>2, LabelFacts DEF FinishTermination
    <3>. QED
      BY <1>2, <2>2, <3>1 DEF FinishTermination, CoreInv, treeTypes, cpuTypes, treeVars
  <2>3. \/ schedule(state, readyQueue)
        \/ /\ UNCHANGED <<state, readyQueue, currentProcess, remainingQuantums>>
           /\ \/ kernel' = NoLoop
              \/ kernel.next # NoPid /\ kernel' = KillingFG(kernel.next)
    <3>1. CASE kernel.next # NoPid
      BY <1>2, <3>1 DEF FinishTermination
    <3>2. CASE kernel.next = NoPid /\ currentProcess # kernel.pid
      BY <1>2, <3>2 DEF FinishTermination
    <3>3. CASE kernel.next = NoPid /\ currentProcess = kernel.pid
      BY <1>2, <3>3 DEF FinishTermination
    <3>. QED
      BY <3>1, <3>2, <3>3
  <2>. QED
    BY <2>1, <2>2, <2>3
<1>3. CASE WaitPidReturns
  <2> DEFINE me == currentProcess
             p  == cont[me].pid
             sm == semTryWait(childTerminated(me))
             ch == [children EXCEPT ![me] = removeFromQueue(children[me], p)]
             tc == [terminatedChildren EXCEPT ![me] = removeFromQueue(terminatedChildren[me], p)]
  <2>1. me \in PIDs /\ p \in PIDs
    BY <1>0, <1>3, LabelFacts DEF WaitPidReturns
  <2>2. sm \in [SemIds -> Semaphores] /\ \A s \in SemIds : debtIsQueue(sm[s])
    BY <2>1, SemIdFacts, TryWaitIsSafe
  <2>3. ch \in [PIDs -> Seq(PIDs)] /\ tc \in [PIDs -> Seq(PIDs)]
    <3>1. /\ removeFromQueue(children[me], p) \in Seq(PIDs)
          /\ removeFromQueue(terminatedChildren[me], p) \in Seq(PIDs)
      BY <1>0, <2>1, RemoveFromQueueProperties
    <3>. QED
      BY <1>0, <2>1, <3>1
  <2>4. cont' \in [PIDs -> Conts]
    BY <1>0, <1>3, <2>1, LabelFacts DEF WaitPidReturns
  <2>5. /\ reapProcess(p, sm, ch, tc)
        /\ UNCHANGED <<readyQueue, currentProcess, kernel>>
    BY <1>3 DEF WaitPidReturns, withoutChild
  <2> HIDE DEF p, sm, ch, tc
  <2>. QED
    BY <2>1, <2>2, <2>3, <2>4, <2>5, FreePreserves DEF reapProcess
<1>4. CASE ReapOne
  <2> DEFINE me == currentProcess
             p  == polled(terminatedChildren[me])
             sm == semTryWait(childTerminated(me))
             ch == [children EXCEPT ![me] = removeFromQueue(children[me], p)]
             tc == [terminatedChildren EXCEPT ![me] = afterPoll(terminatedChildren[me])]
  <2>1. me \in PIDs
    BY <1>0, <1>4 DEF ReapOne
  <2>2. p \in PIDs /\ afterPoll(terminatedChildren[me]) \in Seq(PIDs)
    BY <1>0, <2>1, PidFacts, TailIsIn DEF polled, afterPoll
  <2>3. sm \in [SemIds -> Semaphores] /\ \A s \in SemIds : debtIsQueue(sm[s])
    BY <2>1, SemIdFacts, TryWaitIsSafe
  <2>4. ch \in [PIDs -> Seq(PIDs)] /\ tc \in [PIDs -> Seq(PIDs)]
    <3>1. removeFromQueue(children[me], p) \in Seq(PIDs)
      BY <1>0, <2>1, <2>2, RemoveFromQueueProperties
    <3>. QED
      BY <1>0, <2>1, <2>2, <3>1
  <2>5. /\ reapProcess(p, sm, ch, tc)
        /\ UNCHANGED <<readyQueue, currentProcess, kernel>>
        /\ cont' = [cont EXCEPT ![p] = UserCode]
    BY <1>4 DEF ReapOne, withoutChild
  <2> HIDE DEF p, sm, ch, tc
  <2>6. cont' \in [PIDs -> Conts]
    BY <1>0, <2>2, <2>5, LabelFacts
  <2>. QED
    BY <2>1, <2>2, <2>3, <2>4, <2>5, <2>6, FreePreserves DEF reapProcess
<1>5. CASE ReapDone
  BY <1>5, LabelFacts DEF ReapDone, CoreInv, cpuTypes, treeVars, schedVars
<1>6. CASE SkipInFG
  <2>1. kernel' \in Loops /\ kernel' # Reaping
    <3>1. CASE \E p \in PIDs : nextInFG(p)
      <4> DEFINE p == CHOOSE q \in PIDs : nextInFG(q)
      <4>1. p \in PIDs
        BY <3>1
      <4>2. kernel' = KillingFG(p + 1)
        BY <1>6, <3>1 DEF SkipInFG
      <4> HIDE DEF p
      <4>3. p + 1 \in 0 .. MAX_PROCESSES
        BY <4>1, ProcessesAssumption DEF PIDs
      <4>. QED
        BY <4>2, <4>3, LabelFacts
    <3>2. CASE ~\E p \in PIDs : nextInFG(p)
      BY <1>6, <3>2, LabelFacts DEF SkipInFG
    <3>. QED
      BY <3>1, <3>2
  <2>. QED
    BY <1>6, <2>1 DEF SkipInFG, CoreInv, treeTypes, cpuTypes, treeVars, schedVars
<1>7. ASSUME NEW p \in PIDs, KillInFG(p) PROVE CoreInv'
  <2>1. p + 1 \in 0 .. MAX_PROCESSES
    BY ProcessesAssumption DEF PIDs
  <2>. QED
    BY <1>7, <2>1, TerminatePreserves DEF KillInFG
<1>. QED
  BY <1>1, <1>2, <1>3, <1>4, <1>5, <1>6, <1>7 DEF KernelStep

\* Init's loop.
LEMMA InitStepPreserves == CoreInv /\ InitStep => CoreInv'
<1> SUFFICES ASSUME CoreInv, InitStep PROVE CoreInv'
  OBVIOUS
<1>0. /\ sem \in [SemIds -> Semaphores] /\ \A s \in SemIds : debtIsQueue(sem[s])
      /\ children \in [PIDs -> Seq(PIDs)] /\ terminatedChildren \in [PIDs -> Seq(PIDs)]
      /\ cont \in [PIDs -> Conts]
      /\ INIT_PID \in PIDs
  BY PidFacts DEF CoreInv, safe, treeTypes, cpuTypes
<1>1. ASSUME NEW p \in PIDs, InitStart(p) PROVE CoreInv'
  <2>1. currentProcess \in PIDs
    BY <1>0, <1>1 DEF InitStart, InitRunning
  <2>2. cont' \in [PIDs -> Conts]
    BY <1>0, <1>1, LabelFacts DEF InitStart
  <2>. QED
    BY <1>1, <2>1, <2>2, StartPreserves DEF InitStart
<1>2. CASE InitWaitAny
  <2>1. childTerminated(INIT_PID) \in SemIds /\ InitAt("poll") \in Conts
    BY <1>0, SemIdFacts, LabelFacts
  <2>. QED
    BY <1>0, <1>2, <2>1, WaitOnPreserves DEF InitWaitAny, InitRunning
<1>3. CASE InitPoll
  <2> DEFINE p == polled(terminatedChildren[INIT_PID])
             t == afterPoll(terminatedChildren[INIT_PID])
  <2>1. p \in PIDs /\ t \in Seq(PIDs)
    BY <1>0, PidFacts, TailIsIn DEF polled, afterPoll
  <2>2. /\ terminatedChildren' = [terminatedChildren EXCEPT ![INIT_PID] = t]
        /\ cont' = [cont EXCEPT ![INIT_PID] = InitUnlinking(p)]
        /\ UNCHANGED <<state, readyQueue, sem, currentProcess, schedVars, ppid, children,
                       foregroundSet, kernel>>
    BY <1>3 DEF InitPoll
  <2> HIDE DEF p, t
  <2>3. cont' \in [PIDs -> Conts] /\ terminatedChildren' \in [PIDs -> Seq(PIDs)]
    BY <1>0, <2>1, <2>2, LabelFacts
  <2>. QED
    BY <2>2, <2>3 DEF CoreInv, treeTypes, cpuTypes, schedVars
<1>4. CASE InitUnlink
  <2> DEFINE p == cont[INIT_PID].pid
             q == removeFromQueue(children[INIT_PID], p)
  <2>1. p \in PIDs
    BY <1>0, <1>4, LabelFacts DEF InitUnlink, InitRunning
  <2>2. q \in Seq(PIDs)
    BY <1>0, <2>1, RemoveFromQueueProperties
  <2>3. /\ children' = [children EXCEPT ![INIT_PID] = q]
        /\ cont' = [cont EXCEPT ![INIT_PID] = InitReaping(p)]
        /\ UNCHANGED <<state, readyQueue, sem, currentProcess, schedVars, ppid,
                       terminatedChildren, foregroundSet, kernel>>
    BY <1>4 DEF InitUnlink, withoutChild
  <2> HIDE DEF p, q
  <2>4. cont' \in [PIDs -> Conts] /\ children' \in [PIDs -> Seq(PIDs)]
    BY <1>0, <2>1, <2>2, <2>3, LabelFacts
  <2>. QED
    BY <2>3, <2>4 DEF CoreInv, treeTypes, cpuTypes, schedVars
<1>5. CASE InitReap
  <2> DEFINE p == cont[INIT_PID].pid
             c == IF state[p] = "FREE" THEN InitAt("wait_any") ELSE InitClearing(p)
  <2>1. p \in PIDs
    BY <1>0, <1>5, LabelFacts DEF InitReap, InitRunning
  <2>2. /\ freeSlot(p, sem, children, terminatedChildren)
        /\ cont' = [cont EXCEPT ![p] = UserCode, ![INIT_PID] = c]
        /\ UNCHANGED <<readyQueue, currentProcess, foregroundSet, kernel>>
    BY <1>5 DEF InitReap
  <2>3. c \in Conts
    BY <2>1, LabelFacts
  <2> HIDE DEF p, c
  <2>4. cont' \in [PIDs -> Conts]
    BY <1>0, <2>1, <2>2, <2>3, LabelFacts
  <2>. QED
    BY <1>0, <2>1, <2>2, <2>4, FreePreserves
<1>6. CASE InitClear
  <2>1. cont' \in [PIDs -> Conts] /\ foregroundSet' \subseteq foregroundSet
    BY <1>0, <1>6, LabelFacts DEF InitClear
  <2>2. UNCHANGED <<state, readyQueue, sem, currentProcess, schedVars, treeVars, kernel>>
    BY <1>6 DEF InitClear
  <2>. QED
    BY <2>1, <2>2 DEF CoreInv, treeTypes, cpuTypes, schedVars, treeVars
<1>. QED
  BY <1>1, <1>2, <1>3, <1>4, <1>5, <1>6 DEF InitStep

\* Every step, stuttering included.
LEMMA NextPreserves == CoreInv /\ [Next]_vars => CoreInv'
<1> SUFFICES ASSUME CoreInv, [Next]_vars PROVE CoreInv'
  OBVIOUS
<1>1. CASE Tick
  BY <1>1, SchedulePreserves DEF Tick
<1>2. CASE CtrlC
  <2>1. kernel' \in Loops /\ kernel' # Reaping
    BY <1>2, LabelFacts, ProcessesAssumption DEF CtrlC
  <2>. QED
    BY <1>2, <2>1 DEF CtrlC, CoreInv, treeTypes, cpuTypes, treeVars, schedVars
<1>3. CASE UNCHANGED vars
  BY <1>3 DEF vars, CoreInv, safe, treeTypes, cpuTypes
<1>. QED
  BY <1>1, <1>2, <1>3, KernelStepPreserves, InitStepPreserves, SystemCallPreserves
  DEF Next

\* The invariant holds in every reachable state, for every size of the process
\* table, every set of named semaphores and every environment.
THEOREM CoreInvariance == Spec => []CoreInv
<1>. QED
  BY InitIsSafe, NextPreserves, PTL DEF Spec

\* scheduler.c and semaphore.c keep their data well typed whatever system
\* calls, kills and interrupts come.
THEOREM TypeCorrectness == Spec => []TypeOK
<1>1. CoreInv => TypeOK
  BY CoreInvMeans
<1>. QED
  BY <1>1, CoreInvariance, PTL

\* semWait, semPost and semTryWait: a semaphore's debt is the length of its
\* queue, whoever of its waiters was killed, unblocked early or replaced.
THEOREM SemaphoreAccounting == Spec => []SemAccounting
<1>1. CoreInv => SemAccounting
  BY CoreInvMeans
<1>. QED
  BY <1>1, CoreInvariance, PTL

\* setReady, setBlocked, notifyTermination and schedule never forget a READY
\* process: it is in readyQueue.
THEOREM ReadyNeverLost == Spec => []NoLostReady
<1>1. CoreInv => NoLostReady
  BY CoreInvMeans
<1>. QED
  BY <1>1, CoreInvariance, PTL

\* schedule gives the CPU to one process at a time.
THEOREM AtMostOneRuns == Spec => []OneRunning
<1>1. CoreInv => OneRunning
  BY CoreInvMeans
<1>. QED
  BY <1>1, CoreInvariance, PTL

-----------------------------------------------------------------------------
(* The dead and the CPU, whatever programs do: dispatch takes whom it finds  *)
(* at the head of readyQueue, or idle, without looking at its state.  So     *)
(* none of these may be a zombie, Ctrl+C on the running process included.    *)

noneDead(st, rq) ==
    /\ st[IDLE_PID] # "ZOMBIE"
    /\ \A p \in PIDs : isIn(p, rq) => st[p] # "ZOMBIE"

NoneDeadQueued == noneDead(state, readyQueue)

\* From st to st2 only cur, if anybody, comes back.
returns(st, st2, cur) ==
    \A p \in PIDs : st[p] = "ZOMBIE" => st2[p] \in {"ZOMBIE", "FREE"} \/ p = cur

\* No zombie is dispatched.
LEMMA DispatchNoDead ==
    ASSUME NEW st \in [PIDs -> States], NEW rq \in Seq(PIDs), noneDead(st, rq),
           dispatch(st, rq)
    PROVE  /\ NoneDeadQueued'
           /\ \A p \in PIDs : st[p] = "ZOMBIE" => state'[p] = "ZOMBIE"
<1> DEFINE next == IF rq = <<>> THEN IDLE_PID ELSE Head(rq)
<1>1. /\ next \in PIDs /\ st[next] # "ZOMBIE"
      /\ \A d : isIn(d, afterPoll(rq)) => isIn(d, rq)
  BY PidFacts, PollProperties DEF noneDead, afterPoll
<1>2. /\ readyQueue' = afterPoll(rq)
      /\ state' = st \/ state' = [st EXCEPT ![next] = "RUNNING"]
  BY DEF dispatch
<1> HIDE DEF next
<1>3. \A p \in PIDs : st[p] = "ZOMBIE" <=> state'[p] = "ZOMBIE"
  BY <1>1, <1>2
<1>. QED
  BY <1>1, <1>2, <1>3, PidFacts DEF NoneDeadQueued, noneDead

\* schedule puts the current process back in the queue only if it runs.
LEMMA ScheduleNoDead ==
    ASSUME currentProcess \in PIDs \cup {NoPid},
           NEW st \in [PIDs -> States], NEW rq \in Seq(PIDs), noneDead(st, rq),
           schedule(st, rq)
    PROVE  /\ NoneDeadQueued'
           /\ \A p \in PIDs : st[p] = "ZOMBIE" => state'[p] = "ZOMBIE"
<1> DEFINE cur == currentProcess
           st2 == [st EXCEPT ![cur] = "READY"]
           rq2 == Append(rq, cur)
<1>1. \/ state' = st /\ readyQueue' = rq
      \/ cur # NoPid /\ st[cur] = "RUNNING" /\ dispatch(st2, rq2)
      \/ dispatch(st, rq)
  BY DEF schedule
<1>2. CASE state' = st /\ readyQueue' = rq
  BY <1>2 DEF NoneDeadQueued, noneDead
<1>3. CASE cur # NoPid /\ st[cur] = "RUNNING" /\ dispatch(st2, rq2)
  <2>1. cur \in PIDs
    BY <1>3
  <2>2. /\ st2 \in [PIDs -> States]
        /\ \A p \in PIDs : st[p] = "ZOMBIE" <=> st2[p] = "ZOMBIE"
    BY <1>3, <2>1 DEF States
  <2>3. rq2 \in Seq(PIDs) /\ \A d : isIn(d, rq2) <=> isIn(d, rq) \/ d = cur
    BY <2>1, EnqueueProperties
  <2>4. noneDead(st2, rq2)
    BY <1>3, <2>1, <2>2, <2>3, PidFacts DEF noneDead
  <2> HIDE DEF st2, rq2
  <2>5. /\ NoneDeadQueued'
        /\ \A p \in PIDs : st2[p] = "ZOMBIE" => state'[p] = "ZOMBIE"
    BY <1>3, <2>2, <2>3, <2>4, DispatchNoDead
  <2>. QED
    BY <2>2, <2>5
<1>4. CASE dispatch(st, rq)
  BY <1>4, DispatchNoDead
<1>. QED
  BY <1>1, <1>2, <1>3, <1>4

\* A post queues a process that was BLOCKED.
LEMMA PostNoDead ==
    ASSUME NEW k \in SchedStates, NEW s \in SemIds, noneDead(k.state, k.readyQueue)
    PROVE  /\ noneDead(semPost(k, s).state, semPost(k, s).readyQueue)
           /\ \A p \in PIDs : k.state[p] = "ZOMBIE" => semPost(k, s).state[p] = "ZOMBIE"
<1> DEFINE r == semPost(k, s)
<1>1. \/ r.state = k.state /\ r.readyQueue = k.readyQueue
      \/ \E p \in PIDs : /\ k.state[p] = "BLOCKED"
                         /\ r.state = [k.state EXCEPT ![p] = "READY"]
                         /\ r.readyQueue = Append(k.readyQueue, p)
  BY SemPostProperties, Zenon
<1> HIDE DEF r
<1>2. k.state \in [PIDs -> States] /\ k.readyQueue \in Seq(PIDs)
  BY DEF SchedStates
<1>3. CASE r.state = k.state /\ r.readyQueue = k.readyQueue
  BY <1>3 DEF r
<1>4. ASSUME NEW p \in PIDs, k.state[p] = "BLOCKED",
             r.state = [k.state EXCEPT ![p] = "READY"],
             r.readyQueue = Append(k.readyQueue, p)
      PROVE  /\ noneDead(r.state, r.readyQueue)
             /\ \A x \in PIDs : k.state[x] = "ZOMBIE" => r.state[x] = "ZOMBIE"
  <2>1. \A d : isIn(d, r.readyQueue) <=> isIn(d, k.readyQueue) \/ d = p
    BY <1>2, <1>4, EnqueueProperties
  <2>2. \A x \in PIDs : k.state[x] = "ZOMBIE" <=> r.state[x] = "ZOMBIE"
    BY <1>2, <1>4
  <2>. QED
    BY <1>4, <2>1, <2>2, PidFacts DEF noneDead
<1>. QED
  BY <1>1, <1>3, <1>4 DEF r

\* notifyTermination takes every entry of the dead process out of readyQueue.
LEMMA NotifiedNoDead ==
    ASSUME CoreInv, NoneDeadQueued, NEW p \in PIDs, ~isUnkillable(p)
    PROVE  /\ noneDead(notified(p).state, notified(p).readyQueue)
           /\ \A x \in PIDs : state[x] = "ZOMBIE" => notified(p).state[x] = "ZOMBIE"
<1> DEFINE k == [state      |-> [state EXCEPT ![p] = "ZOMBIE"],
                 readyQueue |-> removeFromQueue(readyQueue, p),
                 sem        |-> sem]
           j == semPost(k, terminated(p))
<1>1. /\ state \in [PIDs -> States] /\ readyQueue \in Seq(PIDs)
      /\ sem \in [SemIds -> Semaphores] /\ ppid[p] \in PIDs
  BY DEF CoreInv, safe, treeTypes
<1>2. /\ removeFromQueue(readyQueue, p) \in Seq(PIDs)
      /\ \A d : isIn(d, removeFromQueue(readyQueue, p)) <=> isIn(d, readyQueue) /\ d # p
  BY <1>1, RemoveFromQueueProperties
<1>3. /\ k.state = [state EXCEPT ![p] = "ZOMBIE"] /\ k.state \in [PIDs -> States]
      /\ k.readyQueue = removeFromQueue(readyQueue, p) /\ k.sem = sem
  BY <1>1 DEF States
<1>4. k \in SchedStates
  BY <1>1, <1>2, <1>3 DEF SchedStates
<1>5. notified(p) = semPost(j, childTerminated(ppid[p]))
  BY DEF notified
<1>6. terminated(p) \in SemIds /\ childTerminated(ppid[p]) \in SemIds
  BY <1>1, SemIdFacts
<1> HIDE DEF k
<1>7. /\ noneDead(k.state, k.readyQueue)
      /\ \A x \in PIDs : state[x] = "ZOMBIE" => k.state[x] = "ZOMBIE"
  BY <1>1, <1>2, <1>3, PidFacts DEF NoneDeadQueued, noneDead, isUnkillable
<1>8. j \in SchedStates
  BY <1>4, <1>6, SemPostProperties
<1>9. /\ noneDead(j.state, j.readyQueue)
      /\ \A x \in PIDs : k.state[x] = "ZOMBIE" => j.state[x] = "ZOMBIE"
  BY <1>4, <1>6, <1>7, PostNoDead
<1> HIDE DEF j
<1>10. /\ noneDead(notified(p).state, notified(p).readyQueue)
       /\ \A x \in PIDs : j.state[x] = "ZOMBIE" => notified(p).state[x] = "ZOMBIE"
  BY <1>5, <1>6, <1>8, <1>9, PostNoDead
<1>. QED
  BY <1>7, <1>9, <1>10

\* terminateProcess and killFromIsr refuse idle and init.
LEMMA TerminateNoDead ==
    ASSUME CoreInv, NoneDeadQueued, NEW p \in PIDs, NEW n, killable(p), terminate(p, n)
    PROVE  NoneDeadQueued' /\ returns(state, state', currentProcess)
<1>1. ~isUnkillable(p)
  BY DEF killable
<1>2. state' = notified(p).state /\ readyQueue' = notified(p).readyQueue
  BY DEF terminate, continueWith
<1>. QED
  BY <1>1, <1>2, NotifiedNoDead DEF NoneDeadQueued, returns

\* The process that waits is the one that may come back: BLOCKED, if it was
\* a zombie.
LEMMA WaitNoDead ==
    ASSUME CoreInv, NoneDeadQueued, currentProcess \in PIDs, NEW s \in SemIds, NEW c,
           waitOn(s, c)
    PROVE  NoneDeadQueued' /\ returns(state, state', currentProcess)
<1> DEFINE st == [state EXCEPT ![currentProcess] = "BLOCKED"]
<1>1. state \in [PIDs -> States] /\ readyQueue \in Seq(PIDs)
  BY DEF CoreInv, safe
<1>2. CASE mustBlock(Sched, s)
  <2>1. semWait(Sched, s).state = st
    BY <1>2 DEF semWait, withSem, Sched
  <2>2. schedule(st, readyQueue)
    BY <1>2, <2>1 DEF waitOn
  <2>3. /\ st \in [PIDs -> States] /\ noneDead(st, readyQueue)
        /\ \A p \in PIDs : state[p] = "ZOMBIE" => st[p] = "ZOMBIE" \/ p = currentProcess
    BY <1>1, PidFacts DEF States, NoneDeadQueued, noneDead
  <2> HIDE DEF st
  <2>4. /\ NoneDeadQueued'
        /\ \A p \in PIDs : st[p] = "ZOMBIE" => state'[p] = "ZOMBIE"
    BY <1>1, <2>2, <2>3, ScheduleNoDead
  <2>. QED
    BY <2>3, <2>4 DEF returns
<1>3. CASE ~mustBlock(Sched, s)
  BY <1>3 DEF waitOn, NoneDeadQueued, noneDead, returns
<1>. QED
  BY <1>2, <1>3

\* Freeing a slot, whatever slot it is.
LEMMA FreeNoDead ==
    ASSUME CoreInv, NoneDeadQueued, NEW p \in PIDs, NEW sm, NEW ch, NEW tc,
           freeSlot(p, sm, ch, tc), readyQueue' = readyQueue
    PROVE  NoneDeadQueued' /\ returns(state, state', currentProcess)
<1>1. state \in [PIDs -> States]
  BY DEF CoreInv, safe
<1>2. state' = state \/ state' = [state EXCEPT ![p] = "FREE"]
  BY DEF freeSlot
<1>. QED
  BY <1>1, <1>2, PidFacts DEF NoneDeadQueued, noneDead, returns

\* A slot that was empty, or a process that was not a zombie, becomes READY at
\* the end of the queue.
LEMMA EnqueueNoDead ==
    ASSUME CoreInv, NoneDeadQueued, NEW p \in PIDs, state[p] # "ZOMBIE",
           state' = [state EXCEPT ![p] = "READY"], readyQueue' = Append(readyQueue, p)
    PROVE  NoneDeadQueued' /\ returns(state, state', currentProcess)
<1>1. state \in [PIDs -> States] /\ readyQueue \in Seq(PIDs)
  BY DEF CoreInv, safe
<1>2. \A d : isIn(d, readyQueue') <=> isIn(d, readyQueue) \/ d = p
  BY <1>1, EnqueueProperties
<1>3. \A x \in PIDs : state[x] = "ZOMBIE" <=> state'[x] = "ZOMBIE"
  BY <1>1
<1>. QED
  BY <1>2, <1>3, PidFacts DEF NoneDeadQueued, noneDead, returns

\* Every step of every environment.
LEMMA NextNoDead ==
    ASSUME CoreInv, NoneDeadQueued, [Next]_vars
    PROVE  NoneDeadQueued' /\ returns(state, state', currentProcess)
<1>t. /\ state \in [PIDs -> States] /\ readyQueue \in Seq(PIDs)
      /\ currentProcess \in PIDs \cup {NoPid}
      /\ cont \in [PIDs -> Conts] /\ terminatedChildren \in [PIDs -> Seq(PIDs)]
      /\ Sched \in SchedStates /\ Sched.state = state /\ Sched.readyQueue = readyQueue
      /\ InUserCode => currentProcess \in PIDs
      /\ kernel = Reaping => currentProcess \in PIDs
      /\ INIT_PID \in PIDs
  BY PidFacts DEF CoreInv, safe, treeTypes, cpuTypes, Sched, SchedStates, InUserCode
<1>1. ASSUME state' = state, readyQueue' = readyQueue
      PROVE  NoneDeadQueued' /\ returns(state, state', currentProcess)
  BY <1>1 DEF NoneDeadQueued, noneDead, returns
<1>2. ASSUME schedule(state, readyQueue)
      PROVE  NoneDeadQueued' /\ returns(state, state', currentProcess)
  BY <1>2, <1>t, ScheduleNoDead DEF NoneDeadQueued, returns
<1>3. ASSUME NEW s \in SemIds, state' = semPost(Sched, s).state,
             readyQueue' = semPost(Sched, s).readyQueue
      PROVE  NoneDeadQueued' /\ returns(state, state', currentProcess)
  BY <1>3, <1>t, PostNoDead DEF NoneDeadQueued, returns
<1>4. CASE Tick \/ SysYield \/ FinishTermination
  BY <1>1, <1>2, <1>4 DEF Tick, SysYield, FinishTermination
<1>5. CASE \/ CtrlC \/ ReapDone \/ SkipInFG \/ InitPoll \/ InitUnlink \/ InitClear
           \/ SysReapZombies
           \/ \E p \in PIDs : \/ SysForeground(p)
                              \/ \E level \in Priorities : SysNice(p, level)
  BY <1>1, <1>5 DEF CtrlC, ReapDone, SkipInFG, InitPoll, InitUnlink, InitClear,
                 SysReapZombies, SysForeground, SysNice
<1>6. CASE TransferOrphan
  <2>1. childTerminated(INIT_PID) \in SemIds
    BY SemIdFacts, PidFacts
  <2>2. \/ state' = state /\ readyQueue' = readyQueue
        \/ /\ state' = semPost(Sched, childTerminated(INIT_PID)).state
           /\ readyQueue' = semPost(Sched, childTerminated(INIT_PID)).readyQueue
    BY <1>6 DEF TransferOrphan, initTold
  <2>. QED
    BY <1>1, <1>3, <2>1, <2>2
<1>7. CASE \E s \in UserSems : SysSemPost(s)
  BY <1>3, <1>7, SemIdFacts DEF SysSemPost, continueWith
<1>8. CASE SysExit
  <2>1. currentProcess \in PIDs
    BY <1>8, <1>t DEF SysExit
  <2>2. CASE killable(currentProcess)
    BY <1>8, <2>1, <2>2, TerminateNoDead DEF SysExit
  <2>3. CASE ~killable(currentProcess)
    BY <1>1, <1>8, <2>3 DEF SysExit
  <2>. QED
    BY <2>2, <2>3
<1>9. CASE \E p \in PIDs : SysKill(p) \/ KillInFG(p)
  BY <1>9, TerminateNoDead DEF SysKill, KillInFG
<1>10. CASE WaitPidReturns
  <2> DEFINE p == cont[currentProcess].pid
             sm == semTryWait(childTerminated(currentProcess))
             ch == withoutChild(children, currentProcess, p)
             tc == withoutChild(terminatedChildren, currentProcess, p)
  <2>1. p \in PIDs
    BY <1>10, <1>t, LabelFacts DEF WaitPidReturns
  <2>2. freeSlot(p, sm, ch, tc) /\ readyQueue' = readyQueue
    BY <1>10 DEF WaitPidReturns, reapProcess
  <2> HIDE DEF p, sm, ch, tc
  <2>. QED
    BY <2>1, <2>2, FreeNoDead
<1>11. CASE ReapOne
  <2> DEFINE p == polled(terminatedChildren[currentProcess])
             sm == semTryWait(childTerminated(currentProcess))
             ch == withoutChild(children, currentProcess, p)
             tc == [terminatedChildren EXCEPT ![currentProcess] = afterPoll(@)]
  <2>1. p \in PIDs
    BY <1>11, <1>t, PidFacts, TailIsIn DEF ReapOne, polled
  <2>2. freeSlot(p, sm, ch, tc) /\ readyQueue' = readyQueue
    BY <1>11 DEF ReapOne, reapProcess
  <2> HIDE DEF p, sm, ch, tc
  <2>. QED
    BY <2>1, <2>2, FreeNoDead
<1>12. CASE InitReap
  <2> DEFINE p == cont[INIT_PID].pid
  <2>1. p \in PIDs
    BY <1>12, <1>t, LabelFacts DEF InitReap, InitRunning
  <2>2. freeSlot(p, sem, children, terminatedChildren) /\ readyQueue' = readyQueue
    BY <1>12 DEF InitReap
  <2> HIDE DEF p
  <2>. QED
    BY <2>1, <2>2, FreeNoDead
<1>13. CASE \/ \E u \in UserSems : SysSemWait(u)
            \/ \E p \in PIDs : SysWaitpid(p)
            \/ InitWaitAny
  <2>1. ASSUME NEW s \in SemIds, NEW c, waitOn(s, c), currentProcess \in PIDs
        PROVE  NoneDeadQueued' /\ returns(state, state', currentProcess)
    BY <2>1, WaitNoDead
  <2>. QED
    BY <1>13, <1>t, <2>1, SemIdFacts DEF SysSemWait, SysWaitpid, InitWaitAny, InitRunning
<1>14. CASE \E p \in PIDs : SysCreateProcess(p) \/ InitStart(p)
  BY <1>14, EnqueueNoDead DEF SysCreateProcess, InitStart, startNewProcess, isFirstFree
<1>15. ASSUME NEW p \in PIDs, SysUnblock(p)
       PROVE  NoneDeadQueued' /\ returns(state, state', currentProcess)
  <2>1. /\ state[p] # "ZOMBIE" /\ state' = [state EXCEPT ![p] = "READY"]
        /\ readyQueue' = Append(readyQueue, p)
    BY <1>15 DEF SysUnblock, canBeReady, continueWith, setReady, Sched
  <2>. QED
    BY <2>1, EnqueueNoDead
<1>16. ASSUME NEW p \in PIDs, SysBlock(p)
       PROVE  NoneDeadQueued' /\ returns(state, state', currentProcess)
  <2>1. /\ state[p] # "ZOMBIE" /\ state' = [state EXCEPT ![p] = "BLOCKED"]
        /\ readyQueue' = readyQueue \/ readyQueue' = removeFromQueue(readyQueue, p)
    BY <1>16 DEF SysBlock, canBlock, withoutReady
  <2>2. \A d : isIn(d, readyQueue') => isIn(d, readyQueue)
    BY <1>t, <2>1, RemoveFromQueueProperties
  <2>3. \A x \in PIDs : state[x] = "ZOMBIE" <=> state'[x] = "ZOMBIE"
    BY <1>t, <2>1
  <2>. QED
    BY <2>2, <2>3, PidFacts DEF NoneDeadQueued, noneDead, returns
<1>17. CASE UNCHANGED vars
  BY <1>1, <1>17 DEF vars
<1>18. CASE KernelStep
  BY <1>4, <1>5, <1>6, <1>9, <1>10, <1>11, <1>18 DEF KernelStep
<1>19. CASE InitStep
  BY <1>5, <1>12, <1>13, <1>14, <1>19 DEF InitStep
<1>20. CASE SystemCall
  BY <1>4, <1>5, <1>7, <1>8, <1>9, <1>13, <1>14, <1>15, <1>16, <1>20 DEF SystemCall
<1>. QED
  BY <1>4, <1>5, <1>17, <1>18, <1>19, <1>20 DEF Next

\* Whatever programs do, Ctrl+C on the process that runs included: no post,
\* unblock, nice, dispatch, orphan hand-over or reuse of a slot turns a zombie
\* back into a process, except the zombie that is on the CPU itself, whose own
\* wait makes it BLOCKED.
THEOREM TheDeadStayDead == Spec => OnlyTheRunningReturn
<1> DEFINE A == \A p \in PIDs : state[p] = "ZOMBIE"
                    => state'[p] \in {"ZOMBIE", "FREE"} \/ p = currentProcess
           J == CoreInv /\ NoneDeadQueued
<1>1. Init => J
  <2>1. Init => \A p \in PIDs : state[p] # "ZOMBIE"
    BY DEF Init
  <2>. QED
    BY <2>1, InitIsSafe, PidFacts DEF NoneDeadQueued, noneDead
<1>2. J /\ [Next]_vars => J'
  BY NextPreserves, NextNoDead
<1>3. J /\ [Next]_vars => [A]_vars
  BY NextNoDead DEF returns
<1>. QED
  BY <1>1, <1>2, <1>3, PTL DEF Spec, OnlyTheRunningReturn

-----------------------------------------------------------------------------
(* Programs that keep to the rules *)

\* The calls left out: each breaks one of the rules the programs keep to.
Abuses == {"unblock_waiter", "self_block", "kill_zombie", "reuse_waiter",
           "ctrl_c_running"}
Disciplined == Env \cap Abuses = {}

Others == PIDs \ {IDLE_PID, INIT_PID}
Lives == [PIDs -> {"FREE", "ZOMBIE", "ALIVE"}]

\* What the family tree knows of a process: no slot, dead or alive.
life(st, p) == IF st[p] \in {"FREE", "ZOMBIE"} THEN st[p] ELSE "ALIVE"
Life(st) == [p \in PIDs |-> life(st, p)]

\* The process whose children kernel code is handing to init, and the tokens
\* of dead children.
Orphaning(kn) == IF kn.op = "orphans" THEN kn.pid ELSE NoPid
Tokens(sm) == [p \in PIDs |-> sm[childTerminated(p)].value]

waits(p, sm, s) == isIn(p, sm[s].blockedQueue)

\* Where init can be.
InitPlaces == {InitAt("start"), InitAt("wait_any"), InitAt("poll")}
                 \cup {InitUnlinking(p) : p \in PIDs} \cup {InitReaping(p) : p \in PIDs}
                 \cup {InitClearing(p) : p \in PIDs}

\* Init, at ic, has polled p and not yet freed its slot.
Taken(p, ic) == ic \in {InitUnlinking(p), InitReaping(p)}

\* Places of init that have taken and unlinked the same process, if any.
sameTaken(ic, ic2) ==
    \A p \in PIDs : /\ Taken(p, ic2) <=> Taken(p, ic)
                    /\ ic2 = InitReaping(p) <=> ic = InitReaping(p)

\* readyQueue holds the READY processes, each once; who is alive and in the
\* queue of a semaphore is BLOCKED and in no other place of any queue; only
\* init waits for the death of any child.
queuesOK(st, rq, sm) ==
    /\ life(st, INIT_PID) = "ALIVE"
    /\ \A p \in PIDs : isIn(p, rq) => st[p] = "READY"
    /\ noRepeats(rq)
    /\ \A s \in SemIds : \A p \in PIDs :
          waits(p, sm, s) /\ life(st, p) = "ALIVE" => st[p] = "BLOCKED"
    /\ \A s, t \in SemIds : \A p \in PIDs :
          waits(p, sm, s) /\ waits(p, sm, t) /\ life(st, p) = "ALIVE" => s = t
    /\ \A s \in SemIds : \A i, j \in DOMAIN sm[s].blockedQueue :
          /\ sm[s].blockedQueue[i] = sm[s].blockedQueue[j]
          /\ life(st, sm[s].blockedQueue[i]) = "ALIVE"
          => i = j
    /\ \A p \in PIDs \ {INIT_PID} : sm[childTerminated(p)].blockedQueue = <<>>
    /\ sm[childTerminated(INIT_PID)].blockedQueue \in {<<>>, <<INIT_PID>>}

\* Without sys_block, BLOCKED is to wait on a semaphore.
blockedOK(st, sm) ==
    "block" \in Env \/ \A p \in PIDs : st[p] = "BLOCKED" => \E s \in SemIds : waits(p, sm, s)

\* Where idle, init and the others can be, who has the CPU, and who Ctrl+C kills.
rolesOK(lf, st, ct, cur, kn, fg, sm) ==
    /\ st[IDLE_PID] \in {"READY", "RUNNING"}
    /\ lf[INIT_PID] = "ALIVE"
    /\ ct[IDLE_PID] = IdleCode
    /\ ct[INIT_PID] \in InitPlaces
    /\ \A p \in Others : ct[p] = UserCode \/ \E c \in PIDs : ct[p] = AfterWaitPid(c)
    /\ cur # NoPid => \/ st[cur] = "RUNNING"
                      \/ st[cur] = "ZOMBIE" /\ kn = OrphansOf(cur, NoPid)
    /\ kn = Reaping => ct[cur] = UserCode
    /\ kn # Halted
    /\ \A p \in fg : lf[p] = "ALIVE"
    /\ kn.op = "ctrl_c" \/ (kn.op = "orphans" /\ kn.next # NoPid) => cur \notin fg
    /\ ct[INIT_PID] = InitAt("start") =>
          /\ \A p \in Others : lf[p] = "FREE"
          /\ \A s \in SemIds : sm[s].blockedQueue = <<>>

\* Each process is in the list of its parent, who is alive or whose children
\* are being handed over, and the lists hold nobody else.
treeOK(lf, par, ch, orph, ic) ==
    /\ lf[IDLE_PID] = "ALIVE" /\ lf[INIT_PID] = "ALIVE"
    /\ par[IDLE_PID] = INIT_PID /\ par[INIT_PID] = INIT_PID
    /\ orph # NoPid => lf[orph] = "ZOMBIE"
    /\ \A p \in Others : lf[p] # "FREE" =>
          /\ lf[par[p]] = "ALIVE" \/ par[p] = orph
          /\ isIn(p, ch[par[p]]) \/ ic = InitReaping(p)
    /\ \A q \in PIDs : noRepeats(ch[q])
    /\ \A p, q \in PIDs : isIn(p, ch[q]) => p \in Others /\ lf[p] # "FREE" /\ par[p] = q
    /\ \A p \in PIDs : Taken(p, ic) => p \in Others /\ lf[p] = "ZOMBIE" /\ par[p] = INIT_PID
    /\ \A p \in PIDs : ic = InitReaping(p) => ~isIn(p, ch[INIT_PID])

\* Each zombie is announced to its parent, with one token each.
zombiesOK(lf, par, tc, tok, orph, ic) ==
    /\ \A p \in PIDs : lf[p] = "ZOMBIE" =>
          isIn(p, tc[par[p]]) \/ Taken(p, ic) \/ par[p] = orph
    /\ \A q \in PIDs : lf[q] = "ALIVE" =>
          /\ noRepeats(tc[q])
          /\ \A p \in PIDs : isIn(p, tc[q]) => lf[p] = "ZOMBIE" /\ par[p] = q
          /\ Len(tc[q]) = tok[q] + (IF q = INIT_PID /\ ic = InitAt("poll") THEN 1 ELSE 0)
    /\ \A p \in PIDs : Taken(p, ic) => ~isIn(p, tc[INIT_PID])

\* Who is in wait_pid waits for a child of its own, which has died or will wake
\* it.
waitersOK(lf, par, ct, sm) ==
    /\ \A m, c \in PIDs : lf[m] = "ALIVE" /\ ct[m] = AfterWaitPid(c) =>
          /\ c \in Others /\ lf[c] # "FREE" /\ par[c] = m
          /\ lf[c] = "ZOMBIE" \/ waits(m, sm, terminated(c))
    /\ \A m, c \in PIDs : lf[m] = "ALIVE" /\ waits(m, sm, terminated(c)) =>
          ct[m] = AfterWaitPid(c)
    /\ \A c \in PIDs : lf[c] = "ALIVE" => sm[terminated(c)].value <= 0

FamilyInv ==
    /\ CoreInv
    /\ queuesOK(state, readyQueue, sem)
    /\ blockedOK(state, sem)
    /\ rolesOK(Life(state), state, cont, currentProcess, kernel, foregroundSet, sem)
    /\ treeOK(Life(state), ppid, children, Orphaning(kernel), cont[INIT_PID])
    /\ zombiesOK(Life(state), ppid, terminatedChildren, Tokens(sem), Orphaning(kernel),
                 cont[INIT_PID])
    /\ waitersOK(Life(state), ppid, cont, sem)

-----------------------------------------------------------------------------

\* What life tells apart.
LEMMA LifeFacts ==
    ASSUME NEW st \in [PIDs -> States]
    PROVE  /\ Life(st) \in Lives
           /\ \A p \in PIDs :
                 /\ Life(st)[p] = life(st, p)
                 /\ life(st, p) = "FREE" <=> st[p] = "FREE"
                 /\ life(st, p) = "ZOMBIE" <=> st[p] = "ZOMBIE"
                 /\ life(st, p) = "ALIVE" <=> st[p] \in {"READY", "RUNNING", "BLOCKED"}
  BY DEF Life, Lives, life, States

\* Names of semaphores are distinct.
LEMMA SemIdsDiffer ==
    /\ \A p, q \in PIDs : terminated(p) = terminated(q) => p = q
    /\ \A p, q \in PIDs : childTerminated(p) = childTerminated(q) => p = q
    /\ \A p, q \in PIDs : terminated(p) # childTerminated(q)
    /\ \A p \in PIDs : \A u \in UserSems :
          userSem(u) # terminated(p) /\ userSem(u) # childTerminated(p)
  BY DEF terminated, childTerminated, userSem

\* The loop of a post ends because nobody is left to poll, or at the first
\* waiter that is BLOCKED.
LEMMA PostCases ==
    ASSUME NEW k \in SchedStates, NEW s \in SemIds, debtIsQueue(k.sem[s])
    PROVE  LET q == k.sem[s].blockedQueue
               r == semPost(k, s)
           IN  \/ /\ r.state = k.state /\ r.readyQueue = k.readyQueue
                  /\ r.sem = [k.sem EXCEPT ![s] = [value |-> k.sem[s].value + Len(q) + 1,
                                                   blockedQueue |-> <<>>]]
                  /\ \A i \in 1 .. Len(q) : k.state[q[i]] # "BLOCKED"
               \/ \E j \in 1 .. Len(q) :
                  /\ k.state[q[j]] = "BLOCKED"
                  /\ \A i \in 1 .. j - 1 : k.state[q[i]] # "BLOCKED"
                  /\ r.state = [k.state EXCEPT ![q[j]] = "READY"]
                  /\ r.readyQueue = Append(k.readyQueue, q[j])
                  /\ r.sem = [k.sem EXCEPT ![s] =
                                 [value |-> k.sem[s].value + j,
                                  blockedQueue |-> SubSeq(q, j + 1, Len(q))]]
<1> DEFINE q == k.sem[s].blockedQueue
           v == k.sem[s].value
           n == pollable(k, s)
<1>1. /\ q \in Seq(PIDs) /\ Len(q) \in Nat /\ v \in Int
      /\ \A i \in 1 .. Len(q) : q[i] \in PIDs
  BY DEF SchedStates, Semaphores
<1>2. n = Len(q)
  BY <1>1, PollableProperties DEF debtIsQueue
<1>3. CASE stopsAt(k, s) = {}
  <2>1. \A i \in 1 .. Len(q) : k.state[q[i]] # "BLOCKED"
    <3> SUFFICES ASSUME NEW i \in 1 .. Len(q), k.state[q[i]] = "BLOCKED" PROVE FALSE
      OBVIOUS
    <3> DEFINE T == {m \in 1 .. Len(q) : k.state[q[m]] = "BLOCKED"}
    <3>1. PICK x \in T : \A y \in T : x <= y
      <4>1. T \in SUBSET Nat /\ T # {}
        OBVIOUS
      <4>. QED
        BY <4>1, LeastNatural, Zenon
    <3>2. \A y \in 1 .. x - 1 : y \in 1 .. Len(q) /\ ~(x <= y)
      BY <1>1, <3>1
    <3>3. \A y \in 1 .. x - 1 : k.state[q[y]] # "BLOCKED"
      BY <3>1, <3>2
    <3>. QED
      BY <1>2, <1>3, <3>1, <3>3 DEF stopsAt, canBeReady
  <2>2. semPost(k, s) = withSem(k, s, drained(k, s, n, n + 1))
    BY <1>3 DEF semPost
  <2>3. drained(k, s, n, n + 1) = [value |-> v + Len(q) + 1, blockedQueue |-> <<>>]
    <3>1. SubSeq(q, Len(q) + 1, Len(q)) = <<>>
      BY <1>1, SubSeqProperties
    <3>2. v + (Len(q) + 1) = v + Len(q) + 1
      BY <1>1
    <3>. QED
      BY <1>2, <3>1, <3>2 DEF drained
  <2>. QED
    BY <2>1, <2>2, <2>3 DEF withSem
<1>4. CASE stopsAt(k, s) # {}
  <2> DEFINE j == CHOOSE i \in stopsAt(k, s) : TRUE
  <2>1. j \in stopsAt(k, s)
    BY <1>4
  <2>2. semPost(k, s) = setReady(withSem(k, s, drained(k, s, j, j)), q[j])
    BY <1>4 DEF semPost
  <2> HIDE DEF j
  <2>3. /\ j \in 1 .. Len(q)
        /\ k.state[q[j]] = "BLOCKED"
        /\ \A i \in 1 .. j - 1 : k.state[q[i]] # "BLOCKED"
    BY <1>2, <2>1 DEF stopsAt, canBeReady
  <2>4. drained(k, s, j, j) = [value |-> v + j, blockedQueue |-> SubSeq(q, j + 1, Len(q))]
    BY DEF drained
  <2>5. /\ semPost(k, s).state = [k.state EXCEPT ![q[j]] = "READY"]
        /\ semPost(k, s).readyQueue = Append(k.readyQueue, q[j])
        /\ semPost(k, s).sem = [k.sem EXCEPT ![s] =
                [value |-> v + j, blockedQueue |-> SubSeq(q, j + 1, Len(q))]]
    BY <2>2, <2>4 DEF setReady, withSem
  <2>. QED
    BY <2>3, <2>5
<1>. QED
  BY <1>3, <1>4

\* The waiters behind the j-th.
LEMMA RestOfQueue ==
    ASSUME NEW q \in Seq(PIDs), NEW j \in 1 .. Len(q)
    PROVE  LET r == SubSeq(q, j + 1, Len(q))
           IN  /\ r \in Seq(PIDs)
               /\ DOMAIN r = 1 .. Len(q) - j
               /\ \A i \in DOMAIN r : i + j \in j + 1 .. Len(q) /\ r[i] = q[i + j]
               /\ \A i \in j + 1 .. Len(q) : isIn(q[i], r)
               /\ \A d : isIn(d, r) => \E i \in j + 1 .. Len(q) : q[i] = d
<1> DEFINE r == SubSeq(q, j + 1, Len(q))
<1>1. Len(q) \in Nat /\ j \in Nat /\ \A i \in j + 1 .. Len(q) : q[i] \in PIDs
  OBVIOUS
<1>2. /\ r \in Seq(PIDs)
      /\ Len(r) = Len(q) - j
      /\ \A i \in 1 .. Len(q) - j : r[i] = q[j + i]
  <2>1. \A i \in j + 1 .. Len(q) : q[i] \in PIDs
    BY <1>1
  <2>. QED
    BY <1>1, <2>1, SubSeqProperties
<1> HIDE DEF r
<1>3. DOMAIN r = 1 .. Len(q) - j
  BY <1>2
<1>4. \A i \in 1 .. Len(q) - j : i + j \in j + 1 .. Len(q) /\ i + j = j + i
  BY <1>1
<1>5. \A i \in j + 1 .. Len(q) : i - j \in 1 .. Len(q) - j /\ j + (i - j) = i
  BY <1>1
<1>6. \A i \in DOMAIN r : i + j \in j + 1 .. Len(q) /\ r[i] = q[i + j]
  BY <1>2, <1>3, <1>4
<1>7. \A i \in j + 1 .. Len(q) : isIn(q[i], r)
  BY <1>2, <1>3, <1>5 DEF isIn
<1>8. \A d : isIn(d, r) => \E i \in j + 1 .. Len(q) : q[i] = d
  BY <1>6 DEF isIn
<1>. QED
  BY <1>2, <1>3, <1>6, <1>7, <1>8 DEF r

\* semPost takes from one queue, wakes at most one process that was BLOCKED in
\* it, forgets none, and leaves everybody as alive as before.
LEMMA PostKeepsQueues ==
    ASSUME NEW k \in SchedStates, NEW s \in SemIds,
           \A t \in SemIds : debtIsQueue(k.sem[t]),
           queuesOK(k.state, k.readyQueue, k.sem)
    PROVE  LET r == semPost(k, s)
           IN  /\ r \in SchedStates
               /\ \A t \in SemIds : debtIsQueue(r.sem[t])
               /\ queuesOK(r.state, r.readyQueue, r.sem)
               /\ Life(r.state) = Life(k.state)
               /\ \A t \in SemIds : t # s => r.sem[t] = k.sem[t]
               /\ \A p \in PIDs : waits(p, r.sem, s) => waits(p, k.sem, s)
               /\ \A p \in PIDs : \/ r.state[p] = k.state[p]
                                  \/ /\ waits(p, k.sem, s) /\ k.state[p] = "BLOCKED"
                                     /\ r.state[p] = "READY"
               /\ \A p \in PIDs : waits(p, k.sem, s) /\ r.state[p] = "BLOCKED"
                                     => waits(p, r.sem, s)
               /\ \A p \in PIDs : s = childTerminated(p)
                                     => r.sem[s].value = k.sem[s].value + 1
<1> DEFINE q == k.sem[s].blockedQueue
           v == k.sem[s].value
           r == semPost(k, s)
<1>0. /\ q \in Seq(PIDs) /\ Len(q) \in Nat /\ v \in Int
      /\ DOMAIN q = 1 .. Len(q)
      /\ \A i \in 1 .. Len(q) : q[i] \in PIDs
      /\ k.state \in [PIDs -> States] /\ k.readyQueue \in Seq(PIDs)
      /\ k.sem \in [SemIds -> Semaphores]
  BY DEF SchedStates, Semaphores
<1>1. r \in SchedStates /\ \A t \in SemIds : debtIsQueue(r.sem[t])
  BY SemPostProperties
<1>2. \A p \in PIDs : s = childTerminated(p) => q = <<>> \/ (q = <<INIT_PID>> /\ p = INIT_PID)
  BY DEF queuesOK
<1>3. CASE /\ r.state = k.state /\ r.readyQueue = k.readyQueue
           /\ r.sem = [k.sem EXCEPT ![s] = [value |-> v + Len(q) + 1, blockedQueue |-> <<>>]]
           /\ \A i \in 1 .. Len(q) : k.state[q[i]] # "BLOCKED"
  <2> HIDE DEF r
  <2>1. /\ \A t \in SemIds : t # s => r.sem[t] = k.sem[t]
        /\ r.sem[s].blockedQueue = <<>> /\ r.sem[s].value = v + Len(q) + 1
    BY <1>0, <1>3
  <2>2. \A p \in PIDs : ~waits(p, r.sem, s)
    BY <2>1, EmptyQueue DEF waits
  <2>3. \A p \in PIDs : waits(p, k.sem, s) => k.state[p] # "BLOCKED"
    BY <1>0, <1>3 DEF waits, isIn
  <2>4. \A p \in PIDs : \A t \in SemIds : waits(p, r.sem, t) => waits(p, k.sem, t) /\ t # s
    BY <2>1, <2>2 DEF waits
  <2>5. queuesOK(r.state, r.readyQueue, r.sem)
    <3>1. \A t \in SemIds : t = s \/ r.sem[t] = k.sem[t]
      BY <2>1
    <3>2. DOMAIN r.sem[s].blockedQueue = {}
      BY <2>1
    <3>. QED
      BY <1>3, <2>1, <2>4, <3>1, <3>2 DEF queuesOK
  <2>6. ASSUME NEW p \in PIDs, s = childTerminated(p)
        PROVE  r.sem[s].value = v + 1
    <3>1. CASE q = <<>>
      BY <1>0, <2>1, <3>1
    <3>2. CASE q = <<INIT_PID>>
      <4>1. isIn(INIT_PID, q) /\ INIT_PID \in PIDs
        BY <3>2, PidFacts DEF isIn
      <4>2. k.state[INIT_PID] = "BLOCKED"
        BY <4>1 DEF queuesOK, waits
      <4>. QED
        BY <2>3, <4>1, <4>2 DEF waits
    <3>. QED
      BY <1>2, <2>6, <3>1, <3>2
  <2>. QED
    BY <1>1, <1>3, <2>1, <2>2, <2>3, <2>5, <2>6 DEF r
<1>4. ASSUME NEW j \in 1 .. Len(q),
             k.state[q[j]] = "BLOCKED",
             \A i \in 1 .. j - 1 : k.state[q[i]] # "BLOCKED",
             r.state = [k.state EXCEPT ![q[j]] = "READY"],
             r.readyQueue = Append(k.readyQueue, q[j]),
             r.sem = [k.sem EXCEPT ![s] = [value |-> v + j,
                                           blockedQueue |-> SubSeq(q, j + 1, Len(q))]]
      PROVE  /\ queuesOK(r.state, r.readyQueue, r.sem)
             /\ Life(r.state) = Life(k.state)
             /\ \A t \in SemIds : t # s => r.sem[t] = k.sem[t]
             /\ \A p \in PIDs : waits(p, r.sem, s) => waits(p, k.sem, s)
             /\ \A p \in PIDs : \/ r.state[p] = k.state[p]
                                \/ /\ waits(p, k.sem, s) /\ k.state[p] = "BLOCKED"
                                   /\ r.state[p] = "READY"
             /\ \A p \in PIDs : waits(p, k.sem, s) /\ r.state[p] = "BLOCKED"
                                   => waits(p, r.sem, s)
             /\ \A p \in PIDs : s = childTerminated(p) => r.sem[s].value = k.sem[s].value + 1
  <2> DEFINE w == q[j]
             x == SubSeq(q, j + 1, Len(q))
  <2>0. j \in Nat /\ j >= 1 /\ j <= Len(q) /\ w \in PIDs
    BY <1>0
  <2>x. /\ DOMAIN x = 1 .. Len(q) - j
        /\ \A i \in DOMAIN x : i + j \in j + 1 .. Len(q) /\ x[i] = q[i + j]
        /\ \A i \in j + 1 .. Len(q) : isIn(q[i], x)
        /\ \A d : isIn(d, x) => \E i \in j + 1 .. Len(q) : q[i] = d
    BY <1>0, RestOfQueue
  <2>r. /\ r.state = [k.state EXCEPT ![w] = "READY"] /\ k.state[w] = "BLOCKED"
        /\ r.readyQueue = Append(k.readyQueue, w)
    BY <1>4
  <2>1. /\ \A t \in SemIds : t # s => r.sem[t] = k.sem[t]
        /\ r.sem[s].blockedQueue = x /\ r.sem[s].value = v + j
    BY <1>0, <1>4
  <2>q. \A i, m \in DOMAIN q : q[i] = q[m] /\ life(k.state, q[i]) = "ALIVE" => i = m
    BY DEF queuesOK
  <2> HIDE DEF r, x, w
  <2>2. \A p \in PIDs : waits(p, r.sem, s) => waits(p, k.sem, s)
    <3>1. \A i \in j + 1 .. Len(q) : i \in DOMAIN q
      BY <1>0, <2>0
    <3>. QED
      BY <2>1, <2>x, <3>1 DEF waits, isIn
  <2>3. \A p \in PIDs : waits(p, k.sem, s) /\ k.state[p] = "BLOCKED" => p = w \/ waits(p, r.sem, s)
    <3> SUFFICES ASSUME NEW p \in PIDs, waits(p, k.sem, s), k.state[p] = "BLOCKED", p # w
                 PROVE  waits(p, r.sem, s)
      OBVIOUS
    <3>1. PICK i \in 1 .. Len(q) : q[i] = p
      BY <1>0 DEF waits, isIn
    <3>2. i \notin 1 .. j - 1 /\ i # j
      BY <1>4, <3>1 DEF w
    <3>3. i \in j + 1 .. Len(q)
      BY <1>0, <2>0, <3>1, <3>2
    <3>. QED
      BY <2>1, <2>x, <3>1, <3>3 DEF waits
  <2>4. waits(w, k.sem, s)
    BY <1>0, <1>4 DEF waits, isIn, w
  <2>5. life(k.state, w) = "ALIVE"
    BY <1>0, <2>0, <2>r DEF life
  <2>6. ~waits(w, r.sem, s)
    <3> SUFFICES ASSUME waits(w, r.sem, s) PROVE FALSE
      OBVIOUS
    <3>1. PICK i \in j + 1 .. Len(q) : q[i] = w
      BY <2>1, <2>x DEF waits
    <3>2. i \in DOMAIN q /\ j \in DOMAIN q /\ i # j
      BY <1>0, <2>0, <3>1
    <3>. QED
      BY <2>5, <2>q, <3>1, <3>2 DEF w
  <2>7. \A p \in PIDs : p # w => r.state[p] = k.state[p]
    BY <1>0, <2>r
  <2>8. r.state[w] = "READY"
    BY <1>0, <2>0, <2>r
  <2>9. \A p \in PIDs : life(r.state, p) = life(k.state, p)
    BY <2>7, <2>8, <2>5 DEF life
  <2>10. Life(r.state) = Life(k.state)
    BY <2>9 DEF Life
  <2>11. \A p \in PIDs : \A t \in SemIds : waits(p, r.sem, t) => waits(p, k.sem, t) /\ p # w
    <3>1. \A t \in SemIds : waits(w, k.sem, t) => t = s
      BY <2>0, <2>4, <2>5 DEF queuesOK
    <3>. QED
      BY <2>1, <2>2, <2>6, <3>1 DEF waits
  <2>12. queuesOK(r.state, r.readyQueue, r.sem)
    <3>1. life(r.state, INIT_PID) = "ALIVE"
      BY <2>9, PidFacts DEF queuesOK
    <3>2. /\ \A p \in PIDs : isIn(p, r.readyQueue) => r.state[p] = "READY"
          /\ noRepeats(r.readyQueue)
      <4>1. ~isIn(w, k.readyQueue)
        BY <2>0, <2>r DEF queuesOK
      <4>2. /\ \A d : isIn(d, r.readyQueue) <=> isIn(d, k.readyQueue) \/ d = w
            /\ noRepeats(k.readyQueue) => noRepeats(r.readyQueue)
        BY <1>0, <2>0, <2>r, <4>1, EnqueueProperties
      <4>. QED
        BY <2>7, <2>8, <4>2 DEF queuesOK
    <3>3. \A t \in SemIds : \A p \in PIDs :
             waits(p, r.sem, t) /\ life(r.state, p) = "ALIVE" => r.state[p] = "BLOCKED"
      BY <2>7, <2>9, <2>11 DEF queuesOK
    <3>4. \A t, u \in SemIds : \A p \in PIDs :
             waits(p, r.sem, t) /\ waits(p, r.sem, u) /\ life(r.state, p) = "ALIVE" => t = u
      BY <2>9, <2>11 DEF queuesOK
    <3>5. \A t \in SemIds : \A i, m \in DOMAIN r.sem[t].blockedQueue :
             /\ r.sem[t].blockedQueue[i] = r.sem[t].blockedQueue[m]
             /\ life(r.state, r.sem[t].blockedQueue[i]) = "ALIVE"
             => i = m
      <4> SUFFICES ASSUME NEW t \in SemIds, NEW i \in DOMAIN r.sem[t].blockedQueue,
                          NEW m \in DOMAIN r.sem[t].blockedQueue,
                          r.sem[t].blockedQueue[i] = r.sem[t].blockedQueue[m],
                          life(r.state, r.sem[t].blockedQueue[i]) = "ALIVE"
                   PROVE  i = m
        OBVIOUS
      <4>1. CASE t = s
        <5>1. /\ i \in DOMAIN x /\ m \in DOMAIN x /\ x[i] = q[i + j] /\ x[m] = q[m + j]
              /\ i + j \in DOMAIN q /\ m + j \in DOMAIN q /\ x[i] = x[m]
              /\ life(r.state, x[i]) = "ALIVE" /\ x[i] \in PIDs
          <6>1. i \in DOMAIN x /\ m \in DOMAIN x /\ x[i] = x[m] /\ life(r.state, x[i]) = "ALIVE"
            BY <2>1, <4>1
          <6>2. x[i] = q[i + j] /\ x[m] = q[m + j] /\ i + j \in j + 1 .. Len(q) /\ m + j \in j + 1 .. Len(q)
            BY <2>x, <6>1
          <6>3. i + j \in DOMAIN q /\ m + j \in DOMAIN q
            BY <1>0, <2>0, <6>2
          <6>. QED
            BY <1>0, <6>1, <6>2, <6>3
        <5>2. i + j = m + j
          BY <2>9, <2>q, <5>1
        <5>. QED
          BY <2>0, <2>x, <5>1, <5>2
      <4>2. CASE t # s
        <5>1. r.sem[t] = k.sem[t] /\ r.sem[t].blockedQueue[i] \in PIDs
          BY <1>0, <2>1, <4>2 DEF Semaphores
        <5>. QED
          BY <2>9, <5>1 DEF queuesOK
      <4>. QED
        BY <4>1, <4>2
    <3>6. /\ \A p \in PIDs \ {INIT_PID} : r.sem[childTerminated(p)].blockedQueue = <<>>
          /\ r.sem[childTerminated(INIT_PID)].blockedQueue \in {<<>>, <<INIT_PID>>}
      <4>1. ASSUME NEW p \in PIDs, s = childTerminated(p) PROVE p = INIT_PID /\ x = <<>>
        <5>1. q = <<INIT_PID>> /\ p = INIT_PID
          BY <1>2, <2>4, <4>1, EmptyQueue DEF waits
        <5>2. Len(q) = 1 /\ j = 1
          BY <2>0, <5>1
        <5>. QED
          BY <5>1, <5>2 DEF x
      <4>2. \A p \in PIDs : childTerminated(p) \in SemIds
        BY SemIdFacts
      <4>. QED
        BY <2>1, <4>1, <4>2, PidFacts DEF queuesOK
    <3>. QED
      BY <3>1, <3>2, <3>3, <3>4, <3>5, <3>6 DEF queuesOK
  <2>13. ASSUME NEW p \in PIDs, s = childTerminated(p) PROVE r.sem[s].value = v + 1
    <3>1. q = <<INIT_PID>>
      BY <1>2, <2>4, <2>13, EmptyQueue DEF waits
    <3>2. j = 1
      BY <2>0, <3>1
    <3>. QED
      BY <2>1, <3>2
  <2>. QED
    BY <2>1, <2>2, <2>3, <2>4, <2>7, <2>8, <2>r, <2>10, <2>12, <2>13
<1>5. \/ /\ r.state = k.state /\ r.readyQueue = k.readyQueue
         /\ r.sem = [k.sem EXCEPT ![s] = [value |-> v + Len(q) + 1, blockedQueue |-> <<>>]]
         /\ \A i \in 1 .. Len(q) : k.state[q[i]] # "BLOCKED"
      \/ \E j \in 1 .. Len(q) :
            /\ k.state[q[j]] = "BLOCKED"
            /\ \A i \in 1 .. j - 1 : k.state[q[i]] # "BLOCKED"
            /\ r.state = [k.state EXCEPT ![q[j]] = "READY"]
            /\ r.readyQueue = Append(k.readyQueue, q[j])
            /\ r.sem = [k.sem EXCEPT ![s] = [value |-> v + j,
                                             blockedQueue |-> SubSeq(q, j + 1, Len(q))]]
  <2>1. debtIsQueue(k.sem[s])
    OBVIOUS
  <2>. QED
    BY <2>1, PostCases
<1>. QED
  <2> HIDE DEF r, q, v
  <2>1. CASE /\ r.state = k.state /\ r.readyQueue = k.readyQueue
             /\ r.sem = [k.sem EXCEPT ![s] = [value |-> v + Len(q) + 1, blockedQueue |-> <<>>]]
             /\ \A i \in 1 .. Len(q) : k.state[q[i]] # "BLOCKED"
    BY <1>3, <2>1
  <2>2. ASSUME NEW j \in 1 .. Len(q),
               k.state[q[j]] = "BLOCKED",
               \A i \in 1 .. j - 1 : k.state[q[i]] # "BLOCKED",
               r.state = [k.state EXCEPT ![q[j]] = "READY"],
               r.readyQueue = Append(k.readyQueue, q[j]),
               r.sem = [k.sem EXCEPT ![s] = [value |-> v + j,
                                             blockedQueue |-> SubSeq(q, j + 1, Len(q))]]
        PROVE  LET z == semPost(k, s)
               IN  /\ z \in SchedStates
                   /\ \A t \in SemIds : debtIsQueue(z.sem[t])
                   /\ queuesOK(z.state, z.readyQueue, z.sem)
                   /\ Life(z.state) = Life(k.state)
                   /\ \A t \in SemIds : t # s => z.sem[t] = k.sem[t]
                   /\ \A p \in PIDs : waits(p, z.sem, s) => waits(p, k.sem, s)
                   /\ \A p \in PIDs : \/ z.state[p] = k.state[p]
                                      \/ /\ waits(p, k.sem, s) /\ k.state[p] = "BLOCKED"
                                         /\ z.state[p] = "READY"
                   /\ \A p \in PIDs : waits(p, k.sem, s) /\ z.state[p] = "BLOCKED"
                                         => waits(p, z.sem, s)
                   /\ \A p \in PIDs : s = childTerminated(p)
                                         => z.sem[s].value = k.sem[s].value + 1
    BY <1>1, <1>4, <2>2 DEF r
  <2>. QED
    BY <1>5, <2>1, <2>2, Zenon

-----------------------------------------------------------------------------
(* The queues *)

\* queuesOK survives a change of states and the emptying of queues, if nobody
\* comes to life in a queue and nobody leaves BLOCKED in one.
LEMMA QueuesKept ==
    ASSUME NEW st \in [PIDs -> States], NEW st2 \in [PIDs -> States], NEW rq, NEW rq2,
           NEW sm \in [SemIds -> Semaphores], NEW sm2 \in [SemIds -> Semaphores],
           queuesOK(st, rq, sm),
           life(st2, INIT_PID) = "ALIVE",
           \A s \in SemIds : \/ sm2[s].blockedQueue = sm[s].blockedQueue
                             \/ sm2[s].blockedQueue = <<>>,
           \A p \in PIDs : \A s \in SemIds :
              waits(p, sm2, s) /\ life(st2, p) = "ALIVE" =>
                 life(st, p) = "ALIVE" /\ (st[p] = "BLOCKED" => st2[p] = "BLOCKED"),
           \A p \in PIDs : isIn(p, rq2) => st2[p] = "READY",
           noRepeats(rq2)
    PROVE  queuesOK(st2, rq2, sm2)
<1>1. \A s \in SemIds : \A p \in PIDs : waits(p, sm2, s) => waits(p, sm, s)
  BY EmptyQueue DEF waits
<1>2. \A s \in SemIds : \A p \in PIDs :
         waits(p, sm2, s) /\ life(st2, p) = "ALIVE" => st2[p] = "BLOCKED"
  BY <1>1 DEF queuesOK
<1>3. \A s, t \in SemIds : \A p \in PIDs :
         waits(p, sm2, s) /\ waits(p, sm2, t) /\ life(st2, p) = "ALIVE" => s = t
  BY <1>1 DEF queuesOK
<1>4. ASSUME NEW s \in SemIds, NEW i \in DOMAIN sm2[s].blockedQueue,
             NEW j \in DOMAIN sm2[s].blockedQueue,
             sm2[s].blockedQueue[i] = sm2[s].blockedQueue[j],
             life(st2, sm2[s].blockedQueue[i]) = "ALIVE"
      PROVE  i = j
  <2> DEFINE p == sm2[s].blockedQueue[i]
  <2>1. DOMAIN sm2[s].blockedQueue # {}
    BY <1>4
  <2>2. sm2[s].blockedQueue = sm[s].blockedQueue
    BY <2>1
  <2>3. p \in PIDs /\ waits(p, sm2, s)
    BY <1>4 DEF waits, isIn, Semaphores
  <2>4. life(st, p) = "ALIVE"
    BY <1>4, <2>3
  <2>. QED
    BY <1>4, <2>2, <2>4 DEF queuesOK
<1>5. /\ \A p \in PIDs \ {INIT_PID} : sm2[childTerminated(p)].blockedQueue = <<>>
      /\ sm2[childTerminated(INIT_PID)].blockedQueue \in {<<>>, <<INIT_PID>>}
  BY SemIdFacts, PidFacts DEF queuesOK
<1>. QED
  BY <1>2, <1>3, <1>4, <1>5 DEF queuesOK

\* A process that runs and waits on s goes to the end of that queue.
LEMMA WaitKeepsQueues ==
    ASSUME NEW st \in [PIDs -> States], NEW rq, NEW sm \in [SemIds -> Semaphores],
           NEW cur \in PIDs, NEW s \in SemIds, NEW v \in Int,
           queuesOK(st, rq, sm), st[cur] = "RUNNING",
           \A p \in PIDs : s = childTerminated(p) => p = INIT_PID /\ cur = INIT_PID
    PROVE  LET st2 == [st EXCEPT ![cur] = "BLOCKED"]
               sm2 == [sm EXCEPT ![s] = [value |-> v,
                                         blockedQueue |-> Append(sm[s].blockedQueue, cur)]]
           IN  /\ queuesOK(st2, rq, sm2)
               /\ Life(st2) = Life(st)
               /\ \A p \in PIDs : \A t \in SemIds :
                     waits(p, sm2, t) <=> waits(p, sm, t) \/ (t = s /\ p = cur)
<1> DEFINE q == sm[s].blockedQueue
           x == Append(q, cur)
           st2 == [st EXCEPT ![cur] = "BLOCKED"]
           sm2 == [sm EXCEPT ![s] = [value |-> v, blockedQueue |-> x]]
<1>1. q \in Seq(PIDs) /\ Len(q) \in Nat
  BY DEF Semaphores
<1>2. \A d : isIn(d, x) <=> isIn(d, q) \/ d = cur
  BY <1>1, EnqueueProperties
<1>3. /\ \A t \in SemIds : t # s => sm2[t] = sm[t]
      /\ sm2[s].blockedQueue = x
  OBVIOUS
<1>4. /\ st2[cur] = "BLOCKED" /\ \A p \in PIDs : p # cur => st2[p] = st[p]
  OBVIOUS
<1>5. DOMAIN q = 1 .. Len(q) /\ DOMAIN x = 1 .. Len(q) + 1 /\ x[Len(q) + 1] = cur
      /\ \A i \in 1 .. Len(q) : x[i] = q[i] /\ q[i] \in PIDs
  BY <1>1
<1> HIDE DEF x, st2, sm2
<1>6. \A p \in PIDs : life(st2, p) = life(st, p)
  BY <1>4 DEF life
<1>7. Life(st2) = Life(st)
  BY <1>6 DEF Life
<1>8. \A p \in PIDs : \A t \in SemIds :
         waits(p, sm2, t) <=> waits(p, sm, t) \/ (t = s /\ p = cur)
  BY <1>2, <1>3 DEF waits
<1>9. \A t \in SemIds : ~waits(cur, sm, t)
  BY DEF queuesOK, life
<1>10. life(st2, INIT_PID) = "ALIVE"
  BY <1>6, PidFacts DEF queuesOK
<1>11. \A p \in PIDs : isIn(p, rq) => st2[p] = "READY"
  BY <1>4 DEF queuesOK
<1>12. \A t \in SemIds : \A p \in PIDs :
          waits(p, sm2, t) /\ life(st2, p) = "ALIVE" => st2[p] = "BLOCKED"
  BY <1>4, <1>6, <1>8 DEF queuesOK
<1>13. \A t, u \in SemIds : \A p \in PIDs :
          waits(p, sm2, t) /\ waits(p, sm2, u) /\ life(st2, p) = "ALIVE" => t = u
  BY <1>6, <1>8, <1>9 DEF queuesOK
<1>14. ASSUME NEW t \in SemIds, NEW i \in DOMAIN sm2[t].blockedQueue,
              NEW j \in DOMAIN sm2[t].blockedQueue,
              sm2[t].blockedQueue[i] = sm2[t].blockedQueue[j],
              life(st2, sm2[t].blockedQueue[i]) = "ALIVE"
       PROVE  i = j
  <2>1. CASE t # s
    <3>1. sm2[t] = sm[t] /\ sm2[t].blockedQueue[i] \in PIDs
      BY <1>3, <2>1 DEF Semaphores
    <3>. QED
      BY <1>6, <1>14, <3>1 DEF queuesOK
  <2>2. CASE t = s
    <3>1. i \in 1 .. Len(q) + 1 /\ j \in 1 .. Len(q) + 1 /\ x[i] = x[j] /\ life(st2, x[i]) = "ALIVE"
      BY <1>3, <1>5, <1>14, <2>2
    <3>2. \A m \in 1 .. Len(q) : x[m] # cur
      BY <1>5, <1>9 DEF waits, isIn
    <3>3. \A m \in 1 .. Len(q) + 1 : m \in 1 .. Len(q) \/ m = Len(q) + 1
      BY <1>1
    <3>4. CASE i \in 1 .. Len(q) /\ j \in 1 .. Len(q)
      <4>1. i \in DOMAIN q /\ j \in DOMAIN q /\ q[i] = q[j] /\ life(st, q[i]) = "ALIVE"
        BY <1>5, <1>6, <3>1, <3>4
      <4>. QED
        BY <4>1 DEF queuesOK
    <3>. QED
      BY <1>5, <3>1, <3>2, <3>3, <3>4
  <2>. QED
    BY <2>1, <2>2
<1>15. /\ \A p \in PIDs \ {INIT_PID} : sm2[childTerminated(p)].blockedQueue = <<>>
       /\ sm2[childTerminated(INIT_PID)].blockedQueue \in {<<>>, <<INIT_PID>>}
  <2>0. INIT_PID \in PIDs /\ \A p \in PIDs : childTerminated(p) \in SemIds
    BY PidFacts, SemIdFacts
  <2>1. \A p \in PIDs \ {INIT_PID} : sm2[childTerminated(p)].blockedQueue = <<>>
    BY <1>3, <2>0 DEF queuesOK
  <2>2. CASE s # childTerminated(INIT_PID)
    BY <1>3, <2>0, <2>1, <2>2 DEF queuesOK
  <2>3. CASE s = childTerminated(INIT_PID)
    <3>1. cur = INIT_PID /\ ~isIn(INIT_PID, q)
      BY <1>9, <2>0, <2>3 DEF waits
    <3>2. ~isIn(INIT_PID, <<INIT_PID>>) => FALSE
      BY DEF isIn
    <3>3. q = <<>>
      BY <2>3, <3>1, <3>2 DEF queuesOK
    <3>4. x = <<INIT_PID>>
      BY <3>1, <3>3 DEF x
    <3>. QED
      BY <1>3, <2>1, <2>3, <3>4
  <2>. QED
    BY <2>2, <2>3
<1>16. queuesOK(st2, rq, sm2)
  BY <1>10, <1>11, <1>12, <1>13, <1>14, <1>15 DEF queuesOK
<1>. QED
  BY <1>7, <1>8, <1>16 DEF st2, sm2, x

\* The hand-over gives the CPU to a process that was READY, or to idle, and
\* nobody's slot is empty there.
LEMMA DispatchKeeps ==
    ASSUME NEW st \in [PIDs -> States], NEW rq \in Seq(PIDs),
           NEW sm \in [SemIds -> Semaphores],
           queuesOK(st, rq, sm), st[IDLE_PID] \in {"READY", "RUNNING"},
           dispatch(st, rq)
    PROVE  /\ queuesOK(state', readyQueue', sm)
           /\ Life(state') = Life(st)
           /\ \A p \in PIDs : state'[p] = "BLOCKED" <=> st[p] = "BLOCKED"
           /\ state'[IDLE_PID] \in {"READY", "RUNNING"}
           /\ currentProcess' \in PIDs /\ state'[currentProcess'] = "RUNNING"
           /\ kernel' = NoLoop
<1> DEFINE next == IF rq = <<>> THEN IDLE_PID ELSE Head(rq)
<1>1. /\ next \in PIDs /\ st[next] \in {"READY", "RUNNING"}
      /\ \A p \in PIDs : isIn(p, afterPoll(rq)) => p # next /\ st[p] = "READY"
      /\ noRepeats(afterPoll(rq))
  <2>1. CASE rq = <<>>
    BY <2>1, PidFacts, EmptyQueue DEF afterPoll
  <2>2. CASE rq # <<>>
    <3>1. /\ Head(rq) \in PIDs /\ isIn(Head(rq), rq)
          /\ \A d : isIn(d, rq) <=> isIn(d, Tail(rq)) \/ d = Head(rq)
          /\ noRepeats(rq) => noRepeats(Tail(rq)) /\ ~isIn(Head(rq), Tail(rq))
      BY <2>2, PollProperties
    <3>. QED
      BY <2>2, <3>1 DEF afterPoll, queuesOK
  <2>. QED
    BY <2>1, <2>2
<1>2. /\ readyQueue' = afterPoll(rq) /\ state' = [st EXCEPT ![next] = "RUNNING"]
      /\ currentProcess' = next /\ kernel' = NoLoop
  BY <1>1 DEF dispatch
<1> HIDE DEF next
<1>3. /\ state'[next] = "RUNNING" /\ state' \in [PIDs -> States]
      /\ \A p \in PIDs : p # next => state'[p] = st[p]
  BY <1>1, <1>2 DEF States
<1>4. \A p \in PIDs : life(state', p) = life(st, p)
  BY <1>1, <1>3 DEF life
<1>5. Life(state') = Life(st)
  BY <1>4 DEF Life
<1>6. \A p \in PIDs : state'[p] = "BLOCKED" <=> st[p] = "BLOCKED"
  BY <1>1, <1>3
<1>7. queuesOK(state', readyQueue', sm)
  <2>1. \A p \in PIDs : isIn(p, readyQueue') => state'[p] = "READY"
    BY <1>1, <1>2, <1>3
  <2>2. life(state', INIT_PID) = "ALIVE"
    BY <1>4, PidFacts DEF queuesOK
  <2>3. noRepeats(readyQueue')
    BY <1>1, <1>2
  <2>4. \A p \in PIDs : \A s \in SemIds : waits(p, sm, s) /\ life(state', p) = "ALIVE" =>
           life(st, p) = "ALIVE" /\ (st[p] = "BLOCKED" => state'[p] = "BLOCKED")
    BY <1>4, <1>6
  <2> DEFINE st2 == state'
             rq2 == readyQueue'
  <2>5. st2 \in [PIDs -> States] /\ life(st2, INIT_PID) = "ALIVE" /\ noRepeats(rq2)
        /\ \A p \in PIDs : isIn(p, rq2) => st2[p] = "READY"
    BY <1>3, <2>1, <2>2, <2>3
  <2>6. \A p \in PIDs : \A s \in SemIds : waits(p, sm, s) /\ life(st2, p) = "ALIVE" =>
           life(st, p) = "ALIVE" /\ (st[p] = "BLOCKED" => st2[p] = "BLOCKED")
    BY <2>4
  <2> HIDE DEF st2, rq2
  <2>7. queuesOK(st2, rq2, sm)
    BY <2>5, <2>6, QueuesKept
  <2>. QED
    BY <2>7 DEF st2, rq2
<1>8. state'[IDLE_PID] \in {"READY", "RUNNING"}
  BY <1>3, PidFacts
<1>. QED
  BY <1>1, <1>2, <1>3, <1>5, <1>6, <1>7, <1>8

\* schedule moves processes between READY and RUNNING only.
LEMMA ScheduleKeeps ==
    ASSUME NEW st \in [PIDs -> States], NEW rq \in Seq(PIDs),
           NEW sm \in [SemIds -> Semaphores],
           currentProcess \in PIDs \cup {NoPid},
           queuesOK(st, rq, sm), st[IDLE_PID] \in {"READY", "RUNNING"},
           schedule(st, rq)
    PROVE  /\ queuesOK(state', readyQueue', sm)
           /\ Life(state') = Life(st)
           /\ \A p \in PIDs : state'[p] = "BLOCKED" <=> st[p] = "BLOCKED"
           /\ state'[IDLE_PID] \in {"READY", "RUNNING"}
           /\ currentProcess' \in PIDs /\ state'[currentProcess'] = "RUNNING"
           /\ kernel' = NoLoop
<1> DEFINE cur == currentProcess
<1>1. CASE cur # NoPid /\ st[cur] = "RUNNING" /\ remainingQuantums[cur] > 0
  <2>1. /\ state' = st /\ readyQueue' = rq /\ kernel' = NoLoop
        /\ currentProcess' = currentProcess
    BY <1>1 DEF schedule
  <2>. QED
    BY <1>1, <2>1
<1>2. CASE cur # NoPid /\ st[cur] = "RUNNING" /\ ~(remainingQuantums[cur] > 0)
  <2> DEFINE st2 == [st EXCEPT ![cur] = "READY"]
             rq2 == Append(rq, cur)
  <2>1. dispatch(st2, rq2)
    BY <1>2 DEF schedule
  <2>2. cur \in PIDs
    BY <1>2
  <2>3. st2 \in [PIDs -> States] /\ rq2 \in Seq(PIDs)
    BY <2>2 DEF States
  <2>4. /\ st2[cur] = "READY" /\ \A p \in PIDs : p # cur => st2[p] = st[p]
    BY <2>2
  <2>5. ~isIn(cur, rq)
    BY <1>2, <2>2 DEF queuesOK
  <2>6. /\ \A d : isIn(d, rq2) <=> isIn(d, rq) \/ d = cur
        /\ noRepeats(rq) => noRepeats(rq2)
    BY <2>2, <2>5, EnqueueProperties
  <2>7. st2[IDLE_PID] \in {"READY", "RUNNING"}
    BY <2>4, PidFacts
  <2> HIDE DEF st2, rq2
  <2>8. \A p \in PIDs : life(st2, p) = life(st, p)
    BY <1>2, <2>4 DEF life
  <2>9. Life(st2) = Life(st) /\ \A p \in PIDs : st2[p] = "BLOCKED" <=> st[p] = "BLOCKED"
    BY <1>2, <2>4, <2>8 DEF Life
  <2>10. queuesOK(st2, rq2, sm)
    <3>1. \A p \in PIDs : isIn(p, rq2) => st2[p] = "READY"
      BY <2>4, <2>6 DEF queuesOK
    <3>2. life(st2, INIT_PID) = "ALIVE" /\ noRepeats(rq2)
      BY <2>6, <2>8, PidFacts DEF queuesOK
    <3>. QED
      BY <2>3, <2>8, <2>9, <3>1, <3>2, QueuesKept
  <2> DEFINE goal(l) ==
           /\ queuesOK(state', readyQueue', sm)
           /\ Life(state') = l
           /\ \A p \in PIDs : state'[p] = "BLOCKED" <=> st2[p] = "BLOCKED"
           /\ state'[IDLE_PID] \in {"READY", "RUNNING"}
           /\ currentProcess' \in PIDs /\ state'[currentProcess'] = "RUNNING"
           /\ kernel' = NoLoop
  <2>11. goal(Life(st2))
    BY <2>1, <2>3, <2>7, <2>10, DispatchKeeps
  <2>. QED
    BY <2>9, <2>11
<1>3. CASE ~(cur # NoPid /\ st[cur] = "RUNNING")
  <2>1. dispatch(st, rq)
    BY <1>3 DEF schedule
  <2>. QED
    BY <2>1, DispatchKeeps
<1>. QED
  BY <1>1, <1>2, <1>3

-----------------------------------------------------------------------------
(* The family tree *)

\* Continuations are told apart by their names and PIDs.
LEMMA ContsDiffer ==
    /\ \A p, q \in PIDs : AfterWaitPid(p) = AfterWaitPid(q) => p = q
    /\ \A p, q \in PIDs : AfterWaitPid(p) \notin {InitUnlinking(q), InitReaping(q), InitClearing(q)}
    /\ \A p \in PIDs : \A op \in {"start", "wait_any", "poll"} :
          InitAt(op) \notin {InitUnlinking(p), InitReaping(p), InitClearing(p), AfterWaitPid(p)}
    /\ \A p \in PIDs : /\ AfterWaitPid(p) \notin {UserCode, IdleCode}
                       /\ InitUnlinking(p) \notin {UserCode, IdleCode}
                       /\ InitReaping(p) \notin {UserCode, IdleCode}
                       /\ InitClearing(p) \notin {UserCode, IdleCode}
    /\ UserCode # IdleCode
    /\ \A op \in {"start", "wait_any", "poll"} : InitAt(op) \notin {UserCode, IdleCode}
    /\ InitAt("start") # InitAt("wait_any") /\ InitAt("start") # InitAt("poll")
    /\ InitAt("wait_any") # InitAt("poll")
  BY DEF InitUnlinking, InitReaping, InitClearing, AfterWaitPid, InitAt, UserCode, IdleCode

\* Whom init has taken, at each of its places.
LEMMA TakenFacts ==
    /\ \A p, q \in PIDs : /\ Taken(p, InitUnlinking(q)) <=> p = q
                          /\ Taken(p, InitReaping(q)) <=> p = q
                          /\ InitReaping(p) = InitReaping(q) <=> p = q
                          /\ InitReaping(p) # InitUnlinking(q)
                          /\ ~Taken(p, InitClearing(q)) /\ InitReaping(p) # InitClearing(q)
    /\ \A p \in PIDs : \A op \in {"start", "wait_any", "poll"} :
          ~Taken(p, InitAt(op)) /\ InitReaping(p) # InitAt(op)
    /\ \A p \in PIDs : \A ic : ic = InitReaping(p) => Taken(p, ic)
  BY DEF Taken, InitUnlinking, InitReaping, InitClearing, InitAt

\* Init's places.
LEMMA PlaceFacts ==
    /\ InitAt("start") \in InitPlaces /\ InitAt("wait_any") \in InitPlaces
    /\ InitAt("poll") \in InitPlaces
    /\ \A p \in PIDs : /\ InitUnlinking(p) \in InitPlaces /\ InitReaping(p) \in InitPlaces
                       /\ InitClearing(p) \in InitPlaces
    /\ UserCode \notin InitPlaces /\ IdleCode \notin InitPlaces
    /\ \A p \in PIDs : AfterWaitPid(p) \notin InitPlaces
    /\ \A c \in InitPlaces :
          /\ c.op \in {"start", "wait_any", "poll"} => c = InitAt(c.op)
          /\ c.op \in {"unlink", "reap", "clear"} => c.pid \in PIDs
          /\ c.op = "unlink" => c = InitUnlinking(c.pid)
          /\ c.op = "reap" => c = InitReaping(c.pid)
          /\ c.op = "clear" => c = InitClearing(c.pid)
<1>1. /\ \A o : InitAt(o).op = o
      /\ \A p : /\ InitUnlinking(p).op = "unlink" /\ InitUnlinking(p).pid = p
                /\ InitReaping(p).op = "reap" /\ InitReaping(p).pid = p
                /\ InitClearing(p).op = "clear" /\ InitClearing(p).pid = p
                /\ AfterWaitPid(p).op = "wait_pid"
      /\ UserCode.op = "user" /\ IdleCode.op = "idle"
  BY DEF InitUnlinking, InitReaping, InitClearing, InitAt, AfterWaitPid, UserCode, IdleCode
<1>2. \A c \in InitPlaces :
         \/ c = InitAt("start") \/ c = InitAt("wait_any") \/ c = InitAt("poll")
         \/ \E p \in PIDs : \/ c = InitUnlinking(p) \/ c = InitReaping(p) \/ c = InitClearing(p)
  BY DEF InitPlaces
<1>3. /\ InitAt("start") \in InitPlaces /\ InitAt("wait_any") \in InitPlaces
      /\ InitAt("poll") \in InitPlaces
      /\ \A p \in PIDs : /\ InitUnlinking(p) \in InitPlaces /\ InitReaping(p) \in InitPlaces
                         /\ InitClearing(p) \in InitPlaces
  BY DEF InitPlaces
<1>4. \A c \in InitPlaces : c.op \in {"start", "wait_any", "poll", "unlink", "reap", "clear"}
  BY <1>1, <1>2
<1>5. UserCode \notin InitPlaces /\ IdleCode \notin InitPlaces
  BY <1>1, <1>4
<1>6. \A p \in PIDs : AfterWaitPid(p) \notin InitPlaces
  BY <1>1, <1>4
<1>7. ASSUME NEW c \in InitPlaces
      PROVE  /\ c.op \in {"start", "wait_any", "poll"} => c = InitAt(c.op)
             /\ c.op \in {"unlink", "reap", "clear"} => c.pid \in PIDs
             /\ c.op = "unlink" => c = InitUnlinking(c.pid)
             /\ c.op = "reap" => c = InitReaping(c.pid)
             /\ c.op = "clear" => c = InitClearing(c.pid)
  <2>1. CASE c = InitAt("start")
    BY <1>1, <2>1
  <2>2. CASE c = InitAt("wait_any")
    BY <1>1, <2>2
  <2>3. CASE c = InitAt("poll")
    BY <1>1, <2>3
  <2>4. ASSUME NEW p \in PIDs, c = InitUnlinking(p)
        PROVE  c.op = "unlink" /\ c.pid = p
    BY <1>1, <2>4
  <2>5. ASSUME NEW p \in PIDs, c = InitReaping(p)
        PROVE  c.op = "reap" /\ c.pid = p
    BY <1>1, <2>5
  <2>6. ASSUME NEW p \in PIDs, c = InitClearing(p)
        PROVE  c.op = "clear" /\ c.pid = p
    BY <1>1, <2>6
  <2>. QED
    BY <1>2, <2>1, <2>2, <2>3, <2>4, <2>5, <2>6
<1>. QED
  BY <1>3, <1>5, <1>6, <1>7

\* Of init's place the tree only sees whom it is about to reap.
LEMMA TreeSeesReaping ==
    ASSUME NEW lf, NEW par, NEW ch, NEW orph, NEW ic, NEW ic2,
           treeOK(lf, par, ch, orph, ic), sameTaken(ic, ic2)
    PROVE  treeOK(lf, par, ch, orph, ic2)
  BY DEF treeOK, Others, sameTaken

\* notifyTermination: q dies, and its children are to be handed over.
LEMMA TreeDeath ==
    ASSUME NEW lf \in Lives, NEW par \in [PIDs -> PIDs], NEW ch \in [PIDs -> Seq(PIDs)],
           NEW ic, NEW q \in Others,
           treeOK(lf, par, ch, NoPid, ic), lf[q] = "ALIVE"
    PROVE  treeOK([lf EXCEPT ![q] = "ZOMBIE"], par, ch, q, ic)
<1> DEFINE lf2 == [lf EXCEPT ![q] = "ZOMBIE"]
<1>1. /\ lf2[q] = "ZOMBIE" /\ \A p \in PIDs : p # q => lf2[p] = lf[p]
      /\ q \in PIDs /\ q # IDLE_PID /\ q # INIT_PID /\ Others \subseteq PIDs
      /\ \A p \in PIDs : par[p] \in PIDs
  BY DEF Others, Lives
<1>2. \A p \in Others : par[p] # NoPid
  BY <1>1, PidFacts
<1> HIDE DEF lf2
<1>. QED
  BY <1>1, <1>2, PidFacts DEF treeOK, lf2

\* transferOrphanChildren moves the first child c of q to init.
handedOver(par, ch, q, c, par2, ch2) ==
    /\ c = Head(ch[q])
    /\ par2 = [par EXCEPT ![c] = INIT_PID]
    /\ ch2 = [[ch EXCEPT ![q] = Tail(@)] EXCEPT ![INIT_PID] = Append(@, c)]

\* One round of transferOrphanChildren: the first child of q goes to init.
LEMMA TreeTransfer ==
    ASSUME NEW lf \in Lives, NEW par \in [PIDs -> PIDs], NEW ch \in [PIDs -> Seq(PIDs)],
           NEW ic, NEW q \in PIDs,
           treeOK(lf, par, ch, q, ic), ch[q] # <<>>,
           NEW c, NEW par2, NEW ch2, handedOver(par, ch, q, c, par2, ch2)
    PROVE  /\ c \in Others /\ lf[c] # "FREE" /\ par[c] = q
           /\ q # INIT_PID /\ ~Taken(c, ic)
           /\ treeOK(lf, par2, ch2, q, ic)
<1> DEFINE t == Tail(ch[q])
           u == Append(ch[INIT_PID], c)
<1>h. /\ c = Head(ch[q]) /\ par2 = [par EXCEPT ![c] = INIT_PID]
      /\ ch2 = [[ch EXCEPT ![q] = Tail(@)] EXCEPT ![INIT_PID] = Append(@, c)]
  BY DEF handedOver
<1>0. INIT_PID \in PIDs /\ IDLE_PID \in PIDs /\ NoPid \notin PIDs
  BY PidFacts
<1>1. /\ c \in PIDs /\ isIn(c, ch[q]) /\ t \in Seq(PIDs)
      /\ \A d : isIn(d, ch[q]) <=> isIn(d, t) \/ d = c
      /\ noRepeats(ch[q]) => noRepeats(t) /\ ~isIn(c, t)
  BY <1>h, PollProperties
<1>2. /\ c \in Others /\ lf[c] # "FREE" /\ par[c] = q /\ q # INIT_PID /\ q # NoPid
      /\ lf[q] = "ZOMBIE" /\ c # INIT_PID /\ c # IDLE_PID
  BY <1>0, <1>1 DEF treeOK, Others
<1>3. ~isIn(c, ch[INIT_PID])
  BY <1>0, <1>1, <1>2 DEF treeOK
<1>4. /\ \A d : isIn(d, u) <=> isIn(d, ch[INIT_PID]) \/ d = c
      /\ noRepeats(ch[INIT_PID]) => noRepeats(u)
  BY <1>0, <1>1, <1>3, EnqueueProperties
<1>5. /\ ch2[q] = t /\ ch2[INIT_PID] = u
      /\ \A p \in PIDs : p # q /\ p # INIT_PID => ch2[p] = ch[p]
  BY <1>0, <1>2, <1>h
<1>6. par2[c] = INIT_PID /\ \A p \in PIDs : p # c => par2[p] = par[p]
  BY <1>0, <1>1, <1>h
<1> HIDE DEF t, u
<1>7. ~Taken(c, ic) /\ ic # InitReaping(c)
  BY <1>1, <1>2, TakenFacts DEF treeOK
<1>8. \A p, x \in PIDs : isIn(p, ch2[x]) =>
         \/ p = c /\ x = INIT_PID
         \/ p # c /\ isIn(p, ch[x])
  <2>1. noRepeats(ch[q])
    BY DEF treeOK
  <2>2. \A x \in PIDs : isIn(c, ch[x]) => x = q
    BY <1>1, <1>2 DEF treeOK
  <2>. QED
    BY <1>0, <1>1, <1>2, <1>3, <1>4, <1>5, <2>1, <2>2
<1>9. \A p, x \in PIDs : isIn(p, ch[x]) /\ p # c => isIn(p, ch2[x])
  BY <1>0, <1>1, <1>2, <1>4, <1>5
<1>10. isIn(c, ch2[INIT_PID])
  BY <1>4, <1>5
<1>11. \A x \in PIDs : noRepeats(ch2[x])
  BY <1>0, <1>1, <1>4, <1>5 DEF treeOK
<1>12. \A p, x \in PIDs : isIn(p, ch2[x]) => p \in Others /\ lf[p] # "FREE" /\ par2[p] = x
  BY <1>1, <1>2, <1>6, <1>8 DEF treeOK
<1>13. \A p \in PIDs :
          /\ Taken(p, ic) => p \in Others /\ lf[p] = "ZOMBIE" /\ par2[p] = INIT_PID
          /\ ic = InitReaping(p) => ~isIn(p, ch2[INIT_PID])
  BY <1>0, <1>6, <1>7, <1>8 DEF treeOK
<1>14. \A p \in Others : lf[p] # "FREE" =>
          /\ lf[par2[p]] = "ALIVE" \/ par2[p] = q
          /\ isIn(p, ch2[par2[p]]) \/ ic = InitReaping(p)
  <2>1. \A p \in Others : p \in PIDs /\ par[p] \in PIDs
    BY DEF Others
  <2>2. \A p \in Others : lf[p] # "FREE" =>
           /\ lf[par[p]] = "ALIVE" \/ par[p] = q
           /\ isIn(p, ch[par[p]]) \/ ic = InitReaping(p)
    BY DEF treeOK
  <2>3. lf[INIT_PID] = "ALIVE"
    BY DEF treeOK
  <2>4. ASSUME NEW p \in Others, lf[p] # "FREE"
        PROVE  /\ lf[par2[p]] = "ALIVE" \/ par2[p] = q
               /\ isIn(p, ch2[par2[p]]) \/ ic = InitReaping(p)
    <3>1. CASE p = c
      BY <1>6, <1>10, <2>3, <3>1
    <3>2. CASE p # c
      BY <1>6, <1>9, <2>1, <2>2, <2>4, <3>2
    <3>. QED
      BY <3>1, <3>2
  <2>. QED
    BY <2>4
<1>15. treeOK(lf, par2, ch2, q, ic)
  BY <1>0, <1>2, <1>6, <1>11, <1>12, <1>13, <1>14 DEF treeOK
<1>. QED
  BY <1>2, <1>7, <1>15

\* Nobody has q for a parent.
childless(lf, par, q) == \A p \in Others : lf[p] # "FREE" => par[p] # q

\* The end of transferOrphanChildren: q has nobody left.
LEMMA TreeSettled ==
    ASSUME NEW lf \in Lives, NEW par \in [PIDs -> PIDs], NEW ch \in [PIDs -> Seq(PIDs)],
           NEW ic, NEW q \in PIDs,
           treeOK(lf, par, ch, q, ic), ch[q] = <<>>
    PROVE  /\ treeOK(lf, par, ch, NoPid, ic)
           /\ childless(lf, par, q)
<1>0. INIT_PID \in PIDs /\ NoPid \notin PIDs /\ Others \subseteq PIDs
  BY PidFacts DEF Others
<1>1. q # INIT_PID
  BY <1>0 DEF treeOK
<1>2. \A p \in Others : lf[p] # "FREE" => par[p] # q
  <2>1. SUFFICES ASSUME NEW p \in Others, lf[p] # "FREE", par[p] = q
                 PROVE  FALSE
    OBVIOUS
  <2>2. ~isIn(p, ch[q])
    BY <1>0, EmptyQueue
  <2>3. ic = InitReaping(p)
    BY <2>1, <2>2 DEF treeOK
  <2>4. par[p] = INIT_PID
    BY <1>0, <2>3, TakenFacts DEF treeOK, Taken
  <2>. QED
    BY <1>1, <2>1, <2>4
<1>. QED
  BY <1>0, <1>2 DEF treeOK, childless

\* startNewProcess: p becomes a child of m.
LEMMA TreeBirth ==
    ASSUME NEW lf \in Lives, NEW par \in [PIDs -> PIDs], NEW ch \in [PIDs -> Seq(PIDs)],
           NEW ic, NEW p \in PIDs, NEW m \in PIDs,
           treeOK(lf, par, ch, NoPid, ic), lf[p] = "FREE", lf[m] = "ALIVE"
    PROVE  treeOK([lf EXCEPT ![p] = "ALIVE"], [par EXCEPT ![p] = m],
                  [ch EXCEPT ![p] = <<>>, ![m] = Append(@, p)], NoPid, ic)
<1> DEFINE u == Append(ch[m], p)
           lf2 == [lf EXCEPT ![p] = "ALIVE"]
           par2 == [par EXCEPT ![p] = m]
           ch2 == [ch EXCEPT ![p] = <<>>, ![m] = Append(@, p)]
<1>0. INIT_PID \in PIDs /\ IDLE_PID \in PIDs /\ NoPid \notin PIDs /\ Others \subseteq PIDs
  BY PidFacts DEF Others
<1>1. p # m /\ p \in Others /\ p # INIT_PID /\ p # IDLE_PID
  BY DEF treeOK, Others
<1>2. ~isIn(p, ch[m]) /\ \A x \in PIDs : ~isIn(p, ch[x])
  BY DEF treeOK
<1>3. /\ \A d : isIn(d, u) <=> isIn(d, ch[m]) \/ d = p
      /\ noRepeats(ch[m]) => noRepeats(u)
  BY <1>2, EnqueueProperties
<1>4. /\ ch2[p] = <<>> /\ ch2[m] = u
      /\ \A x \in PIDs : x # p /\ x # m => ch2[x] = ch[x]
      /\ par2[p] = m /\ \A x \in PIDs : x # p => par2[x] = par[x]
      /\ lf2[p] = "ALIVE" /\ \A x \in PIDs : x # p => lf2[x] = lf[x]
  BY <1>1 DEF Lives
<1> HIDE DEF u, lf2, par2, ch2
<1>5. \A x, y \in PIDs : isIn(x, ch2[y]) => (x = p /\ y = m) \/ (x # p /\ isIn(x, ch[y]))
  BY <1>1, <1>2, <1>3, <1>4, EmptyQueue, ZenonT(30)
<1>6. \A x \in PIDs : \A y \in PIDs : y # p /\ isIn(x, ch[y]) => isIn(x, ch2[y])
  BY <1>3, <1>4
<1>7. \A x \in PIDs : noRepeats(ch2[x])
  BY <1>3, <1>4, EmptyQueue, ZenonT(30) DEF treeOK
<1>8. \A x, y \in PIDs : isIn(x, ch2[y]) => x \in Others /\ lf2[x] # "FREE" /\ par2[x] = y
  BY <1>1, <1>4, <1>5 DEF treeOK
<1>9. \A x \in PIDs :
         /\ Taken(x, ic) => x \in Others /\ lf2[x] = "ZOMBIE" /\ par2[x] = INIT_PID
         /\ ic = InitReaping(x) => ~isIn(x, ch2[INIT_PID])
  <2>1. \A x \in PIDs : Taken(x, ic) => x # p
    BY DEF treeOK
  <2>2. \A x \in PIDs : ic = InitReaping(x) => x # p
    BY <2>1, TakenFacts
  <2>. QED
    BY <1>0, <1>4, <1>5, <2>1, <2>2 DEF treeOK
<1>10. \A x \in Others : lf2[x] # "FREE" =>
         /\ lf2[par2[x]] = "ALIVE" \/ par2[x] = NoPid
         /\ isIn(x, ch2[par2[x]]) \/ ic = InitReaping(x)
  <2>1. \A x \in Others : x # p /\ lf[x] # "FREE" => par[x] \in PIDs /\ par[x] # p
    BY <1>0 DEF treeOK
  <2>2. isIn(p, ch2[m])
    BY <1>3, <1>4
  <2>3. \A x \in Others : lf[x] # "FREE" =>
           /\ lf[par[x]] = "ALIVE" \/ par[x] = NoPid
           /\ isIn(x, ch[par[x]]) \/ ic = InitReaping(x)
    BY DEF treeOK
  <2>4. ASSUME NEW x \in Others, lf2[x] # "FREE"
        PROVE  /\ lf2[par2[x]] = "ALIVE" \/ par2[x] = NoPid
               /\ isIn(x, ch2[par2[x]]) \/ ic = InitReaping(x)
    <3>1. CASE x = p
      BY <1>1, <1>4, <2>2, <3>1
    <3>2. CASE x # p
      BY <1>0, <1>4, <1>6, <2>1, <2>3, <2>4, <3>2, ZenonT(30)
    <3>. QED
      BY <3>1, <3>2
  <2>. QED
    BY <2>4
<1>11. treeOK(lf2, par2, ch2, NoPid, ic)
  BY <1>0, <1>1, <1>4, <1>7, <1>8, <1>9, <1>10 DEF treeOK
<1>. QED
  BY <1>11 DEF lf2, par2, ch2

\* reapProcess: the slot of the zombie c is freed, and c leaves every list.
LEMMA TreeReap ==
    ASSUME NEW lf \in Lives, NEW par \in [PIDs -> PIDs], NEW ch, NEW ch2, NEW ic, NEW ic2,
           NEW c \in PIDs,
           treeOK(lf, par, ch, NoPid, ic), lf[c] = "ZOMBIE",
           \A x, y \in PIDs : isIn(x, ch2[y]) <=> isIn(x, ch[y]) /\ x # c /\ y # c,
           \A y \in PIDs : noRepeats(ch2[y]),
           \A x \in PIDs : /\ Taken(x, ic2) <=> Taken(x, ic) /\ x # c
                           /\ ic2 = InitReaping(x) <=> ic = InitReaping(x) /\ x # c
    PROVE  treeOK([lf EXCEPT ![c] = "FREE"], [par EXCEPT ![c] = INIT_PID], ch2, NoPid, ic2)
<1> DEFINE lf2 == [lf EXCEPT ![c] = "FREE"]
           par2 == [par EXCEPT ![c] = INIT_PID]
<1>0. INIT_PID \in PIDs /\ IDLE_PID \in PIDs /\ NoPid \notin PIDs /\ Others \subseteq PIDs
  BY PidFacts DEF Others
<1>1. c # INIT_PID /\ c # IDLE_PID
  BY DEF treeOK
<1>2. /\ par2[c] = INIT_PID /\ \A x \in PIDs : x # c => par2[x] = par[x] /\ par[x] \in PIDs
      /\ lf2[c] = "FREE" /\ \A x \in PIDs : x # c => lf2[x] = lf[x]
  BY DEF Lives
<1> HIDE DEF lf2, par2
<1>3. \A x \in Others : lf[x] # "FREE" =>
         /\ lf[par[x]] = "ALIVE"
         /\ isIn(x, ch[par[x]]) \/ ic = InitReaping(x)
  BY <1>0, <1>2 DEF treeOK
<1>4. \A x \in Others : lf2[x] # "FREE" =>
         /\ lf2[par2[x]] = "ALIVE" \/ par2[x] = NoPid
         /\ isIn(x, ch2[par2[x]]) \/ ic2 = InitReaping(x)
  <2> SUFFICES ASSUME NEW x \in Others, lf2[x] # "FREE"
               PROVE  /\ lf2[par2[x]] = "ALIVE"
                      /\ isIn(x, ch2[par2[x]]) \/ ic2 = InitReaping(x)
    OBVIOUS
  <2>1. x # c /\ x \in PIDs /\ par2[x] = par[x] /\ par[x] \in PIDs /\ lf[x] # "FREE"
    BY <1>0, <1>2
  <2>2. lf[par[x]] = "ALIVE" /\ par[x] # c
    BY <1>3, <2>1
  <2>. QED
    BY <1>2, <1>3, <2>1, <2>2
<1>5. \A x, y \in PIDs : isIn(x, ch2[y]) => x \in Others /\ lf2[x] # "FREE" /\ par2[x] = y
  BY <1>2 DEF treeOK
<1>6. \A x \in PIDs :
         /\ Taken(x, ic2) => x \in Others /\ lf2[x] = "ZOMBIE" /\ par2[x] = INIT_PID
         /\ ic2 = InitReaping(x) => ~isIn(x, ch2[INIT_PID])
  BY <1>0, <1>2 DEF treeOK
<1>7. /\ lf2[IDLE_PID] = "ALIVE" /\ lf2[INIT_PID] = "ALIVE"
      /\ par2[IDLE_PID] = INIT_PID /\ par2[INIT_PID] = INIT_PID
  BY <1>0, <1>1, <1>2 DEF treeOK
<1>8. treeOK(lf2, par2, ch2, NoPid, ic2)
  BY <1>4, <1>5, <1>6, <1>7 DEF treeOK
<1>. QED
  BY <1>8 DEF lf2, par2

\* wait_any after its wait: init takes the zombie c ...
LEMMA TreePoll ==
    ASSUME NEW lf, NEW par, NEW ch, NEW ic, NEW c \in PIDs,
           treeOK(lf, par, ch, NoPid, ic), lf[c] = "ZOMBIE", par[c] = INIT_PID,
           \A x \in PIDs : ~Taken(x, ic)
    PROVE  treeOK(lf, par, ch, NoPid, InitUnlinking(c))
<1>1. c \in Others
  BY DEF treeOK, Others
<1>2. \A x \in PIDs : ic # InitReaping(x)
  BY TakenFacts
<1>3. Others \subseteq PIDs
  BY DEF Others
<1>. QED
  BY <1>1, <1>2, <1>3, TakenFacts DEF treeOK

\* ... and out of the list of its children.
LEMMA TreeUnlink ==
    ASSUME NEW lf \in Lives, NEW par \in [PIDs -> PIDs], NEW ch, NEW ch2, NEW c \in PIDs,
           treeOK(lf, par, ch, NoPid, InitUnlinking(c)),
           \A x, y \in PIDs : isIn(x, ch2[y]) <=> isIn(x, ch[y]) /\ ~(x = c /\ y = INIT_PID),
           \A y \in PIDs : noRepeats(ch2[y])
    PROVE  treeOK(lf, par, ch2, NoPid, InitReaping(c))
<1>0. INIT_PID \in PIDs /\ IDLE_PID \in PIDs /\ NoPid \notin PIDs /\ Others \subseteq PIDs
  BY PidFacts DEF Others
<1>1. \A x \in Others : lf[x] # "FREE" =>
         /\ lf[par[x]] = "ALIVE" /\ par[x] \in PIDs
         /\ isIn(x, ch[par[x]])
  BY <1>0, TakenFacts DEF treeOK
<1>2. \A x \in Others : lf[x] # "FREE" =>
         isIn(x, ch2[par[x]]) \/ InitReaping(c) = InitReaping(x)
  BY <1>0, <1>1
<1>3. \A x, y \in PIDs : isIn(x, ch2[y]) => x \in Others /\ lf[x] # "FREE" /\ par[x] = y
  BY DEF treeOK
<1>4. \A x \in PIDs :
         /\ Taken(x, InitReaping(c)) => x \in Others /\ lf[x] = "ZOMBIE" /\ par[x] = INIT_PID
         /\ InitReaping(c) = InitReaping(x) => ~isIn(x, ch2[INIT_PID])
  BY <1>0, TakenFacts DEF treeOK
<1>. QED
  BY <1>1, <1>2, <1>3, <1>4 DEF treeOK

-----------------------------------------------------------------------------
(* Zombies and the tokens of childTerminated *)

\* How many entries the parent m has taken the token of and not yet polled.
owed(m, ic) == IF m = INIT_PID /\ ic = InitAt("poll") THEN 1 ELSE 0

\* Of init's place zombiesOK sees whom it is about to reap or poll.
LEMMA ZombiesSeeReaping ==
    ASSUME NEW lf, NEW par, NEW tc, NEW tok, NEW orph, NEW ic, NEW ic2,
           zombiesOK(lf, par, tc, tok, orph, ic), sameTaken(ic, ic2),
           ic2 = InitAt("poll") <=> ic = InitAt("poll")
    PROVE  zombiesOK(lf, par, tc, tok, orph, ic2)
  BY DEF zombiesOK, sameTaken

\* notifyTermination of q: its parent gets an entry and a token.
LEMMA ZombiesDeath ==
    ASSUME NEW lf \in Lives, NEW par \in [PIDs -> PIDs], NEW tc \in [PIDs -> Seq(PIDs)],
           NEW tok \in [PIDs -> Int], NEW tok2 \in [PIDs -> Int], NEW ic, NEW q \in PIDs,
           zombiesOK(lf, par, tc, tok, NoPid, ic), lf[q] = "ALIVE",
           \A p \in PIDs : Taken(p, ic) => lf[p] = "ZOMBIE",
           tok2[par[q]] = tok[par[q]] + 1,
           \A p \in PIDs : p # par[q] => tok2[p] = tok[p]
    PROVE  zombiesOK([lf EXCEPT ![q] = "ZOMBIE"], par,
                     [tc EXCEPT ![par[q]] = Append(@, q)], tok2, q, ic)
<1> DEFINE m == par[q]
           lf2 == [lf EXCEPT ![q] = "ZOMBIE"]
           u == Append(tc[m], q)
           tc2 == [tc EXCEPT ![m] = u]
<1>0. m \in PIDs /\ NoPid \notin PIDs /\ \A p \in PIDs : par[p] \in PIDs /\ Len(tc[p]) \in Nat
  BY PidFacts
<1>1. /\ lf2[q] = "ZOMBIE" /\ \A p \in PIDs : p # q => lf2[p] = lf[p]
      /\ tc2[m] = u /\ \A p \in PIDs : p # m => tc2[p] = tc[p]
  BY <1>0 DEF Lives
<1>2. /\ \A d : isIn(d, u) <=> isIn(d, tc[m]) \/ d = q
      /\ noRepeats(tc[m]) /\ ~isIn(q, tc[m]) => noRepeats(u)
      /\ Len(u) = Len(tc[m]) + 1
  BY <1>0, EnqueueProperties
<1>m. tok2[m] = tok[m] + 1 /\ par[q] = m /\ \A p \in PIDs : p # m => tok2[p] = tok[p]
  OBVIOUS
<1> HIDE DEF m, lf2, u, tc2
<1>3. ASSUME NEW p \in PIDs, lf2[p] = "ZOMBIE"
      PROVE  isIn(p, tc2[par[p]]) \/ Taken(p, ic) \/ par[p] = q
  <2>1. CASE p = q
    BY <1>1, <1>2, <1>m, <2>1
  <2>2. CASE p # q
    <3>0. lf[p] = "ZOMBIE" /\ par[p] # NoPid
      BY <1>0, <1>1, <1>3, <2>2
    <3>1. isIn(p, tc[par[p]]) \/ Taken(p, ic)
      BY <3>0 DEF zombiesOK
    <3>. QED
      BY <1>0, <1>1, <1>2, <3>1
  <2>. QED
    BY <2>1, <2>2
<1>4. ASSUME NEW p \in PIDs, lf2[p] = "ALIVE"
      PROVE  /\ noRepeats(tc2[p])
             /\ \A x \in PIDs : isIn(x, tc2[p]) => lf2[x] = "ZOMBIE" /\ par[x] = p
             /\ Len(tc2[p]) = tok2[p] + owed(p, ic)
  <2>1. p # q /\ lf[p] = "ALIVE"
    BY <1>1, <1>4
  <2>2. /\ noRepeats(tc[p])
        /\ \A x \in PIDs : isIn(x, tc[p]) => lf[x] = "ZOMBIE" /\ par[x] = p
        /\ Len(tc[p]) = tok[p] + owed(p, ic)
    BY <2>1 DEF zombiesOK, owed
  <2>3. CASE p = m
    <3>1. ~isIn(q, tc[m])
      BY <2>2, <2>3
    <3>2. Len(tc2[p]) = tok2[p] + owed(p, ic)
      <4>1. owed(p, ic) \in Int /\ tok[p] \in Int
        BY DEF owed
      <4>. QED
        BY <1>1, <1>2, <1>m, <2>2, <2>3, <4>1
    <3>. QED
      BY <1>1, <1>2, <1>m, <2>2, <2>3, <3>1, <3>2
  <2>4. CASE p # m
    BY <1>1, <1>m, <2>2, <2>4
  <2>. QED
    BY <2>3, <2>4
<1>5. \A p \in PIDs : Taken(p, ic) => ~isIn(p, tc2[INIT_PID])
  BY <1>1, <1>2, PidFacts DEF zombiesOK
<1>6. zombiesOK(lf2, par, tc2, tok2, q, ic)
  BY <1>3, <1>4, <1>5 DEF zombiesOK, owed
<1>. QED
  BY <1>6 DEF lf2, u, tc2, m

\* One round of transferOrphanChildren: c goes to init, which is told if c is
\* a zombie.
LEMMA ZombiesTransfer ==
    ASSUME NEW lf \in Lives, NEW par \in [PIDs -> PIDs], NEW tc \in [PIDs -> Seq(PIDs)],
           NEW tc2, NEW tok \in [PIDs -> Int], NEW tok2 \in [PIDs -> Int],
           NEW ic, NEW q \in PIDs, NEW c \in PIDs,
           zombiesOK(lf, par, tc, tok, q, ic), par[c] = q, q # INIT_PID,
           lf[q] = "ZOMBIE", lf[INIT_PID] = "ALIVE", ~Taken(c, ic),
           \/ /\ lf[c] = "ZOMBIE"
              /\ tc2 = [tc EXCEPT ![INIT_PID] = Append(@, c)]
              /\ tok2[INIT_PID] = tok[INIT_PID] + 1
              /\ \A p \in PIDs : p # INIT_PID => tok2[p] = tok[p]
           \/ lf[c] # "ZOMBIE" /\ tc2 = tc /\ tok2 = tok
    PROVE  zombiesOK(lf, [par EXCEPT ![c] = INIT_PID], tc2, tok2, q, ic)
<1> DEFINE par2 == [par EXCEPT ![c] = INIT_PID]
<1>0. INIT_PID \in PIDs /\ NoPid \notin PIDs /\ \A p \in PIDs : par[p] \in PIDs /\ Len(tc[p]) \in Nat
  BY PidFacts
<1>1. par2[c] = INIT_PID /\ \A p \in PIDs : p # c => par2[p] = par[p]
  OBVIOUS
<1>2. ~isIn(c, tc[INIT_PID])
  BY <1>0 DEF zombiesOK
<1> HIDE DEF par2
<1>3. CASE lf[c] # "ZOMBIE" /\ tc2 = tc /\ tok2 = tok
  <2>1. \A p \in PIDs : lf[p] = "ZOMBIE" => p # c
    BY <1>3
  <2>. QED
    BY <1>1, <1>3, <2>1 DEF zombiesOK, par2
<1>4. CASE /\ lf[c] = "ZOMBIE"
           /\ tc2 = [tc EXCEPT ![INIT_PID] = Append(@, c)]
           /\ tok2[INIT_PID] = tok[INIT_PID] + 1
           /\ \A p \in PIDs : p # INIT_PID => tok2[p] = tok[p]
  <2> DEFINE u == Append(tc[INIT_PID], c)
  <2>1. tc2[INIT_PID] = u /\ \A p \in PIDs : p # INIT_PID => tc2[p] = tc[p]
    BY <1>0, <1>4
  <2>2. /\ \A d : isIn(d, u) <=> isIn(d, tc[INIT_PID]) \/ d = c
        /\ noRepeats(tc[INIT_PID]) => noRepeats(u)
        /\ Len(u) = Len(tc[INIT_PID]) + 1
    BY <1>0, <1>2, EnqueueProperties, ZenonT(30)
  <2> HIDE DEF u
  <2>3. ASSUME NEW p \in PIDs, lf[p] = "ZOMBIE"
        PROVE  isIn(p, tc2[par2[p]]) \/ Taken(p, ic) \/ par2[p] = q
    <3>1. CASE p = c
      BY <1>1, <2>1, <2>2, <3>1
    <3>2. CASE p # c
      <4>1. isIn(p, tc[par[p]]) \/ Taken(p, ic) \/ par[p] = q
        BY <2>3 DEF zombiesOK
      <4>2. \A x \in PIDs : isIn(p, tc[x]) => isIn(p, tc2[x])
        BY <2>1, <2>2
      <4>3. par2[p] = par[p] /\ par[p] \in PIDs
        BY <1>0, <1>1, <3>2
      <4>. QED
        BY <4>1, <4>2, <4>3
    <3>. QED
      BY <3>1, <3>2
  <2>4. ASSUME NEW p \in PIDs, lf[p] = "ALIVE"
        PROVE  /\ noRepeats(tc2[p])
               /\ \A x \in PIDs : isIn(x, tc2[p]) => lf[x] = "ZOMBIE" /\ par2[x] = p
               /\ Len(tc2[p]) = tok2[p] + owed(p, ic)
    <3>1. /\ noRepeats(tc[p])
          /\ \A x \in PIDs : isIn(x, tc[p]) => lf[x] = "ZOMBIE" /\ par[x] = p
          /\ Len(tc[p]) = tok[p] + owed(p, ic)
      BY <2>4 DEF zombiesOK, owed
    <3>2. CASE p = INIT_PID
      <4>1. Len(tc2[p]) = tok2[p] + owed(p, ic)
        <5>1. owed(p, ic) \in Int /\ tok[p] \in Int
          BY DEF owed
        <5>. QED
          BY <1>4, <2>1, <2>2, <3>1, <3>2, <5>1, SMTT(30)
      <4>2. ASSUME NEW x \in PIDs, isIn(x, tc2[p]) PROVE lf[x] = "ZOMBIE" /\ par2[x] = p
        <5>1. isIn(x, tc[p]) \/ x = c
          BY <2>1, <2>2, <3>2, <4>2
        <5>2. isIn(x, tc[p]) => x # c
          BY <1>2, <3>2
        <5>. QED
          BY <1>1, <1>4, <3>1, <3>2, <5>1, <5>2
      <4>3. noRepeats(tc2[p])
        BY <2>1, <2>2, <3>1, <3>2
      <4>. QED
        BY <4>1, <4>2, <4>3
    <3>3. CASE p # INIT_PID
      <4>1. ~isIn(c, tc[p])
        BY <2>4, <3>1
      <4>. QED
        BY <1>1, <1>4, <2>1, <3>1, <3>3, <4>1, SMTT(30)
    <3>. QED
      BY <3>2, <3>3
  <2>5. \A p \in PIDs : Taken(p, ic) => ~isIn(p, tc2[INIT_PID])
    BY <2>1, <2>2 DEF zombiesOK
  <2>6. zombiesOK(lf, par2, tc2, tok2, q, ic)
    BY <2>3, <2>4, <2>5 DEF zombiesOK, owed
  <2>. QED
    BY <2>6 DEF par2
<1>. QED
  BY <1>3, <1>4

\* The end of transferOrphanChildren: no zombie waits to be handed over.
LEMMA ZombiesSettled ==
    ASSUME NEW lf, NEW par, NEW tc, NEW tok, NEW ic, NEW q \in PIDs,
           zombiesOK(lf, par, tc, tok, q, ic),
           \A p \in PIDs : lf[p] = "ZOMBIE" => par[p] # q
    PROVE  zombiesOK(lf, par, tc, tok, NoPid, ic)
  BY DEF zombiesOK

\* startNewProcess: p has no dead children.
LEMMA ZombiesBirth ==
    ASSUME NEW lf \in Lives, NEW par \in [PIDs -> PIDs], NEW tc \in [PIDs -> Seq(PIDs)],
           NEW tok \in [PIDs -> Int], NEW tok2, NEW ic, NEW p \in PIDs, NEW m \in PIDs,
           zombiesOK(lf, par, tc, tok, NoPid, ic), lf[p] = "FREE", p # INIT_PID,
           \A x \in PIDs : lf[x] = "ZOMBIE" => lf[par[x]] # "FREE",
           tok2[p] = 0, \A x \in PIDs : x # p => tok2[x] = tok[x]
    PROVE  zombiesOK([lf EXCEPT ![p] = "ALIVE"], [par EXCEPT ![p] = m],
                     [tc EXCEPT ![p] = <<>>], tok2, NoPid, ic)
<1> DEFINE lf2 == [lf EXCEPT ![p] = "ALIVE"]
           par2 == [par EXCEPT ![p] = m]
           tc2 == [tc EXCEPT ![p] = <<>>]
<1>1. /\ lf2[p] = "ALIVE" /\ \A x \in PIDs : x # p => lf2[x] = lf[x]
      /\ par2[p] = m /\ \A x \in PIDs : x # p => par2[x] = par[x]
      /\ tc2[p] = <<>> /\ \A x \in PIDs : x # p => tc2[x] = tc[x]
      /\ \A x \in PIDs : par[x] \in PIDs
  BY DEF Lives
<1> HIDE DEF lf2, par2, tc2
<1>2. ASSUME NEW x \in PIDs, lf2[x] = "ZOMBIE"
      PROVE  isIn(x, tc2[par2[x]]) \/ Taken(x, ic) \/ par2[x] = NoPid
  <2>1. x # p /\ lf[x] = "ZOMBIE" /\ par2[x] = par[x] /\ par[x] \in PIDs
    BY <1>1, <1>2
  <2>2. par[x] # p
    BY <2>1
  <2>. QED
    BY <1>1, <2>1, <2>2 DEF zombiesOK
<1>3. ASSUME NEW q \in PIDs, lf2[q] = "ALIVE"
      PROVE  /\ noRepeats(tc2[q])
             /\ \A x \in PIDs : isIn(x, tc2[q]) => lf2[x] = "ZOMBIE" /\ par2[x] = q
             /\ Len(tc2[q]) = tok2[q] + owed(q, ic)
  <2>1. CASE q = p
    <3>1. owed(q, ic) = 0 /\ 0 + 0 = 0
      BY <2>1 DEF owed
    <3>. QED
      BY <1>1, <2>1, <3>1, EmptyQueue
  <2>2. CASE q # p
    <3>1. /\ noRepeats(tc[q])
          /\ \A x \in PIDs : isIn(x, tc[q]) => lf[x] = "ZOMBIE" /\ par[x] = q
          /\ Len(tc[q]) = tok[q] + owed(q, ic)
      <4>1. lf[q] = "ALIVE"
        BY <1>1, <1>3, <2>2
      <4>. QED
        BY <4>1, ZenonT(60) DEF zombiesOK, owed
    <3>. QED
      BY <1>1, <2>2, <3>1, ZenonT(30)
  <2>. QED
    BY <2>1, <2>2
<1>4. \A x \in PIDs : Taken(x, ic) => ~isIn(x, tc2[INIT_PID])
  BY <1>1, PidFacts DEF zombiesOK
<1>5. zombiesOK(lf2, par2, tc2, tok2, NoPid, ic)
  BY <1>2, <1>3, <1>4 DEF zombiesOK, owed
<1>. QED
  BY <1>5 DEF lf2, par2, tc2

\* t is the queue q without its one entry c.
taken(c, q, t) ==
    /\ \A d \in PIDs : isIn(d, t) <=> isIn(d, q) /\ d # c
    /\ noRepeats(t)
    /\ Len(t) = Len(q) - 1

\* m has spent one token, and nobody else but c has another number of them.
spent(m, c, tok, tok2) ==
    /\ tok2[m] = tok[m] - 1
    /\ \A x \in PIDs : x # m /\ x # c => tok2[x] = tok[x]

\* reapProcess of the zombie c, out of the list t of its parent m with the
\* token that was its.
LEMMA ZombiesReap ==
    ASSUME NEW lf \in Lives, NEW par \in [PIDs -> PIDs], NEW tc \in [PIDs -> Seq(PIDs)],
           NEW tok \in [PIDs -> Int], NEW tok2, NEW ic, NEW c \in PIDs, NEW m \in PIDs, NEW t,
           zombiesOK(lf, par, tc, tok, NoPid, ic), lf[c] = "ZOMBIE", par[c] = m, lf[m] = "ALIVE",
           m # INIT_PID,
           \A x \in PIDs : lf[x] = "ZOMBIE" => lf[par[x]] = "ALIVE",
           taken(c, tc[m], t), spent(m, c, tok, tok2)
    PROVE  zombiesOK([lf EXCEPT ![c] = "FREE"], [par EXCEPT ![c] = INIT_PID],
                     [[tc EXCEPT ![m] = t] EXCEPT ![c] = <<>>], tok2, NoPid, ic)
<1> USE DEF taken, spent
<1> DEFINE lf2 == [lf EXCEPT ![c] = "FREE"]
           par2 == [par EXCEPT ![c] = INIT_PID]
           tc2 == [[tc EXCEPT ![m] = t] EXCEPT ![c] = <<>>]
<1>0. m # c
  OBVIOUS
<1>1. /\ lf2[c] = "FREE" /\ \A x \in PIDs : x # c => lf2[x] = lf[x]
      /\ par2[c] = INIT_PID /\ \A x \in PIDs : x # c => par2[x] = par[x]
      /\ tc2[c] = <<>> /\ tc2[m] = t /\ \A x \in PIDs : x # c /\ x # m => tc2[x] = tc[x]
      /\ \A x \in PIDs : par[x] \in PIDs
      /\ INIT_PID \in PIDs /\ NoPid \notin PIDs
  BY <1>0, PidFacts DEF Lives
<1> HIDE DEF lf2, par2, tc2
<1>2. ASSUME NEW x \in PIDs, lf2[x] = "ZOMBIE"
      PROVE  isIn(x, tc2[par2[x]]) \/ Taken(x, ic) \/ par2[x] = NoPid
  <2>1. x # c /\ lf[x] = "ZOMBIE" /\ par2[x] = par[x] /\ par[x] \in PIDs /\ par[x] # NoPid
    BY <1>1, <1>2
  <2>2. par[x] # c
    BY <2>1
  <2>3. isIn(x, tc[par[x]]) \/ Taken(x, ic)
    BY <2>1 DEF zombiesOK
  <2>4. \A y \in PIDs : y # c /\ isIn(x, tc[y]) => isIn(x, tc2[y])
    BY <1>1, <2>1
  <2>. QED
    BY <2>1, <2>2, <2>3, <2>4
<1>3. ASSUME NEW q \in PIDs, lf2[q] = "ALIVE"
      PROVE  /\ noRepeats(tc2[q])
             /\ \A x \in PIDs : isIn(x, tc2[q]) => lf2[x] = "ZOMBIE" /\ par2[x] = q
             /\ Len(tc2[q]) = tok2[q] + owed(q, ic)
  <2>0. q # c /\ lf[q] = "ALIVE"
    BY <1>1, <1>3
  <2>1. /\ noRepeats(tc[q])
        /\ \A x \in PIDs : isIn(x, tc[q]) => lf[x] = "ZOMBIE" /\ par[x] = q
        /\ Len(tc[q]) = tok[q] + owed(q, ic)
    BY <2>0 DEF zombiesOK, owed
  <2>2. CASE q = m
    <3>1. Len(t) = tok2[m] + owed(m, ic)
      <4>1. owed(m, ic) \in Int /\ tok[m] \in Int
        BY DEF owed
      <4>2. Len(tc[m]) = tok[m] + owed(m, ic)
        BY <2>1, <2>2
      <4>3. Len(t) = (tok[m] + owed(m, ic)) - 1
        BY <4>2
      <4>4. (tok[m] + owed(m, ic)) - 1 = (tok[m] - 1) + owed(m, ic)
        BY <4>1
      <4>. QED
        BY <4>3, <4>4
    <3>2. ASSUME NEW x \in PIDs, isIn(x, t) PROVE lf2[x] = "ZOMBIE" /\ par2[x] = m
      <4>1. isIn(x, tc[q]) /\ x # c
        BY <2>2, <3>2
      <4>2. lf[x] = "ZOMBIE" /\ par[x] = q
        BY <2>1, <4>1
      <4>. QED
        BY <1>1, <2>2, <4>1, <4>2
    <3>. QED
      BY <1>1, <2>2, <3>1, <3>2
  <2>3. CASE q # m
    <3>1. ~isIn(c, tc[q])
      BY <2>1, <2>3
    <3>2. tc2[q] = tc[q] /\ tok2[q] = tok[q]
      BY <1>1, <2>0, <2>3
    <3>3. ASSUME NEW x \in PIDs, isIn(x, tc[q]) PROVE lf2[x] = "ZOMBIE" /\ par2[x] = q
      BY <1>1, <2>1, <3>1, <3>3
    <3>. QED
      BY <2>1, <3>2, <3>3
  <2>. QED
    BY <2>2, <2>3
<1>4. \A x \in PIDs : Taken(x, ic) => ~isIn(x, tc2[INIT_PID])
  <2>1. INIT_PID # c => tc2[INIT_PID] = tc[INIT_PID]
    BY <1>1
  <2>2. INIT_PID = c => tc2[INIT_PID] = <<>>
    BY <1>1
  <2>. QED
    BY <2>1, <2>2, EmptyQueue DEF zombiesOK
<1>5. zombiesOK(lf2, par2, tc2, tok2, NoPid, ic)
  BY <1>2, <1>3, <1>4 DEF zombiesOK, owed
<1>. QED
  BY <1>5 DEF lf2, par2, tc2

\* Init takes the head of its list, whose token it has.
LEMMA ZombiesPoll ==
    ASSUME NEW lf \in Lives, NEW par, NEW tc \in [PIDs -> Seq(PIDs)],
           NEW tok \in [PIDs -> Int], NEW c \in PIDs, NEW t,
           zombiesOK(lf, par, tc, tok, NoPid, InitAt("poll")), lf[INIT_PID] = "ALIVE",
           \A d \in PIDs : isIn(d, t) <=> isIn(d, tc[INIT_PID]) /\ d # c,
           noRepeats(t), Len(t) = Len(tc[INIT_PID]) - 1
    PROVE  zombiesOK(lf, par, [tc EXCEPT ![INIT_PID] = t], tok, NoPid, InitUnlinking(c))
<1> DEFINE tc2 == [tc EXCEPT ![INIT_PID] = t]
<1>0. INIT_PID \in PIDs
  BY PidFacts
<1>1. tc2[INIT_PID] = t /\ \A x \in PIDs : x # INIT_PID => tc2[x] = tc[x]
  BY <1>0
<1>i. /\ \A x \in PIDs : ~Taken(x, InitAt("poll")) /\ (Taken(x, InitUnlinking(c)) <=> x = c)
      /\ InitUnlinking(c) # InitAt("poll")
  BY ContsDiffer, TakenFacts
<1> HIDE DEF tc2
<1>2. ASSUME NEW x \in PIDs, lf[x] = "ZOMBIE"
      PROVE  isIn(x, tc2[par[x]]) \/ Taken(x, InitUnlinking(c)) \/ par[x] = NoPid
  <2>1. isIn(x, tc[par[x]]) \/ par[x] = NoPid
    BY <1>i, <1>2 DEF zombiesOK
  <2>2. CASE par[x] = INIT_PID
    BY <1>1, <1>i, <2>1, <2>2
  <2>3. CASE par[x] # INIT_PID
    <3>1. par[x] \in PIDs => tc2[par[x]] = tc[par[x]]
      BY <1>1, <2>3
    <3>2. par[x] \notin PIDs => tc2[par[x]] = tc[par[x]]
      BY <2>3 DEF tc2
    <3>. QED
      BY <2>1, <3>1, <3>2
  <2>. QED
    BY <2>2, <2>3
<1>3. ASSUME NEW q \in PIDs, lf[q] = "ALIVE"
      PROVE  /\ noRepeats(tc2[q])
             /\ \A x \in PIDs : isIn(x, tc2[q]) => lf[x] = "ZOMBIE" /\ par[x] = q
             /\ Len(tc2[q]) = tok[q] + owed(q, InitUnlinking(c))
  <2>1. /\ noRepeats(tc[q])
        /\ \A x \in PIDs : isIn(x, tc[q]) => lf[x] = "ZOMBIE" /\ par[x] = q
        /\ Len(tc[q]) = tok[q] + owed(q, InitAt("poll"))
    BY <1>3 DEF zombiesOK, owed
  <2>2. owed(q, InitUnlinking(c)) = 0 /\ tok[q] \in Int
    BY <1>i DEF owed
  <2>3. CASE q = INIT_PID
    <3>1. owed(q, InitAt("poll")) = 1
      BY <2>3 DEF owed
    <3>2. Len(t) = tok[q] + 0
      <4>1. Len(tc[INIT_PID]) = tok[q] + 1
        BY <2>1, <2>3, <3>1
      <4>2. Len(t) = (tok[q] + 1) - 1
        BY <4>1
      <4> DEFINE k == tok[q]
                 m == Len(t)
      <4>3. k \in Int /\ m = (k + 1) - 1
        BY <2>2, <4>2
      <4> HIDE DEF k, m
      <4>4. m = k + 0
        BY <4>3
      <4>. QED
        BY <4>4, Zenon DEF k, m
    <3>. QED
      BY <1>1, <2>1, <2>2, <2>3, <3>2
  <2>4. CASE q # INIT_PID
    <3>1. owed(q, InitAt("poll")) = 0
      BY <2>4 DEF owed
    <3>. QED
      BY <1>1, <2>1, <2>2, <2>4, <3>1
  <2>. QED
    BY <2>3, <2>4
<1>4. \A x \in PIDs : Taken(x, InitUnlinking(c)) => ~isIn(x, tc2[INIT_PID])
  BY <1>1, <1>i
<1>5. zombiesOK(lf, par, tc2, tok, NoPid, InitUnlinking(c))
  BY <1>2, <1>3, <1>4 DEF zombiesOK, owed
<1>. QED
  BY <1>5 DEF tc2

\* removeChild of the zombie it has taken.
LEMMA ZombiesUnlink ==
    ASSUME NEW lf, NEW par, NEW tc, NEW tok, NEW orph, NEW c \in PIDs,
           zombiesOK(lf, par, tc, tok, orph, InitUnlinking(c))
    PROVE  zombiesOK(lf, par, tc, tok, orph, InitReaping(c))
<1>1. InitUnlinking(c) # InitAt("poll") /\ InitReaping(c) # InitAt("poll")
  BY ContsDiffer
<1>. QED
  BY <1>1, TakenFacts DEF zombiesOK

\* freeProcess by init of the zombie it has taken out.
LEMMA ZombiesInitReap ==
    ASSUME NEW lf \in Lives, NEW par \in [PIDs -> PIDs], NEW tc \in [PIDs -> Seq(PIDs)],
           NEW tok \in [PIDs -> Int], NEW tok2, NEW c \in PIDs,
           zombiesOK(lf, par, tc, tok, NoPid, InitReaping(c)), lf[c] = "ZOMBIE",
           par[c] = INIT_PID, c # INIT_PID,
           \A x \in PIDs : lf[x] = "ZOMBIE" => lf[par[x]] = "ALIVE",
           \A x \in PIDs : x # c => tok2[x] = tok[x]
    PROVE  zombiesOK([lf EXCEPT ![c] = "FREE"], [par EXCEPT ![c] = INIT_PID],
                     [tc EXCEPT ![c] = <<>>], tok2, NoPid, InitClearing(c))
<1> DEFINE lf2 == [lf EXCEPT ![c] = "FREE"]
           par2 == [par EXCEPT ![c] = INIT_PID]
           tc2 == [tc EXCEPT ![c] = <<>>]
<1>1. /\ lf2[c] = "FREE" /\ \A x \in PIDs : x # c => lf2[x] = lf[x]
      /\ par2[c] = INIT_PID /\ \A x \in PIDs : x # c => par2[x] = par[x]
      /\ tc2[c] = <<>> /\ \A x \in PIDs : x # c => tc2[x] = tc[x]
      /\ \A x \in PIDs : par[x] \in PIDs
      /\ INIT_PID \in PIDs /\ NoPid \notin PIDs
  BY PidFacts DEF Lives
<1>i. /\ InitReaping(c) # InitAt("poll") /\ InitClearing(c) # InitAt("poll")
      /\ \A x \in PIDs : (Taken(x, InitReaping(c)) <=> x = c) /\ ~Taken(x, InitClearing(c))
  BY ContsDiffer, TakenFacts
<1> HIDE DEF lf2, par2, tc2
<1>2. ASSUME NEW x \in PIDs, lf2[x] = "ZOMBIE"
      PROVE  isIn(x, tc2[par2[x]])
  <2>1. x # c /\ lf[x] = "ZOMBIE" /\ par2[x] = par[x] /\ par[x] \in PIDs /\ par[x] # NoPid
    BY <1>1, <1>2
  <2>2. par[x] # c
    BY <2>1
  <2>3. isIn(x, tc[par[x]])
    BY <1>i, <2>1 DEF zombiesOK
  <2>. QED
    BY <1>1, <2>1, <2>2, <2>3
<1>3. ASSUME NEW q \in PIDs, lf2[q] = "ALIVE"
      PROVE  /\ noRepeats(tc2[q])
             /\ \A x \in PIDs : isIn(x, tc2[q]) => lf2[x] = "ZOMBIE" /\ par2[x] = q
             /\ Len(tc2[q]) = tok2[q] + owed(q, InitClearing(c))
  <2>0. q # c /\ lf[q] = "ALIVE"
    BY <1>1, <1>3
  <2>1. /\ noRepeats(tc[q])
        /\ \A x \in PIDs : isIn(x, tc[q]) => lf[x] = "ZOMBIE" /\ par[x] = q
        /\ Len(tc[q]) = tok[q] + owed(q, InitReaping(c))
    BY <2>0 DEF zombiesOK, owed
  <2>2. owed(q, InitClearing(c)) = 0 /\ owed(q, InitReaping(c)) = 0
    BY <1>i DEF owed
  <2>3. ~isIn(c, tc[q])
    <3>1. ~isIn(c, tc[INIT_PID])
      BY <1>i DEF zombiesOK
    <3>. QED
      BY <2>1, <3>1
  <2>4. tc2[q] = tc[q] /\ tok2[q] = tok[q]
    BY <1>1, <2>0
  <2>5. ASSUME NEW x \in PIDs, isIn(x, tc[q]) PROVE lf2[x] = "ZOMBIE" /\ par2[x] = q
    BY <1>1, <2>1, <2>3, <2>5
  <2>. QED
    BY <2>1, <2>2, <2>4, <2>5
<1>4. zombiesOK(lf2, par2, tc2, tok2, NoPid, InitClearing(c))
  BY <1>i, <1>2, <1>3 DEF zombiesOK, owed
<1>. QED
  BY <1>4 DEF lf2, par2, tc2

\* wait_any: init takes a token, or goes into debt for one.
LEMMA ZombiesInitWait ==
    ASSUME NEW lf, NEW par, NEW tc \in [PIDs -> Seq(PIDs)],
           NEW tok \in [PIDs -> Int], NEW tok2, NEW orph,
           zombiesOK(lf, par, tc, tok, orph, InitAt("wait_any")),
           tok2[INIT_PID] = tok[INIT_PID] - 1,
           \A x \in PIDs : x # INIT_PID => tok2[x] = tok[x]
    PROVE  zombiesOK(lf, par, tc, tok2, orph, InitAt("poll"))
<1>i. /\ \A x \in PIDs : ~Taken(x, InitAt("poll")) /\ ~Taken(x, InitAt("wait_any"))
      /\ InitAt("wait_any") # InitAt("poll")
  BY ContsDiffer, TakenFacts
<1>1. ASSUME NEW q \in PIDs, lf[q] = "ALIVE"
      PROVE  Len(tc[q]) = tok2[q] + owed(q, InitAt("poll"))
  <2>1. Len(tc[q]) = tok[q] + owed(q, InitAt("wait_any")) /\ tok[q] \in Int
    BY <1>1 DEF zombiesOK, owed
  <2>2. owed(q, InitAt("wait_any")) = 0
    BY <1>i DEF owed
  <2>3. CASE q = INIT_PID
    BY <2>1, <2>2, <2>3 DEF owed
  <2>4. CASE q # INIT_PID
    BY <2>1, <2>2, <2>4 DEF owed
  <2>. QED
    BY <2>3, <2>4
<1>. QED
  BY <1>i, <1>1 DEF zombiesOK, owed

-----------------------------------------------------------------------------
(* Processes in wait_pid *)

\* Nothing that wait_pid looks at changes.
LEMMA WaitersSame ==
    ASSUME NEW lf, NEW par, NEW ct, NEW ct2, NEW sm, NEW sm2,
           waitersOK(lf, par, ct, sm),
           \A m, c \in PIDs : ct2[m] = AfterWaitPid(c) <=> ct[m] = AfterWaitPid(c),
           \A c \in PIDs : sm2[terminated(c)] = sm[terminated(c)]
    PROVE  waitersOK(lf, par, ct2, sm2)
<1>1. \A m, c \in PIDs : waits(m, sm2, terminated(c)) <=> waits(m, sm, terminated(c))
  BY DEF waits
<1>. QED
  BY <1>1 DEF waitersOK

\* q dies and posts its terminated semaphore.
LEMMA WaitersDeath ==
    ASSUME NEW lf \in Lives, NEW par, NEW ct, NEW sm, NEW sm2, NEW q \in PIDs,
           waitersOK(lf, par, ct, sm), lf[q] = "ALIVE",
           \A c \in PIDs : c # q => sm2[terminated(c)] = sm[terminated(c)],
           \A m \in PIDs : waits(m, sm2, terminated(q)) => waits(m, sm, terminated(q))
    PROVE  waitersOK([lf EXCEPT ![q] = "ZOMBIE"], par, ct, sm2)
<1> DEFINE lf2 == [lf EXCEPT ![q] = "ZOMBIE"]
<1>1. lf2[q] = "ZOMBIE" /\ \A p \in PIDs : p # q => lf2[p] = lf[p]
  BY DEF Lives
<1>2. \A m, c \in PIDs : c # q => (waits(m, sm2, terminated(c)) <=> waits(m, sm, terminated(c)))
  BY DEF waits
<1> HIDE DEF lf2
<1>3. \A m, c \in PIDs : lf2[m] = "ALIVE" /\ ct[m] = AfterWaitPid(c) =>
         /\ c \in Others /\ lf2[c] # "FREE" /\ par[c] = m
         /\ lf2[c] = "ZOMBIE" \/ waits(m, sm2, terminated(c))
  BY <1>1, <1>2 DEF waitersOK
<1>4. \A m, c \in PIDs : lf2[m] = "ALIVE" /\ waits(m, sm2, terminated(c)) =>
         ct[m] = AfterWaitPid(c)
  BY <1>1, <1>2 DEF waitersOK
<1>5. \A c \in PIDs : lf2[c] = "ALIVE" => sm2[terminated(c)].value <= 0
  BY <1>1 DEF waitersOK
<1>6. waitersOK(lf2, par, ct, sm2)
  BY <1>3, <1>4, <1>5 DEF waitersOK
<1>. QED
  BY <1>6 DEF lf2

\* A child of a dead process goes to init.
LEMMA WaitersTransfer ==
    ASSUME NEW lf, NEW par \in [PIDs -> PIDs], NEW ct, NEW sm, NEW sm2, NEW c \in PIDs,
           waitersOK(lf, par, ct, sm), lf[par[c]] # "ALIVE",
           \A x \in PIDs : sm2[terminated(x)] = sm[terminated(x)]
    PROVE  waitersOK(lf, [par EXCEPT ![c] = INIT_PID], ct, sm2)
<1> DEFINE par2 == [par EXCEPT ![c] = INIT_PID]
<1>1. \A x \in PIDs : x # c => par2[x] = par[x]
  OBVIOUS
<1>2. \A m, x \in PIDs : waits(m, sm2, terminated(x)) <=> waits(m, sm, terminated(x))
  BY DEF waits
<1> HIDE DEF par2
<1>3. \A m \in PIDs : lf[m] = "ALIVE" => ct[m] # AfterWaitPid(c)
  BY DEF waitersOK
<1>4. waitersOK(lf, par2, ct, sm2)
  BY <1>1, <1>2, <1>3 DEF waitersOK
<1>. QED
  BY <1>4 DEF par2

\* p is in no queue and in no wait_pid, its semaphore is new, and for the others
\* nothing changes.
newborn(p, ct, ct2, sm, sm2) ==
    /\ \A s \in SemIds : ~waits(p, sm, s)
    /\ \A c \in PIDs : ct2[p] # AfterWaitPid(c)
    /\ \A x, c \in PIDs : x # p => (ct2[x] = AfterWaitPid(c) <=> ct[x] = AfterWaitPid(c))
    /\ sm2[terminated(p)] = newSemaphore(0)
    /\ \A c \in PIDs : c # p => sm2[terminated(c)] = sm[terminated(c)]

\* A new process p waits for nobody and nobody for it.
LEMMA WaitersBirth ==
    ASSUME NEW lf \in Lives, NEW par \in [PIDs -> PIDs], NEW ct, NEW ct2, NEW sm, NEW sm2,
           NEW p \in PIDs, NEW m \in PIDs,
           waitersOK(lf, par, ct, sm), lf[p] = "FREE", newborn(p, ct, ct2, sm, sm2)
    PROVE  waitersOK([lf EXCEPT ![p] = "ALIVE"], [par EXCEPT ![p] = m], ct2, sm2)
<1> USE DEF newborn
<1> DEFINE lf2 == [lf EXCEPT ![p] = "ALIVE"]
           par2 == [par EXCEPT ![p] = m]
<1>1. /\ \A x \in PIDs : x # p => lf2[x] = lf[x] /\ par2[x] = par[x]
      /\ lf2[p] = "ALIVE"
  BY DEF Lives
<1>2. \A x, c \in PIDs : c # p => (waits(x, sm2, terminated(c)) <=> waits(x, sm, terminated(c)))
  BY DEF waits
<1>3. \A x \in PIDs : ~waits(x, sm2, terminated(p))
  BY EmptyQueue DEF waits, newSemaphore
<1> HIDE DEF lf2, par2
<1>4. ASSUME NEW x \in PIDs, NEW c \in PIDs, lf2[x] = "ALIVE", ct2[x] = AfterWaitPid(c)
      PROVE  /\ c \in Others /\ lf2[c] # "FREE" /\ par2[c] = x
             /\ lf2[c] = "ZOMBIE" \/ waits(x, sm2, terminated(c))
  <2>1. x # p
    BY <1>4
  <2>2. lf[x] = "ALIVE" /\ ct[x] = AfterWaitPid(c)
    BY <1>1, <1>4, <2>1
  <2>3. /\ c \in Others /\ lf[c] # "FREE" /\ par[c] = x
        /\ lf[c] = "ZOMBIE" \/ waits(x, sm, terminated(c))
    BY <2>2 DEF waitersOK
  <2>. QED
    BY <1>1, <1>2, <2>3
<1>5. ASSUME NEW x \in PIDs, NEW c \in PIDs, lf2[x] = "ALIVE", waits(x, sm2, terminated(c))
      PROVE  ct2[x] = AfterWaitPid(c)
  <2>1. c # p /\ waits(x, sm, terminated(c)) /\ terminated(c) \in SemIds
    BY <1>2, <1>3, <1>5, SemIdFacts
  <2>2. x # p
    BY <2>1
  <2>. QED
    BY <1>1, <1>5, <2>1, <2>2 DEF waitersOK
<1>6. \A c \in PIDs : lf2[c] = "ALIVE" => sm2[terminated(c)].value <= 0
  BY <1>1 DEF waitersOK, newSemaphore
<1>7. waitersOK(lf2, par2, ct2, sm2)
  BY <1>4, <1>5, <1>6 DEF waitersOK
<1>. QED
  BY <1>7 DEF lf2, par2

\* The parent m, which waits for nobody but perhaps c, goes on elsewhere, and
\* the semaphore of c is blank.
reaped(m, c, ct, ct2, sm, sm2) ==
    /\ \A x \in PIDs : x # c /\ x # m => ct2[x] = ct[x]
    /\ \A y \in PIDs : ct2[m] # AfterWaitPid(y)
    /\ \A y \in PIDs : y # c => ct[m] # AfterWaitPid(y)
    /\ sm2[terminated(c)] = newSemaphore(0)
    /\ \A x \in PIDs : x # c => sm2[terminated(x)] = sm[terminated(x)]

\* The zombie c is reaped by its parent m, which goes on elsewhere.
LEMMA WaitersReap ==
    ASSUME NEW lf \in Lives, NEW par \in [PIDs -> PIDs], NEW ct, NEW ct2, NEW sm, NEW sm2,
           NEW c \in PIDs,
           waitersOK(lf, par, ct, sm), lf[c] = "ZOMBIE", reaped(par[c], c, ct, ct2, sm, sm2)
    PROVE  waitersOK([lf EXCEPT ![c] = "FREE"], [par EXCEPT ![c] = INIT_PID], ct2, sm2)
<1> USE DEF reaped
<1> DEFINE lf2 == [lf EXCEPT ![c] = "FREE"]
           par2 == [par EXCEPT ![c] = INIT_PID]
           m == par[c]
<1>1. /\ \A x \in PIDs : x # c => lf2[x] = lf[x] /\ par2[x] = par[x]
      /\ lf2[c] = "FREE" /\ m \in PIDs
  BY DEF Lives
<1>2. \A x, y \in PIDs : y # c => (waits(x, sm2, terminated(y)) <=> waits(x, sm, terminated(y)))
  BY DEF waits
<1>3. \A x \in PIDs : ~waits(x, sm2, terminated(c))
  BY EmptyQueue DEF waits, newSemaphore
<1>m. /\ \A x \in PIDs : x # c /\ x # m => ct2[x] = ct[x]
      /\ \A y \in PIDs : ct2[m] # AfterWaitPid(y)
      /\ \A y \in PIDs : y # c => ct[m] # AfterWaitPid(y)
      /\ par[c] = m
  OBVIOUS
<1> HIDE DEF lf2, par2, m
<1>4. ASSUME NEW x \in PIDs, NEW y \in PIDs, lf2[x] = "ALIVE", ct2[x] = AfterWaitPid(y)
      PROVE  /\ y \in Others /\ lf2[y] # "FREE" /\ par2[y] = x
             /\ lf2[y] = "ZOMBIE" \/ waits(x, sm2, terminated(y))
  <2>1. x # c /\ x # m
    BY <1>1, <1>4, <1>m
  <2>2. lf[x] = "ALIVE" /\ ct[x] = AfterWaitPid(y)
    BY <1>1, <1>4, <1>m, <2>1
  <2>3. /\ y \in Others /\ lf[y] # "FREE" /\ par[y] = x
        /\ lf[y] = "ZOMBIE" \/ waits(x, sm, terminated(y))
    BY <2>2 DEF waitersOK
  <2>4. y # c
    BY <1>m, <2>1, <2>3
  <2>. QED
    BY <1>1, <1>2, <2>3, <2>4
<1>5. ASSUME NEW x \in PIDs, NEW y \in PIDs, lf2[x] = "ALIVE", waits(x, sm2, terminated(y))
      PROVE  ct2[x] = AfterWaitPid(y)
  <2>1. y # c /\ x # c /\ lf[x] = "ALIVE" /\ waits(x, sm, terminated(y))
    BY <1>1, <1>2, <1>3, <1>5
  <2>2. ct[x] = AfterWaitPid(y)
    BY <2>1 DEF waitersOK
  <2>. QED
    BY <1>m, <2>1, <2>2
<1>6. \A y \in PIDs : lf2[y] = "ALIVE" => sm2[terminated(y)].value <= 0
  BY <1>1 DEF waitersOK
<1>7. waitersOK(lf2, par2, ct2, sm2)
  BY <1>4, <1>5, <1>6 DEF waitersOK
<1>. QED
  BY <1>7 DEF lf2, par2

\* wait_pid: m waits on the semaphore of its child p.
LEMMA WaitersWait ==
    ASSUME NEW lf \in Lives, NEW par, NEW ct \in [PIDs -> Conts], NEW sm, NEW sm2,
           NEW m \in PIDs, NEW p \in PIDs,
           waitersOK(lf, par, ct, sm), ct[m] = UserCode,
           p \in Others, lf[p] # "FREE", par[p] = m,
           \A c \in PIDs : c # p => sm2[terminated(c)] = sm[terminated(c)],
           \/ /\ sm2[terminated(p)].value <= 0
              /\ \A x \in PIDs : waits(x, sm2, terminated(p)) <=> waits(x, sm, terminated(p)) \/ x = m
           \/ /\ lf[p] # "ALIVE"
              /\ \A x \in PIDs : waits(x, sm2, terminated(p)) <=> waits(x, sm, terminated(p))
    PROVE  waitersOK(lf, par, [ct EXCEPT ![m] = AfterWaitPid(p)], sm2)
<1> DEFINE ct2 == [ct EXCEPT ![m] = AfterWaitPid(p)]
<1>1. ct2[m] = AfterWaitPid(p) /\ \A x \in PIDs : x # m => ct2[x] = ct[x]
  OBVIOUS
<1>2. \A x, c \in PIDs : c # p => (waits(x, sm2, terminated(c)) <=> waits(x, sm, terminated(c)))
  BY DEF waits
<1>3. \A x, c \in PIDs : waits(x, sm, terminated(c)) => waits(x, sm2, terminated(c))
  BY <1>2
<1>4. \A x, c \in PIDs : waits(x, sm2, terminated(c)) => waits(x, sm, terminated(c)) \/ (c = p /\ x = m)
  BY <1>2
<1>5. lf[p] = "ZOMBIE" \/ waits(m, sm2, terminated(p))
  BY DEF Lives
<1>6. \A c \in PIDs : AfterWaitPid(c) # UserCode
  BY ContsDiffer
<1>7. \A c \in PIDs : AfterWaitPid(p) = AfterWaitPid(c) => c = p
  BY ContsDiffer
<1> HIDE DEF ct2
<1>8. ASSUME NEW x \in PIDs, NEW c \in PIDs, lf[x] = "ALIVE", ct2[x] = AfterWaitPid(c)
      PROVE  /\ c \in Others /\ lf[c] # "FREE" /\ par[c] = x
             /\ lf[c] = "ZOMBIE" \/ waits(x, sm2, terminated(c))
  <2>1. CASE x = m
    <3>1. c = p
      BY <1>1, <1>7, <1>8, <2>1
    <3>. QED
      BY <1>5, <2>1, <3>1
  <2>2. CASE x # m
    BY <1>1, <1>3, <1>8, <2>2 DEF waitersOK
  <2>. QED
    BY <2>1, <2>2
<1>9. ASSUME NEW x \in PIDs, NEW c \in PIDs, lf[x] = "ALIVE", waits(x, sm2, terminated(c))
      PROVE  ct2[x] = AfterWaitPid(c)
  <2>1. CASE c = p /\ x = m
    BY <1>1, <2>1
  <2>2. CASE ~(c = p /\ x = m)
    <3>1. ct[x] = AfterWaitPid(c)
      BY <1>4, <1>9, <2>2 DEF waitersOK
    <3>2. x # m
      BY <1>6, <3>1
    <3>. QED
      BY <1>1, <3>1, <3>2
  <2>. QED
    BY <2>1, <2>2
<1>10. \A c \in PIDs : lf[c] = "ALIVE" => sm2[terminated(c)].value <= 0
  BY DEF waitersOK
<1>11. waitersOK(lf, par, ct2, sm2)
  BY <1>8, <1>9, <1>10 DEF waitersOK
<1>. QED
  BY <1>11 DEF ct2

-----------------------------------------------------------------------------
(* FamilyInv, step by step *)

\* The types FamilyInv gives.
LEMMA InvTypes ==
    ASSUME FamilyInv
    PROVE  /\ state \in [PIDs -> States] /\ readyQueue \in Seq(PIDs)
           /\ sem \in [SemIds -> Semaphores] /\ \A s \in SemIds : debtIsQueue(sem[s])
           /\ ppid \in [PIDs -> PIDs] /\ children \in [PIDs -> Seq(PIDs)]
           /\ terminatedChildren \in [PIDs -> Seq(PIDs)] /\ foregroundSet \subseteq PIDs
           /\ currentProcess \in PIDs \cup {NoPid}
           /\ cont \in [PIDs -> Conts] /\ kernel \in Loops
           /\ Life(state) \in Lives /\ Tokens(sem) \in [PIDs -> Int]
<1>1. /\ state \in [PIDs -> States] /\ readyQueue \in Seq(PIDs)
      /\ sem \in [SemIds -> Semaphores] /\ \A s \in SemIds : debtIsQueue(sem[s])
      /\ ppid \in [PIDs -> PIDs] /\ children \in [PIDs -> Seq(PIDs)]
      /\ terminatedChildren \in [PIDs -> Seq(PIDs)] /\ foregroundSet \subseteq PIDs
      /\ currentProcess \in PIDs \cup {NoPid}
      /\ cont \in [PIDs -> Conts] /\ kernel \in Loops
  BY DEF FamilyInv, CoreInv, safe, treeTypes, cpuTypes
<1>2. Life(state) \in Lives
  BY <1>1, LifeFacts
<1>3. Tokens(sem) \in [PIDs -> Int]
  BY <1>1, SemIdFacts DEF Tokens, Semaphores
<1>. QED
  BY <1>1, <1>2, <1>3

\* Which loop is which.
LEMMA LoopFacts ==
    /\ NoLoop.op = "none" /\ NoLoop # Reaping /\ NoLoop # Halted /\ Orphaning(NoLoop) = NoPid
    /\ Reaping # Halted /\ Orphaning(Reaping) = NoPid /\ Reaping.op = "reap_zombies"
    /\ \A p \in PIDs : \A n : /\ OrphansOf(p, n).op = "orphans" /\ OrphansOf(p, n).pid = p
                              /\ OrphansOf(p, n).next = n
                              /\ OrphansOf(p, n) # NoLoop /\ OrphansOf(p, n) # Reaping
                              /\ OrphansOf(p, n) # Halted /\ Orphaning(OrphansOf(p, n)) = p
    /\ \A n : /\ KillingFG(n).op = "ctrl_c" /\ KillingFG(n) # NoLoop /\ KillingFG(n) # Reaping
              /\ KillingFG(n) # Halted /\ Orphaning(KillingFG(n)) = NoPid
  BY DEF NoLoop, Reaping, Halted, OrphansOf, KillingFG, Orphaning

\* Who makes a system call runs, is neither idle nor init, and waits nowhere.
LEMMA CallerFacts ==
    ASSUME FamilyInv, InUserCode
    PROVE  /\ currentProcess \in Others /\ currentProcess \in PIDs
           /\ state[currentProcess] = "RUNNING"
           /\ Life(state)[currentProcess] = "ALIVE"
           /\ cont[currentProcess] = UserCode
           /\ kernel = NoLoop /\ Orphaning(kernel) = NoPid
           /\ cont[INIT_PID] # InitAt("start")
           /\ \A s \in SemIds : ~waits(currentProcess, sem, s)
<1> DEFINE cur == currentProcess
<1>0. rolesOK(Life(state), state, cont, cur, kernel, foregroundSet, sem)
  BY DEF FamilyInv
<1>1. kernel = NoLoop /\ cur # NoPid /\ cont[cur] = UserCode
  BY DEF InUserCode
<1>2. cur \in PIDs
  BY <1>1, InvTypes
<1>3. cur # IDLE_PID /\ cur # INIT_PID
  <2>1. cont[IDLE_PID] # UserCode
    BY <1>0 DEF rolesOK, IdleCode, UserCode
  <2>2. cont[INIT_PID] # UserCode
    BY <1>0, PlaceFacts DEF rolesOK
  <2>. QED
    BY <1>1, <2>1, <2>2
<1>4. state[cur] = "RUNNING"
  BY <1>0, <1>1, <1>2, LoopFacts DEF rolesOK
<1>5. Life(state)[cur] = "ALIVE" /\ life(state, cur) = "ALIVE"
  BY <1>2, <1>4, InvTypes, LifeFacts
<1>6. cont[INIT_PID] # InitAt("start")
  BY <1>0, <1>2, <1>3, <1>5 DEF rolesOK, Others
<1>7. \A s \in SemIds : ~waits(cur, sem, s)
  BY <1>2, <1>4, <1>5 DEF FamilyInv, queuesOK
<1>. QED
  BY <1>1, <1>2, <1>3, <1>4, <1>5, <1>6, <1>7, LoopFacts DEF Others

\* A step of which the family and the queues see nothing.
LEMMA QuietStep ==
    ASSUME FamilyInv, CoreInv',
           UNCHANGED <<state, readyQueue, sem, ppid, children, terminatedChildren, cont>>,
           \/ Orphaning(kernel') = Orphaning(kernel)
           \/ Orphaning(kernel') = NoPid /\ Orphaning(kernel) \in PIDs
              /\ children[Orphaning(kernel)] = <<>>,
           rolesOK(Life(state), state, cont, currentProcess', kernel', foregroundSet', sem)
    PROVE  FamilyInv'
<1> DEFINE lv == Life(state)
           ia == cont[INIT_PID]
           o == Orphaning(kernel)
           o2 == Orphaning(kernel')
<1>1. /\ treeOK(lv, ppid, children, o, ia)
      /\ zombiesOK(lv, ppid, terminatedChildren, Tokens(sem), o, ia)
  BY DEF FamilyInv
<1>2. /\ treeOK(lv, ppid, children, o2, ia)
      /\ zombiesOK(lv, ppid, terminatedChildren, Tokens(sem), o2, ia)
  <2>1. CASE o2 = o
    BY <1>1, <2>1
  <2>2. CASE o2 = NoPid /\ o \in PIDs /\ children[o] = <<>>
    <3>0. lv \in Lives /\ ppid \in [PIDs -> PIDs] /\ children \in [PIDs -> Seq(PIDs)]
      BY InvTypes
    <3> HIDE DEF lv, ia, o, o2
    <3>1. /\ treeOK(lv, ppid, children, NoPid, ia)
          /\ childless(lv, ppid, o)
      BY <1>1, <2>2, <3>0, TreeSettled
    <3>2. \A p \in PIDs : lv[p] = "ZOMBIE" => p \in Others
      BY <1>1 DEF treeOK, Others
    <3>3. zombiesOK(lv, ppid, terminatedChildren, Tokens(sem), NoPid, ia)
      BY <1>1, <2>2, <3>1, <3>2, ZombiesSettled DEF childless
    <3>. QED
      BY <2>2, <3>1, <3>3
  <2>. QED
    BY <2>1, <2>2
<1>3. rolesOK(Life(state'), state', cont', currentProcess', kernel', foregroundSet', sem')
  OBVIOUS
<1>4. /\ queuesOK(state', readyQueue', sem') /\ blockedOK(state', sem')
      /\ waitersOK(Life(state'), ppid', cont', sem')
  BY DEF FamilyInv
<1>5. /\ treeOK(Life(state'), ppid', children', Orphaning(kernel'), cont'[INIT_PID])
      /\ zombiesOK(Life(state'), ppid', terminatedChildren', Tokens(sem'), Orphaning(kernel'),
                   cont'[INIT_PID])
  BY <1>2
<1>. QED
  BY <1>3, <1>4, <1>5 DEF FamilyInv

\* A step in which processes only go from READY to RUNNING and back.
LEMMA ScheduleStep ==
    ASSUME FamilyInv, CoreInv', schedule(state, readyQueue),
           UNCHANGED <<sem, ppid, children, terminatedChildren, foregroundSet, cont>>,
           \/ Orphaning(kernel) = NoPid
           \/ Orphaning(kernel) \in PIDs /\ children[Orphaning(kernel)] = <<>>
    PROVE  FamilyInv'
<1> DEFINE lv == Life(state)
           ia == cont[INIT_PID]
           o == Orphaning(kernel)
<1>0. /\ state \in [PIDs -> States] /\ readyQueue \in Seq(PIDs)
      /\ sem \in [SemIds -> Semaphores] /\ currentProcess \in PIDs \cup {NoPid}
      /\ lv \in Lives /\ ppid \in [PIDs -> PIDs] /\ children \in [PIDs -> Seq(PIDs)]
  BY InvTypes
<1>1. /\ queuesOK(state, readyQueue, sem) /\ blockedOK(state, sem)
      /\ rolesOK(lv, state, cont, currentProcess, kernel, foregroundSet, sem)
      /\ treeOK(lv, ppid, children, o, ia)
      /\ zombiesOK(lv, ppid, terminatedChildren, Tokens(sem), o, ia)
      /\ waitersOK(lv, ppid, cont, sem)
  BY DEF FamilyInv
<1>2. state[IDLE_PID] \in {"READY", "RUNNING"}
  BY <1>1 DEF rolesOK
<1>3. /\ queuesOK(state', readyQueue', sem)
      /\ Life(state') = Life(state)
      /\ \A p \in PIDs : state'[p] = "BLOCKED" <=> state[p] = "BLOCKED"
      /\ state'[IDLE_PID] \in {"READY", "RUNNING"}
      /\ currentProcess' \in PIDs /\ state'[currentProcess'] = "RUNNING"
      /\ kernel' = NoLoop
  BY <1>0, <1>1, <1>2, ScheduleKeeps
<1>4. /\ treeOK(lv, ppid, children, NoPid, ia)
      /\ zombiesOK(lv, ppid, terminatedChildren, Tokens(sem), NoPid, ia)
  <2>1. CASE o = NoPid
    BY <1>1, <2>1
  <2>2. CASE o \in PIDs /\ children[o] = <<>>
    <3> HIDE DEF lv, ia, o
    <3>1. /\ treeOK(lv, ppid, children, NoPid, ia)
          /\ childless(lv, ppid, o)
      BY <1>0, <1>1, <2>2, TreeSettled
    <3>2. \A p \in PIDs : lv[p] = "ZOMBIE" => p \in Others
      BY <1>1 DEF treeOK, Others
    <3>3. zombiesOK(lv, ppid, terminatedChildren, Tokens(sem), NoPid, ia)
      BY <1>1, <2>2, <3>1, <3>2, ZombiesSettled DEF childless
    <3>. QED
      BY <3>1, <3>3
  <2>. QED
    BY <2>1, <2>2
<1>5. rolesOK(lv, state', cont, currentProcess', NoLoop, foregroundSet, sem)
  <2> HIDE DEF lv
  <2>. QED
    BY <1>1, <1>3, LoopFacts DEF rolesOK
<1>6. blockedOK(state', sem)
  BY <1>1, <1>3 DEF blockedOK
<1>7. Orphaning(kernel') = NoPid
  BY <1>3, LoopFacts
<1>8. /\ rolesOK(Life(state'), state', cont', currentProcess', kernel', foregroundSet', sem')
      /\ blockedOK(state', sem') /\ queuesOK(state', readyQueue', sem')
  BY <1>3, <1>5, <1>6
<1>9. /\ treeOK(Life(state'), ppid', children', Orphaning(kernel'), cont'[INIT_PID])
      /\ zombiesOK(Life(state'), ppid', terminatedChildren', Tokens(sem'), Orphaning(kernel'),
                   cont'[INIT_PID])
  BY <1>3, <1>4, <1>7
<1>10. waitersOK(Life(state'), ppid', cont', sem')
  BY <1>1, <1>3
<1>. QED
  BY <1>8, <1>9, <1>10 DEF FamilyInv

\* The steps that only start or end a loop, or change priorities or the
\* foreground.
LEMMA QuietActions ==
    ASSUME Disciplined, FamilyInv, CoreInv',
           \/ \E p \in PIDs, level \in Priorities : SysNice(p, level)
           \/ SysReapZombies
           \/ \E p \in PIDs : SysForeground(p)
           \/ CtrlC
           \/ SkipInFG
           \/ ReapDone
    PROVE  FamilyInv'
<1> DEFINE lv == Life(state)
<1>0. rolesOK(lv, state, cont, currentProcess, kernel, foregroundSet, sem)
  BY DEF FamilyInv
<1>e. "kill_zombie" \notin Env /\ "ctrl_c_running" \notin Env
  BY DEF Disciplined, Abuses
<1>t. state \in [PIDs -> States] /\ kernel \in Loops
  BY InvTypes
<1>l. \A p \in PIDs : state[p] # "FREE" /\ state[p] # "ZOMBIE" => lv[p] = "ALIVE"
  BY <1>t DEF Life, life
<1> HIDE DEF lv
<1>1. ASSUME NEW p \in PIDs, NEW level \in Priorities, SysNice(p, level) PROVE FamilyInv'
  <2>1. UNCHANGED <<state, readyQueue, sem, currentProcess, ppid, children, terminatedChildren,
                    foregroundSet, cont, kernel>>
    BY <1>1 DEF SysNice, treeVars
  <2>2. rolesOK(lv, state, cont, currentProcess', kernel', foregroundSet', sem)
    BY <1>0, <2>1
  <2>. QED
    BY <2>1, <2>2, QuietStep DEF lv
<1>2. CASE SysReapZombies
  <2>0. InUserCode
    BY <1>2 DEF SysReapZombies
  <2>1. UNCHANGED <<state, readyQueue, sem, currentProcess, ppid, children, terminatedChildren,
                    foregroundSet, cont>> /\ kernel' = Reaping
    BY <1>2 DEF SysReapZombies, treeVars
  <2>2. /\ cont[currentProcess] = UserCode /\ state[currentProcess] = "RUNNING"
        /\ Orphaning(kernel) = NoPid
    BY <2>0, CallerFacts
  <2>3. rolesOK(lv, state, cont, currentProcess, Reaping, foregroundSet, sem)
    BY <1>0, <2>2, LoopFacts DEF rolesOK
  <2>4. Orphaning(kernel') = Orphaning(kernel)
    BY <2>1, <2>2, LoopFacts
  <2>. QED
    BY <2>1, <2>3, <2>4, QuietStep DEF lv
<1>3. ASSUME NEW p \in PIDs, SysForeground(p) PROVE FamilyInv'
  <2>0. InUserCode /\ state[p] # "FREE" /\ state[p] # "ZOMBIE"
    BY <1>e, <1>3 DEF SysForeground
  <2>1. UNCHANGED <<state, readyQueue, sem, currentProcess, ppid, children, terminatedChildren,
                    cont, kernel>> /\ foregroundSet' = foregroundSet \cup {p}
    BY <1>3 DEF SysForeground, treeVars
  <2>2. kernel = NoLoop
    BY <2>0, CallerFacts
  <2>3. lv[p] = "ALIVE"
    BY <1>l, <2>0
  <2>4. rolesOK(lv, state, cont, currentProcess, kernel, foregroundSet \cup {p}, sem)
    BY <1>0, <2>2, <2>3, LoopFacts DEF rolesOK
  <2>. QED
    BY <2>1, <2>4, QuietStep DEF lv
<1>4. CASE CtrlC
  <2>1. UNCHANGED <<state, readyQueue, sem, currentProcess, ppid, children, terminatedChildren,
                    foregroundSet, cont>> /\ kernel' = KillingFG(0)
    BY <1>4 DEF CtrlC, treeVars
  <2>2. currentProcess \notin foregroundSet /\ kernel = NoLoop
    BY <1>e, <1>4 DEF CtrlC, InterruptsOn
  <2>3. rolesOK(lv, state, cont, currentProcess, KillingFG(0), foregroundSet, sem)
    <3>1. currentProcess # NoPid => state[currentProcess] = "RUNNING"
      BY <1>0, <2>2, InvTypes, LoopFacts DEF rolesOK
    <3>. QED
      BY <1>0, <2>2, <3>1, LoopFacts DEF rolesOK
  <2>4. Orphaning(kernel') = Orphaning(kernel)
    BY <2>1, <2>2, LoopFacts
  <2>. QED
    BY <2>1, <2>3, <2>4, QuietStep DEF lv
<1>5. CASE SkipInFG
  <2>1. UNCHANGED <<state, readyQueue, sem, currentProcess, ppid, children, terminatedChildren,
                    foregroundSet, cont>> /\ kernel.op = "ctrl_c"
    BY <1>5 DEF SkipInFG, treeVars
  <2>2. kernel' = NoLoop \/ \E n : kernel' = KillingFG(n)
    BY <1>5 DEF SkipInFG
  <2>3. currentProcess # NoPid => state[currentProcess] = "RUNNING"
    BY <1>0, <2>1, InvTypes, LoopFacts DEF rolesOK
  <2>4. currentProcess \notin foregroundSet
    BY <1>0, <2>1 DEF rolesOK
  <2>5. /\ kernel' # Reaping /\ kernel' # Halted /\ kernel'.op # "orphans"
        /\ Orphaning(kernel') = NoPid
    BY <2>2, LoopFacts
  <2>6. rolesOK(lv, state, cont, currentProcess', kernel', foregroundSet', sem)
    BY <1>0, <2>1, <2>3, <2>4, <2>5 DEF rolesOK
  <2>7. Orphaning(kernel') = Orphaning(kernel)
    BY <2>1, <2>5 DEF Orphaning
  <2>. QED
    BY <2>1, <2>6, <2>7, QuietStep DEF lv
<1>6. CASE ReapDone
  <2>1. UNCHANGED <<state, readyQueue, sem, currentProcess, ppid, children, terminatedChildren,
                    foregroundSet, cont>> /\ kernel' = NoLoop /\ kernel = Reaping
    BY <1>6 DEF ReapDone, treeVars
  <2>2. currentProcess # NoPid => state[currentProcess] = "RUNNING"
    BY <1>0, <2>1, InvTypes, LoopFacts DEF rolesOK
  <2>3. rolesOK(lv, state, cont, currentProcess, NoLoop, foregroundSet, sem)
    BY <1>0, <2>2, LoopFacts DEF rolesOK
  <2>4. Orphaning(kernel') = Orphaning(kernel)
    BY <2>1, LoopFacts
  <2>. QED
    BY <2>1, <2>3, <2>4, QuietStep DEF lv
<1>. QED
  BY <1>1, <1>2, <1>3, <1>4, <1>5, <1>6

\* The timer, sys_yield, and the end of a termination.
LEMMA CpuActions ==
    ASSUME FamilyInv, CoreInv', Tick \/ SysYield \/ FinishTermination
    PROVE  FamilyInv'
<1>0. rolesOK(Life(state), state, cont, currentProcess, kernel, foregroundSet, sem)
  BY DEF FamilyInv
<1>t. kernel \in Loops /\ currentProcess \in PIDs \cup {NoPid}
  BY InvTypes
<1>1. CASE Tick
  <2>1. Orphaning(kernel) = NoPid
    BY <1>1, LoopFacts DEF Tick, InterruptsOn
  <2>. QED
    BY <1>1, <2>1, ScheduleStep DEF Tick, treeVars
<1>2. CASE SysYield
  <2>1. Orphaning(kernel) = NoPid
    BY <1>2, LoopFacts DEF SysYield, InUserCode
  <2>. QED
    BY <1>2, <2>1, ScheduleStep DEF SysYield, treeVars
<1>3. CASE FinishTermination
  <2>0. /\ kernel.op = "orphans" /\ kernel.pid \in PIDs /\ children[kernel.pid] = <<>>
        /\ Orphaning(kernel) = kernel.pid
        /\ UNCHANGED <<sem, ppid, children, terminatedChildren, foregroundSet, cont>>
    BY <1>t, <1>3, LabelFacts DEF FinishTermination, Orphaning, treeVars
  <2>1. CASE /\ kernel.next # NoPid /\ kernel' = KillingFG(kernel.next)
             /\ UNCHANGED <<state, readyQueue, currentProcess, remainingQuantums>>
    <3>1. currentProcess \notin foregroundSet
      BY <1>0, <2>0, <2>1 DEF rolesOK
    <3>2. currentProcess # NoPid => state[currentProcess] = "RUNNING"
      BY <1>0, <1>t, <2>1, LoopFacts DEF rolesOK
    <3>3. /\ kernel' # Reaping /\ kernel' # Halted /\ kernel'.op = "ctrl_c"
          /\ Orphaning(kernel') = NoPid
      BY <2>1, LoopFacts
    <3>4. rolesOK(Life(state), state, cont, currentProcess', kernel', foregroundSet', sem)
      <4> DEFINE lv == Life(state)
      <4>1. rolesOK(lv, state, cont, currentProcess, kernel, foregroundSet, sem)
        BY <1>0
      <4> HIDE DEF lv
      <4>2. rolesOK(lv, state, cont, currentProcess', kernel', foregroundSet', sem)
        BY <2>0, <2>1, <3>1, <3>2, <3>3, <4>1 DEF rolesOK
      <4>. QED
        BY <4>2 DEF lv
    <3>. QED
      BY <2>0, <2>1, <3>3, <3>4, QuietStep
  <2>2. CASE /\ kernel.next = NoPid /\ currentProcess # kernel.pid /\ kernel' = NoLoop
             /\ UNCHANGED <<state, readyQueue, currentProcess, remainingQuantums>>
    <3>2. currentProcess # NoPid => state[currentProcess] = "RUNNING"
      BY <1>0, <1>t, <2>2, LoopFacts DEF rolesOK
    <3>4. rolesOK(Life(state), state, cont, currentProcess', kernel', foregroundSet', sem)
      <4> DEFINE lv == Life(state)
      <4>1. rolesOK(lv, state, cont, currentProcess, kernel, foregroundSet, sem)
        BY <1>0
      <4> HIDE DEF lv
      <4>2. rolesOK(lv, state, cont, currentProcess', kernel', foregroundSet', sem)
        BY <2>0, <2>2, <3>2, <4>1, LoopFacts DEF rolesOK
      <4>. QED
        BY <4>2 DEF lv
    <3>5. Orphaning(kernel') = NoPid
      BY <2>2, LoopFacts
    <3>. QED
      BY <2>0, <2>2, <3>4, <3>5, QuietStep
  <2>3. CASE schedule(state, readyQueue)
    BY <2>0, <2>3, ScheduleStep
  <2>. QED
    BY <1>3, <2>1, <2>2, <2>3 DEF FinishTermination
<1>. QED
  BY <1>1, <1>2, <1>3

\* A step that moves processes between READY and BLOCKED and touches no
\* semaphore of a process.
LEMMA WakeStep ==
    ASSUME FamilyInv, CoreInv',
           UNCHANGED <<currentProcess, ppid, children, terminatedChildren, foregroundSet,
                       cont, kernel>>,
           Life(state') = Life(state), cont[INIT_PID] # InitAt("start"),
           queuesOK(state', readyQueue', sem'), blockedOK(state', sem'),
           state'[IDLE_PID] = state[IDLE_PID],
           currentProcess # NoPid => state'[currentProcess] = state[currentProcess],
           \A p \in PIDs : sem'[terminated(p)] = sem[terminated(p)],
           \A p \in PIDs : sem'[childTerminated(p)].value = sem[childTerminated(p)].value
    PROVE  FamilyInv'
<1> DEFINE lv == Life(state)
<1>1. /\ rolesOK(lv, state, cont, currentProcess, kernel, foregroundSet, sem)
      /\ treeOK(lv, ppid, children, Orphaning(kernel), cont[INIT_PID])
      /\ zombiesOK(lv, ppid, terminatedChildren, Tokens(sem), Orphaning(kernel), cont[INIT_PID])
      /\ waitersOK(lv, ppid, cont, sem)
  BY DEF FamilyInv
<1>2. Life(state') = lv
  OBVIOUS
<1>3. Tokens(sem') = Tokens(sem)
  BY DEF Tokens
<1> HIDE DEF lv
<1>4. rolesOK(lv, state', cont', currentProcess', kernel', foregroundSet', sem')
  BY <1>1 DEF rolesOK
<1>5. waitersOK(lv, ppid, cont, sem')
  BY <1>1, WaitersSame
<1>. QED
  BY <1>1, <1>2, <1>3, <1>4, <1>5 DEF FamilyInv

\* sys_block and sys_unblock of a process that waits on no semaphore.
LEMMA BlockActions ==
    ASSUME Disciplined, FamilyInv, CoreInv', NEW p \in PIDs, SysBlock(p) \/ SysUnblock(p)
    PROVE  FamilyInv'
<1>0. /\ InUserCode /\ "block" \in Env /\ ~isUnkillable(p) /\ sem' = sem
      /\ UNCHANGED <<currentProcess, ppid, children, terminatedChildren, foregroundSet,
                     cont, kernel>>
  BY DEF SysBlock, SysUnblock, canBlock, treeVars, continueWith
<1>1. /\ currentProcess \in PIDs /\ state[currentProcess] = "RUNNING"
      /\ cont[INIT_PID] # InitAt("start")
  BY <1>0, CallerFacts
<1>2. /\ state \in [PIDs -> States] /\ readyQueue \in Seq(PIDs)
      /\ sem \in [SemIds -> Semaphores] /\ queuesOK(state, readyQueue, sem)
  BY InvTypes DEF FamilyInv
<1>3. "unblock_waiter" \notin Env /\ "self_block" \notin Env
  BY DEF Disciplined, Abuses
<1>4. p # IDLE_PID /\ p # INIT_PID
  BY <1>0 DEF isUnkillable
<1>5. blockedOK(state', sem')
  BY <1>0 DEF blockedOK
<1>6. /\ p # currentProcess /\ state[p] \in {"READY", "BLOCKED"}
      /\ \E x \in {"READY", "BLOCKED"} : state' = [state EXCEPT ![p] = x]
  <2>1. CASE SysBlock(p)
    <3>1. p # currentProcess /\ state[p] \in {"RUNNING", "READY"}
          /\ state' = [state EXCEPT ![p] = "BLOCKED"]
      BY <1>3, <2>1 DEF SysBlock, canBlock
    <3>2. state[p] # "RUNNING"
      BY <3>1 DEF FamilyInv, CoreInv, safe, onlyRuns
    <3>. QED
      BY <3>1, <3>2
  <2>2. CASE SysUnblock(p)
    <3>1. state[p] = "BLOCKED" /\ state' = [state EXCEPT ![p] = "READY"]
      BY <2>2 DEF SysUnblock, canBeReady, continueWith, setReady, Sched
    <3>. QED
      BY <1>1, <3>1
  <2>. QED
    BY <2>1, <2>2
<1>7. /\ Life(state') = Life(state) /\ state' \in [PIDs -> States]
      /\ \A x \in PIDs : x # p => state'[x] = state[x]
      /\ \A x \in PIDs : life(state', x) = life(state, x)
  <2>1. state' \in [PIDs -> States] /\ \A x \in PIDs : x # p => state'[x] = state[x]
    BY <1>2, <1>6 DEF States
  <2>2. state'[p] \in {"READY", "BLOCKED"}
    BY <1>2, <1>6
  <2>3. \A x \in PIDs : life(state', x) = life(state, x)
    BY <1>6, <2>1, <2>2 DEF life
  <2>. QED
    BY <2>1, <2>3 DEF Life
<1>8. life(state', INIT_PID) = "ALIVE"
  BY <1>2, <1>7, PidFacts DEF queuesOK
<1>9. queuesOK(state', readyQueue', sem)
  <2>1. CASE SysBlock(p)
    <3>1. state' = [state EXCEPT ![p] = "BLOCKED"] /\ readyQueue' = withoutReady(p)
      BY <2>1 DEF SysBlock
    <3>2. /\ \A x \in PIDs : isIn(x, readyQueue') => isIn(x, readyQueue) /\ x # p
          /\ noRepeats(readyQueue')
      <4>1. CASE state[p] = "READY"
        BY <1>2, <3>1, <4>1, RemoveFromQueueProperties DEF withoutReady, queuesOK
      <4>2. CASE state[p] # "READY"
        BY <1>2, <3>1, <4>2 DEF withoutReady, queuesOK
      <4>. QED
        BY <4>1, <4>2
    <3>3. \A x \in PIDs : isIn(x, readyQueue') => state'[x] = "READY"
      BY <1>2, <1>7, <3>2 DEF queuesOK
    <3>4. \A x \in PIDs : state[x] = "BLOCKED" => state'[x] = "BLOCKED"
      BY <1>2, <1>7, <3>1
    <3>. QED
      BY <1>2, <1>7, <1>8, <3>2, <3>3, <3>4, QueuesKept
  <2>2. CASE SysUnblock(p)
    <3>1. /\ state' = [state EXCEPT ![p] = "READY"] /\ readyQueue' = Append(readyQueue, p)
          /\ ~inBlockedQueue(p) /\ state[p] = "BLOCKED"
      BY <1>3, <2>2 DEF SysUnblock, canBeReady, continueWith, setReady, Sched
    <3>2. ~isIn(p, readyQueue)
      BY <1>2, <3>1 DEF queuesOK
    <3>3. /\ \A x \in PIDs : isIn(x, readyQueue') => isIn(x, readyQueue) \/ x = p
          /\ noRepeats(readyQueue')
      BY <1>2, <3>1, <3>2, EnqueueProperties DEF queuesOK
    <3>4. \A x \in PIDs : isIn(x, readyQueue') => state'[x] = "READY"
      BY <1>2, <1>7, <3>1, <3>3 DEF queuesOK
    <3>5. \A x \in PIDs : \A s \in SemIds : waits(x, sem, s) => x # p
      BY <3>1 DEF inBlockedQueue, waits
    <3>6. \A x \in PIDs : \A s \in SemIds : waits(x, sem, s) /\ life(state', x) = "ALIVE" =>
             life(state, x) = "ALIVE" /\ (state[x] = "BLOCKED" => state'[x] = "BLOCKED")
      BY <1>7, <3>5
    <3>. QED
      BY <1>2, <1>8, <1>7, <3>3, <3>4, <3>6, QueuesKept
  <2>. QED
    BY <2>1, <2>2
<1>10. state'[IDLE_PID] = state[IDLE_PID] /\ state'[currentProcess] = state[currentProcess]
  BY <1>1, <1>4, <1>6, <1>7, PidFacts
<1>. QED
  BY <1>0, <1>1, <1>5, <1>7, <1>9, <1>10, WakeStep

\* sys_sem_post.
LEMMA PostAction ==
    ASSUME FamilyInv, CoreInv', NEW u \in UserSems, SysSemPost(u)
    PROVE  FamilyInv'
<1> DEFINE s == userSem(u)
           r == semPost(Sched, s)
<1>0. /\ InUserCode /\ state' = r.state /\ readyQueue' = r.readyQueue /\ sem' = r.sem
      /\ UNCHANGED <<currentProcess, ppid, children, terminatedChildren, foregroundSet,
                     cont, kernel>>
  BY DEF SysSemPost, treeVars, continueWith
<1>1. /\ currentProcess \in PIDs /\ state[currentProcess] = "RUNNING"
      /\ cont[INIT_PID] # InitAt("start")
  BY <1>0, CallerFacts
<1>2. /\ Sched \in SchedStates /\ \A t \in SemIds : debtIsQueue(Sched.sem[t])
      /\ queuesOK(Sched.state, Sched.readyQueue, Sched.sem)
      /\ Sched.state = state /\ Sched.sem = sem
  BY InvTypes DEF FamilyInv, Sched, SchedStates
<1>3. s \in SemIds
  BY SemIdFacts
<1>4. /\ queuesOK(r.state, r.readyQueue, r.sem)
      /\ Life(r.state) = Life(state)
      /\ \A t \in SemIds : t # s => r.sem[t] = sem[t]
      /\ \A p \in PIDs : r.state[p] = state[p] \/ (state[p] = "BLOCKED" /\ r.state[p] = "READY")
      /\ \A p \in PIDs : waits(p, sem, s) /\ r.state[p] = "BLOCKED" => waits(p, r.sem, s)
  <2> HIDE DEF s, r
  <2>. QED
    BY <1>2, <1>3, PostKeepsQueues DEF r
<1>5. /\ \A p \in PIDs : sem'[terminated(p)] = sem[terminated(p)]
      /\ \A p \in PIDs : sem'[childTerminated(p)] = sem[childTerminated(p)]
  <2>1. \A p \in PIDs : terminated(p) # s /\ childTerminated(p) # s
    BY SemIdsDiffer
  <2> HIDE DEF s, r
  <2>. QED
    BY <1>0, <1>4, <2>1, SemIdFacts
<1> HIDE DEF s, r
<1>6. state[IDLE_PID] \in {"READY", "RUNNING"}
  BY DEF FamilyInv, rolesOK
<1>7. state'[IDLE_PID] = state[IDLE_PID] /\ state'[currentProcess] = state[currentProcess]
  BY <1>0, <1>1, <1>4, <1>6, PidFacts
<1>8. blockedOK(state', sem')
  <2>1. blockedOK(state, sem)
    BY DEF FamilyInv
  <2>2. \A p \in PIDs : state'[p] = "BLOCKED" => state[p] = "BLOCKED"
    BY <1>0, <1>4
  <2>3. \A p \in PIDs : \A t \in SemIds :
           waits(p, sem, t) /\ state'[p] = "BLOCKED" => waits(p, sem', t)
    BY <1>0, <1>4 DEF waits
  <2>. QED
    BY <2>1, <2>2, <2>3 DEF blockedOK
<1>. QED
  BY <1>0, <1>1, <1>4, <1>5, <1>7, <1>8, WakeStep

\* The semaphore s of sm2 is that of sm after a wait of m: with m at the end of
\* the queue, or with a token less.
waited(m, s, sm, sm2) ==
    /\ \A t \in SemIds : t # s => sm2[t] = sm[t]
    /\ sm2[s].value = sm[s].value - 1
    /\ \/ /\ sm2[s].value < 0
          /\ \A x \in PIDs : waits(x, sm2, s) <=> waits(x, sm, s) \/ x = m
       \/ /\ sm[s].value > 0
          /\ sm2[s].blockedQueue = sm[s].blockedQueue

\* semWait, with the context switch if it blocks.
LEMMA WaitEffects ==
    ASSUME FamilyInv, NEW s \in SemIds, NEW c, waitOn(s, c),
           currentProcess \in PIDs, state[currentProcess] = "RUNNING", kernel = NoLoop,
           \A p \in PIDs : s = childTerminated(p) => p = INIT_PID /\ currentProcess = INIT_PID,
           currentProcess # IDLE_PID
    PROVE  /\ queuesOK(state', readyQueue', sem') /\ blockedOK(state', sem')
           /\ Life(state') = Life(state) /\ state'[IDLE_PID] \in {"READY", "RUNNING"}
           /\ currentProcess' \in PIDs /\ state'[currentProcess'] = "RUNNING"
           /\ kernel' = NoLoop
           /\ waited(currentProcess, s, sem, sem')
<1> DEFINE cur == currentProcess
           v == sem[s].value
           q == sem[s].blockedQueue
           w == v - 1
           sm2 == [sem EXCEPT ![s] = [value |-> w, blockedQueue |-> Append(sem[s].blockedQueue, cur)]]
           st2 == [state EXCEPT ![cur] = "BLOCKED"]
<1>0. /\ state \in [PIDs -> States] /\ readyQueue \in Seq(PIDs)
      /\ sem \in [SemIds -> Semaphores] /\ currentProcess \in PIDs \cup {NoPid}
      /\ v \in Int /\ q \in Seq(PIDs)
      /\ queuesOK(state, readyQueue, sem) /\ blockedOK(state, sem)
      /\ state[IDLE_PID] \in {"READY", "RUNNING"}
  BY InvTypes DEF FamilyInv, rolesOK, Semaphores
<1>1. CASE mustBlock(Sched, s)
  <2>1. sem' = sm2 /\ schedule(st2, readyQueue) /\ v - 1 < 0
    BY <1>1 DEF waitOn, semWait, withSem, Sched, mustBlock
  <2>2. /\ queuesOK(st2, readyQueue, sm2)
        /\ Life(st2) = Life(state)
        /\ \A p \in PIDs : \A t \in SemIds :
              waits(p, sm2, t) <=> waits(p, sem, t) \/ (t = s /\ p = cur)
    <3>1. w \in Int
      BY <1>0
    <3>2. \A p \in PIDs : s = childTerminated(p) => p = INIT_PID /\ cur = INIT_PID
      OBVIOUS
    <3>3. cur \in PIDs /\ state[cur] = "RUNNING"
      OBVIOUS
    <3> HIDE DEF w, cur
    <3>. QED
      BY <1>0, <3>1, <3>2, <3>3, WaitKeepsQueues, ZenonT(60)
  <2>3. st2 \in [PIDs -> States] /\ sm2 \in [SemIds -> Semaphores]
    <3>1. Append(q, cur) \in Seq(PIDs) /\ v - 1 \in Int
      BY <1>0
    <3>. QED
      BY <1>0, <3>1 DEF States, Semaphores
  <2>4. st2[IDLE_PID] \in {"READY", "RUNNING"}
    BY <1>0, PidFacts
  <2>5. /\ \A p \in PIDs : st2[p] = "BLOCKED" => p = cur \/ state[p] = "BLOCKED"
        /\ \A t \in SemIds : t # s => sm2[t] = sem[t]
        /\ sm2[s].value = v - 1
    BY <1>0
  <2> HIDE DEF st2, sm2, q
  <2>6. /\ queuesOK(state', readyQueue', sm2)
        /\ Life(state') = Life(st2)
        /\ \A p \in PIDs : state'[p] = "BLOCKED" <=> st2[p] = "BLOCKED"
        /\ state'[IDLE_PID] \in {"READY", "RUNNING"}
        /\ currentProcess' \in PIDs /\ state'[currentProcess'] = "RUNNING"
        /\ kernel' = NoLoop
    BY <1>0, <2>1, <2>2, <2>3, <2>4, ScheduleKeeps
  <2>7. blockedOK(state', sm2)
    <3>1. \A p \in PIDs : state'[p] = "BLOCKED" => p = cur \/ state[p] = "BLOCKED"
      BY <2>5, <2>6
    <3>2. \A p \in PIDs : \A t \in SemIds : waits(p, sem, t) => waits(p, sm2, t)
      BY <2>2
    <3>3. waits(cur, sm2, s)
      BY <2>2
    <3>. QED
      BY <1>0, <3>1, <3>2, <3>3 DEF blockedOK
  <2>8. waited(cur, s, sem, sm2)
    BY <2>1, <2>2, <2>5 DEF waited
  <2>. QED
    BY <2>1, <2>2, <2>6, <2>7, <2>8
<1>2. CASE ~mustBlock(Sched, s)
  <2>1. /\ sem' = [sem EXCEPT ![s] = [sem[s] EXCEPT !.value = v - 1]]
        /\ UNCHANGED <<state, readyQueue, currentProcess, kernel>> /\ ~(v - 1 < 0)
    BY <1>2 DEF waitOn, semWait, withSem, Sched, mustBlock
  <2>2. /\ \A t \in SemIds : t # s => sem'[t] = sem[t]
        /\ sem'[s].value = v - 1 /\ sem'[s].blockedQueue = q
        /\ sem' \in [SemIds -> Semaphores]
    <3>1. v - 1 \in Int
      BY <1>0
    <3>. QED
      BY <1>0, <2>1, <3>1 DEF Semaphores
  <2>3. v > 0
    BY <1>0, <2>1
  <2>4. \A t \in SemIds : sem'[t].blockedQueue = sem[t].blockedQueue
    BY <2>2
  <2>5. \A p \in PIDs : \A t \in SemIds : waits(p, sem', t) <=> waits(p, sem, t)
    BY <2>4 DEF waits
  <2> HIDE DEF q
  <2>6. queuesOK(state, readyQueue, sem')
    <3>1. \A p \in PIDs : isIn(p, readyQueue) => state[p] = "READY"
      BY <1>0 DEF queuesOK
    <3>2. noRepeats(readyQueue) /\ life(state, INIT_PID) = "ALIVE"
      BY <1>0 DEF queuesOK
    <3>. QED
      BY <1>0, <2>2, <2>4, <2>5, <3>1, <3>2, QueuesKept
  <2>7. blockedOK(state, sem')
    BY <1>0, <2>5 DEF blockedOK
  <2>8. waited(cur, s, sem, sem')
    BY <2>2, <2>3 DEF waited, q
  <2>. QED
    BY <1>0, <2>1, <2>6, <2>7, <2>8
<1>. QED
  BY <1>1, <1>2

\* A wait of a user process, or of init for any child.
LEMMA WaitStep ==
    ASSUME FamilyInv, CoreInv', NEW s \in SemIds, NEW c, waitOn(s, c),
           UNCHANGED <<ppid, children, terminatedChildren, foregroundSet>>,
           currentProcess \in PIDs, state[currentProcess] = "RUNNING", kernel = NoLoop,
           \/ /\ currentProcess \in Others /\ cont[INIT_PID] # InitAt("start")
              /\ c = UserCode \/ \E x \in PIDs : c = AfterWaitPid(x)
              /\ \A p \in PIDs : s # childTerminated(p)
           \/ /\ currentProcess = INIT_PID /\ s = childTerminated(INIT_PID)
              /\ cont[INIT_PID] = InitAt("wait_any") /\ c = InitAt("poll"),
           waitersOK(Life(state), ppid, cont', sem')
    PROVE  FamilyInv'
<1> DEFINE lv == Life(state)
           cur == currentProcess
           ia == cont[INIT_PID]
<1>0. /\ rolesOK(lv, state, cont, cur, kernel, foregroundSet, sem)
      /\ treeOK(lv, ppid, children, Orphaning(kernel), ia)
      /\ zombiesOK(lv, ppid, terminatedChildren, Tokens(sem), Orphaning(kernel), ia)
      /\ cont \in [PIDs -> Conts] /\ terminatedChildren \in [PIDs -> Seq(PIDs)]
      /\ Tokens(sem) \in [PIDs -> Int]
  BY InvTypes DEF FamilyInv
<1>1. Orphaning(kernel) = NoPid
  BY LoopFacts
<1>2. cur # IDLE_PID /\ IDLE_PID # INIT_PID
  BY DEF Others, IDLE_PID, INIT_PID
<1>3. \A p \in PIDs : s = childTerminated(p) => p = INIT_PID /\ cur = INIT_PID
  BY SemIdsDiffer, PidFacts
<1>4. /\ queuesOK(state', readyQueue', sem') /\ blockedOK(state', sem')
      /\ Life(state') = lv /\ state'[IDLE_PID] \in {"READY", "RUNNING"}
      /\ currentProcess' \in PIDs /\ state'[currentProcess'] = "RUNNING"
      /\ kernel' = NoLoop
      /\ waited(cur, s, sem, sem')
  BY <1>2, <1>3, WaitEffects
<1>5. cont' = [cont EXCEPT ![cur] = c]
  BY DEF waitOn
<1> HIDE DEF lv
<1>6. /\ cont'[INIT_PID] # InitAt("start")
      /\ sameTaken(ia, cont'[INIT_PID])
      /\ rolesOK(lv, state', cont', currentProcess', NoLoop, foregroundSet, sem')
  <2>1. CASE cur \in Others
    <3>1. /\ cont'[INIT_PID] = ia /\ cont'[IDLE_PID] = cont[IDLE_PID]
          /\ cont'[cur] = c /\ \A p \in PIDs : p # cur => cont'[p] = cont[p]
      BY <1>0, <1>5, <2>1, PidFacts DEF Others
    <3>2. cont'[INIT_PID] # InitAt("start") /\ (c = UserCode \/ \E x \in PIDs : c = AfterWaitPid(x))
      BY <2>1, <3>1 DEF Others
    <3>3. \A p \in Others : cont'[p] = UserCode \/ \E x \in PIDs : cont'[p] = AfterWaitPid(x)
      <4>1. \A p \in Others : cont[p] = UserCode \/ \E x \in PIDs : cont[p] = AfterWaitPid(x)
        BY <1>0 DEF rolesOK
      <4>2. \A p \in Others : cont'[p] = c \/ cont'[p] = cont[p]
        BY <3>1 DEF Others
      <4>. QED
        BY <3>2, <4>1, <4>2
    <3>4. rolesOK(lv, state', cont', currentProcess', NoLoop, foregroundSet, sem')
      BY <1>0, <1>4, <3>1, <3>2, <3>3, LoopFacts DEF rolesOK
    <3>. QED
      BY <3>1, <3>2, <3>4 DEF sameTaken
  <2>2. CASE cur = INIT_PID
    <3>1. /\ cont'[INIT_PID] = InitAt("poll") /\ ia = InitAt("wait_any")
          /\ cont'[IDLE_PID] = cont[IDLE_PID]
          /\ \A p \in Others : cont'[p] = cont[p]
      BY <1>0, <1>2, <1>5, <2>2, PidFacts DEF Others
    <3>2. cont'[INIT_PID] # InitAt("start")
      BY <3>1, ContsDiffer
    <3>3. rolesOK(lv, state', cont', currentProcess', NoLoop, foregroundSet, sem')
      <4>1. \A p \in Others : cont'[p] = UserCode \/ \E x \in PIDs : cont'[p] = AfterWaitPid(x)
        BY <1>0, <3>1 DEF rolesOK
      <4>2. cont'[IDLE_PID] = IdleCode /\ lv[INIT_PID] = "ALIVE" /\ \A p \in foregroundSet : lv[p] = "ALIVE"
        BY <1>0, <3>1 DEF rolesOK
      <4>3. NoLoop # Reaping /\ NoLoop # Halted /\ NoLoop.op = "none"
        BY LoopFacts
      <4>. QED
        BY <1>4, <3>1, <3>2, <4>1, <4>2, <4>3, PlaceFacts DEF rolesOK
    <3>4. sameTaken(ia, cont'[INIT_PID])
      BY <3>1, TakenFacts DEF sameTaken
    <3>. QED
      BY <3>2, <3>3, <3>4
  <2>. QED
    BY <2>1, <2>2
<1>7. treeOK(lv, ppid, children, NoPid, cont'[INIT_PID])
  BY <1>0, <1>1, <1>6, TreeSeesReaping
<1>8. zombiesOK(lv, ppid, terminatedChildren, Tokens(sem'), NoPid, cont'[INIT_PID])
  <2>1. CASE cur \in Others
    <3>1. cont'[INIT_PID] = ia
      BY <1>0, <1>5, <2>1, PidFacts DEF Others
    <3>2. \A p \in PIDs : childTerminated(p) \in SemIds /\ childTerminated(p) # s
      BY <2>1, SemIdFacts DEF Others
    <3>3. \A p \in PIDs : sem'[childTerminated(p)] = sem[childTerminated(p)]
      BY <1>4, <3>2 DEF waited
    <3>4. Tokens(sem') = Tokens(sem)
      BY <3>3 DEF Tokens
    <3>. QED
      BY <1>0, <1>1, <3>1, <3>4
  <2>2. CASE cur = INIT_PID
    <3>1. cont'[INIT_PID] = InitAt("poll") /\ ia = InitAt("wait_any")
      BY <1>0, <1>2, <1>5, <2>2, PidFacts DEF Others
    <3>2. s = childTerminated(INIT_PID)
      BY <2>2 DEF Others
    <3>3. /\ Tokens(sem')[INIT_PID] = Tokens(sem)[INIT_PID] - 1
          /\ \A x \in PIDs : x # INIT_PID => Tokens(sem')[x] = Tokens(sem)[x]
      <4>1. \A x \in PIDs : x # INIT_PID => sem'[childTerminated(x)] = sem[childTerminated(x)]
        BY <1>4, <3>2, SemIdFacts, SemIdsDiffer, PidFacts DEF waited
      <4>2. sem'[childTerminated(INIT_PID)].value = sem[childTerminated(INIT_PID)].value - 1
        BY <1>4, <3>2 DEF waited
      <4>. QED
        BY <4>1, <4>2, PidFacts DEF Tokens
    <3>4. zombiesOK(lv, ppid, terminatedChildren, Tokens(sem), NoPid, InitAt("wait_any"))
      BY <1>0, <1>1, <3>1
    <3>5. zombiesOK(lv, ppid, terminatedChildren, Tokens(sem'), NoPid, InitAt("poll"))
      BY <1>0, <3>3, <3>4, ZombiesInitWait
    <3>. QED
      BY <3>1, <3>5
  <2>. QED
    BY <2>1, <2>2
<1>9. Orphaning(kernel') = NoPid
  BY <1>4, LoopFacts
<1>10. /\ Life(state') = lv /\ waitersOK(lv, ppid, cont', sem')
       /\ UNCHANGED <<ppid, children, terminatedChildren, foregroundSet>>
  BY <1>4 DEF lv
<1>. QED
  BY <1>4, <1>6, <1>7, <1>8, <1>9, <1>10 DEF FamilyInv

\* Init runs: it is the current process, and its place is told by its label.
LEMMA InitFacts ==
    ASSUME FamilyInv, NEW op, InitRunning(op)
    PROVE  /\ currentProcess = INIT_PID /\ INIT_PID \in PIDs /\ state[INIT_PID] = "RUNNING"
           /\ Life(state)[INIT_PID] = "ALIVE"
           /\ kernel = NoLoop /\ Orphaning(kernel) = NoPid
           /\ op \in {"start", "wait_any", "poll"} => cont[INIT_PID] = InitAt(op)
           /\ op \in {"unlink", "reap", "clear"} => cont[INIT_PID].pid \in PIDs
           /\ op = "unlink" => cont[INIT_PID] = InitUnlinking(cont[INIT_PID].pid)
           /\ op = "reap" => cont[INIT_PID] = InitReaping(cont[INIT_PID].pid)
           /\ op = "clear" => cont[INIT_PID] = InitClearing(cont[INIT_PID].pid)
           /\ \A s \in SemIds : ~waits(INIT_PID, sem, s)
<1>0. /\ rolesOK(Life(state), state, cont, currentProcess, kernel, foregroundSet, sem)
      /\ queuesOK(state, readyQueue, sem)
  BY DEF FamilyInv
<1>1. kernel = NoLoop /\ currentProcess = INIT_PID /\ cont[INIT_PID].op = op
  BY DEF InitRunning
<1>2. INIT_PID \in PIDs /\ INIT_PID # NoPid
  BY PidFacts
<1>3. state[INIT_PID] = "RUNNING"
  BY <1>0, <1>1, <1>2, LoopFacts DEF rolesOK
<1>4. Life(state)[INIT_PID] = "ALIVE" /\ life(state, INIT_PID) = "ALIVE"
  BY <1>2, <1>3 DEF Life, life
<1>5. cont[INIT_PID] \in InitPlaces
  BY <1>0 DEF rolesOK
<1>6. /\ op \in {"start", "wait_any", "poll"} => cont[INIT_PID] = InitAt(op)
      /\ op \in {"unlink", "reap", "clear"} => cont[INIT_PID].pid \in PIDs
      /\ op = "unlink" => cont[INIT_PID] = InitUnlinking(cont[INIT_PID].pid)
      /\ op = "reap" => cont[INIT_PID] = InitReaping(cont[INIT_PID].pid)
      /\ op = "clear" => cont[INIT_PID] = InitClearing(cont[INIT_PID].pid)
  BY <1>1, <1>5, PlaceFacts
<1>7. \A s \in SemIds : ~waits(INIT_PID, sem, s)
  BY <1>0, <1>2, <1>3, <1>4 DEF queuesOK
<1>. QED
  BY <1>1, <1>2, <1>3, <1>4, <1>6, <1>7, LoopFacts

\* sys_sem_wait, wait_pid up to its wait, and the wait of wait_any.
LEMMA WaitActions ==
    ASSUME FamilyInv, CoreInv',
           \/ \E u \in UserSems : SysSemWait(u)
           \/ \E p \in PIDs : SysWaitpid(p)
           \/ InitWaitAny
    PROVE  FamilyInv'
<1> DEFINE lv == Life(state)
           cur == currentProcess
<1>0. /\ waitersOK(lv, ppid, cont, sem) /\ cont \in [PIDs -> Conts] /\ lv \in Lives
      /\ sem \in [SemIds -> Semaphores]
      /\ treeOK(lv, ppid, children, Orphaning(kernel), cont[INIT_PID])
  BY InvTypes DEF FamilyInv
<1>1. ASSUME NEW u \in UserSems, SysSemWait(u) PROVE FamilyInv'
  <2> DEFINE s == userSem(u)
  <2>1. /\ InUserCode /\ waitOn(s, UserCode)
        /\ UNCHANGED <<ppid, children, terminatedChildren, foregroundSet>>
    BY <1>1 DEF SysSemWait, treeVars
  <2>2. /\ cur \in Others /\ cur \in PIDs /\ state[cur] = "RUNNING" /\ cont[cur] = UserCode
        /\ kernel = NoLoop /\ cont[INIT_PID] # InitAt("start")
    BY <2>1, CallerFacts
  <2>3. s \in SemIds /\ \A p \in PIDs : s # childTerminated(p) /\ s # terminated(p)
    BY SemIdFacts, SemIdsDiffer
  <2> HIDE DEF s
  <2>4. waited(cur, s, sem, sem')
    BY <2>1, <2>2, <2>3, WaitEffects DEF Others
  <2>5. \A p \in PIDs : sem'[terminated(p)] = sem[terminated(p)]
    BY <2>3, <2>4, SemIdFacts DEF waited
  <2>6. cont' = cont
    BY <1>0, <2>1, <2>2 DEF waitOn
  <2>7. waitersOK(lv, ppid, cont', sem')
    BY <1>0, <2>5, <2>6, WaitersSame
  <2>. QED
    BY <2>1, <2>2, <2>3, <2>7, WaitStep
<1>2. ASSUME NEW p \in PIDs, SysWaitpid(p) PROVE FamilyInv'
  <2> DEFINE s == terminated(p)
  <2>1. /\ InUserCode /\ waitOn(s, AfterWaitPid(p)) /\ state[p] # "FREE" /\ ppid[p] = cur
        /\ UNCHANGED <<ppid, children, terminatedChildren, foregroundSet>>
    BY <1>2 DEF SysWaitpid, treeVars
  <2>2. /\ cur \in Others /\ cur \in PIDs /\ state[cur] = "RUNNING" /\ cont[cur] = UserCode
        /\ kernel = NoLoop /\ cont[INIT_PID] # InitAt("start")
    BY <2>1, CallerFacts
  <2>3. s \in SemIds /\ \A x \in PIDs : s # childTerminated(x)
    BY SemIdFacts, SemIdsDiffer
  <2>d. \A x \in PIDs : x # p => terminated(x) # s
    BY SemIdsDiffer
  <2>i. sem[s].value \in Int
    BY <1>0, <2>3 DEF Semaphores
  <2> HIDE DEF s
  <2>4. waited(cur, s, sem, sem')
    BY <2>1, <2>2, <2>3, WaitEffects DEF Others
  <2>5. \A x \in PIDs : x # p => sem'[terminated(x)] = sem[terminated(x)]
    BY <2>4, <2>d, SemIdFacts DEF waited
  <2>6. cont' = [cont EXCEPT ![cur] = AfterWaitPid(p)]
    BY <2>1 DEF waitOn
  <2>7. p \in Others /\ lv[p] # "FREE"
    <3>1. p # IDLE_PID /\ p # INIT_PID
      BY <1>0, <2>1, <2>2 DEF treeOK, Others
    <3>2. lv[p] # "FREE"
      BY <2>1 DEF Life, life
    <3>. QED
      BY <3>1, <3>2 DEF Others
  <2>8. \/ /\ sem'[s].value <= 0
           /\ \A x \in PIDs : waits(x, sem', s) <=> waits(x, sem, s) \/ x = cur
        \/ /\ lv[p] # "ALIVE"
           /\ \A x \in PIDs : waits(x, sem', s) <=> waits(x, sem, s)
    <3>1. CASE /\ sem'[s].value < 0
               /\ \A x \in PIDs : waits(x, sem', s) <=> waits(x, sem, s) \/ x = cur
      <4>1. sem'[s].value <= 0
        BY <2>4, <2>i, <3>1 DEF waited
      <4>. QED
        BY <3>1, <4>1
    <3>2. CASE sem[s].value > 0 /\ sem'[s].blockedQueue = sem[s].blockedQueue
      <4>1. ~(sem[s].value <= 0)
        BY <2>i, <3>2
      <4>2. lv[p] # "ALIVE"
        BY <1>0, <4>1 DEF waitersOK, s
      <4>. QED
        BY <3>2, <4>2 DEF waits
    <3>. QED
      BY <2>4, <3>1, <3>2 DEF waited
  <2>9. waitersOK(lv, ppid, cont', sem')
    <3>1. ppid[p] = cur
      BY <2>1
    <3> HIDE DEF lv, cur
    <3>2. waitersOK(lv, ppid, [cont EXCEPT ![cur] = AfterWaitPid(p)], sem')
      BY <1>0, <2>2, <2>5, <2>7, <2>8, <3>1, WaitersWait DEF s
    <3>. QED
      BY <2>6, <3>2
  <2>. QED
    BY <2>1, <2>2, <2>3, <2>9, WaitStep
<1>3. CASE InitWaitAny
  <2> DEFINE s == childTerminated(INIT_PID)
  <2>1. /\ InitRunning("wait_any") /\ waitOn(s, InitAt("poll"))
        /\ UNCHANGED <<ppid, children, terminatedChildren, foregroundSet>>
    BY <1>3 DEF InitWaitAny, treeVars
  <2>2. /\ cur = INIT_PID /\ cur \in PIDs /\ state[cur] = "RUNNING"
        /\ kernel = NoLoop /\ cont[INIT_PID] = InitAt("wait_any")
    BY <2>1, InitFacts
  <2>3. s \in SemIds /\ \A x \in PIDs : s # terminated(x)
    BY SemIdFacts, SemIdsDiffer, PidFacts
  <2>4. \A x \in PIDs : s = childTerminated(x) => x = INIT_PID /\ cur = INIT_PID
    BY <2>2, SemIdsDiffer, PidFacts
  <2>5. cur # IDLE_PID
    BY <2>2 DEF INIT_PID, IDLE_PID
  <2>h. s = childTerminated(INIT_PID)
    OBVIOUS
  <2> HIDE DEF s
  <2>6. waited(cur, s, sem, sem')
    BY <2>1, <2>2, <2>3, <2>4, <2>5, WaitEffects
  <2>7. \A x \in PIDs : sem'[terminated(x)] = sem[terminated(x)]
    BY <2>3, <2>6, SemIdFacts DEF waited
  <2>8. \A m, c \in PIDs : cont'[m] = AfterWaitPid(c) <=> cont[m] = AfterWaitPid(c)
    <3>1. cont' = [cont EXCEPT ![INIT_PID] = InitAt("poll")]
      BY <2>1, <2>2 DEF waitOn
    <3>2. /\ \A m \in PIDs : m # INIT_PID => cont'[m] = cont[m]
          /\ cont'[INIT_PID] = InitAt("poll")
      BY <1>0, <3>1, PidFacts
    <3>3. \A c \in PIDs : InitAt("poll") # AfterWaitPid(c) /\ InitAt("wait_any") # AfterWaitPid(c)
      BY ContsDiffer
    <3>. QED
      BY <2>2, <3>2, <3>3
  <2>9. waitersOK(lv, ppid, cont', sem')
    BY <1>0, <2>7, <2>8, WaitersSame
  <2>. QED
    BY <2>1, <2>2, <2>3, <2>9, <2>h, WaitStep
<1>. QED
  BY <1>1, <1>2, <1>3

\* notifyTermination of p: p is a zombie, its waiters and its parent get their
\* posts, and nobody else changes but from BLOCKED to READY.
LEMMA NotifyEffects ==
    ASSUME FamilyInv, NEW p \in Others, Life(state)[p] = "ALIVE",
           state' = notified(p).state, readyQueue' = notified(p).readyQueue,
           sem' = notified(p).sem
    PROVE  /\ queuesOK(state', readyQueue', sem') /\ blockedOK(state', sem')
           /\ Life(state') = [Life(state) EXCEPT ![p] = "ZOMBIE"]
           /\ state'[p] = "ZOMBIE"
           /\ \A x \in PIDs : x # p /\ state[x] # "BLOCKED" => state'[x] = state[x]
           /\ \A c \in PIDs : c # p => sem'[terminated(c)] = sem[terminated(c)]
           /\ \A m \in PIDs : waits(m, sem', terminated(p)) => waits(m, sem, terminated(p))
           /\ Tokens(sem') \in [PIDs -> Int]
           /\ Tokens(sem')[ppid[p]] = Tokens(sem)[ppid[p]] + 1
           /\ \A x \in PIDs : x # ppid[p] => Tokens(sem')[x] = Tokens(sem)[x]
<1> DEFINE st0 == [state EXCEPT ![p] = "ZOMBIE"]
           rq0 == removeFromQueue(readyQueue, p)
           k0 == [state |-> st0, readyQueue |-> rq0, sem |-> sem]
           s == terminated(p)
           t == childTerminated(ppid[p])
           k1 == semPost(k0, s)
           k2 == semPost(k1, t)
<1>0. /\ state \in [PIDs -> States] /\ readyQueue \in Seq(PIDs)
      /\ sem \in [SemIds -> Semaphores] /\ \A x \in SemIds : debtIsQueue(sem[x])
      /\ ppid \in [PIDs -> PIDs] /\ queuesOK(state, readyQueue, sem) /\ blockedOK(state, sem)
  BY InvTypes DEF FamilyInv
<1>p. p \in PIDs /\ p # INIT_PID /\ INIT_PID \in PIDs
  BY PidFacts DEF Others
<1>1. s \in SemIds /\ t \in SemIds /\ s # t
  BY <1>0, <1>p, SemIdFacts, SemIdsDiffer
<1>2. /\ st0 \in [PIDs -> States] /\ st0[p] = "ZOMBIE"
      /\ \A x \in PIDs : x # p => st0[x] = state[x]
  BY <1>0, <1>p DEF States
<1>3. /\ rq0 \in Seq(PIDs) /\ noRepeats(rq0)
      /\ \A x \in PIDs : isIn(x, rq0) => isIn(x, readyQueue) /\ x # p
  BY <1>0, RemoveFromQueueProperties DEF queuesOK
<1>4. k0 \in SchedStates /\ k0.state = st0 /\ k0.readyQueue = rq0 /\ k0.sem = sem
  BY <1>0, <1>2, <1>3 DEF SchedStates
<1>5. Life(st0) = [Life(state) EXCEPT ![p] = "ZOMBIE"]
  BY <1>2, <1>p DEF Life, life
<1>n. state' = k2.state /\ readyQueue' = k2.readyQueue /\ sem' = k2.sem
  BY DEF notified
<1> HIDE DEF st0, rq0, k0, k1, k2, s, t
<1>6. queuesOK(st0, rq0, sem)
  <2>1. life(st0, INIT_PID) = "ALIVE"
    BY <1>0, <1>2, <1>p DEF queuesOK, life
  <2>2. \A x \in PIDs : isIn(x, rq0) => st0[x] = "READY"
    BY <1>0, <1>2, <1>3 DEF queuesOK
  <2>3. \A x \in PIDs : life(st0, x) = "ALIVE" => life(state, x) = "ALIVE" /\ st0[x] = state[x]
    BY <1>2, <1>p DEF life
  <2>. QED
    BY <1>0, <1>2, <1>3, <2>1, <2>2, <2>3, QueuesKept
<1>7. /\ k1 \in SchedStates /\ \A x \in SemIds : debtIsQueue(k1.sem[x])
      /\ queuesOK(k1.state, k1.readyQueue, k1.sem)
      /\ Life(k1.state) = Life(st0)
      /\ \A x \in SemIds : x # s => k1.sem[x] = sem[x]
      /\ \A x \in PIDs : waits(x, k1.sem, s) => waits(x, sem, s)
      /\ \A x \in PIDs : k1.state[x] = st0[x] \/ (st0[x] = "BLOCKED" /\ k1.state[x] = "READY")
      /\ \A x \in PIDs : waits(x, sem, s) /\ k1.state[x] = "BLOCKED" => waits(x, k1.sem, s)
  <2>1. /\ \A x \in SemIds : debtIsQueue(k0.sem[x])
        /\ queuesOK(k0.state, k0.readyQueue, k0.sem)
    BY <1>0, <1>4, <1>6
  <2>. QED
    BY <1>1, <1>4, <2>1, PostKeepsQueues DEF k1
<1>8. /\ queuesOK(k2.state, k2.readyQueue, k2.sem) /\ k2 \in SchedStates
      /\ Life(k2.state) = Life(k1.state)
      /\ \A x \in SemIds : x # t => k2.sem[x] = k1.sem[x]
      /\ \A x \in PIDs : k2.state[x] = k1.state[x]
                            \/ (k1.state[x] = "BLOCKED" /\ k2.state[x] = "READY")
      /\ \A x \in PIDs : waits(x, k1.sem, t) /\ k2.state[x] = "BLOCKED" => waits(x, k2.sem, t)
      /\ k2.sem[t].value = k1.sem[t].value + 1
  <2>1. ppid[p] \in PIDs /\ t = childTerminated(ppid[p])
    BY <1>0, <1>p DEF t
  <2>. QED
    BY <1>1, <1>7, <2>1, PostKeepsQueues DEF k2
<1>9. \A x \in PIDs : x # p /\ state[x] # "BLOCKED" => state'[x] = state[x]
  BY <1>2, <1>7, <1>8, <1>n
<1>10. /\ Life(state') = [Life(state) EXCEPT ![p] = "ZOMBIE"]
  BY <1>5, <1>7, <1>8, <1>n
<1>11. state'[p] = "ZOMBIE"
  BY <1>2, <1>7, <1>8, <1>n, <1>p
<1>12. \A x \in SemIds : x # s /\ x # t => sem'[x] = sem[x]
  BY <1>7, <1>8, <1>n
<1>13. \A c \in PIDs : c # p => sem'[terminated(c)] = sem[terminated(c)]
  <2>1. \A c \in PIDs : c # p => terminated(c) # s /\ terminated(c) # t
    BY <1>0, <1>p, SemIdsDiffer DEF s, t
  <2>. QED
    BY <1>12, <2>1, SemIdFacts
<1>14. \A m \in PIDs : waits(m, sem', s) => waits(m, sem, s)
  BY <1>1, <1>7, <1>8, <1>n DEF waits
<1>15. \A x \in PIDs : x # ppid[p] => sem'[childTerminated(x)] = sem[childTerminated(x)]
  <2>1. \A x \in PIDs : x # ppid[p] => childTerminated(x) # s /\ childTerminated(x) # t
    BY <1>0, <1>p, SemIdsDiffer DEF s, t
  <2>. QED
    BY <1>12, <2>1, SemIdFacts
<1>16. sem'[childTerminated(ppid[p])].value = sem[childTerminated(ppid[p])].value + 1
  BY <1>1, <1>7, <1>8, <1>n DEF t
<1>17. sem' \in [SemIds -> Semaphores]
  BY <1>8, <1>n DEF SchedStates
<1>18. /\ Tokens(sem') \in [PIDs -> Int]
       /\ Tokens(sem')[ppid[p]] = Tokens(sem)[ppid[p]] + 1
       /\ \A x \in PIDs : x # ppid[p] => Tokens(sem')[x] = Tokens(sem)[x]
  <2>1. \A x \in PIDs : sem'[childTerminated(x)].value \in Int
    BY <1>17, SemIdFacts DEF Semaphores
  <2>2. ppid[p] \in PIDs
    BY <1>0, <1>p
  <2>. QED
    BY <1>15, <1>16, <2>1, <2>2 DEF Tokens
<1>19. blockedOK(state', sem')
  <2>1. \A x \in PIDs : state'[x] = "BLOCKED" => k1.state[x] = "BLOCKED" /\ state[x] = "BLOCKED"
    BY <1>2, <1>7, <1>8, <1>n
  <2>2. \A x \in PIDs : \A y \in SemIds :
           waits(x, sem, y) /\ k1.state[x] = "BLOCKED" => waits(x, k1.sem, y)
    BY <1>7 DEF waits
  <2>3. \A x \in PIDs : \A y \in SemIds :
           waits(x, k1.sem, y) /\ k2.state[x] = "BLOCKED" => waits(x, k2.sem, y)
    BY <1>8 DEF waits
  <2>. QED
    BY <1>0, <1>n, <2>1, <2>2, <2>3 DEF blockedOK
<1>. QED
  BY <1>8, <1>9, <1>10, <1>11, <1>13, <1>14, <1>18, <1>19, <1>n DEF s

\* terminateProcess and killFromIsr, up to the transfer of the orphans.
LEMMA TerminateStep ==
    ASSUME FamilyInv, CoreInv', NEW p \in Others, NEW n, terminate(p, n),
           Life(state)[p] = "ALIVE", Orphaning(kernel) = NoPid,
           currentProcess # NoPid => state[currentProcess] = "RUNNING",
           n # NoPid => currentProcess \notin foregroundSet /\ currentProcess # p
    PROVE  FamilyInv'
<1> DEFINE lv == Life(state)
           l2 == [lv EXCEPT ![p] = "ZOMBIE"]
           ia == cont[INIT_PID]
<1>0. /\ rolesOK(lv, state, cont, currentProcess, kernel, foregroundSet, sem)
      /\ treeOK(lv, ppid, children, NoPid, ia)
      /\ zombiesOK(lv, ppid, terminatedChildren, Tokens(sem), NoPid, ia)
      /\ waitersOK(lv, ppid, cont, sem)
  BY DEF FamilyInv
<1>t. /\ lv \in Lives /\ ppid \in [PIDs -> PIDs] /\ children \in [PIDs -> Seq(PIDs)]
      /\ terminatedChildren \in [PIDs -> Seq(PIDs)] /\ Tokens(sem) \in [PIDs -> Int]
      /\ currentProcess \in PIDs \cup {NoPid} /\ foregroundSet \subseteq PIDs
  BY InvTypes
<1>p. p \in PIDs /\ p # INIT_PID /\ p # IDLE_PID /\ INIT_PID \in PIDs /\ IDLE_PID \in PIDs
  BY PidFacts DEF Others
<1>1. /\ state' = notified(p).state /\ readyQueue' = notified(p).readyQueue
      /\ sem' = notified(p).sem
      /\ terminatedChildren' = [terminatedChildren EXCEPT ![ppid[p]] = Append(@, p)]
      /\ foregroundSet' = foregroundSet \ {p} /\ kernel' = OrphansOf(p, n)
      /\ UNCHANGED <<ppid, children, cont, currentProcess>>
  BY DEF terminate, continueWith
<1>2. /\ queuesOK(state', readyQueue', sem') /\ blockedOK(state', sem')
      /\ Life(state') = l2
      /\ state'[p] = "ZOMBIE"
      /\ \A x \in PIDs : x # p /\ state[x] # "BLOCKED" => state'[x] = state[x]
      /\ \A c \in PIDs : c # p => sem'[terminated(c)] = sem[terminated(c)]
      /\ \A m \in PIDs : waits(m, sem', terminated(p)) => waits(m, sem, terminated(p))
      /\ Tokens(sem') \in [PIDs -> Int]
      /\ Tokens(sem')[ppid[p]] = Tokens(sem)[ppid[p]] + 1
      /\ \A x \in PIDs : x # ppid[p] => Tokens(sem')[x] = Tokens(sem)[x]
  BY <1>1, NotifyEffects
<1>3. lv[p] = "ALIVE"
  OBVIOUS
<1> HIDE DEF lv, ia
<1>4. treeOK(l2, ppid, children, p, ia)
  BY <1>0, <1>3, <1>t, TreeDeath
<1>5. zombiesOK(l2, ppid, terminatedChildren', Tokens(sem'), p, ia)
  <2>1. \A x \in PIDs : Taken(x, ia) => lv[x] = "ZOMBIE"
    BY <1>0 DEF treeOK
  <2> DEFINE tk == Tokens(sem)
             tk2 == Tokens(sem')
  <2>2. /\ tk \in [PIDs -> Int] /\ tk2 \in [PIDs -> Int] /\ tk2[ppid[p]] = tk[ppid[p]] + 1
        /\ \A x \in PIDs : x # ppid[p] => tk2[x] = tk[x]
        /\ zombiesOK(lv, ppid, terminatedChildren, tk, NoPid, ia)
    BY <1>0, <1>2, <1>t
  <2> HIDE DEF tk, tk2
  <2>3. zombiesOK([lv EXCEPT ![p] = "ZOMBIE"], ppid,
                  [terminatedChildren EXCEPT ![ppid[p]] = Append(@, p)], tk2, p, ia)
    BY <1>3, <1>p, <1>t, <2>1, <2>2, ZombiesDeath
  <2>. QED
    BY <1>1, <2>3 DEF tk2
<1>6. waitersOK(l2, ppid, cont, sem')
  BY <1>0, <1>2, <1>3, <1>p, <1>t, WaitersDeath
<1>7. rolesOK(l2, state', cont, currentProcess, OrphansOf(p, n), foregroundSet \ {p}, sem')
  <2>1. /\ l2[p] = "ZOMBIE" /\ \A x \in PIDs : x # p => l2[x] = lv[x]
    BY <1>p, <1>t DEF Lives
  <2> HIDE DEF l2
  <2>2. state'[IDLE_PID] \in {"READY", "RUNNING"}
    BY <1>0, <1>2, <1>p DEF rolesOK
  <2>3. currentProcess # NoPid =>
           \/ state'[currentProcess] = "RUNNING"
           \/ state'[currentProcess] = "ZOMBIE" /\ OrphansOf(p, n) = OrphansOf(currentProcess, NoPid)
    <3>1. CASE currentProcess = p
      BY <1>2, <3>1
    <3>2. CASE currentProcess # p
      BY <1>2, <1>t, <3>2
    <3>. QED
      BY <3>1, <3>2
  <2>4. /\ OrphansOf(p, n).op = "orphans" /\ OrphansOf(p, n).next = n
        /\ OrphansOf(p, n) # Reaping /\ OrphansOf(p, n) # Halted
    BY <1>p, LoopFacts
  <2>5. \A x \in foregroundSet \ {p} : l2[x] = "ALIVE"
    BY <1>0, <1>t, <2>1 DEF rolesOK
  <2>6. cont[INIT_PID] # InitAt("start")
    <3>1. lv[p] # "FREE"
      BY <1>3
    <3>. QED
      BY <1>0, <3>1 DEF rolesOK
  <2>7. l2[INIT_PID] = "ALIVE"
    BY <1>0, <1>p, <2>1 DEF rolesOK
  <2>8. /\ cont[IDLE_PID] = IdleCode
        /\ cont[INIT_PID] \in InitPlaces
        /\ \A x \in Others : cont[x] = UserCode \/ \E c \in PIDs : cont[x] = AfterWaitPid(c)
    BY <1>0 DEF rolesOK
  <2>9. OrphansOf(p, n).op # "ctrl_c"
    BY <2>4
  <2>. QED
    BY <2>2, <2>3, <2>4, <2>5, <2>6, <2>7, <2>8, <2>9 DEF rolesOK
<1>8. Orphaning(kernel') = p
  BY <1>1, <1>p, LoopFacts
<1>. QED
  BY <1>1, <1>2, <1>4, <1>5, <1>6, <1>7, <1>8 DEF FamilyInv, ia

\* sys_kill, sys_exit and Ctrl+C: nobody is killed twice, and sys_exit is never
\* refused.
LEMMA KillActions ==
    ASSUME Disciplined, FamilyInv, CoreInv',
           SysExit \/ \E p \in PIDs : SysKill(p) \/ KillInFG(p)
    PROVE  FamilyInv'
<1> DEFINE lv == Life(state)
<1>0. /\ rolesOK(lv, state, cont, currentProcess, kernel, foregroundSet, sem)
      /\ treeOK(lv, ppid, children, Orphaning(kernel), cont[INIT_PID])
      /\ state \in [PIDs -> States] /\ ppid \in [PIDs -> PIDs]
  BY InvTypes DEF FamilyInv
<1>1. \A x \in PIDs : state[x] # "FREE" /\ state[x] # "ZOMBIE" => lv[x] = "ALIVE"
  BY DEF Life, life
<1>2. \A x \in PIDs : lv[x] = "ALIVE" => state[x] # "FREE"
  BY DEF Life, life
<1>3. \A x \in PIDs : killable(x) => x \in Others /\ state[x] # "FREE"
  BY DEF killable, isUnkillable, Others
<1>4. ASSUME NEW p \in PIDs, SysKill(p) PROVE FamilyInv'
  <2>1. InUserCode /\ killable(p) /\ state[p] # "ZOMBIE" /\ terminate(p, NoPid)
    BY <1>4 DEF SysKill, MayKill, Disciplined, Abuses
  <2>2. Orphaning(kernel) = NoPid /\ state[currentProcess] = "RUNNING"
    BY <2>1, CallerFacts
  <2>3. p \in Others /\ lv[p] = "ALIVE"
    BY <1>1, <1>3, <2>1
  <2>. QED
    BY <2>1, <2>2, <2>3, TerminateStep
<1>5. CASE SysExit
  <2>1. InUserCode
    BY <1>5 DEF SysExit
  <2> DEFINE p == currentProcess
  <2>2. /\ Orphaning(kernel) = NoPid /\ state[p] = "RUNNING" /\ p \in Others /\ p \in PIDs
        /\ lv[p] = "ALIVE"
    BY <2>1, CallerFacts
  <2>3. killable(p)
    <3>1. ppid[p] \in PIDs /\ ppid[p] # NoPid
      BY <1>0, <2>2, PidFacts
    <3>2. lv[ppid[p]] = "ALIVE"
      BY <1>0, <2>2, <3>1 DEF treeOK
    <3>. QED
      BY <1>2, <2>2, <3>1, <3>2 DEF killable, isUnkillable, Others
  <2>4. terminate(p, NoPid)
    BY <1>5, <2>3 DEF SysExit
  <2>. QED
    BY <2>2, <2>4, TerminateStep
<1>6. ASSUME NEW p \in PIDs, KillInFG(p) PROVE FamilyInv'
  <2>1. kernel.op = "ctrl_c" /\ p \in foregroundSet /\ killable(p) /\ terminate(p, p + 1)
    BY <1>6 DEF KillInFG, nextInFG
  <2>2. Orphaning(kernel) = NoPid
    BY <2>1 DEF Orphaning
  <2>3. p \in Others /\ lv[p] = "ALIVE"
    BY <1>0, <1>3, <2>1 DEF rolesOK
  <2>4. currentProcess \notin foregroundSet
    BY <1>0, <2>1 DEF rolesOK
  <2>5. currentProcess # NoPid => state[currentProcess] = "RUNNING"
    BY <1>0, <2>1, InvTypes, LoopFacts DEF rolesOK
  <2>. QED
    BY <2>1, <2>2, <2>3, <2>4, <2>5, TerminateStep
<1>. QED
  BY <1>4, <1>5, <1>6

\* One round of transferOrphanChildren.
LEMMA TransferAction ==
    ASSUME FamilyInv, CoreInv', TransferOrphan
    PROVE  FamilyInv'
<1> DEFINE lv == Life(state)
           ia == cont[INIT_PID]
           q == kernel.pid
           c == Head(children[q])
           t == childTerminated(INIT_PID)
           k2 == semPost(Sched, t)
<1>t. /\ state \in [PIDs -> States] /\ lv \in Lives /\ ppid \in [PIDs -> PIDs]
      /\ children \in [PIDs -> Seq(PIDs)] /\ sem \in [SemIds -> Semaphores]
      /\ terminatedChildren \in [PIDs -> Seq(PIDs)] /\ Tokens(sem) \in [PIDs -> Int]
      /\ currentProcess \in PIDs \cup {NoPid} /\ kernel \in Loops
  BY InvTypes
<1>1. /\ kernel.op = "orphans" /\ children[q] # <<>>
      /\ UNCHANGED <<currentProcess, foregroundSet, cont, kernel>>
  BY DEF TransferOrphan
<1>2. q \in PIDs /\ Orphaning(kernel) = q
  BY <1>1, <1>t, LabelFacts DEF Orphaning
<1>0. /\ rolesOK(lv, state, cont, currentProcess, kernel, foregroundSet, sem)
      /\ treeOK(lv, ppid, children, q, ia)
      /\ zombiesOK(lv, ppid, terminatedChildren, Tokens(sem), q, ia)
      /\ waitersOK(lv, ppid, cont, sem)
      /\ queuesOK(state, readyQueue, sem) /\ blockedOK(state, sem)
  BY <1>2 DEF FamilyInv
<1>3. /\ c \in Others /\ lv[c] # "FREE" /\ ppid[c] = q /\ q # INIT_PID /\ ~Taken(c, ia)
      /\ treeOK(lv, [ppid EXCEPT ![c] = INIT_PID],
                [[children EXCEPT ![q] = Tail(@)] EXCEPT ![INIT_PID] = Append(@, c)], q, ia)
  <2>1. /\ lv \in Lives /\ ppid \in [PIDs -> PIDs] /\ children \in [PIDs -> Seq(PIDs)]
        /\ q \in PIDs
    BY <1>2, <1>t
  <2>2. treeOK(lv, ppid, children, q, ia) /\ children[q] # <<>>
    BY <1>0, <1>1
  <2> DEFINE pr == [ppid EXCEPT ![c] = INIT_PID]
             cl == [[children EXCEPT ![q] = Tail(@)] EXCEPT ![INIT_PID] = Append(@, c)]
             o == c
  <2>3. handedOver(ppid, children, q, o, pr, cl)
    BY DEF handedOver
  <2> HIDE DEF lv, ia, q, pr, cl, o
  <2>4. /\ o \in Others /\ lv[o] # "FREE" /\ ppid[o] = q /\ q # INIT_PID /\ ~Taken(o, ia)
        /\ treeOK(lv, pr, cl, q, ia)
    <3>1. treeOK(lv, pr, cl, q, ia)
      BY <2>1, <2>2, <2>3, TreeTransfer
    <3>2. o \in Others
      BY <2>1, <2>2, <2>3, TreeTransfer, Zenon
    <3>3. o \in PIDs /\ isIn(o, children[q])
      BY <2>1, <2>2, <2>3, PollProperties DEF handedOver
    <3>4. lv[o] # "FREE" /\ ppid[o] = q
      BY <2>1, <2>2, <3>3 DEF treeOK
    <3>5. q # INIT_PID
      BY <2>1, <2>2, PidFacts DEF treeOK
    <3>6. ~Taken(o, ia)
      BY <2>2, <3>3, <3>4, <3>5 DEF treeOK
    <3>. QED
      BY <3>1, <3>2, <3>4, <3>5, <3>6
  <2>. QED
    BY <2>4 DEF o, pr, cl
<1>4. c \in PIDs /\ (lv[c] = "ZOMBIE" <=> state[c] = "ZOMBIE") /\ state[c] # "FREE"
      /\ lv[q] = "ZOMBIE" /\ lv[INIT_PID] = "ALIVE"
  <2>1. c \in PIDs
    BY <1>3 DEF Others
  <2>2. (lv[c] = "ZOMBIE" <=> state[c] = "ZOMBIE") /\ (lv[c] = "FREE" <=> state[c] = "FREE")
    BY <2>1 DEF Life, life
  <2>3. lv[q] = "ZOMBIE" /\ lv[INIT_PID] = "ALIVE"
    BY <1>0, <1>2, PidFacts DEF treeOK
  <2>. QED
    BY <1>3, <2>1, <2>2, <2>3
<1>5. /\ children' = [[children EXCEPT ![q] = Tail(@)] EXCEPT ![INIT_PID] = Append(@, c)]
      /\ ppid' = [ppid EXCEPT ![c] = INIT_PID]
      /\ \/ /\ state[c] = "ZOMBIE"
            /\ terminatedChildren' = [terminatedChildren EXCEPT ![INIT_PID] = Append(@, c)]
            /\ state' = k2.state /\ readyQueue' = k2.readyQueue /\ sem' = k2.sem
         \/ /\ state[c] # "ZOMBIE"
            /\ UNCHANGED <<state, readyQueue, sem, terminatedChildren>>
  BY <1>4 DEF TransferOrphan, setInitParent, initTold
<1>6. t \in SemIds /\ INIT_PID \in PIDs /\ IDLE_PID \in PIDs
  BY SemIdFacts, PidFacts
<1>7. /\ queuesOK(k2.state, k2.readyQueue, k2.sem) /\ k2 \in SchedStates
      /\ Life(k2.state) = lv
      /\ \A x \in SemIds : x # t => k2.sem[x] = sem[x]
      /\ \A x \in PIDs : k2.state[x] = state[x]
                            \/ (state[x] = "BLOCKED" /\ k2.state[x] = "READY")
      /\ \A x \in PIDs : waits(x, sem, t) /\ k2.state[x] = "BLOCKED" => waits(x, k2.sem, t)
      /\ k2.sem[t].value = sem[t].value + 1
  <2>1. /\ Sched \in SchedStates /\ \A x \in SemIds : debtIsQueue(Sched.sem[x])
        /\ queuesOK(Sched.state, Sched.readyQueue, Sched.sem)
        /\ Sched.state = state /\ Sched.sem = sem
    BY <1>0, InvTypes DEF Sched, SchedStates
  <2>2. t = childTerminated(INIT_PID)
    OBVIOUS
  <2> HIDE DEF t, k2
  <2>. QED
    BY <1>6, <2>1, <2>2, PostKeepsQueues DEF k2
<1>n. /\ \A x \in PIDs : terminated(x) # t
      /\ \A x \in PIDs : x # INIT_PID => childTerminated(x) # t
  BY <1>6, SemIdsDiffer
<1>h. t = childTerminated(INIT_PID)
  OBVIOUS
<1> HIDE DEF k2, t, c, q
<1>8. /\ queuesOK(state', readyQueue', sem') /\ Life(state') = lv
      /\ \A x \in SemIds : x # t => sem'[x] = sem[x]
      /\ \A x \in PIDs : state'[x] = state[x] \/ (state[x] = "BLOCKED" /\ state'[x] = "READY")
      /\ \A x \in PIDs : \A s \in SemIds :
            waits(x, sem, s) /\ state'[x] = "BLOCKED" => waits(x, sem', s)
      /\ sem' \in [SemIds -> Semaphores]
  <2>1. CASE state[c] = "ZOMBIE"
    <3>1. state' = k2.state /\ readyQueue' = k2.readyQueue /\ sem' = k2.sem
      BY <1>5, <2>1
    <3>2. \A x \in PIDs : \A s \in SemIds :
            waits(x, sem, s) /\ k2.state[x] = "BLOCKED" => waits(x, k2.sem, s)
      BY <1>7 DEF waits
    <3>3. k2.sem \in [SemIds -> Semaphores]
      BY <1>7 DEF SchedStates
    <3>. QED
      BY <1>7, <3>1, <3>2, <3>3
  <2>2. CASE state[c] # "ZOMBIE"
    BY <1>0, <1>5, <1>t, <2>2
  <2>. QED
    BY <2>1, <2>2
<1>9. blockedOK(state', sem')
  <2>1. \A x \in PIDs : state'[x] = "BLOCKED" => state[x] = "BLOCKED"
    BY <1>8
  <2>. QED
    BY <1>0, <1>8, <2>1 DEF blockedOK
<1> HIDE DEF lv, ia
<1>10. rolesOK(lv, state', cont, currentProcess, kernel, foregroundSet, sem')
  <2>1. state'[IDLE_PID] = state[IDLE_PID]
    BY <1>0, <1>6, <1>8 DEF rolesOK
  <2>2. currentProcess # NoPid => state'[currentProcess] = state[currentProcess]
    BY <1>0, <1>8, <1>t DEF rolesOK
  <2>3. cont[INIT_PID] # InitAt("start")
    BY <1>0, <1>3 DEF rolesOK
  <2>. QED
    BY <1>0, <2>1, <2>2, <2>3 DEF rolesOK
<1>11. zombiesOK(lv, ppid', terminatedChildren', Tokens(sem'), q, ia)
  <2> DEFINE tk == Tokens(sem)
             tk2 == Tokens(sem')
  <2>1. tk \in [PIDs -> Int] /\ zombiesOK(lv, ppid, terminatedChildren, tk, q, ia)
    BY <1>0, <1>t
  <2>2. tk2 \in [PIDs -> Int]
    BY <1>8, SemIdFacts DEF Tokens, Semaphores
  <2>3. \/ /\ lv[c] = "ZOMBIE"
           /\ terminatedChildren' = [terminatedChildren EXCEPT ![INIT_PID] = Append(@, c)]
           /\ tk2[INIT_PID] = tk[INIT_PID] + 1
           /\ \A p \in PIDs : p # INIT_PID => tk2[p] = tk[p]
        \/ lv[c] # "ZOMBIE" /\ terminatedChildren' = terminatedChildren /\ tk2 = tk
    <3>1. CASE state[c] = "ZOMBIE"
      <4>1. sem' = k2.sem
        BY <1>5, <3>1
      <4>2. tk2[INIT_PID] = tk[INIT_PID] + 1
        BY <1>6, <1>7, <1>h, <4>1 DEF Tokens
      <4>3. \A p \in PIDs : p # INIT_PID => sem'[childTerminated(p)] = sem[childTerminated(p)]
        BY <1>8, <1>n, SemIdFacts
      <4>4. \A p \in PIDs : p # INIT_PID => tk2[p] = tk[p]
        BY <4>3 DEF Tokens
      <4>. QED
        BY <1>4, <1>5, <3>1, <4>2, <4>4
    <3>2. CASE state[c] # "ZOMBIE"
      <4>1. sem' = sem /\ terminatedChildren' = terminatedChildren
        BY <1>5, <3>2
      <4>. QED
        BY <1>4, <3>2, <4>1
    <3>. QED
      BY <3>1, <3>2
  <2> HIDE DEF tk, tk2
  <2>4. zombiesOK(lv, [ppid EXCEPT ![c] = INIT_PID], terminatedChildren', tk2, q, ia)
    BY <1>2, <1>3, <1>4, <1>t, <2>1, <2>2, <2>3, ZombiesTransfer
  <2>. QED
    BY <1>5, <2>4 DEF tk2
<1>12. waitersOK(lv, ppid', cont, sem')
  <2>1. lv[ppid[c]] # "ALIVE"
    BY <1>3, <1>4
  <2>2. \A x \in PIDs : sem'[terminated(x)] = sem[terminated(x)]
    BY <1>8, <1>n, SemIdFacts
  <2>3. waitersOK(lv, [ppid EXCEPT ![c] = INIT_PID], cont, sem')
    BY <1>0, <1>4, <1>t, <2>1, <2>2, WaitersTransfer
  <2>. QED
    BY <1>5, <2>3
<1>13. treeOK(lv, ppid', children', q, ia)
  BY <1>3, <1>5
<1>14. Orphaning(kernel') = q /\ cont'[INIT_PID] = ia
  BY <1>1, <1>2 DEF ia
<1>. QED
  BY <1>1, <1>8, <1>9, <1>10, <1>11, <1>12, <1>13, <1>14 DEF FamilyInv

\* The two semaphores of the slot p are made new.
renewed(p, sm, sm2) == sm2 = [sm EXCEPT ![terminated(p)] = newSemaphore(0),
                                        ![childTerminated(p)] = newSemaphore(0)]

\* The two semaphores of a slot are made new; the others stay.
LEMMA RenewedSemaphores ==
    ASSUME NEW p \in PIDs, NEW sm \in [SemIds -> Semaphores], NEW sm2, renewed(p, sm, sm2)
    PROVE  /\ sm2 \in [SemIds -> Semaphores]
           /\ sm2[terminated(p)] = newSemaphore(0)
           /\ sm2[childTerminated(p)] = newSemaphore(0)
           /\ \A s \in SemIds : s # terminated(p) /\ s # childTerminated(p) => sm2[s] = sm[s]
           /\ \A x \in PIDs : x # p => /\ sm2[terminated(x)] = sm[terminated(x)]
                                       /\ sm2[childTerminated(x)] = sm[childTerminated(x)]
           /\ newSemaphore(0).value = 0 /\ newSemaphore(0).blockedQueue = <<>>
<1>1. newSemaphore(0) \in Semaphores
  BY DEF newSemaphore, Semaphores
<1>2. terminated(p) \in SemIds /\ childTerminated(p) \in SemIds
  BY SemIdFacts
<1>3. terminated(p) # childTerminated(p)
  BY SemIdsDiffer
<1>4. /\ sm2 \in [SemIds -> Semaphores]
      /\ sm2[terminated(p)] = newSemaphore(0)
      /\ sm2[childTerminated(p)] = newSemaphore(0)
      /\ \A s \in SemIds : s # terminated(p) /\ s # childTerminated(p) => sm2[s] = sm[s]
  BY <1>1, <1>2, <1>3 DEF renewed
<1>5. \A x \in PIDs : x # p => /\ terminated(x) # terminated(p)
                               /\ terminated(x) # childTerminated(p)
                               /\ childTerminated(x) # terminated(p)
                               /\ childTerminated(x) # childTerminated(p)
  BY SemIdsDiffer
<1>6. \A x \in PIDs : x # p => /\ sm2[terminated(x)] = sm[terminated(x)]
                               /\ sm2[childTerminated(x)] = sm[childTerminated(x)]
  BY <1>4, <1>5, SemIdFacts
<1>7. newSemaphore(0).value = 0 /\ newSemaphore(0).blockedQueue = <<>>
  BY DEF newSemaphore
<1>. QED
  BY <1>4, <1>6, <1>7

\* Nobody alive waits on the semaphores of a slot p that is free, or about to
\* be.
LEMMA NobodyThere ==
    ASSUME NEW p \in PIDs, p # INIT_PID, queuesOK(state, readyQueue, sem),
           waitersOK(Life(state), ppid, cont, sem),
           \A m \in PIDs : Life(state)[m] = "ALIVE" => cont[m] # AfterWaitPid(p)
    PROVE  \A x \in PIDs : Life(state)[x] = "ALIVE" =>
              ~waits(x, sem, terminated(p)) /\ ~waits(x, sem, childTerminated(p))
<1>1. \A x \in PIDs : ~waits(x, sem, childTerminated(p))
  BY EmptyQueue DEF queuesOK, waits
<1>2. \A x \in PIDs : Life(state)[x] = "ALIVE" => ~waits(x, sem, terminated(p))
  BY DEF waitersOK
<1>. QED
  BY <1>1, <1>2

\* The new process p begins in user code, and init, if it made it, goes on.
begins(p) ==
    \/ /\ cont[INIT_PID] # InitAt("start")
       /\ cont' = [cont EXCEPT ![p] = UserCode]
    \/ /\ cont[INIT_PID] = InitAt("start")
       /\ cont' = [cont EXCEPT ![INIT_PID] = InitAt("wait_any"), ![p] = UserCode]

\* startNewProcess, by init or by a user process.
LEMMA StartStep ==
    ASSUME FamilyInv, CoreInv', NEW p \in PIDs, startNewProcess(p),
           UNCHANGED <<currentProcess, foregroundSet, kernel>>,
           currentProcess \in PIDs, currentProcess # IDLE_PID,
           state[currentProcess] = "RUNNING", kernel = NoLoop,
           \A s \in SemIds : ~waits(p, sem, s), begins(p)
    PROVE  FamilyInv'
<1> DEFINE lv == Life(state)
           l2 == [lv EXCEPT ![p] = "ALIVE"]
           ia == cont[INIT_PID]
           cur == currentProcess
<1>0. /\ rolesOK(lv, state, cont, cur, kernel, foregroundSet, sem)
      /\ treeOK(lv, ppid, children, NoPid, ia)
      /\ zombiesOK(lv, ppid, terminatedChildren, Tokens(sem), NoPid, ia)
      /\ waitersOK(lv, ppid, cont, sem)
      /\ queuesOK(state, readyQueue, sem) /\ blockedOK(state, sem)
  BY LoopFacts DEF FamilyInv
<1>t. /\ state \in [PIDs -> States] /\ readyQueue \in Seq(PIDs) /\ lv \in Lives
      /\ ppid \in [PIDs -> PIDs] /\ children \in [PIDs -> Seq(PIDs)]
      /\ terminatedChildren \in [PIDs -> Seq(PIDs)] /\ Tokens(sem) \in [PIDs -> Int]
      /\ sem \in [SemIds -> Semaphores] /\ cont \in [PIDs -> Conts]
      /\ foregroundSet \subseteq PIDs
  BY InvTypes
<1>1. /\ state[p] = "FREE" /\ state' = [state EXCEPT ![p] = "READY"]
      /\ readyQueue' = Append(readyQueue, p)
      /\ sem' = [sem EXCEPT ![terminated(p)] = newSemaphore(0),
                            ![childTerminated(p)] = newSemaphore(0)]
      /\ terminatedChildren' = [terminatedChildren EXCEPT ![p] = <<>>]
      /\ ppid' = [ppid EXCEPT ![p] = cur]
      /\ children' = [children EXCEPT ![p] = <<>>, ![cur] = Append(@, p)]
  BY DEF startNewProcess, newProcess, isFirstFree
<1>2. /\ lv[p] = "FREE" /\ lv[cur] = "ALIVE" /\ lv[INIT_PID] = "ALIVE" /\ lv[IDLE_PID] = "ALIVE"
      /\ INIT_PID \in PIDs /\ IDLE_PID \in PIDs /\ NoPid \notin PIDs
  BY <1>0, <1>1, PidFacts DEF Life, life, treeOK
<1>3. p # INIT_PID /\ p # IDLE_PID /\ p # cur /\ p \in Others
  BY <1>2 DEF Others
<1>4. /\ sem' \in [SemIds -> Semaphores]
      /\ sem'[terminated(p)] = newSemaphore(0) /\ sem'[childTerminated(p)] = newSemaphore(0)
      /\ \A s \in SemIds : s # terminated(p) /\ s # childTerminated(p) => sem'[s] = sem[s]
      /\ \A x \in PIDs : x # p => /\ sem'[terminated(x)] = sem[terminated(x)]
                                  /\ sem'[childTerminated(x)] = sem[childTerminated(x)]
      /\ newSemaphore(0).value = 0 /\ newSemaphore(0).blockedQueue = <<>>
  <2>1. renewed(p, sem, sem')
    BY <1>1 DEF renewed
  <2>. QED
    <3> DEFINE sm2 == sem'
    <3>1. renewed(p, sem, sm2) /\ sem \in [SemIds -> Semaphores]
      BY <1>t, <2>1
    <3> HIDE DEF sm2
    <3>2. /\ sm2 \in [SemIds -> Semaphores]
          /\ sm2[terminated(p)] = newSemaphore(0) /\ sm2[childTerminated(p)] = newSemaphore(0)
      BY <3>1, RenewedSemaphores
    <3>3. \A s \in SemIds : s # terminated(p) /\ s # childTerminated(p) => sm2[s] = sem[s]
      BY <3>1, RenewedSemaphores
    <3>4. \A x \in PIDs : x # p => /\ sm2[terminated(x)] = sem[terminated(x)]
                                  /\ sm2[childTerminated(x)] = sem[childTerminated(x)]
      BY <3>1, RenewedSemaphores
    <3>5. newSemaphore(0).value = 0 /\ newSemaphore(0).blockedQueue = <<>>
      BY DEF newSemaphore
    <3>. QED
      BY <3>2, <3>3, <3>4, <3>5 DEF sm2
<1>5. /\ state' \in [PIDs -> States] /\ state'[p] = "READY"
      /\ \A x \in PIDs : x # p => state'[x] = state[x]
  BY <1>1, <1>t DEF States
<1>6. Life(state') = l2 /\ \A x \in PIDs : x # p => life(state', x) = life(state, x)
  BY <1>5 DEF Life, life
<1>7. \A s \in SemIds : \/ sem'[s].blockedQueue = sem[s].blockedQueue
                        \/ sem'[s].blockedQueue = <<>>
  BY <1>4
<1>8. \A x \in PIDs : \A s \in SemIds : waits(x, sem', s) => waits(x, sem, s) /\ x # p
  <2>1. \A s \in SemIds : ~waits(p, sem, s)
    OBVIOUS
  <2>2. \A x \in PIDs : \A s \in SemIds : waits(x, sem', s) => waits(x, sem, s)
    BY <1>7, EmptyQueue DEF waits
  <2>. QED
    BY <2>1, <2>2
<1>9. queuesOK(state', readyQueue', sem')
  <2>1. ~isIn(p, readyQueue)
    BY <1>0, <1>1 DEF queuesOK
  <2>2. /\ \A x \in PIDs : isIn(x, readyQueue') => isIn(x, readyQueue) \/ x = p
        /\ noRepeats(readyQueue')
    BY <1>0, <1>1, <1>t, <2>1, EnqueueProperties DEF queuesOK
  <2>3. \A x \in PIDs : isIn(x, readyQueue') => state'[x] = "READY"
    BY <1>0, <1>5, <2>2 DEF queuesOK
  <2>4. life(state', INIT_PID) = "ALIVE"
    BY <1>0, <1>2, <1>3, <1>6 DEF queuesOK
  <2>5. \A x \in PIDs : \A s \in SemIds : waits(x, sem', s) /\ life(state', x) = "ALIVE" =>
           life(state, x) = "ALIVE" /\ (state[x] = "BLOCKED" => state'[x] = "BLOCKED")
    BY <1>5, <1>6, <1>8
  <2>. QED
    <3> DEFINE st2 == state'
               rq2 == readyQueue'
               sm2 == sem'
    <3>1. st2 \in [PIDs -> States] /\ sm2 \in [SemIds -> Semaphores]
      BY <1>4, <1>5
    <3>2. /\ \A s \in SemIds : \/ sm2[s].blockedQueue = sem[s].blockedQueue
                               \/ sm2[s].blockedQueue = <<>>
          /\ \A x \in PIDs : isIn(x, rq2) => st2[x] = "READY"
          /\ noRepeats(rq2) /\ life(st2, INIT_PID) = "ALIVE"
          /\ \A x \in PIDs : \A s \in SemIds : waits(x, sm2, s) /\ life(st2, x) = "ALIVE" =>
                life(state, x) = "ALIVE" /\ (state[x] = "BLOCKED" => st2[x] = "BLOCKED")
      BY <1>7, <2>2, <2>3, <2>4, <2>5
    <3>3. /\ state \in [PIDs -> States] /\ sem \in [SemIds -> Semaphores]
          /\ queuesOK(state, readyQueue, sem)
      BY <1>0, <1>t
    <3> HIDE DEF st2, rq2, sm2
    <3>4. queuesOK(st2, rq2, sm2)
      BY <3>1, <3>2, <3>3, QueuesKept
    <3>. QED
      BY <3>4 DEF st2, rq2, sm2
<1>10. blockedOK(state', sem')
  <2>1. \A m \in PIDs : lv[m] = "ALIVE" => cont[m] # AfterWaitPid(p)
    BY <1>0, <1>2 DEF waitersOK
  <2>2. \A x \in PIDs : lv[x] = "ALIVE" =>
              ~waits(x, sem, terminated(p)) /\ ~waits(x, sem, childTerminated(p))
    BY <1>0, <1>3, <2>1, NobodyThere
  <2>3. \A x \in PIDs : state'[x] = "BLOCKED" => state[x] = "BLOCKED" /\ lv[x] = "ALIVE"
    BY <1>5 DEF Life, life
  <2>4. \A x \in PIDs : \A s \in SemIds :
           waits(x, sem, s) /\ lv[x] = "ALIVE" => waits(x, sem', s)
    BY <1>4, <2>2 DEF waits
  <2>. QED
    BY <1>0, <2>3, <2>4 DEF blockedOK
<1> HIDE DEF lv
<1>11. /\ cont'[p] = UserCode /\ cont'[IDLE_PID] = cont[IDLE_PID]
       /\ \A x \in PIDs : x # p /\ x # INIT_PID => cont'[x] = cont[x]
       /\ \/ cont'[INIT_PID] = ia /\ ia # InitAt("start")
          \/ cont'[INIT_PID] = InitAt("wait_any") /\ ia = InitAt("start")
  <2>1. IDLE_PID # INIT_PID
    BY DEF IDLE_PID, INIT_PID
  <2>. QED
    BY <1>2, <1>3, <1>t, <2>1 DEF begins
<1>12. /\ cont'[INIT_PID] # InitAt("start")
       /\ sameTaken(ia, cont'[INIT_PID])
       /\ cont'[INIT_PID] = InitAt("poll") <=> ia = InitAt("poll")
       /\ \A x \in PIDs : cont'[INIT_PID] = AfterWaitPid(x) <=> ia = AfterWaitPid(x)
  <2>1. CASE cont'[INIT_PID] = ia /\ ia # InitAt("start")
    BY <2>1 DEF sameTaken
  <2>2. CASE cont'[INIT_PID] = InitAt("wait_any") /\ ia = InitAt("start")
    <3> HIDE DEF ia
    <3>1. sameTaken(ia, cont'[INIT_PID])
      BY <2>2, TakenFacts DEF sameTaken
    <3>. QED
      BY <2>2, <3>1, ContsDiffer
  <2>. QED
    BY <1>11, <2>1, <2>2
<1> HIDE DEF ia, cur
<1>13. treeOK(l2, ppid', children', NoPid, cont'[INIT_PID])
  <2>1. treeOK(l2, [ppid EXCEPT ![p] = cur],
               [children EXCEPT ![p] = <<>>, ![cur] = Append(@, p)], NoPid, ia)
    <3>1. cur \in PIDs
      BY DEF cur
    <3>. QED
      BY <1>0, <1>2, <1>t, <3>1, TreeBirth
  <2>. QED
    BY <1>1, <1>12, <2>1, TreeSeesReaping
<1>14. zombiesOK(l2, ppid', terminatedChildren', Tokens(sem'), NoPid, cont'[INIT_PID])
  <2> DEFINE tk == Tokens(sem)
             tk2 == Tokens(sem')
  <2>1. tk2[p] = 0 /\ \A x \in PIDs : x # p => tk2[x] = tk[x]
    BY <1>4 DEF Tokens
  <2>2. \A x \in PIDs : lv[x] = "ZOMBIE" => lv[ppid[x]] # "FREE"
    <3>1. \A x \in PIDs : lv[x] = "ZOMBIE" => x \in Others /\ lv[x] # "FREE"
      BY <1>0 DEF treeOK, Others
    <3>2. \A x \in PIDs : ppid[x] # NoPid
      BY <1>2, <1>t
    <3>. QED
      BY <1>0, <3>1, <3>2 DEF treeOK
  <2>3. tk \in [PIDs -> Int] /\ zombiesOK(lv, ppid, terminatedChildren, tk, NoPid, ia)
    BY <1>0, <1>t
  <2>c. cur \in PIDs
    BY DEF cur
  <2> HIDE DEF tk, tk2
  <2>4. zombiesOK(l2, [ppid EXCEPT ![p] = cur], [terminatedChildren EXCEPT ![p] = <<>>],
                  tk2, NoPid, ia)
    BY <1>2, <1>3, <1>t, <2>1, <2>2, <2>3, <2>c, ZombiesBirth
  <2>5. zombiesOK(l2, [ppid EXCEPT ![p] = cur], [terminatedChildren EXCEPT ![p] = <<>>],
                  tk2, NoPid, cont'[INIT_PID])
    <3> DEFINE z == [ppid EXCEPT ![p] = cur]
               y == [terminatedChildren EXCEPT ![p] = <<>>]
               w == cont'[INIT_PID]
    <3>1. zombiesOK(l2, z, y, tk2, NoPid, ia)
      BY <2>4
    <3>2. /\ sameTaken(ia, w)
          /\ w = InitAt("poll") <=> ia = InitAt("poll")
      BY <1>12
    <3> HIDE DEF z, y, w, l2
    <3>3. zombiesOK(l2, z, y, tk2, NoPid, w)
      BY <3>1, <3>2, ZombiesSeeReaping
    <3>. QED
      BY <3>3 DEF z, y, w
  <2>. QED
    BY <1>1, <2>5 DEF tk2
<1>15. waitersOK(l2, ppid', cont', sem')
  <2>1. \A c \in PIDs : cont'[p] # AfterWaitPid(c)
    BY <1>11, ContsDiffer
  <2>2. \A x, c \in PIDs : x # p => (cont'[x] = AfterWaitPid(c) <=> cont[x] = AfterWaitPid(c))
    BY <1>11, <1>12 DEF ia
  <2>3. \A s \in SemIds : ~waits(p, sem, s)
    OBVIOUS
  <2>c. cur \in PIDs
    BY DEF cur
  <2>4. waitersOK(l2, [ppid EXCEPT ![p] = cur], cont', sem')
    <3> DEFINE ct2 == cont'
               sm2 == sem'
    <3>1. newborn(p, cont, ct2, sem, sm2)
      BY <1>4, <2>1, <2>2, <2>3 DEF newborn
    <3>2. waitersOK(lv, ppid, cont, sem) /\ lv[p] = "FREE"
      BY <1>0, <1>2
    <3>3. lv \in Lives /\ ppid \in [PIDs -> PIDs]
      BY <1>t
    <3> HIDE DEF ct2, sm2
    <3>4. waitersOK([lv EXCEPT ![p] = "ALIVE"], [ppid EXCEPT ![p] = cur], ct2, sm2)
      BY <2>c, <3>1, <3>2, <3>3, WaitersBirth
    <3>. QED
      BY <3>4 DEF ct2, sm2
  <2>. QED
    BY <1>1, <2>4
<1>16. rolesOK(l2, state', cont', cur, NoLoop, foregroundSet, sem')
  <2>1. l2[p] = "ALIVE" /\ \A x \in PIDs : x # p => l2[x] = lv[x]
    BY <1>t DEF Lives
  <2> HIDE DEF l2
  <2>2. state'[IDLE_PID] \in {"READY", "RUNNING"} /\ state'[cur] = "RUNNING"
    BY <1>0, <1>2, <1>3, <1>5 DEF rolesOK, cur
  <2>3. /\ cont'[IDLE_PID] = IdleCode
        /\ cont'[INIT_PID] \in InitPlaces
    BY <1>0, <1>11, PlaceFacts DEF rolesOK, ia
  <2>4. \A x \in Others : cont'[x] = UserCode \/ \E c \in PIDs : cont'[x] = AfterWaitPid(c)
    <3>1. \A x \in Others : cont[x] = UserCode \/ \E c \in PIDs : cont[x] = AfterWaitPid(c)
      BY <1>0 DEF rolesOK
    <3>2. \A x \in Others : cont'[x] = UserCode \/ cont'[x] = cont[x]
      BY <1>11 DEF Others
    <3>. QED
      BY <3>1, <3>2
  <2>5. l2[INIT_PID] = "ALIVE" /\ \A x \in foregroundSet : l2[x] = "ALIVE"
    BY <1>0, <1>2, <1>3, <1>t, <2>1 DEF rolesOK
  <2>6. NoLoop # Reaping /\ NoLoop # Halted /\ NoLoop.op = "none"
    BY LoopFacts
  <2>. QED
    BY <1>12, <2>2, <2>3, <2>4, <2>5, <2>6 DEF rolesOK
<1>17. Orphaning(kernel') = NoPid /\ kernel' = NoLoop /\ currentProcess' = cur
  BY LoopFacts DEF cur
<1>. QED
  BY <1>6, <1>9, <1>10, <1>13, <1>14, <1>15, <1>16, <1>17 DEF FamilyInv

\* sys_createProcess, and the shell that init starts.
LEMMA StartActions ==
    ASSUME Disciplined, FamilyInv, CoreInv', NEW p \in PIDs, SysCreateProcess(p) \/ InitStart(p)
    PROVE  FamilyInv'
<1>1. CASE SysCreateProcess(p)
  <2>1. /\ InUserCode /\ startNewProcess(p) /\ cont' = [cont EXCEPT ![p] = UserCode]
        /\ UNCHANGED <<currentProcess, foregroundSet, kernel>> /\ ~inBlockedQueue(p)
    BY <1>1 DEF SysCreateProcess, Disciplined, Abuses
  <2>2. /\ currentProcess \in PIDs /\ state[currentProcess] = "RUNNING" /\ kernel = NoLoop
        /\ currentProcess # IDLE_PID /\ cont[INIT_PID] # InitAt("start")
    BY <2>1, CallerFacts DEF Others
  <2>3. \A s \in SemIds : ~waits(p, sem, s)
    BY <2>1 DEF inBlockedQueue, waits
  <2>4. begins(p)
    BY <2>1, <2>2 DEF begins
  <2>. QED
    BY <2>1, <2>2, <2>3, <2>4, StartStep
<1>2. CASE InitStart(p)
  <2>1. /\ InitRunning("start") /\ startNewProcess(p)
        /\ cont' = [cont EXCEPT ![INIT_PID] = InitAt("wait_any"), ![p] = UserCode]
        /\ UNCHANGED <<currentProcess, foregroundSet, kernel>>
    BY <1>2 DEF InitStart
  <2>2. /\ currentProcess = INIT_PID /\ INIT_PID \in PIDs /\ state[INIT_PID] = "RUNNING"
        /\ kernel = NoLoop /\ cont[INIT_PID] = InitAt("start")
    BY <2>1, InitFacts
  <2>3. \A s \in SemIds : sem[s].blockedQueue = <<>>
    BY <2>2 DEF FamilyInv, rolesOK
  <2>4. \A s \in SemIds : ~waits(p, sem, s)
    BY <2>3, EmptyQueue DEF waits
  <2>5. begins(p)
    BY <2>1, <2>2 DEF begins
  <2>6. currentProcess # IDLE_PID
    BY <2>2 DEF INIT_PID, IDLE_PID
  <2>. QED
    BY <2>1, <2>2, <2>4, <2>5, <2>6, StartStep
<1>. QED
  BY <1>1, <1>2

\* reapProcess of the zombie c: its slot is free and its semaphores are blank.
LEMMA ReapEffects ==
    ASSUME FamilyInv, NEW c \in PIDs, Life(state)[c] = "ZOMBIE",
           NEW sm \in [SemIds -> Semaphores],
           \A s \in SemIds : sm[s].blockedQueue = sem[s].blockedQueue,
           \A s \in SemIds : s # childTerminated(ppid[c]) => sm[s] = sem[s],
           state[ppid[c]] = "RUNNING", readyQueue' = readyQueue,
           state' = [state EXCEPT ![c] = "FREE"], renewed(c, sm, sem')
    PROVE  /\ queuesOK(state', readyQueue', sem') /\ blockedOK(state', sem')
           /\ Life(state') = [Life(state) EXCEPT ![c] = "FREE"]
           /\ c \in Others /\ c # ppid[c]
           /\ \A x \in PIDs : x # c => state'[x] = state[x]
           /\ sem' \in [SemIds -> Semaphores]
           /\ sem'[terminated(c)] = newSemaphore(0)
           /\ \A x \in PIDs : x # c => sem'[terminated(x)] = sem[terminated(x)]
           /\ \A x \in PIDs : x # c => sem'[childTerminated(x)] = sm[childTerminated(x)]
<1> DEFINE lv == Life(state)
           m == ppid[c]
<1>t. /\ state \in [PIDs -> States] /\ sem \in [SemIds -> Semaphores]
      /\ ppid \in [PIDs -> PIDs]
  BY InvTypes
<1>0. /\ queuesOK(state, readyQueue, sem) /\ blockedOK(state, sem)
      /\ waitersOK(lv, ppid, cont, sem)
      /\ treeOK(lv, ppid, children, Orphaning(kernel), cont[INIT_PID])
  BY DEF FamilyInv
<1>1. /\ state' \in [PIDs -> States] /\ state'[c] = "FREE"
      /\ \A x \in PIDs : x # c => state'[x] = state[x]
  BY <1>t DEF States
<1>2. Life(state') = [lv EXCEPT ![c] = "FREE"]
  BY <1>1 DEF Life, life
<1>3. /\ state[c] = "ZOMBIE" /\ c \in Others /\ m \in PIDs
  BY <1>0, <1>t DEF treeOK, Others, Life, life
<1>r. state[m] = "RUNNING" /\ lv[c] = "ZOMBIE" /\ m = ppid[c]
  OBVIOUS
<1>4. /\ sem' \in [SemIds -> Semaphores]
      /\ sem'[terminated(c)] = newSemaphore(0) /\ sem'[childTerminated(c)] = newSemaphore(0)
      /\ \A s \in SemIds : s # terminated(c) /\ s # childTerminated(c) => sem'[s] = sm[s]
      /\ \A x \in PIDs : x # c => sem'[terminated(x)] = sm[terminated(x)]
      /\ \A x \in PIDs : x # c => sem'[childTerminated(x)] = sm[childTerminated(x)]
  <2> DEFINE s2 == sem'
  <2>1. renewed(c, sm, s2)
    OBVIOUS
  <2> HIDE DEF s2
  <2>2. /\ s2 \in [SemIds -> Semaphores]
        /\ s2[terminated(c)] = newSemaphore(0) /\ s2[childTerminated(c)] = newSemaphore(0)
    BY <2>1, RenewedSemaphores
  <2>3. \A s \in SemIds : s # terminated(c) /\ s # childTerminated(c) => s2[s] = sm[s]
    BY <2>1, RenewedSemaphores
  <2>4. \A x \in PIDs : x # c => /\ s2[terminated(x)] = sm[terminated(x)]
                                /\ s2[childTerminated(x)] = sm[childTerminated(x)]
    BY <2>1, RenewedSemaphores
  <2>. QED
    BY <2>2, <2>3, <2>4 DEF s2
<1>5. \A x \in PIDs : x # c => sem'[terminated(x)] = sem[terminated(x)]
  <2>1. \A x \in PIDs : terminated(x) \in SemIds /\ terminated(x) # childTerminated(m)
    BY <1>3, SemIdFacts, SemIdsDiffer
  <2>2. \A x \in PIDs : sm[terminated(x)] = sem[terminated(x)]
    BY <2>1
  <2>. QED
    BY <1>4, <2>2
<1>6. \A s \in SemIds : \/ sem'[s].blockedQueue = sem[s].blockedQueue
                        \/ sem'[s].blockedQueue = <<>>
  <2>1. newSemaphore(0).blockedQueue = <<>>
    BY DEF newSemaphore
  <2>. QED
    BY <1>4, <2>1
<1> HIDE DEF lv, m
<1>7. queuesOK(state', readyQueue', sem')
  <2>1. c # INIT_PID /\ INIT_PID \in PIDs
    BY <1>3, PidFacts DEF Others
  <2>2. life(state', INIT_PID) = "ALIVE"
    BY <1>0, <1>1, <2>1 DEF queuesOK, life
  <2>3. \A x \in PIDs : life(state', x) = "ALIVE" => life(state, x) = "ALIVE" /\ state'[x] = state[x]
    BY <1>1 DEF life
  <2>4. \A x \in PIDs : isIn(x, readyQueue) => state'[x] = "READY"
    BY <1>0, <1>1, <1>3 DEF queuesOK
  <2>5. noRepeats(readyQueue)
    BY <1>0 DEF queuesOK
  <2> DEFINE st2 == state'
             s2 == sem'
  <2>6. /\ st2 \in [PIDs -> States] /\ s2 \in [SemIds -> Semaphores]
        /\ \A s \in SemIds : \/ s2[s].blockedQueue = sem[s].blockedQueue
                             \/ s2[s].blockedQueue = <<>>
        /\ life(st2, INIT_PID) = "ALIVE"
        /\ \A x \in PIDs : life(st2, x) = "ALIVE" => life(state, x) = "ALIVE" /\ st2[x] = state[x]
        /\ \A x \in PIDs : isIn(x, readyQueue) => st2[x] = "READY"
    BY <1>1, <1>4, <1>6, <2>2, <2>3, <2>4
  <2> HIDE DEF st2, s2
  <2>7. queuesOK(st2, readyQueue, s2)
    BY <1>0, <1>t, <2>5, <2>6, QueuesKept
  <2>. QED
    BY <2>7 DEF st2, s2
<1>8. blockedOK(state', sem')
  <2>1. \A x \in PIDs : state'[x] = "BLOCKED" => state[x] = "BLOCKED" /\ lv[x] = "ALIVE" /\ x # m
    BY <1>1, <1>r DEF Life, life, lv
  <2>2. \A x \in PIDs : state'[x] = "BLOCKED" => ~waits(x, sem, terminated(c))
    BY <1>0, <1>r, <2>1 DEF waitersOK
  <2>3. \A x \in PIDs : ~waits(x, sem, childTerminated(c))
    <3>1. sem[childTerminated(c)].blockedQueue = <<>>
      BY <1>0, <1>3 DEF queuesOK, Others
    <3>. QED
      BY <3>1, EmptyQueue DEF waits
  <2>4. \A s \in SemIds : s # terminated(c) /\ s # childTerminated(c)
                             => sem'[s].blockedQueue = sem[s].blockedQueue
    BY <1>4
  <2>5. \A x \in PIDs : \A s \in SemIds :
           waits(x, sem, s) /\ state'[x] = "BLOCKED" => waits(x, sem', s)
    BY <2>2, <2>3, <2>4 DEF waits
  <2>. QED
    BY <1>0, <2>1, <2>5 DEF blockedOK
<1>9. c # m
  BY <1>3, <1>r
<1>. QED
  BY <1>1, <1>2, <1>3, <1>4, <1>5, <1>7, <1>8, <1>9 DEF lv, m

\* Who is where after the slot of the zombie c is freed by the process that runs.
LEMMA ReapRoles ==
    ASSUME FamilyInv, NEW c \in Others, Life(state)[c] = "ZOMBIE",
           \A x \in PIDs : x # c => state'[x] = state[x],
           currentProcess \in PIDs, state[currentProcess] = "RUNNING", currentProcess # c,
           kernel = NoLoop \/ (kernel = Reaping /\ cont'[currentProcess] = UserCode),
           cont'[c] = UserCode,
           \A x \in PIDs : x # c /\ x # currentProcess => cont'[x] = cont[x],
           \/ currentProcess \in Others /\ cont'[currentProcess] = UserCode
           \/ currentProcess = INIT_PID /\ cont'[INIT_PID] = InitClearing(c)
    PROVE  rolesOK([Life(state) EXCEPT ![c] = "FREE"], state', cont', currentProcess, kernel,
                   foregroundSet \ {c}, sem')
<1> DEFINE lv == Life(state)
           l2 == [lv EXCEPT ![c] = "FREE"]
<1>0. rolesOK(lv, state, cont, currentProcess, kernel, foregroundSet, sem)
  BY DEF FamilyInv
<1>1. /\ c \in PIDs /\ INIT_PID \in PIDs /\ IDLE_PID \in PIDs /\ c # INIT_PID /\ c # IDLE_PID
      /\ IDLE_PID # INIT_PID
  BY PidFacts DEF Others, INIT_PID, IDLE_PID
<1>2. lv \in Lives /\ foregroundSet \subseteq PIDs
  BY InvTypes
<1>3. l2[c] = "FREE" /\ \A x \in PIDs : x # c => l2[x] = lv[x]
  BY <1>1, <1>2 DEF Lives
<1>4. lv[c] = "ZOMBIE"
  OBVIOUS
<1> HIDE DEF lv, l2
<1>5. state'[IDLE_PID] \in {"READY", "RUNNING"} /\ state'[currentProcess] = "RUNNING"
  BY <1>0, <1>1 DEF rolesOK
<1>6. l2[INIT_PID] = "ALIVE" /\ \A x \in foregroundSet \ {c} : l2[x] = "ALIVE"
  BY <1>0, <1>1, <1>2, <1>3 DEF rolesOK
<1>7. cont[INIT_PID] # InitAt("start")
  <2>1. lv[c] # "FREE"
    BY <1>4
  <2>. QED
    BY <1>0, <2>1 DEF rolesOK
<1>8. currentProcess # IDLE_PID
  BY <1>1 DEF Others
<1>9. cont'[IDLE_PID] = IdleCode
  BY <1>0, <1>1, <1>8 DEF rolesOK
<1>10. /\ cont'[INIT_PID] # InitAt("start")
       /\ cont'[INIT_PID] \in InitPlaces
  <2>1. CASE currentProcess = INIT_PID
    <3>1. cont'[INIT_PID] = InitClearing(c)
      BY <2>1 DEF Others
    <3>. QED
      BY <1>1, <3>1, ContsDiffer, PlaceFacts
  <2>2. CASE currentProcess # INIT_PID
    <3>1. cont'[INIT_PID] = cont[INIT_PID]
      BY <1>1, <2>2
    <3>. QED
      BY <1>0, <1>7, <3>1 DEF rolesOK
  <2>. QED
    BY <2>1, <2>2
<1>11. \A x \in Others : cont'[x] = UserCode \/ \E y \in PIDs : cont'[x] = AfterWaitPid(y)
  <2>1. \A x \in Others : cont[x] = UserCode \/ \E y \in PIDs : cont[x] = AfterWaitPid(y)
    BY <1>0 DEF rolesOK
  <2>2. \A x \in Others : cont'[x] = UserCode \/ cont'[x] = cont[x]
    BY DEF Others
  <2>. QED
    BY <2>1, <2>2
<1>12. kernel # Halted /\ kernel.op # "ctrl_c" /\ kernel.op # "orphans"
  BY LoopFacts
<1>13. kernel = Reaping => cont'[currentProcess] = UserCode
  BY LoopFacts
<1>14. rolesOK(l2, state', cont', currentProcess, kernel, foregroundSet \ {c}, sem')
  BY <1>5, <1>6, <1>9, <1>10, <1>11, <1>12, <1>13 DEF rolesOK
<1>. QED
  BY <1>14 DEF l2, lv

\* wait_any: init frees the slot of the zombie it has unlinked.
LEMMA InitReapAction ==
    ASSUME FamilyInv, CoreInv', InitReap
    PROVE  FamilyInv'
<1> DEFINE lv == Life(state)
           ia == cont[INIT_PID]
           c == cont[INIT_PID].pid
           l2 == [lv EXCEPT ![c] = "FREE"]
<1>t. /\ state \in [PIDs -> States] /\ sem \in [SemIds -> Semaphores] /\ lv \in Lives
      /\ ppid \in [PIDs -> PIDs] /\ children \in [PIDs -> Seq(PIDs)]
      /\ terminatedChildren \in [PIDs -> Seq(PIDs)] /\ Tokens(sem) \in [PIDs -> Int]
      /\ cont \in [PIDs -> Conts]
  BY InvTypes
<1>1. /\ InitRunning("reap") /\ freeSlot(c, sem, children, terminatedChildren)
      /\ cont' = [cont EXCEPT ![c] = UserCode,
                              ![INIT_PID] = IF state[c] = "FREE" THEN InitAt("wait_any")
                                            ELSE InitClearing(c)]
      /\ UNCHANGED <<readyQueue, currentProcess, foregroundSet, kernel>>
  BY DEF InitReap
<1>2. /\ currentProcess = INIT_PID /\ INIT_PID \in PIDs /\ state[INIT_PID] = "RUNNING"
      /\ kernel = NoLoop /\ Orphaning(kernel) = NoPid /\ c \in PIDs /\ ia = InitReaping(c)
  BY <1>1, InitFacts
<1>0. /\ queuesOK(state, readyQueue, sem)
      /\ treeOK(lv, ppid, children, NoPid, ia)
      /\ zombiesOK(lv, ppid, terminatedChildren, Tokens(sem), NoPid, ia)
      /\ waitersOK(lv, ppid, cont, sem)
      /\ rolesOK(lv, state, cont, currentProcess, kernel, foregroundSet, sem)
  BY <1>2 DEF FamilyInv
<1>3. /\ c \in Others /\ lv[c] = "ZOMBIE" /\ ppid[c] = INIT_PID /\ ~isIn(c, children[INIT_PID])
      /\ c # INIT_PID
  <2> HIDE DEF c, ia, lv
  <2>. QED
    BY <1>0, <1>2, TakenFacts DEF treeOK, Others
<1>4. state[c] # "FREE"
  BY <1>2, <1>3 DEF Life, life
<1>5. /\ state' = [state EXCEPT ![c] = "FREE"]
      /\ sem' = [sem EXCEPT ![terminated(c)] = newSemaphore(0),
                            ![childTerminated(c)] = newSemaphore(0)]
      /\ children' = [children EXCEPT ![c] = <<>>]
      /\ terminatedChildren' = [terminatedChildren EXCEPT ![c] = <<>>]
      /\ ppid' = [ppid EXCEPT ![c] = INIT_PID]
  BY <1>1, <1>4 DEF freeSlot
<1>f. foregroundSet' = foregroundSet \ {c}
  <2>1. c \notin foregroundSet
    BY <1>0, <1>3 DEF rolesOK
  <2>. QED
    BY <1>1, <2>1
<1>6. cont'[c] = UserCode /\ cont'[INIT_PID] = InitClearing(c)
      /\ \A x \in PIDs : x # c /\ x # INIT_PID => cont'[x] = cont[x]
  BY <1>1, <1>2, <1>3, <1>4, <1>t
<1> HIDE DEF c
<1>7. /\ queuesOK(state', readyQueue', sem') /\ blockedOK(state', sem')
      /\ Life(state') = l2
      /\ \A x \in PIDs : x # c => state'[x] = state[x]
      /\ sem' \in [SemIds -> Semaphores]
      /\ sem'[terminated(c)] = newSemaphore(0)
      /\ \A x \in PIDs : x # c => sem'[terminated(x)] = sem[terminated(x)]
      /\ \A x \in PIDs : x # c => sem'[childTerminated(x)] = sem[childTerminated(x)]
  <2>1. renewed(c, sem, sem')
    BY <1>5 DEF renewed
  <2>2. /\ Life(state)[c] = "ZOMBIE" /\ state[ppid[c]] = "RUNNING" /\ readyQueue' = readyQueue
        /\ \A s \in SemIds : sem[s].blockedQueue = sem[s].blockedQueue
        /\ \A s \in SemIds : s # childTerminated(ppid[c]) => sem[s] = sem[s]
    BY <1>1, <1>2, <1>3
  <2>3. c \in PIDs /\ sem \in [SemIds -> Semaphores] /\ state' = [state EXCEPT ![c] = "FREE"]
    BY <1>2, <1>5, <1>t
  <2>4. /\ queuesOK(state', readyQueue', sem') /\ blockedOK(state', sem')
        /\ Life(state') = [Life(state) EXCEPT ![c] = "FREE"]
    BY <2>1, <2>2, <2>3, ReapEffects, Zenon
  <2>5. \A x \in PIDs : x # c => state'[x] = state[x]
    BY <2>1, <2>2, <2>3, ReapEffects, Zenon
  <2>6. sem' \in [SemIds -> Semaphores] /\ sem'[terminated(c)] = newSemaphore(0)
    BY <2>1, <2>2, <2>3, ReapEffects, Zenon
  <2>7. \A x \in PIDs : x # c => sem'[terminated(x)] = sem[terminated(x)]
    BY <2>1, <2>2, <2>3, ReapEffects, Zenon
  <2>8. \A x \in PIDs : x # c => sem'[childTerminated(x)] = sem[childTerminated(x)]
    BY <2>1, <2>2, <2>3, ReapEffects, Zenon
  <2>. QED
    BY <2>4, <2>5, <2>6, <2>7, <2>8
<1>8. rolesOK(l2, state', cont', currentProcess, kernel, foregroundSet \ {c}, sem')
  <2>1. /\ c \in Others /\ Life(state)[c] = "ZOMBIE"
        /\ \A x \in PIDs : x # c => state'[x] = state[x]
        /\ currentProcess \in PIDs /\ state[currentProcess] = "RUNNING" /\ currentProcess # c
        /\ kernel = NoLoop /\ cont'[c] = UserCode
        /\ \A x \in PIDs : x # c /\ x # currentProcess => cont'[x] = cont[x]
        /\ currentProcess = INIT_PID /\ cont'[INIT_PID] = InitClearing(c)
    BY <1>2, <1>3, <1>6, <1>7
  <2>2. rolesOK([Life(state) EXCEPT ![c] = "FREE"], state', cont', currentProcess, kernel,
                foregroundSet \ {c}, sem')
    BY <2>1, ReapRoles
  <2>. QED
    BY <2>2
<1>n. \A x \in PIDs : /\ ~Taken(x, InitClearing(c)) /\ InitClearing(c) # InitReaping(x)
                       /\ InitClearing(c) # AfterWaitPid(x)
  BY <1>2, ContsDiffer, TakenFacts
<1>h. /\ \A x \in PIDs : Taken(x, ia) \/ ia = InitReaping(x) => x = c
      /\ \A x \in PIDs : cont[INIT_PID] # AfterWaitPid(x)
  <2>1. cont[INIT_PID] = InitReaping(c)
    BY <1>2
  <2>. QED
    BY <1>2, <2>1, ContsDiffer, TakenFacts
<1> HIDE DEF lv, ia
<1>9. treeOK(l2, ppid', children', NoPid, cont'[INIT_PID])
  <2>1. children'[c] = <<>> /\ \A y \in PIDs : y # c => children'[y] = children[y]
    BY <1>2, <1>5, <1>t
  <2>2. \A y \in PIDs : ~isIn(c, children[y])
    BY <1>0, <1>2, <1>3 DEF treeOK
  <2> DEFINE cl == children'
             ib == InitClearing(c)
  <2>3. \A x, y \in PIDs : isIn(x, cl[y]) <=> isIn(x, children[y]) /\ x # c /\ y # c
    BY <2>1, <2>2, EmptyQueue
  <2>4. \A y \in PIDs : noRepeats(cl[y])
    BY <1>0, <2>1, EmptyQueue DEF treeOK
  <2>5. \A x \in PIDs : /\ Taken(x, ib) <=> Taken(x, ia) /\ x # c
                        /\ ib = InitReaping(x) <=> ia = InitReaping(x) /\ x # c
    BY <1>n, <1>h
  <2> HIDE DEF cl, ib
  <2>6. treeOK([lv EXCEPT ![c] = "FREE"], [ppid EXCEPT ![c] = INIT_PID], cl, NoPid, ib)
    BY <1>0, <1>2, <1>3, <1>t, <2>3, <2>4, <2>5, TreeReap, ZenonT(30)
  <2>. QED
    BY <1>5, <1>6, <2>6 DEF cl, ib
<1>10. zombiesOK(l2, ppid', terminatedChildren', Tokens(sem'), NoPid, cont'[INIT_PID])
  <2> DEFINE tk == Tokens(sem)
             tk2 == Tokens(sem')
  <2>1. /\ tk \in [PIDs -> Int] /\ \A x \in PIDs : x # c => tk2[x] = tk[x]
        /\ zombiesOK(lv, ppid, terminatedChildren, tk, NoPid, InitReaping(c))
    BY <1>0, <1>2, <1>7, <1>t DEF Tokens
  <2>2. \A x \in PIDs : lv[x] = "ZOMBIE" => lv[ppid[x]] = "ALIVE"
    <3>1. \A x \in PIDs : lv[x] = "ZOMBIE" => x \in Others /\ lv[x] # "FREE"
      BY <1>0 DEF treeOK, Others
    <3>2. \A x \in PIDs : ppid[x] # NoPid
      BY <1>t, PidFacts
    <3>. QED
      BY <1>0, <3>1, <3>2 DEF treeOK
  <2> HIDE DEF tk, tk2
  <2>3. zombiesOK([lv EXCEPT ![c] = "FREE"], [ppid EXCEPT ![c] = INIT_PID],
                  [terminatedChildren EXCEPT ![c] = <<>>], tk2, NoPid, InitClearing(c))
    BY <1>2, <1>3, <1>t, <2>1, <2>2, ZombiesInitReap
  <2>. QED
    BY <1>5, <1>6, <2>3 DEF tk2
<1>11. waitersOK(l2, ppid', cont', sem')
  <2> DEFINE ct2 == cont'
             s2 == sem'
  <2>1. reaped(ppid[c], c, cont, ct2, sem, s2)
    BY <1>3, <1>6, <1>7, <1>n, <1>h DEF reaped
  <2> HIDE DEF ct2, s2
  <2>2. waitersOK([lv EXCEPT ![c] = "FREE"], [ppid EXCEPT ![c] = INIT_PID], ct2, s2)
    BY <1>0, <1>2, <1>3, <1>t, <2>1, WaitersReap
  <2>. QED
    BY <1>5, <2>2 DEF ct2, s2
<1>12. Orphaning(kernel') = NoPid /\ UNCHANGED <<currentProcess, kernel>>
  BY <1>1, <1>2
<1>. QED
  BY <1>5, <1>f, <1>7, <1>8, <1>9, <1>10, <1>11, <1>12 DEF FamilyInv

\* The process that runs and the slot of its dead child c are in user code.
goesOn(c) ==
    /\ cont'[c] = UserCode /\ cont'[currentProcess] = UserCode
    /\ \A x \in PIDs : x # c /\ x # currentProcess => cont'[x] = cont[x]
    /\ \A y \in PIDs : y # c => cont[currentProcess] # AfterWaitPid(y)

\* A zombie is in the list of dead children of the user process it belongs to,
\* which has a token for it.
LEMMA ZombieInList ==
    ASSUME FamilyInv, NEW c \in PIDs, NEW m \in Others, Life(state)[c] = "ZOMBIE",
           ppid[c] = m, Life(state)[m] = "ALIVE", Orphaning(kernel) = NoPid
    PROVE  /\ isIn(c, terminatedChildren[m]) /\ noRepeats(terminatedChildren[m])
           /\ sem[childTerminated(m)].value > 0 /\ ~Taken(c, cont[INIT_PID])
<1> DEFINE lv == Life(state)
           ia == cont[INIT_PID]
<1>0. /\ treeOK(lv, ppid, children, NoPid, ia)
      /\ zombiesOK(lv, ppid, terminatedChildren, Tokens(sem), NoPid, ia)
      /\ terminatedChildren \in [PIDs -> Seq(PIDs)] /\ sem \in [SemIds -> Semaphores]
  BY InvTypes DEF FamilyInv
<1>1. m \in PIDs /\ m # INIT_PID /\ m # NoPid
  BY PidFacts DEF Others
<1>2. lv[c] = "ZOMBIE" /\ lv[m] = "ALIVE"
  OBVIOUS
<1> HIDE DEF lv, ia
<1>3. ~Taken(c, ia)
  BY <1>0, <1>1 DEF treeOK
<1>4. isIn(c, terminatedChildren[m])
  BY <1>0, <1>1, <1>2, <1>3 DEF zombiesOK
<1>5. noRepeats(terminatedChildren[m]) /\ Len(terminatedChildren[m]) = Tokens(sem)[m] + 0
  BY <1>0, <1>1, <1>2 DEF zombiesOK
<1>6. sem[childTerminated(m)].value \in Int /\ Tokens(sem)[m] = sem[childTerminated(m)].value
  BY <1>0, <1>1, SemIdFacts DEF Tokens, Semaphores
<1>7. Len(terminatedChildren[m]) > 0
  BY <1>0, <1>1, <1>4 DEF isIn
<1>8. sem[childTerminated(m)].value > 0
  BY <1>5, <1>6, <1>7
<1>. QED
  BY <1>3, <1>4, <1>5, <1>8 DEF ia

\* reapProcess of the zombie c by its parent, which takes its token.
LEMMA ParentReap ==
    ASSUME FamilyInv, CoreInv', NEW c \in PIDs, NEW t,
           currentProcess \in Others, state[currentProcess] = "RUNNING",
           kernel = NoLoop \/ kernel = Reaping,
           Life(state)[c] = "ZOMBIE", ppid[c] = currentProcess,
           reapProcess(c, semTryWait(childTerminated(currentProcess)),
                       withoutChild(children, currentProcess, c),
                       [terminatedChildren EXCEPT ![currentProcess] = t]),
           taken(c, terminatedChildren[currentProcess], t), goesOn(c),
           UNCHANGED <<readyQueue, currentProcess, kernel>>
    PROVE  FamilyInv'
<1> DEFINE lv == Life(state)
           ia == cont[INIT_PID]
           m == currentProcess
           l2 == [lv EXCEPT ![c] = "FREE"]
           sm == semTryWait(childTerminated(m))
           ch == withoutChild(children, m, c)
           tc == [terminatedChildren EXCEPT ![m] = t]
<1>t. /\ state \in [PIDs -> States] /\ sem \in [SemIds -> Semaphores] /\ lv \in Lives
      /\ ppid \in [PIDs -> PIDs] /\ children \in [PIDs -> Seq(PIDs)]
      /\ terminatedChildren \in [PIDs -> Seq(PIDs)] /\ Tokens(sem) \in [PIDs -> Int]
      /\ cont \in [PIDs -> Conts]
  BY InvTypes
<1>2. /\ m \in PIDs /\ m # INIT_PID /\ m # NoPid /\ INIT_PID \in PIDs /\ Orphaning(kernel) = NoPid
      /\ lv[m] = "ALIVE" /\ state[c] = "ZOMBIE" /\ lv[c] = "ZOMBIE" /\ ppid[c] = m
  BY PidFacts, LoopFacts DEF Others, Life, life
<1>0. /\ treeOK(lv, ppid, children, NoPid, ia)
      /\ zombiesOK(lv, ppid, terminatedChildren, Tokens(sem), NoPid, ia)
      /\ waitersOK(lv, ppid, cont, sem)
  BY <1>2 DEF FamilyInv
<1>3. /\ state' = [state EXCEPT ![c] = "FREE"]
      /\ sem' = [sm EXCEPT ![terminated(c)] = newSemaphore(0),
                           ![childTerminated(c)] = newSemaphore(0)]
      /\ children' = [ch EXCEPT ![c] = <<>>]
      /\ terminatedChildren' = [tc EXCEPT ![c] = <<>>]
      /\ ppid' = [ppid EXCEPT ![c] = INIT_PID]
      /\ foregroundSet' = foregroundSet \ {c}
  BY <1>2 DEF reapProcess, freeSlot
<1>4. /\ sem[childTerminated(m)].value > 0 /\ ~Taken(c, ia)
  BY <1>2, ZombieInList
<1>5. /\ sm \in [SemIds -> Semaphores]
      /\ sm[childTerminated(m)].value = sem[childTerminated(m)].value - 1
      /\ \A s \in SemIds : s # childTerminated(m) => sm[s] = sem[s]
      /\ \A s \in SemIds : sm[s].blockedQueue = sem[s].blockedQueue
  <2>1. childTerminated(m) \in SemIds
    BY <1>2, SemIdFacts
  <2>2. sm = [sem EXCEPT ![childTerminated(m)] =
                 [value        |-> sem[childTerminated(m)].value - 1,
                  blockedQueue |-> sem[childTerminated(m)].blockedQueue]]
    BY <1>4 DEF semTryWait, hasToken
  <2>3. sem[childTerminated(m)].value - 1 \in Int
    BY <1>t, <2>1 DEF Semaphores
  <2>. QED
    BY <1>t, <2>1, <2>2, <2>3 DEF Semaphores
<1>6. /\ cont'[c] = UserCode /\ cont'[m] = UserCode
      /\ \A x \in PIDs : x # c /\ x # m => cont'[x] = cont[x]
      /\ \A y \in PIDs : y # c => cont[m] # AfterWaitPid(y)
  BY DEF goesOn
<1>7. /\ queuesOK(state', readyQueue', sem') /\ blockedOK(state', sem')
      /\ Life(state') = l2 /\ c \in Others /\ c # m
      /\ \A x \in PIDs : x # c => state'[x] = state[x]
      /\ sem' \in [SemIds -> Semaphores]
      /\ sem'[terminated(c)] = newSemaphore(0)
      /\ \A x \in PIDs : x # c => sem'[terminated(x)] = sem[terminated(x)]
      /\ \A x \in PIDs : x # c => sem'[childTerminated(x)] = sm[childTerminated(x)]
  <2>1. renewed(c, sm, sem')
    BY <1>3 DEF renewed
  <2>2. /\ Life(state)[c] = "ZOMBIE" /\ state[ppid[c]] = "RUNNING" /\ readyQueue' = readyQueue
        /\ \A s \in SemIds : sm[s].blockedQueue = sem[s].blockedQueue
        /\ \A s \in SemIds : s # childTerminated(ppid[c]) => sm[s] = sem[s]
    BY <1>2, <1>5
  <2>3. sm \in [SemIds -> Semaphores] /\ state' = [state EXCEPT ![c] = "FREE"]
    BY <1>3, <1>5
  <2> HIDE DEF sm
  <2>4. /\ queuesOK(state', readyQueue', sem') /\ blockedOK(state', sem')
        /\ Life(state') = [Life(state) EXCEPT ![c] = "FREE"] /\ c \in Others /\ c # ppid[c]
    BY <2>1, <2>2, <2>3, ReapEffects, ZenonT(30)
  <2>5. \A x \in PIDs : x # c => state'[x] = state[x]
    BY <2>1, <2>2, <2>3, ReapEffects
  <2>6. sem' \in [SemIds -> Semaphores] /\ sem'[terminated(c)] = newSemaphore(0)
    BY <2>1, <2>2, <2>3, ReapEffects, Zenon
  <2>7. \A x \in PIDs : x # c => sem'[terminated(x)] = sem[terminated(x)]
    <3>1. \A x \in PIDs : x # c => sem'[terminated(x)] = sm[terminated(x)]
      BY <2>1, <2>3, RenewedSemaphores
    <3>2. \A x \in PIDs : terminated(x) \in SemIds /\ terminated(x) # childTerminated(m)
      BY <1>2, SemIdFacts, SemIdsDiffer
    <3>. QED
      BY <1>2, <2>2, <3>1, <3>2
  <2>8. \A x \in PIDs : x # c => sem'[childTerminated(x)] = sm[childTerminated(x)]
    BY <2>1, <2>2, <2>3, ReapEffects, ZenonT(30)
  <2>. QED
    BY <1>2, <2>4, <2>5, <2>6, <2>7, <2>8
<1> HIDE DEF sm
<1>8. rolesOK(l2, state', cont', currentProcess, kernel, foregroundSet \ {c}, sem')
  <2>1. /\ c \in Others /\ Life(state)[c] = "ZOMBIE"
        /\ \A x \in PIDs : x # c => state'[x] = state[x]
        /\ currentProcess \in PIDs /\ state[currentProcess] = "RUNNING" /\ currentProcess # c
        /\ cont'[c] = UserCode /\ cont'[currentProcess] = UserCode
        /\ \A x \in PIDs : x # c /\ x # currentProcess => cont'[x] = cont[x]
    BY <1>2, <1>6, <1>7
  <2>2. rolesOK([Life(state) EXCEPT ![c] = "FREE"], state', cont', currentProcess, kernel,
                foregroundSet \ {c}, sem')
    BY <2>1, ReapRoles
  <2>. QED
    BY <2>2
<1>9. cont'[INIT_PID] = ia
  BY <1>2, <1>6, <1>7 DEF Others
<1> HIDE DEF lv, ia, m
<1>10. treeOK(l2, ppid', children', NoPid, ia)
  <2>1. ch = [children EXCEPT ![m] = removeFromQueue(children[m], c)]
    BY DEF withoutChild
  <2>2. /\ \A d : isIn(d, removeFromQueue(children[m], c)) <=> isIn(d, children[m]) /\ d # c
        /\ noRepeats(children[m]) => noRepeats(removeFromQueue(children[m], c))
    BY <1>2, <1>t, RemoveFromQueueProperties
  <2>3. /\ children'[c] = <<>> /\ children'[m] = removeFromQueue(children[m], c)
        /\ \A y \in PIDs : y # c /\ y # m => children'[y] = children[y]
    BY <1>2, <1>3, <1>7, <1>t, <2>1
  <2>4. \A y \in PIDs : isIn(c, children[y]) => y = m
    BY <1>0, <1>2 DEF treeOK
  <2> DEFINE cl == children'
  <2>5. \A x, y \in PIDs : isIn(x, cl[y]) <=> isIn(x, children[y]) /\ x # c /\ y # c
    BY <1>7, <2>2, <2>3, <2>4, EmptyQueue
  <2>6. \A y \in PIDs : noRepeats(cl[y])
    BY <1>0, <1>2, <2>2, <2>3, EmptyQueue DEF treeOK
  <2>7. \A x \in PIDs : /\ Taken(x, ia) <=> Taken(x, ia) /\ x # c
                        /\ ia = InitReaping(x) <=> ia = InitReaping(x) /\ x # c
    BY <1>4, TakenFacts
  <2> HIDE DEF cl
  <2>8. treeOK([lv EXCEPT ![c] = "FREE"], [ppid EXCEPT ![c] = INIT_PID], cl, NoPid, ia)
    BY <1>0, <1>2, <1>t, <2>5, <2>6, <2>7, TreeReap
  <2>. QED
    BY <1>3, <2>8 DEF cl
<1>11. zombiesOK(l2, ppid', terminatedChildren', Tokens(sem'), NoPid, ia)
  <2> DEFINE tk == Tokens(sem)
             tk2 == Tokens(sem')
  <2>1. /\ tk \in [PIDs -> Int]
        /\ zombiesOK(lv, ppid, terminatedChildren, tk, NoPid, ia)
    BY <1>0, <1>t
  <2>2. tk2[m] = tk[m] - 1
    BY <1>2, <1>5, <1>7 DEF Tokens
  <2>3. \A x \in PIDs : x # m /\ x # c => tk2[x] = tk[x]
    <3>1. \A x \in PIDs : x # m => childTerminated(x) \in SemIds /\ childTerminated(x) # childTerminated(m)
      BY <1>2, SemIdFacts, SemIdsDiffer
    <3>. QED
      BY <1>5, <1>7, <3>1 DEF Tokens
  <2>4. \A x \in PIDs : lv[x] = "ZOMBIE" => lv[ppid[x]] = "ALIVE"
    <3>1. \A x \in PIDs : lv[x] = "ZOMBIE" => x \in Others /\ lv[x] # "FREE"
      BY <1>0 DEF treeOK, Others
    <3>2. \A x \in PIDs : ppid[x] # NoPid
      BY <1>t, PidFacts
    <3>. QED
      BY <1>0, <3>1, <3>2 DEF treeOK
  <2>5. taken(c, terminatedChildren[m], t)
    BY DEF m
  <2>s. spent(m, c, tk, tk2)
    BY <2>2, <2>3 DEF spent
  <2> HIDE DEF tk, tk2
  <2>6. zombiesOK([lv EXCEPT ![c] = "FREE"], [ppid EXCEPT ![c] = INIT_PID],
                  [[terminatedChildren EXCEPT ![m] = t] EXCEPT ![c] = <<>>], tk2, NoPid, ia)
    BY <1>2, <1>t, <2>1, <2>4, <2>5, <2>s, ZombiesReap
  <2>. QED
    BY <1>3, <2>6 DEF tk2
<1>12. waitersOK(l2, ppid', cont', sem')
  <2> DEFINE ct2 == cont'
             s2 == sem'
  <2>1. reaped(ppid[c], c, cont, ct2, sem, s2)
    BY <1>2, <1>6, <1>7, ContsDiffer DEF reaped
  <2> HIDE DEF ct2, s2
  <2>2. waitersOK([lv EXCEPT ![c] = "FREE"], [ppid EXCEPT ![c] = INIT_PID], ct2, s2)
    BY <1>0, <1>2, <1>t, <2>1, WaitersReap
  <2>. QED
    BY <1>3, <2>2 DEF ct2, s2
<1>13. Orphaning(kernel') = NoPid /\ UNCHANGED <<currentProcess, kernel>>
  BY <1>2
<1>. QED
  BY <1>3, <1>7, <1>8, <1>9, <1>10, <1>11, <1>12, <1>13 DEF FamilyInv

\* wait_pid when its wait returns: the child it waited for is dead and its own.
LEMMA WaitPidReturnsAction ==
    ASSUME FamilyInv, CoreInv', WaitPidReturns
    PROVE  FamilyInv' /\ Life(state)[cont[currentProcess].pid] = "ZOMBIE"
<1> DEFINE lv == Life(state)
           m == currentProcess
           c == cont[m].pid
           q == terminatedChildren[m]
           t == removeFromQueue(q, c)
<1>1. /\ kernel = NoLoop /\ m # NoPid /\ cont[m].op = "wait_pid"
      /\ reapProcess(c, semTryWait(childTerminated(m)), withoutChild(children, m, c),
                     withoutChild(terminatedChildren, m, c))
      /\ cont' = [cont EXCEPT ![c] = UserCode, ![m] = UserCode]
      /\ UNCHANGED <<readyQueue, currentProcess, kernel>>
  BY DEF WaitPidReturns
<1>t. /\ cont \in [PIDs -> Conts] /\ terminatedChildren \in [PIDs -> Seq(PIDs)]
      /\ m \in PIDs \cup {NoPid} /\ state \in [PIDs -> States]
  BY InvTypes
<1>0. /\ rolesOK(lv, state, cont, m, kernel, foregroundSet, sem)
      /\ waitersOK(lv, ppid, cont, sem) /\ queuesOK(state, readyQueue, sem)
  BY DEF FamilyInv
<1>2. m \in PIDs /\ state[m] = "RUNNING" /\ Orphaning(kernel) = NoPid
  BY <1>0, <1>1, <1>t, LoopFacts DEF rolesOK
<1>3. m \in Others
  <2>1. cont[IDLE_PID].op # "wait_pid"
    BY <1>0 DEF rolesOK, IdleCode
  <2>2. cont[INIT_PID].op # "wait_pid"
    BY <1>0 DEF rolesOK, InitPlaces, InitAt, InitUnlinking, InitReaping, InitClearing
  <2>. QED
    BY <1>1, <1>2, <2>1, <2>2 DEF Others
<1>4. c \in PIDs /\ cont[m] = AfterWaitPid(c)
  <2>1. UserCode.op # "wait_pid"
    BY DEF UserCode
  <2>2. PICK x \in PIDs : cont[m] = AfterWaitPid(x)
    BY <1>0, <1>1, <1>3, <2>1 DEF rolesOK
  <2>3. AfterWaitPid(x).pid = x
    BY DEF AfterWaitPid
  <2>. QED
    BY <2>2, <2>3
<1>5. /\ lv[m] = "ALIVE" /\ life(state, m) = "ALIVE"
      /\ \A s \in SemIds : ~waits(m, sem, s)
  <2>1. lv[m] = "ALIVE" /\ life(state, m) = "ALIVE"
    BY <1>2, <1>t, LifeFacts
  <2>. QED
    BY <1>0, <1>2, <2>1 DEF queuesOK
<1>6. lv[c] = "ZOMBIE" /\ ppid[c] = m
  BY <1>0, <1>2, <1>4, <1>5, SemIdFacts DEF waitersOK
<1>7. isIn(c, q) /\ noRepeats(q) /\ q \in Seq(PIDs)
  BY <1>2, <1>3, <1>4, <1>5, <1>6, <1>t, ZombieInList
<1> HIDE DEF lv, c
<1>8. taken(c, q, t)
  <2>1. Len(t) = Len(q) - 1
    BY <1>7, RemovalShortens
  <2>2. /\ \A d : isIn(d, t) <=> isIn(d, q) /\ d # c
        /\ noRepeats(t)
    BY <1>7, RemoveFromQueueProperties
  <2>. QED
    BY <2>1, <2>2 DEF taken
<1>9. goesOn(c)
  <2>1. /\ cont'[c] = UserCode /\ cont'[m] = UserCode
        /\ \A x \in PIDs : x # c /\ x # m => cont'[x] = cont[x]
    BY <1>1, <1>2, <1>4, <1>t
  <2>2. \A y \in PIDs : y # c => cont[m] # AfterWaitPid(y)
    BY <1>4, ContsDiffer
  <2>. QED
    BY <2>1, <2>2 DEF goesOn
<1>10. reapProcess(c, semTryWait(childTerminated(m)), withoutChild(children, m, c),
                   [terminatedChildren EXCEPT ![m] = t])
  BY <1>1 DEF withoutChild
<1> HIDE DEF t
<1>. QED
  <2>1. FamilyInv'
    BY <1>1, <1>2, <1>3, <1>4, <1>6, <1>8, <1>9, <1>10, ParentReap DEF lv
  <2>. QED
    BY <1>6, <2>1 DEF lv, c

\* One round of reap_zombies: who has a token has a dead child at the head.
LEMMA ReapOneAction ==
    ASSUME FamilyInv, CoreInv', ReapOne
    PROVE  /\ FamilyInv'
           /\ Life(state)[polled(terminatedChildren[currentProcess])] = "ZOMBIE"
<1> DEFINE lv == Life(state)
           m == currentProcess
           q == terminatedChildren[m]
           c == polled(q)
           t == afterPoll(q)
<1>1. /\ kernel = Reaping /\ hasToken(childTerminated(m))
      /\ reapProcess(c, semTryWait(childTerminated(m)), withoutChild(children, m, c),
                     [terminatedChildren EXCEPT ![m] = afterPoll(@)])
      /\ cont' = [cont EXCEPT ![c] = UserCode]
      /\ UNCHANGED <<readyQueue, currentProcess, kernel>>
  BY DEF ReapOne
<1>t. /\ cont \in [PIDs -> Conts] /\ terminatedChildren \in [PIDs -> Seq(PIDs)]
      /\ m \in PIDs \cup {NoPid} /\ state \in [PIDs -> States]
      /\ sem \in [SemIds -> Semaphores]
  BY InvTypes
<1>0. /\ rolesOK(lv, state, cont, m, kernel, foregroundSet, sem)
      /\ zombiesOK(lv, ppid, terminatedChildren, Tokens(sem), Orphaning(kernel), cont[INIT_PID])
  BY DEF FamilyInv
<1>2. m # NoPid
  BY <1>1 DEF FamilyInv, CoreInv, safe, treeTypes, cpuTypes
<1>3. m \in PIDs /\ state[m] = "RUNNING" /\ cont[m] = UserCode /\ Orphaning(kernel) = NoPid
  BY <1>0, <1>1, <1>2, <1>t, LoopFacts DEF rolesOK
<1>4. m \in Others /\ m # INIT_PID
  <2>1. cont[IDLE_PID] # UserCode
    BY <1>0 DEF rolesOK, IdleCode, UserCode
  <2>2. cont[INIT_PID] # UserCode
    BY <1>0, PlaceFacts DEF rolesOK
  <2>. QED
    BY <1>3, <2>1, <2>2 DEF Others
<1>5. lv[m] = "ALIVE"
  BY <1>3, <1>t, LifeFacts
<1>6. q # <<>>
  <2>1. Len(q) = Tokens(sem)[m] + 0
    BY <1>0, <1>3, <1>4, <1>5 DEF zombiesOK
  <2>2. Tokens(sem)[m] > 0 /\ Tokens(sem)[m] \in Int
    BY <1>1, <1>3, <1>t, SemIdFacts DEF Tokens, hasToken, Semaphores
  <2>3. Len(q) > 0
    BY <2>1, <2>2
  <2>. QED
    BY <2>3, EmptyQueue
<1>7. /\ noRepeats(q) /\ q \in Seq(PIDs)
      /\ \A p \in PIDs : isIn(p, q) => lv[p] = "ZOMBIE" /\ ppid[p] = m
  BY <1>0, <1>3, <1>5, <1>t DEF zombiesOK
<1>8. c = Head(q) /\ t = Tail(q)
  BY <1>6 DEF polled, afterPoll
<1>9. /\ c \in PIDs /\ isIn(c, q)
      /\ \A d : isIn(d, q) <=> isIn(d, t) \/ d = c
      /\ noRepeats(t) /\ ~isIn(c, t) /\ Len(t) = Len(q) - 1
  BY <1>6, <1>7, <1>8, PollProperties
<1>10. lv[c] = "ZOMBIE" /\ ppid[c] = m
  BY <1>7, <1>9
<1> HIDE DEF lv, c
<1>11. taken(c, q, t)
  BY <1>9 DEF taken
<1>12. goesOn(c)
  <2>1. /\ cont'[c] = UserCode /\ cont'[m] = UserCode
        /\ \A x \in PIDs : x # c /\ x # m => cont'[x] = cont[x]
    BY <1>1, <1>3, <1>9, <1>t
  <2>2. \A y \in PIDs : cont[m] # AfterWaitPid(y)
    BY <1>3, ContsDiffer
  <2>. QED
    BY <2>1, <2>2 DEF goesOn
<1>13. reapProcess(c, semTryWait(childTerminated(m)), withoutChild(children, m, c),
                   [terminatedChildren EXCEPT ![m] = t])
  BY <1>1
<1> HIDE DEF t
<1>. QED
  <2>1. FamilyInv'
    BY <1>1, <1>3, <1>4, <1>9, <1>10, <1>11, <1>12, <1>13, ParentReap DEF lv
  <2>. QED
    BY <1>10, <2>1 DEF lv, c

\* Init goes on to ic, and only its lists and the foreground set change.
LEMMA InitMoves ==
    ASSUME FamilyInv, CoreInv', NEW ic \in InitPlaces, ic # InitAt("start"), kernel = NoLoop,
           cont' = [cont EXCEPT ![INIT_PID] = ic], foregroundSet' \subseteq foregroundSet,
           UNCHANGED <<state, readyQueue, sem, currentProcess, ppid, kernel>>,
           treeOK(Life(state), ppid, children', NoPid, ic),
           zombiesOK(Life(state), ppid, terminatedChildren', Tokens(sem), NoPid, ic)
    PROVE  FamilyInv'
<1> DEFINE lv == Life(state)
<1>0. /\ queuesOK(state, readyQueue, sem) /\ blockedOK(state, sem)
      /\ rolesOK(lv, state, cont, currentProcess, kernel, foregroundSet, sem)
      /\ waitersOK(lv, ppid, cont, sem)
  BY DEF FamilyInv
<1>t. cont \in [PIDs -> Conts] /\ foregroundSet \subseteq PIDs
  BY InvTypes
<1>1. cont'[INIT_PID] = ic /\ \A x \in PIDs : x # INIT_PID => cont'[x] = cont[x]
  BY <1>t, PidFacts
<1> HIDE DEF lv
<1>2. waitersOK(lv, ppid, cont', sem)
  <2> DEFINE ct2 == cont'
  <2>1. cont[INIT_PID] \in InitPlaces
    BY <1>0 DEF rolesOK
  <2>2. \A m, x \in PIDs : ct2[m] = AfterWaitPid(x) <=> cont[m] = AfterWaitPid(x)
    BY <1>1, <2>1, PlaceFacts
  <2> HIDE DEF ct2
  <2>3. waitersOK(lv, ppid, ct2, sem)
    BY <1>0, <2>2, WaitersSame
  <2>. QED
    BY <2>3 DEF ct2
<1>3. rolesOK(lv, state, cont', currentProcess, kernel, foregroundSet', sem)
  <2>1. cont'[IDLE_PID] = cont[IDLE_PID]
    BY <1>1, PidFacts DEF IDLE_PID, INIT_PID
  <2>2. \A p \in Others : cont'[p] = cont[p]
    BY <1>1 DEF Others
  <2>3. kernel # Reaping /\ kernel # Halted /\ kernel.op = "none"
    BY LoopFacts
  <2>. QED
    BY <1>0, <1>1, <2>1, <2>2, <2>3 DEF rolesOK
<1>4. Orphaning(kernel') = NoPid
  BY LoopFacts
<1>5. /\ treeOK(lv, ppid, children', NoPid, ic)
      /\ zombiesOK(lv, ppid, terminatedChildren', Tokens(sem), NoPid, ic)
  BY DEF lv
<1>6. Life(state') = lv /\ Tokens(sem') = Tokens(sem)
  BY DEF lv
<1>. QED
  BY <1>0, <1>1, <1>2, <1>3, <1>4, <1>5, <1>6 DEF FamilyInv

\* wait_any after its wait: the token init took is that of the head of its list.
LEMMA InitPollAction ==
    ASSUME FamilyInv, CoreInv', InitPoll
    PROVE  FamilyInv'
<1> DEFINE lv == Life(state)
           q == terminatedChildren[INIT_PID]
           c == polled(q)
           t == afterPoll(q)
           tk == Tokens(sem)
<1>1. /\ InitRunning("poll")
      /\ terminatedChildren' = [terminatedChildren EXCEPT ![INIT_PID] = t]
      /\ cont' = [cont EXCEPT ![INIT_PID] = InitUnlinking(c)]
      /\ UNCHANGED <<state, readyQueue, sem, currentProcess, ppid, children, foregroundSet,
                     kernel>>
  BY DEF InitPoll
<1>2. /\ currentProcess = INIT_PID /\ INIT_PID \in PIDs /\ lv[INIT_PID] = "ALIVE"
      /\ kernel = NoLoop /\ Orphaning(kernel) = NoPid /\ cont[INIT_PID] = InitAt("poll")
      /\ \A s \in SemIds : ~waits(INIT_PID, sem, s)
  BY <1>1, InitFacts
<1>t. /\ cont \in [PIDs -> Conts] /\ terminatedChildren \in [PIDs -> Seq(PIDs)]
      /\ children \in [PIDs -> Seq(PIDs)] /\ ppid \in [PIDs -> PIDs]
      /\ sem \in [SemIds -> Semaphores] /\ lv \in Lives /\ tk \in [PIDs -> Int]
      /\ \A s \in SemIds : debtIsQueue(sem[s])
  BY InvTypes
<1>0. /\ queuesOK(state, readyQueue, sem) /\ blockedOK(state, sem)
      /\ rolesOK(lv, state, cont, currentProcess, kernel, foregroundSet, sem)
      /\ treeOK(lv, ppid, children, NoPid, InitAt("poll"))
      /\ zombiesOK(lv, ppid, terminatedChildren, tk, NoPid, InitAt("poll"))
      /\ waitersOK(lv, ppid, cont, sem)
  BY <1>2 DEF FamilyInv
<1>3. tk[INIT_PID] >= 0
  <2> DEFINE x == sem[childTerminated(INIT_PID)]
  <2>1. childTerminated(INIT_PID) \in SemIds
    BY <1>2, SemIdFacts
  <2>2. ~isIn(INIT_PID, x.blockedQueue)
    BY <1>2, <2>1 DEF waits
  <2>3. isIn(INIT_PID, <<INIT_PID>>)
    BY DEF isIn
  <2>4. x.blockedQueue = <<>>
    BY <1>0, <2>2, <2>3 DEF queuesOK
  <2>5. x.value \in Int /\ Len(<<>>) = IF x.value < 0 THEN -x.value ELSE 0
    BY <1>t, <2>1, <2>4 DEF debtIsQueue, Semaphores
  <2>6. x.value >= 0
    BY <2>5, EmptyQueue
  <2>. QED
    BY <1>2, <2>6 DEF Tokens
<1>4. /\ noRepeats(q) /\ q \in Seq(PIDs) /\ Len(q) = tk[INIT_PID] + 1
      /\ \A p \in PIDs : isIn(p, q) => lv[p] = "ZOMBIE" /\ ppid[p] = INIT_PID
  BY <1>0, <1>2, <1>t DEF zombiesOK
<1>5. q # <<>>
  <2>1. Len(q) > 0
    BY <1>2, <1>3, <1>4, <1>t
  <2>. QED
    BY <2>1, EmptyQueue
<1>6. c = Head(q) /\ t = Tail(q)
  BY <1>5 DEF polled, afterPoll
<1>7. /\ c \in PIDs /\ isIn(c, q)
      /\ \A d : isIn(d, q) <=> isIn(d, t) \/ d = c
      /\ noRepeats(t) /\ ~isIn(c, t) /\ Len(t) = Len(q) - 1
  BY <1>4, <1>5, <1>6, PollProperties
<1>8. lv[c] = "ZOMBIE" /\ ppid[c] = INIT_PID
  BY <1>4, <1>7
<1> HIDE DEF lv, c, t, tk
<1>9. treeOK(lv, ppid, children, NoPid, InitUnlinking(c))
  BY <1>0, <1>7, <1>8, TakenFacts, TreePoll
<1>10. zombiesOK(lv, ppid, terminatedChildren', tk, NoPid, InitUnlinking(c))
  <2>1. \A d \in PIDs : isIn(d, t) <=> isIn(d, q) /\ d # c
    BY <1>7
  <2>2. zombiesOK(lv, ppid, [terminatedChildren EXCEPT ![INIT_PID] = t], tk, NoPid,
                  InitUnlinking(c))
    BY <1>0, <1>2, <1>7, <1>t, <2>1, ZombiesPoll
  <2>. QED
    BY <1>1, <2>2
<1>11. InitUnlinking(c) \in InitPlaces /\ InitUnlinking(c) # InitAt("start")
  BY <1>7, PlaceFacts, ContsDiffer
<1>12. treeOK(lv, ppid, children', NoPid, InitUnlinking(c))
  BY <1>1, <1>9
<1>. QED
  BY <1>1, <1>2, <1>10, <1>11, <1>12, InitMoves DEF lv, tk

\* removeChild on init's list of children.
LEMMA InitUnlinkAction ==
    ASSUME FamilyInv, CoreInv', InitUnlink
    PROVE  FamilyInv'
<1> DEFINE lv == Life(state)
           c == cont[INIT_PID].pid
<1>1. /\ InitRunning("unlink")
      /\ children' = withoutChild(children, INIT_PID, c)
      /\ cont' = [cont EXCEPT ![INIT_PID] = InitReaping(c)]
      /\ UNCHANGED <<state, readyQueue, sem, currentProcess, ppid, terminatedChildren,
                     foregroundSet, kernel>>
  BY DEF InitUnlink
<1>2. /\ INIT_PID \in PIDs /\ kernel = NoLoop /\ Orphaning(kernel) = NoPid
      /\ c \in PIDs /\ cont[INIT_PID] = InitUnlinking(c)
  BY <1>1, InitFacts
<1>t. children \in [PIDs -> Seq(PIDs)] /\ ppid \in [PIDs -> PIDs] /\ lv \in Lives
  BY InvTypes
<1>0. /\ treeOK(lv, ppid, children, NoPid, InitUnlinking(c))
      /\ zombiesOK(lv, ppid, terminatedChildren, Tokens(sem), NoPid, InitUnlinking(c))
  <2>1. /\ treeOK(lv, ppid, children, Orphaning(kernel), cont[INIT_PID])
        /\ zombiesOK(lv, ppid, terminatedChildren, Tokens(sem), Orphaning(kernel), cont[INIT_PID])
    BY DEF FamilyInv
  <2> HIDE DEF lv, c
  <2>. QED
    BY <1>2, <2>1
<1> HIDE DEF lv, c
<1>3. treeOK(lv, ppid, children', NoPid, InitReaping(c))
  <2> DEFINE cl == children'
             r == removeFromQueue(children[INIT_PID], c)
  <2>1. /\ cl[INIT_PID] = r
        /\ \A y \in PIDs : y # INIT_PID => cl[y] = children[y]
    BY <1>1, <1>2, <1>t DEF withoutChild
  <2>2. /\ \A d : isIn(d, r) <=> isIn(d, children[INIT_PID]) /\ d # c
        /\ noRepeats(children[INIT_PID]) => noRepeats(r)
    BY <1>2, <1>t, RemoveFromQueueProperties
  <2> HIDE DEF cl, r
  <2>3. \A x, y \in PIDs : isIn(x, cl[y]) <=> isIn(x, children[y]) /\ ~(x = c /\ y = INIT_PID)
    BY <2>1, <2>2
  <2>4. \A y \in PIDs : noRepeats(cl[y])
    BY <1>0, <1>2, <2>1, <2>2 DEF treeOK
  <2>5. treeOK(lv, ppid, cl, NoPid, InitReaping(c))
    BY <1>0, <1>2, <1>t, <2>3, <2>4, TreeUnlink
  <2>. QED
    BY <2>5 DEF cl
<1>4. zombiesOK(lv, ppid, terminatedChildren, Tokens(sem), NoPid, InitReaping(c))
  BY <1>0, <1>2, ZombiesUnlink
<1>5. zombiesOK(lv, ppid, terminatedChildren', Tokens(sem), NoPid, InitReaping(c))
  BY <1>1, <1>4
<1>6. InitReaping(c) \in InitPlaces /\ InitReaping(c) # InitAt("start")
  BY <1>2, PlaceFacts, ContsDiffer
<1>. QED
  BY <1>1, <1>2, <1>3, <1>5, <1>6, InitMoves DEF lv

\* The end of reapProcess: the slot leaves the foreground set, whosever it is now.
LEMMA InitClearAction ==
    ASSUME FamilyInv, CoreInv', InitClear
    PROVE  FamilyInv'
<1> DEFINE lv == Life(state)
           c == cont[INIT_PID].pid
           ib == InitAt("wait_any")
<1>1. /\ InitRunning("clear") /\ foregroundSet' \subseteq foregroundSet
      /\ cont' = [cont EXCEPT ![INIT_PID] = ib]
      /\ UNCHANGED <<state, readyQueue, sem, currentProcess, ppid, children, terminatedChildren,
                     kernel>>
  BY DEF InitClear, treeVars
<1>2. /\ kernel = NoLoop /\ Orphaning(kernel) = NoPid
      /\ c \in PIDs /\ cont[INIT_PID] = InitClearing(c)
  BY <1>1, InitFacts
<1>0. /\ treeOK(lv, ppid, children, NoPid, InitClearing(c))
      /\ zombiesOK(lv, ppid, terminatedChildren, Tokens(sem), NoPid, InitClearing(c))
  <2>1. /\ treeOK(lv, ppid, children, Orphaning(kernel), cont[INIT_PID])
        /\ zombiesOK(lv, ppid, terminatedChildren, Tokens(sem), Orphaning(kernel), cont[INIT_PID])
    BY DEF FamilyInv
  <2> HIDE DEF lv, c
  <2>. QED
    BY <1>2, <2>1
<1>3. sameTaken(InitClearing(c), ib)
  BY <1>2, TakenFacts DEF sameTaken
<1>4. /\ ib # InitAt("poll") /\ InitClearing(c) # InitAt("poll")
      /\ ib # InitAt("start") /\ ib \in InitPlaces
  BY <1>2, ContsDiffer, PlaceFacts
<1> HIDE DEF lv, c, ib
<1>5. treeOK(lv, ppid, children, NoPid, ib)
  BY <1>0, <1>3, TreeSeesReaping
<1>6. zombiesOK(lv, ppid, terminatedChildren, Tokens(sem), NoPid, ib)
  BY <1>0, <1>3, <1>4, ZombiesSeeReaping
<1>7. /\ treeOK(lv, ppid, children', NoPid, ib)
      /\ zombiesOK(lv, ppid, terminatedChildren', Tokens(sem), NoPid, ib)
  BY <1>1, <1>5, <1>6
<1>. QED
  BY <1>1, <1>2, <1>4, <1>7, InitMoves DEF lv

-----------------------------------------------------------------------------
(* The invariant *)

\* main after enableScheduler: idle and init are READY and nobody else exists.
LEMMA InitIsFamily == Init => FamilyInv
<1> SUFFICES ASSUME Init PROVE FamilyInv
  OBVIOUS
<1> DEFINE lv == Life(state)
<1>0. CoreInv
  BY InitIsSafe
<1>1. /\ INIT_PID \in PIDs /\ IDLE_PID \in PIDs /\ NoPid \notin PIDs /\ IDLE_PID # INIT_PID
  BY PidFacts DEF IDLE_PID, INIT_PID
<1>2. /\ state[IDLE_PID] = "READY" /\ state[INIT_PID] = "READY"
      /\ \A p \in Others : state[p] = "FREE"
      /\ Others = PIDs \ {IDLE_PID, INIT_PID}
  BY <1>1 DEF Init, isUnkillable, Others
<1>3. /\ lv[IDLE_PID] = "ALIVE" /\ lv[INIT_PID] = "ALIVE" /\ \A p \in Others : lv[p] = "FREE"
  BY <1>1, <1>2 DEF Life, life, Others
<1>4. /\ \A s \in SemIds : sem[s].blockedQueue = <<>>
      /\ \A p \in PIDs : sem[childTerminated(p)].value = 0
      /\ \A p \in PIDs : sem[terminated(p)].value = 0
  <2>1. \A s \in SemIds : sem[s].blockedQueue = <<>>
    BY DEF Init, newSemaphore
  <2>2. \A p \in PIDs : /\ childTerminated(p) \notin {userSem(u) : u \in UserSems}
                        /\ terminated(p) \notin {userSem(u) : u \in UserSems}
    BY SemIdsDiffer
  <2>3. \A p \in PIDs : sem[childTerminated(p)].value = 0 /\ sem[terminated(p)].value = 0
    BY <2>2, SemIdFacts DEF Init, newSemaphore
  <2>. QED
    BY <2>1, <2>3
<1>5. \A s \in SemIds : \A p \in PIDs : ~waits(p, sem, s)
  BY <1>4, EmptyQueue DEF waits
<1>6. /\ currentProcess = NoPid /\ kernel = NoLoop /\ foregroundSet = {}
      /\ \A p \in PIDs : children[p] = <<>> /\ terminatedChildren[p] = <<>> /\ ppid[p] = INIT_PID
      /\ cont[IDLE_PID] = IdleCode /\ cont[INIT_PID] = InitAt("start")
      /\ \A p \in Others : cont[p] = UserCode
  BY <1>1 DEF Init, Others
<1>7. queuesOK(state, readyQueue, sem)
  <2>1. readyQueue = <<IDLE_PID, INIT_PID>>
    BY DEF Init
  <2>2. /\ \A p \in PIDs : isIn(p, readyQueue) => p = IDLE_PID \/ p = INIT_PID
        /\ noRepeats(readyQueue)
    BY <1>1, <2>1 DEF isIn, noRepeats
  <2>3. life(state, INIT_PID) = "ALIVE"
    BY <1>2 DEF life
  <2>4. \A s \in SemIds : DOMAIN sem[s].blockedQueue = {}
    BY <1>4
  <2>5. \A p \in PIDs : sem[childTerminated(p)].blockedQueue = <<>>
    BY <1>4, SemIdFacts
  <2>. QED
    BY <1>1, <1>2, <1>5, <2>2, <2>3, <2>4, <2>5 DEF queuesOK
<1>8. blockedOK(state, sem)
  BY <1>2 DEF blockedOK, Others
<1>9. rolesOK(lv, state, cont, currentProcess, kernel, foregroundSet, sem)
  <2>1. kernel # Reaping /\ kernel # Halted /\ kernel.op = "none"
    BY <1>6, LoopFacts
  <2>. QED
    BY <1>2, <1>3, <1>4, <1>6, <2>1, PlaceFacts DEF rolesOK
<1>10. /\ Orphaning(kernel) = NoPid
       /\ \A p \in PIDs : ~Taken(p, cont[INIT_PID]) /\ cont[INIT_PID] # InitReaping(p)
  BY <1>6, LoopFacts, TakenFacts
<1>11. treeOK(lv, ppid, children, Orphaning(kernel), cont[INIT_PID])
  BY <1>1, <1>3, <1>6, <1>10, EmptyQueue DEF treeOK
<1>12. zombiesOK(lv, ppid, terminatedChildren, Tokens(sem), Orphaning(kernel), cont[INIT_PID])
  <2>1. \A p \in PIDs : lv[p] # "ZOMBIE"
    BY <1>3 DEF Others
  <2>2. cont[INIT_PID] # InitAt("poll")
    BY <1>6, ContsDiffer
  <2>3. \A p \in PIDs : Len(terminatedChildren[p]) = Tokens(sem)[p] + 0
    BY <1>4, <1>6, EmptyQueue DEF Tokens
  <2>. QED
    BY <1>6, <1>10, <2>1, <2>2, <2>3, EmptyQueue DEF zombiesOK
<1>13. waitersOK(lv, ppid, cont, sem)
  <2>1. \A m, c \in PIDs : lv[m] = "ALIVE" => cont[m] # AfterWaitPid(c)
    BY <1>3, <1>6, ContsDiffer DEF Others
  <2>2. \A m, c \in PIDs : ~waits(m, sem, terminated(c))
    BY <1>5, SemIdFacts
  <2>3. \A c \in PIDs : sem[terminated(c)].value <= 0
    BY <1>4
  <2>. QED
    BY <2>1, <2>2, <2>3 DEF waitersOK
<1>. QED
  BY <1>0, <1>7, <1>8, <1>9, <1>11, <1>12, <1>13 DEF FamilyInv

\* Every step, stuttering included, of programs that keep to the rules.
LEMMA NextFamily ==
    ASSUME Disciplined, FamilyInv, [Next]_vars
    PROVE  FamilyInv'
<1>1. CoreInv'
  BY NextPreserves DEF FamilyInv
<1>2. CASE Tick
  BY <1>1, <1>2, CpuActions
<1>3. CASE CtrlC
  BY <1>1, <1>3, QuietActions
<1>4. CASE KernelStep
  <2>1. CASE TransferOrphan
    BY <1>1, <2>1, TransferAction
  <2>2. CASE FinishTermination
    BY <1>1, <2>2, CpuActions
  <2>3. CASE WaitPidReturns
    BY <1>1, <2>3, WaitPidReturnsAction
  <2>4. CASE ReapOne
    BY <1>1, <2>4, ReapOneAction
  <2>5. CASE ReapDone \/ SkipInFG
    BY <1>1, <2>5, QuietActions
  <2>6. CASE \E p \in PIDs : KillInFG(p)
    BY <1>1, <2>6, KillActions
  <2>. QED
    BY <1>4, <2>1, <2>2, <2>3, <2>4, <2>5, <2>6 DEF KernelStep
<1>5. CASE InitStep
  <2>1. CASE InitWaitAny
    BY <1>1, <2>1, WaitActions
  <2>2. CASE InitPoll
    BY <1>1, <2>2, InitPollAction
  <2>3. CASE InitReap
    BY <1>1, <2>3, InitReapAction
  <2>4. CASE InitUnlink
    BY <1>1, <2>4, InitUnlinkAction
  <2>5. CASE InitClear
    BY <1>1, <2>5, InitClearAction
  <2>6. CASE \E p \in PIDs : InitStart(p)
    BY <1>1, <2>6, StartActions
  <2>. QED
    BY <1>5, <2>1, <2>2, <2>3, <2>4, <2>5, <2>6 DEF InitStep
<1>6. CASE SystemCall
  <2>1. CASE SysYield
    BY <1>1, <2>1, CpuActions
  <2>2. CASE SysExit
    BY <1>1, <2>2, KillActions
  <2>3. CASE SysReapZombies
    BY <1>1, <2>3, QuietActions
  <2>4. ASSUME NEW p \in PIDs,
               \/ SysCreateProcess(p) \/ SysWaitpid(p) \/ SysKill(p)
               \/ SysBlock(p) \/ SysUnblock(p) \/ SysForeground(p)
               \/ \E level \in Priorities : SysNice(p, level)
        PROVE  FamilyInv'
    <3>1. CASE SysCreateProcess(p)
      BY <1>1, <3>1, StartActions
    <3>2. CASE SysWaitpid(p)
      BY <1>1, <3>2, WaitActions
    <3>3. CASE SysKill(p)
      BY <1>1, <3>3, KillActions
    <3>4. CASE SysBlock(p) \/ SysUnblock(p)
      BY <1>1, <3>4, BlockActions
    <3>5. CASE SysForeground(p)
      BY <1>1, <3>5, QuietActions
    <3>6. CASE \E level \in Priorities : SysNice(p, level)
      BY <1>1, <3>6, QuietActions
    <3>. QED
      BY <2>4, <3>1, <3>2, <3>3, <3>4, <3>5, <3>6
  <2>5. ASSUME NEW s \in UserSems, SysSemWait(s) \/ SysSemPost(s)
        PROVE  FamilyInv'
    <3>1. CASE SysSemWait(s)
      BY <1>1, <3>1, WaitActions
    <3>2. CASE SysSemPost(s)
      BY <1>1, <3>2, PostAction
    <3>. QED
      BY <2>5, <3>1, <3>2
  <2>. QED
    BY <1>6, <2>1, <2>2, <2>3, <2>4, <2>5 DEF SystemCall
<1>7. CASE UNCHANGED vars
  <2>1. /\ UNCHANGED <<state, readyQueue, sem, currentProcess, ppid, children>>
        /\ UNCHANGED <<terminatedChildren, foregroundSet, cont, kernel>>
    BY <1>7 DEF vars
  <2>. QED
    BY <1>1, <2>1 DEF FamilyInv
<1>. QED
  BY <1>2, <1>3, <1>4, <1>5, <1>6, <1>7 DEF Next

\* While programs keep to the rules the family invariant holds in every state.
THEOREM FamilyInvariance ==
    ASSUME Disciplined PROVE Spec => []FamilyInv
<1>1. FamilyInv /\ [Next]_vars => FamilyInv'
  BY NextFamily
<1>. QED
  BY <1>1, InitIsFamily, PTL DEF Spec

\* readyQueue holds the READY processes and nobody else, each once: setReady,
\* setBlocked, notifyTermination, reapProcess and schedule agree about who
\* can run.
THEOREM OnlyReadyAreQueued ==
    ASSUME Disciplined PROVE Spec => []ReadyQueueExact
<1>1. FamilyInv => ReadyQueueExact
  <2> SUFFICES ASSUME FamilyInv PROVE ReadyQueueExact
    OBVIOUS
  <2>1. readyQueue \in Seq(PIDs) /\ queuesOK(state, readyQueue, sem)
    BY InvTypes DEF FamilyInv
  <2>2. \A i \in DOMAIN readyQueue : readyQueue[i] \in PIDs /\ isIn(readyQueue[i], readyQueue)
    BY <2>1 DEF isIn
  <2>. QED
    BY <2>1, <2>2 DEF queuesOK, ReadyQueueExact
<1>. QED
  BY <1>1, FamilyInvariance, PTL

\* The CPU is never handed to an empty slot, and sys_exit is never refused.
THEOREM MachineRunsOn ==
    ASSUME Disciplined PROVE Spec => []NeverHalts
<1>1. FamilyInv => NeverHalts
  BY DEF FamilyInv, rolesOK, NeverHalts
<1>. QED
  BY <1>1, FamilyInvariance, PTL

\* startNewProcess, transferOrphanChildren and the reapers keep the hierarchy:
\* a process's parent is there, has it once in its list, and is alive or is
\* the process whose children are being handed to init.
THEOREM ParentsKnowTheirChildren ==
    ASSUME Disciplined PROVE Spec => []FamilyTree
<1>1. FamilyInv => FamilyTree
  <2> SUFFICES ASSUME FamilyInv, NEW p \in Others, state[p] # "FREE"
               PROVE  /\ state[ppid[p]] # "FREE"
                      /\ \/ occursOnce(p, children[ppid[p]])
                         \/ cont[INIT_PID] = InitReaping(p)
                      /\ \/ state[ppid[p]] # "ZOMBIE"
                         \/ kernel.op = "orphans" /\ kernel.pid = ppid[p]
    BY DEF FamilyTree, Others
  <2> DEFINE lv == Life(state)
  <2>0. /\ treeOK(lv, ppid, children, Orphaning(kernel), cont[INIT_PID])
        /\ state \in [PIDs -> States] /\ ppid \in [PIDs -> PIDs]
        /\ children \in [PIDs -> Seq(PIDs)]
    BY InvTypes DEF FamilyInv
  <2>1. p \in PIDs /\ ppid[p] \in PIDs /\ ppid[p] # NoPid
    BY <2>0, PidFacts DEF Others
  <2>2. \A x \in PIDs : /\ lv[x] = "FREE" <=> state[x] = "FREE"
                        /\ lv[x] = "ZOMBIE" <=> state[x] = "ZOMBIE"
    BY <2>0, LifeFacts
  <2> HIDE DEF lv
  <2>3. lv[p] # "FREE"
    BY <2>1, <2>2
  <2>4. lv[ppid[p]] = "ALIVE" \/ ppid[p] = Orphaning(kernel)
    BY <2>0, <2>3 DEF treeOK
  <2>5. isIn(p, children[ppid[p]]) \/ cont[INIT_PID] = InitReaping(p)
    BY <2>0, <2>3 DEF treeOK
  <2>6. noRepeats(children[ppid[p]]) /\ children[ppid[p]] \in Seq(PIDs)
    BY <2>0, <2>1 DEF treeOK
  <2>7. isIn(p, children[ppid[p]]) => occursOnce(p, children[ppid[p]])
    BY <2>6, OnePosition DEF occursOnce
  <2>9. ppid[p] = Orphaning(kernel) =>
           kernel.op = "orphans" /\ kernel.pid = ppid[p] /\ lv[ppid[p]] = "ZOMBIE"
    BY <2>0, <2>1 DEF treeOK, Orphaning
  <2>. QED
    BY <2>1, <2>2, <2>4, <2>5, <2>7, <2>9
<1>. QED
  BY <1>1, FamilyInvariance, PTL

\* notifyTermination, wait_pid, reap_zombies and wait_any keep the tokens of
\* childTerminated and the entries of terminatedChildren in step.
THEOREM OneTokenPerDeadChild ==
    ASSUME Disciplined PROVE Spec => []TokenPerZombie
<1>1. FamilyInv => TokenPerZombie
  <2> SUFFICES ASSUME FamilyInv PROVE TokenPerZombie
    OBVIOUS
  <2> DEFINE lv == Life(state)
             ia == cont[INIT_PID]
  <2>0. /\ zombiesOK(lv, ppid, terminatedChildren, Tokens(sem), Orphaning(kernel), ia)
        /\ rolesOK(lv, state, cont, currentProcess, kernel, foregroundSet, sem)
        /\ state \in [PIDs -> States]
    BY InvTypes DEF FamilyInv
  <2>1. ia.op = "poll" <=> ia = InitAt("poll")
    BY <2>0 DEF rolesOK, InitPlaces, InitAt, InitUnlinking, InitReaping, InitClearing
  <2>2. ASSUME NEW p \in PIDs, state[p] \notin {"FREE", "ZOMBIE"}
        PROVE  Len(terminatedChildren[p]) =
                 sem[childTerminated(p)].value
                    + (IF p = INIT_PID /\ cont[p].op = "poll" THEN 1 ELSE 0)
    <3>1. lv[p] = "ALIVE"
      BY <2>2 DEF Life, life
    <3>2. Tokens(sem)[p] = sem[childTerminated(p)].value
      BY DEF Tokens
    <3>3. Len(terminatedChildren[p]) =
             Tokens(sem)[p] + (IF p = INIT_PID /\ ia = InitAt("poll") THEN 1 ELSE 0)
      BY <2>0, <3>1 DEF zombiesOK
    <3>. QED
      BY <2>1, <3>2, <3>3
  <2>. QED
    BY <2>2 DEF TokenPerZombie
<1>. QED
  BY <1>1, FamilyInvariance, PTL

\* A zombie is once in the list of the parent it has now, also after its
\* parent died and init inherited it, and the lists of the living hold only
\* zombies: no reaper frees the slot of somebody alive.
THEOREM ZombiesAreAnnounced ==
    ASSUME Disciplined PROVE Spec => []ZombieAnnounced
<1>1. FamilyInv => ZombieAnnounced
  <2> SUFFICES ASSUME FamilyInv PROVE ZombieAnnounced
    OBVIOUS
  <2> DEFINE lv == Life(state)
             ia == cont[INIT_PID]
             tc == terminatedChildren
  <2>0. /\ zombiesOK(lv, ppid, tc, Tokens(sem), Orphaning(kernel), ia)
        /\ treeOK(lv, ppid, children, Orphaning(kernel), ia)
        /\ state \in [PIDs -> States] /\ ppid \in [PIDs -> PIDs]
        /\ tc \in [PIDs -> Seq(PIDs)]
    BY InvTypes DEF FamilyInv
  <2>l. \A x \in PIDs : /\ lv[x] = "ALIVE" <=> state[x] \notin {"FREE", "ZOMBIE"}
                        /\ lv[x] = "ZOMBIE" <=> state[x] = "ZOMBIE"
    BY <2>0 DEF Life, life
  <2> HIDE DEF lv
  <2>1. ASSUME NEW p \in PIDs, state[p] = "ZOMBIE"
        PROVE  \/ occursOnce(p, tc[ppid[p]])
               \/ cont[INIT_PID] \in {InitUnlinking(p), InitReaping(p)}
               \/ kernel.op = "orphans" /\ kernel.pid = ppid[p]
    <3>1. lv[p] = "ZOMBIE" /\ ppid[p] \in PIDs /\ ppid[p] # NoPid
      BY <2>0, <2>1, <2>l, PidFacts
    <3>2. isIn(p, tc[ppid[p]]) \/ Taken(p, ia) \/ ppid[p] = Orphaning(kernel)
      BY <2>0, <3>1 DEF zombiesOK
    <3>3. ppid[p] = Orphaning(kernel) => kernel.op = "orphans" /\ kernel.pid = ppid[p]
      BY <3>1 DEF Orphaning
    <3>4. Taken(p, ia) => cont[INIT_PID] \in {InitUnlinking(p), InitReaping(p)}
      BY DEF Taken
    <3>5. lv[ppid[p]] = "ALIVE" \/ ppid[p] = Orphaning(kernel)
      BY <2>0, <3>1 DEF treeOK, Others
    <3>6. lv[ppid[p]] = "ALIVE" => noRepeats(tc[ppid[p]])
      BY <2>0, <3>1 DEF zombiesOK
    <3>7. tc[ppid[p]] \in Seq(PIDs)
      BY <2>0, <3>1
    <3>8. isIn(p, tc[ppid[p]]) /\ noRepeats(tc[ppid[p]]) => occursOnce(p, tc[ppid[p]])
      BY <3>7, OnePosition DEF occursOnce
    <3>. QED
      BY <3>2, <3>3, <3>4, <3>5, <3>6, <3>8
  <2>2. ASSUME NEW p \in PIDs, state[p] \notin {"FREE", "ZOMBIE"}, NEW i \in DOMAIN tc[p]
        PROVE  state[tc[p][i]] = "ZOMBIE"
    <3>1. tc[p][i] \in PIDs /\ isIn(tc[p][i], tc[p])
      BY <2>0 DEF isIn
    <3>. QED
      BY <2>0, <2>2, <2>l, <3>1 DEF zombiesOK
  <2>. QED
    BY <2>1, <2>2 DEF ZombieAnnounced
<1>. QED
  BY <1>1, FamilyInvariance, PTL

\* Without sys_block, whoever is BLOCKED is in the queue of a semaphore: no
\* kill, exit or reap takes a live waiter out of the queue it waits in.
THEOREM BlockedAreWaiting ==
    ASSUME Disciplined, "block" \notin Env PROVE Spec => []BlockedIsQueued
<1>1. FamilyInv => BlockedIsQueued
  BY DEF FamilyInv, blockedOK, waits, BlockedIsQueued, inBlockedQueue
<1>. QED
  BY <1>1, FamilyInvariance, PTL

\* A post on the terminated semaphore of c wakes a process that is in wait_pid
\* for c: no PID is in that queue on behalf of a process that was there before.
THEOREM PostsWakeTheirWaiters ==
    ASSUME Disciplined PROVE Spec => []PostWakesItsWaiter
<1>1. FamilyInv => PostWakesItsWaiter
  <2> SUFFICES ASSUME FamilyInv, NEW c \in PIDs, NEW p \in PIDs,
                      isIn(p, sem[terminated(c)].blockedQueue), state[p] = "BLOCKED"
               PROVE  cont[p] = AfterWaitPid(c)
    BY DEF PostWakesItsWaiter
  <2>1. Life(state)[p] = "ALIVE"
    BY DEF Life, life
  <2>. QED
    BY <2>1 DEF FamilyInv, waitersOK, waits
<1>. QED
  BY <1>1, FamilyInvariance, PTL

-----------------------------------------------------------------------------
(* Life and death, step by step *)

\* From st to st2 the dead only get reaped, and only the dead do.
mortal(st, st2) ==
    \A p \in PIDs : /\ st[p] = "ZOMBIE" => st2[p] \in {"ZOMBIE", "FREE"}
                    /\ st[p] # "FREE" /\ st2[p] = "FREE" => st[p] = "ZOMBIE"

\* Who is as alive as before.
LEMMA SameLife ==
    ASSUME NEW st \in [PIDs -> States], NEW st2 \in [PIDs -> States], Life(st2) = Life(st)
    PROVE  mortal(st, st2)
<1>1. \A p \in PIDs : /\ Life(st)[p] = "FREE" <=> st[p] = "FREE"
                      /\ Life(st)[p] = "ZOMBIE" <=> st[p] = "ZOMBIE"
                      /\ Life(st2)[p] = "FREE" <=> st2[p] = "FREE"
                      /\ Life(st2)[p] = "ZOMBIE" <=> st2[p] = "ZOMBIE"
  BY LifeFacts
<1>. QED
  BY <1>1 DEF mortal

\* Who dies was alive.
LEMMA DeathIsMortal ==
    ASSUME FamilyInv, NEW p \in Others, Life(state)[p] = "ALIVE",
           state' = notified(p).state, readyQueue' = notified(p).readyQueue,
           sem' = notified(p).sem, state' \in [PIDs -> States]
    PROVE  mortal(state, state')
<1> DEFINE lv == Life(state)
           l2 == Life(state')
           st2 == state'
<1>1. l2 = [lv EXCEPT ![p] = "ZOMBIE"]
  BY NotifyEffects
<1>2. state \in [PIDs -> States] /\ st2 \in [PIDs -> States] /\ lv \in Lives /\ p \in PIDs
  BY InvTypes DEF Others
<1> HIDE DEF st2
<1>3. \A x \in PIDs : /\ lv[x] = "FREE" <=> state[x] = "FREE"
                      /\ lv[x] = "ZOMBIE" <=> state[x] = "ZOMBIE"
  BY <1>2, LifeFacts
<1>4. \A x \in PIDs : /\ Life(st2)[x] = "FREE" <=> st2[x] = "FREE"
                      /\ Life(st2)[x] = "ZOMBIE" <=> st2[x] = "ZOMBIE"
  BY <1>2, LifeFacts
<1>5. \A x \in PIDs : l2[x] = IF x = p THEN "ZOMBIE" ELSE lv[x]
  BY <1>1, <1>2 DEF Lives
<1>. QED
  BY <1>3, <1>4, <1>5 DEF mortal, st2

\* The slot of a zombie is freed.
LEMMA ReapIsMortal ==
    ASSUME FamilyInv, NEW c, Life(state)[c] = "ZOMBIE", NEW sm, NEW ch, NEW tc,
           freeSlot(c, sm, ch, tc)
    PROVE  mortal(state, state')
<1>1. state \in [PIDs -> States]
  BY InvTypes
<1>2. state' = state \/ state' = [state EXCEPT ![c] = "FREE"]
  BY DEF freeSlot
<1>3. c \in PIDs => state[c] = "ZOMBIE"
  BY <1>1, LifeFacts
<1>. QED
  BY <1>1, <1>2, <1>3 DEF mortal

\* semWait of the process that runs.
LEMMA WaitIsMortal ==
    ASSUME FamilyInv, state' \in [PIDs -> States],
           \/ \E u \in UserSems : SysSemWait(u)
           \/ \E p \in PIDs : SysWaitpid(p)
           \/ InitWaitAny
    PROVE  mortal(state, state')
<1>0. state \in [PIDs -> States]
  BY InvTypes
<1>1. ASSUME NEW s \in SemIds, NEW c, InUserCode, waitOn(s, c),
             \A x \in PIDs : s # childTerminated(x)
      PROVE  Life(state') = Life(state)
  <2>1. /\ currentProcess \in Others /\ currentProcess \in PIDs
        /\ state[currentProcess] = "RUNNING" /\ kernel = NoLoop
    BY <1>1, CallerFacts
  <2>2. currentProcess # IDLE_PID
    BY <2>1 DEF Others
  <2>. QED
    BY <1>1, <2>1, <2>2, WaitEffects
<1>2. ASSUME NEW u \in UserSems, SysSemWait(u) PROVE Life(state') = Life(state)
  <2>1. /\ InUserCode /\ waitOn(userSem(u), UserCode) /\ userSem(u) \in SemIds
        /\ \A x \in PIDs : userSem(u) # childTerminated(x)
    BY <1>2, SemIdFacts, SemIdsDiffer DEF SysSemWait
  <2>. QED
    BY <1>1, <2>1
<1>3. ASSUME NEW p \in PIDs, SysWaitpid(p) PROVE Life(state') = Life(state)
  <2>1. /\ InUserCode /\ waitOn(terminated(p), AfterWaitPid(p)) /\ terminated(p) \in SemIds
        /\ \A x \in PIDs : terminated(p) # childTerminated(x)
    BY <1>3, SemIdFacts, SemIdsDiffer DEF SysWaitpid
  <2>. QED
    BY <1>1, <2>1
<1>4. CASE InitWaitAny
  <2> DEFINE s == childTerminated(INIT_PID)
  <2>1. InitRunning("wait_any") /\ waitOn(s, InitAt("poll"))
    BY <1>4 DEF InitWaitAny
  <2>2. /\ currentProcess = INIT_PID /\ currentProcess \in PIDs
        /\ state[currentProcess] = "RUNNING" /\ kernel = NoLoop
    BY <2>1, InitFacts
  <2>3. s \in SemIds /\ \A x \in PIDs : s = childTerminated(x) => x = INIT_PID
    BY <2>2, SemIdFacts, SemIdsDiffer
  <2>4. currentProcess # IDLE_PID
    BY <2>2 DEF INIT_PID, IDLE_PID
  <2> HIDE DEF s
  <2>5. Life(state') = Life(state)
    BY <2>1, <2>2, <2>3, <2>4, WaitEffects
  <2>. QED
    BY <1>0, <2>5, SameLife
<1>. QED
  BY <1>0, <1>2, <1>3, <1>4, SameLife

\* Every step: the dead only get reaped, and only the dead do.
LEMMA NextIsMortal ==
    ASSUME Disciplined, FamilyInv, [Next]_vars
    PROVE  mortal(state, state')
<1>1. CoreInv'
  BY NextPreserves DEF FamilyInv
<1>t. /\ state \in [PIDs -> States] /\ state' \in [PIDs -> States]
      /\ readyQueue \in Seq(PIDs) /\ sem \in [SemIds -> Semaphores]
      /\ currentProcess \in PIDs \cup {NoPid}
      /\ Sched \in SchedStates /\ \A t \in SemIds : debtIsQueue(Sched.sem[t])
      /\ queuesOK(Sched.state, Sched.readyQueue, Sched.sem) /\ Sched.state = state
  BY <1>1, InvTypes DEF FamilyInv, Sched, SchedStates, CoreInv, safe
<1>0. /\ queuesOK(state, readyQueue, sem) /\ state[IDLE_PID] \in {"READY", "RUNNING"}
      /\ rolesOK(Life(state), state, cont, currentProcess, kernel, foregroundSet, sem)
      /\ treeOK(Life(state), ppid, children, Orphaning(kernel), cont[INIT_PID])
  BY DEF FamilyInv, rolesOK
<1>a. \A x \in PIDs : state[x] # "FREE" /\ state[x] # "ZOMBIE" => Life(state)[x] = "ALIVE"
  BY DEF Life, life
<1>2. ASSUME state' = state PROVE mortal(state, state')
  BY <1>2 DEF mortal
<1>3. ASSUME schedule(state, readyQueue) PROVE mortal(state, state')
  <2>1. Life(state') = Life(state)
    BY <1>0, <1>3, <1>t, ScheduleKeeps
  <2>. QED
    BY <1>t, <2>1, SameLife
<1>4. ASSUME NEW s \in SemIds, state' = semPost(Sched, s).state PROVE mortal(state, state')
  <2>1. Life(semPost(Sched, s).state) = Life(Sched.state)
    BY <1>t, PostKeepsQueues
  <2>. QED
    BY <1>4, <1>t, <2>1, SameLife
<1>5. ASSUME NEW p \in Others, NEW n, terminate(p, n), Life(state)[p] = "ALIVE"
      PROVE  mortal(state, state')
  BY <1>5, <1>t, DeathIsMortal DEF terminate, continueWith
<1>6. CASE Tick \/ SysYield \/ FinishTermination
  BY <1>2, <1>3, <1>6 DEF Tick, SysYield, FinishTermination
<1>7. CASE \/ CtrlC \/ ReapDone \/ SkipInFG \/ InitPoll \/ InitUnlink \/ InitClear
           \/ SysReapZombies
           \/ \E p \in PIDs : \/ SysForeground(p)
                              \/ \E level \in Priorities : SysNice(p, level)
  BY <1>2, <1>7 DEF CtrlC, ReapDone, SkipInFG, InitPoll, InitUnlink, InitClear,
                 SysReapZombies, SysForeground, SysNice
<1>8. CASE TransferOrphan
  <2>1. childTerminated(INIT_PID) \in SemIds
    BY SemIdFacts, PidFacts
  <2>2. state' = state \/ state' = semPost(Sched, childTerminated(INIT_PID)).state
    BY <1>8 DEF TransferOrphan, initTold
  <2>. QED
    BY <1>2, <1>4, <2>1, <2>2
<1>9. CASE \E s \in UserSems : SysSemPost(s)
  BY <1>4, <1>9, SemIdFacts DEF SysSemPost, continueWith
<1>10. CASE SysExit
  <2>1. InUserCode
    BY <1>10 DEF SysExit
  <2>2. currentProcess \in Others /\ Life(state)[currentProcess] = "ALIVE"
    BY <2>1, CallerFacts
  <2>. QED
    BY <1>2, <1>5, <1>10, <2>2 DEF SysExit
<1>11. ASSUME NEW p \in PIDs, SysKill(p) PROVE mortal(state, state')
  <2>1. p \in Others /\ Life(state)[p] = "ALIVE" /\ terminate(p, NoPid)
    BY <1>11, <1>a DEF SysKill, MayKill, killable, isUnkillable, Others, Disciplined, Abuses
  <2>. QED
    BY <1>5, <2>1
<1>12. ASSUME NEW p \in PIDs, KillInFG(p) PROVE mortal(state, state')
  <2>1. p \in Others /\ Life(state)[p] = "ALIVE" /\ terminate(p, p + 1)
    BY <1>0, <1>12 DEF KillInFG, nextInFG, killable, isUnkillable, Others, rolesOK
  <2>. QED
    BY <1>5, <2>1
<1>13. CASE WaitPidReturns
  <2>1. Life(state)[cont[currentProcess].pid] = "ZOMBIE"
    BY <1>1, <1>13, WaitPidReturnsAction
  <2>. QED
    BY <1>13, <2>1, ReapIsMortal DEF WaitPidReturns, reapProcess
<1>14. CASE ReapOne
  <2>1. Life(state)[polled(terminatedChildren[currentProcess])] = "ZOMBIE"
    BY <1>1, <1>14, ReapOneAction
  <2>. QED
    BY <1>14, <2>1, ReapIsMortal DEF ReapOne, reapProcess
<1>15. CASE InitReap
  <2> DEFINE c == cont[INIT_PID].pid
  <2>1. InitRunning("reap") /\ freeSlot(c, sem, children, terminatedChildren)
    BY <1>15 DEF InitReap
  <2>2. c \in PIDs /\ cont[INIT_PID] = InitReaping(c)
    BY <2>1, InitFacts
  <2>3. Life(state)[c] = "ZOMBIE"
    BY <1>0, <2>2, TakenFacts DEF treeOK
  <2>. QED
    BY <2>1, <2>3, ReapIsMortal
<1>16. CASE \/ \E u \in UserSems : SysSemWait(u)
            \/ \E p \in PIDs : SysWaitpid(p)
            \/ InitWaitAny
  BY <1>16, <1>t, WaitIsMortal
<1>17. ASSUME NEW p \in PIDs, SysCreateProcess(p) \/ InitStart(p) PROVE mortal(state, state')
  <2>1. state[p] = "FREE" /\ state' = [state EXCEPT ![p] = "READY"]
    BY <1>17 DEF SysCreateProcess, InitStart, startNewProcess, isFirstFree
  <2>. QED
    BY <1>t, <2>1 DEF mortal
<1>18. ASSUME NEW p \in PIDs, SysBlock(p) \/ SysUnblock(p) PROVE mortal(state, state')
  <2>1. /\ state[p] \in {"RUNNING", "READY", "BLOCKED"}
        /\ \/ state' = [state EXCEPT ![p] = "BLOCKED"]
           \/ state' = [state EXCEPT ![p] = "READY"]
    BY <1>18 DEF SysBlock, SysUnblock, canBlock, canBeReady, continueWith, setReady, Sched
  <2>. QED
    BY <1>t, <2>1 DEF mortal
<1>19. CASE UNCHANGED vars
  BY <1>2, <1>19 DEF vars
<1>20. CASE KernelStep
  BY <1>6, <1>7, <1>8, <1>12, <1>13, <1>14, <1>20 DEF KernelStep
<1>21. CASE InitStep
  BY <1>7, <1>15, <1>16, <1>17, <1>21 DEF InitStep
<1>22. CASE SystemCall
  BY <1>6, <1>7, <1>9, <1>10, <1>11, <1>16, <1>17, <1>18, <1>22 DEF SystemCall
<1>. QED
  BY <1>6, <1>7, <1>19, <1>20, <1>21, <1>22 DEF Next

\* reapProcess, from wait_pid, reap_zombies or init, frees the slots of
\* zombies only.
THEOREM OnlyZombiesAreReaped ==
    ASSUME Disciplined PROVE Spec => ReapsOnlyZombies
<1> DEFINE A == \A p \in PIDs : state[p] # "FREE" /\ state'[p] = "FREE" => state[p] = "ZOMBIE"
<1>1. FamilyInv /\ [Next]_vars => [A]_vars
  BY NextIsMortal DEF mortal
<1>. QED
  BY <1>1, FamilyInvariance, PTL DEF Spec, ReapsOnlyZombies

\* Without the abuses not even the process that runs comes back: these leave
\* out Ctrl+C while a foreground process is on the CPU.
COROLLARY DisciplinedDeadStayDead ==
    ASSUME Disciplined PROVE Spec => DeadStaysDead
<1> DEFINE A == \A p \in PIDs : state[p] = "ZOMBIE" => state'[p] \in {"ZOMBIE", "FREE"}
<1>1. FamilyInv /\ [Next]_vars => [A]_vars
  BY NextIsMortal DEF mortal
<1>. QED
  BY <1>1, FamilyInvariance, PTL DEF Spec, DeadStaysDead

=============================================================================
