------------------------------- MODULE Kernel -------------------------------
(***************************************************************************)
(* The process core of the kernel: process table, round-robin scheduler,   *)
(* counting semaphores, process hierarchy (wait, reap, orphans) and the    *)
(* foreground set with Ctrl+C.                                             *)
(*   Kernel/process_contextswitch/scheduler.c, process.c                   *)
(*   Kernel/semaphores/semaphore.c, Kernel/queue.c, Kernel/kernel.c        *)
(*                                                                         *)
(* One CPU.  Every IDT entry is an interrupt gate, so a system call or an  *)
(* interrupt handler runs with interrupts off: it is one action, or, where *)
(* it loops, a chain of actions named by the variable kernel, and leaves   *)
(* the CPU only through forceSchedulerCall.  Init (PID 1) runs the kernel's*)
(* wait_any with interrupts on, so its steps are separate actions that the *)
(* timer may come between.                                                 *)
(***************************************************************************)
EXTENDS Integers, Sequences, FiniteSets, Queue

CONSTANTS
    MAX_PROCESSES,  \* size of processTable
    UserSems,       \* named semaphores that are open during the run
    InitialValue,   \* value they were opened with
    MaxValue,       \* bound on the value a semaphore reaches
    MaxWaiters,     \* bound on the length of a blocked queue
    Priorities,     \* levels sys_nice is called with
    Env             \* what user programs and the keyboard do, see Behaviours

\* The calls that some, not all, runs of the system make.
Behaviours == {"sem", "nice", "block", "unblock_waiter", "self_block", "kill",
               "kill_zombie", "reuse_waiter", "ctrl_c", "ctrl_c_running"}

ASSUME ProcessesAssumption == MAX_PROCESSES \in Nat /\ MAX_PROCESSES >= 3
ASSUME BoundsAssumption == /\ InitialValue \in Nat
                           /\ MaxValue \in Nat
                           /\ MaxWaiters \in Nat
ASSUME PrioritiesAssumption == Priorities \subseteq Nat \ {0}
ASSUME EnvAssumption == Env \subseteq Behaviours

VARIABLES
    state,              \* process->state; FREE when processTable[pid] is NULL
    readyQueue,
    sem,                \* every semaphore: value and blockedQueue
    currentProcess,
    priorityLevel,
    remainingQuantums,
    ppid,
    children,
    terminatedChildren,
    foregroundSet,
    cont,               \* where a process goes on when it is next dispatched
    kernel              \* the loop that kernel code with interrupts off is in

vars == <<state, readyQueue, sem, currentProcess, priorityLevel,
          remainingQuantums, ppid, children, terminatedChildren,
          foregroundSet, cont, kernel>>

schedVars == <<priorityLevel, remainingQuantums>>
treeVars == <<ppid, children, terminatedChildren>>

-----------------------------------------------------------------------------
PIDs == 0 .. MAX_PROCESSES - 1
IDLE_PID == 0
INIT_PID == 1
NoPid == -1
isUnkillable(p) == p \in {IDLE_PID, INIT_PID}

States == {"FREE", "READY", "RUNNING", "BLOCKED", "ZOMBIE"}

terminated(p) == <<"terminated", p>>
childTerminated(p) == <<"childTerminated", p>>
userSem(s) == <<"user", s>>
SemIds == {terminated(p) : p \in PIDs} \cup {childTerminated(p) : p \in PIDs}
              \cup {userSem(s) : s \in UserSems}

Semaphores == [value : Int, blockedQueue : Seq(PIDs)]
newSemaphore(v) == [value |-> v, blockedQueue |-> <<>>]

\* Continuations: user code, idle's loop, the tail of wait_pid, init's loop.
UserCode == [op |-> "user", pid |-> NoPid]
AfterWaitPid(p) == [op |-> "wait_pid", pid |-> p]
IdleCode == [op |-> "idle", pid |-> NoPid]
InitAt(op) == [op |-> op, pid |-> NoPid]
InitUnlinking(p) == [op |-> "unlink", pid |-> p]
InitReaping(p) == [op |-> "reap", pid |-> p]
InitClearing(p) == [op |-> "clear", pid |-> p]
Conts == [op : {"user", "idle", "start", "wait_any", "poll"}, pid : {NoPid}]
             \cup [op : {"wait_pid", "unlink", "reap", "clear"}, pid : PIDs]

\* Kernel loops.  next is the index forEachInFG goes on from, if it called.
NoLoop == [op |-> "none", pid |-> NoPid, next |-> NoPid]
OrphansOf(p, n) == [op |-> "orphans", pid |-> p, next |-> n]
KillingFG(n) == [op |-> "ctrl_c", pid |-> NoPid, next |-> n]
Reaping == [op |-> "reap_zombies", pid |-> NoPid, next |-> NoPid]
Halted == [op |-> "halted", pid |-> NoPid, next |-> NoPid]
Loops == [op : {"none", "reap_zombies", "halted"}, pid : {NoPid}, next : {NoPid}]
             \cup [op : {"orphans"}, pid : PIDs,
                   next : {NoPid} \cup 0 .. MAX_PROCESSES]
             \cup [op : {"ctrl_c"}, pid : {NoPid}, next : 0 .. MAX_PROCESSES]

\* Interrupts are on: nobody dispatched yet, init, idle or user code.
InterruptsOn ==
    /\ kernel = NoLoop
    /\ currentProcess \notin {NoPid, INIT_PID}
          => cont[currentProcess] \in {UserCode, IdleCode}

\* A user process is running its own code and may make a system call.
InUserCode ==
    /\ kernel = NoLoop
    /\ currentProcess # NoPid
    /\ cont[currentProcess] = UserCode

-----------------------------------------------------------------------------
(* Semaphore and ready-state operators over [state, readyQueue, sem] *)

withSem(k, s, x) == [state      |-> k.state,
                     readyQueue |-> k.readyQueue,
                     sem        |-> [k.sem EXCEPT ![s] = x]]

Sched == [state |-> state, readyQueue |-> readyQueue, sem |-> sem]

\* Seeded fault: the value is tested before it is decremented.
mustBlockEarly(k, s) == k.sem[s].value < 0

mustBlock(k, s) == k.sem[s].value - 1 < 0

\* wait as the current process.
semWait(k, s) ==
    IF mustBlock(k, s)
    THEN withSem([k EXCEPT !.state = [@ EXCEPT ![currentProcess] = "BLOCKED"]], s,
                 [value        |-> k.sem[s].value - 1,
                  blockedQueue |-> Append(k.sem[s].blockedQueue, currentProcess)])
    ELSE withSem(k, s, [k.sem[s] EXCEPT !.value = @ - 1])

\* setReady refuses a slot that is empty or not BLOCKED.
canBeReady(k, p) == k.state[p] = "BLOCKED"

\* Seeded fault: the woken process is not queued.
setReadyUnqueued(k, p) == [k EXCEPT !.state = [@ EXCEPT ![p] = "READY"]]

setReady(k, p) == [state      |-> [k.state EXCEPT ![p] = "READY"],
                   readyQueue |-> Append(k.readyQueue, p),
                   sem        |-> k.sem]

\* The post's loop may poll this many waiters ...
pollable(k, s) ==
    LET v == k.sem[s].value + 1
        n == Len(k.sem[s].blockedQueue)
    IN  IF v > 0 THEN 0 ELSE IF 1 - v < n THEN 1 - v ELSE n

\* ... and stops at the first that setReady accepts.
stopsAt(k, s) ==
    LET q == k.sem[s].blockedQueue
    IN  {j \in 1 .. pollable(k, s) :
            /\ canBeReady(k, q[j])
            /\ \A i \in 1 .. j - 1 : ~canBeReady(k, q[i])}

\* Seeded faults: skipped waiters do not pay their debt; one waiter too many
\* is dropped.
drainedOwing(k, s, n, m) ==
    [value        |-> k.sem[s].value + 1,
     blockedQueue |-> SubSeq(k.sem[s].blockedQueue, n + 1,
                             Len(k.sem[s].blockedQueue))]
drainedTwice(k, s, n, m) ==
    [value        |-> k.sem[s].value + m,
     blockedQueue |-> SubSeq(k.sem[s].blockedQueue, n + 2,
                             Len(k.sem[s].blockedQueue))]

\* The semaphore after the loop polled n waiters and added m to the value.
drained(k, s, n, m) ==
    [value        |-> k.sem[s].value + m,
     blockedQueue |-> SubSeq(k.sem[s].blockedQueue, n + 1,
                             Len(k.sem[s].blockedQueue))]

semPost(k, s) ==
    IF stopsAt(k, s) = {}
    THEN LET n == pollable(k, s)
         IN  withSem(k, s, drained(k, s, n, n + 1))
    ELSE LET j == CHOOSE i \in stopsAt(k, s) : TRUE
         IN  setReady(withSem(k, s, drained(k, s, j, j)),
                      k.sem[s].blockedQueue[j])

\* semTryWait: takes a token only when there is one.
hasToken(s) == sem[s].value > 0
semTryWaitFree(s) == sem      \* seeded fault: the token is not taken
semTryWait(s) ==
    IF hasToken(s)
    THEN [sem EXCEPT ![s] = [value        |-> sem[s].value - 1,
                             blockedQueue |-> sem[s].blockedQueue]]
    ELSE sem

-----------------------------------------------------------------------------
(* The scheduler *)

\* getNextPID and the hand-over.  An empty slot is a NULL processTable entry
\* that setState writes through: the machine is taken to stop there.
dispatch(st, rq) ==
    LET next == IF rq = <<>> THEN IDLE_PID ELSE Head(rq)
    IN  /\ readyQueue' = afterPoll(rq)
        /\ IF st[next] = "FREE"
           THEN /\ state' = st
                /\ currentProcess' = NoPid
                /\ kernel' = Halted
                /\ UNCHANGED remainingQuantums
           ELSE /\ state' = [st EXCEPT ![next] = "RUNNING"]
                /\ currentProcess' = next
                /\ kernel' = NoLoop
                /\ remainingQuantums' =
                     [remainingQuantums EXCEPT ![next] = priorityLevel[next] - 1]

\* Seeded faults: a quantum that is not there is used; the process that gives
\* way is put at the head of the queue.
scheduleOneMore(st, rq) ==
    IF currentProcess # NoPid /\ st[currentProcess] = "RUNNING"
    THEN /\ remainingQuantums' =
              [remainingQuantums EXCEPT ![currentProcess] = @ - 1]
         /\ state' = st
         /\ readyQueue' = rq
         /\ kernel' = NoLoop
         /\ UNCHANGED currentProcess
    ELSE dispatch(st, rq)
scheduleAtHead(st, rq) ==
    IF currentProcess # NoPid /\ st[currentProcess] = "RUNNING"
    THEN dispatch([st EXCEPT ![currentProcess] = "READY"],
                  <<currentProcess>> \o rq)
    ELSE dispatch(st, rq)

schedule(st, rq) ==
    IF currentProcess # NoPid /\ st[currentProcess] = "RUNNING"
    THEN IF remainingQuantums[currentProcess] > 0
         THEN /\ remainingQuantums' =
                   [remainingQuantums EXCEPT ![currentProcess] = @ - 1]
              /\ state' = st
              /\ readyQueue' = rq
              /\ kernel' = NoLoop
              /\ UNCHANGED currentProcess
         ELSE dispatch([st EXCEPT ![currentProcess] = "READY"],
                       Append(rq, currentProcess))
    ELSE dispatch(st, rq)

\* The code goes on in the same process, with this much changed.
continueWith(k) ==
    /\ state' = k.state
    /\ readyQueue' = k.readyQueue
    /\ UNCHANGED <<currentProcess, remainingQuantums>>

\* IRQ0.
Tick ==
    /\ InterruptsOn
    /\ schedule(state, readyQueue)
    /\ UNCHANGED <<sem, priorityLevel, treeVars, foregroundSet, cont>>

\* sys_yield.
SysYield ==
    /\ InUserCode
    /\ schedule(state, readyQueue)
    /\ UNCHANGED <<sem, priorityLevel, treeVars, foregroundSet, cont>>

\* setPriorityOnPID on the PCB fields.
setPriority(p, level) ==
    /\ priorityLevel' = [priorityLevel EXCEPT ![p] = level]
    /\ remainingQuantums' = [remainingQuantums EXCEPT ![p] = level]

SysNice(p, level) ==
    /\ "nice" \in Env
    /\ InUserCode
    /\ state[p] # "FREE"
    /\ setPriority(p, level)
    /\ UNCHANGED <<state, readyQueue, sem, currentProcess, treeVars,
                   foregroundSet, cont, kernel>>

\* Bound: only abuses of sys_unblock and of reaping put a PID in twice.
BoundedReady == Len(readyQueue) < MAX_PROCESSES

-----------------------------------------------------------------------------
(* Creation *)

isFirstFree(p) == state[p] = "FREE" /\ \A q \in 0 .. p - 1 : state[q] # "FREE"

\* The fields of the new PCB.
newProcess(p) ==
    /\ sem' = [sem EXCEPT ![terminated(p)] = newSemaphore(0),
                          ![childTerminated(p)] = newSemaphore(0)]
    /\ priorityLevel' = [priorityLevel EXCEPT ![p] = 1]
    /\ remainingQuantums' = [remainingQuantums EXCEPT ![p] = 1]
    /\ terminatedChildren' = [terminatedChildren EXCEPT ![p] = <<>>]

startNewProcess(p) ==
    /\ isFirstFree(p)
    /\ BoundedReady
    /\ newProcess(p)
    /\ IF currentProcess = IDLE_PID
       THEN /\ ppid' = [ppid EXCEPT ![p] = INIT_PID]
            /\ children' = [children EXCEPT ![p] = <<>>]
       ELSE /\ ppid' = [ppid EXCEPT ![p] = currentProcess]
            /\ children' = [children EXCEPT ![p] = <<>>,
                                            ![currentProcess] = Append(@, p)]
    /\ state' = [state EXCEPT ![p] = "READY"]
    /\ readyQueue' = Append(readyQueue, p)

\* p waits on some semaphore, or died waiting and its entry is still there.
inBlockedQueue(p) == \E s \in SemIds : isIn(p, sem[s].blockedQueue)

SysCreateProcess(p) ==
    /\ InUserCode
    /\ ~inBlockedQueue(p) \/ "reuse_waiter" \in Env
    /\ startNewProcess(p)
    /\ cont' = [cont EXCEPT ![p] = UserCode]
    /\ UNCHANGED <<currentProcess, foregroundSet, kernel>>

-----------------------------------------------------------------------------
(* Explicit blocking: sys_block and sys_unblock *)

canBlockAnything(p) == ~isUnkillable(p) /\ state[p] # "FREE"  \* seeded fault
canBlock(p) == ~isUnkillable(p) /\ state[p] \in {"RUNNING", "READY"}

withoutBlocked(p) == readyQueue    \* seeded fault: it stays in readyQueue
withoutReady(p) == IF state[p] = "READY" THEN removeFromQueue(readyQueue, p)
                                         ELSE readyQueue

SysBlock(p) ==
    /\ "block" \in Env
    /\ p # currentProcess \/ "self_block" \in Env
    /\ InUserCode
    /\ canBlock(p)
    /\ state' = [state EXCEPT ![p] = "BLOCKED"]
    /\ readyQueue' = withoutReady(p)
    /\ UNCHANGED <<sem, currentProcess, schedVars, treeVars, foregroundSet,
                   cont, kernel>>

SysUnblock(p) ==
    /\ "block" \in Env
    /\ ~inBlockedQueue(p) \/ "unblock_waiter" \in Env
    /\ BoundedReady
    /\ InUserCode
    /\ ~isUnkillable(p)
    /\ canBeReady(Sched, p)
    /\ continueWith(setReady(Sched, p))
    /\ UNCHANGED <<sem, priorityLevel, treeVars, foregroundSet, cont, kernel>>

-----------------------------------------------------------------------------
(* Semaphores of user programs *)

\* wait(s) with continuation c: blocked, the process gives the CPU away.
waitOn(s, c) ==
    /\ Len(sem[s].blockedQueue) < MaxWaiters
    /\ sem' = semWait(Sched, s).sem
    /\ cont' = [cont EXCEPT ![currentProcess] = c]
    /\ IF mustBlock(Sched, s)
       THEN schedule(semWait(Sched, s).state, readyQueue)
       ELSE UNCHANGED <<state, readyQueue, currentProcess, remainingQuantums,
                        kernel>>

SysSemWait(s) ==
    /\ "sem" \in Env
    /\ InUserCode
    /\ waitOn(userSem(s), UserCode)
    /\ UNCHANGED <<priorityLevel, treeVars, foregroundSet>>

SysSemPost(s) ==
    /\ "sem" \in Env
    /\ InUserCode
    /\ sem[userSem(s)].value < MaxValue
    /\ continueWith(semPost(Sched, userSem(s)))
    /\ sem' = semPost(Sched, userSem(s)).sem
    /\ UNCHANGED <<priorityLevel, treeVars, foregroundSet, cont, kernel>>

-----------------------------------------------------------------------------
(* Termination *)

\* The refusals of terminateProcess and killFromIsr.
killable(p) == ~isUnkillable(p) /\ state[p] # "FREE" /\ state[ppid[p]] # "FREE"

\* Seeded fault: the dead process stays in readyQueue.
notifiedQueued(p) ==
    LET k == [state |-> [state EXCEPT ![p] = "ZOMBIE"],
              readyQueue |-> readyQueue, sem |-> sem]
    IN  semPost(semPost(k, terminated(p)), childTerminated(ppid[p]))

\* notifyTermination on the scheduler state.
notified(p) ==
    LET k == [state      |-> [state EXCEPT ![p] = "ZOMBIE"],
              readyQueue |-> removeFromQueue(readyQueue, p),
              sem        |-> sem]
    IN  semPost(semPost(k, terminated(p)), childTerminated(ppid[p]))

\* terminateProcess and killFromIsr up to the loop of transferOrphanChildren.
\* closeFdsOf acts on the fd tables and pipes, which are not in this module.
terminate(p, n) ==
    /\ continueWith(notified(p))
    /\ sem' = notified(p).sem
    /\ terminatedChildren' = [terminatedChildren EXCEPT ![ppid[p]] = Append(@, p)]
    /\ foregroundSet' = foregroundSet \ {p}
    /\ kernel' = OrphansOf(p, n)
    /\ UNCHANGED <<priorityLevel, ppid, children, cont>>

\* Bound on the tokens that terminating one process over and over leaves; if
\* nobody dies twice there are no more of them than processes.
BoundedTokens(p) ==
    Env \cap {"kill_zombie", "ctrl_c_running"} # {}
        => /\ sem[terminated(p)].value < MaxValue
           /\ sem[childTerminated(ppid[p])].value < MaxValue

\* What a run's environment kills.
MayKill(p) ==
    /\ state[p] # "ZOMBIE" \/ "kill_zombie" \in Env
    /\ BoundedTokens(p)

\* sys_kill of another process.
SysKill(p) ==
    /\ "kill" \in Env
    /\ InUserCode
    /\ p # currentProcess
    /\ MayKill(p)
    /\ killable(p)
    /\ terminate(p, NoPid)

\* sys_exit (and sys_kill of oneself): while (1) with interrupts off when
\* terminateProcess refuses.
SysExit ==
    /\ InUserCode
    /\ IF killable(currentProcess)
       THEN BoundedTokens(currentProcess) /\ terminate(currentProcess, NoPid)
       ELSE /\ kernel' = Halted
            /\ UNCHANGED <<state, readyQueue, sem, currentProcess, schedVars, treeVars,
                           foregroundSet, cont>>

\* Seeded faults in transferOrphanChildren: the orphan keeps its old ppid;
\* init is not told of a zombie it inherits.
keepParent(c) == ppid
initUntold == Sched

setInitParent(c) == [ppid EXCEPT ![c] = INIT_PID]
initTold == semPost(Sched, childTerminated(INIT_PID))

\* One round of transferOrphanChildren.
TransferOrphan ==
    LET p == kernel.pid
        c == Head(children[p])
        rest == [children EXCEPT ![p] = Tail(@)]
    IN  /\ kernel.op = "orphans"
        /\ children[p] # <<>>
        /\ IF state[c] = "FREE"
           THEN /\ children' = rest
                /\ UNCHANGED <<state, readyQueue, sem, ppid, terminatedChildren>>
           ELSE /\ children' = [rest EXCEPT ![INIT_PID] = Append(@, c)]
                /\ ppid' = setInitParent(c)
                /\ IF state[c] = "ZOMBIE"
                   THEN /\ terminatedChildren' =
                             [terminatedChildren EXCEPT ![INIT_PID] = Append(@, c)]
                        /\ state' = initTold.state
                        /\ readyQueue' = initTold.readyQueue
                        /\ sem' = initTold.sem
                   ELSE UNCHANGED <<state, readyQueue, sem, terminatedChildren>>
        /\ UNCHANGED <<currentProcess, schedVars, foregroundSet, cont, kernel>>

\* The end of terminateProcess, or of killFromIsr called by forEachInFG.
FinishTermination ==
    /\ kernel.op = "orphans"
    /\ children[kernel.pid] = <<>>
    /\ \/ /\ kernel.next # NoPid
          /\ kernel' = KillingFG(kernel.next)
          /\ UNCHANGED <<state, readyQueue, currentProcess, remainingQuantums>>
       \/ /\ kernel.next = NoPid
          /\ currentProcess # kernel.pid
          /\ kernel' = NoLoop
          /\ UNCHANGED <<state, readyQueue, currentProcess, remainingQuantums>>
       \/ /\ kernel.next = NoPid
          /\ currentProcess = kernel.pid
          /\ schedule(state, readyQueue)
    /\ UNCHANGED <<sem, priorityLevel, treeVars, foregroundSet, cont>>

-----------------------------------------------------------------------------
(* Waiting and reaping *)

\* removeFromQueue on the children or terminatedChildren of p.
keepingChild(queues, p, c) == queues    \* seeded fault: nothing is removed
withoutChild(queues, p, c) == [queues EXCEPT ![p] = removeFromQueue(queues[p], c)]

\* freeProcess and the table's entry, with the given semaphores and queues; a
\* free slot is blank.
freeSlot(p, sm, ch, tc) ==
    IF state[p] = "FREE"
    THEN /\ sem' = sm
         /\ children' = ch
         /\ terminatedChildren' = tc
         /\ UNCHANGED <<state, ppid, schedVars>>
    ELSE /\ state' = [state EXCEPT ![p] = "FREE"]
         /\ sem' = [sm EXCEPT ![terminated(p)] = newSemaphore(0),
                              ![childTerminated(p)] = newSemaphore(0)]
         /\ children' = [ch EXCEPT ![p] = <<>>]
         /\ terminatedChildren' = [tc EXCEPT ![p] = <<>>]
         /\ ppid' = [ppid EXCEPT ![p] = INIT_PID]
         /\ priorityLevel' = [priorityLevel EXCEPT ![p] = 1]
         /\ remainingQuantums' = [remainingQuantums EXCEPT ![p] = 0]

\* With interrupts off the whole of reapProcess is one step.
reapProcess(p, sm, ch, tc) ==
    /\ freeSlot(p, sm, ch, tc)
    /\ foregroundSet' = IF state[p] = "FREE" THEN foregroundSet ELSE foregroundSet \ {p}

\* wait_pid up to semWait(terminated).  User programs wait for their own
\* children only, so the parent the code looks up is the caller.
SysWaitpid(p) ==
    /\ InUserCode
    /\ state[p] # "FREE"
    /\ ppid[p] = currentProcess
    /\ waitOn(terminated(p), AfterWaitPid(p))
    /\ UNCHANGED <<priorityLevel, treeVars, foregroundSet>>

\* wait_pid after semWait, however semWait came to return.
WaitPidReturns ==
    LET me == currentProcess
        p  == cont[me].pid
    IN  /\ kernel = NoLoop
        /\ me # NoPid
        /\ cont[me].op = "wait_pid"
        /\ reapProcess(p, semTryWait(childTerminated(me)),
                       withoutChild(children, me, p),
                       withoutChild(terminatedChildren, me, p))
        /\ cont' = [cont EXCEPT ![p] = UserCode, ![me] = UserCode]
        /\ UNCHANGED <<readyQueue, currentProcess, kernel>>

SysReapZombies ==
    /\ InUserCode
    /\ kernel' = Reaping
    /\ UNCHANGED <<state, readyQueue, sem, currentProcess, schedVars, treeVars,
                   foregroundSet, cont>>

\* One round of reap_zombies, and its end.
ReapOne ==
    LET me == currentProcess
        p  == polled(terminatedChildren[me])
    IN  /\ kernel = Reaping
        /\ hasToken(childTerminated(me))
        /\ reapProcess(p, semTryWait(childTerminated(me)),
                       withoutChild(children, me, p),
                       [terminatedChildren EXCEPT ![me] = afterPoll(@)])
        /\ cont' = [cont EXCEPT ![p] = UserCode]
        /\ UNCHANGED <<readyQueue, currentProcess, kernel>>

ReapDone ==
    /\ kernel = Reaping
    /\ ~hasToken(childTerminated(currentProcess))
    /\ kernel' = NoLoop
    /\ UNCHANGED <<state, readyQueue, sem, currentProcess, schedVars, treeVars,
                   foregroundSet, cont>>

-----------------------------------------------------------------------------
(* Init: starts the shell, then wait_any for ever, with interrupts on *)

InitRunning(op) ==
    kernel = NoLoop /\ currentProcess = INIT_PID /\ cont[INIT_PID].op = op

InitStart(p) ==
    /\ InitRunning("start")
    /\ startNewProcess(p)
    /\ cont' = [cont EXCEPT ![INIT_PID] = InitAt("wait_any"), ![p] = UserCode]
    /\ UNCHANGED <<currentProcess, foregroundSet, kernel>>

InitWaitAny ==
    /\ InitRunning("wait_any")
    /\ waitOn(childTerminated(INIT_PID), InitAt("poll"))
    /\ UNCHANGED <<priorityLevel, treeVars, foregroundSet>>

\* The rest of wait_any, one call or assignment a step: another process may run
\* between any two of them.
InitPoll ==
    /\ InitRunning("poll")
    /\ terminatedChildren' = [terminatedChildren EXCEPT ![INIT_PID] = afterPoll(@)]
    /\ cont' = [cont EXCEPT ![INIT_PID] = InitUnlinking(polled(terminatedChildren[INIT_PID]))]
    /\ UNCHANGED <<state, readyQueue, sem, currentProcess, schedVars, ppid, children,
                   foregroundSet, kernel>>

InitUnlink ==
    LET p == cont[INIT_PID].pid
    IN  /\ InitRunning("unlink")
        /\ children' = withoutChild(children, INIT_PID, p)
        /\ cont' = [cont EXCEPT ![INIT_PID] = InitReaping(p)]
        /\ UNCHANGED <<state, readyQueue, sem, currentProcess, schedVars, ppid,
                       terminatedChildren, foregroundSet, kernel>>

InitReap ==
    LET p == cont[INIT_PID].pid
    IN  /\ InitRunning("reap")
        /\ freeSlot(p, sem, children, terminatedChildren)
        /\ cont' = [cont EXCEPT ![p] = UserCode,
                                ![INIT_PID] = IF state[p] = "FREE" THEN InitAt("wait_any")
                                              ELSE InitClearing(p)]
        /\ UNCHANGED <<readyQueue, currentProcess, foregroundSet, kernel>>

\* By now the slot may be another process's.
InitClear ==
    /\ InitRunning("clear")
    /\ foregroundSet' = foregroundSet \ {cont[INIT_PID].pid}
    /\ cont' = [cont EXCEPT ![INIT_PID] = InitAt("wait_any")]
    /\ UNCHANGED <<state, readyQueue, sem, currentProcess, schedVars, treeVars, kernel>>

-----------------------------------------------------------------------------
(* Foreground and Ctrl+C *)

\* addToFG: the shell and mvar put their own children in the foreground.
SysForeground(p) ==
    /\ "ctrl_c" \in Env
    /\ InUserCode
    /\ state[p] # "FREE"
    /\ ppid[p] = currentProcess
    /\ state[p] # "ZOMBIE" \/ "kill_zombie" \in Env
    /\ p \notin foregroundSet
    /\ foregroundSet' = foregroundSet \cup {p}
    /\ UNCHANGED <<state, readyQueue, sem, currentProcess, schedVars, treeVars,
                   cont, kernel>>

\* The keyboard interrupt with Ctrl+C: forEachInFG(killFromIsr).
CtrlC ==
    /\ "ctrl_c" \in Env
    /\ currentProcess \notin foregroundSet \/ "ctrl_c_running" \in Env
    /\ \A p \in foregroundSet : MayKill(p)
    /\ InterruptsOn
    /\ foregroundSet # {}
    /\ kernel' = KillingFG(0)
    /\ UNCHANGED <<state, readyQueue, sem, currentProcess, schedVars, treeVars,
                   foregroundSet, cont>>

\* p is the next member of the foreground set the loop comes to.
nextInFG(p) ==
    /\ p \in foregroundSet
    /\ p >= kernel.next
    /\ \A q \in foregroundSet : q >= kernel.next => p <= q

KillInFG(p) ==
    /\ kernel.op = "ctrl_c"
    /\ nextInFG(p)
    /\ killable(p)
    /\ terminate(p, p + 1)

SkipInFG ==
    /\ kernel.op = "ctrl_c"
    /\ kernel' = IF \E p \in PIDs : nextInFG(p)
                 THEN KillingFG((CHOOSE p \in PIDs : nextInFG(p)) + 1)
                 ELSE NoLoop
    /\ \A p \in PIDs : nextInFG(p) => ~killable(p)
    /\ UNCHANGED <<state, readyQueue, sem, currentProcess, schedVars, treeVars,
                   foregroundSet, cont>>

-----------------------------------------------------------------------------
\* main after enableScheduler: idle and init are READY, nobody has run.
Init ==
    /\ state = [p \in PIDs |-> IF isUnkillable(p) THEN "READY" ELSE "FREE"]
    /\ readyQueue = <<IDLE_PID, INIT_PID>>
    /\ sem = [s \in SemIds |-> newSemaphore(
                 IF s \in {userSem(u) : u \in UserSems} THEN InitialValue ELSE 0)]
    /\ currentProcess = NoPid
    /\ priorityLevel = [p \in PIDs |-> 1]
    /\ remainingQuantums = [p \in PIDs |-> IF isUnkillable(p) THEN 1 ELSE 0]
    /\ ppid = [p \in PIDs |-> INIT_PID]
    /\ children = [p \in PIDs |-> <<>>]
    /\ terminatedChildren = [p \in PIDs |-> <<>>]
    /\ foregroundSet = {}
    /\ cont = [p \in PIDs |-> CASE p = IDLE_PID -> IdleCode
                                [] p = INIT_PID -> InitAt("start")
                                [] OTHER -> UserCode]
    /\ kernel = NoLoop

KernelStep == TransferOrphan \/ FinishTermination \/ WaitPidReturns
                 \/ ReapOne \/ ReapDone \/ SkipInFG
                 \/ \E p \in PIDs : KillInFG(p)

InitStep == InitWaitAny \/ InitPoll \/ InitUnlink \/ InitReap \/ InitClear \/ \E p \in PIDs : InitStart(p)

SystemCall ==
    \/ SysYield \/ SysExit \/ SysReapZombies
    \/ \E p \in PIDs : \/ SysCreateProcess(p) \/ SysWaitpid(p) \/ SysKill(p)
                       \/ SysBlock(p) \/ SysUnblock(p) \/ SysForeground(p)
                       \/ \E level \in Priorities : SysNice(p, level)
    \/ \E s \in UserSems : SysSemWait(s) \/ SysSemPost(s)

Next == Tick \/ CtrlC \/ KernelStep \/ InitStep \/ SystemCall

Spec == Init /\ [][Next]_vars

\* The timer interrupt stays pending in the PIC until it is taken, so it
\* cannot be put off for ever; kernel code runs on; and init gets a whole tick
\* of CPU each time it is dispatched.  User programs may do nothing for ever.
Fairness == SF_vars(Tick) /\ WF_vars(KernelStep) /\ SF_vars(InitStep)

FairSpec == Spec /\ Fairness

-----------------------------------------------------------------------------
(* Properties *)

\* Types; reap_zombies runs on behalf of a process.
TypeOK ==
    /\ state \in [PIDs -> States]
    /\ readyQueue \in Seq(PIDs)
    /\ sem \in [SemIds -> Semaphores]
    /\ currentProcess \in PIDs \cup {NoPid}
    /\ priorityLevel \in [PIDs -> Nat \ {0}]
    /\ remainingQuantums \in [PIDs -> Nat]
    /\ ppid \in [PIDs -> PIDs]
    /\ children \in [PIDs -> Seq(PIDs)]
    /\ terminatedChildren \in [PIDs -> Seq(PIDs)]
    /\ foregroundSet \subseteq PIDs
    /\ cont \in [PIDs -> Conts]
    /\ kernel \in Loops
    /\ kernel = Reaping => currentProcess # NoPid

occursOnce(p, q) == Cardinality({i \in DOMAIN q : q[i] = p}) = 1

\* A semaphore's debt is its queue: whatever kills, early unblocks and reuse
\* of PIDs did to the waiters, semWait and semPost keep -value equal to the
\* number of queued waiters while value is negative, and the queue empty
\* otherwise, so no post is lost and none wakes two.
debtIsQueue(x) ==
    Len(x.blockedQueue) = IF x.value < 0 THEN -x.value ELSE 0
SemAccounting == \A s \in SemIds : debtIsQueue(sem[s])

\* No runnable process is forgotten: whoever is READY is in readyQueue.
readyAreQueued(st, rq) == \A p \in PIDs : st[p] = "READY" => isIn(p, rq)
NoLostReady == readyAreQueued(state, readyQueue)

\* The CPU is given to one process: RUNNING is the state of currentProcess.
onlyRuns(st, cur) == \A p \in PIDs : st[p] = "RUNNING" => p = cur
OneRunning == onlyRuns(state, currentProcess)

\* readyQueue holds the READY processes, each once.
ReadyQueueExact ==
    /\ \A i \in DOMAIN readyQueue : state[readyQueue[i]] = "READY"
    /\ noRepeats(readyQueue)

\* p's parent knows p: it is alive, not a zombie whose children were already
\* handed to init, and has p once in its list.
FamilyTree ==
    \A p \in PIDs \ {IDLE_PID, INIT_PID} :
        state[p] # "FREE" =>
            /\ state[ppid[p]] # "FREE"
            /\ \/ occursOnce(p, children[ppid[p]])
               \/ cont[INIT_PID] = InitReaping(p)
            /\ \/ state[ppid[p]] # "ZOMBIE"
               \/ kernel.op = "orphans" /\ kernel.pid = ppid[p]

\* Tokens of childTerminated and entries of terminatedChildren go together:
\* a parent that takes a token finds a child to reap.
\* Init has taken the token of the entry it is about to poll.
TokenPerZombie ==
    \A p \in PIDs :
        state[p] \notin {"FREE", "ZOMBIE"} =>
            LET v == sem[childTerminated(p)].value
                owed == IF p = INIT_PID /\ cont[p].op = "poll" THEN 1 ELSE 0
            IN  Len(terminatedChildren[p]) = v + owed

\* A zombie is announced once to the parent it has now, and only zombies are.
ZombieAnnounced ==
    \A p \in PIDs :
        /\ state[p] = "ZOMBIE" =>
              \/ occursOnce(p, terminatedChildren[ppid[p]])
              \/ cont[INIT_PID] \in {InitUnlinking(p), InitReaping(p)}
              \/ kernel.op = "orphans" /\ kernel.pid = ppid[p]
        /\ state[p] \notin {"FREE", "ZOMBIE"} =>
              \A i \in DOMAIN terminatedChildren[p] :
                  state[terminatedChildren[p][i]] = "ZOMBIE"

\* A BLOCKED process waits where somebody will post: it is in the queue of a
\* semaphore (in runs without sys_block).
BlockedIsQueued ==
    \A p \in PIDs : state[p] = "BLOCKED" => inBlockedQueue(p)

\* "Incrementa el valor; si habia procesos bloqueados, despierta al primero":
\* whoever a post on terminated(c) can wake is waiting there for c.
PostWakesItsWaiter ==
    \A c, p \in PIDs :
        isIn(p, sem[terminated(c)].blockedQueue) /\ state[p] = "BLOCKED"
            => cont[p] = AfterWaitPid(c)

\* "Idle (PID 0) corre cuando no hay nadie listo."
IdleRunsAlone ==
    [][currentProcess' = IDLE_PID /\ currentProcess \notin {IDLE_PID, NoPid}
          => \A p \in PIDs : state'[p] # "READY"]_vars

\* The machine does not stop: no NULL processTable entry is dispatched and no
\* sys_exit is refused.
NeverHalts == kernel # Halted

\* Only a zombie's slot is ever freed.
ReapsOnlyZombies ==
    [][\A p \in PIDs : state[p] # "FREE" /\ state'[p] = "FREE"
                           => state[p] = "ZOMBIE"]_vars

\* A terminated process stays terminated until it is reaped.
DeadStaysDead ==
    [][\A p \in PIDs : state[p] = "ZOMBIE" => state'[p] \in {"ZOMBIE", "FREE"}]_vars

\* Whatever programs do, only the process on the CPU can come back from the dead:
\* Ctrl+C made it a zombie, it goes on, and it waits on a semaphore.
OnlyTheRunningReturn ==
    [][\A p \in PIDs : state[p] = "ZOMBIE" => state'[p] \in {"ZOMBIE", "FREE"} \/ p = currentProcess]_vars

\* Who is in the foreground set stays there until it dies.
ForegroundIsKept ==
    [][\A p \in foregroundSet : p \in foregroundSet' \/ state'[p] = "ZOMBIE"]_vars

\* A READY process gets the CPU (or stops being READY).
EveryReadyRuns == \A p \in PIDs : state[p] = "READY" ~> state[p] # "READY"

\* Each sys_nice renews the quantum of its target: somebody does so for ever.
NicesForever == []<><<\E p \in PIDs, level \in Priorities : SysNice(p, level)>>_vars

\* A READY process gets the CPU, unless somebody calls sys_nice for ever.
ReadyRuns == NicesForever \/ EveryReadyRuns

\* A zombie that init inherited, or whose parent init is, is reaped, unless
\* somebody calls sys_nice for ever.
OrphansReaped ==
    \/ NicesForever
    \/ \A p \in PIDs : (state[p] = "ZOMBIE" /\ ppid[p] = INIT_PID) ~> (state[p] = "FREE")

=============================================================================
