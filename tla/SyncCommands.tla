---------------------------- MODULE SyncCommands ----------------------------
(***************************************************************************)
(* The commands that synchronise through named semaphores, on module       *)
(* SharedSemaphores.                                                       *)
(*   Userland/SampleCodeModule/mvar.c        writers and readers share one *)
(*     slot until Ctrl+C; the next run closes and reopens the names its    *)
(*     predecessor left behind                                             *)
(*   Userland/SampleCodeModule/test_sync.c   processes add to and subtract *)
(*     from one variable, each with the semaphore open, and end            *)
(*                                                                         *)
(* A process is a program of system calls and accesses of shared memory,   *)
(* one step each.  Every run has processes of its own; the delays and      *)
(* yields between operations are the freedom of the interleaving.          *)
(***************************************************************************)
EXTENDS SharedSemaphores, FiniteSetsExt

CONSTANTS
    NWriters, NReaders,     \* of mvar
    NPairs, Iterations,     \* of test_sync
    Sessions,       \* the commands the user may type, in order
    CtrlCWhen,      \* the steps of mvarCommand at which Ctrl+C may come
    MayBackground   \* may a command be started while another goes on?

VARIABLES
    session,        \* what this user types
    run,            \* how many of them were started
    pc,             \* the next step of every process
    foregroundSet,
    slotValue, ch,  \* of mvar, and a reader's local
    unread,         \* history: slotValue was written and not read since
    global, aux     \* of test_sync, and its processes' local

progVars == <<slotValue, ch, unread, global, aux>>
syncVars == <<sharedVars, session, run, pc, foregroundSet, progVars>>

MaxRuns == Max({Len(s) : s \in Sessions})
Runs == 1 .. MaxRuns
Proc(k, i, r) == [kind |-> k, i |-> i, run |-> r]
Mains == {Proc("main", 0, r) : r \in Runs}
Writers == {Proc("writer", i, r) : i \in 1 .. NWriters, r \in Runs}
Readers == {Proc("reader", i, r) : i \in 1 .. NReaders, r \in Runs}
Adders == {Proc("adder", i, 1) : i \in 1 .. 2 * NPairs}
Workers == Writers \cup Readers \cup Adders
SyncProcs == Mains \cup Workers
Zero == 0

ASSUME SyncAssumption ==
    /\ NWriters \in Nat \ {0} /\ NReaders \in Nat \ {0} /\ NWriters + NReaders <= 10
    /\ NPairs \in Nat \ {0} /\ Iterations \in Nat \ {0}
    /\ MaxRuns \in Nat /\ \A s \in Sessions : Len(s) \in 0 .. MaxRuns
    /\ Procs = SyncProcs
    /\ MayBackground \in BOOLEAN

-----------------------------------------------------------------------------
(* Programs; the workers of mvar start over after their last step *)

producerEntry == <<<<"wait", "libre">>, <<"wait", "excl">>, <<"write">>,
                   <<"post", "excl">>, <<"post", "lleno">>>>

\* Seeded fault: the reader frees the slot before it has read it.
consumerEntryEarly == <<<<"wait", "lleno">>, <<"post", "libre">>, <<"wait", "excl">>,
                        <<"read">>, <<"post", "excl">>, <<"print">>>>

\* Seeded fault: the reader takes the lock before it waits for a letter.
consumerEntryLocked == <<<<"wait", "excl">>, <<"wait", "lleno">>, <<"read">>,
                         <<"post", "excl">>, <<"post", "libre">>, <<"print">>>>

consumerEntry == <<<<"wait", "lleno">>, <<"wait", "excl">>, <<"read">>,
                   <<"post", "excl">>, <<"post", "libre">>, <<"print">>>>

\* Worker i of n is created by step 2i - 1 and put in the foreground by step 2i.
SpawnAll(k, n) ==
    [j \in 1 .. 2 * n |-> <<IF j % 2 = 1 THEN "create" ELSE "foreground", k, (j + 1) \div 2>>]

\* Seeded fault: the workers are left in the background.
SpawnsOnly == [i \in 1 .. NWriters |-> <<"create", "writer", i>>]
              \o [i \in 1 .. NReaders |-> <<"create", "reader", i>>]

Spawns == SpawnAll("writer", NWriters) \o SpawnAll("reader", NReaders)

mvarCommand ==
    <<<<"close", "excl">>, <<"close", "libre">>, <<"close", "lleno">>,
      <<"open", "excl", 1>>, <<"open", "libre", 1>>, <<"open", "lleno", 0>>>>
    \o Spawns \o <<<<"yield">>>>

\* slowInc between a wait and a post, with the value read before it may yield.
Increment == <<<<"wait", "sem">>, <<"load">>, <<"store">>, <<"post", "sem">>>>

my_process_inc ==
    <<<<"open", "sem", 1>>>>
    \o [j \in 1 .. 4 * Iterations |-> Increment[((j - 1) % 4) + 1]]
    \o <<<<"close", "sem">>, <<"exit">>>>

test_sync_command ==
    [i \in 1 .. 2 * NPairs |-> <<"create", "adder", i>>]
    \o [i \in 1 .. 2 * NPairs |-> <<"waitpid", "adder", i>>]
    \o <<<<"exit">>>>

Program(p) == CASE p.kind = "main" /\ session[p.run] = "mvar" -> mvarCommand
                [] p.kind = "main" /\ session[p.run] = "test_sync" -> test_sync_command
                [] p.kind = "writer" -> producerEntry
                [] p.kind = "reader" -> consumerEntry
                [] p.kind = "adder"  -> my_process_inc

\* mvarCommand stays at its yield.
Advance(p) ==
    pc' = [pc EXCEPT ![p] = IF @ < Len(Program(p)) THEN @ + 1
                            ELSE IF p \in Mains THEN @ ELSE 1]

Init ==
    /\ SharedInit
    /\ session \in Sessions
    /\ run = 0
    /\ status = [p \in Procs |-> "FREE"]
    /\ pc = [p \in Procs |-> 1]
    /\ foregroundSet = {}
    /\ slotValue = Zero /\ ch = [r \in Readers |-> Zero] /\ unread = FALSE
    /\ global = 0 /\ aux = [p \in Adders |-> 0]

-----------------------------------------------------------------------------
(* Steps *)

Alive(p) == status[p] \in {"READY", "BLOCKED"}

\* The shell starts a command in the foreground; it clears its shared variable
\* before anything else.
Start ==
    /\ run < Len(session)
    /\ MayBackground \/ \A p \in Mains : ~Alive(p)
    /\ run' = run + 1
    /\ status' = [status EXCEPT ![Proc("main", 0, run + 1)] = "READY"]
    /\ foregroundSet' = foregroundSet \cup {Proc("main", 0, run + 1)}
    /\ IF session[run + 1] = "mvar"
       THEN slotValue' = Zero /\ unread' = FALSE /\ UNCHANGED global
       ELSE global' = 0 /\ UNCHANGED <<slotValue, unread>>
    /\ UNCHANGED <<table, heap, session, pc, ch, aux>>

Semaphores(p, op) ==
    /\ \/ op[1] = "open" /\ sharedSemOpen(op[2], op[3])
       \/ op[1] = "close" /\ sharedSemClose(op[2])
       \/ op[1] = "wait" /\ sharedSemWait(op[2], p)
       \/ op[1] = "post" /\ sharedSemPost(op[2])
    /\ Advance(p)
    /\ UNCHANGED <<session, foregroundSet, run, progVars>>

\* create_process, foreground, waitpid and exit as the commands use them.
Processes(p, op) ==
    /\ \/ /\ op[1] = "create"
          /\ status' = [status EXCEPT ![Proc(op[2], op[3], p.run)] = "READY"]
          /\ UNCHANGED foregroundSet
       \/ /\ op[1] = "foreground"
          /\ foregroundSet' = foregroundSet \cup {Proc(op[2], op[3], p.run)}
          /\ UNCHANGED status
       \/ /\ op[1] = "waitpid" /\ status[Proc(op[2], op[3], p.run)] = "DEAD"
          /\ UNCHANGED <<status, foregroundSet>>
       \/ /\ op[1] = "exit"
          /\ status' = [status EXCEPT ![p] = "DEAD"]
          /\ foregroundSet' = foregroundSet \ {p}
    /\ Advance(p)
    /\ UNCHANGED <<table, heap, session, run, progVars>>

SharedMemory(p, op) ==
    /\ \/ /\ op[1] = "write"
          /\ slotValue' = p.i /\ unread' = TRUE
          /\ UNCHANGED <<ch, global, aux>>
       \/ /\ op[1] = "read"
          /\ ch' = [ch EXCEPT ![p] = slotValue] /\ unread' = FALSE
          /\ UNCHANGED <<slotValue, global, aux>>
       \/ /\ op[1] = "print"
          /\ ch' = [ch EXCEPT ![p] = Zero]
          /\ UNCHANGED <<slotValue, unread, global, aux>>
       \/ /\ op[1] = "load"
          /\ aux' = [aux EXCEPT ![p] = global]
          /\ UNCHANGED <<slotValue, ch, unread, global>>
       \/ /\ op[1] = "store"
          /\ global' = aux[p] + (IF p.i % 2 = 1 THEN -1 ELSE 1)
          /\ aux' = [aux EXCEPT ![p] = 0]
          /\ UNCHANGED <<slotValue, ch, unread>>
    /\ Advance(p)
    /\ UNCHANGED <<sharedVars, session, foregroundSet, run>>

\* The keyboard interrupt kills the foreground set; the queues keep the dead,
\* whose locals are gone.  A user of test_sync lets it finish.
CtrlC ==
    /\ foregroundSet # {}
    /\ \A p \in Mains : Alive(p) => Program(p)[pc[p]][1] \in CtrlCWhen
    /\ status' = [p \in Procs |-> IF p \in foregroundSet THEN "DEAD" ELSE status[p]]
    /\ foregroundSet' = {}
    /\ pc' = [p \in Procs |-> IF p \in foregroundSet THEN 1 ELSE pc[p]]
    /\ ch' = [r \in Readers |-> IF r \in foregroundSet THEN Zero ELSE ch[r]]
    /\ UNCHANGED <<table, heap, session, run, slotValue, unread, global, aux>>

Step(p) ==
    /\ status[p] = "READY"
    /\ \E op \in {Program(p)[pc[p]]} :
         Semaphores(p, op) \/ SharedMemory(p, op) \/ Processes(p, op)

Next ==
    \/ Start
    \/ CtrlC
    \/ \E p \in SyncProcs : Step(p)

\* The scheduler gives every READY process its turn; the delays are finite.
Spec == Init /\ [][Next]_syncVars /\ \A p \in SyncProcs : WF_syncVars(Step(p))

-----------------------------------------------------------------------------
(* Properties *)

Buffer == INSTANCE OneSlot WITH
              Values <- 1 .. NWriters, Takers <- Readers, Nothing <- Zero,
              slot <- IF unread THEN slotValue ELSE Zero, taken <- ch

\* The slot of mvar is a one-slot buffer, across Ctrl+C at any step of the
\* workers and across runs: a letter is read once, by one reader, before the
\* next is written (the protocol in the head of mvar.c).
IsAOneSlotBuffer == Buffer!Spec

\* Nobody sleeps on a semaphore its name no longer leads to: no post could wake
\* it.  sharedSemClose frees the slot at the last reference, whoever waits.
NobodyStranded ==
    \A s \in DOMAIN heap : QueuedOn(s) \cap Blocked # {} => s \in Listed

\* With the semaphore, what test_sync prints is 0 although the semaphore comes
\* and goes with the processes that have it open (the head of test_sync.c).
SumIsZero ==
    \A p \in Mains : status[p] = "READY" /\ session[p.run] = "test_sync"
                        /\ Program(p)[pc[p]][1] = "exit"
                      => global = 0

\* Every worker that was started gets through its program, whatever the order
\* in which the others run, unless Ctrl+C ends it first.
EveryWorkerServed ==
    \A p \in Workers : Alive(p) /\ pc[p] = 1
                       ~> pc[p] = Len(Program(p)) \/ status[p] = "DEAD"
=============================================================================
