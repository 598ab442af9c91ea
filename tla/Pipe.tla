-------------------------------- MODULE Pipe --------------------------------
(***************************************************************************)
(* One pipe, the processes that read and write it, and the keyboard, which *)
(* writes from its interrupt handler in the name of whichever process it   *)
(* interrupted.                                                            *)
(*   Kernel/IPC/pipe.c, Kernel/circularBuffer.c, readFd and writeFd of     *)
(*   process.c, keyboardInterrupt of keyboardDriver.c                      *)
(*                                                                         *)
(* Kernel code runs with interrupts off until semWait blocks it: cpu names *)
(* the process that is inside a call and has not blocked, and only that    *)
(* process takes steps.  pc is the semaphore it last waited for; a process *)
(* that was woken has the token and goes on from there.                    *)
(***************************************************************************)
EXTENDS Semaphore

CONSTANTS
    Setups,         \* who uses the pipe, and how: see Setup
    Idle,           \* runs when nobody is READY, whatever its own state
    PIPE_BUF_SIZE, MAX_PROCESSES,
    NUL,            \* the byte Ctrl+D writes
    MaxDebt         \* bound on how far idle drives a semaphore below zero

Behaviours == {"kill", "ctrl_d", "elsewhere"}
Nobody == "nobody"
Driver == "keyboardBuffer"      \* holds the write end of the keyboard's pipe

\* What the writers write, and the NUL of Ctrl+D.
Byte == {NUL} \cup UNION {UNION {{m[i] : i \in DOMAIN m} : m \in u.messages} : u \in Setups}

\* readers, writers; foreground: those in the foreground set; keyboard: this is
\* the keyboard's pipe, its driver the only writer; messages: what a write is
\* given; counts: how many bytes a read asks for; env: what else may happen.
IsSetup(u) == /\ u.counts \subseteq Nat \ {0}
              /\ \A m \in u.messages : m \in Seq(Byte) /\ m # <<>>
              /\ IsFiniteSet(u.writers)
              /\ u.foreground \subseteq u.readers
              /\ {Idle, Nobody, Driver} \cap (u.readers \cup u.writers) = {}
              /\ u.keyboard \in BOOLEAN /\ u.env \subseteq Behaviours
              /\ u.keyboard => u.writers = {}

ASSUME PipeAssumption == /\ PIPE_BUF_SIZE \in Nat \ {0}
                         /\ MAX_PROCESSES \in Nat \ {0} /\ MaxDebt \in Nat
                         /\ Idle # Driver
                         /\ \A u \in Setups : IsSetup(u)

VARIABLES
    setup,          \* the member of Setups, chosen once
    buffer,         \* the circular buffer
    sem,            \* the pipe's four semaphores
    state,          \* READY (also running), BLOCKED or ZOMBIE
    pc, cpu,
    call,           \* arguments and progress of a process's call
    writeEnds,      \* the write ends that are open: writerCount
    eofRequests,    \* processes Ctrl+D has marked
    got, result     \* bytes and outcome of the last call

vars == <<setup, buffer, sem, state, pc, cpu, call, writeEnds, eofRequests, got, result>>

Readers == setup.readers
Writers == setup.writers
Foreground == setup.foreground
Keyboard == setup.keyboard
Messages == setup.messages
Counts == setup.counts
Env == setup.env

\* Everyone who is in some setup; who is not in this one is dead from the start.
Procs == {Idle} \cup UNION {u.readers \cup u.writers : u \in Setups}

SemNames == {"dataAvailable", "freeSpaces", "readMutex", "writeMutex"}
NoCall == [buf |-> <<>>, n |-> 0, count |-> 0]

writerCount == Cardinality(writeEnds)

-----------------------------------------------------------------------------
(* The circular buffer *)

newBuffer == [data |-> [i \in 0 .. PIPE_BUF_SIZE - 1 |-> NUL],
              readIdx |-> 0, writeIdx |-> 0, count |-> 0]

bufferIsFull(cb) == cb.count = PIPE_BUF_SIZE
bufferHasData(cb) == cb.count > 0

\* Seeded fault: the write index is not wrapped with the capacity.
bufferWriteStuck(cb, b) ==
    IF bufferIsFull(cb) THEN cb
    ELSE [cb EXCEPT !.data = [@ EXCEPT ![cb.writeIdx] = b],
                    !.writeIdx = IF @ + 1 < PIPE_BUF_SIZE THEN @ + 1 ELSE @,
                    !.count = @ + 1]

bufferWrite(cb, b) ==
    IF bufferIsFull(cb) THEN cb
    ELSE [cb EXCEPT !.data = [@ EXCEPT ![cb.writeIdx] = b],
                    !.writeIdx = (@ + 1) % PIPE_BUF_SIZE,
                    !.count = @ + 1]

\* The bytes n calls of bufferRead return, and the buffer after them.
bufferRead(cb, n) == [i \in 1 .. n |-> cb.data[(cb.readIdx + i - 1) % PIPE_BUF_SIZE]]
afterRead(cb, n) == [cb EXCEPT !.readIdx = (@ + n) % PIPE_BUF_SIZE, !.count = @ - n]

Content == bufferRead(buffer, buffer.count)

-----------------------------------------------------------------------------
(* Semaphores and process states together, as [sem, state] *)

\* Op(k) with k evaluated once, for chains of updates.
Then(k, Op(_)) == CHOOSE x \in {Op(j) : j \in {k}} : TRUE

Blocked(k) == {p \in Procs : k.state[p] = "BLOCKED"}

WaitOn(k, p, s) == Then(k, LAMBDA j :
    [sem   |-> [j.sem EXCEPT ![s] = semWait(@, p)],
     state |-> [j.state EXCEPT ![p] = IF mustBlock(j.sem[s]) THEN "BLOCKED" ELSE @]])

Post(k, s) == Then(k, LAMBDA j :
    [sem   |-> [j.sem EXCEPT ![s] = semPost(@, Blocked(j))],
     state |-> [p \in Procs |-> IF p \in Woken(j.sem[s], Blocked(j))
                                THEN "READY" ELSE j.state[p]]])

Posts(k, s, n) ==
    LET f[i \in 0 .. n] == IF i = 0 THEN k ELSE Post(f[i - 1], s) IN f[n]

Now == [sem |-> sem, state |-> state]

CanRun(p) == state[p] = "READY" /\ cpu \in {p, Nobody}
InUserCode(p) == CanRun(p) /\ pc[p] = "user"
At(p, s) == CanRun(p) /\ pc[p] = s

\* p goes on to wait for s; it keeps the CPU if it need not block.
GoWait(k, p, s) ==
    /\ \E w \in {WaitOn(k, p, s)} :
         /\ sem' = w.sem
         /\ state' = w.state
         /\ cpu' = IF w.state[p] = "BLOCKED" THEN Nobody ELSE p
    /\ pc' = [pc EXCEPT ![p] = s]
    /\ UNCHANGED setup

\* p's call ends with outcome r.
Return(k, p, r) ==
    /\ \E j \in {k} : sem' = j.sem /\ state' = j.state
    /\ cpu' = Nobody
    /\ pc' = [pc EXCEPT ![p] = "user"]
    /\ call' = [call EXCEPT ![p] = NoCall]
    /\ result' = [result EXCEPT ![p] = r]
    /\ UNCHANGED setup

-----------------------------------------------------------------------------
(* Reading: readFd, pipeReadBlocking *)

\* Seeded fault: end of file is decided from the writers alone.
StartReadEarlyEof(k, p, cb, n) ==
    IF writerCount <= 0
    THEN Return(k, p, "eof")
    ELSE /\ GoWait(k, p, "dataAvailable")
         /\ call' = [call EXCEPT ![p] = [NoCall EXCEPT !.count = n]]
         /\ result' = [result EXCEPT ![p] = "pending"]

\* From the call of pipeRead to its first wait; cb is the buffer it finds.
StartRead(k, p, cb, n) ==
    IF ~bufferHasData(cb) /\ writerCount <= 0
    THEN Return(k, p, "eof")
    ELSE /\ GoWait(k, p, "dataAvailable")
         /\ call' = [call EXCEPT ![p] = [NoCall EXCEPT !.count = n]]
         /\ result' = [result EXCEPT ![p] = "pending"]

Read(p) ==
    /\ InUserCode(p)
    /\ p \in Readers
    /\ \/ /\ p \in eofRequests
          /\ eofRequests' = eofRequests \ {p}
          /\ Return(Now, p, "ctrl_d")
       \/ /\ p \notin eofRequests
          /\ \E n \in Counts : StartRead(Now, p, buffer, n)
          /\ UNCHANGED eofRequests
    /\ UNCHANGED <<buffer, got, writeEnds>>

\* The token is taken: serialise with the other readers.
ReadLock(p) ==
    /\ At(p, "dataAvailable")
    /\ GoWait(Now, p, "readMutex")
    /\ UNCHANGED <<buffer, call, writeEnds, eofRequests, got, result>>

\* Seeded fault: a reader that leaves bytes behind does not pass the token on.
PassTokenNever(k, cb) == k

PassToken(k, cb) == IF bufferHasData(cb) THEN Post(k, "dataAvailable") ELSE k

\* The rest of readFd: what pipeRead brought, less the NULs; nothing left
\* means that Ctrl+D woke the reader, for itself or for another.
DropNULs(k, p, cb, out) ==
    LET Text == {i \in DOMAIN out : out[i] # NUL}
    IN  \/ Text # {} /\ Return(k, p, "data") /\ UNCHANGED eofRequests
        \/ /\ Text = {} /\ p \in eofRequests
           /\ eofRequests' = eofRequests \ {p}
           /\ Return(k, p, "ctrl_d")
        \/ /\ Text = {} /\ p \notin eofRequests
           /\ StartRead(k, p, cb, call[p].count)
           /\ UNCHANGED eofRequests

\* Seeded fault: the places of the bytes read are not given back.
drainBufferKeepsPlaces(k, n) == k

drainBuffer(k, n) == Posts(k, "freeSpaces", n)

ReadSome(p) ==
    LET n   == IF call[p].count < buffer.count THEN call[p].count ELSE buffer.count
        cb  == afterRead(buffer, n)
        out == bufferRead(buffer, n)
        k   == Post(PassToken(drainBuffer(Now, n), cb), "readMutex")
    IN  /\ At(p, "readMutex")
        /\ bufferHasData(buffer)
        /\ buffer' = cb
        /\ got' = [got EXCEPT ![p] = out]
        /\ DropNULs(k, p, cb, out)
        /\ UNCHANGED writeEnds

\* Woken with nothing to read: end of file, or wait again.
ReadNothing(p) ==
    LET k == Post(Now, "readMutex")
    IN  /\ At(p, "readMutex")
        /\ ~bufferHasData(buffer)
        /\ \/ writerCount <= 0 /\ Return(k, p, "eof")
           \/ /\ writerCount > 0
              /\ GoWait(k, p, "dataAvailable")
              /\ UNCHANGED <<call, result>>
        /\ UNCHANGED <<buffer, writeEnds, eofRequests, got>>

-----------------------------------------------------------------------------
(* Writing: pipeWrite, called by a process or by the keyboard's handler *)

\* Seeded fault: pipeWrite does not take writeMutex.
StartWriteUnlocked(p, m) ==
    /\ GoWait(Now, p, "freeSpaces")
    /\ call' = [call EXCEPT ![p] = [NoCall EXCEPT !.buf = m]]
    /\ result' = [result EXCEPT ![p] = "pending"]
    /\ UNCHANGED <<buffer, writeEnds, got>>

StartWrite(p, m) ==
    /\ GoWait(Now, p, "writeMutex")
    /\ call' = [call EXCEPT ![p] = [NoCall EXCEPT !.buf = m]]
    /\ result' = [result EXCEPT ![p] = "pending"]
    /\ UNCHANGED <<buffer, writeEnds, got>>

Write(p) ==
    /\ InUserCode(p)
    /\ p \in writeEnds
    /\ \E m \in Messages : StartWrite(p, m)
    /\ UNCHANGED eofRequests

WriteLock(p) ==
    /\ At(p, "writeMutex")
    /\ GoWait(Now, p, "freeSpaces")
    /\ UNCHANGED <<buffer, call, writeEnds, eofRequests, got, result>>

\* Seeded fault: readers are told only of the byte that fills the buffer.
AnnounceFull(k, cb) == IF cb.count + 1 = PIPE_BUF_SIZE THEN Post(k, "dataAvailable") ELSE k

\* Only the byte that ends emptiness is announced.
Announce(k, cb) == IF bufferHasData(cb) THEN k ELSE Post(k, "dataAvailable")

\* One turn of the loop; bufferWrite refuses when the buffer is full, and the
\* byte is tried again after another wait.
WriteByte(p) ==
    LET full == bufferIsFull(buffer)
        n    == IF full THEN call[p].n ELSE call[p].n + 1
        k    == IF full THEN Now ELSE Announce(Now, buffer)
    IN  /\ At(p, "freeSpaces")
        /\ buffer' = bufferWrite(buffer, call[p].buf[call[p].n + 1])
        /\ \/ /\ n < Len(call[p].buf)
              /\ GoWait(k, p, "freeSpaces")
              /\ call' = [call EXCEPT ![p].n = n]
              /\ UNCHANGED result
           \/ /\ n = Len(call[p].buf)
              /\ Return(Post(k, "writeMutex"), p, "done")
        /\ UNCHANGED <<writeEnds, eofRequests, got>>

-----------------------------------------------------------------------------
(* The keyboard interrupt, closing, dying *)

\* Idle is what the handler interrupts when nobody else is READY.
OnlyIdle == \A p \in Procs \ {Idle} : state[p] # "READY"

Interrupted(p) ==
    /\ Keyboard
    /\ InUserCode(p)
    /\ p = Idle => OnlyIdle

KeyPress(p) ==
    /\ Interrupted(p)
    /\ \E m \in Messages : Len(m) = 1 /\ StartWrite(p, m)
    /\ UNCHANGED eofRequests

\* requestEofOnKbdFg on the foreground, and a NUL in the pipe.
CtrlD(p) ==
    /\ "ctrl_d" \in Env
    /\ Interrupted(p)
    /\ eofRequests' = eofRequests \cup
           {q \in Foreground \cap Readers : state[q] # "ZOMBIE"}
    /\ StartWrite(p, <<NUL>>)

\* Seeded fault: the last writer leaves one token.
LastWriterGoneOnce(k) == Post(k, "dataAvailable")

LastWriterGone(k) == Posts(k, "dataAvailable", MAX_PROCESSES)

\* removePipeWriter, when p's write end goes.
CloseWriteEnd(p) ==
    /\ writeEnds' = writeEnds \ {p}
    /\ LET k == IF writeEnds = {p} THEN LastWriterGone(Now) ELSE Now
       IN  sem' = k.sem /\ state' = k.state

Close(p) ==
    /\ InUserCode(p)
    /\ p \in writeEnds
    /\ CloseWriteEnd(p)
    /\ UNCHANGED <<setup, buffer, pc, cpu, call, eofRequests, got, result>>

\* terminateProcess closes the descriptors and only then sets ZOMBIE; the
\* semaphores keep the dead process in their queues.
Kill(p) ==
    /\ "kill" \in Env
    /\ cpu = Nobody
    /\ p # Idle
    /\ state[p] # "ZOMBIE"
    /\ LET k == IF writeEnds = {p} THEN LastWriterGone(Now) ELSE Now
       IN  sem' = k.sem /\ state' = [k.state EXCEPT ![p] = "ZOMBIE"]
    /\ writeEnds' = writeEnds \ {p}
    /\ eofRequests' = eofRequests \ {p}
    /\ UNCHANGED <<setup, buffer, pc, cpu, call, got, result>>

\* schedule() picks idle when nobody is READY, even an idle that semWait
\* marked BLOCKED: it goes on without the token.
IdleGoesOn ==
    /\ state[Idle] = "BLOCKED"
    /\ cpu = Nobody
    /\ OnlyIdle
    /\ sem[pc[Idle]].value > -MaxDebt
    /\ state' = [state EXCEPT ![Idle] = "READY"]
    /\ UNCHANGED <<setup, buffer, sem, pc, cpu, call, writeEnds, eofRequests, got, result>>

\* User code that has nothing to do with the pipe; idle's, if nobody is READY.
UserCode(p) ==
    /\ InUserCode(p) /\ (p = Idle => OnlyIdle)
    /\ UNCHANGED <<setup, buffer, sem, state, pc, cpu, call, writeEnds, eofRequests, got, result>>

\* p waits for something that has nothing to do with the pipe, and comes back.
BlockElsewhere(p) ==
    /\ "elsewhere" \in Env
    /\ InUserCode(p) /\ p # Idle
    /\ state' = [state EXCEPT ![p] = "BLOCKED"]
    /\ pc' = [pc EXCEPT ![p] = "elsewhere"]
    /\ UNCHANGED <<setup, buffer, sem, cpu, call, writeEnds, eofRequests, got, result>>

ComeBack(p) ==
    /\ state[p] = "BLOCKED" /\ pc[p] = "elsewhere" /\ cpu = Nobody
    /\ state' = [state EXCEPT ![p] = "READY"]
    /\ pc' = [pc EXCEPT ![p] = "user"]
    /\ UNCHANGED <<setup, buffer, sem, cpu, call, writeEnds, eofRequests, got, result>>

-----------------------------------------------------------------------------
Init ==
    /\ setup \in Setups
    /\ buffer = newBuffer
    /\ sem = [s \in SemNames |-> newSemaphore(CASE s = "dataAvailable" -> 0
                                                [] s = "freeSpaces" -> PIPE_BUF_SIZE
                                                [] OTHER -> 1)]
    /\ state = [p \in Procs |-> IF p \in Readers \cup Writers \cup {Idle} THEN "READY" ELSE "ZOMBIE"]
    /\ pc = [p \in Procs |-> "user"]
    /\ cpu = Nobody
    /\ call = [p \in Procs |-> NoCall]
    /\ writeEnds = Writers \cup (IF Keyboard THEN {Driver} ELSE {})
    /\ eofRequests = {}
    /\ got = [p \in Procs |-> <<>>]
    /\ result = [p \in Procs |-> "none"]

InCall(p) == ReadLock(p) \/ ReadSome(p) \/ ReadNothing(p) \/ WriteLock(p) \/ WriteByte(p)

Next == \/ \E p \in Procs : \/ Read(p) \/ InCall(p) \/ Write(p) \/ Close(p)
                            \/ KeyPress(p) \/ CtrlD(p) \/ Kill(p)
                            \/ BlockElsewhere(p) \/ ComeBack(p) \/ UserCode(p)
        \/ IdleGoesOn

\* A READY process is dispatched (Kernel!ReadyRuns), a reader reads until end
\* of file, as cat, wc, the shell and the terminal do.
Fairness == \A p \in Procs : WF_vars(InCall(p) \/ Read(p))

Spec == Init /\ [][Next]_vars
FairSpec == Spec /\ Fairness

-----------------------------------------------------------------------------
\* A pipe is a FIFO of bytes: reads deliver the oldest bytes, none is lost,
\* doubled or reordered by the circular buffer, and end of file is answered
\* only after the last byte and the last writer (pipeRead, pipeWrite).
Stream == INSTANCE ByteStream WITH
              Capacity <- PIPE_BUF_SIZE, content <- Content, writers <- writerCount
IsAByteStream == Stream!StreamSpec

ReaderComing == \E p \in Procs : state[p] = "READY" /\ pc[p] \in {"dataAvailable", "readMutex"}

\* No reader sleeps on data if nobody dies: while bytes are in the buffer and a reader is
\* blocked in pipeRead, another reader has the token and will read, and pass
\* the token on if it leaves bytes (pipe.c 71-76 and 121-124).
NoSleepOnDataEver ==
    (\E p \in Procs : state[p] = "BLOCKED" /\ pc[p] = "dataAvailable")
        /\ bufferHasData(buffer) => ReaderComing
NoSleepOnData == "kill" \notin Env => NoSleepOnDataEver

\* The bytes of one write stay together: two writes are never both part way
\* through, even when the first blocks on a full buffer (writeMutex).
OneWriteInProgress ==
    Cardinality({p \in Procs : state[p] # "ZOMBIE" /\ call[p].n > 0}) <= 1

\* Once the last writer is gone every living reader returns: nobody sleeps at
\* end of file, though dead waiters are in the queue (removePipeWriter, forceReadersWakeUp).
ReadersEnd == \A p \in Procs :
    writeEnds = {} ~> (state[p] = "ZOMBIE" \/ pc[p] \notin {"dataAvailable", "readMutex"})

\* A write that waits for space ends, if nobody dies and the readers read on.
WritesEnd == \A p \in Procs :
    (p \in Writers /\ "kill" \notin Env /\ pc[p] \in {"writeMutex", "freeSpaces"})
        ~> (pc[p] = "user")

\* pipe.h says dataAvailable is the number of readable bytes.
DataAvailableCountsBytes ==
    sem["dataAvailable"].blockedQueue = <<>> /\ ~ReaderComing
        => sem["dataAvailable"].value = buffer.count

\* README: Ctrl+D marks end of file for each foreground process that reads the
\* keyboard and wakes the blocked reads: a marked reader returns.  It fails when
\* another reader of the keyboard takes the NUL.
CtrlDEndsReads == \A p \in Procs :
    (p \in eofRequests /\ pc[p] \in {"dataAvailable", "readMutex"}) ~> (p \notin eofRequests)

\* semaphore.h: a wait that cannot take the resource blocks without busy
\* waiting: whoever is past freeSpaces was given a free place.
NoBusyWait == \A p \in Procs :
    At(p, "freeSpaces") => ~bufferIsFull(buffer)
=============================================================================
