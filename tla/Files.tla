------------------------------- MODULE Files -------------------------------
(***************************************************************************)
(* Descriptor tables, file accesses and the pipes they keep alive.         *)
(*   Kernel/IPC/fileAccess.c, the reference counts of Kernel/IPC/pipe.c,   *)
(*   fdTable in process.c, the descriptor calls of scheduler.c and of      *)
(*   syscallDispatcher.c                                                   *)
(*                                                                         *)
(* Kernel objects are numbered; 0 is the null pointer, and a number that   *)
(* no table holds is freed memory.  Operators take and give the record     *)
(* [fdTable, file, pipe], in which file and pipe are partial functions:    *)
(* their domains are the objects that are allocated.                       *)
(***************************************************************************)
EXTENDS Integers, Sequences, FiniteSets, Functions, TLC

CONSTANTS
    Procs,
    INIT_PID,          \* init: holds the keyboard, starts others, never dies
    MAX_FDS,
    MaxFiles,       \* bound on the file accesses alive at once
    MaxPipes,       \* bound on the pipes alive at once
    MayFail         \* TRUE: mem_alloc may return NULL

ASSUME FilesAssumption == /\ MAX_FDS \in Nat /\ MAX_FDS >= 3
                          /\ MaxFiles \in Nat /\ MaxPipes \in Nat
                          /\ MayFail \in BOOLEAN /\ INIT_PID \in Procs
                          /\ IsFiniteSet(Procs)

VARIABLES
    fdTable, file, pipe,
    state                   \* FREE, ALIVE or ZOMBIE

fileVars == <<fdTable, file, pipe>>

FDs == 0 .. MAX_FDS - 1
STDIN == 0
STDOUT == 1
STDERR == 2
Null == 0
READ == {"read"}
WRITE == {"write"}
NoFds == [fd \in FDs |-> Null]

Objects == [fdTable |-> fdTable, file |-> file, pipe |-> pipe]
Set(h) == \E x \in {h} : fdTable' = x.fdTable /\ file' = x.file /\ pipe' = x.pipe

\* Op(h) with h evaluated once, for chains of updates.
Then(h, Op(_)) == CHOOSE g \in {Op(x) : x \in {h}} : TRUE

\* The address mem_alloc returns: a number that is not in use.
Unused(S) == CHOOSE i \in 1 .. Cardinality(S) + 1 : i \notin S

\* The objects m and the new one at address a.
With(m, a, v) == [x \in DOMAIN m \cup {a} |-> IF x = a THEN v ELSE m[x]]

\* Whether an allocation succeeds.
Alloc == IF MayFail THEN BOOLEAN ELSE {TRUE}

\* The bound: there is room for n more file accesses and a pipe.
Room(h, n) == Cardinality(DOMAIN h.file) + n <= MaxFiles /\ Cardinality(DOMAIN h.pipe) < MaxPipes

-----------------------------------------------------------------------------
(* Pipes and file accesses *)

newPipe(h, q) == [h EXCEPT !.pipe = With(@, q, [refCount |-> 0, writerCount |-> 0])]

freePipe(h, q) == [h EXCEPT !.pipe = Restrict(@, DOMAIN @ \ {q})]

removePipeRef(h, q) ==
    Then([h EXCEPT !.pipe[q].refCount = @ - 1],
         LAMBDA x : IF x.pipe[q].refCount <= 0 THEN freePipe(x, q) ELSE x)

newFileAccess(h, f, q, flags) ==
    [h EXCEPT !.file = With(@, f, [pipe |-> q, flags |-> flags, refCount |-> 0]),
              !.pipe[q] = [refCount    |-> @.refCount + 1,
                           writerCount |-> @.writerCount + (IF "write" \in flags THEN 1 ELSE 0)]]

cloneFile(h, f, new) == newFileAccess(h, new, h.file[f].pipe, h.file[f].flags)

\* removePipeWriter wakes the readers (module Pipe); here it only counts.
freeFileAccess(h, f) ==
    LET fa == h.file[f]
        g  == IF "write" \in fa.flags
              THEN [h EXCEPT !.pipe[fa.pipe].writerCount = @ - 1]
              ELSE h
    IN  removePipeRef([g EXCEPT !.file = Restrict(@, DOMAIN @ \ {f})], fa.pipe)

addFileRef(h, f) == [h EXCEPT !.file[f].refCount = @ + 1]

\* Seeded fault: the access is freed one reference too early.
removeFileRefEarly(h, f) ==
    LET g == [h EXCEPT !.file[f].refCount = @ - 1]
    IN  IF g.file[f].refCount <= 1 THEN freeFileAccess(g, f) ELSE g

removeFileRef(h, f) ==
    Then([h EXCEPT !.file[f].refCount = @ - 1],
         LAMBDA x : IF x.file[f].refCount <= 0 THEN freeFileAccess(x, f) ELSE x)

-----------------------------------------------------------------------------
(* One process's table *)

isOpenFd(h, p, fd) == fd \in FDs /\ h.fdTable[p][fd] # Null

openFd(h, p, f, fd) == Then(h, LAMBDA x :
    IF fd \notin FDs \/ isOpenFd(x, p, fd) THEN x
    ELSE addFileRef([x EXCEPT !.fdTable[p][fd] = f], f))

\* addFd's slot, -1 when the table is full.
FirstFree(h, p) ==
    LET Free == {fd \in FDs : ~isOpenFd(h, p, fd)}
    IN  IF Free = {} THEN -1 ELSE CHOOSE fd \in Free : \A g \in Free : fd <= g

addFd(h, p, f) == Then(h, LAMBDA x : openFd(x, p, f, FirstFree(x, p)))

closeFd(h, p, fd) == Then(h, LAMBDA x :
    IF ~isOpenFd(x, p, fd) THEN x
    ELSE removeFileRef([x EXCEPT !.fdTable[p][fd] = Null], x.fdTable[p][fd]))

\* Seeded fault: what newFd held before is overwritten, not closed.
dupFdNoClose(h, p, oldFd, newFd) ==
    IF newFd \notin FDs \/ oldFd = newFd \/ ~isOpenFd(h, p, oldFd) THEN h
    ELSE addFileRef([h EXCEPT !.fdTable[p][newFd] = h.fdTable[p][oldFd]],
                    h.fdTable[p][oldFd])

dupFd(h, p, oldFd, newFd) == Then(h, LAMBDA x :
    IF newFd \notin FDs \/ oldFd = newFd THEN x
    ELSE IF ~isOpenFd(x, p, oldFd) THEN closeFd(x, p, newFd)
    ELSE LET f == x.fdTable[p][oldFd]
         IN  addFileRef([closeFd(x, p, newFd) EXCEPT !.fdTable[p][newFd] = f], f))

closeAllFDs(h, p) ==
    LET g[i \in 0 .. MAX_FDS] == IF i = 0 THEN h ELSE closeFd(g[i - 1], p, i - 1)
    IN  g[MAX_FDS]

\* Seeded fault: the inherited accesses are not counted.
copyFdTableUncounted(h, p, source) ==
    [h EXCEPT !.fdTable[p] = h.fdTable[source]]

copyFdTable(h, p, source) ==
    LET g[i \in 0 .. MAX_FDS] ==
            IF i = 0 THEN h
            ELSE LET fa == h.fdTable[source][i - 1]
                     c  == closeFd(g[i - 1], p, i - 1)
                 IN  IF fa = Null THEN c ELSE openFd(c, p, fa, i - 1)
    IN  g[MAX_FDS]

\* The overrides of startNewProcessWithFds: <<affectedFd, targetFd>>, -1 closes.
Overridden(h, p, overrides) ==
    LET g[i \in 0 .. Len(overrides)] ==
            IF i = 0 THEN h
            ELSE LET o == overrides[i]
                 IN  IF o[2] = -1 THEN closeFd(g[i - 1], p, o[1])
                     ELSE dupFd(g[i - 1], p, o[2], o[1])
    IN  g[Len(overrides)]

-----------------------------------------------------------------------------
(* Calls that allocate: the set of their outcomes *)

\* Seeded fault: the new access is not released when the table is full.
reopenFdLeaks(h, p, fd) ==
    LET f == Unused(DOMAIN h.file)
    IN  IF ~isOpenFd(h, p, fd) THEN {[fd |-> -1, h |-> h]}
        ELSE {[fd |-> FirstFree(h, p), h |-> addFd(cloneFile(h, h.fdTable[p][fd], f), p, f)]}

reopenFd(h, p, fd) ==
    LET f == Unused(DOMAIN h.file)
        g == cloneFile(h, h.fdTable[p][fd], f)
    IN  IF ~isOpenFd(h, p, fd) THEN {[fd |-> -1, h |-> h]}
        ELSE {IF ~ok THEN [fd |-> -1, h |-> h]
              ELSE IF FirstFree(h, p) < 0 THEN [fd |-> -1, h |-> removeFileRef(g, f)]
              ELSE [fd |-> FirstFree(h, p), h |-> addFd(g, p, f)] : ok \in Alloc}

\* The ends r and w of the new pipe q, with okR and okW for what could be
\* allocated, go into the table of p; what was made is freed if a part fails.
BothEnds(h, q, r, w, okR, okW) ==
    LET h1 == IF okR THEN newFileAccess(h, r, q, READ) ELSE h
    IN  IF okW THEN newFileAccess(h1, w, q, WRITE) ELSE h1

PipeFailed(h) == [fds |-> <<-1, -1>>, h |-> h]

InstallEnds(h, p, q, r, w, okR, okW) ==
    LET readFD  == FirstFree(h, p)
        writeFD == FirstFree([h EXCEPT !.fdTable[p][readFD] = r], p)
    IN  CASE ~okR /\ ~okW -> PipeFailed(freePipe(h, q))
          [] okR # okW    -> PipeFailed(freeFileAccess(h, IF okR THEN r ELSE w))
          [] okR /\ okW   ->
               IF readFD < 0 THEN PipeFailed(freeFileAccess(freeFileAccess(h, r), w))
               ELSE IF writeFD < 0
               THEN PipeFailed(freeFileAccess(closeFd(addFd(h, p, r), p, readFD), w))
               ELSE [fds |-> <<readFD, writeFD>>, h |-> addFd(addFd(h, p, r), p, w)]

sysPipe(h, p) ==
    LET q == Unused(DOMAIN h.pipe)
        r == Unused(DOMAIN h.file)
        w == Unused(DOMAIN h.file \cup {r})
    IN  (UNION {{InstallEnds(g, p, q, r, w, okR, okW)
                   : g \in {BothEnds(newPipe(h, q), q, r, w, okR, okW)}}
                  : okR \in Alloc, okW \in Alloc})
            \cup {PipeFailed(h) : ok \in Alloc \ {TRUE}}

-----------------------------------------------------------------------------
(* Any process makes any call *)

Alive(p) == state[p] = "ALIVE"
Calls(p) == Alive(p) /\ p # INIT_PID

Pipe(p) == /\ Calls(p) /\ Room(Objects, 2)
           /\ \E o \in sysPipe(Objects, p) : Set(o.h)
           /\ UNCHANGED state

Reopen(p) == /\ Calls(p) /\ Room(Objects, 1)
             /\ \E fd \in FDs : \E o \in reopenFd(Objects, p, fd) : Set(o.h)
             /\ UNCHANGED state

Close(p) == /\ Calls(p)
            /\ \E fd \in FDs : Set(closeFd(Objects, p, fd))
            /\ UNCHANGED state

Dup(p) == /\ Calls(p)
          /\ \E oldFd, newFd \in FDs : Set(dupFd(Objects, p, oldFd, newFd))
          /\ UNCHANGED state

\* startNewProcessWithFds: inherit, then one override.
Spawn(p) ==
    \E c \in Procs, fd \in FDs, target \in FDs \cup {-1} :
        /\ Alive(p) /\ state[c] = "FREE"
        /\ Set(Overridden(copyFdTable(Objects, c, p), c, <<<<fd, target>>>>))
        /\ state' = [state EXCEPT ![c] = "ALIVE"]

\* Seeded fault: descriptors stay open when the process dies.
TerminateOpen(p) == /\ Calls(p)
                    /\ state' = [state EXCEPT ![p] = "ZOMBIE"]
                    /\ UNCHANGED fileVars

Terminate(p) == /\ Calls(p)
                /\ Set(closeAllFDs(Objects, p))
                /\ state' = [state EXCEPT ![p] = "ZOMBIE"]

\* freeProcess leaves the descriptors alone.
Reap(p) == /\ state[p] = "ZOMBIE"
           /\ state' = [state EXCEPT ![p] = "FREE"]
           /\ fdTable' = [fdTable EXCEPT ![p] = NoFds]
           /\ UNCHANGED <<file, pipe>>

\* killFromIsr on the running process: it keeps the CPU until the next tick
\* and may still make a call, here sys_pipe.
ZombieCall(p) ==
    /\ state[p] = "ZOMBIE" /\ Room(Objects, 2)
    /\ \E o \in sysPipe(Objects, p) : Set(o.h)
    /\ UNCHANGED state

\* What init has set up: pipe 1 is the keyboard's, access 1 its read end, at
\* init's STDIN, and access 2 the driver's.
KeyboardFiles == [f \in {1, 2} |-> [pipe |-> 1, flags |-> IF f = 1 THEN READ ELSE WRITE, refCount |-> 1]]
KeyboardPipe == [q \in {1} |-> [refCount |-> 2, writerCount |-> 1]]
DriverFile == 2

FilesInit ==
    /\ file = KeyboardFiles
    /\ pipe = KeyboardPipe
    /\ fdTable = [p \in Procs |-> [fd \in FDs |-> IF p = INIT_PID /\ fd = STDIN THEN 1 ELSE Null]]
    /\ state = [p \in Procs |-> IF p = INIT_PID THEN "ALIVE" ELSE "FREE"]

FilesStep(p) == Pipe(p) \/ Reopen(p) \/ Close(p) \/ Dup(p) \/ Spawn(p) \/ Terminate(p) \/ Reap(p)

FilesNext == \E p \in Procs : FilesStep(p)
FilesSpec == FilesInit /\ [][FilesNext]_<<fileVars, state>>

-----------------------------------------------------------------------------
Slots == Procs \X FDs
Holders(f) == {s \in Slots : fdTable[s[1]][s[2]] = f}

\* No descriptor of any process points to freed memory, and neither does an
\* access to a pipe (removeFileRef, freeFileAccess, removePipeRef).
NothingDangles ==
    /\ \A s \in Slots : fdTable[s[1]][s[2]] \in DOMAIN file \cup {Null}
    /\ \A f \in DOMAIN file : file[f].pipe \in DOMAIN pipe

\* The counters that decide when memory is freed and when readers see the end
\* of file are exact: an access counts the slots that hold it, a pipe its
\* accesses and, in writerCount, those that can write.
CountsExact ==
    /\ \A f \in DOMAIN file : file[f].refCount =
           Cardinality(Holders(f)) + (IF f = DriverFile THEN 1 ELSE 0)
    /\ \A q \in DOMAIN pipe :
         LET Of == {f \in DOMAIN file : file[f].pipe = q}
         IN  /\ pipe[q].refCount = Cardinality(Of)
             /\ pipe[q].writerCount = Cardinality({f \in Of : "write" \in file[f].flags})

\* Nothing leaks: what no table can reach has been freed, on the error paths
\* of sysPipe and reopenFd and after every death too.
NothingLeaks ==
    /\ \A f \in DOMAIN file \ {DriverFile} : \E p \in Procs : Alive(p) /\ f \in Range(fdTable[p])
    /\ \A q \in DOMAIN pipe : \E f \in DOMAIN file : file[f].pipe = q

\* A dead process holds no descriptor: what scheduler.h says of killFromIsr.
ZombieHoldsNothing == \A p \in Procs : state[p] = "ZOMBIE" => fdTable[p] = NoFds
=============================================================================
