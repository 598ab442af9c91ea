------------------------------- MODULE Shell -------------------------------
(***************************************************************************)
(* The shell's life on the descriptors of module Files: it wires itself to *)
(* the terminal, and runs lines of one or two stages in the foreground or  *)
(* in the background, with Ctrl+C and the ends of the commands in between. *)
(*   Userland/SampleCodeModule/shell.c                                     *)
(*                                                                         *)
(* Every system call of the shell is a step.  A command is a process that  *)
(* ends by itself (echo), reads until end of file (cat), or is not found;  *)
(* what it writes fits in its pipe or is more than there is room for, and  *)
(* then it ends only if somebody reads the pipe.                           *)
(***************************************************************************)
EXTENDS Files, Queue

CONSTANTS Shell, Terminal, Commands     \* process slots

ASSUME ShellAssumption == /\ Procs = {INIT_PID, Shell, Terminal} \cup Commands
                          /\ INIT_PID # Shell /\ INIT_PID # Terminal /\ Shell # Terminal
                          /\ {INIT_PID, Shell, Terminal} \cap Commands = {}

VARIABLES
    at,             \* the shell's next step
    line,           \* the line it runs: kinds of its stages, background
    childStdin, pipeFds, pid,       \* locals of runLine
    kind,           \* what each command is, how much it writes, background or not
    foregroundSet,
    terminatedChildren, childTerminated,    \* the shell's queue and its semaphore
    diedTwice       \* history: since the last prompt a dead process was killed again

deaths == <<terminatedChildren, childTerminated, diedTwice>>
shellVars == <<fileVars, state, at, line, childStdin, pipeFds, pid, kind, foregroundSet, deaths>>

Kinds == {"echo", "cat", "bad"}
Lines == [stages : [1 .. 1 -> Kinds] \cup [1 .. 2 -> Kinds], background : BOOLEAN]
NoPid == INIT_PID
NoLine == [stages |-> <<"echo">>, background |-> FALSE]
NoKind == [is |-> "echo", much |-> FALSE, background |-> FALSE]
TwoStages == Len(line.stages) = 2
KeyboardIs(f) == f # Null /\ file[f].pipe = 1

\* The terminal draws whatever comes out of its pipe: no writer waits for long.
ToTerminal(f) ==
    /\ Alive(Terminal) /\ fdTable[Terminal][STDIN] # Null
    /\ file[fdTable[Terminal][STDIN]].pipe = file[f].pipe
Writes(f) == f # Null /\ "write" \in file[f].flags

-----------------------------------------------------------------------------
(* Steps of the shell; Go(s) is its next step.  Says(s) is the next step after
   a text: with no terminal the shell's own pipe is full one day, and the
   shell stays there (pipeWrite has no error for a pipe that nobody reads). *)

Go(s) == at' = s
Unread == Writes(fdTable[Shell][STDOUT]) /\ ~ToTerminal(fdTable[Shell][STDOUT])
Says(s) == at' \in {s} \cup (IF Unread THEN {"full"} ELSE {})
KeepLine == UNCHANGED <<line, kind>>
Locals == <<childStdin, pipeFds, pid>>
TouchesNoProcess == UNCHANGED <<state, foregroundSet, deaths>>

\* notifyTermination for each process of S, in some order: one entry and one
\* token each, for a process that is dead already too.
InOrder(S) == CHOOSE s \in [1 .. Cardinality(S) -> S] : Range(s) = S
Announced(S) ==
    /\ terminatedChildren' = terminatedChildren \o InOrder(S)
    /\ childTerminated' = childTerminated + Cardinality(S)
    /\ diedTwice' = (diedTwice \/ \E p \in S : state[p] = "ZOMBIE")

\* launchTerminal.  STDOUT and STDERR first take the keyboard's access, so
\* that sys_pipe uses other slots; nobody else runs yet.
launchTerminal ==
    /\ at = "start" /\ Go("prompt")
    /\ KeepLine /\ UNCHANGED <<Locals, foregroundSet, deaths>>
    /\ \E o \in sysPipe(dupFd(dupFd(Objects, Shell, STDIN, STDOUT), Shell, STDIN, STDERR), Shell) :
         LET r  == o.fds[1]
             w  == o.fds[2]
             h1 == closeFd(dupFd(dupFd(o.h, Shell, w, STDOUT), Shell, w, STDERR), Shell, w)
             h2 == Overridden(copyFdTable(h1, Terminal, Shell), Terminal,
                              <<<<STDIN, r>>, <<STDOUT, -1>>, <<STDERR, -1>>, <<r, -1>>>>)
         IN  IF r < 0 THEN Set(o.h) /\ UNCHANGED state
             ELSE \E ok \in Alloc :
                    /\ Set(closeFd(IF ok THEN h2 ELSE h1, Shell, r))
                    /\ state' = [state EXCEPT ![Terminal] = IF ok THEN "ALIVE" ELSE @]

\* sys_reap_zombies takes the tokens one by one, each with an entry.
Polled == {terminatedChildren[i] : i \in {j \in DOMAIN terminatedChildren : j <= childTerminated}}
TokenWithoutEntry == childTerminated > Len(terminatedChildren)

\* The zombies are reaped, then the prompt and the user's line.  A token
\* without an entry is read as PID 0: the idle process is freed, and the model
\* stops there (module Kernel has what comes after).
ReadLine ==
    /\ at = "prompt"
    /\ state' = [p \in Procs |-> IF p \in Polled THEN "FREE" ELSE state[p]]
    /\ foregroundSet' = foregroundSet \ Polled
    /\ terminatedChildren' = SubSeq(terminatedChildren, childTerminated + 1, Len(terminatedChildren))
    /\ childTerminated' = 0
    /\ \/ TokenWithoutEntry /\ Go("halted") /\ UNCHANGED <<line, diedTwice>>
       \/ ~TokenWithoutEntry /\ Says("reopen") /\ line' \in Lines /\ diedTwice' = FALSE
    /\ UNCHANGED <<fileVars, Locals, kind>>

ReopenStdin ==
    /\ at = "reopen" /\ Room(Objects, 3)
    /\ Go(IF TwoStages THEN "pipe" ELSE "spawn1")
    /\ KeepLine /\ TouchesNoProcess /\ UNCHANGED <<pipeFds, pid>>
    /\ \E o \in reopenFd(Objects, Shell, STDIN) : Set(o.h) /\ childStdin' = o.fd

MakePipe ==
    /\ at = "pipe"
    /\ KeepLine /\ TouchesNoProcess /\ UNCHANGED <<childStdin, pid>>
    /\ \E o \in sysPipe(Objects, Shell) :
         /\ Set(o.h) /\ pipeFds' = o.fds
         /\ \/ o.fds[1] < 0 /\ Says("closeStdin")
            \/ o.fds[1] >= 0 /\ Go("spawn1")

\* Seeded fault: a background command is given the keyboard.
firstStdinAlways == IF childStdin < 0 THEN STDIN ELSE childStdin

firstStdin == IF line.background THEN -1 ELSE IF childStdin < 0 THEN STDIN ELSE childStdin

Closing(S) == IF S = {} THEN <<>> ELSE <<<<CHOOSE fd \in S : TRUE, -1>>>>

FirstOverrides ==
    (IF firstStdin = STDIN THEN <<>> ELSE <<<<STDIN, firstStdin>>>>)
    \o (IF TwoStages THEN <<<<STDOUT, pipeFds[2]>>, <<pipeFds[1], -1>>>> ELSE <<>>)
    \o Closing(IF TwoStages /\ childStdin = firstStdin THEN {} ELSE {childStdin} \ {-1})

\* Seeded fault: the second stage keeps the pipe's write end.
SecondOverridesOpen == <<<<STDIN, pipeFds[1]>>>> \o Closing({childStdin} \ {-1})

SecondOverrides ==
    <<<<STDIN, pipeFds[1]>>, <<pipeFds[2], -1>>>> \o Closing({childStdin} \ {-1})

\* What stage i writes: it only matters how much if the terminal does not get it.
HowMuch(i) == IF i = Len(line.stages) /\ ~Unread THEN {FALSE} ELSE BOOLEAN

\* runStage up to the new process: stage i with its descriptors.
runStage(i, overrides, found, failed) ==
    \/ /\ line.stages[i] # "bad"
       /\ Go(found)
       /\ UNCHANGED <<line, childStdin, pipeFds, foregroundSet, deaths>>
       /\ \E c \in Commands :
            /\ state[c] = "FREE"
            /\ state' = [state EXCEPT ![c] = "ALIVE"]
            /\ Set(Overridden(copyFdTable(Objects, c, Shell), c, overrides))
            /\ \E much \in HowMuch(i) :
                 kind' = [kind EXCEPT ![c] = [is |-> line.stages[i], much |-> much,
                                              background |-> line.background]]
            /\ pid' = [pid EXCEPT ![i] = c]
    \/ /\ \/ line.stages[i] = "bad"
          \/ FALSE \in Alloc
          \/ \A c \in Commands : state[c] # "FREE"
       /\ pid' = [pid EXCEPT ![i] = NoPid]
       /\ Says(failed)
       /\ KeepLine /\ TouchesNoProcess /\ UNCHANGED <<fileVars, childStdin, pipeFds>>

Spawn1 == at = "spawn1" /\ runStage(1, FirstOverrides, "fg1", IF TwoStages THEN "closeR" ELSE "closeStdin")
Spawn2 == at = "spawn2" /\ runStage(2, SecondOverrides, "fg2", "closeR")

\* sys_foreground: addToFG takes any process that is in the table.
Foreground(i, here, next) ==
    /\ at = here
    /\ foregroundSet' = IF line.background THEN foregroundSet ELSE foregroundSet \cup {pid[i]}
    /\ Go(next)
    /\ KeepLine /\ UNCHANGED <<fileVars, state, Locals, deaths>>

Foreground1 == Foreground(1, "fg1", IF TwoStages THEN "spawn2" ELSE "wait1")
Foreground2 == Foreground(2, "fg2", "closeR")

CloseStep(here, fd, next) ==
    /\ at = here /\ Go(next)
    /\ KeepLine /\ TouchesNoProcess /\ UNCHANGED Locals
    /\ Set(closeFd(Objects, Shell, fd))

CloseReadEnd == CloseStep("closeR", pipeFds[1], "closeW")
CloseWriteEnd == CloseStep("closeW", pipeFds[2],
                     CASE pid[1] = NoPid -> "closeStdin"
                       [] pid[1] # NoPid /\ pid[2] = NoPid -> "kill1"
                       [] OTHER -> "wait1")

\* The second stage failed: the first is killed, dead or alive, and waited for.
KillFirst ==
    /\ at = "kill1" /\ Go("wait1")
    /\ Set(closeAllFDs(Objects, pid[1]))
    /\ state' = [state EXCEPT ![pid[1]] = "ZOMBIE"]
    /\ foregroundSet' = foregroundSet \ {pid[1]}
    /\ kind' = [kind EXCEPT ![pid[1]] = NoKind]
    /\ Announced({pid[1]})
    /\ UNCHANGED <<line, Locals>>

\* Seeded fault: the wait leaves the token to the prompt.
Untaken(c) == terminatedChildren' = removeFromQueue(terminatedChildren, c) /\ UNCHANGED childTerminated

\* semTryWait and removeFromQueue: one token goes, and every entry of c.
Taken(c) ==
    /\ terminatedChildren' = removeFromQueue(terminatedChildren, c)
    /\ childTerminated' = IF childTerminated > 0 THEN childTerminated - 1 ELSE 0

\* sys_waitpid, unless the line runs in the background, and a newline after
\* the last stage.
Wait(i, here, next) ==
    /\ at = here
    /\ \/ line.background /\ TouchesNoProcess
       \/ /\ ~line.background /\ state[pid[i]] = "ZOMBIE"
          /\ state' = [state EXCEPT ![pid[i]] = "FREE"]
          /\ foregroundSet' = foregroundSet \ {pid[i]}
          /\ Taken(pid[i]) /\ UNCHANGED diedTwice
    /\ IF ~line.background /\ (TwoStages => i = 2) THEN Says(next) ELSE Go(next)
    /\ KeepLine /\ UNCHANGED <<fileVars, Locals>>

Wait1 == Wait(1, "wait1", IF TwoStages /\ pid[2] # NoPid THEN "wait2" ELSE "closeStdin")
Wait2 == Wait(2, "wait2", "closeStdin")

\* runLine returns and its locals are gone.
NewLine ==
    /\ childStdin' = -1 /\ pipeFds' = <<-1, -1>> /\ pid' = <<NoPid, NoPid>>
    /\ line' = NoLine
    /\ Go("prompt")

\* Seeded fault: the reopened STDIN is not closed.
CloseStdinNot ==
    /\ at = "closeStdin"
    /\ NewLine
    /\ TouchesNoProcess /\ UNCHANGED <<fileVars, kind>>

CloseStdin ==
    /\ at = "closeStdin"
    /\ NewLine
    /\ TouchesNoProcess /\ UNCHANGED kind
    /\ Set(closeFd(Objects, Shell, childStdin))

ShellStep == \/ launchTerminal \/ ReadLine \/ ReopenStdin \/ MakePipe \/ Spawn1 \/ Foreground1
             \/ Spawn2 \/ Foreground2 \/ CloseReadEnd \/ CloseWriteEnd \/ KillFirst
             \/ Wait1 \/ Wait2 \/ CloseStdin

-----------------------------------------------------------------------------
(* The commands and the keyboard *)

\* cat's read gives no more: it fails, at end of file, or with Ctrl+D if cat
\* has the keyboard and is in the foreground.
InputEnds(c) ==
    LET f == fdTable[c][STDIN]
    IN  \/ kind[c].is = "echo"
        \/ f = Null
        \/ f # Null /\ pipe[file[f].pipe].writerCount = 0
        \/ KeyboardIs(f) /\ c \in foregroundSet

\* A write goes on when it fits, fails at once, or goes to the terminal.
WritesGo(c) ==
    LET f == fdTable[c][STDOUT]
    IN  ~kind[c].much \/ ~Writes(f) \/ ToTerminal(f)

\* d reads until end of file what c writes, and goes on writing.
Drains(d, c) ==
    LET f == fdTable[c][STDOUT]
        g == fdTable[d][STDIN]
    IN  /\ Alive(d) /\ kind[d].is = "cat" /\ WritesGo(d)
        /\ g # Null /\ file[g].pipe = file[f].pipe
OutputGoes(c) == WritesGo(c) \/ \E d \in Commands : Drains(d, c)

Ends(c) == InputEnds(c) /\ OutputGoes(c)

Exit(c) ==
    /\ at # "halted" /\ Alive(c) /\ Ends(c)
    /\ UNCHANGED <<at, line, Locals>>
    /\ state' = [state EXCEPT ![c] = "ZOMBIE"]
    /\ foregroundSet' = foregroundSet \ {c}
    /\ kind' = [kind EXCEPT ![c] = NoKind]
    /\ Announced({c})
    /\ Set(closeAllFDs(Objects, c))

\* The processes of S close their descriptors, in some order.
closeFdsOfAll(h, S) ==
    LET g[i \in 0 .. Cardinality(S)] == IF i = 0 THEN h
                                        ELSE closeAllFDs(g[i - 1], InOrder(S)[i])
    IN  g[Cardinality(S)]

\* killFromIsr on every process of the foreground set, dead or alive.
CtrlC ==
    /\ at # "halted" /\ foregroundSet # {}
    /\ Set(closeFdsOfAll(Objects, foregroundSet))
    /\ state' = [p \in Procs |-> IF p \in foregroundSet THEN "ZOMBIE" ELSE state[p]]
    /\ foregroundSet' = {}
    /\ kind' = [c \in Commands |-> IF c \in foregroundSet THEN NoKind ELSE kind[c]]
    /\ Announced(foregroundSet)
    /\ UNCHANGED <<at, line, Locals>>

Init ==
    /\ file = [KeyboardFiles EXCEPT ![1].refCount = 2]
    /\ pipe = KeyboardPipe
    /\ fdTable = [p \in Procs |-> [fd \in FDs |-> IF p \in {INIT_PID, Shell} /\ fd = STDIN
                                                  THEN 1 ELSE Null]]
    /\ state = [p \in Procs |-> IF p \in {INIT_PID, Shell} THEN "ALIVE" ELSE "FREE"]
    /\ at = "start"
    /\ line = NoLine
    /\ childStdin = -1 /\ pipeFds = <<-1, -1>> /\ pid = <<NoPid, NoPid>>
    /\ kind = [c \in Commands |-> NoKind]
    /\ foregroundSet = {}
    /\ terminatedChildren = <<>> /\ childTerminated = 0 /\ diedTwice = FALSE

Next == ShellStep \/ CtrlC \/ \E c \in Commands : Exit(c)

\* Where the shell does not wait: every call of its line has an outcome.
Places == {"start", "prompt", "reopen", "pipe", "spawn1", "fg1", "spawn2", "fg2", "closeR", "closeW",
           "kill1", "wait1", "wait2", "closeStdin", "full", "halted"}
CanGo ==
    /\ at \notin {"full", "halted"}
    /\ at = "reopen" => Room(Objects, 3)
    /\ at = "wait1" => line.background \/ state[pid[1]] = "ZOMBIE"
    /\ at = "wait2" => line.background \/ state[pid[2]] = "ZOMBIE"

\* The shell and the commands are scheduled; a user at a cat types Ctrl+D.
\* Every step of the shell moves at, and CanGo is ENABLED ShellStep, so that
\* this is WF of ShellStep and of Exit(c), on the variables that tell.
Fairness == /\ WF_at(CanGo /\ at' \in Places)
            /\ \A c \in Commands : WF_state(/\ at # "halted" /\ Alive(c) /\ Ends(c)
                                          /\ state' = [state EXCEPT ![c] = "ZOMBIE"])

Spec == Init /\ [][Next]_shellVars
FairSpec == Spec /\ Fairness

-----------------------------------------------------------------------------
\* Back at the prompt the shell has its three standard descriptors and no
\* other, no process is left in the foreground set for Ctrl+C to hit, and once
\* the commands are gone only the keyboard's and the terminal's pipes exist,
\* whichever step of the line failed, was interrupted or raced (runLine).
PromptClean == at = "prompt" =>
    /\ \A fd \in FDs \ {STDIN, STDOUT, STDERR} : fdTable[Shell][fd] = Null
    /\ foregroundSet = {}
    /\ (\A c \in Commands : ~Alive(c)) =>
           \A q \in DOMAIN pipe : q = 1 \/ \E f \in Range(fdTable[Shell]) \ {Null} : file[f].pipe = q

\* A background command has the keyboard neither at STDIN nor in a descriptor
\* left over from the set-up: what the user types next is the shell's.
BackgroundHasNoKeyboard == \A c \in Commands : \A fd \in FDs \ {STDOUT, STDERR} :
    Alive(c) /\ kind[c].background => ~KeyboardIs(fdTable[c][fd])

\* The shell reads its children's deaths off a queue and a semaphore that it
\* takes from in two ways, wait_pid and reap_zombies: they agree, each dead
\* child is in the queue once, and the prompt never frees the idle process in
\* place of a child, unless a dead stage was killed again (runLine's kill of
\* the first stage, or Ctrl+C on one that ended before sys_foreground).
DeathsCounted == ~diedTwice =>
    childTerminated = Len(terminatedChildren) /\ noRepeats(terminatedChildren) /\ at # "halted"

\* The code's answer to a second death: this one fails (help | nosuch).
IdleIsKept == at # "halted"

\* c writes more than its pipe has room for and nobody is left to read it.
Stuck(c) ==
    /\ Alive(c) /\ ~OutputGoes(c)
    /\ at = "full" \/ \A fd \in FDs \ {STDIN, STDOUT, STDERR} :
           LET g == fdTable[Shell][fd]
           IN  g # Null /\ ~Writes(g) => file[g].pipe # file[fdTable[c][STDOUT]].pipe

\* Every command ends: the end of file of a pipeline reaches its second stage
\* because nobody else keeps the write end open, and the first stage's output
\* is read until then.  The one way not to end is to be left writing to a full
\* pipe that nobody reads.
CommandsEnd == \A c \in Commands : Alive(c) ~> ~Alive(c) \/ Stuck(c) \/ at = "halted"

\* The shell always comes back to its prompt, or it waits for a foreground
\* stage that is left writing to a full pipe, which Ctrl+C still reaches; for
\* good only without a terminal or without the idle process.
WaitsForStuck == \E i \in 1 .. 2 :
    /\ at = (IF i = 1 THEN "wait1" ELSE "wait2")
    /\ pid[i] \in Commands \cap foregroundSet /\ Stuck(pid[i])
PromptReturns == []<>(at \in {"prompt", "full", "halted"} \/ WaitsForStuck)

\* Without the excuses, what a user would expect: this one fails (help | echo x).
EveryLineEnds == []<>(at \in {"prompt", "full", "halted"})
=============================================================================
