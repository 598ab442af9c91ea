----------------------------- MODULE ShellProofs -----------------------------
(***************************************************************************)
(* The shell's prompt is clean and background commands do not have the     *)
(* keyboard, for every number of commands and descriptors (module Shell).  *)
(***************************************************************************)
EXTENDS Shell, FilesProofs, QueueTheorems

\* The steps between sys_pipe and the close of the read end.
PipeOpen == {"spawn1", "fg1", "spawn2", "fg2", "closeR"}
Standard == {STDIN, STDOUT, STDERR}

\* The descriptors besides the standard ones that the shell may have open.
HeldFds == {childStdin} \cup (IF at \in PipeOpen \cup {"full"} THEN {pipeFds[1], pipeFds[2]}
                              ELSE IF at = "closeW" THEN {pipeFds[2]} ELSE {})

\* The processes that may be in the foreground set.
Waited == IF at \in {"spawn2", "fg2", "kill1", "full"} THEN {pid[1]}
          ELSE IF at \in {"closeR", "closeW", "wait1"} THEN {pid[1], pid[2]}
          ELSE IF at = "wait2" THEN {pid[2]} ELSE {}

LocalsOK ==
    /\ pid \in [1 .. 2 -> Commands \cup {NoPid}]
    /\ pipeFds \in [1 .. 2 -> FDs \cup {-1}] /\ childStdin \in FDs \cup {-1}
    /\ line.background \in BOOLEAN /\ DOMAIN kind = Commands
    /\ at \in {"start", "prompt", "reopen"} => childStdin = -1
    /\ at \in {"start", "prompt", "reopen", "pipe"} => pipeFds = <<-1, -1>>
    /\ at \in {"start", "prompt", "reopen", "pipe", "spawn1"} => pid[1] = NoPid
    /\ at \in {"fg1", "spawn2", "fg2", "kill1", "wait1", "wait2"} => pid[1] # NoPid
    /\ at \in {"fg1", "spawn2", "kill1"} \/ pid[1] = NoPid => pid[2] = NoPid
    /\ at \in {"pipe", "spawn2", "fg2"} \/ pid[2] # NoPid => TwoStages
    /\ at \in {"fg2", "wait2"} => pid[2] # NoPid
    /\ ~TwoStages => pipeFds = <<-1, -1>>

ForegroundOK ==
    /\ foregroundSet \subseteq Commands \cap Waited
    /\ line.background => foregroundSet = {}

ShellTable ==
    /\ at = "start" => \A fd \in FDs : fdTable[Shell][fd] = IF fd = STDIN THEN 1 ELSE Null
    /\ at # "start" => /\ \A fd \in Standard : fdTable[Shell][fd] # Null
                       /\ \A fd \in FDs \ Standard : fdTable[Shell][fd] # Null => fd \in HeldFds
    /\ childStdin \notin Standard /\ pipeFds[1] \notin Standard /\ pipeFds[2] \notin Standard
    /\ at \in PipeOpen => \A i \in 1 .. 2 : pipeFds[i] # -1 =>
           /\ fdTable[Shell][pipeFds[i]] # Null
           /\ file[fdTable[Shell][pipeFds[i]]].pipe # 1

\* What the others hold: init the keyboard, the terminal its own pipe.
WorldOK ==
    /\ file[DriverFile].pipe = 1
    /\ \A fd \in FDs : fdTable[INIT_PID][fd] # Null => file[fdTable[INIT_PID][fd]].pipe = 1
    /\ \A fd \in FDs : fdTable[Terminal][fd] # Null =>
           /\ fdTable[Shell][STDOUT] # Null
           /\ file[fdTable[Terminal][fd]].pipe = file[fdTable[Shell][STDOUT]].pipe
    /\ BackgroundHasNoKeyboard

ShellInv ==
    /\ Sound(Objects, {}, {}) /\ TablesOK
    /\ state[Shell] = "ALIVE" /\ state[INIT_PID] = "ALIVE"
    /\ LocalsOK /\ ForegroundOK /\ ShellTable /\ WorldOK

\* The queue of dead children and its tokens: an entry for every dead command,
\* a token for every entry, and one each unless somebody died twice.
DeathsOK ==
    /\ terminatedChildren \in Seq(Commands) /\ childTerminated \in Nat
    /\ Len(terminatedChildren) <= childTerminated
    /\ \A c \in Commands : isIn(c, terminatedChildren) <=> state[c] = "ZOMBIE"
    /\ diedTwice \in BOOLEAN
    /\ DeathsCounted

-----------------------------------------------------------------------------
(* What a step leaves alone *)

\* The slot fd of x holds in g what it held in h, with the same pipe.
Same(h, g, x, fd) ==
    /\ g.fdTable[x][fd] = h.fdTable[x][fd]
    /\ h.fdTable[x][fd] # Null => g.file[h.fdTable[x][fd]].pipe = h.file[h.fdTable[x][fd]].pipe
Keeps(h, g, S) ==
    /\ \A x \in Procs \ S, fd \in FDs : Same(h, g, x, fd)
    /\ g.file[DriverFile].pipe = h.file[DriverFile].pipe
Shrinks(h, g) == DOMAIN g.file \subseteq DOMAIN h.file /\ Alike(g.file, h.file)

LEMMA Slots3 == /\ STDIN \in FDs /\ STDOUT \in FDs /\ STDERR \in FDs /\ -1 \notin FDs
                /\ STDIN # STDOUT /\ STDIN # STDERR /\ STDOUT # STDERR
                /\ -1 \notin Standard /\ FDs \subseteq Int
  BY FilesAssumption DEF FDs, STDIN, STDOUT, STDERR, Standard

LEMMA Held ==
    ASSUME NEW h, Sound(h, {}, {})
    PROVE  /\ \A x \in Procs, fd \in FDs : h.fdTable[x][fd] \in DOMAIN h.file \cup {Null}
           /\ Null \notin DOMAIN h.file /\ DriverFile \in DOMAIN h.file
           /\ h.fdTable \in [Procs -> [FDs -> Nat]]
           /\ \A f \in DOMAIN h.file : h.file[f].pipe \in DOMAIN h.pipe
  BY DEF Sound, Shape, Points, Address

LEMMA SameHeld ==
    ASSUME NEW h, NEW g, Sound(h, {}, {}), Sound(g, {}, {}), Alike(g.file, h.file),
           NEW x \in Procs, NEW fd \in FDs, g.fdTable[x][fd] = h.fdTable[x][fd]
    PROVE  Same(h, g, x, fd)
<1>1. h.fdTable[x][fd] # Null => h.fdTable[x][fd] \in DOMAIN h.file /\ h.fdTable[x][fd] \in DOMAIN g.file
  BY Held
<1>. QED
  BY <1>1 DEF Same, Alike

LEMMA KeepsIf ==
    ASSUME NEW h, NEW g, NEW S, Sound(h, {}, {}), Sound(g, {}, {}), Alike(g.file, h.file),
           \A x \in Procs \ S : g.fdTable[x] = h.fdTable[x]
    PROVE  Keeps(h, g, S)
<1>1. \A x \in Procs \ S, fd \in FDs : Same(h, g, x, fd)
  BY SameHeld
<1>2. DriverFile \in DOMAIN h.file /\ DriverFile \in DOMAIN g.file
  BY Held
<1>. QED
  BY <1>1, <1>2 DEF Keeps, Alike

LEMMA KeepsOn ==
    ASSUME NEW h, NEW g, NEW k, NEW S, Keeps(h, g, S), Keeps(g, k, S)
    PROVE  Keeps(h, k, S)
  BY DEF Keeps, Same

LEMMA ShrinksOn ==
    ASSUME NEW h, NEW g, NEW k, Shrinks(h, g), Shrinks(g, k)
    PROVE  Shrinks(h, k)
  BY DEF Shrinks, Alike

LEMMA SystemProcs ==
    /\ Shell \in Procs /\ Terminal \in Procs /\ INIT_PID \in Procs /\ Commands \subseteq Procs
    /\ INIT_PID # Shell /\ INIT_PID # Terminal /\ Shell # Terminal
    /\ Shell \notin Commands /\ Terminal \notin Commands /\ INIT_PID \notin Commands
    /\ \A x \in Procs : x = INIT_PID \/ x = Shell \/ x = Terminal \/ x \in Commands
    /\ IsFiniteSet(Procs)
  BY ShellAssumption, FilesAssumption

LEMMA SetGives ==
    ASSUME NEW h, Set(h), Sound(h, {}, {})
    PROVE  /\ Sound(Objects, {}, {})' /\ fdTable' = h.fdTable /\ file' = h.file /\ pipe' = h.pipe
<1>1. fdTable' = h.fdTable /\ file' = h.file /\ pipe' = h.pipe
  BY DEF Set
<1>. QED
  BY <1>1, SetIs

\* Nobody is given the keyboard behind the user's back.
NoKeyboardIn(t, F, c) == \A fd \in FDs \ {STDOUT, STDERR} : t[c][fd] # Null => F[t[c][fd]].pipe # 1

LEMMA WorldStays ==
    ASSUME ShellInv, NEW h, fdTable' = h.fdTable, file' = h.file,
           NEW S, S \subseteq Commands \cup {Shell}, Keeps(Objects, h, S), Same(Objects, h, Shell, STDOUT),
           \A c \in Commands : state'[c] = "ALIVE" /\ kind'[c].background =>
               \/ c \notin S /\ state[c] = "ALIVE" /\ kind[c].background
               \/ NoKeyboardIn(h.fdTable, h.file, c)
    PROVE  WorldOK'
<1>1. Objects.fdTable = fdTable /\ Objects.file = file
  BY DEF Objects
<1>2. ASSUME NEW x \in Procs, x \notin S, NEW fd \in FDs
      PROVE  /\ fdTable'[x][fd] = fdTable[x][fd]
             /\ fdTable[x][fd] # Null => file'[fdTable[x][fd]].pipe = file[fdTable[x][fd]].pipe
  BY <1>1, <1>2 DEF Keeps, Same
<1>3. /\ fdTable'[Shell][STDOUT] = fdTable[Shell][STDOUT]
      /\ fdTable[Shell][STDOUT] # Null => file'[fdTable[Shell][STDOUT]].pipe = file[fdTable[Shell][STDOUT]].pipe
  BY <1>1 DEF Same
<1>4. file'[DriverFile].pipe = 1
  BY <1>1 DEF Keeps, ShellInv, WorldOK
<1>5. \A fd \in FDs : fdTable'[INIT_PID][fd] # Null => file'[fdTable'[INIT_PID][fd]].pipe = 1
  BY <1>2, SystemProcs DEF ShellInv, WorldOK
<1>6. \A fd \in FDs : fdTable'[Terminal][fd] # Null =>
           /\ fdTable'[Shell][STDOUT] # Null
           /\ file'[fdTable'[Terminal][fd]].pipe = file'[fdTable'[Shell][STDOUT]].pipe
  <2>1. Terminal \in Procs /\ Terminal \notin S
    BY SystemProcs
  <2>. QED
    BY <1>2, <1>3, <2>1 DEF ShellInv, WorldOK
<1>7. ASSUME NEW c \in Commands, NEW fd \in FDs \ {STDOUT, STDERR},
             state'[c] = "ALIVE", kind'[c].background
      PROVE  fdTable'[c][fd] # Null => file'[fdTable'[c][fd]].pipe # 1
  <2>1. CASE NoKeyboardIn(h.fdTable, h.file, c)
    BY <2>1 DEF NoKeyboardIn
  <2>2. CASE c \notin S /\ state[c] = "ALIVE" /\ kind[c].background
    <3>1. fdTable[c][fd] # Null => file[fdTable[c][fd]].pipe # 1
      BY <2>2 DEF ShellInv, WorldOK, BackgroundHasNoKeyboard, KeyboardIs, Alive
    <3>2. c \in Procs
      BY SystemProcs
    <3>. QED
      BY <1>2, <2>2, <3>1, <3>2
  <2>. QED
    BY <1>7, <2>1, <2>2
<1>8. BackgroundHasNoKeyboard'
  BY <1>7 DEF BackgroundHasNoKeyboard, KeyboardIs, Alive
<1>. QED
  BY <1>4, <1>5, <1>6, <1>8 DEF WorldOK

\* A system call of the shell on its own descriptors.
LEMMA ShellCall ==
    ASSUME ShellInv, NEW h, Set(h), Sound(h, {}, {}), UNCHANGED <<state, kind>>, Alike(h.file, file),
           \A x \in Procs \ {Shell} : h.fdTable[x] = fdTable[x],
           h.fdTable[Shell][STDOUT] = fdTable[Shell][STDOUT]
    PROVE  /\ Sound(Objects, {}, {})' /\ TablesOK' /\ WorldOK'
           /\ state'[Shell] = "ALIVE" /\ state'[INIT_PID] = "ALIVE"
           /\ fdTable' = h.fdTable /\ file' = h.file
<1>1. Objects.fdTable = fdTable /\ Objects.file = file /\ Sound(Objects, {}, {})
  BY DEF Objects, ShellInv
<1>2. Sound(Objects, {}, {})' /\ fdTable' = h.fdTable /\ file' = h.file
  BY SetGives
<1>3. Keeps(Objects, h, {Shell})
  BY <1>1, KeepsIf
<1>4. Same(Objects, h, Shell, STDOUT)
  BY <1>1, SameHeld, SystemProcs, Slots3
<1>5. WorldOK'
  <2>1. {Shell} \subseteq Commands \cup {Shell}
    OBVIOUS
  <2>2. \A c \in Commands : state'[c] = "ALIVE" /\ kind'[c].background =>
            c \notin {Shell} /\ state[c] = "ALIVE" /\ kind[c].background
    BY SystemProcs
  <2> DEFINE S == {Shell}
  <2> HIDE DEF S
  <2>3. S \subseteq Commands \cup {Shell} /\ Keeps(Objects, h, S)
        /\ \A c \in Commands : state'[c] = "ALIVE" /\ kind'[c].background =>
               c \notin S /\ state[c] = "ALIVE" /\ kind[c].background
    BY <1>3, <2>1, <2>2 DEF S
  <2>. QED
    BY <1>2, <1>4, <2>3, WorldStays
<1>6. TablesOK'
  BY <1>2 DEF ShellInv, TablesOK
<1>. QED
  BY <1>2, <1>5, <1>6 DEF ShellInv

-----------------------------------------------------------------------------
(* The steps that leave the objects alone *)

LEMMA ObjectsStay ==
    ASSUME ShellInv, UNCHANGED <<fileVars, kind>>, state' \in [Procs -> {"FREE", "ALIVE", "ZOMBIE"}],
           \A x \in Procs : state'[x] # state[x] => state[x] # "ALIVE" /\ state'[x] # "ALIVE"
    PROVE  /\ Sound(Objects, {}, {})' /\ TablesOK' /\ WorldOK'
           /\ state'[Shell] = "ALIVE" /\ state'[INIT_PID] = "ALIVE"
           /\ fdTable' = fdTable /\ file' = file
<1>1. fdTable' = fdTable /\ file' = file /\ pipe' = pipe /\ kind' = kind
  BY DEF fileVars
<1>2. Sound(Objects, {}, {})'
  <2>1. Objects' = Objects
    BY <1>1 DEF Objects
  <2>2. Sound(Objects', {}, {})
    BY <2>1 DEF ShellInv
  <2>. QED
    BY <2>2
<1>3. TablesOK'
  BY <1>1 DEF ShellInv, TablesOK
<1>4. state'[Shell] = "ALIVE" /\ state'[INIT_PID] = "ALIVE"
  BY SystemProcs DEF ShellInv
<1>5. \A c \in Commands : state'[c] = "ALIVE" => state[c] = "ALIVE"
  BY SystemProcs
<1>6. WorldOK'
  BY <1>1, <1>5 DEF ShellInv, WorldOK, BackgroundHasNoKeyboard, KeyboardIs, Alive
<1>. QED
  BY <1>1, <1>2, <1>3, <1>4, <1>6

LEMMA ReadLineKeeps == ASSUME ShellInv, DeathsOK, ReadLine PROVE ShellInv'
<1>1. /\ at = "prompt" /\ at' \in {"reopen", "full", "halted"} /\ line'.background \in BOOLEAN
      /\ UNCHANGED <<fileVars, kind, childStdin, pipeFds, pid>>
  BY DEF ReadLine, Lines, Go, Says, Locals, ShellInv, LocalsOK
<1>2. state' = [p \in Procs |-> IF p \in Polled THEN "FREE" ELSE state[p]]
  BY DEF ReadLine
<1>3. \A x \in Polled : state[x] = "ZOMBIE"
  BY DEF DeathsOK, Polled, isIn
<1>4. /\ state' \in [Procs -> {"FREE", "ALIVE", "ZOMBIE"}]
      /\ \A x \in Procs : state'[x] # state[x] => state[x] # "ALIVE" /\ state'[x] # "ALIVE"
  BY <1>2, <1>3 DEF ShellInv, TablesOK
<1>5. /\ Sound(Objects, {}, {})' /\ TablesOK' /\ WorldOK'
      /\ state'[Shell] = "ALIVE" /\ state'[INIT_PID] = "ALIVE" /\ fdTable' = fdTable /\ file' = file
  BY <1>1, <1>4, ObjectsStay
<1>6. LocalsOK'
  BY <1>1 DEF ShellInv, LocalsOK, TwoStages
<1>7. foregroundSet = {} /\ foregroundSet' = {}
  BY <1>1 DEF ShellInv, ForegroundOK, Waited, ReadLine
<1>8. ShellTable'
  BY <1>1, <1>5 DEF ShellInv, ShellTable, HeldFds, PipeOpen
<1>. QED
  BY <1>5, <1>6, <1>7, <1>8 DEF ShellInv, ForegroundOK

LEMMA Foreground1Keeps == ASSUME ShellInv, Foreground1 PROVE ShellInv'
<1>1. /\ at = "fg1" /\ at' = (IF TwoStages THEN "spawn2" ELSE "wait1")
      /\ foregroundSet' = IF line.background THEN foregroundSet ELSE foregroundSet \cup {pid[1]}
      /\ UNCHANGED <<line, fileVars, kind, state, childStdin, pipeFds, pid>>
  BY DEF Foreground1, Foreground, Go, Locals, KeepLine
<1>2. /\ Sound(Objects, {}, {})' /\ TablesOK' /\ WorldOK'
      /\ state'[Shell] = "ALIVE" /\ state'[INIT_PID] = "ALIVE" /\ fdTable' = fdTable /\ file' = file
  BY <1>1, ObjectsStay DEF ShellInv, TablesOK
<1>3. TwoStages' = TwoStages
  BY <1>1 DEF TwoStages
<1>4. LocalsOK'
  BY <1>1, <1>3 DEF ShellInv, LocalsOK
<1>5. ForegroundOK'
  BY <1>1 DEF ShellInv, LocalsOK, ForegroundOK, Waited
<1>6. ShellTable'
  BY <1>1, <1>2, Slots3 DEF ShellInv, LocalsOK, ShellTable, HeldFds, PipeOpen
<1>. QED
  BY <1>2, <1>4, <1>5, <1>6 DEF ShellInv

LEMMA Foreground2Keeps == ASSUME ShellInv, Foreground2 PROVE ShellInv'
<1>1. /\ at = "fg2" /\ at' = "closeR"
      /\ foregroundSet' = IF line.background THEN foregroundSet ELSE foregroundSet \cup {pid[2]}
      /\ UNCHANGED <<line, fileVars, kind, state, childStdin, pipeFds, pid>>
  BY DEF Foreground2, Foreground, Go, Locals, KeepLine
<1>2. /\ Sound(Objects, {}, {})' /\ TablesOK' /\ WorldOK'
      /\ state'[Shell] = "ALIVE" /\ state'[INIT_PID] = "ALIVE" /\ fdTable' = fdTable /\ file' = file
  BY <1>1, ObjectsStay DEF ShellInv, TablesOK
<1>3. TwoStages' = TwoStages
  BY <1>1 DEF TwoStages
<1>4. LocalsOK'
  BY <1>1, <1>3 DEF ShellInv, LocalsOK
<1>5. ForegroundOK'
  BY <1>1 DEF ShellInv, LocalsOK, ForegroundOK, Waited
<1>6. ShellTable'
  BY <1>1, <1>2 DEF ShellInv, LocalsOK, ShellTable, HeldFds, PipeOpen
<1>. QED
  BY <1>2, <1>4, <1>5, <1>6 DEF ShellInv

\* What both waits have in common.
LEMMA WaitKeeps ==
    ASSUME ShellInv, NEW i \in 1 .. 2, NEW here, NEW next, Wait(i, here, next), pid[i] # NoPid
    PROVE  /\ Sound(Objects, {}, {})' /\ TablesOK' /\ WorldOK'
           /\ state'[Shell] = "ALIVE" /\ state'[INIT_PID] = "ALIVE"
           /\ UNCHANGED <<fdTable, file, line, childStdin, pipeFds, pid, kind>>
           /\ at = here /\ at' \in {next, "full"} /\ (at' # next => ~TwoStages \/ i = 2)
           /\ foregroundSet' = foregroundSet \ {pid[i]} \/ (line.background /\ foregroundSet' = foregroundSet)
<1>1. /\ UNCHANGED <<line, fileVars, kind, childStdin, pipeFds, pid>> /\ at = here
      /\ at' \in {next, "full"} /\ (at' # next => ~TwoStages \/ i = 2)
      /\ \/ line.background /\ state' = state /\ foregroundSet' = foregroundSet
         \/ /\ state[pid[i]] = "ZOMBIE" /\ state' = [state EXCEPT ![pid[i]] = "FREE"]
            /\ foregroundSet' = foregroundSet \ {pid[i]}
  BY DEF Wait, Go, Says, Locals, KeepLine, TouchesNoProcess
<1>2. state \in [Procs -> {"FREE", "ALIVE", "ZOMBIE"}]
  BY DEF ShellInv, TablesOK
<1>3. state' \in [Procs -> {"FREE", "ALIVE", "ZOMBIE"}]
  BY <1>1, <1>2
<1>4. \A x \in Procs : state'[x] # state[x] => state[x] # "ALIVE" /\ state'[x] # "ALIVE"
  BY <1>1, <1>2
<1>5. /\ Sound(Objects, {}, {})' /\ TablesOK' /\ WorldOK'
      /\ state'[Shell] = "ALIVE" /\ state'[INIT_PID] = "ALIVE" /\ fdTable' = fdTable /\ file' = file
  BY <1>1, <1>3, <1>4, ObjectsStay
<1>. QED
  BY <1>1, <1>5

LEMMA Wait1Keeps == ASSUME ShellInv, Wait1 PROVE ShellInv'
<1>1. at = "wait1" /\ pid[1] # NoPid
  BY DEF Wait1, Wait, ShellInv, LocalsOK
<1>2. /\ Sound(Objects, {}, {})' /\ TablesOK' /\ WorldOK'
      /\ state'[Shell] = "ALIVE" /\ state'[INIT_PID] = "ALIVE"
      /\ UNCHANGED <<fdTable, file, line, childStdin, pipeFds, pid, kind>>
      /\ \/ at' = (IF TwoStages /\ pid[2] # NoPid THEN "wait2" ELSE "closeStdin")
         \/ at' = "full" /\ ~TwoStages
      /\ foregroundSet' = foregroundSet \ {pid[1]} \/ (line.background /\ foregroundSet' = foregroundSet)
  BY <1>1, WaitKeeps DEF Wait1
<1>3. TwoStages' = TwoStages
  BY <1>2 DEF TwoStages
<1>4. LocalsOK'
  BY <1>1, <1>2, <1>3 DEF ShellInv, LocalsOK
<1>5. ForegroundOK'
  <2>1. INIT_PID \notin Commands
    BY SystemProcs
  <2>2. foregroundSet' \subseteq Commands /\ foregroundSet' \subseteq {pid[2]} /\ (line'.background => foregroundSet' = {})
    BY <1>1, <1>2 DEF ShellInv, ForegroundOK, Waited
  <2>3. pid[2] # NoPid => TwoStages
    BY DEF ShellInv, LocalsOK
  <2>. QED
    BY <1>2, <2>1, <2>2, <2>3 DEF ForegroundOK, Waited, NoPid
<1>6. ShellTable'
  BY <1>1, <1>2 DEF ShellInv, ShellTable, HeldFds, PipeOpen
<1>. QED
  BY <1>2, <1>4, <1>5, <1>6 DEF ShellInv

LEMMA Wait2Keeps == ASSUME ShellInv, Wait2 PROVE ShellInv'
<1>1. at = "wait2" /\ pid[2] # NoPid
  BY DEF Wait2, Wait, ShellInv, LocalsOK
<1>2. /\ Sound(Objects, {}, {})' /\ TablesOK' /\ WorldOK'
      /\ state'[Shell] = "ALIVE" /\ state'[INIT_PID] = "ALIVE"
      /\ UNCHANGED <<fdTable, file, line, childStdin, pipeFds, pid, kind>>
      /\ at' \in {"closeStdin", "full"}
      /\ foregroundSet' = foregroundSet \ {pid[2]} \/ (line.background /\ foregroundSet' = foregroundSet)
  BY <1>1, WaitKeeps DEF Wait2
<1>3. TwoStages' = TwoStages
  BY <1>2 DEF TwoStages
<1>4. LocalsOK'
  BY <1>1, <1>2, <1>3 DEF ShellInv, LocalsOK
<1>5. ForegroundOK'
  BY <1>1, <1>2 DEF ShellInv, ForegroundOK, Waited
<1>6. ShellTable'
  BY <1>1, <1>2 DEF ShellInv, ShellTable, HeldFds, PipeOpen
<1>. QED
  BY <1>2, <1>4, <1>5, <1>6 DEF ShellInv

-----------------------------------------------------------------------------
(* The shell's calls on its own descriptors *)

LEMMA ReopenStdinKeeps == ASSUME ShellInv, ReopenStdin PROVE ShellInv'
<1>1. /\ at = "reopen" /\ at' = (IF TwoStages THEN "pipe" ELSE "spawn1")
      /\ UNCHANGED <<line, kind, state, foregroundSet, pipeFds, pid>>
  BY DEF ReopenStdin, Go, KeepLine, TouchesNoProcess
<1>2. PICK o \in reopenFd(Objects, Shell, STDIN) : Set(o.h) /\ childStdin' = o.fd
  BY DEF ReopenStdin
<1>3. Sound(o.h, {}, {}) /\ OthersKeep(Objects, Shell, o.h) /\ Reopened(Objects, Shell, o)
  BY <1>2, ReopenSound, SystemProcs DEF ShellInv
<1>4. Objects.fdTable = fdTable /\ Objects.file = file /\ fdTable \in [Procs -> [FDs -> Nat]]
  BY DEF Objects, ShellInv, Sound, Shape
<1>5. /\ \A fd \in Standard : fdTable[Shell][fd] # Null
      /\ \A fd \in FDs \ Standard : fdTable[Shell][fd] = Null
  BY <1>1, Slots3 DEF ShellInv, LocalsOK, ShellTable, HeldFds, PipeOpen
<1>6. /\ childStdin' \in FDs \cup {-1} /\ childStdin' \notin Standard
      /\ \A fd \in FDs : fd # childStdin' => o.h.fdTable[Shell][fd] = fdTable[Shell][fd]
  <2>1. CASE o.fd = -1 /\ o.h.fdTable = fdTable
    BY <1>2, <2>1, Slots3
  <2>2. CASE /\ o.fd \in FDs /\ fdTable[Shell][o.fd] = Null
             /\ \E f : o.h.fdTable = SetSlot(fdTable, Shell, o.fd, f)
    <3>1. PICK f : o.h.fdTable = SetSlot(fdTable, Shell, o.fd, f)
      BY <2>2
    <3>2. \A fd \in FDs : fd # o.fd => o.h.fdTable[Shell][fd] = fdTable[Shell][fd]
      BY <1>4, <3>1, SystemProcs DEF SetSlot
    <3>3. o.fd \notin Standard
      BY <1>5, <2>2
    <3>. QED
      BY <1>2, <2>2, <3>2, <3>3
  <2>. QED
    BY <1>3, <1>4, <2>1, <2>2 DEF Reopened
<1>7. /\ Sound(Objects, {}, {})' /\ TablesOK' /\ WorldOK'
      /\ state'[Shell] = "ALIVE" /\ state'[INIT_PID] = "ALIVE"
      /\ fdTable' = o.h.fdTable /\ file' = o.h.file
  <2>1. /\ Alike(o.h.file, file) /\ \A x \in Procs \ {Shell} : o.h.fdTable[x] = fdTable[x]
        /\ o.h.fdTable[Shell][STDOUT] = fdTable[Shell][STDOUT] /\ UNCHANGED <<state, kind>>
    BY <1>1, <1>3, <1>4, <1>6, Slots3 DEF OthersKeep, Standard
  <2>. QED
    BY <1>2, <1>3, <2>1, ShellCall
<1>8. TwoStages' = TwoStages
  BY <1>1 DEF TwoStages
<1>9. LocalsOK'
  BY <1>1, <1>6, <1>8 DEF ShellInv, LocalsOK
<1>10. ForegroundOK'
  BY <1>1 DEF ShellInv, ForegroundOK, Waited
<1>11. ShellTable'
  <2>1. at' \in PipeOpen => pipeFds' = <<-1, -1>>
    BY <1>1 DEF ShellInv, LocalsOK
  <2>2. at' # "start" /\ pipeFds'[1] \notin Standard /\ pipeFds'[2] \notin Standard
    BY <1>1 DEF ShellInv, ShellTable
  <2>3. \A fd \in Standard : fdTable'[Shell][fd] # Null
    BY <1>5, <1>6, <1>7, Slots3 DEF Standard
  <2>4. \A fd \in FDs \ Standard : fdTable'[Shell][fd] # Null => fd \in HeldFds'
    BY <1>5, <1>6, <1>7 DEF HeldFds
  <2>. QED
    BY <1>6, <2>1, <2>2, <2>3, <2>4 DEF ShellTable
<1>. QED
  BY <1>7, <1>9, <1>10, <1>11 DEF ShellInv

LEMMA MakePipeKeeps == ASSUME ShellInv, MakePipe PROVE ShellInv'
<1>1. at = "pipe" /\ UNCHANGED <<line, kind, state, foregroundSet, childStdin, pid>>
  BY DEF MakePipe, KeepLine, TouchesNoProcess
<1>2. PICK o \in sysPipe(Objects, Shell) :
         /\ Set(o.h) /\ pipeFds' = o.fds
         /\ \/ o.fds[1] < 0 /\ at' \in {"closeStdin", "full"}
            \/ o.fds[1] >= 0 /\ at' = "spawn1"
  BY DEF MakePipe, Go, Says
<1>3. Sound(o.h, {}, {}) /\ OthersKeep(Objects, Shell, o.h) /\ Piped(Objects, Shell, o)
  BY <1>2, SysPipeSound, SystemProcs DEF ShellInv
<1>4. /\ Objects.fdTable = fdTable /\ Objects.file = file /\ Objects.pipe = pipe
      /\ fdTable \in [Procs -> [FDs -> Nat]] /\ 1 \in DOMAIN pipe
  BY Held DEF Objects, ShellInv, Sound, Shape, WorldOK
<1>5. /\ \A fd \in Standard : fdTable[Shell][fd] # Null
      /\ \A fd \in FDs \ Standard : fdTable[Shell][fd] # Null => fd = childStdin
  BY <1>1 DEF ShellInv, ShellTable, HeldFds, PipeOpen
<1>6. /\ pipeFds' \in [1 .. 2 -> FDs \cup {-1}] /\ pipeFds'[1] \notin Standard /\ pipeFds'[2] \notin Standard
      /\ IF pipeFds' = <<-1, -1>> THEN at' \in {"closeStdin", "full"} ELSE at' = "spawn1"
      /\ \A fd \in FDs : fd # pipeFds'[1] /\ fd # pipeFds'[2] => o.h.fdTable[Shell][fd] = fdTable[Shell][fd]
      /\ pipeFds' # <<-1, -1>> => \A i \in 1 .. 2 :
            o.h.fdTable[Shell][pipeFds'[i]] # Null /\ o.h.file[o.h.fdTable[Shell][pipeFds'[i]]].pipe # 1
  <2>1. CASE o.fds = <<-1, -1>> /\ o.h.fdTable = fdTable
    BY <1>2, <2>1, Slots3
  <2>2. CASE \E q : q \notin DOMAIN pipe /\ Installed(Objects, Shell, q, o)
    <3>1. PICK q : q \notin DOMAIN pipe /\ Installed(Objects, Shell, q, o)
      BY <2>2
    <3>2. CASE o.fds = <<-1, -1>> /\ o.h.fdTable = fdTable
      BY <2>1, <3>2
    <3>3. CASE ~(o.fds = <<-1, -1>> /\ o.h.fdTable = fdTable)
      <4>1. PICK r \in FDs, w \in FDs : \E f, g \in DOMAIN o.h.file :
              /\ o.fds = <<r, w>> /\ r # w /\ fdTable[Shell][r] = Null /\ fdTable[Shell][w] = Null
              /\ o.h.fdTable = SetSlot(SetSlot(fdTable, Shell, r, f), Shell, w, g)
              /\ o.h.file[f].pipe = q /\ o.h.file[g].pipe = q
        BY <1>4, <3>1, <3>3 DEF Installed
      <4>2. PICK f \in DOMAIN o.h.file, g \in DOMAIN o.h.file :
              /\ o.fds = <<r, w>> /\ r # w /\ fdTable[Shell][r] = Null /\ fdTable[Shell][w] = Null
              /\ o.h.fdTable = SetSlot(SetSlot(fdTable, Shell, r, f), Shell, w, g)
              /\ o.h.file[f].pipe = q /\ o.h.file[g].pipe = q
        BY <4>1
      <4>3. f # Null /\ g # Null /\ q # 1
        BY <1>3, <1>4, <3>1, Held
      <4>4. r \notin Standard /\ w \notin Standard
        BY <1>5, <4>2
      <4>5. r >= 0 /\ r # -1 /\ ~(r < 0)
        BY FilesAssumption DEF FDs
      <4>6. \A fd \in FDs : o.h.fdTable[Shell][fd] = IF fd = w THEN g ELSE IF fd = r THEN f ELSE fdTable[Shell][fd]
        BY <1>4, <4>2, SystemProcs DEF SetSlot
      <4>7. pipeFds' = <<r, w>> /\ pipeFds'[1] = r /\ pipeFds'[2] = w
        BY <1>2, <4>2
      <4>8. pipeFds' # <<-1, -1>> /\ pipeFds' \in [1 .. 2 -> FDs \cup {-1}]
        BY <4>5, <4>7
      <4>9. IF pipeFds' = <<-1, -1>> THEN at' \in {"closeStdin", "full"} ELSE at' = "spawn1"
        BY <1>2, <4>2, <4>5, <4>8
      <4>10. \A fd \in FDs : fd # pipeFds'[1] /\ fd # pipeFds'[2] => o.h.fdTable[Shell][fd] = fdTable[Shell][fd]
        BY <4>6, <4>7
      <4>11. o.h.fdTable[Shell][r] = f /\ o.h.fdTable[Shell][w] = g
        BY <4>2, <4>6
      <4>12. ASSUME NEW i \in 1 .. 2
             PROVE  o.h.fdTable[Shell][pipeFds'[i]] # Null /\ o.h.file[o.h.fdTable[Shell][pipeFds'[i]]].pipe # 1
        BY <4>2, <4>3, <4>7, <4>11
      <4>. QED
        BY <4>4, <4>7, <4>8, <4>9, <4>10, <4>12
    <3>. QED
      BY <3>2, <3>3
  <2>. QED
    BY <1>3, <1>4, <2>1, <2>2 DEF Piped
<1>7. /\ Sound(Objects, {}, {})' /\ TablesOK' /\ WorldOK'
      /\ state'[Shell] = "ALIVE" /\ state'[INIT_PID] = "ALIVE"
      /\ fdTable' = o.h.fdTable /\ file' = o.h.file
  <2>1. /\ Alike(o.h.file, file) /\ \A x \in Procs \ {Shell} : o.h.fdTable[x] = fdTable[x]
        /\ o.h.fdTable[Shell][STDOUT] = fdTable[Shell][STDOUT] /\ UNCHANGED <<state, kind>>
    BY <1>1, <1>3, <1>4, <1>6, Slots3 DEF OthersKeep, Standard
  <2>. QED
    BY <1>2, <1>3, <2>1, ShellCall
<1>8. TwoStages' = TwoStages /\ TwoStages
  BY <1>1 DEF TwoStages, ShellInv, LocalsOK
<1>9. LocalsOK'
  BY <1>1, <1>6, <1>8 DEF ShellInv, LocalsOK
<1>10. ForegroundOK'
  BY <1>1, <1>6 DEF ShellInv, ForegroundOK, Waited
<1>11. ShellTable'
  <2>1. \A fd \in Standard : fdTable'[Shell][fd] # Null
    BY <1>5, <1>6, <1>7, Slots3 DEF Standard
  <2>2. \A fd \in FDs \ Standard : fdTable'[Shell][fd] # Null => fd \in HeldFds'
    <3>1. CASE pipeFds' = <<-1, -1>>
      BY <1>1, <1>5, <1>6, <1>7, <3>1, Slots3 DEF HeldFds
    <3>2. CASE pipeFds' # <<-1, -1>>
      BY <1>1, <1>5, <1>6, <1>7, <3>2 DEF HeldFds, PipeOpen
    <3>. QED
      BY <3>1, <3>2
  <2>3. childStdin' \notin Standard /\ at' # "start"
    BY <1>1, <1>6 DEF ShellInv, ShellTable
  <2>4. at' \in PipeOpen => pipeFds' # <<-1, -1>>
    BY <1>6 DEF PipeOpen
  <2>. QED
    BY <1>6, <1>7, <2>1, <2>2, <2>3, <2>4 DEF ShellTable
<1>. QED
  BY <1>7, <1>9, <1>10, <1>11 DEF ShellInv

\* The slot that a close empties is not a standard one.
LEMMA ShellClose ==
    ASSUME ShellInv, at # "start", NEW fd \in FDs \cup {-1}, fd \notin Standard,
           Set(closeFd(Objects, Shell, fd)), UNCHANGED <<state, kind>>
    PROVE  /\ Sound(Objects, {}, {})' /\ TablesOK' /\ WorldOK'
           /\ state'[Shell] = "ALIVE" /\ state'[INIT_PID] = "ALIVE"
           /\ \A x \in Standard : fdTable'[Shell][x] # Null
           /\ \A x \in FDs \ Standard : fdTable'[Shell][x] # Null => x \in HeldFds \ {fd}
<1> DEFINE h == closeFd(Objects, Shell, fd)
<1>1. Objects.fdTable = fdTable /\ Objects.file = file /\ fdTable \in [Procs -> [FDs -> Nat]]
  BY DEF Objects, ShellInv, Sound, Shape
<1>2. Sound(h, {}, {}) /\ Closed(Objects, Shell, fd, h)
  <2>1. Sound(Objects, {}, {}) /\ (fd \in FDs => Objects.fdTable[Shell][fd] \notin {})
    BY DEF ShellInv
  <2>. QED
    BY <2>1, CloseFdSound, SystemProcs
<1>3. Set(h)
  OBVIOUS
<1> HIDE DEF h
<1>4. /\ Alike(h.file, file) /\ \A x \in Procs \ {Shell} : h.fdTable[x] = fdTable[x]
      /\ \A x \in FDs : h.fdTable[Shell][x] = IF x = fd THEN Null ELSE fdTable[Shell][x]
  BY <1>1, <1>2, Slots3, SystemProcs DEF Closed, SetSlot
<1>5. h.fdTable[Shell][STDOUT] = fdTable[Shell][STDOUT]
  BY <1>4, Slots3 DEF Standard
<1>6. /\ Sound(Objects, {}, {})' /\ TablesOK' /\ WorldOK'
      /\ state'[Shell] = "ALIVE" /\ state'[INIT_PID] = "ALIVE"
      /\ fdTable' = h.fdTable /\ file' = h.file
  BY <1>2, <1>3, <1>4, <1>5, ShellCall
<1>7. /\ \A x \in Standard : fdTable[Shell][x] # Null
      /\ \A x \in FDs \ Standard : fdTable[Shell][x] # Null => x \in HeldFds
  BY DEF ShellInv, ShellTable
<1>. QED
  BY <1>4, <1>6, <1>7, Slots3 DEF Standard

LEMMA CloseReadEndKeeps == ASSUME ShellInv, CloseReadEnd PROVE ShellInv'
<1>1. /\ at = "closeR" /\ at' = "closeW" /\ Set(closeFd(Objects, Shell, pipeFds[1]))
      /\ UNCHANGED <<line, kind, state, foregroundSet, childStdin, pipeFds, pid>>
  BY DEF CloseReadEnd, CloseStep, Go, KeepLine, TouchesNoProcess, Locals
<1>2. pipeFds[1] \in FDs \cup {-1} /\ pipeFds[1] \notin Standard
  BY DEF ShellInv, LocalsOK, ShellTable
<1>3. /\ Sound(Objects, {}, {})' /\ TablesOK' /\ WorldOK'
      /\ state'[Shell] = "ALIVE" /\ state'[INIT_PID] = "ALIVE"
      /\ \A x \in Standard : fdTable'[Shell][x] # Null
      /\ \A x \in FDs \ Standard : fdTable'[Shell][x] # Null => x \in HeldFds \ {pipeFds[1]}
  <2>1. at # "start" /\ UNCHANGED <<state, kind>>
    BY <1>1
  <2>. QED
    BY <1>1, <1>2, <2>1, ShellClose
<1>4. TwoStages' = TwoStages
  BY <1>1 DEF TwoStages
<1>5. LocalsOK'
  BY <1>1, <1>4 DEF ShellInv, LocalsOK
<1>6. ForegroundOK'
  BY <1>1 DEF ShellInv, ForegroundOK, Waited
<1>7. ShellTable'
  BY <1>1, <1>3 DEF ShellInv, ShellTable, HeldFds, PipeOpen
<1>. QED
  BY <1>3, <1>5, <1>6, <1>7 DEF ShellInv

LEMMA CloseWriteEndKeeps == ASSUME ShellInv, CloseWriteEnd PROVE ShellInv'
<1>1. /\ at = "closeW" /\ Set(closeFd(Objects, Shell, pipeFds[2]))
      /\ at' = IF pid[1] = NoPid THEN "closeStdin" ELSE IF pid[2] = NoPid THEN "kill1" ELSE "wait1"
      /\ UNCHANGED <<line, kind, state, foregroundSet, childStdin, pipeFds, pid>>
  BY DEF CloseWriteEnd, CloseStep, Go, KeepLine, TouchesNoProcess, Locals
<1>2. pipeFds[2] \in FDs \cup {-1} /\ pipeFds[2] \notin Standard
  BY DEF ShellInv, LocalsOK, ShellTable
<1>3. /\ Sound(Objects, {}, {})' /\ TablesOK' /\ WorldOK'
      /\ state'[Shell] = "ALIVE" /\ state'[INIT_PID] = "ALIVE"
      /\ \A x \in Standard : fdTable'[Shell][x] # Null
      /\ \A x \in FDs \ Standard : fdTable'[Shell][x] # Null => x \in HeldFds \ {pipeFds[2]}
  <2>1. at # "start" /\ UNCHANGED <<state, kind>>
    BY <1>1
  <2>. QED
    BY <1>1, <1>2, <2>1, ShellClose
<1>4. TwoStages' = TwoStages
  BY <1>1 DEF TwoStages
<1>5. LocalsOK'
  BY <1>1, <1>4 DEF ShellInv, LocalsOK
<1>6. ForegroundOK'
  <2>1. INIT_PID \notin Commands /\ (pid[1] = NoPid => pid[2] = NoPid)
    BY SystemProcs DEF ShellInv, LocalsOK
  <2>. QED
    BY <1>1, <2>1 DEF ShellInv, ForegroundOK, Waited, NoPid
<1>7. ShellTable'
  BY <1>1, <1>3 DEF ShellInv, ShellTable, HeldFds, PipeOpen
<1>. QED
  BY <1>3, <1>5, <1>6, <1>7 DEF ShellInv

LEMMA CloseStdinKeeps == ASSUME ShellInv, CloseStdin PROVE ShellInv'
<1>1. /\ at = "closeStdin" /\ at' = "prompt" /\ Set(closeFd(Objects, Shell, childStdin))
      /\ childStdin' = -1 /\ pipeFds' = <<-1, -1>> /\ pid' = <<NoPid, NoPid>> /\ line' = NoLine
      /\ UNCHANGED <<kind, state, foregroundSet>>
  BY DEF CloseStdin, NewLine, Go, TouchesNoProcess
<1>2. childStdin \in FDs \cup {-1} /\ childStdin \notin Standard
  BY DEF ShellInv, LocalsOK, ShellTable
<1>3. /\ Sound(Objects, {}, {})' /\ TablesOK' /\ WorldOK'
      /\ state'[Shell] = "ALIVE" /\ state'[INIT_PID] = "ALIVE"
      /\ \A x \in Standard : fdTable'[Shell][x] # Null
      /\ \A x \in FDs \ Standard : fdTable'[Shell][x] # Null => x \in HeldFds \ {childStdin}
  <2>1. at # "start" /\ UNCHANGED <<state, kind>>
    BY <1>1
  <2>. QED
    BY <1>1, <1>2, <2>1, ShellClose
<1>5. LocalsOK'
  <2>1. pid' \in [1 .. 2 -> Commands \cup {NoPid}] /\ pid'[1] = NoPid /\ pid'[2] = NoPid
    BY <1>1
  <2>2. pipeFds' \in [1 .. 2 -> FDs \cup {-1}] /\ line'.background = FALSE /\ DOMAIN kind' = Commands
    BY <1>1 DEF NoLine, ShellInv, LocalsOK
  <2>. QED
    BY <1>1, <2>1, <2>2 DEF LocalsOK
<1>6. ForegroundOK'
  BY <1>1 DEF ShellInv, ForegroundOK, Waited
<1>7. ShellTable'
  BY <1>1, <1>3, Slots3 DEF ShellInv, ShellTable, HeldFds, PipeOpen
<1>. QED
  BY <1>3, <1>5, <1>6, <1>7 DEF ShellInv

-----------------------------------------------------------------------------
(* The stages of a line *)

Has(s, e) == \E i \in 1 .. Len(s) : s[i] = e

LEMMA HasJoined ==
    ASSUME NEW T, NEW s \in Seq(T), NEW t \in Seq(T)
    PROVE  s \o t \in Seq(T) /\ \A e : Has(s \o t, e) <=> Has(s, e) \/ Has(t, e)
<1>1. /\ s \o t \in Seq(T) /\ Len(s) \in Nat /\ Len(t) \in Nat /\ Len(s \o t) = Len(s) + Len(t)
      /\ \A i \in 1 .. Len(s) + Len(t) : (s \o t)[i] = IF i <= Len(s) THEN s[i] ELSE t[i - Len(s)]
  BY ConcatProperties, LenProperties
<1>2. ASSUME NEW e, Has(s \o t, e)
      PROVE  Has(s, e) \/ Has(t, e)
  <2>1. PICK i \in 1 .. Len(s) + Len(t) : (s \o t)[i] = e
    BY <1>1, <1>2 DEF Has
  <2>2. CASE i <= Len(s)
    BY <1>1, <2>1, <2>2 DEF Has
  <2>3. CASE ~(i <= Len(s))
    <3>1. i - Len(s) \in 1 .. Len(t) /\ t[i - Len(s)] = e
      BY <1>1, <2>1, <2>3
    <3>. QED
      BY <3>1 DEF Has
  <2>. QED
    BY <2>2, <2>3
<1>3. ASSUME NEW e, NEW i \in 1 .. Len(s), s[i] = e
      PROVE  Has(s \o t, e)
  <2>1. i \in 1 .. Len(s \o t) /\ (s \o t)[i] = e
    BY <1>1, <1>3
  <2>. QED
    BY <2>1 DEF Has
<1>4. ASSUME NEW e, NEW i \in 1 .. Len(t), t[i] = e
      PROVE  Has(s \o t, e)
  <2>1. /\ i + Len(s) \in 1 .. Len(s \o t) /\ ~(i + Len(s) <= Len(s))
        /\ i + Len(s) - Len(s) = i
    BY <1>1
  <2>2. (s \o t)[i + Len(s)] = t[i]
    BY <1>1, <2>1
  <2>. QED
    BY <1>4, <2>1, <2>2 DEF Has
<1>. QED
  BY <1>1, <1>2, <1>3, <1>4 DEF Has

LEMMA HasOne ==
    ASSUME NEW T, NEW a \in T
    PROVE  <<a>> \in Seq(T) /\ \A e : Has(<<a>>, e) <=> e = a
  BY DEF Has

LEMMA HasTwo ==
    ASSUME NEW T, NEW a \in T, NEW b \in T
    PROVE  <<a, b>> \in Seq(T) /\ \A e : Has(<<a, b>>, e) <=> e = a \/ e = b
<1>1. <<a, b>> \in Seq(T) /\ Len(<<a, b>>) = 2 /\ <<a, b>>[1] = a /\ <<a, b>>[2] = b
  OBVIOUS
<1>2. 1 .. 2 = {1, 2}
  OBVIOUS
<1>. QED
  BY <1>1, <1>2 DEF Has

LEMMA HasNone == ASSUME NEW T PROVE <<>> \in Seq(T) /\ \A e : ~Has(<<>>, e)
  BY DEF Has

Override == (FDs \cup {-1}) \X (FDs \cup {-1})

LEMMA HasClosing ==
    ASSUME NEW fd \in FDs \cup {-1}
    PROVE  /\ Closing({fd} \ {-1}) \in Seq(Override)
           /\ \A e : Has(Closing({fd} \ {-1}), e) <=> fd # -1 /\ e = <<fd, -1>>
<1>1. CASE fd = -1
  <2>1. Closing({fd} \ {-1}) = <<>>
    BY <1>1 DEF Closing
  <2>. QED
    BY <1>1, <2>1, HasNone
<1>2. CASE fd # -1
  <2>1. {fd} \ {-1} = {fd} /\ (CHOOSE x \in {fd} : TRUE) = fd
    BY <1>2
  <2>2. Closing({fd} \ {-1}) = <<<<fd, -1>>>>
    BY <2>1 DEF Closing
  <2>3. <<fd, -1>> \in Override
    BY DEF Override
  <2> DEFINE a == <<fd, -1>>
  <2>4. a \in Override /\ Closing({fd} \ {-1}) = <<a>>
    BY <2>2, <2>3
  <2> HIDE DEF a
  <2>5. <<a>> \in Seq(Override) /\ \A e : Has(<<a>>, e) <=> e = a
    BY <2>4, HasOne
  <2>. QED
    BY <1>2, <2>4, <2>5 DEF a
<1>. QED
  BY <1>1, <1>2

\* What the overrides of a stage of a background line do: every descriptor of
\* the shell that leads to the keyboard is closed or replaced, by no such one.
TakesKeyboard(overrides) ==
    /\ \A e : Has(overrides, e) =>
          \/ e[1] \in {STDOUT, STDERR}
          \/ e[2] \notin FDs
          \/ e[2] \notin Standard /\ ~KeyboardIs(fdTable[Shell][e[2]])
    /\ \A fd \in FDs \ {STDOUT, STDERR} : KeyboardIs(fdTable[Shell][fd]) =>
          \E e : Has(overrides, e) /\ e[1] = fd

LEMMA FirstOverridesAre ==
    ASSUME ShellInv, at = "spawn1"
    PROVE  /\ FirstOverrides \in Seq(Override)
           /\ line.background => TakesKeyboard(FirstOverrides)
<1> DEFINE a == IF firstStdin = STDIN THEN <<>> ELSE <<<<STDIN, firstStdin>>>>
           b == IF TwoStages THEN <<<<STDOUT, pipeFds[2]>>, <<pipeFds[1], -1>>>> ELSE <<>>
           c == Closing(IF TwoStages /\ childStdin = firstStdin THEN {} ELSE {childStdin} \ {-1})
<1>1. /\ childStdin \in FDs \cup {-1} /\ pipeFds[1] \in FDs \cup {-1} /\ pipeFds[2] \in FDs \cup {-1}
      /\ firstStdin \in FDs \cup {-1} /\ (line.background => firstStdin = -1)
  BY Slots3 DEF ShellInv, LocalsOK, firstStdin
<1>2. FirstOverrides = (a \o b) \o c
  BY DEF FirstOverrides
<1>3. a \in Seq(Override) /\ (firstStdin # STDIN => \A e : Has(a, e) <=> e = <<STDIN, firstStdin>>)
  <2>1. CASE firstStdin = STDIN
    BY <2>1, HasNone
  <2>2. CASE firstStdin # STDIN
    <3> DEFINE x == <<STDIN, firstStdin>>
    <3>1. x \in Override /\ a = <<x>>
      BY <1>1, <2>2, Slots3 DEF Override
    <3> HIDE DEF x, a
    <3>2. <<x>> \in Seq(Override) /\ \A e : Has(<<x>>, e) <=> e = x
      BY <3>1, HasOne
    <3>. QED
      BY <3>1, <3>2 DEF x
  <2>. QED
    BY <2>1, <2>2
<1>4. /\ b \in Seq(Override)
      /\ \A e : Has(b, e) => e = <<STDOUT, pipeFds[2]>> \/ e = <<pipeFds[1], -1>>
  <2>1. CASE ~TwoStages
    BY <2>1, HasNone
  <2>2. CASE TwoStages
    <3> DEFINE x == <<STDOUT, pipeFds[2]>>
               y == <<pipeFds[1], -1>>
    <3>1. x \in Override /\ y \in Override /\ b = <<x, y>>
      BY <1>1, <2>2, Slots3 DEF Override
    <3> HIDE DEF x, y, b
    <3>2. <<x, y>> \in Seq(Override) /\ \A e : Has(<<x, y>>, e) <=> e = x \/ e = y
      BY <3>1, HasTwo
    <3>. QED
      BY <3>1, <3>2 DEF x, y
  <2>. QED
    BY <2>1, <2>2
<1>5. /\ c \in Seq(Override) /\ \A e : Has(c, e) => e = <<childStdin, -1>>
      /\ line.background /\ childStdin # -1 => Has(c, <<childStdin, -1>>)
  <2>1. CASE TwoStages /\ childStdin = firstStdin
    <3>1. c = <<>>
      BY <2>1 DEF Closing
    <3> HIDE DEF c
    <3>. QED
      BY <1>1, <2>1, <3>1, HasNone
  <2>2. CASE ~(TwoStages /\ childStdin = firstStdin)
    <3>1. c = Closing({childStdin} \ {-1})
      BY <2>2
    <3> HIDE DEF c
    <3>. QED
      BY <1>1, <3>1, HasClosing
  <2>. QED
    BY <2>1, <2>2
<1> HIDE DEF a, b, c
<1>6. a \o b \in Seq(Override) /\ \A e : Has(a \o b, e) <=> Has(a, e) \/ Has(b, e)
  BY <1>3, <1>4, HasJoined
<1>7. FirstOverrides \in Seq(Override) /\ \A e : Has(FirstOverrides, e) <=> Has(a \o b, e) \/ Has(c, e)
  BY <1>2, <1>5, <1>6, HasJoined
<1>8. ASSUME line.background
      PROVE  TakesKeyboard(FirstOverrides)
  <2>1. firstStdin = -1 /\ firstStdin # STDIN /\ \A e : Has(a, e) <=> e = <<STDIN, -1>>
    BY <1>1, <1>3, <1>8, Slots3
  <2>2. ASSUME NEW e, Has(FirstOverrides, e)
        PROVE  e[1] \in {STDOUT, STDERR} \/ e[2] \notin FDs
    <3>1. e = <<STDIN, -1>> \/ e = <<STDOUT, pipeFds[2]>> \/ e = <<pipeFds[1], -1>> \/ e = <<childStdin, -1>>
      BY <1>4, <1>5, <1>6, <1>7, <2>1, <2>2
    <3>. QED
      BY <3>1, Slots3
  <2>3. ASSUME NEW fd \in FDs \ {STDOUT, STDERR}, KeyboardIs(fdTable[Shell][fd])
        PROVE  \E e : Has(FirstOverrides, e) /\ e[1] = fd
    <3>1. fd = STDIN \/ fd = childStdin
      <4>1. fdTable[Shell][fd] # Null /\ file[fdTable[Shell][fd]].pipe = 1
        BY <2>3 DEF KeyboardIs
      <4>2. fd = STDIN \/ fd \in HeldFds
        BY <4>1 DEF ShellInv, ShellTable, Standard
      <4>3. fd # pipeFds[1] /\ fd # pipeFds[2]
        BY <4>1, Slots3 DEF ShellInv, ShellTable, PipeOpen
      <4>. QED
        BY <4>2, <4>3 DEF HeldFds
    <3>2. CASE fd = STDIN
      <4>1. Has(FirstOverrides, <<STDIN, -1>>)
        BY <1>6, <1>7, <2>1
      <4>. QED
        BY <3>2, <4>1
    <3>3. CASE fd = childStdin
      <4>1. Has(FirstOverrides, <<childStdin, -1>>)
        BY <1>5, <1>7, <1>8, <3>3, Slots3
      <4>. QED
        BY <3>3, <4>1
    <3>. QED
      BY <3>1, <3>2, <3>3
  <2>. QED
    BY <2>2, <2>3 DEF TakesKeyboard
<1>. QED
  BY <1>7, <1>8

LEMMA SecondOverridesAre ==
    ASSUME ShellInv, at = "spawn2"
    PROVE  /\ SecondOverrides \in Seq(Override)
           /\ line.background => TakesKeyboard(SecondOverrides)
<1> DEFINE x == <<STDIN, pipeFds[1]>>
           y == <<pipeFds[2], -1>>
           a == <<x, y>>
           c == Closing({childStdin} \ {-1})
<1>1. childStdin \in FDs \cup {-1} /\ pipeFds[1] \in FDs \cup {-1} /\ pipeFds[2] \in FDs \cup {-1}
  BY DEF ShellInv, LocalsOK
<1>2. SecondOverrides = a \o c
  BY DEF SecondOverrides
<1>3. x \in Override /\ y \in Override
  BY <1>1, Slots3 DEF Override
<1>4. c \in Seq(Override) /\ \A e : Has(c, e) <=> childStdin # -1 /\ e = <<childStdin, -1>>
  BY <1>1, HasClosing
<1> HIDE DEF x, y, c
<1>5. a \in Seq(Override) /\ \A e : Has(a, e) <=> e = x \/ e = y
  BY <1>3, HasTwo
<1> HIDE DEF a
<1>6. SecondOverrides \in Seq(Override) /\ \A e : Has(SecondOverrides, e) <=> e = x \/ e = y \/ Has(c, e)
  BY <1>2, <1>4, <1>5, HasJoined
<1>7. pipeFds[1] # -1 => pipeFds[1] \notin Standard /\ ~KeyboardIs(fdTable[Shell][pipeFds[1]])
  BY DEF ShellInv, ShellTable, PipeOpen, KeyboardIs
<1>8. ASSUME NEW e, Has(SecondOverrides, e)
      PROVE  e[2] \notin FDs \/ (e[2] \notin Standard /\ ~KeyboardIs(fdTable[Shell][e[2]]))
  <2>1. e = <<STDIN, pipeFds[1]>> \/ e = <<pipeFds[2], -1>> \/ e = <<childStdin, -1>>
    BY <1>4, <1>6, <1>8 DEF x, y
  <2>. QED
    BY <1>7, <2>1, Slots3
<1>9. ASSUME NEW fd \in FDs \ {STDOUT, STDERR}, KeyboardIs(fdTable[Shell][fd])
      PROVE  \E e : Has(SecondOverrides, e) /\ e[1] = fd
  <2>1. fdTable[Shell][fd] # Null /\ file[fdTable[Shell][fd]].pipe = 1
    BY <1>9 DEF KeyboardIs
  <2>2. fd = STDIN \/ fd \in HeldFds
    BY <2>1 DEF ShellInv, ShellTable, Standard
  <2>3. fd # pipeFds[1] /\ fd # pipeFds[2]
    BY <2>1, Slots3 DEF ShellInv, ShellTable, PipeOpen
  <2>4. fd = STDIN \/ fd = childStdin
    BY <2>2, <2>3 DEF HeldFds
  <2>5. CASE fd = STDIN
    <3>1. Has(SecondOverrides, x) /\ x[1] = fd
      BY <1>6, <2>5 DEF x
    <3>. QED
      BY <3>1
  <2>6. CASE fd = childStdin
    <3>1. Has(SecondOverrides, <<childStdin, -1>>)
      BY <1>4, <1>6, <2>6, Slots3
    <3>. QED
      BY <2>6, <3>1
  <2>. QED
    BY <2>4, <2>5, <2>6
<1>. QED
  BY <1>6, <1>8, <1>9 DEF TakesKeyboard

\* A new command inherits the shell's descriptors; then the overrides.
LEMMA Spawned ==
    ASSUME ShellInv, NEW c \in Commands, state[c] = "FREE", state' = [state EXCEPT ![c] = "ALIVE"],
           NEW overrides \in Seq(Override), Set(Overridden(copyFdTable(Objects, c, Shell), c, overrides)),
           \A x \in Commands \ {c} : kind'[x] = kind[x],
           kind'[c].background => TakesKeyboard(overrides)
    PROVE  /\ Sound(Objects, {}, {})' /\ TablesOK' /\ WorldOK'
           /\ state'[Shell] = "ALIVE" /\ state'[INIT_PID] = "ALIVE"
           /\ fdTable'[Shell] = fdTable[Shell]
           /\ \A fd \in FDs : fdTable[Shell][fd] # Null =>
                  file'[fdTable[Shell][fd]].pipe = file[fdTable[Shell][fd]].pipe
<1> DEFINE g == copyFdTable(Objects, c, Shell)
           h == Overridden(g, c, overrides)
           A == {STDOUT, STDERR}
           B == {f \in DOMAIN file : file[f].pipe = 1}
<1>1. /\ Objects.fdTable = fdTable /\ Objects.file = file /\ fdTable \in [Procs -> [FDs -> Nat]]
      /\ Sound(Objects, {}, {}) /\ c \in Procs /\ c # Shell
  BY SystemProcs DEF Objects, ShellInv, Sound, Shape
<1>2. Sound(g, {}, {}) /\ Copied(Objects, c, Shell, g)
  BY <1>1, CopySound, SystemProcs
<1>3. Len(overrides) \in Nat /\ Set(h)
  BY LenProperties
<1>k. h = Overridden(g, c, overrides)
  OBVIOUS
<1> HIDE DEF g
<1>4. Sound(h, {}, {}) /\ OnlyTableOf(g, c, h)
  BY <1>1, <1>2, <1>3, OverriddenSound
<1> HIDE DEF h
<1>5. /\ \A x \in Procs \ {c} : h.fdTable[x] = fdTable[x]
      /\ DOMAIN h.file \subseteq DOMAIN file /\ Alike(h.file, file)
      /\ g.fdTable[c] = fdTable[Shell]
  BY <1>1, <1>2, <1>4, SystemProcs DEF Copied, OnlyTableOf, Alike
<1>6. Keeps(Objects, h, {c}) /\ Same(Objects, h, Shell, STDOUT)
  <2>1. Keeps(Objects, h, {c})
    BY <1>1, <1>4, <1>5, KeepsIf
  <2>. QED
    BY <1>1, <2>1, SystemProcs, Slots3 DEF Keeps
<1>7. Sound(Objects, {}, {})' /\ fdTable' = h.fdTable /\ file' = h.file
  BY <1>3, <1>4, SetGives
<1>8. ASSUME TakesKeyboard(overrides)
      PROVE  NoKeyboardIn(h.fdTable, h.file, c)
  <2>1. Null \notin B /\ \A fd \in FDs : KeyboardIs(fdTable[Shell][fd]) <=> fdTable[Shell][fd] \in B
    BY <1>1, Held, SystemProcs DEF KeyboardIs
  <2>2. \A i \in 1 .. Len(overrides) :
           \/ overrides[i][1] \in A
           \/ overrides[i][2] \notin FDs
           \/ overrides[i][2] \notin A /\ g.fdTable[c][overrides[i][2]] \notin B
    <3>1. \A i \in 1 .. Len(overrides) : Has(overrides, overrides[i])
      BY DEF Has
    <3> HIDE DEF B
    <3>. QED
      BY <1>5, <1>8, <2>1, <3>1 DEF TakesKeyboard, Standard
  <2>3. ASSUME NEW fd \in FDs, fd \notin A, h.fdTable[c][fd] \in B
        PROVE  FALSE
    <3> HIDE DEF A, B
    <3>1. g.fdTable[c][fd] \in B /\ \A i \in 1 .. Len(overrides) : overrides[i][1] # fd
      BY <1>1, <1>2, <1>3, <1>k, <2>1, <2>2, <2>3, OverriddenLoses
    <3>2. KeyboardIs(fdTable[Shell][fd])
      BY <1>5, <2>1, <3>1
    <3>3. PICK e : Has(overrides, e) /\ e[1] = fd
      BY <1>8, <2>3, <3>2 DEF TakesKeyboard, A
    <3>. QED
      BY <3>1, <3>3 DEF Has
  <2>4. ASSUME NEW fd \in FDs \ {STDOUT, STDERR}, h.fdTable[c][fd] # Null
        PROVE  h.file[h.fdTable[c][fd]].pipe # 1
    <3>1. h.fdTable[c][fd] \in DOMAIN h.file
      BY <1>1, <1>4, <2>4, Held
    <3>2. h.fdTable[c][fd] \notin B
      BY <2>3
    <3>. QED
      BY <1>5, <3>1, <3>2 DEF Alike
  <2>. QED
    BY <2>4 DEF NoKeyboardIn
<1>9. WorldOK'
  <2>1. \A x \in Commands : state'[x] = "ALIVE" /\ kind'[x].background =>
               \/ x \notin {c} /\ state[x] = "ALIVE" /\ kind[x].background
               \/ NoKeyboardIn(h.fdTable, h.file, x)
    BY <1>8, SystemProcs DEF ShellInv, TablesOK
  <2> DEFINE S == {c}
  <2>2. /\ S \subseteq Commands \cup {Shell} /\ Keeps(Objects, h, S)
        /\ \A x \in Commands : state'[x] = "ALIVE" /\ kind'[x].background =>
               \/ x \notin S /\ state[x] = "ALIVE" /\ kind[x].background
               \/ NoKeyboardIn(h.fdTable, h.file, x)
    BY <1>6, <2>1
  <2> HIDE DEF S
  <2>. QED
    BY <1>6, <1>7, <2>2, WorldStays
<1>10. TablesOK'
  BY <1>1, <1>5, <1>7 DEF ShellInv, TablesOK
<1>11. state'[Shell] = "ALIVE" /\ state'[INIT_PID] = "ALIVE"
  BY SystemProcs DEF ShellInv, TablesOK
<1>12. /\ fdTable'[Shell] = fdTable[Shell]
       /\ \A fd \in FDs : fdTable[Shell][fd] # Null =>
              file'[fdTable[Shell][fd]].pipe = file[fdTable[Shell][fd]].pipe
  BY <1>1, <1>5, <1>6, <1>7, SystemProcs DEF Keeps, Same
<1>. QED
  BY <1>7, <1>9, <1>10, <1>11, <1>12

\* runStage made the process, or did not.
LEMMA runStageIs ==
    ASSUME ShellInv, NEW i \in 1 .. 2, NEW overrides \in Seq(Override), NEW found, NEW failed,
           line.background => TakesKeyboard(overrides),
           runStage(i, overrides, found, failed)
    PROVE  /\ Sound(Objects, {}, {})' /\ TablesOK' /\ WorldOK'
           /\ state'[Shell] = "ALIVE" /\ state'[INIT_PID] = "ALIVE"
           /\ fdTable'[Shell] = fdTable[Shell]
           /\ \A fd \in FDs : fdTable[Shell][fd] # Null =>
                  file'[fdTable[Shell][fd]].pipe = file[fdTable[Shell][fd]].pipe
           /\ UNCHANGED <<line, childStdin, pipeFds, foregroundSet>> /\ DOMAIN kind' = Commands
           /\ \/ at' = found /\ \E c \in Commands : pid' = [pid EXCEPT ![i] = c]
              \/ at' \in {failed, "full"} /\ pid' = [pid EXCEPT ![i] = NoPid]
<1>1. CASE at' = found /\ \E c \in Commands :
            /\ state[c] = "FREE"
            /\ Set(Overridden(copyFdTable(Objects, c, Shell), c, overrides))
            /\ state' = [state EXCEPT ![c] = "ALIVE"]
            /\ \E much \in BOOLEAN : kind' = [kind EXCEPT ![c] =
                   [is |-> line.stages[i], much |-> much, background |-> line.background]]
            /\ pid' = [pid EXCEPT ![i] = c]
            /\ UNCHANGED <<line, childStdin, pipeFds, foregroundSet>>
  <2>1. PICK c \in Commands :
            /\ state[c] = "FREE"
            /\ Set(Overridden(copyFdTable(Objects, c, Shell), c, overrides))
            /\ state' = [state EXCEPT ![c] = "ALIVE"]
            /\ \E much \in BOOLEAN : kind' = [kind EXCEPT ![c] =
                   [is |-> line.stages[i], much |-> much, background |-> line.background]]
            /\ pid' = [pid EXCEPT ![i] = c]
            /\ UNCHANGED <<line, childStdin, pipeFds, foregroundSet>>
    BY <1>1
  <2>2. /\ \A x \in Commands \ {c} : kind'[x] = kind[x]
        /\ kind'[c].background => TakesKeyboard(overrides) /\ DOMAIN kind' = Commands
    BY <2>1 DEF ShellInv, LocalsOK
  <2>3. DOMAIN kind' = Commands
    BY <2>1 DEF ShellInv, LocalsOK
  <2>4. /\ Sound(Objects, {}, {})' /\ TablesOK' /\ WorldOK'
        /\ state'[Shell] = "ALIVE" /\ state'[INIT_PID] = "ALIVE"
        /\ fdTable'[Shell] = fdTable[Shell]
        /\ \A fd \in FDs : fdTable[Shell][fd] # Null =>
               file'[fdTable[Shell][fd]].pipe = file[fdTable[Shell][fd]].pipe
    BY <2>1, <2>2, Spawned
  <2>. QED
    BY <1>1, <2>1, <2>3, <2>4
<1>2. CASE /\ pid' = [pid EXCEPT ![i] = NoPid] /\ at' \in {failed, "full"}
           /\ UNCHANGED <<line, kind, state, foregroundSet, fileVars, childStdin, pipeFds>>
  <2>1. /\ Sound(Objects, {}, {})' /\ TablesOK' /\ WorldOK'
        /\ state'[Shell] = "ALIVE" /\ state'[INIT_PID] = "ALIVE" /\ fdTable' = fdTable /\ file' = file
    BY <1>2, ObjectsStay DEF ShellInv, TablesOK
  <2>. QED
    BY <1>2, <2>1 DEF ShellInv, LocalsOK
<1>3. \A much \in HowMuch(i) : much \in BOOLEAN
  BY DEF HowMuch
<1>. QED
  BY <1>1, <1>2, <1>3 DEF runStage, Go, Says, KeepLine, TouchesNoProcess

LEMMA Spawn1Keeps == ASSUME ShellInv, Spawn1 PROVE ShellInv'
<1>1. at = "spawn1" /\ runStage(1, FirstOverrides, "fg1", IF TwoStages THEN "closeR" ELSE "closeStdin")
  BY DEF Spawn1
<1>2. FirstOverrides \in Seq(Override) /\ (line.background => TakesKeyboard(FirstOverrides))
  BY <1>1, FirstOverridesAre
<1>3. /\ Sound(Objects, {}, {})' /\ TablesOK' /\ WorldOK'
      /\ state'[Shell] = "ALIVE" /\ state'[INIT_PID] = "ALIVE"
      /\ fdTable'[Shell] = fdTable[Shell]
      /\ \A fd \in FDs : fdTable[Shell][fd] # Null =>
             file'[fdTable[Shell][fd]].pipe = file[fdTable[Shell][fd]].pipe
      /\ UNCHANGED <<line, childStdin, pipeFds, foregroundSet>> /\ DOMAIN kind' = Commands
      /\ \/ at' = "fg1" /\ \E c \in Commands : pid' = [pid EXCEPT ![1] = c]
         \/ at' \in {IF TwoStages THEN "closeR" ELSE "closeStdin", "full"} /\ pid' = [pid EXCEPT ![1] = NoPid]
  <2> DEFINE overrides == FirstOverrides
             failed == IF TwoStages THEN "closeR" ELSE "closeStdin"
  <2>1. runStage(1, overrides, "fg1", failed) /\ overrides \in Seq(Override) /\ 1 \in 1 .. 2
        /\ (line.background => TakesKeyboard(overrides))
    BY <1>1, <1>2
  <2> HIDE DEF overrides, failed
  <2>2. /\ Sound(Objects, {}, {})' /\ TablesOK' /\ WorldOK'
        /\ state'[Shell] = "ALIVE" /\ state'[INIT_PID] = "ALIVE"
        /\ fdTable'[Shell] = fdTable[Shell]
        /\ \A fd \in FDs : fdTable[Shell][fd] # Null =>
               file'[fdTable[Shell][fd]].pipe = file[fdTable[Shell][fd]].pipe
        /\ UNCHANGED <<line, childStdin, pipeFds, foregroundSet>> /\ DOMAIN kind' = Commands
        /\ \/ at' = "fg1" /\ \E c \in Commands : pid' = [pid EXCEPT ![1] = c]
           \/ at' \in {failed, "full"} /\ pid' = [pid EXCEPT ![1] = NoPid]
    BY <2>1, runStageIs
  <2>. QED
    BY <2>2 DEF failed
<1>4. TwoStages' = TwoStages /\ NoPid \notin Commands
  BY <1>3, SystemProcs DEF TwoStages, NoPid
<1>5. pid' \in [1 .. 2 -> Commands \cup {NoPid}] /\ pid'[2] = pid[2] /\ pid[2] = NoPid
      /\ (at' = "fg1" => pid'[1] # NoPid)
  BY <1>1, <1>3, <1>4 DEF ShellInv, LocalsOK
<1>6. LocalsOK'
  BY <1>1, <1>3, <1>4, <1>5 DEF ShellInv, LocalsOK
<1>7. ForegroundOK'
  BY <1>1, <1>3 DEF ShellInv, ForegroundOK, Waited
<1>8. ShellTable'
  <2>1. /\ \A fd \in Standard : fdTable'[Shell][fd] # Null
        /\ \A fd \in FDs \ Standard : fdTable'[Shell][fd] # Null => fd \in HeldFds
        /\ at' # "start" /\ at \in PipeOpen
    BY <1>1, <1>3 DEF ShellInv, ShellTable, PipeOpen
  <2>2. /\ childStdin' \notin Standard /\ pipeFds'[1] \notin Standard /\ pipeFds'[2] \notin Standard
        /\ ~TwoStages => pipeFds = <<-1, -1>>
        /\ pipeFds \in [1 .. 2 -> FDs \cup {-1}]
    BY <1>3 DEF ShellInv, ShellTable, LocalsOK
  <2>3. \A fd \in FDs \ Standard : fdTable'[Shell][fd] # Null => fd \in HeldFds'
    BY <1>3, <2>1, <2>2, Slots3 DEF HeldFds, PipeOpen
  <2>4. \A i \in 1 .. 2 : pipeFds'[i] # -1 =>
             fdTable'[Shell][pipeFds'[i]] # Null /\ file'[fdTable'[Shell][pipeFds'[i]]].pipe # 1
    <3>1. \A i \in 1 .. 2 : pipeFds[i] # -1 =>
             fdTable[Shell][pipeFds[i]] # Null /\ file[fdTable[Shell][pipeFds[i]]].pipe # 1
      BY <2>1 DEF ShellInv, ShellTable
    <3>. QED
      BY <1>3, <2>2, <3>1
  <2>. QED
    BY <2>1, <2>2, <2>3, <2>4 DEF ShellTable
<1>. QED
  BY <1>3, <1>6, <1>7, <1>8 DEF ShellInv

LEMMA Spawn2Keeps == ASSUME ShellInv, Spawn2 PROVE ShellInv'
<1>1. at = "spawn2" /\ runStage(2, SecondOverrides, "fg2", "closeR")
  BY DEF Spawn2
<1>2. SecondOverrides \in Seq(Override) /\ (line.background => TakesKeyboard(SecondOverrides))
  BY <1>1, SecondOverridesAre
<1>3. /\ Sound(Objects, {}, {})' /\ TablesOK' /\ WorldOK'
      /\ state'[Shell] = "ALIVE" /\ state'[INIT_PID] = "ALIVE"
      /\ fdTable'[Shell] = fdTable[Shell]
      /\ \A fd \in FDs : fdTable[Shell][fd] # Null =>
             file'[fdTable[Shell][fd]].pipe = file[fdTable[Shell][fd]].pipe
      /\ UNCHANGED <<line, childStdin, pipeFds, foregroundSet>> /\ DOMAIN kind' = Commands
      /\ \/ at' = "fg2" /\ \E c \in Commands : pid' = [pid EXCEPT ![2] = c]
         \/ at' \in {"closeR", "full"} /\ pid' = [pid EXCEPT ![2] = NoPid]
  <2> DEFINE overrides == SecondOverrides
  <2>1. runStage(2, overrides, "fg2", "closeR") /\ overrides \in Seq(Override) /\ 2 \in 1 .. 2
        /\ (line.background => TakesKeyboard(overrides))
    BY <1>1, <1>2
  <2> HIDE DEF overrides
  <2>. QED
    BY <2>1, runStageIs
<1>4. TwoStages' = TwoStages /\ NoPid \notin Commands /\ TwoStages
  BY <1>1, <1>3, SystemProcs DEF TwoStages, NoPid, ShellInv, LocalsOK
<1>5. pid' \in [1 .. 2 -> Commands \cup {NoPid}] /\ pid'[1] = pid[1] /\ pid[1] # NoPid
      /\ (at' = "fg2" => pid'[2] # NoPid)
  BY <1>1, <1>3, <1>4 DEF ShellInv, LocalsOK
<1>6. LocalsOK'
  BY <1>1, <1>3, <1>4, <1>5 DEF ShellInv, LocalsOK
<1>7. ForegroundOK'
  BY <1>1, <1>3, <1>5 DEF ShellInv, ForegroundOK, Waited
<1>8. ShellTable'
  <2>1. /\ \A fd \in Standard : fdTable'[Shell][fd] # Null
        /\ \A fd \in FDs \ Standard : fdTable'[Shell][fd] # Null => fd \in HeldFds
        /\ at' # "start" /\ at \in PipeOpen
    BY <1>1, <1>3 DEF ShellInv, ShellTable, PipeOpen
  <2>2. /\ childStdin' \notin Standard /\ pipeFds'[1] \notin Standard /\ pipeFds'[2] \notin Standard
        /\ ~TwoStages => pipeFds = <<-1, -1>>
        /\ pipeFds \in [1 .. 2 -> FDs \cup {-1}]
    BY <1>3 DEF ShellInv, ShellTable, LocalsOK
  <2>3. \A fd \in FDs \ Standard : fdTable'[Shell][fd] # Null => fd \in HeldFds'
    BY <1>3, <2>1, <2>2, Slots3 DEF HeldFds, PipeOpen
  <2>4. \A i \in 1 .. 2 : pipeFds'[i] # -1 =>
             fdTable'[Shell][pipeFds'[i]] # Null /\ file'[fdTable'[Shell][pipeFds'[i]]].pipe # 1
    <3>1. \A i \in 1 .. 2 : pipeFds[i] # -1 =>
             fdTable[Shell][pipeFds[i]] # Null /\ file[fdTable[Shell][pipeFds[i]]].pipe # 1
      BY <2>1 DEF ShellInv, ShellTable
    <3>. QED
      BY <1>3, <2>2, <3>1
  <2>. QED
    BY <2>1, <2>2, <2>3, <2>4 DEF ShellTable
<1>. QED
  BY <1>3, <1>6, <1>7, <1>8 DEF ShellInv

-----------------------------------------------------------------------------
(* The ends of the commands *)

\* The processes of S die.
LEMMA Died ==
    ASSUME ShellInv, NEW S, S \subseteq Commands, NEW h, Set(h), Sound(h, {}, {}), Alike(h.file, file),
           \A x \in Procs : h.fdTable[x] = IF x \in S THEN NoFds ELSE fdTable[x],
           state' \in [Procs -> {"FREE", "ALIVE", "ZOMBIE"}],
           \A x \in Procs : state'[x] = IF x \in S THEN "ZOMBIE" ELSE state[x],
           \A x \in Commands \ S : kind'[x] = kind[x]
    PROVE  /\ Sound(Objects, {}, {})' /\ TablesOK' /\ WorldOK'
           /\ state'[Shell] = "ALIVE" /\ state'[INIT_PID] = "ALIVE"
           /\ fdTable'[Shell] = fdTable[Shell]
           /\ \A fd \in FDs : fdTable[Shell][fd] # Null =>
                  file'[fdTable[Shell][fd]].pipe = file[fdTable[Shell][fd]].pipe
<1>1. Objects.fdTable = fdTable /\ Objects.file = file /\ Sound(Objects, {}, {})
  BY DEF Objects, ShellInv
<1>2. Keeps(Objects, h, S)
  BY <1>1, KeepsIf
<1>3. Shell \notin S /\ INIT_PID \notin S /\ Shell \in Procs /\ INIT_PID \in Procs
  BY SystemProcs
<1>4. \A fd \in FDs : Same(Objects, h, Shell, fd)
  BY <1>2, <1>3 DEF Keeps
<1>5. Sound(Objects, {}, {})' /\ fdTable' = h.fdTable /\ file' = h.file
  BY SetGives
<1>6. WorldOK'
  <2>1. \A c \in Commands : state'[c] = "ALIVE" /\ kind'[c].background =>
               \/ c \notin S /\ state[c] = "ALIVE" /\ kind[c].background
               \/ NoKeyboardIn(h.fdTable, h.file, c)
    BY SystemProcs
  <2>2. S \subseteq Commands \cup {Shell} /\ Same(Objects, h, Shell, STDOUT)
    BY <1>4, Slots3
  <2>. QED
    BY <1>2, <1>5, <2>1, <2>2, WorldStays
<1>7. TablesOK'
  BY <1>5 DEF ShellInv, TablesOK
<1>8. state'[Shell] = "ALIVE" /\ state'[INIT_PID] = "ALIVE"
  BY <1>3 DEF ShellInv
<1>. QED
  BY <1>1, <1>3, <1>4, <1>5, <1>6, <1>7, <1>8 DEF Same

\* The shell is where it was, and its descriptors too.
LEMMA ShellStays ==
    ASSUME ShellInv, UNCHANGED <<at, line, childStdin, pipeFds, pid>>,
           fdTable'[Shell] = fdTable[Shell],
           \A fd \in FDs : fdTable[Shell][fd] # Null =>
               file'[fdTable[Shell][fd]].pipe = file[fdTable[Shell][fd]].pipe,
           DOMAIN kind' = Commands, foregroundSet' \subseteq foregroundSet
    PROVE  LocalsOK' /\ ForegroundOK' /\ ShellTable'
<1>1. TwoStages' = TwoStages
  BY DEF TwoStages
<1>2. LocalsOK'
  BY <1>1 DEF ShellInv, LocalsOK
<1>3. ForegroundOK'
  BY DEF ShellInv, ForegroundOK, Waited
<1>4. ShellTable'
  <2>1. HeldFds' = HeldFds
    BY DEF HeldFds
  <2>2. /\ at' = "start" => \A fd \in FDs : fdTable'[Shell][fd] = IF fd = STDIN THEN 1 ELSE Null
        /\ at' # "start" => /\ \A fd \in Standard : fdTable'[Shell][fd] # Null
                            /\ \A fd \in FDs \ Standard : fdTable'[Shell][fd] # Null => fd \in HeldFds'
        /\ childStdin' \notin Standard /\ pipeFds'[1] \notin Standard /\ pipeFds'[2] \notin Standard
    BY <2>1 DEF ShellInv, ShellTable
  <2>3. ASSUME at' \in PipeOpen, NEW i \in 1 .. 2, pipeFds'[i] # -1
        PROVE  fdTable'[Shell][pipeFds'[i]] # Null /\ file'[fdTable'[Shell][pipeFds'[i]]].pipe # 1
    <3>1. fdTable[Shell][pipeFds[i]] # Null /\ file[fdTable[Shell][pipeFds[i]]].pipe # 1
      BY <2>3 DEF ShellInv, ShellTable
    <3>2. pipeFds[i] \in FDs
      BY <2>3 DEF ShellInv, LocalsOK
    <3>. QED
      BY <3>1, <3>2
  <2>. QED
    BY <2>2, <2>3 DEF ShellTable
<1>. QED
  BY <1>2, <1>3, <1>4

\* closeAllFDs on a dying command.
LEMMA DiedOne ==
    ASSUME ShellInv, NEW c \in Commands, Set(closeAllFDs(Objects, c)),
           state' = [state EXCEPT ![c] = "ZOMBIE"], kind' = [kind EXCEPT ![c] = NoKind]
    PROVE  /\ Sound(Objects, {}, {})' /\ TablesOK' /\ WorldOK'
           /\ state'[Shell] = "ALIVE" /\ state'[INIT_PID] = "ALIVE"
           /\ fdTable'[Shell] = fdTable[Shell]
           /\ \A fd \in FDs : fdTable[Shell][fd] # Null =>
                  file'[fdTable[Shell][fd]].pipe = file[fdTable[Shell][fd]].pipe
           /\ DOMAIN kind' = Commands
<1> DEFINE h == closeAllFDs(Objects, c)
           S == {c}
<1>1. Objects.fdTable = fdTable /\ Objects.file = file /\ fdTable \in [Procs -> [FDs -> Nat]] /\ c \in Procs
  BY SystemProcs DEF Objects, ShellInv, Sound, Shape
<1>2. Sound(h, {}, {}) /\ Emptied(Objects, c, h)
  BY <1>1, CloseAllSound DEF ShellInv
<1>3. Set(h)
  OBVIOUS
<1> HIDE DEF h
<1>4. Alike(h.file, file) /\ \A x \in Procs : h.fdTable[x] = IF x \in S THEN NoFds ELSE fdTable[x]
  BY <1>1, <1>2 DEF Emptied
<1>5. /\ S \subseteq Commands /\ state' \in [Procs -> {"FREE", "ALIVE", "ZOMBIE"}]
      /\ \A x \in Procs : state'[x] = IF x \in S THEN "ZOMBIE" ELSE state[x]
      /\ \A x \in Commands \ S : kind'[x] = kind[x]
  BY <1>1 DEF ShellInv, TablesOK, LocalsOK
<1>6. DOMAIN kind' = Commands
  BY DEF ShellInv, LocalsOK
<1> HIDE DEF S
<1>7. /\ Sound(Objects, {}, {})' /\ TablesOK' /\ WorldOK'
      /\ state'[Shell] = "ALIVE" /\ state'[INIT_PID] = "ALIVE"
      /\ fdTable'[Shell] = fdTable[Shell]
      /\ \A fd \in FDs : fdTable[Shell][fd] # Null =>
             file'[fdTable[Shell][fd]].pipe = file[fdTable[Shell][fd]].pipe
  BY <1>2, <1>3, <1>4, <1>5, Died
<1>. QED
  BY <1>6, <1>7

LEMMA ExitKeeps == ASSUME ShellInv, NEW c \in Commands, Exit(c) PROVE ShellInv'
<1>1. /\ Set(closeAllFDs(Objects, c)) /\ state' = [state EXCEPT ![c] = "ZOMBIE"]
      /\ kind' = [kind EXCEPT ![c] = NoKind] /\ foregroundSet' \subseteq foregroundSet
      /\ UNCHANGED <<at, line, childStdin, pipeFds, pid>>
  BY DEF Exit, Locals
<1>2. /\ Sound(Objects, {}, {})' /\ TablesOK' /\ WorldOK'
      /\ state'[Shell] = "ALIVE" /\ state'[INIT_PID] = "ALIVE"
      /\ fdTable'[Shell] = fdTable[Shell]
      /\ \A fd \in FDs : fdTable[Shell][fd] # Null =>
             file'[fdTable[Shell][fd]].pipe = file[fdTable[Shell][fd]].pipe
      /\ DOMAIN kind' = Commands
  BY <1>1, DiedOne
<1>3. LocalsOK' /\ ForegroundOK' /\ ShellTable'
  BY <1>1, <1>2, ShellStays
<1>. QED
  BY <1>2, <1>3 DEF ShellInv

LEMMA KillFirstKeeps == ASSUME ShellInv, KillFirst PROVE ShellInv'
<1>1. /\ Set(closeAllFDs(Objects, pid[1])) /\ state' = [state EXCEPT ![pid[1]] = "ZOMBIE"]
      /\ kind' = [kind EXCEPT ![pid[1]] = NoKind] /\ foregroundSet' \subseteq foregroundSet
      /\ at = "kill1" /\ at' = "wait1" /\ UNCHANGED <<line, childStdin, pipeFds, pid>>
  BY DEF KillFirst, Locals, Go
<1>2. pid[1] \in Commands
  BY <1>1 DEF ShellInv, LocalsOK
<1>3. /\ Sound(Objects, {}, {})' /\ TablesOK' /\ WorldOK'
      /\ state'[Shell] = "ALIVE" /\ state'[INIT_PID] = "ALIVE"
      /\ fdTable'[Shell] = fdTable[Shell]
      /\ \A fd \in FDs : fdTable[Shell][fd] # Null =>
             file'[fdTable[Shell][fd]].pipe = file[fdTable[Shell][fd]].pipe
      /\ DOMAIN kind' = Commands
  BY <1>1, <1>2, DiedOne
<1>4. TwoStages' = TwoStages
  BY <1>1 DEF TwoStages
<1>5. LocalsOK'
  BY <1>1, <1>3, <1>4 DEF ShellInv, LocalsOK
<1>6. ForegroundOK'
  BY <1>1 DEF ShellInv, ForegroundOK, Waited
<1>7. ShellTable'
  BY <1>1, <1>3 DEF ShellInv, ShellTable, HeldFds, PipeOpen
<1>. QED
  BY <1>3, <1>5, <1>6, <1>7 DEF ShellInv

\* Every process of a finite set has its turn.
LEMMA InOrderIs ==
    ASSUME NEW S, IsFiniteSet(S)
    PROVE  /\ Cardinality(S) \in Nat /\ InOrder(S) \in [1 .. Cardinality(S) -> S]
           /\ \A i \in 1 .. Cardinality(S) : InOrder(S)[i] \in S
           /\ \A x \in S : \E i \in 1 .. Cardinality(S) : InOrder(S)[i] = x
<1> DEFINE n == Cardinality(S)
<1>1. n \in Nat /\ \E f : f \in Bijection(1 .. n, S)
  BY FS_CardinalityType DEF ExistsBijection
<1>2. PICK f : f \in Bijection(1 .. n, S)
  BY <1>1
<1>3. f \in [1 .. n -> S] /\ \A x \in S : \E i \in 1 .. n : f[i] = x
  BY <1>2 DEF Bijection, Surjection
<1> HIDE DEF n
<1>4. Range(f) = S
  BY <1>3 DEF Range
<1> DEFINE o == CHOOSE s \in [1 .. n -> S] : Range(s) = S
<1>5. o \in [1 .. n -> S] /\ Range(o) = S
  BY <1>3, <1>4
<1>6. o = InOrder(S)
  BY DEF InOrder, n
<1> HIDE DEF o
<1>7. \A x \in S : \E i \in 1 .. n : o[i] = x
  BY <1>5 DEF Range
<1>. QED
  BY <1>1, <1>5, <1>6, <1>7 DEF n

\* They close their descriptors one after the other.
LEMMA CloseOfAllSteps ==
    ASSUME NEW h, NEW S, Cardinality(S) \in Nat
    PROVE  \E g : /\ closeFdsOfAll(h, S) = g[Cardinality(S)] /\ g[0] = h
                  /\ \A i \in 1 .. Cardinality(S) : g[i] = closeAllFDs(g[i - 1], InOrder(S)[i])
<1> DEFINE Rec(n, k) == k = [i \in 0 .. n |-> IF i = 0 THEN h ELSE closeAllFDs(k[i - 1], InOrder(S)[i])]
           T == {n \in Nat : ~\E k : Rec(n, k)}
<1>1. T = {}
  <2> SUFFICES ASSUME T # {} PROVE FALSE
    OBVIOUS
  <2>1. PICK n \in T : \A m \in T : n <= m
    <3>1. T \in SUBSET Nat
      OBVIOUS
    <3> HIDE DEF T
    <3>. QED
      BY <3>1, LeastNatural
  <2>2. Rec(0, [i \in 0 .. 0 |-> h])
    OBVIOUS
  <2>3. n # 0 /\ n \in Nat
    BY <2>2
  <2>4. n - 1 \in Nat /\ n - 1 \notin T
    <3> HIDE DEF T
    <3>. QED
      BY <2>1, <2>3
  <2>5. PICK k : Rec(n - 1, k)
    BY <2>4
  <2> DEFINE j == [i \in 0 .. n |-> IF i = n THEN closeAllFDs(k[n - 1], InOrder(S)[n]) ELSE k[i]]
  <2>6. ASSUME NEW i \in 0 .. n
        PROVE  j[i] = IF i = 0 THEN h ELSE closeAllFDs(j[i - 1], InOrder(S)[i])
    <3>1. CASE i = n
      <4>1. j[i - 1] = k[n - 1]
        BY <2>3, <3>1
      <4>. QED
        BY <2>3, <3>1, <4>1
    <3>2. CASE i # n
      <4>1. i \in 0 .. n - 1
        BY <2>3, <3>2
      <4>2. k[i] = IF i = 0 THEN h ELSE closeAllFDs(k[i - 1], InOrder(S)[i])
        BY <2>5, <4>1
      <4>3. i # 0 => j[i - 1] = k[i - 1]
        BY <2>3, <3>2
      <4>. QED
        BY <3>2, <4>2, <4>3
    <3>. QED
      BY <3>1, <3>2
  <2>7. j = [i \in 0 .. n |-> j[i]]
    OBVIOUS
  <2> HIDE DEF j
  <2>8. Rec(n, j)
    BY <2>6, <2>7
  <2>. QED
    BY <2>1, <2>8
<1>2. \E k : Rec(Cardinality(S), k)
  BY <1>1
<1> DEFINE g == CHOOSE k : Rec(Cardinality(S), k)
<1>3. Rec(Cardinality(S), g)
  BY <1>2
<1>4. closeFdsOfAll(h, S) = g[Cardinality(S)]
  BY DEF closeFdsOfAll
<1> HIDE DEF g
<1>5. g[0] = h /\ \A i \in 1 .. Cardinality(S) : g[i] = closeAllFDs(g[i - 1], InOrder(S)[i])
  BY <1>3
<1>. QED
  BY <1>4, <1>5

\* In the end none of them has a descriptor, and the others have theirs.
LEMMA CloseOfAllSound ==
    ASSUME NEW h, Sound(h, {}, {}), NEW S, S \subseteq Procs, IsFiniteSet(S)
    PROVE  /\ Sound(closeFdsOfAll(h, S), {}, {}) /\ Shrinks(h, closeFdsOfAll(h, S))
           /\ \A x \in Procs : closeFdsOfAll(h, S).fdTable[x] = IF x \in S THEN NoFds ELSE h.fdTable[x]
<1> DEFINE N == Cardinality(S)
           o == InOrder(S)
           Done(i, x) == \E j \in 1 .. i : o[j] = x
<1>1. /\ N \in Nat /\ \A i \in 1 .. N : o[i] \in S
      /\ \A x \in S : \E i \in 1 .. N : o[i] = x
  BY InOrderIs
<1>2. PICK g : /\ closeFdsOfAll(h, S) = g[N] /\ g[0] = h
               /\ \A i \in 1 .. N : g[i] = closeAllFDs(g[i - 1], o[i])
  BY <1>1, CloseOfAllSteps
<1> HIDE DEF N, o
<1> DEFINE Good == {i \in 0 .. N : /\ Sound(g[i], {}, {}) /\ Shrinks(h, g[i])
                                   /\ \A x \in Procs : g[i].fdTable[x] = IF Done(i, x) THEN NoFds ELSE h.fdTable[x]}
<1>3. 0 \in Good
  <2>1. \A x \in Procs : ~Done(0, x)
    OBVIOUS
  <2>. QED
    BY <1>1, <1>2, <2>1 DEF Shrinks, Alike
<1>4. ASSUME NEW i \in 1 .. N, i - 1 \in Good
      PROVE  i \in Good
  <2> DEFINE a == g[i - 1]
             c == g[i]
             p == o[i]
  <2>1. /\ Sound(a, {}, {}) /\ Shrinks(h, a) /\ c = closeAllFDs(a, p) /\ p \in Procs
        /\ \A x \in Procs : a.fdTable[x] = IF Done(i - 1, x) THEN NoFds ELSE h.fdTable[x]
    BY <1>1, <1>2, <1>4
  <2>2. \A x : Done(i, x) <=> Done(i - 1, x) \/ x = p
    <3>1. \A j \in 1 .. i : j = i \/ j \in 1 .. i - 1
      BY <1>1
    <3>2. i \in 1 .. i /\ \A j \in 1 .. i - 1 : j \in 1 .. i
      BY <1>1
    <3>. QED
      BY <3>1, <3>2
  <2> HIDE DEF a, c, p
  <2>3. Sound(c, {}, {}) /\ Emptied(a, p, c)
    BY <2>1, CloseAllSound
  <2>4. Shrinks(h, c)
    <3>1. Shrinks(a, c)
      BY <2>3 DEF Emptied, Shrinks
    <3>. QED
      BY <2>1, <3>1, ShrinksOn
  <2> HIDE DEF Done
  <2>5. \A x \in Procs : c.fdTable[x] = IF Done(i, x) THEN NoFds ELSE h.fdTable[x]
    <3>1. a.fdTable \in [Procs -> [FDs -> Nat]]
      BY <2>1 DEF Sound, Shape
    <3>2. \A x \in Procs : c.fdTable[x] = IF x = p THEN NoFds ELSE a.fdTable[x]
      BY <2>1, <2>3, <3>1 DEF Emptied
    <3>. QED
      BY <2>1, <2>2, <3>2
  <2>. QED
    BY <1>1, <2>3, <2>4, <2>5 DEF c
<1> HIDE DEF Good
<1>5. N \in Good
  BY <1>1, <1>3, <1>4, Steps
<1>6. /\ Sound(g[N], {}, {}) /\ Shrinks(h, g[N])
      /\ \A x \in Procs : g[N].fdTable[x] = IF Done(N, x) THEN NoFds ELSE h.fdTable[x]
  BY <1>5 DEF Good
<1>7. \A x : Done(N, x) <=> x \in S
  BY <1>1
<1>. QED
  BY <1>2, <1>6, <1>7

LEMMA CtrlCKeeps == ASSUME ShellInv, CtrlC PROVE ShellInv'
<1> DEFINE S == foregroundSet
           h == closeFdsOfAll(Objects, S)
<1>1. /\ Set(h) /\ foregroundSet' = {} /\ UNCHANGED <<at, line, childStdin, pipeFds, pid>>
      /\ state' = [p \in Procs |-> IF p \in S THEN "ZOMBIE" ELSE state[p]]
      /\ kind' = [c \in Commands |-> IF c \in S THEN NoKind ELSE kind[c]]
  BY DEF CtrlC, Locals
<1>2. S \subseteq Commands /\ S \subseteq Procs /\ IsFiniteSet(S)
  <2>1. S \subseteq Commands /\ S \subseteq Procs
    BY SystemProcs DEF ShellInv, ForegroundOK
  <2>2. IsFiniteSet(S)
    BY <2>1, SystemProcs, FS_Subset
  <2>. QED
    BY <2>1, <2>2
<1>3. Objects.fdTable = fdTable /\ Objects.file = file /\ Sound(Objects, {}, {})
  BY DEF Objects, ShellInv
<1> HIDE DEF S
<1>h. h = closeFdsOfAll(Objects, S)
  OBVIOUS
<1> HIDE DEF h
<1>4. /\ Sound(h, {}, {}) /\ Shrinks(Objects, h)
      /\ \A x \in Procs : h.fdTable[x] = IF x \in S THEN NoFds ELSE fdTable[x]
  BY <1>2, <1>3, <1>h, CloseOfAllSound
<1>5. /\ state' \in [Procs -> {"FREE", "ALIVE", "ZOMBIE"}]
      /\ \A x \in Procs : state'[x] = IF x \in S THEN "ZOMBIE" ELSE state[x]
      /\ \A x \in Commands \ S : kind'[x] = kind[x]
      /\ DOMAIN kind' = Commands
  BY <1>1 DEF ShellInv, TablesOK
<1>6. /\ Sound(Objects, {}, {})' /\ TablesOK' /\ WorldOK'
      /\ state'[Shell] = "ALIVE" /\ state'[INIT_PID] = "ALIVE"
      /\ fdTable'[Shell] = fdTable[Shell]
      /\ \A fd \in FDs : fdTable[Shell][fd] # Null =>
             file'[fdTable[Shell][fd]].pipe = file[fdTable[Shell][fd]].pipe
  <2>1. Alike(h.file, file)
    BY <1>3, <1>4 DEF Shrinks
  <2>. QED
    BY <1>1, <1>2, <1>4, <1>5, <2>1, Died
<1>7. LocalsOK' /\ ForegroundOK' /\ ShellTable'
  <2>1. foregroundSet' \subseteq foregroundSet
    BY <1>1
  <2>. QED
    BY <1>1, <1>5, <1>6, <2>1, ShellStays
<1>. QED
  BY <1>6, <1>7 DEF ShellInv

-----------------------------------------------------------------------------
(* The queue of the dead *)

LEMMA InOrderOnce ==
    ASSUME NEW S, S \subseteq Commands, IsFiniteSet(S)
    PROVE  /\ InOrder(S) \in Seq(Commands) /\ Len(InOrder(S)) = Cardinality(S)
           /\ \A c : isIn(c, InOrder(S)) <=> c \in S
           /\ noRepeats(InOrder(S))
<1> DEFINE n == Cardinality(S)
           o == InOrder(S)
<1>1. /\ n \in Nat /\ o \in [1 .. n -> S]
      /\ \A x \in S : \E i \in 1 .. n : o[i] = x
  BY InOrderIs
<1>2. Cardinality(1 .. n) = n /\ IsFiniteSet(1 .. n)
  BY <1>1, FS_Interval
<1>n. n = Cardinality(S)
  OBVIOUS
<1> HIDE DEF n, o
<1>3. o \in Surjection(1 .. n, S)
  BY <1>1 DEF Surjection
<1>4. o \in Injection(1 .. n, S)
  BY <1>2, <1>3, <1>n, FS_SurjSameCardinalityImpliesInj
<1>5. noRepeats(o)
  <2>1. DOMAIN o = 1 .. n
    BY <1>1
  <2>2. \A i, j \in 1 .. n : o[i] = o[j] => i = j
    BY <1>4, <2>1 DEF Injection, IsInjective
  <2>. QED
    BY <2>1, <2>2 DEF noRepeats
<1>6. o \in Seq(Commands) /\ Len(o) = n
  BY <1>1
<1>7. \A c : isIn(c, o) <=> c \in S
  BY <1>1 DEF isIn
<1>. QED
  BY <1>5, <1>6, <1>7 DEF n, o

LEMMA Joined ==
    ASSUME NEW D, NEW q \in Seq(D), NEW o \in Seq(D)
    PROVE  /\ q \o o \in Seq(D) /\ Len(q \o o) = Len(q) + Len(o)
           /\ \A c : isIn(c, q \o o) <=> isIn(c, q) \/ isIn(c, o)
           /\ noRepeats(q) /\ noRepeats(o) /\ (\A c : ~(isIn(c, q) /\ isIn(c, o))) => noRepeats(q \o o)
<1> DEFINE r == q \o o
<1>1. /\ r \in Seq(D) /\ Len(q) \in Nat /\ Len(o) \in Nat /\ Len(r) = Len(q) + Len(o)
      /\ DOMAIN r = 1 .. Len(q) + Len(o) /\ DOMAIN q = 1 .. Len(q) /\ DOMAIN o = 1 .. Len(o)
      /\ \A i \in 1 .. Len(q) + Len(o) : r[i] = IF i <= Len(q) THEN q[i] ELSE o[i - Len(q)]
  BY ConcatProperties, LenProperties
<1> HIDE DEF r
<1>2. ASSUME NEW c PROVE isIn(c, r) <=> isIn(c, q) \/ isIn(c, o)
  <2>1. ASSUME NEW i \in 1 .. Len(q), q[i] = c PROVE isIn(c, r)
    <3>1. i \in DOMAIN r /\ r[i] = c
      BY <1>1, <2>1
    <3>. QED
      BY <3>1 DEF isIn
  <2>2. ASSUME NEW i \in 1 .. Len(o), o[i] = c PROVE isIn(c, r)
    <3>1. /\ Len(q) + i \in 1 .. Len(q) + Len(o) /\ ~(Len(q) + i <= Len(q))
          /\ (Len(q) + i) - Len(q) = i
      BY <1>1, <2>2
    <3>2. Len(q) + i \in DOMAIN r /\ r[Len(q) + i] = c
      BY <1>1, <2>2, <3>1
    <3>. QED
      BY <3>2 DEF isIn
  <2>3. ASSUME NEW i \in DOMAIN r, r[i] = c PROVE isIn(c, q) \/ isIn(c, o)
    <3>1. CASE i <= Len(q)
      BY <1>1, <2>3, <3>1 DEF isIn
    <3>2. CASE ~(i <= Len(q))
      <4>1. i - Len(q) \in DOMAIN o /\ o[i - Len(q)] = c
        BY <1>1, <2>3, <3>2
      <4>. QED
        BY <4>1 DEF isIn
    <3>. QED
      BY <3>1, <3>2
  <2>. QED
    BY <1>1, <2>1, <2>2, <2>3 DEF isIn
<1>3. ASSUME noRepeats(q), noRepeats(o), \A c : ~(isIn(c, q) /\ isIn(c, o))
      PROVE  noRepeats(r)
  <2> SUFFICES ASSUME NEW i \in DOMAIN r, NEW j \in DOMAIN r, r[i] = r[j]
               PROVE  i = j
    BY DEF noRepeats
  <2>1. CASE i <= Len(q) /\ j <= Len(q)
    BY <1>1, <1>3, <2>1 DEF noRepeats
  <2>2. CASE ~(i <= Len(q)) /\ ~(j <= Len(q))
    <3>1. i - Len(q) \in DOMAIN o /\ j - Len(q) \in DOMAIN o /\ o[i - Len(q)] = o[j - Len(q)]
      BY <1>1, <2>2
    <3>2. i - Len(q) = j - Len(q)
      BY <1>3, <3>1 DEF noRepeats
    <3>. QED
      BY <1>1, <3>2
  <2>3. ASSUME NEW x \in DOMAIN r, NEW y \in DOMAIN r, r[x] = r[y], x <= Len(q), ~(y <= Len(q))
        PROVE  FALSE
    <3>1. x \in DOMAIN q /\ q[x] = r[x] /\ y - Len(q) \in DOMAIN o /\ o[y - Len(q)] = r[x]
      BY <1>1, <2>3
    <3>2. isIn(r[x], q) /\ isIn(r[x], o)
      BY <3>1 DEF isIn
    <3>. QED
      BY <1>3, <3>2
  <2>. QED
    BY <2>1, <2>2, <2>3
<1>. QED
  BY <1>1, <1>2, <1>3 DEF r

LEMMA RemovalShortensAny ==
    ASSUME NEW D, NEW q \in Seq(D), NEW e, isIn(e, q)
    PROVE  Len(removeFromQueue(q, e)) \in Nat /\ Len(removeFromQueue(q, e)) + 1 <= Len(q)
<1> DEFINE S == keptPositions(q, e)
<1>1. Len(q) \in Nat /\ DOMAIN q = 1 .. Len(q)
  BY LenProperties
<1>2. IsFiniteSet(1 .. Len(q)) /\ Cardinality(1 .. Len(q)) = Len(q)
  BY <1>1, FS_Interval
<1>3. S \subseteq 1 .. Len(q) /\ S # 1 .. Len(q)
  BY <1>1 DEF keptPositions, isIn
<1> HIDE DEF S
<1>4. Cardinality(S) \in Nat /\ Cardinality(S) + 1 <= Len(q)
  <2>1. IsFiniteSet(S) /\ Cardinality(S) <= Len(q) /\ Cardinality(S) # Len(q)
    BY <1>2, <1>3, FS_Subset
  <2>2. Cardinality(S) \in Nat
    BY <2>1, FS_CardinalityType
  <2>. QED
    BY <1>1, <2>1, <2>2
<1>5. Len(removeFromQueue(q, e)) = Cardinality(S)
  BY <1>4 DEF removeFromQueue, S
<1>. QED
  BY <1>4, <1>5

\* Nobody dies and nobody is reaped.
LEMMA DeathsStay ==
    ASSUME DeathsOK, UNCHANGED deaths, at' # "halted" \/ at' = at,
           \A c \in Commands : state'[c] = "ZOMBIE" <=> state[c] = "ZOMBIE"
    PROVE  DeathsOK'
<1>1. UNCHANGED <<terminatedChildren, childTerminated, diedTwice>>
  BY DEF deaths
<1>. QED
  BY <1>1 DEF DeathsOK, DeathsCounted

\* The processes of S die, for the second time perhaps.
LEMMA DeathsAnnounced ==
    ASSUME DeathsOK, NEW S, S \subseteq Commands, IsFiniteSet(S), Announced(S),
           at' # "halted" \/ at' = at,
           \A c \in Commands : state'[c] = "ZOMBIE" <=> c \in S \/ state[c] = "ZOMBIE"
    PROVE  DeathsOK'
<1> DEFINE q == terminatedChildren
           o == InOrder(S)
<1>1. /\ q \in Seq(Commands) /\ o \in Seq(Commands) /\ Len(o) = Cardinality(S) /\ noRepeats(o)
      /\ \A c : isIn(c, o) <=> c \in S
  BY InOrderOnce DEF DeathsOK
<1>2. /\ q' = q \o o /\ childTerminated' = childTerminated + Len(o)
      /\ diedTwice' = (diedTwice \/ \E p \in S : state[p] = "ZOMBIE")
  BY <1>1 DEF Announced
<1>3. /\ Len(q) \in Nat /\ Len(o) \in Nat /\ childTerminated \in Nat /\ Len(q) <= childTerminated
      /\ \A c \in Commands : isIn(c, q) <=> state[c] = "ZOMBIE"
      /\ ~diedTwice => childTerminated = Len(q) /\ noRepeats(q) /\ at # "halted"
  BY <1>1, LenProperties DEF DeathsOK, DeathsCounted
<1> HIDE DEF q, o
<1>4. /\ q' \in Seq(Commands) /\ Len(q') = Len(q) + Len(o)
      /\ \A c : isIn(c, q') <=> isIn(c, q) \/ isIn(c, o)
      /\ noRepeats(q) /\ noRepeats(o) /\ (\A c : ~(isIn(c, q) /\ isIn(c, o))) => noRepeats(q')
  BY <1>1, <1>2, Joined
<1>5. /\ childTerminated' \in Nat /\ Len(q') <= childTerminated'
      /\ \A c \in Commands : isIn(c, q') <=> state'[c] = "ZOMBIE"
  <2>1. childTerminated' \in Nat /\ Len(q') <= childTerminated'
    BY <1>2, <1>3, <1>4
  <2>2. \A c \in Commands : isIn(c, q') <=> state[c] = "ZOMBIE" \/ c \in S
    BY <1>1, <1>3, <1>4
  <2>. QED
    BY <2>1, <2>2
<1>6. ASSUME ~diedTwice' PROVE childTerminated' = Len(q') /\ noRepeats(q') /\ at' # "halted"
  <2>1. ~diedTwice /\ \A p \in S : state[p] # "ZOMBIE"
    BY <1>2, <1>6
  <2>2. \A c : ~(isIn(c, q) /\ isIn(c, o))
    BY <1>1, <1>3, <2>1
  <2>. QED
    BY <1>1, <1>2, <1>3, <1>4, <2>1, <2>2
<1>7. diedTwice' \in BOOLEAN
  BY <1>2
<1>. QED
  BY <1>4, <1>5, <1>6, <1>7 DEF DeathsOK, DeathsCounted, q

LEMMA DeathsTaken ==
    ASSUME DeathsOK, ShellInv, NEW c \in Commands, state[c] = "ZOMBIE", Taken(c), UNCHANGED diedTwice,
           state' = [state EXCEPT ![c] = "FREE"], at' # "halted"
    PROVE  DeathsOK'
<1> DEFINE q == terminatedChildren
           r == removeFromQueue(q, c)
<1>1. /\ q \in Seq(Commands) /\ isIn(c, q) /\ childTerminated \in Nat /\ Len(q) <= childTerminated
      /\ \A d \in Commands : isIn(d, q) <=> state[d] = "ZOMBIE"
      /\ diedTwice \in BOOLEAN /\ Len(q) \in Nat
      /\ ~diedTwice => childTerminated = Len(q) /\ noRepeats(q) /\ at # "halted"
  BY LenProperties DEF DeathsOK, DeathsCounted
<1>2. /\ r \in Seq(Commands) /\ \A d : isIn(d, r) <=> isIn(d, q) /\ d # c
      /\ noRepeats(q) => noRepeats(r)
  BY <1>1, RemoveFromQueueProperties
<1>3. Len(r) \in Nat /\ Len(r) + 1 <= Len(q) /\ (noRepeats(q) => Len(r) = Len(q) - 1)
  BY <1>1, RemovalShortensAny, RemovalShortens
<1>4. q' = r /\ childTerminated' = IF childTerminated > 0 THEN childTerminated - 1 ELSE 0
  BY DEF Taken
<1> HIDE DEF q, r
<1>5. \A d \in Commands : state'[d] = "ZOMBIE" <=> state[d] = "ZOMBIE" /\ d # c
  BY SystemProcs DEF ShellInv, TablesOK
<1>6. /\ q' \in Seq(Commands) /\ childTerminated' \in Nat /\ Len(q') <= childTerminated'
      /\ \A d \in Commands : isIn(d, q') <=> state'[d] = "ZOMBIE"
  BY <1>1, <1>2, <1>3, <1>4, <1>5
<1>7. ~diedTwice => childTerminated' = Len(q') /\ noRepeats(q') /\ at' # "halted"
  BY <1>1, <1>2, <1>3, <1>4
<1>. QED
  BY <1>1, <1>6, <1>7 DEF DeathsOK, DeathsCounted, q

LEMMA DeathsPolled == ASSUME ShellInv, DeathsOK, ReadLine PROVE DeathsOK'
<1> DEFINE q == terminatedChildren
<1>1. /\ q \in Seq(Commands) /\ childTerminated \in Nat /\ Len(q) <= childTerminated /\ Len(q) \in Nat
      /\ DOMAIN q = 1 .. Len(q) /\ diedTwice \in BOOLEAN
      /\ ~diedTwice => childTerminated = Len(q)
      /\ \A c \in Commands : isIn(c, q) <=> state[c] = "ZOMBIE"
  BY LenProperties DEF DeathsOK, DeathsCounted
<1>2. /\ q' = SubSeq(q, childTerminated + 1, Len(q)) /\ childTerminated' = 0
      /\ state' = [p \in Procs |-> IF p \in Polled THEN "FREE" ELSE state[p]]
  BY DEF ReadLine
<1>h. \/ childTerminated > Len(q) /\ diedTwice' = diedTwice
      \/ at' \in {"reopen", "full"} /\ diedTwice' = FALSE
  <2>1. CASE TokenWithoutEntry /\ Go("halted") /\ UNCHANGED <<line, diedTwice>>
    BY <2>1 DEF TokenWithoutEntry
  <2>2. CASE ~TokenWithoutEntry /\ Says("reopen") /\ line' \in Lines /\ diedTwice' = FALSE
    BY <2>2 DEF Says
  <2>. QED
    BY <2>1, <2>2 DEF ReadLine
<1>z. Polled = {q[i] : i \in {j \in DOMAIN q : j <= childTerminated}}
  BY DEF Polled
<1>n. childTerminated \in Nat /\ Len(q) <= childTerminated /\ Len(q) \in Nat /\ DOMAIN q = 1 .. Len(q)
  BY <1>1
<1> HIDE DEF q
<1>3. q' = <<>>
  <2>1. childTerminated + 1 \in Int /\ Len(q) \in Int /\ Len(q) < childTerminated + 1
    BY <1>n
  <2>2. SubSeq(q, childTerminated + 1, Len(q)) = <<>>
    BY <2>1, SubSeqEmpty
  <2>. QED
    BY <1>2, <2>2
<1>4. \A c \in Commands : state'[c] # "ZOMBIE"
  <2>1. \A i \in DOMAIN q : q[i] \in Polled
    BY <1>n, <1>z
  <2>2. \A c \in Commands : state[c] = "ZOMBIE" => c \in Polled
    BY <1>1, <2>1 DEF isIn
  <2>. QED
    BY <1>2, <2>2, SystemProcs
<1>5. /\ q' \in Seq(Commands) /\ Len(q') = 0 /\ noRepeats(q') /\ \A c : ~isIn(c, q')
  BY <1>3, EmptyQueue
<1>6. diedTwice' \in BOOLEAN /\ (~diedTwice' => at' # "halted")
  <2>1. diedTwice \in BOOLEAN /\ (childTerminated > Len(q) => diedTwice)
    <3>1. ASSUME childTerminated > Len(q)
          PROVE  childTerminated # Len(q)
      <4>1. Len(q) \in Int /\ childTerminated \in Int
        BY <1>n
      <4>. QED
        BY <3>1, <4>1
    <3>. QED
      BY <1>1, <3>1, Zenon
  <2>2. at' \in {"reopen", "full"} => at' # "halted"
    OBVIOUS
  <2>. QED
    BY <1>h, <2>1, <2>2, Zenon
<1>. QED
  BY <1>2, <1>4, <1>5, <1>6 DEF DeathsOK, DeathsCounted, q

-----------------------------------------------------------------------------
(* The launch of the terminal *)

\* g is h after a call of the shell that allocates nothing.
Called(h, g) ==
    /\ Sound(g, {}, {}) /\ Shrinks(h, g) /\ \A x \in Procs \ {Shell} : g.fdTable[x] = h.fdTable[x]

LEMMA CalledOn ==
    ASSUME NEW h, NEW g, NEW k, Called(h, g), Called(g, k)
    PROVE  Called(h, k)
  BY ShrinksOn DEF Called

LEMMA DupRow ==
    ASSUME NEW h, Sound(h, {}, {}), NEW old \in FDs, NEW new \in FDs, old # new
    PROVE  /\ Called(h, dupFd(h, Shell, old, new))
           /\ \A fd \in FDs : dupFd(h, Shell, old, new).fdTable[Shell][fd] =
                              IF fd = new THEN h.fdTable[Shell][old] ELSE h.fdTable[Shell][fd]
<1> DEFINE g == dupFd(h, Shell, old, new)
<1>1. Sound(g, {}, {}) /\ Duplicated(h, Shell, old, new, g)
  BY DupFdSound, SystemProcs
<1> HIDE DEF g
<1>2. g.fdTable = SetSlot(h.fdTable, Shell, new, h.fdTable[Shell][old]) /\ Shrinks(h, g)
  BY <1>1 DEF Duplicated, Shrinks
<1>3. h.fdTable \in [Procs -> [FDs -> Nat]]
  BY DEF Sound, Shape
<1>4. /\ \A x \in Procs \ {Shell} : g.fdTable[x] = h.fdTable[x]
      /\ \A fd \in FDs : g.fdTable[Shell][fd] = IF fd = new THEN h.fdTable[Shell][old] ELSE h.fdTable[Shell][fd]
  BY <1>2, <1>3, SystemProcs DEF SetSlot
<1>. QED
  BY <1>1, <1>2, <1>4 DEF Called, g

LEMMA CloseRow ==
    ASSUME NEW h, Sound(h, {}, {}), NEW old \in FDs
    PROVE  /\ Called(h, closeFd(h, Shell, old))
           /\ \A fd \in FDs : closeFd(h, Shell, old).fdTable[Shell][fd] =
                              IF fd = old THEN Null ELSE h.fdTable[Shell][fd]
<1> DEFINE g == closeFd(h, Shell, old)
<1>1. Sound(g, {}, {}) /\ Closed(h, Shell, old, g)
  <2>1. old \in FDs => h.fdTable[Shell][old] \notin {}
    OBVIOUS
  <2>. QED
    BY <2>1, CloseFdSound, SystemProcs
<1> HIDE DEF g
<1>2. g.fdTable = SetSlot(h.fdTable, Shell, old, Null) /\ Shrinks(h, g)
  BY <1>1 DEF Closed, Shrinks
<1>3. h.fdTable \in [Procs -> [FDs -> Nat]]
  BY DEF Sound, Shape
<1>4. /\ \A x \in Procs \ {Shell} : g.fdTable[x] = h.fdTable[x]
      /\ \A fd \in FDs : g.fdTable[Shell][fd] = IF fd = old THEN Null ELSE h.fdTable[Shell][fd]
  BY <1>2, <1>3, SystemProcs DEF SetSlot
<1>. QED
  BY <1>1, <1>2, <1>4 DEF Called, g

\* The shell's descriptors when the pipe is open, and once it is wired.
Opening(h, r, w, f, g) ==
    \A fd \in FDs : h.fdTable[Shell][fd] = IF fd \in Standard THEN 1 ELSE IF fd = r THEN f
                                          ELSE IF fd = w THEN g ELSE Null
Wired(h, r, f, g) ==
    \A fd \in FDs : h.fdTable[Shell][fd] = IF fd = STDIN THEN 1 ELSE IF fd \in Standard THEN g
                                          ELSE IF fd = r THEN f ELSE Null

\* The write end becomes STDOUT and STDERR.
LEMMA WiredIs ==
    ASSUME NEW h, Sound(h, {}, {}), NEW r \in FDs \ Standard, NEW w \in FDs \ Standard, r # w,
           NEW f, NEW g, Opening(h, r, w, f, g),
           NEW k, k = closeFd(dupFd(dupFd(h, Shell, w, STDOUT), Shell, w, STDERR), Shell, w)
    PROVE  Called(h, k) /\ Wired(k, r, f, g)
<1> DEFINE b == dupFd(h, Shell, w, STDOUT)
           c == dupFd(b, Shell, w, STDERR)
<1>1. w \in FDs /\ STDOUT \in FDs /\ STDERR \in FDs /\ w # STDOUT /\ w # STDERR /\ STDOUT # STDERR
      /\ STDIN \in FDs /\ STDIN # STDOUT /\ STDIN # STDERR
  BY Slots3 DEF Standard
<1>2. /\ Called(h, b)
      /\ \A fd \in FDs : b.fdTable[Shell][fd] = IF fd = STDOUT THEN h.fdTable[Shell][w] ELSE h.fdTable[Shell][fd]
  BY <1>1, DupRow
<1>k. k = closeFd(c, Shell, w)
  OBVIOUS
<1>c. c = dupFd(b, Shell, w, STDERR)
  OBVIOUS
<1> HIDE DEF b, c
<1>3. /\ Called(b, c)
      /\ \A fd \in FDs : c.fdTable[Shell][fd] = IF fd = STDERR THEN b.fdTable[Shell][w] ELSE b.fdTable[Shell][fd]
  <2>1. Sound(b, {}, {})
    BY <1>2 DEF Called
  <2>. QED
    BY <1>1, <1>c, <2>1, DupRow
<1>4. /\ Called(c, k)
      /\ \A fd \in FDs : k.fdTable[Shell][fd] = IF fd = w THEN Null ELSE c.fdTable[Shell][fd]
  <2>1. Sound(c, {}, {})
    BY <1>3 DEF Called
  <2>. QED
    BY <1>1, <1>k, <2>1, CloseRow
<1>5. Called(h, k)
  BY <1>2, <1>3, <1>4, CalledOn
<1>6. Wired(k, r, f, g)
  BY <1>1, <1>2, <1>3, <1>4 DEF Opening, Wired, Standard
<1>. QED
  BY <1>5, <1>6

\* What the terminal inherits: the read end, and nothing of another pipe.
Inherit(h, r) == Overridden(copyFdTable(h, Terminal, Shell), Terminal,
                            <<<<STDIN, r>>, <<STDOUT, -1>>, <<STDERR, -1>>, <<r, -1>>>>)

Inherited(h, k, q) ==
    /\ Sound(k, {}, {}) /\ Shrinks(h, k)
    /\ \A x \in Procs \ {Terminal} : k.fdTable[x] = h.fdTable[x]
    /\ \A fd \in FDs : k.fdTable[Terminal][fd] # Null => k.file[k.fdTable[Terminal][fd]].pipe = q

LEMMA TerminalIs ==
    ASSUME NEW h, Sound(h, {}, {}), NEW r \in FDs \ Standard, NEW f, NEW g, NEW q, Wired(h, r, f, g),
           f # Null => h.file[f].pipe = q, NEW k, k = Inherit(h, r)
    PROVE  Inherited(h, k, q)
<1> DEFINE c == copyFdTable(h, Terminal, Shell)
           overrides == <<<<STDIN, r>>, <<STDOUT, -1>>, <<STDERR, -1>>, <<r, -1>>>>
           B == {x \in DOMAIN h.file : h.file[x].pipe # q}
           A == {}
<1>1. Sound(c, {}, {}) /\ Copied(h, Terminal, Shell, c)
  BY CopySound, SystemProcs
<1>2. /\ Len(overrides) \in Nat /\ Len(overrides) = 4
      /\ overrides[1] = <<STDIN, r>> /\ overrides[2] = <<STDOUT, -1>>
      /\ overrides[3] = <<STDERR, -1>> /\ overrides[4] = <<r, -1>>
  OBVIOUS
<1>k. k = Overridden(c, Terminal, overrides)
  BY DEF Inherit
<1> HIDE DEF c, overrides
<1>3. Sound(k, {}, {}) /\ OnlyTableOf(c, Terminal, k)
  BY <1>1, <1>2, <1>k, OverriddenSound, SystemProcs
<1>4. h.fdTable \in [Procs -> [FDs -> Nat]] /\ c.fdTable[Terminal] = h.fdTable[Shell]
  BY <1>1, SystemProcs DEF Sound, Shape, Copied
<1>5. \A x \in Procs \ {Terminal} : k.fdTable[x] = h.fdTable[x]
  BY <1>1, <1>3, <1>4 DEF Copied, OnlyTableOf
<1>6. Shrinks(h, k)
  BY <1>1, <1>3, ShrinksOn DEF Copied, OnlyTableOf, Shrinks
<1>7. f \notin B /\ Null \notin B
  BY Held
<1>8. \A i \in 1 .. Len(overrides) :
           \/ overrides[i][1] \in A
           \/ overrides[i][2] \notin FDs
           \/ overrides[i][2] \notin A /\ c.fdTable[Terminal][overrides[i][2]] \notin B
  <2>1. c.fdTable[Terminal][r] = f /\ r # STDIN
    BY <1>4 DEF Wired, Standard
  <2>2. \A i \in 1 .. 4 : i = 1 \/ i = 2 \/ i = 3 \/ i = 4
    OBVIOUS
  <2> HIDE DEF B
  <2>. QED
    BY <1>2, <1>7, <2>1, <2>2, Slots3
<1>9. ASSUME NEW fd \in FDs, k.fdTable[Terminal][fd] \in B
      PROVE  FALSE
  <2>1. fd \notin A /\ Terminal \in Procs /\ Overridden(c, Terminal, overrides).fdTable[Terminal][fd] \in B
    BY <1>9, <1>k, SystemProcs
  <2> HIDE DEF A, B
  <2>l. Len(overrides) \in Nat /\ Sound(c, {}, {}) /\ Null \notin B
    BY <1>1, <1>2, <1>7
  <2>2. c.fdTable[Terminal][fd] \in B /\ \A i \in 1 .. Len(overrides) : overrides[i][1] # fd
    BY <1>8, <2>l, <2>1, OverriddenLoses
  <2>3. fd # STDIN /\ fd # STDOUT /\ fd # STDERR /\ fd # r
    BY <1>2, <2>2
  <2>4. c.fdTable[Terminal][fd] = Null
    BY <1>4, <2>3 DEF Wired, Standard
  <2>. QED
    BY <1>7, <2>2, <2>4
<1>10. ASSUME NEW fd \in FDs, k.fdTable[Terminal][fd] # Null
       PROVE  k.file[k.fdTable[Terminal][fd]].pipe = q
  <2>1. k.fdTable[Terminal][fd] \in DOMAIN k.file
    BY <1>3, <1>10, Held, SystemProcs
  <2>2. k.fdTable[Terminal][fd] \notin B
    BY <1>9
  <2>. QED
    BY <1>6, <2>1, <2>2 DEF Shrinks, Alike
<1>. QED
  BY <1>3, <1>5, <1>6, <1>10 DEF Inherited

\* The end of the launch: whatever became of the pipe and the terminal, the
\* shell has its standard descriptors and the terminal that of STDOUT's pipe.
LEMMA Launched ==
    ASSUME ShellInv, at = "start", NEW h, Set(h), Sound(h, {}, {}), Keeps(Objects, h, {Shell, Terminal}),
           NEW ok \in BOOLEAN, state' = [state EXCEPT ![Terminal] = IF ok THEN "ALIVE" ELSE @],
           ~ok => h.fdTable[Terminal] = fdTable[Terminal],
           \A fd \in Standard : h.fdTable[Shell][fd] # Null,
           \A fd \in FDs \ Standard : h.fdTable[Shell][fd] = Null,
           \A fd \in FDs : h.fdTable[Terminal][fd] # Null =>
               h.file[h.fdTable[Terminal][fd]].pipe = h.file[h.fdTable[Shell][STDOUT]].pipe,
           at' = "prompt", UNCHANGED <<line, kind, childStdin, pipeFds, pid, foregroundSet>>
    PROVE  ShellInv'
<1>1. Objects.fdTable = fdTable /\ Objects.file = file
  BY DEF Objects
<1>2. Sound(Objects, {}, {})' /\ fdTable' = h.fdTable /\ file' = h.file
  BY SetGives
<1>3. \A x \in Procs : x # Shell /\ x # Terminal => h.fdTable[x] = fdTable[x]
  <2> SUFFICES ASSUME NEW x \in Procs, x # Shell, x # Terminal
               PROVE  h.fdTable[x] = fdTable[x]
    OBVIOUS
  <2>1. \A fd \in FDs : h.fdTable[x][fd] = fdTable[x][fd]
    BY <1>1 DEF Keeps, Same
  <2>2. h.fdTable[x] \in [FDs -> Nat] /\ fdTable[x] \in [FDs -> Nat]
    BY <1>1 DEF Sound, Shape, ShellInv
  <2>. QED
    BY <2>1, <2>2
<1>4. state' \in [Procs -> {"FREE", "ALIVE", "ZOMBIE"}] /\ \A x \in Procs \ {Terminal} : state'[x] = state[x]
  BY SystemProcs DEF ShellInv, TablesOK
<1>5. TablesOK'
  <2>1. ASSUME NEW x \in Procs, state'[x] # "ALIVE"
        PROVE  fdTable'[x] = NoFds
    <3>1. state[x] # "ALIVE" /\ x # Shell /\ (x = Terminal => ~ok)
      BY <1>4, <2>1, SystemProcs DEF ShellInv, TablesOK
    <3>. QED
      BY <1>2, <1>3, <3>1 DEF ShellInv, TablesOK
  <2>. QED
    BY <1>4, <2>1 DEF TablesOK
<1>6. state'[Shell] = "ALIVE" /\ state'[INIT_PID] = "ALIVE"
  BY <1>4, SystemProcs DEF ShellInv
<1>7. WorldOK'
  <2>1. file'[DriverFile].pipe = 1
    BY <1>1, <1>2 DEF Keeps, ShellInv, WorldOK
  <2>2. ASSUME NEW x \in Procs, x # Shell, x # Terminal, NEW fd \in FDs
        PROVE  /\ fdTable'[x][fd] = fdTable[x][fd]
               /\ fdTable[x][fd] # Null => file'[fdTable[x][fd]].pipe = file[fdTable[x][fd]].pipe
    BY <1>1, <1>2, <2>2 DEF Keeps, Same
  <2>3. \A fd \in FDs : fdTable'[INIT_PID][fd] # Null => file'[fdTable'[INIT_PID][fd]].pipe = 1
    BY <2>2, SystemProcs DEF ShellInv, WorldOK
  <2>4. \A fd \in FDs : fdTable'[Terminal][fd] # Null =>
             /\ fdTable'[Shell][STDOUT] # Null
             /\ file'[fdTable'[Terminal][fd]].pipe = file'[fdTable'[Shell][STDOUT]].pipe
    BY <1>2 DEF Standard
  <2>5. \A c \in Commands : state'[c] = state[c]
    BY <1>4, SystemProcs
  <2>6. ASSUME NEW c \in Commands, NEW fd \in FDs \ {STDOUT, STDERR}, Alive(c)', kind'[c].background
        PROVE  ~KeyboardIs(fdTable[c][fd])'
    <3>1. ~KeyboardIs(fdTable[c][fd])
      BY <2>5, <2>6 DEF ShellInv, WorldOK, BackgroundHasNoKeyboard, Alive
    <3>2. /\ fdTable'[c][fd] = fdTable[c][fd]
          /\ fdTable[c][fd] # Null => file'[fdTable[c][fd]].pipe = file[fdTable[c][fd]].pipe
      BY <2>2, SystemProcs
    <3>. QED
      BY <3>1, <3>2 DEF KeyboardIs
  <2>7. BackgroundHasNoKeyboard'
    BY <2>6 DEF BackgroundHasNoKeyboard
  <2>. QED
    BY <2>1, <2>3, <2>4, <2>7 DEF WorldOK
<1>8. TwoStages' = TwoStages
  BY DEF TwoStages
<1>9. LocalsOK'
  BY <1>8 DEF ShellInv, LocalsOK
<1>10. ForegroundOK'
  BY DEF ShellInv, ForegroundOK, Waited
<1>11. ShellTable'
  BY <1>2 DEF ShellInv, ShellTable, PipeOpen
<1>. QED
  BY <1>2, <1>5, <1>6, <1>7, <1>9, <1>10, <1>11 DEF ShellInv

LEMMA CalledKeeps ==
    ASSUME NEW h, Sound(h, {}, {}), NEW g, Called(h, g)
    PROVE  Keeps(h, g, {Shell})
  BY KeepsIf DEF Called, Shrinks

LEMMA KeepsMore ==
    ASSUME NEW h, NEW g, NEW S, NEW T, S \subseteq T, Keeps(h, g, S)
    PROVE  Keeps(h, g, T)
  BY DEF Keeps

LEMMA launchTerminalKeeps == ASSUME ShellInv, launchTerminal PROVE ShellInv'
<1> DEFINE a == dupFd(Objects, Shell, STDIN, STDOUT)
           b == dupFd(a, Shell, STDIN, STDERR)
           Wire(x, w) == closeFd(dupFd(dupFd(x, Shell, w, STDOUT), Shell, w, STDERR), Shell, w)
           T == {Shell, Terminal}
<1>1. /\ at = "start" /\ at' = "prompt" /\ UNCHANGED <<line, kind, childStdin, pipeFds, pid, foregroundSet>>
  BY DEF launchTerminal, Go, KeepLine, Locals
<1>2. PICK o \in sysPipe(b, Shell) :
         IF o.fds[1] < 0 THEN Set(o.h) /\ UNCHANGED state
         ELSE \E ok \in Alloc :
                /\ Set(closeFd(IF ok THEN Inherit(Wire(o.h, o.fds[2]), o.fds[1]) ELSE Wire(o.h, o.fds[2]),
                               Shell, o.fds[1]))
                /\ state' = [state EXCEPT ![Terminal] = IF ok THEN "ALIVE" ELSE @]
  BY DEF launchTerminal, Inherit
<1>3. /\ Objects.fdTable = fdTable /\ Objects.file = file /\ Sound(Objects, {}, {})
      /\ \A fd \in FDs : fdTable[Shell][fd] = IF fd = STDIN THEN 1 ELSE Null
      /\ \A fd \in FDs : fdTable[Terminal][fd] = Null
  BY <1>1, Slots3 DEF Objects, ShellInv, ShellTable, WorldOK
<1>4. Called(Objects, b) /\ \A fd \in FDs : b.fdTable[Shell][fd] = IF fd \in Standard THEN 1 ELSE Null
  <2>1. /\ Called(Objects, a)
        /\ \A fd \in FDs : a.fdTable[Shell][fd] = IF fd = STDOUT THEN Objects.fdTable[Shell][STDIN]
                                                  ELSE Objects.fdTable[Shell][fd]
    BY <1>3, DupRow, Slots3
  <2>b. b = dupFd(a, Shell, STDIN, STDERR)
    OBVIOUS
  <2> HIDE DEF a, b
  <2>2. Sound(a, {}, {})
    BY <2>1 DEF Called
  <2>3. /\ Called(a, b)
        /\ \A fd \in FDs : b.fdTable[Shell][fd] = IF fd = STDERR THEN a.fdTable[Shell][STDIN] ELSE a.fdTable[Shell][fd]
    BY <2>2, <2>b, DupRow, Slots3
  <2>4. Called(Objects, b)
    BY <2>1, <2>3, CalledOn
  <2>. QED
    BY <1>3, <2>1, <2>3, <2>4, Slots3 DEF Standard
<1> HIDE DEF a, b
<1>5. Sound(o.h, {}, {}) /\ OthersKeep(b, Shell, o.h) /\ Piped(b, Shell, o)
  BY <1>2, <1>4, SysPipeSound, SystemProcs DEF Called
<1>6. Keeps(Objects, o.h, T) /\ o.h.fdTable[Terminal] = fdTable[Terminal]
  <2>1. Keeps(Objects, b, {Shell})
    BY <1>3, <1>4, CalledKeeps
  <2>2. Keeps(b, o.h, {Shell})
    BY <1>4, <1>5, KeepsIf DEF OthersKeep, Called
  <2>3. Keeps(Objects, o.h, {Shell})
    BY <2>1, <2>2, KeepsOn
  <2>4. {Shell} \subseteq T
    OBVIOUS
  <2> HIDE DEF T
  <2>. QED
    BY <1>3, <1>4, <1>5, <2>3, <2>4, KeepsMore, SystemProcs DEF Called, OthersKeep
<1>7. CASE o.fds = <<-1, -1>> /\ o.h.fdTable = b.fdTable
  <2>1. Set(o.h) /\ UNCHANGED state
    BY <1>2, <1>7
  <2>2. state' = [state EXCEPT ![Terminal] = IF FALSE THEN "ALIVE" ELSE @]
    BY <2>1 DEF ShellInv, TablesOK
  <2>3. /\ \A fd \in Standard : o.h.fdTable[Shell][fd] # Null
        /\ \A fd \in FDs \ Standard : o.h.fdTable[Shell][fd] = Null
    BY <1>4, <1>7, Slots3 DEF Null, Standard
  <2>4. \A fd \in FDs : o.h.fdTable[Terminal][fd] # Null =>
             o.h.file[o.h.fdTable[Terminal][fd]].pipe = o.h.file[o.h.fdTable[Shell][STDOUT]].pipe
    BY <1>3, <1>6
  <2>. QED
    BY <1>1, <1>5, <1>6, <2>1, <2>2, <2>3, <2>4, Launched
<1>8. CASE \E q : q \notin DOMAIN b.pipe /\ Installed(b, Shell, q, o)
  <2>1. PICK q : Installed(b, Shell, q, o)
    BY <1>8
  <2>2. CASE o.fds = <<-1, -1>> /\ o.h.fdTable = b.fdTable
    BY <1>7, <2>2
  <2>3. CASE ~(o.fds = <<-1, -1>> /\ o.h.fdTable = b.fdTable)
    <3>1. PICK r \in FDs, w \in FDs : \E f, g \in DOMAIN o.h.file :
              /\ o.fds = <<r, w>> /\ r # w /\ b.fdTable[Shell][r] = Null /\ b.fdTable[Shell][w] = Null
              /\ o.h.fdTable = SetSlot(SetSlot(b.fdTable, Shell, r, f), Shell, w, g)
              /\ o.h.file[f].pipe = q /\ o.h.file[g].pipe = q
      BY <2>1, <2>3 DEF Installed
    <3>2. PICK f \in DOMAIN o.h.file, g \in DOMAIN o.h.file :
              /\ o.fds = <<r, w>> /\ r # w /\ b.fdTable[Shell][r] = Null /\ b.fdTable[Shell][w] = Null
              /\ o.h.fdTable = SetSlot(SetSlot(b.fdTable, Shell, r, f), Shell, w, g)
              /\ o.h.file[f].pipe = q /\ o.h.file[g].pipe = q
      BY <3>1
    <3>3. r \in FDs \ Standard /\ w \in FDs \ Standard /\ r # w
      BY <1>4, <3>2 DEF Null
    <3>4. Opening(o.h, r, w, f, g)
      <4>1. b.fdTable \in [Procs -> [FDs -> Nat]]
        BY <1>4 DEF Called, Sound, Shape
      <4>. QED
        BY <1>4, <3>2, <3>3, <4>1, SystemProcs DEF SetSlot, Opening
    <3> DEFINE k == Wire(o.h, w)
               m == Inherit(k, r)
    <3>5. Called(o.h, k) /\ Wired(k, r, f, g)
      BY <1>5, <3>3, <3>4, WiredIs
    <3>6. Sound(k, {}, {}) /\ k.fdTable[Terminal] = fdTable[Terminal] /\ Shrinks(o.h, k)
          /\ f # Null /\ g # Null
      BY <1>5, <1>6, <3>5, Held, SystemProcs DEF Called
    <3>7. Keeps(Objects, k, T)
      <4>1. Keeps(o.h, k, {Shell})
        BY <1>5, <3>5, CalledKeeps
      <4>2. {Shell} \subseteq T
        OBVIOUS
      <4> HIDE DEF T, k
      <4>. QED
        BY <1>6, <4>1, <4>2, KeepsMore, KeepsOn
    <3>8. g \in DOMAIN k.file /\ f \in DOMAIN k.file /\ k.file[g].pipe = q /\ k.file[f].pipe = q
      <4>1. k.fdTable[Shell][STDOUT] = g /\ k.fdTable[Shell][r] = f
        BY <3>3, <3>5, Slots3 DEF Wired, Standard
      <4> HIDE DEF k
      <4>2. g \in DOMAIN k.file /\ f \in DOMAIN k.file
        BY <3>3, <3>6, <4>1, Held, SystemProcs, Slots3
      <4>. QED
        BY <3>2, <3>6, <4>2 DEF Shrinks, Alike
    <3>9. PICK ok \in Alloc : /\ Set(closeFd(IF ok THEN m ELSE k, Shell, r))
                              /\ state' = [state EXCEPT ![Terminal] = IF ok THEN "ALIVE" ELSE @]
      <4>1. o.fds[1] = r /\ o.fds[2] = w
        BY <3>2
      <4>2. ~(r < 0)
        BY FilesAssumption DEF FDs
      <4>. QED
        BY <1>2, <4>1, <4>2
    <3> DEFINE n == IF ok THEN m ELSE k
               h == closeFd(n, Shell, r)
    <3>10. /\ Sound(n, {}, {}) /\ Shrinks(k, n) /\ Wired(n, r, f, g) /\ Keeps(k, n, T)
           /\ ~ok => n.fdTable[Terminal] = fdTable[Terminal]
           /\ \A fd \in FDs : n.fdTable[Terminal][fd] # Null => n.file[n.fdTable[Terminal][fd]].pipe = q
      <4>1. CASE ~ok
        <5>1. n = k
          BY <4>1
        <5>2. Shrinks(k, k) /\ Keeps(k, k, T)
          BY DEF Shrinks, Keeps, Same, Alike
        <5> HIDE DEF n, k, T
        <5>. QED
          BY <1>3, <3>5, <3>6, <4>1, <5>1, <5>2
      <4>2. CASE ok
        <5>1. n = m /\ m = Inherit(k, r)
          BY <4>2
        <5> HIDE DEF n, m, k
        <5>2. /\ Sound(m, {}, {}) /\ Shrinks(k, m)
              /\ \A x \in Procs \ {Terminal} : m.fdTable[x] = k.fdTable[x]
              /\ \A fd \in FDs : m.fdTable[Terminal][fd] # Null => m.file[m.fdTable[Terminal][fd]].pipe = q
          <6>1. Sound(k, {}, {}) /\ r \in FDs \ Standard /\ Wired(k, r, f, g)
            BY <3>3, <3>5, <3>6
          <6>2. f # Null => k.file[f].pipe = q
            BY <3>8
          <6>3. m = Inherit(k, r)
            BY <5>1
          <6>4. Inherited(k, m, q)
            BY <6>1, <6>2, <6>3, TerminalIs
          <6>. QED
            BY <6>4 DEF Inherited
        <5>3. Wired(m, r, f, g)
          BY <3>5, <5>2, SystemProcs DEF Wired
        <5>4. Keeps(k, m, T)
          BY <3>6, <5>2, KeepsIf DEF Shrinks
        <5>. QED
          BY <4>2, <5>1, <5>2, <5>3, <5>4
      <4>. QED
        BY <4>1, <4>2
    <3>n. Set(h) /\ h = closeFd(n, Shell, r)
      BY <3>9
    <3> HIDE DEF k, m, n, h
    <3>11. /\ Called(n, h)
           /\ \A fd \in FDs : h.fdTable[Shell][fd] = IF fd = r THEN Null ELSE n.fdTable[Shell][fd]
      BY <3>n, <3>3, <3>10, CloseRow
    <3>12. Keeps(Objects, h, T)
      <4>1. Keeps(n, h, {Shell})
        BY <3>10, <3>11, CalledKeeps
      <4>2. {Shell} \subseteq T
        OBVIOUS
      <4> HIDE DEF T
      <4>3. Keeps(n, h, T) /\ Keeps(Objects, n, T)
        BY <3>7, <3>10, <4>1, <4>2, KeepsMore, KeepsOn
      <4>. QED
        BY <4>3, KeepsOn
    <3>13. /\ h.fdTable[Shell][STDOUT] = g
           /\ \A fd \in Standard : h.fdTable[Shell][fd] # Null
           /\ \A fd \in FDs \ Standard : h.fdTable[Shell][fd] = Null
      BY <3>3, <3>6, <3>10, <3>11, Slots3 DEF Wired, Standard, Null
    <3>14. Sound(h, {}, {}) /\ Shrinks(k, h) /\ Shrinks(n, h) /\ h.fdTable[Terminal] = n.fdTable[Terminal]
      BY <3>10, <3>11, ShrinksOn, SystemProcs DEF Called
    <3>15. h.file[g].pipe = q
      <4>1. g \in DOMAIN h.file
        BY <3>6, <3>13, <3>14, Held, SystemProcs, Slots3
      <4>. QED
        BY <3>8, <3>14, <4>1 DEF Shrinks, Alike
    <3>16. \A fd \in FDs : h.fdTable[Terminal][fd] # Null =>
               h.file[h.fdTable[Terminal][fd]].pipe = h.file[h.fdTable[Shell][STDOUT]].pipe
      <4> SUFFICES ASSUME NEW fd \in FDs, h.fdTable[Terminal][fd] # Null
                   PROVE  h.file[h.fdTable[Terminal][fd]].pipe = q
        BY <3>13, <3>15
      <4>1. h.fdTable[Terminal][fd] \in DOMAIN h.file
        BY <3>14, Held, SystemProcs
      <4>. QED
        BY <3>10, <3>14, <4>1 DEF Shrinks, Alike
    <3>17. ok \in BOOLEAN /\ (~ok => h.fdTable[Terminal] = fdTable[Terminal])
      BY <3>10, <3>14 DEF Alloc
    <3>. QED
      BY <1>1, <3>n, <3>9, <3>12, <3>13, <3>14, <3>16, <3>17, Launched
  <2>. QED
    BY <2>2, <2>3
<1>. QED
  BY <1>5, <1>7, <1>8 DEF Piped

-----------------------------------------------------------------------------
(* The invariant of the specification *)

LEMMA ShellStart == Init => ShellInv
<1> SUFFICES ASSUME Init
             PROVE  ShellInv
  OBVIOUS
<1> DEFINE h == Objects
<1>1. /\ h = [fdTable |-> h.fdTable, file |-> h.file, pipe |-> h.pipe]
      /\ h.fdTable = fdTable /\ h.file = file /\ h.pipe = pipe /\ h.pipe = KeyboardPipe
      /\ h.file = [KeyboardFiles EXCEPT ![1].refCount = 2]
  BY DEF Objects, Init
<1> HIDE DEF h
<1>2. /\ DOMAIN h.file = {1, 2} /\ DOMAIN h.pipe = {1}
      /\ h.file[1] = [pipe |-> 1, flags |-> READ, refCount |-> 2]
      /\ h.file[2] = [pipe |-> 1, flags |-> WRITE, refCount |-> 1]
      /\ h.file = [f \in {1, 2} |-> h.file[f]] /\ h.pipe = [q \in {1} |-> h.pipe[q]]
      /\ h.pipe[1] = [refCount |-> 2, writerCount |-> 1]
  <2> DEFINE K == KeyboardFiles
  <2>1. /\ K[1] = [pipe |-> 1, flags |-> READ, refCount |-> 1] /\ DOMAIN K = {1, 2}
        /\ K[2] = [pipe |-> 1, flags |-> WRITE, refCount |-> 1] /\ K = [f \in {1, 2} |-> K[f]]
    BY DEF KeyboardFiles
  <2> HIDE DEF K
  <2>2. h.file = [K EXCEPT ![1] = [K[1] EXCEPT !.refCount = 2]]
    BY <1>1 DEF K
  <2>3. [K[1] EXCEPT !.refCount = 2] = [pipe |-> 1, flags |-> READ, refCount |-> 2]
    BY <2>1
  <2>4. /\ DOMAIN h.file = {1, 2} /\ h.file = [f \in {1, 2} |-> h.file[f]]
        /\ h.file[1] = [pipe |-> 1, flags |-> READ, refCount |-> 2] /\ h.file[2] = K[2]
    BY <2>1, <2>2, <2>3
  <2>. QED
    BY <1>1, <2>1, <2>4 DEF KeyboardPipe
<1>3. /\ STDIN \in FDs
      /\ fdTable = [p \in Procs |-> [fd \in FDs |-> IF p \in {INIT_PID, Shell} /\ fd = STDIN THEN 1 ELSE 0]]
  BY Slots3 DEF Init, Null
<1>4. \A p \in Procs, fd \in FDs : fdTable[p][fd] = IF p \in {INIT_PID, Shell} /\ fd = STDIN THEN 1 ELSE 0
  BY <1>3
<1>5. Shape(h)
  <2>1. IsFiniteSet({1, 2}) /\ IsFiniteSet({1})
    <3>1. IsFiniteSet({1})
      BY FS_Singleton
    <3>2. IsFiniteSet({1} \cup {2}) /\ {1} \cup {2} = {1, 2}
      BY <3>1, FS_AddElement
    <3>. QED
      BY <3>1, <3>2
  <2>2. h.file \in [DOMAIN h.file -> FileRecord]
    <3>1. h.file[1] \in FileRecord /\ h.file[2] \in FileRecord
      BY <1>2 DEF FileRecord, Address, Null
    <3>. QED
      BY <1>2, <3>1
  <2>3. h.pipe \in [DOMAIN h.pipe -> PipeRecord]
    <3>1. h.pipe[1] \in PipeRecord
      BY <1>2 DEF PipeRecord
    <3>. QED
      BY <1>2, <3>1
  <2>4. h.fdTable \in [Procs -> [FDs -> Nat]]
    BY <1>1, <1>3
  <2>. QED
    BY <1>1, <1>2, <2>1, <2>2, <2>3, <2>4 DEF Shape, Address, Null
<1>6. Points(h)
  BY <1>1, <1>2, <1>4 DEF Points, DriverFile, Null
<1>7. FilesCounted(h, {})
  <2>1. HoldersIn(h.fdTable, 1) = {<<INIT_PID, STDIN>>} \cup {<<Shell, STDIN>>}
    BY <1>1, <1>3, <1>4, SystemProcs DEF HoldersIn, Slots
  <2>2. HoldersIn(h.fdTable, 2) = {}
    BY <1>1, <1>4 DEF HoldersIn, Slots
  <2>3. Cardinality(HoldersIn(h.fdTable, 2)) = 0
    BY <2>2, FS_EmptySet
  <2>4. IsFiniteSet({<<INIT_PID, STDIN>>}) /\ Cardinality({<<INIT_PID, STDIN>>}) = 1
    BY FS_Singleton
  <2>5. <<Shell, STDIN>> \notin {<<INIT_PID, STDIN>>}
    BY SystemProcs
  <2>6. Cardinality({<<INIT_PID, STDIN>>} \cup {<<Shell, STDIN>>}) = 2
    <3> DEFINE A == {<<INIT_PID, STDIN>>}
               x == <<Shell, STDIN>>
    <3>1. IsFiniteSet(A) /\ Cardinality(A) = 1 /\ x \notin A
      BY <2>4, <2>5
    <3> HIDE DEF A, x
    <3>2. Cardinality(A \cup {x}) = Cardinality(A) + 1
      BY <3>1, FS_AddElement
    <3>. QED
      BY <3>1, <3>2 DEF A, x
  <2>. QED
    BY <1>2, <2>1, <2>3, <2>6 DEF FilesCounted, Driver, DriverFile
<1>8. PipesCounted(h, {})
  <2>1. AccessesOf(h.file, 1) = {1} \cup {2}
    BY <1>2 DEF AccessesOf
  <2>2. WritersOf(h.file, 1) = {2}
    BY <1>2 DEF WritersOf, READ, WRITE
  <2>3. IsFiniteSet({1}) /\ Cardinality({1}) = 1 /\ Cardinality({2}) = 1
    BY FS_Singleton
  <2>4. Cardinality({1} \cup {2}) = 2
    BY <2>3, FS_AddElement
  <2>. QED
    BY <1>2, <2>1, <2>2, <2>3, <2>4 DEF PipesCounted
<1>9. state = [p \in Procs |-> IF p \in {INIT_PID, Shell} THEN "ALIVE" ELSE "FREE"]
  BY DEF Init
<1>10. TablesOK
  BY <1>3, <1>9 DEF TablesOK, NoFds, Null
<1>11. /\ at = "start" /\ childStdin = -1 /\ pipeFds = <<-1, -1>> /\ pid = <<NoPid, NoPid>>
       /\ line.background = FALSE /\ DOMAIN kind = Commands /\ foregroundSet = {}
  BY DEF Init, NoLine
<1>12. LocalsOK
  <2>1. pid \in [1 .. 2 -> Commands \cup {NoPid}] /\ pid[1] = NoPid /\ pid[2] = NoPid
    BY <1>11
  <2>2. pipeFds \in [1 .. 2 -> FDs \cup {-1}]
    BY <1>11
  <2>. QED
    BY <1>11, <2>1, <2>2 DEF LocalsOK
<1>13. ShellTable
  BY <1>4, <1>11, Slots3, SystemProcs DEF ShellTable, Null, PipeOpen
<1>14. WorldOK
  <2>1. file[1].pipe = 1 /\ file[2].pipe = 1
    BY <1>1, <1>2
  <2>2. \A fd \in FDs : fdTable[INIT_PID][fd] # Null => fdTable[INIT_PID][fd] = 1
    BY <1>4, SystemProcs DEF Null
  <2>3. \A fd \in FDs : fdTable[Terminal][fd] = Null
    BY <1>4, SystemProcs DEF Null
  <2>4. \A c \in Commands : ~Alive(c)
    BY <1>9, SystemProcs DEF Alive
  <2>. QED
    BY <2>1, <2>2, <2>3, <2>4 DEF WorldOK, DriverFile, BackgroundHasNoKeyboard
<1>. QED
  BY <1>5, <1>6, <1>7, <1>8, <1>9, <1>10, <1>11, <1>12, <1>13, <1>14, SystemProcs
  DEF ShellInv, Sound, h, ForegroundOK

LEMMA ShellPreserves == ShellInv /\ DeathsOK /\ [Next]_shellVars => ShellInv'
<1> SUFFICES ASSUME ShellInv, DeathsOK, [Next]_shellVars
             PROVE  ShellInv'
  OBVIOUS
<1>1. CASE UNCHANGED shellVars
  <2>1. UNCHANGED <<fileVars, state, kind, at, line, childStdin, pipeFds, pid, foregroundSet>>
    BY <1>1 DEF shellVars
  <2>2. /\ Sound(Objects, {}, {})' /\ TablesOK' /\ WorldOK'
        /\ state'[Shell] = "ALIVE" /\ state'[INIT_PID] = "ALIVE" /\ fdTable' = fdTable /\ file' = file
    BY <2>1, ObjectsStay DEF ShellInv, TablesOK
  <2>3. LocalsOK' /\ ForegroundOK' /\ ShellTable'
    <3>1. DOMAIN kind' = Commands
      BY <2>1 DEF ShellInv, LocalsOK
    <3>. QED
      BY <2>1, <2>2, <3>1, ShellStays
  <2>. QED
    BY <2>2, <2>3 DEF ShellInv
<1>2. CASE ShellStep
  BY <1>2, launchTerminalKeeps, ReadLineKeeps, ReopenStdinKeeps, MakePipeKeeps, Spawn1Keeps, Foreground1Keeps,
     Spawn2Keeps, Foreground2Keeps, CloseReadEndKeeps, CloseWriteEndKeeps, KillFirstKeeps, Wait1Keeps,
     Wait2Keeps, CloseStdinKeeps DEF ShellStep
<1>3. CASE CtrlC
  BY <1>3, CtrlCKeeps
<1>4. ASSUME NEW c \in Commands, Exit(c)
      PROVE  ShellInv'
  BY <1>4, ExitKeeps
<1>. QED
  BY <1>1, <1>2, <1>3, <1>4 DEF Next

LEMMA DeathsStart == Init => DeathsOK
<1> SUFFICES ASSUME Init
             PROVE  DeathsOK
  OBVIOUS
<1>1. /\ terminatedChildren = <<>> /\ childTerminated = 0 /\ diedTwice = FALSE /\ at = "start"
      /\ \A c \in Commands : state[c] = "FREE"
  BY SystemProcs DEF Init
<1>2. <<>> \in Seq(Commands) /\ Len(<<>>) = 0 /\ noRepeats(<<>>) /\ \A c : ~isIn(c, <<>>)
  BY EmptyQueue
<1>3. \A c \in Commands : isIn(c, terminatedChildren) <=> state[c] = "ZOMBIE"
  BY <1>1, <1>2
<1>4. /\ terminatedChildren \in Seq(Commands) /\ childTerminated \in Nat
      /\ Len(terminatedChildren) <= childTerminated
      /\ childTerminated = Len(terminatedChildren) /\ noRepeats(terminatedChildren) /\ at # "halted"
  BY <1>1, <1>2
<1>5. diedTwice \in BOOLEAN
  BY <1>1
<1>. QED
  BY <1>3, <1>4, <1>5 DEF DeathsOK, DeathsCounted

\* The steps that announce or reap somebody, and all the others.
LEMMA DeathsPreserved == ShellInv /\ DeathsOK /\ [Next]_shellVars => DeathsOK'
<1> SUFFICES ASSUME ShellInv, DeathsOK, [Next]_shellVars
             PROVE  DeathsOK'
  OBVIOUS
<1>t. /\ state \in [Procs -> {"FREE", "ALIVE", "ZOMBIE"}] /\ pid \in [1 .. 2 -> Commands \cup {NoPid}]
      /\ foregroundSet \subseteq Commands
  BY DEF ShellInv, TablesOK, LocalsOK, ForegroundOK
<1>q. \/ UNCHANGED <<deaths, state>> /\ (at' # "halted" \/ at' = at)
      \/ launchTerminal \/ ReadLine \/ Spawn1 \/ Spawn2 \/ KillFirst \/ Wait1 \/ Wait2 \/ CtrlC
      \/ \E c \in Commands : Exit(c)
  <2>1. CASE UNCHANGED shellVars
    BY <2>1 DEF shellVars
  <2>2. CASE ReopenStdin \/ MakePipe
    BY <2>2 DEF ReopenStdin, MakePipe, TouchesNoProcess, Go, Says
  <2>3. CASE Foreground1 \/ Foreground2
    BY <2>3 DEF Foreground1, Foreground2, Foreground, Go
  <2>4. CASE CloseReadEnd \/ CloseWriteEnd \/ CloseStdin
    BY <2>4 DEF CloseReadEnd, CloseWriteEnd, CloseStep, CloseStdin, NewLine, TouchesNoProcess, Go
  <2>. QED
    BY <2>1, <2>2, <2>3, <2>4 DEF Next, ShellStep
<1>1. CASE UNCHANGED <<deaths, state>> /\ (at' # "halted" \/ at' = at)
  BY <1>1, DeathsStay
<1>2. CASE launchTerminal
  <2>1. /\ UNCHANGED deaths /\ at' = "prompt"
        /\ \A c \in Commands : state'[c] = state[c]
    BY <1>2, <1>t, SystemProcs DEF launchTerminal, Go
  <2>. QED
    BY <2>1, DeathsStay
<1>3. CASE ReadLine
  BY <1>3, DeathsPolled
<1>4. ASSUME NEW i, NEW overrides, NEW found, NEW failed, runStage(i, overrides, found, failed),
             found # "halted", failed # "halted"
      PROVE  DeathsOK'
  <2>1. UNCHANGED deaths /\ at' # "halted"
    BY <1>4 DEF runStage, Go, Says, TouchesNoProcess
  <2>2. state' = state \/ \E c \in Commands : state[c] = "FREE" /\ state' = [state EXCEPT ![c] = "ALIVE"]
    BY <1>4 DEF runStage, TouchesNoProcess
  <2>3. \A c \in Commands : state'[c] = "ZOMBIE" <=> state[c] = "ZOMBIE"
    BY <1>t, <2>2, SystemProcs
  <2>. QED
    BY <2>1, <2>3, DeathsStay
<1>5. CASE Spawn1 \/ Spawn2
  <2>1. CASE Spawn1
    <3> DEFINE overrides == FirstOverrides
               failed == IF TwoStages THEN "closeR" ELSE "closeStdin"
    <3>1. runStage(1, overrides, "fg1", failed) /\ failed # "halted"
      BY <2>1 DEF Spawn1
    <3> HIDE DEF overrides, failed
    <3>. QED
      BY <1>4, <3>1
  <2>2. CASE Spawn2
    <3> DEFINE overrides == SecondOverrides
    <3>1. runStage(2, overrides, "fg2", "closeR")
      BY <2>2 DEF Spawn2
    <3> HIDE DEF overrides
    <3>. QED
      BY <1>4, <3>1
  <2>. QED
    BY <1>5, <2>1, <2>2
<1>6. ASSUME NEW c \in Commands, Announced({c}), state' = [state EXCEPT ![c] = "ZOMBIE"],
             at' # "halted" \/ at' = at
      PROVE  DeathsOK'
  <2>1. \A d \in Commands : state'[d] = "ZOMBIE" <=> d \in {c} \/ state[d] = "ZOMBIE"
    BY <1>t, <1>6, SystemProcs
  <2>2. IsFiniteSet({c}) /\ {c} \subseteq Commands
    BY FS_Singleton
  <2>. QED
    BY <1>6, <2>1, <2>2, DeathsAnnounced
<1>7. CASE KillFirst
  <2>1. pid[1] \in Commands /\ at' = "wait1"
    BY <1>7 DEF KillFirst, Go, ShellInv, LocalsOK
  <2>. QED
    BY <1>6, <1>7, <2>1 DEF KillFirst
<1>8. ASSUME NEW c \in Commands, Exit(c)
      PROVE  DeathsOK'
  BY <1>6, <1>8 DEF Exit
<1>9. CASE Wait1 \/ Wait2
  <2>1. ASSUME NEW i \in 1 .. 2, NEW here, NEW next, Wait(i, here, next), pid[i] # NoPid, next # "halted"
        PROVE  DeathsOK'
    <3>1. pid[i] \in Commands /\ at' # "halted"
      BY <1>t, <2>1 DEF Wait, Go, Says
    <3>2. CASE TouchesNoProcess
      BY <3>1, <3>2, DeathsStay DEF TouchesNoProcess
    <3>3. CASE /\ state[pid[i]] = "ZOMBIE" /\ state' = [state EXCEPT ![pid[i]] = "FREE"]
               /\ Taken(pid[i]) /\ UNCHANGED diedTwice
      BY <3>1, <3>3, DeathsTaken
    <3>. QED
      BY <2>1, <3>2, <3>3 DEF Wait
  <2>2. /\ Wait1 => at = "wait1" /\ pid[1] # NoPid
        /\ Wait2 => at = "wait2" /\ pid[2] # NoPid
    BY DEF Wait1, Wait2, Wait, ShellInv, LocalsOK
  <2>3. CASE Wait1
    <3> DEFINE next == IF TwoStages /\ pid[2] # NoPid THEN "wait2" ELSE "closeStdin"
    <3>1. Wait(1, "wait1", next) /\ next # "halted" /\ 1 \in 1 .. 2 /\ pid[1] # NoPid
      BY <2>2, <2>3 DEF Wait1
    <3> HIDE DEF next
    <3>. QED
      BY <2>1, <3>1
  <2>4. CASE Wait2
    <3>1. Wait(2, "wait2", "closeStdin") /\ 2 \in 1 .. 2 /\ pid[2] # NoPid
      BY <2>2, <2>4 DEF Wait2
    <3>. QED
      BY <2>1, <3>1
  <2>. QED
    BY <1>9, <2>3, <2>4
<1>10. CASE CtrlC
  <2>1. IsFiniteSet(foregroundSet) /\ foregroundSet \subseteq Procs
    BY <1>t, SystemProcs, FS_Subset
  <2>2. \A d \in Commands : state'[d] = "ZOMBIE" <=> d \in foregroundSet \/ state[d] = "ZOMBIE"
    BY <1>10, SystemProcs DEF CtrlC
  <2>3. Announced(foregroundSet) /\ at' = at
    BY <1>10 DEF CtrlC
  <2>. QED
    BY <1>t, <2>1, <2>2, <2>3, DeathsAnnounced
<1>. QED
  BY <1>q, <1>1, <1>2, <1>3, <1>5, <1>7, <1>8, <1>9, <1>10

\* At every step of a line the shell holds the descriptors that the step
\* accounts for, the foreground set only processes it is about to wait for,
\* the queue of the dead the processes that are dead, and the reference counts
\* are exact, with Ctrl+C in between.
THEOREM ShellInvariance == Spec => [](ShellInv /\ DeathsOK)
<1>1. Init => ShellInv /\ DeathsOK
  BY ShellStart, DeathsStart
<1>2. ShellInv /\ DeathsOK /\ [Next]_shellVars => (ShellInv /\ DeathsOK)'
  BY ShellPreserves, DeathsPreserved
<1>. QED
  BY <1>1, <1>2, PTL DEF Spec

-----------------------------------------------------------------------------
(* What it gives *)

LEMMA PipesAtThePrompt ==
    ASSUME ShellInv, \A c \in Commands : ~Alive(c), NEW q \in DOMAIN pipe, q # 1
    PROVE  \E f \in Range(fdTable[Shell]) \ {Null} : file[f].pipe = q
<1>1. /\ Objects.fdTable = fdTable /\ Objects.file = file
      /\ fdTable \in [Procs -> [FDs -> Nat]]
      /\ \A x \in Procs, fd \in FDs : fdTable[x][fd] \in DOMAIN file \cup {Null}
  BY Held DEF Objects, ShellInv
<1>2. NothingLeaks
  <2>1. FilesInv
    BY DEF ShellInv, FilesInv
  <2>. QED
    BY <2>1, InvMeans
<1>3. PICK f \in DOMAIN file : file[f].pipe = q
  BY <1>2 DEF NothingLeaks
<1>4. f # DriverFile
  BY <1>3 DEF ShellInv, WorldOK
<1>5. PICK p \in Procs : Alive(p) /\ f \in Range(fdTable[p])
  BY <1>2, <1>4 DEF NothingLeaks
<1>6. PICK fd \in FDs : fdTable[p][fd] = f
  BY <1>1, <1>5 DEF Range
<1>7. f # Null
  BY <1>3 DEF ShellInv, Sound, Shape, Address, Objects
<1>8. p # INIT_PID /\ p \notin Commands
  BY <1>3, <1>5, <1>6, <1>7 DEF ShellInv, WorldOK
<1>9. CASE p = Shell
  BY <1>3, <1>5, <1>7, <1>9
<1>10. CASE p = Terminal
  <2> DEFINE g == fdTable[Shell][STDOUT]
  <2>1. g # Null /\ file[g].pipe = q
    BY <1>3, <1>6, <1>7, <1>10 DEF ShellInv, WorldOK
  <2>2. g \in Range(fdTable[Shell])
    BY <1>1, SystemProcs, Slots3 DEF Range
  <2>. QED
    BY <2>1, <2>2
<1>. QED
  BY <1>8, <1>9, <1>10, SystemProcs

\* runLine: back at the prompt no descriptor, no pipe and no process of the
\* line is left, whichever of its steps failed or met Ctrl+C.
THEOREM PromptAlwaysClean == Spec => []PromptClean
<1>1. ShellInv => PromptClean
  <2> SUFFICES ASSUME ShellInv, at = "prompt"
               PROVE  /\ \A fd \in FDs \ {STDIN, STDOUT, STDERR} : fdTable[Shell][fd] = Null
                      /\ foregroundSet = {}
                      /\ (\A c \in Commands : ~Alive(c)) =>
                            \A q \in DOMAIN pipe : q = 1 \/ \E f \in Range(fdTable[Shell]) \ {Null} : file[f].pipe = q
    BY DEF PromptClean
  <2>1. HeldFds = {-1}
    BY DEF ShellInv, LocalsOK, HeldFds, PipeOpen
  <2>2. \A fd \in FDs \ {STDIN, STDOUT, STDERR} : fdTable[Shell][fd] = Null
    BY <2>1, Slots3 DEF ShellInv, ShellTable, Standard
  <2>3. foregroundSet = {}
    BY DEF ShellInv, ForegroundOK, Waited
  <2>. QED
    BY <2>2, <2>3, PipesAtThePrompt
<1>. QED
  BY <1>1, ShellInvariance, PTL

\* runLine and startNewProcessWithFds: no stage of a background line has the
\* keyboard at STDIN or in a descriptor inherited from the shell.
THEOREM BackgroundNeverHasKeyboard == Spec => []BackgroundHasNoKeyboard
<1>1. ShellInv => BackgroundHasNoKeyboard
  BY DEF ShellInv, WorldOK
<1>. QED
  BY <1>1, ShellInvariance, PTL

\* The counts stay exact and nothing leaks in the life of the shell too, in
\* which Ctrl+C may kill several processes at once.
THEOREM ShellLeaksNothing == Spec => [](NothingDangles /\ CountsExact /\ NothingLeaks)
<1>1. ShellInv => NothingDangles /\ CountsExact /\ NothingLeaks
  BY InvMeans DEF ShellInv, FilesInv
<1>. QED
  BY <1>1, ShellInvariance, PTL

\* wait_pid, reap_zombies and notifyTermination: tokens and entries agree, and
\* the prompt frees the idle process only after a second death of a dead stage.
THEOREM DeathsAlwaysCounted == Spec => []DeathsCounted
<1>1. DeathsOK => DeathsCounted
  BY DEF DeathsOK
<1>. QED
  BY <1>1, ShellInvariance, PTL
=============================================================================
