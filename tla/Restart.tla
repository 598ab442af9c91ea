------------------------------- MODULE Restart ------------------------------
(***************************************************************************)
(* A fault, its countdown and the restart that follows.  The handler of an *)
(* exception prints the registers, counts down in the faulting process     *)
(* with interrupts on, and calls main, which starts a new heap and a new   *)
(* scheduler but leaves every other static variable as it was.  Meanwhile  *)
(* processes sleep, wait on the clock and sound the speaker.               *)
(*   Kernel/interruptions/exceptions.c, Kernel/kernel.c,                   *)
(*   Kernel/process_contextswitch/scheduler.c                              *)
(*                                                                         *)
(* A pointer is "null", "fresh" (into the present heap) or "stale" (into   *)
(* the heap of an earlier boot).  exceptionHandler calls main without      *)
(* setting rsp again (interrupts.asm:94), so that a restart goes on on the *)
(* stack of the process that faulted until the first dispatch.             *)
(***************************************************************************)
EXTENDS Timer, FiniteSets

CONSTANTS
    Procs, Names,
    Programs,           \* the calls the user programs make: one of these sets
    SLEEP_MILLIS,       \* each of the three waits of the countdown
    LOOP_MILLIS,        \* secs * 1000 of loopCommand
    Durations,          \* of sounds
    COUNTDOWN,
    MaxRefs,            \* bound on the references to a name
    Slack,              \* ticks after which a process whose wait is over has run
    CountForced         \* do the ticks of _forceTimerInt count as time?

ASSUME RestartAssumption ==
    /\ {SLEEP_MILLIS, LOOP_MILLIS, COUNTDOWN} \cup Durations \subseteq Nat
    /\ Slack \in Nat \ {0} /\ CountForced \in BOOLEAN
    /\ \A d \in {SLEEP_MILLIS, LOOP_MILLIS} : 2 * (d + (Slack + 2) * PERIOD_MILLIS) < Wrap
    /\ \A d \in Durations : d + PERIOD_MILLIS < Wrap

VARIABLES
    calls,
    timer,
    phase,              \* of main and init: "idt", "enabled", "init", "up"
    sched,              \* schedulerEnabled and the scheduler's pointers
    keyboardBuffer,
    stack,              \* that boot and its interrupts run on: "boot" is the loader's
    table,              \* of named semaphores: [sem, refCount]
    pc, local,          \* of the processes; local is [counter, start]
    \* History, for the properties only.
    waited,             \* ticks since a process began to wait
    sounded,            \* ticks since playSound
    leftOpen,           \* names in use when main was called last
    ended,              \* the wait or sound this step ended
    stale               \* the stale pointers this step used

vars == <<calls, timer, phase, sched, keyboardBuffer, stack, table, pc, local,
          waited, sounded, leftOpen, ended, stale>>
kernelVars == <<calls, phase, sched, keyboardBuffer, stack, table, leftOpen>>
procVars == <<pc, local, waited>>

Waiting == {p \in Procs : pc[p] \in {"sleep", "loop"}}
Counting == {p \in Procs : pc[p] = "fault" \/ (pc[p] = "sleep" /\ local[p].counter > 0)}
Idle == [counter |-> 0, start |-> 0]
Nothing == [kind |-> "none"]
Need(p) == IF pc[p] = "sleep" THEN SLEEP_MILLIS ELSE LOOP_MILLIS
MaxWaited == ((SLEEP_MILLIS + LOOP_MILLIS) \div PERIOD_MILLIS) + Slack    \* more is no different
Count(w) == IF w < MaxWaited THEN w + 1 ELSE w

\* This step ends no wait and no sound; it uses no stale pointer.
NoneEnds == ended' = Nothing
NoneStale == stale' = {}
Used(pointer, what) == IF pointer = "stale" THEN {what} ELSE {}

\* Seeded fault: currentProcess survives the restart.
NewSchedulerKeeps(s) ==
    [schedulerEnabled |-> FALSE, readyQueue |-> "fresh",
     currentProcess |-> IF s.currentProcess = "null" THEN "null" ELSE "stale"]

NewScheduler(s) ==
    [schedulerEnabled |-> FALSE, currentProcess |-> "null", readyQueue |-> "fresh"]

\* main up to load_idt, which turns interrupts on.
Init ==
    /\ calls \in Programs
    /\ timer = TimerInit
    /\ phase = "idt"
    /\ sched = NewScheduler([currentProcess |-> "null"])
    /\ keyboardBuffer = "null"
    /\ stack = "boot"
    /\ table = [n \in Names |-> [sem |-> "null", refCount |-> 0]]
    /\ pc = [p \in Procs |-> "none"]
    /\ local = [p \in Procs |-> Idle]
    /\ waited = [p \in Procs |-> 0]
    /\ sounded = 0
    /\ leftOpen = {}
    /\ ended = Nothing
    /\ stale = {}

-----------------------------------------------------------------------------
(* Interrupts *)

MayReturn(p) ==
    \/ pc[p] = "sleep" /\ Slept(timer, local[p].start, SLEEP_MILLIS)
    \/ pc[p] = "loop" /\ Passed(timer, local[p].start, LOOP_MILLIS)

\* Every process that finds its wait over runs within Slack ticks.
NobodyOverdue ==
    \A p \in Waiting : MayReturn(p) => waited[p] * PERIOD_MILLIS < Need(p) + Slack * PERIOD_MILLIS

\* timer_handler comes first in schedule, whether the timer or a process that
\* blocks or yields called it, and whether the scheduler is enabled or not.  The
\* first dispatch leaves main's stack for good: there is no current process to
\* save it in.
schedule(counts) ==
    /\ NobodyOverdue
    /\ timer' = timer_handler(timer)
    /\ waited' = [p \in Procs |-> IF counts /\ p \in Waiting THEN Count(waited[p]) ELSE waited[p]]
    /\ sounded' = IF counts /\ timer'.sound_playing THEN sounded + 1 ELSE 0
    /\ ended' = IF timer.sound_playing /\ ~timer'.sound_playing
                THEN [kind |-> "sound", passed |-> sounded + (IF counts THEN 1 ELSE 0),
                      need |-> timer.sound_duration, start |-> 0]
                ELSE Nothing
    /\ IF sched.schedulerEnabled
       THEN /\ stale' = Used(stack, "stack") \cup Used(sched.currentProcess, "scheduler")
                           \cup Used(sched.readyQueue, "scheduler")
            /\ sched' = [sched EXCEPT !.currentProcess = "fresh"]
            /\ phase' = IF phase = "enabled" THEN "init" ELSE phase
            /\ stack' = "fresh"
       ELSE stale' = Used(stack, "stack") /\ UNCHANGED <<sched, phase, stack>>
    /\ UNCHANGED <<calls, keyboardBuffer, table, leftOpen, pc, local>>

timerInterrupt == schedule(TRUE)

\* int 20h of a process that yields or blocks: a tick, but no time passes.
forceSchedulerCall ==
    /\ \E p \in Procs : pc[p] = "user"
    /\ schedule(CountForced)

keyboardInterrupt ==
    /\ stale' = Used(stack, "stack") \cup Used(keyboardBuffer, "keyboard")
    /\ NoneEnds
    /\ UNCHANGED <<timer, kernelVars, procVars, sounded>>

-----------------------------------------------------------------------------
(* Boot *)

enableScheduler ==
    /\ phase = "idt"
    /\ phase' = "enabled"
    /\ sched' = [sched EXCEPT !.schedulerEnabled = TRUE]
    /\ NoneEnds /\ stale' = Used(stack, "stack")
    /\ UNCHANGED <<calls, timer, keyboardBuffer, stack, table, leftOpen, procVars, sounded>>

\* The keyboard's pipe, the driver's end of it, and the shell.
initProcessEntry ==
    /\ phase = "init"
    /\ phase' = "up"
    /\ keyboardBuffer' = "fresh"
    /\ NoneEnds /\ NoneStale
    /\ UNCHANGED <<calls, timer, sched, stack, table, leftOpen, procVars, sounded>>

\* The end of the countdown: sleep returned with interrupts off, and main runs
\* as far as load_idt before anything else does, on the stack of the process that
\* faulted: mem_init has taken its memory back.
main ==
    /\ phase' = "idt"
    /\ sched' = NewScheduler(sched)
    /\ keyboardBuffer' = "stale"
    /\ stack' = "stale"
    /\ table' = [n \in Names |-> [table[n] EXCEPT !.sem = IF @ = "fresh" THEN "stale" ELSE @]]
    /\ pc' = [p \in Procs |-> "none"]
    /\ local' = [p \in Procs |-> Idle]
    /\ waited' = [p \in Procs |-> 0]
    /\ leftOpen' = {n \in Names : table[n].refCount > 0}
    /\ stale' = {"stack"}
    /\ UNCHANGED calls

-----------------------------------------------------------------------------
(* Processes *)

Becomes(p, state, counter) ==
    /\ pc' = [pc EXCEPT ![p] = state]
    /\ local' = [local EXCEPT ![p] = [counter |-> counter,
                    start |-> IF state \in {"sleep", "loop"} THEN milliseconds_elapsed(timer) ELSE 0]]
    /\ waited' = [waited EXCEPT ![p] = 0]

\* A process is created by the shell; killed, or done, at any time.
Begins(p) ==
    /\ phase = "up" /\ pc[p] = "none"
    /\ Becomes(p, "user", 0)
    /\ NoneEnds /\ NoneStale
    /\ UNCHANGED <<timer, kernelVars, sounded>>

Ends(p) ==
    /\ pc[p] # "none"
    /\ Becomes(p, "none", 0)
    /\ NoneEnds /\ NoneStale
    /\ UNCHANGED <<timer, kernelVars, sounded>>

sysPlaySound(p, frequency, duration_ms) ==
    /\ pc[p] = "user" /\ "sound" \in calls
    /\ timer' = playSound(timer, frequency, duration_ms)
    /\ sounded' = 0
    /\ NoneEnds /\ NoneStale
    /\ UNCHANGED <<kernelVars, procVars>>

sysSleep(p) ==
    /\ pc[p] = "user" /\ "sleep" \in calls
    /\ Becomes(p, "sleep", 0)
    /\ NoneEnds /\ NoneStale
    /\ UNCHANGED <<timer, kernelVars, sounded>>

loopCommand(p) ==
    /\ \/ pc[p] = "user" /\ "loop" \in calls /\ NoneEnds
       \/ /\ pc[p] = "loop" /\ Passed(timer, local[p].start, LOOP_MILLIS)
          /\ ended' = [kind |-> "loop", passed |-> waited[p], need |-> LOOP_MILLIS,
                       start |-> local[p].start]
    /\ Becomes(p, "loop", 0)
    /\ NoneStale
    /\ UNCHANGED <<timer, kernelVars, sounded>>

\* zeroCommand and invalidCommand.
Faults(p) ==
    /\ pc[p] = "user" /\ "fault" \in calls
    /\ Becomes(p, "fault", 0)
    /\ NoneEnds /\ NoneStale
    /\ UNCHANGED <<timer, kernelVars, sounded>>

\* print_registers writes to STDOUT and may wait there; then the countdown.
handle_exception(p) ==
    /\ pc[p] = "fault"
    /\ Becomes(p, "sleep", COUNTDOWN)
    /\ NoneEnds /\ NoneStale
    /\ UNCHANGED <<timer, kernelVars, sounded>>

\* Seeded fault: sleep returns when the clock has reached a sum kept in 32 bits.
sleepReturnsByTarget(p) ==
    /\ pc[p] = "sleep"
    /\ milliseconds_elapsed(timer) >= ToInt(local[p].start + SLEEP_MILLIS)
    /\ ended' = [kind |-> "sleep", passed |-> waited[p], need |-> SLEEP_MILLIS,
                 start |-> local[p].start]

sleepReturns(p) ==
    /\ pc[p] = "sleep"
    /\ Slept(timer, local[p].start, SLEEP_MILLIS)
    /\ ended' = [kind |-> "sleep", passed |-> waited[p], need |-> SLEEP_MILLIS,
                 start |-> local[p].start]

\* To its caller, to the next number of the countdown, or to main.
sleep(p) ==
    /\ sleepReturns(p)
    /\ CASE local[p].counter = 0 -> Becomes(p, "user", 0) /\ NoneStale /\ UNCHANGED kernelVars
         [] local[p].counter > 1 -> Becomes(p, "sleep", local[p].counter - 1)
                                    /\ NoneStale /\ UNCHANGED kernelVars
         [] local[p].counter = 1 -> main
    /\ UNCHANGED <<timer, sounded>>

\* A name left open across a restart is found, with its semaphore.
sharedSemOpen(p, n) ==
    /\ pc[p] = "user" /\ "sem" \in calls /\ table[n].refCount < MaxRefs
    /\ table' = [table EXCEPT ![n] = [sem |-> IF @.refCount > 0 THEN @.sem ELSE "fresh",
                                      refCount |-> @.refCount + 1]]
    /\ NoneEnds /\ NoneStale
    /\ UNCHANGED <<calls, timer, phase, sched, keyboardBuffer, stack, leftOpen, procVars, sounded>>

sharedSemClose(p, n) ==
    /\ pc[p] = "user" /\ "sem" \in calls /\ table[n].refCount > 0
    /\ table' = [table EXCEPT ![n] = [sem |-> IF @.refCount > 1 THEN @.sem ELSE "null",
                                      refCount |-> @.refCount - 1]]
    /\ stale' = IF table[n].refCount = 1 THEN Used(table[n].sem, n) ELSE {}
    /\ NoneEnds
    /\ UNCHANGED <<calls, timer, phase, sched, keyboardBuffer, stack, leftOpen, procVars, sounded>>

\* sharedSemWait or sharedSemPost.
sharedSemUse(p, n) ==
    /\ pc[p] = "user" /\ "sem" \in calls /\ table[n].refCount > 0
    /\ stale' = Used(table[n].sem, n) /\ NoneEnds
    /\ UNCHANGED <<timer, kernelVars, procVars, sounded>>

Next ==
    \/ timerInterrupt
    \/ forceSchedulerCall
    \/ keyboardInterrupt
    \/ enableScheduler
    \/ initProcessEntry
    \/ \E p \in Procs : Begins(p)
    \/ \E p \in Procs : Ends(p)
    \/ \E p \in Procs, f \in {0, 1}, d \in Durations : sysPlaySound(p, f, d)
    \/ \E p \in Procs : sysSleep(p)
    \/ \E p \in Procs : loopCommand(p)
    \/ \E p \in Procs : Faults(p)
    \/ \E p \in Procs : handle_exception(p)
    \/ \E p \in Procs : sleep(p)
    \/ \E p \in Procs, n \in Names : sharedSemOpen(p, n)
    \/ \E p \in Procs, n \in Names : sharedSemClose(p, n)
    \/ \E p \in Procs, n \in Names : sharedSemUse(p, n)

Spec == Init /\ [][Next]_vars

\* The timer ticks and dispatches whoever can run; what is written to STDOUT is
\* read, by the terminal or the next stage.
FairSpec ==
    /\ Spec
    /\ WF_vars(timerInterrupt) /\ WF_vars(enableScheduler) /\ WF_vars(initProcessEntry)
    /\ \A p \in Procs : WF_vars(sleep(p)) /\ WF_vars(loopCommand(p) /\ pc[p] = "loop")
                        /\ WF_vars(handle_exception(p))

-----------------------------------------------------------------------------
(* Properties *)

LongEnough(e) == e.passed * PERIOD_MILLIS >= e.need

\* A wait the 32-bit signed clock breaks: it begins before 2^31 milliseconds and
\* would end after, or, in loopCommand, begins below 0 and would end above.
AcrossTheSign(e) ==
    \/ e.start >= 0 /\ e.start + e.need > Wrap \div 2
    \/ e.kind = "loop" /\ e.start < 0 /\ e.start + e.need >= 0

\* sleep, loop and the speaker last as long as they were asked to on the tick
\* counter, whoever else ticks, sounds, faults or restarts; a sound also ends at
\* the first tick after its time.  A sound survives the clock's overflow; sleep
\* and loop are excused when they meet it.
TimesAreKept ==
    /\ ended.kind # "none" =>
         LongEnough(ended) \/ (ended.kind # "sound" /\ AcrossTheSign(ended))
    /\ timer.speaker = timer.sound_playing
    /\ timer.speaker => sounded * PERIOD_MILLIS < timer.sound_duration

\* The same without the excuse: it fails after 2^31 milliseconds.
TimesAreAlwaysKept == ended.kind # "none" => LongEnough(ended)

\* What a step of a boot may use of the boots before it: names that were left open
\* at a restart; the keyboard's end of its pipe until init has made another; and
\* the stack main runs on until the first dispatch.
Known ==
    leftOpen \cup (IF phase = "up" THEN {} ELSE {"keyboard"})
             \cup (IF phase \in {"idt", "enabled"} \/ phase' = "idt" THEN {"stack"} ELSE {})

\* After a restart no step uses anything else of the boots before (no process, no
\* queue of theirs), whatever was open, asleep or counting down at the fault.
NothingElseStale == [][stale' \subseteq Known]_vars

\* The same without the exceptions: it fails.
NothingStale == stale = {}

\* Who faults ends, and the system is up after it: its countdown runs out and the
\* restart comes through, or it is killed before.
FaultEndsInPrompt == \A p \in Procs : p \in Counting ~> (pc[p] = "none" /\ phase = "up")
=============================================================================
