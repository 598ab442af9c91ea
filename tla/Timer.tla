-------------------------------- MODULE Timer -------------------------------
(***************************************************************************)
(* The tick counter and the speaker, as operators on their static          *)
(* variables t.  The tone is left out: the speaker sounds or does not.     *)
(*   Kernel/interruptions/timer.c, Kernel/Drivers/soundDriver.c            *)
(*                                                                         *)
(* milliseconds_elapsed returns an int, so the clock has 32 bits and a     *)
(* sign.  Wrap stands for 2^32 and Huge for 2^64.  Ticks are kept modulo   *)
(* Wrap: nothing reads more of them than that.                             *)
(***************************************************************************)
EXTENDS Integers

CONSTANTS PERIOD_MILLIS, Wrap

ASSUME TimerAssumption ==
    /\ PERIOD_MILLIS \in Nat \ {0}
    /\ Wrap \in Nat /\ Wrap % 2 = 0 /\ Wrap > 4 * PERIOD_MILLIS

Huge == 4 * Wrap
ToInt(x) == IF x % Wrap < Wrap \div 2 THEN x % Wrap ELSE (x % Wrap) - Wrap
ToUint32(x) == x % Wrap
ToUint64(x) == x % Huge

TimerInit ==
    [ticks |-> 0, speaker |-> FALSE,
     sound_playing |-> FALSE, sound_start_time |-> 0, sound_duration |-> 0]

milliseconds_elapsed(t) == ToInt(t.ticks * PERIOD_MILLIS)

\* The condition on which sleep(millis) returns, having read start on entry.
Slept(t, start, millis) ==
    ToUint64(milliseconds_elapsed(t) - ToUint64(start)) >= millis

\* The condition on which loopCommand prints again.
Passed(t, start, millis) ==
    ToUint64(milliseconds_elapsed(t)) >= ToUint64(ToUint64(start) + millis)

setSpeakerFrequency(t, frequency) == [t EXCEPT !.speaker = frequency # 0]

stopSound(t) ==
    setSpeakerFrequency([t EXCEPT !.sound_playing = FALSE, !.sound_start_time = 0,
                                  !.sound_duration = 0], 0)

playSound(t, frequency, duration_ms) ==
    IF frequency = 0 \/ duration_ms = 0 THEN stopSound(t)
    ELSE setSpeakerFrequency(
           [t EXCEPT !.sound_playing = TRUE,
                     !.sound_start_time = ToUint32(milliseconds_elapsed(t)),
                     !.sound_duration = duration_ms], frequency)

\* Seeded fault: the end of the sound is compared as a signed number.
isSoundPlayingSigned(t) ==
    IF t.sound_playing
       /\ milliseconds_elapsed(t) >= t.sound_start_time + t.sound_duration
    THEN stopSound(t) ELSE t

isSoundPlaying(t) ==
    IF t.sound_playing
       /\ ToUint32(milliseconds_elapsed(t) - t.sound_start_time) >= t.sound_duration
    THEN stopSound(t) ELSE t

timer_handler(t) == isSoundPlaying([t EXCEPT !.ticks = (@ + 1) % Wrap])
=============================================================================
