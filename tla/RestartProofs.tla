---------------------------- MODULE RestartProofs ---------------------------
(* Waits, sounds and restarts, for every period, wrap and set of processes. *)
EXTENDS Restart, TLAPS

-----------------------------------------------------------------------------
(* Arithmetic of the clock *)

Half == Wrap \div 2
Ints == -Half .. Half - 1

\* What TimerAssumption says of the constants, for the provers.
LEMMA ClockFacts ==
    /\ PERIOD_MILLIS \in Nat \ {0} /\ Wrap \in Nat \ {0} /\ Huge \in Nat \ {0}
    /\ Half \in Nat \ {0} /\ Wrap = 2 * Half /\ Huge = 4 * Wrap
  BY TimerAssumption DEF Half, Huge

\* Division with remainder.
LEMMA Remainder ==
    ASSUME NEW W \in Nat \ {0}, NEW a \in Int
    PROVE  /\ a % W \in 0 .. W - 1
           /\ \E k \in Int : a = W * k + (a % W)
<1> DEFINE q == a \div W
           r == a % W
<1>1. q \in Int /\ r \in Int /\ a = W * q + r /\ 0 <= r /\ r < W
  OBVIOUS
<1> HIDE DEF q, r
<1>2. r \in 0 .. W - 1
  BY <1>1
<1>. QED
  BY <1>1, <1>2, Zenon DEF r

\* The remainder is the only one.
LEMMA RemainderIsUnique ==
    ASSUME NEW W \in Nat \ {0}, NEW a \in Int, NEW k \in Int, NEW r \in 0 .. W - 1,
           a = W * k + r
    PROVE  a % W = r
<1>1. PICK m \in Int : a = W * m + (a % W)
  BY Remainder
<1> DEFINE s == a % W
<1>2. s \in 0 .. W - 1 /\ W * m + s = W * k + r
  BY <1>1, Remainder, Zenon
<1> HIDE DEF s
<1>3. W * (m - k) = r - s
  BY <1>2
<1>4. m - k < 1
  <2> SUFFICES ASSUME m - k >= 1 PROVE FALSE
    OBVIOUS
  <2>1. W * (m - k) >= W
    OBVIOUS
  <2>. QED
    BY <1>2, <1>3, <2>1
<1>5. m - k > -1
  <2> SUFFICES ASSUME m - k <= -1 PROVE FALSE
    OBVIOUS
  <2>1. W * (m - k) <= -W
    OBVIOUS
  <2>. QED
    BY <1>2, <1>3, <2>1
<1>6. m = k
  BY <1>4, <1>5
<1>7. s = r
  BY <1>2, <1>6
<1>. QED
  BY <1>7 DEF s

\* Numbers below the modulus, and negative ones that are less than it away.
LEMMA SmallRemainders ==
    ASSUME NEW W \in Nat \ {0}
    PROVE  /\ \A x \in 0 .. W - 1 : x % W = x
           /\ \A x \in -W .. -1 : x % W = x + W
<1>1. ASSUME NEW x \in 0 .. W - 1
      PROVE  x % W = x
  <2>1. x = W * 0 + x /\ x \in Int /\ 0 \in Int
    OBVIOUS
  <2>. QED
    BY <2>1, RemainderIsUnique, Zenon
<1>2. ASSUME NEW x \in -W .. -1
      PROVE  x % W = x + W
  <2>1. x = W * (-1) + (x + W) /\ x \in Int /\ -1 \in Int /\ x + W \in 0 .. W - 1
    OBVIOUS
  <2>. QED
    BY <2>1, RemainderIsUnique, Zenon
<1>. QED
  BY <1>1, <1>2

\* Equal remainders stay equal under the same shift.
LEMMA SameShift ==
    ASSUME NEW W \in Nat \ {0}, NEW a \in Int, NEW b \in Int, NEW c \in Int, a % W = b % W
    PROVE  (a + c) % W = (b + c) % W
<1>0. a + c \in Int /\ b + c \in Int
  OBVIOUS
<1>1. PICK k \in Int : a = W * k + (a % W)
  BY Remainder
<1>2. PICK m \in Int : b = W * m + (b % W)
  BY Remainder
<1>3. PICK n \in Int : b + c = W * n + ((b + c) % W)
  BY <1>0, Remainder, Zenon
<1> DEFINE r == (b + c) % W
           s == b % W
<1>4. r \in 0 .. W - 1 /\ s \in 0 .. W - 1
  BY <1>0, Remainder, Zenon
<1>5. a = W * k + s /\ b = W * m + s /\ b + c = W * n + r
  BY <1>1, <1>2, <1>3, Zenon
<1> HIDE DEF r, s
<1>6. a + c = W * (n + k - m) + r /\ n + k - m \in Int
  BY <1>4, <1>5
<1>7. (a + c) % W = r
  BY <1>0, <1>4, <1>6, RemainderIsUnique, Zenon
<1>. QED
  BY <1>7 DEF r

\* A multiple of the ticks counted modulo Wrap is that multiple modulo Wrap.
LEMMA TickShift ==
    ASSUME NEW T \in Int
    PROVE  (((T + 1) % Wrap) * PERIOD_MILLIS) % Wrap = (T * PERIOD_MILLIS + PERIOD_MILLIS) % Wrap
<1> DEFINE P == PERIOD_MILLIS
           W == Wrap
           r == (T + 1) % W
           x == T * P + P
           y == x % W
<1>0. P \in Nat \ {0} /\ W \in Nat \ {0} /\ T * P \in Int /\ T + 1 \in Int
  BY ClockFacts
<1> HIDE DEF P, W
<1>1. r \in 0 .. W - 1
  BY <1>0, Remainder, Zenon
<1>2. PICK k \in Int : T + 1 = W * k + r
  BY <1>0, Remainder, Zenon
<1>3. y \in 0 .. W - 1
  BY <1>0, Remainder
<1>4. PICK m \in Int : x = W * m + y
  <2>1. x \in Int
    BY <1>0
  <2> HIDE DEF x
  <2>. QED
    BY <1>0, <2>1, Remainder
<1>5. x = (T + 1) * P
  BY <1>0
<1> HIDE DEF r, x, y
<1>6. r * P = W * (m - k * P) + y
  <2>1. r = (T + 1) - W * k
    BY <1>0, <1>1, <1>2
  <2>2. r * P = x - (W * k) * P
    BY <1>0, <1>5, <2>1
  <2>. QED
    BY <1>0, <1>3, <1>4, <2>2
<1>7. r * P \in Int /\ m - k * P \in Int
  BY <1>0, <1>1
<1>8. (r * P) % W = y
  BY <1>0, <1>3, <1>6, <1>7, RemainderIsUnique, Zenon
<1>. QED
  BY <1>8 DEF P, W, r, x, y

\* The cast to int keeps the remainder, and is the only int with it.
LEMMA ToIntIs ==
    ASSUME NEW x \in Int
    PROVE  /\ ToInt(x) \in Ints /\ ToInt(x) % Wrap = x % Wrap
           /\ \A y \in Ints : x % Wrap = y % Wrap => ToInt(x) = y
<1> DEFINE r == x % Wrap
<1>0. Wrap \in Nat \ {0} /\ Half \in Nat \ {0} /\ Wrap = 2 * Half
  BY ClockFacts
<1>1. r \in 0 .. Wrap - 1
  BY <1>0, Remainder
<1>2. /\ \A y \in 0 .. Wrap - 1 : y % Wrap = y
      /\ \A y \in -Wrap .. -1 : y % Wrap = y + Wrap
  BY <1>0, SmallRemainders, Zenon
<1>3. ToInt(x) = IF r < Half THEN r ELSE r - Wrap
  BY Zenon DEF ToInt, Half
<1> HIDE DEF r
<1>4. ToInt(x) \in Ints
  BY <1>0, <1>1, <1>3 DEF Ints
<1>5. ToInt(x) % Wrap = r
  <2>1. CASE r < Half
    BY <1>1, <1>2, <1>3, <2>1, Zenon
  <2>2. CASE ~(r < Half)
    <3>1. r - Wrap \in -Wrap .. -1 /\ (r - Wrap) + Wrap = r
      BY <1>0, <1>1
    <3>. QED
      BY <1>2, <1>3, <2>2, <3>1, Zenon
  <2>. QED
    BY <2>1, <2>2
<1>6. ASSUME NEW y \in Ints, r = y % Wrap
      PROVE  ToInt(x) = y
  <2>1. CASE y >= 0
    <3>1. y \in 0 .. Wrap - 1 /\ y < Half
      BY <1>0, <2>1 DEF Ints
    <3>2. r = y
      BY <1>2, <1>6, <3>1, Zenon
    <3>. QED
      BY <1>3, <3>1, <3>2
  <2>2. CASE y < 0
    <3>1. y \in -Wrap .. -1 /\ ~(y + Wrap < Half) /\ (y + Wrap) - Wrap = y
      BY <1>0, <2>2 DEF Ints
    <3>2. r = y + Wrap
      BY <1>2, <1>6, <3>1, Zenon
    <3>. QED
      BY <1>3, <3>1, <3>2
  <2>. QED
    BY <1>0, <2>1, <2>2 DEF Ints
<1>. QED
  BY <1>4, <1>5, <1>6 DEF r

\* As long as the clock is less than millis past start, sleep goes on.
LEMMA NotYetSlept ==
    ASSUME NEW m \in Ints, NEW s \in Ints, NEW millis \in Nat, m >= s, m - s < millis
    PROVE  ~(ToUint64(m - ToUint64(s)) >= millis)
<1>0. /\ Huge \in Nat \ {0} /\ Half \in Nat \ {0} /\ Huge = 8 * Half
      /\ m \in Int /\ s \in Int /\ -Half <= s /\ s < Half /\ -Half <= m /\ m < Half
  BY ClockFacts DEF Ints
<1>1. /\ \A x \in 0 .. Huge - 1 : x % Huge = x
      /\ \A x \in -Huge .. -1 : x % Huge = x + Huge
  BY <1>0, SmallRemainders, Zenon
<1>2. m - s \in 0 .. Huge - 1 /\ m - (s + Huge) \in -Huge .. -1 /\ (m - (s + Huge)) + Huge = m - s
  BY <1>0
<1>3. (m - s) % Huge = m - s /\ (m - (s + Huge)) % Huge = m - s
  BY <1>1, <1>2, Zenon
<1>4. s % Huge = s \/ s % Huge = s + Huge
  <2>1. s \in 0 .. Huge - 1 \/ s \in -Huge .. -1
    BY <1>0
  <2>. QED
    BY <1>1, <2>1, Zenon
<1>5. ToUint64(m - ToUint64(s)) = m - s
  BY <1>3, <1>4, Zenon DEF ToUint64
<1>. QED
  BY <1>0, <1>5

\* The same of loopCommand, unless its end is on the other side of zero.
LEMMA NotYetPassed ==
    ASSUME NEW m \in Ints, NEW s \in Ints, NEW millis \in Nat, m >= s, m - s < millis,
           millis < Half, s >= 0 \/ s + millis < 0
    PROVE  ~(ToUint64(m) >= ToUint64(ToUint64(s) + millis))
<1>0. /\ Huge \in Nat \ {0} /\ Half \in Nat \ {0} /\ Huge = 8 * Half
      /\ m \in Int /\ s \in Int /\ -Half <= s /\ s < Half /\ -Half <= m /\ m < Half
  BY ClockFacts DEF Ints
<1>1. /\ \A x \in 0 .. Huge - 1 : x % Huge = x
      /\ \A x \in -Huge .. -1 : x % Huge = x + Huge
  BY <1>0, SmallRemainders, Zenon
<1>2. CASE s >= 0
  <2>1. s \in 0 .. Huge - 1 /\ s + millis \in 0 .. Huge - 1 /\ m \in 0 .. Huge - 1
    BY <1>0, <1>2
  <2>2. ToUint64(m) = m /\ ToUint64(ToUint64(s) + millis) = s + millis
    BY <1>1, <2>1, Zenon DEF ToUint64
  <2>. QED
    BY <1>0, <2>2
<1>3. CASE s + millis < 0
  <2>1. /\ s \in -Huge .. -1 /\ m \in -Huge .. -1
        /\ (s + Huge) + millis \in 0 .. Huge - 1
    BY <1>0, <1>3
  <2>2. ToUint64(m) = m + Huge /\ ToUint64(ToUint64(s) + millis) = (s + Huge) + millis
    BY <1>1, <2>1, Zenon DEF ToUint64
  <2>. QED
    BY <1>0, <2>2
<1>. QED
  BY <1>2, <1>3

-----------------------------------------------------------------------------
(* Waits and sounds *)

Timers == [ticks : 0 .. Wrap - 1, speaker : BOOLEAN, sound_playing : BOOLEAN,
           sound_start_time : 0 .. Wrap - 1, sound_duration : Nat]
PCs == {"none", "user", "sleep", "loop", "fault"}

\* The clock reads n periods after s, up to a multiple of Wrap.
Reads(t, s, n) == (s + n * PERIOD_MILLIS) % Wrap = (t.ticks * PERIOD_MILLIS) % Wrap

\* The speaker is on for as long as sound_playing says; n counts the ticks since.
SoundOK(t, n) ==
    /\ t \in Timers /\ n \in Nat /\ t.speaker = t.sound_playing
    /\ t.sound_playing =>
          /\ t.sound_duration \in Durations /\ n * PERIOD_MILLIS < t.sound_duration
          /\ Reads(t, t.sound_start_time, n)

\* n is the number of ticks since the clock read s, while it matters.
ElapsedOK(t, s, n) ==
    /\ s \in Ints /\ n \in 0 .. MaxWaited
    /\ n < MaxWaited => Reads(t, s, n)

WaitsOK(t, at, l, w) ==
    /\ at \in [Procs -> PCs] /\ l \in [Procs -> [counter : Nat, start : Int]] /\ w \in [Procs -> Nat]
    /\ \A p \in Procs : at[p] \in {"sleep", "loop"} => ElapsedOK(t, l[p].start, w[p])

EndOK(e) == e.kind # "none" => LongEnough(e) \/ (e.kind # "sound" /\ AcrossTheSign(e))

TimeInv == SoundOK(timer, sounded) /\ WaitsOK(timer, pc, local, waited) /\ EndOK(ended)

\* The waits are shorter than half the clock and than what waited counts to; a
\* sound and a tick are shorter than the clock.
LEMMA LengthFacts ==
    /\ Slack \in Nat \ {0} /\ COUNTDOWN \in Nat /\ MaxWaited \in Nat
    /\ \A d \in {SLEEP_MILLIS, LOOP_MILLIS} :
          d \in Nat /\ d < Half /\ d <= MaxWaited * PERIOD_MILLIS
    /\ \A d \in Durations : d \in Nat /\ d + PERIOD_MILLIS < Wrap
<1> DEFINE P == PERIOD_MILLIS
           S == SLEEP_MILLIS + LOOP_MILLIS
           q == S \div P
           r == S % P
<1>0. /\ P \in Nat \ {0} /\ Slack \in Nat \ {0} /\ COUNTDOWN \in Nat
      /\ SLEEP_MILLIS \in Nat /\ LOOP_MILLIS \in Nat
      /\ \A d \in Durations : d \in Nat /\ d + P < Wrap
  BY ClockFacts, RestartAssumption
<1>1. q \in Int /\ r \in Int /\ S = P * q + r /\ 0 <= r /\ r < P
  BY <1>0
<1>2. MaxWaited = q + Slack
  BY DEF MaxWaited
<1> HIDE DEF q, r, P
<1>3. q >= 0
  <2> SUFFICES ASSUME q <= -1 PROVE FALSE
    BY <1>1
  <2>1. P * q <= -P
    BY <1>0, <1>1
  <2>. QED
    BY <1>0, <1>1, <2>1
<1>4. MaxWaited \in Nat
  BY <1>0, <1>1, <1>2, <1>3
<1>5. S <= MaxWaited * P
  <2>1. MaxWaited * P = P * q + P * Slack
    BY <1>0, <1>1, <1>2
  <2>2. P * Slack >= P
    BY <1>0
  <2>. QED
    BY <1>0, <1>1, <2>1, <2>2
<1>6. ASSUME NEW d \in {SLEEP_MILLIS, LOOP_MILLIS}
      PROVE  d \in Nat /\ d < Half /\ d <= MaxWaited * P
  <2>1. 2 * (d + (Slack + 2) * P) < 2 * Half /\ Half \in Nat
    BY ClockFacts, RestartAssumption DEF P
  <2>2. (Slack + 2) * P >= 0 /\ (Slack + 2) * P \in Int
    BY <1>0
  <2>3. d \in Nat /\ d <= S /\ S \in Int /\ MaxWaited * P \in Int
    BY <1>0, <1>4
  <2> HIDE DEF S
  <2>. QED
    BY <1>5, <2>1, <2>2, <2>3
<1>. QED
  BY <1>0, <1>4, <1>6 DEF P

\* Before its time is over, and short of the signs, the clock is n periods on.
LEMMA ClockIsExact ==
    ASSUME NEW t \in Timers, NEW s \in Ints, NEW n \in Nat, Reads(t, s, n),
           s + n * PERIOD_MILLIS < Half
    PROVE  milliseconds_elapsed(t) = s + n * PERIOD_MILLIS
<1> DEFINE y == s + n * PERIOD_MILLIS
           x == t.ticks * PERIOD_MILLIS
<1>1. y \in Int /\ y >= s /\ x \in Int
  BY ClockFacts DEF Ints, Timers
<1>2. x % Wrap = y % Wrap
  BY DEF Reads
<1> HIDE DEF x, y
<1>3. y \in Ints
  BY <1>1, ClockFacts DEF Ints, y
<1>4. ToInt(x) = y
  BY <1>1, <1>2, <1>3, ToIntIs, Zenon
<1>. QED
  BY <1>4 DEF x, y, milliseconds_elapsed

\* A tick is one period more.
LEMMA ReadsOn ==
    ASSUME NEW t \in Timers, NEW u, u.ticks = (t.ticks + 1) % Wrap,
           NEW s \in Int, NEW n \in Nat, Reads(t, s, n)
    PROVE  Reads(u, s, n + 1)
<1> DEFINE P == PERIOD_MILLIS
           x == s + n * P
           y == t.ticks * P
<1>1. P \in Int /\ x \in Int /\ y \in Int /\ t.ticks \in Int /\ Wrap \in Nat \ {0}
  BY ClockFacts DEF Timers
<1>2. s + (n + 1) * P = x + P
  BY <1>1
<1>3. x % Wrap = y % Wrap
  BY DEF Reads
<1>4. (u.ticks * P) % Wrap = (y + P) % Wrap
  BY <1>1, TickShift, Zenon
<1> HIDE DEF P, x, y
<1>5. (x + P) % Wrap = (y + P) % Wrap
  BY <1>1, <1>3, SameShift, ZenonT(30)
<1>. QED
  BY <1>2, <1>4, <1>5, Zenon DEF Reads, P

\* stopSound leaves the clock alone.
LEMMA Stopped ==
    ASSUME NEW t \in Timers
    PROVE  LET u == stopSound(t) IN
           u \in Timers /\ u.ticks = t.ticks /\ u.sound_playing = FALSE /\ u.speaker = FALSE
<1> DEFINE u == stopSound(t)
<1>1. u = [t EXCEPT !.sound_playing = FALSE, !.sound_start_time = 0, !.sound_duration = 0,
                    !.speaker = FALSE]
  <2>1. (0 # 0) = FALSE
    OBVIOUS
  <2>. QED
    BY <2>1, Zenon DEF stopSound, setSpeakerFrequency
<1> HIDE DEF u
<1>2. u.ticks = t.ticks /\ u.sound_playing = FALSE /\ u.speaker = FALSE
  BY <1>1 DEF Timers
<1>3. u \in Timers
  <2>1. 0 \in 0 .. Wrap - 1 /\ 0 \in Nat
    BY ClockFacts
  <2> DEFINE Z == 0 .. Wrap - 1
  <2>2. t \in [ticks : Z, speaker : BOOLEAN, sound_playing : BOOLEAN,
               sound_start_time : Z, sound_duration : Nat] /\ 0 \in Z
    BY <2>1 DEF Timers
  <2> HIDE DEF Z
  <2>3. u \in [ticks : Z, speaker : BOOLEAN, sound_playing : BOOLEAN,
               sound_start_time : Z, sound_duration : Nat]
    BY <1>1, <2>1, <2>2
  <2>. QED
    BY <2>3 DEF Timers, Z
<1>. QED
  BY <1>2, <1>3 DEF u

\* timer_handler ends a sound at the first tick after its time, and no sooner.
LEMMA TickSound ==
    ASSUME NEW t, NEW n, SoundOK(t, n)
    PROVE  LET u == timer_handler(t) IN
           /\ u.ticks = (t.ticks + 1) % Wrap
           /\ SoundOK(u, IF u.sound_playing THEN n + 1 ELSE 0)
           /\ t.sound_playing /\ ~u.sound_playing => (n + 1) * PERIOD_MILLIS >= t.sound_duration
<1> DEFINE P == PERIOD_MILLIS
           v == [t EXCEPT !.ticks = (t.ticks + 1) % Wrap]
           u == timer_handler(t)
           s == t.sound_start_time
           m == milliseconds_elapsed(v)
           e == (n + 1) * P
<1>0. P \in Nat \ {0} /\ Wrap \in Nat \ {0} /\ t \in Timers /\ n \in Nat
  BY ClockFacts DEF SoundOK
<1>1. /\ v \in Timers /\ v.ticks = (t.ticks + 1) % Wrap /\ v.sound_playing = t.sound_playing
      /\ v.sound_duration = t.sound_duration /\ v.sound_start_time = s
      /\ v.speaker = t.speaker /\ stopSound(v) \in Timers /\ ~stopSound(v).sound_playing
      /\ ~stopSound(v).speaker /\ stopSound(v).ticks = v.ticks
  <2>1. (t.ticks + 1) % Wrap \in 0 .. Wrap - 1
    <3>1. t.ticks + 1 \in Int
      BY <1>0 DEF Timers
    <3>. QED
      BY <1>0, <3>1, Remainder, Zenon
  <2> DEFINE k == (t.ticks + 1) % Wrap
  <2>2. k \in 0 .. Wrap - 1
    BY <2>1
  <2> HIDE DEF k
  <2>3. v = [t EXCEPT !.ticks = k]
    BY DEF k
  <2>4. k = (t.ticks + 1) % Wrap
    BY DEF k
  <2> HIDE DEF v
  <2>5. v \in Timers
    BY <1>0, <2>2, <2>3 DEF Timers
  <2>6. /\ v.ticks = k /\ v.sound_playing = t.sound_playing
        /\ v.sound_duration = t.sound_duration /\ v.sound_start_time = t.sound_start_time
        /\ v.speaker = t.speaker
    BY <1>0, <2>3 DEF Timers
  <2>7. /\ stopSound(v) \in Timers /\ stopSound(v).ticks = v.ticks
        /\ stopSound(v).sound_playing = FALSE /\ stopSound(v).speaker = FALSE
    BY <2>5, Stopped, Zenon
  <2>. QED
    BY <2>4, <2>5, <2>6, <2>7, Zenon
<1>2. u = IF v.sound_playing /\ ToUint32(m - v.sound_start_time) >= v.sound_duration
          THEN stopSound(v) ELSE v
  BY DEF timer_handler, isSoundPlaying
<1>3. CASE ~t.sound_playing
  <2>1. u = v
    BY <1>1, <1>2, <1>3
  <2> HIDE DEF u, v
  <2>. QED
    BY <1>0, <1>1, <1>3, <2>1 DEF SoundOK, u
<1>4. CASE t.sound_playing
  <2>1. Reads(v, s, n + 1)
    <3>1. s \in Int /\ Reads(t, s, n)
      BY <1>0, <1>4 DEF SoundOK, Timers
    <3> HIDE DEF v
    <3>. QED
      BY <1>0, <1>1, <3>1, ReadsOn
  <2>2. /\ t.sound_duration \in Durations /\ t.sound_duration \in Nat /\ n * P < t.sound_duration
        /\ t.sound_duration + P < Wrap
    BY <1>4, LengthFacts DEF SoundOK
  <2>3. e = n * P + P /\ e \in 0 .. Wrap - 1 /\ n + 1 \in Nat
    <3>1. n * P \in Nat
      BY <1>0
    <3>2. e = n * P + P
      BY <1>0
    <3> DEFINE k == n * P
    <3> HIDE DEF k, e
    <3>. QED
      BY <1>0, <2>2, <3>1, <3>2 DEF k
  <2>4. ToUint32(m - s) = e
    <3> DEFINE x == v.ticks * P
    <3>1. x \in Int /\ s \in Int /\ e \in Int /\ s + e \in Int
      BY <1>0, <1>1, <2>3 DEF Timers
    <3>2. x % Wrap = (s + e) % Wrap
      BY <2>1, Zenon DEF Reads
    <3>3. m = ToInt(x)
      BY DEF milliseconds_elapsed
    <3> HIDE DEF x, e, m, s
    <3>4. m \in Int /\ m % Wrap = (s + e) % Wrap
      <4>1. ToInt(x) \in Ints /\ ToInt(x) % Wrap = x % Wrap
        BY <3>1, ToIntIs, Zenon
      <4>. QED
        BY <3>2, <3>3, <4>1, ClockFacts DEF Ints
    <3> DEFINE c == 0 - s
    <3>5. c \in Int /\ m + c = m - s /\ (s + e) + c = e
      BY <3>1, <3>4
    <3> DEFINE y == s + e
    <3>y. y \in Int /\ m \in Int /\ m % Wrap = y % Wrap /\ c \in Int
      BY <3>1, <3>4, <3>5
    <3> HIDE DEF c, y
    <3>6. (m + c) % Wrap = (y + c) % Wrap
      BY <1>0, <3>y, SameShift
    <3>8. e % Wrap = e
      BY <1>0, <2>3, SmallRemainders, Zenon
    <3>. QED
      BY <3>5, <3>6, <3>8, Zenon DEF ToUint32, y
  <2>5. CASE e >= t.sound_duration
    <3>1. u = stopSound(v)
      BY <1>1, <1>2, <1>4, <2>4, <2>5
    <3> HIDE DEF u, v, e
    <3>2. u.ticks = (t.ticks + 1) % Wrap /\ ~u.sound_playing /\ u \in Timers /\ ~u.speaker
      BY <1>1, <3>1
    <3>3. SoundOK(u, 0)
      BY <3>2 DEF SoundOK, Timers
    <3>. QED
      BY <2>5, <3>2, <3>3 DEF u, e
  <2>6. CASE ~(e >= t.sound_duration)
    <3>1. u = v
      BY <1>1, <1>2, <1>4, <2>4, <2>6
    <3> HIDE DEF u, v, e
    <3>2. SoundOK(u, n + 1)
      <4>1. u.speaker = u.sound_playing
        BY <1>1, <3>1, Zenon DEF SoundOK
      <4>2. e < u.sound_duration
        BY <1>1, <2>2, <2>3, <2>6, <3>1
      <4>. QED
        BY <1>1, <2>1, <2>2, <2>3, <3>1, <4>1, <4>2, Zenon DEF SoundOK, e
    <3>. QED
      BY <1>1, <1>4, <3>1, <3>2 DEF u
  <2>. QED
    BY <2>5, <2>6
<1>. QED
  BY <1>3, <1>4

\* playSound starts the count afresh and leaves the clock alone.
LEMMA NewSound ==
    ASSUME NEW t, NEW n, SoundOK(t, n), NEW f, NEW d \in Durations
    PROVE  SoundOK(playSound(t, f, d), 0) /\ playSound(t, f, d).ticks = t.ticks
<1> DEFINE u == playSound(t, f, d)
           s == ToUint32(milliseconds_elapsed(t))
           x == t.ticks * PERIOD_MILLIS
<1>0. t \in Timers /\ d \in Nat /\ Wrap \in Nat \ {0} /\ PERIOD_MILLIS \in Nat \ {0}
  BY ClockFacts, LengthFacts DEF SoundOK
<1>1. x \in Int
  BY <1>0 DEF Timers
<1>2. s = x % Wrap /\ s \in 0 .. Wrap - 1 /\ s % Wrap = x % Wrap
  <2> HIDE DEF x
  <2>1. ToInt(x) % Wrap = x % Wrap /\ x % Wrap \in 0 .. Wrap - 1
    BY <1>0, <1>1, ToIntIs, Remainder, Zenon
  <2>2. \A k \in 0 .. Wrap - 1 : k % Wrap = k
    BY <1>0, SmallRemainders, Zenon
  <2>. QED
    BY <2>1, <2>2, Zenon DEF ToUint32, milliseconds_elapsed, x
<1> HIDE DEF s
<1>3. CASE f = 0 \/ d = 0
  <2>1. u = stopSound(t)
    BY <1>3 DEF playSound
  <2>2. u \in Timers /\ u.ticks = t.ticks /\ u.sound_playing = FALSE /\ u.speaker = FALSE
    BY <1>0, <2>1, Stopped, Zenon
  <2> HIDE DEF u
  <2>. QED
    BY <2>2 DEF SoundOK, Timers, u
<1>4. CASE ~(f = 0 \/ d = 0)
  <2>1. u = [t EXCEPT !.sound_playing = TRUE, !.sound_start_time = s, !.sound_duration = d,
                      !.speaker = TRUE]
    BY <1>0, <1>4 DEF playSound, setSpeakerFrequency, s, Timers
  <2> HIDE DEF u
  <2>2. /\ u \in Timers /\ u.ticks = t.ticks /\ u.sound_playing /\ u.speaker
        /\ u.sound_start_time = s /\ u.sound_duration = d
    BY <1>0, <1>2, <2>1 DEF Timers
  <2>3. s + 0 * PERIOD_MILLIS = s /\ 0 * PERIOD_MILLIS < d
    BY <1>0, <1>2, <1>4
  <2>4. Reads(u, s, 0)
    BY <1>2, <2>2, <2>3 DEF Reads
  <2>5. SoundOK(u, 0)
    BY <2>2, <2>3, <2>4 DEF SoundOK
  <2>. QED
    BY <2>2, <2>5 DEF u
<1>. QED
  BY <1>3, <1>4

\* A tick counts for everybody who waits.
LEMMA TickWaits ==
    ASSUME NEW t \in Timers, NEW u, u.ticks = (t.ticks + 1) % Wrap,
           WaitsOK(t, pc, local, waited),
           NEW w, w = [p \in Procs |-> IF p \in Waiting THEN Count(waited[p]) ELSE waited[p]]
    PROVE  WaitsOK(u, pc, local, w)
<1>0. MaxWaited \in Nat
  BY LengthFacts
<1>1. ASSUME NEW p \in Procs
      PROVE  w[p] \in Nat /\ (pc[p] \in {"sleep", "loop"} => ElapsedOK(u, local[p].start, w[p]))
  <2> DEFINE n == waited[p]
             s == local[p].start
  <2>1. n \in Nat /\ w[p] = IF p \in Waiting THEN Count(n) ELSE n
    BY DEF WaitsOK
  <2>2. p \in Waiting <=> pc[p] \in {"sleep", "loop"}
    BY DEF Waiting
  <2>3. CASE p \notin Waiting
    BY <2>1, <2>2, <2>3
  <2>4. CASE p \in Waiting
    <3>1. ElapsedOK(t, s, n)
      BY <2>2, <2>4 DEF WaitsOK
    <3>2. s \in Ints /\ s \in Int
      BY <3>1, ClockFacts DEF ElapsedOK, Ints
    <3>3. CASE n < MaxWaited
      <4>1. Reads(u, s, n + 1)
        <5>1. Reads(t, s, n)
          BY <3>1, <3>3 DEF ElapsedOK
        <5> HIDE DEF s, n
        <5>. QED
          BY <2>1, <3>2, <5>1, ReadsOn
      <4>2. w[p] = n + 1 /\ n + 1 \in 0 .. MaxWaited
        BY <1>0, <2>1, <2>4, <3>3 DEF Count
      <4>. QED
        BY <3>2, <4>1, <4>2 DEF ElapsedOK
    <3>4. CASE ~(n < MaxWaited)
      <4>1. w[p] = n /\ n = MaxWaited /\ ~(n < n)
        BY <1>0, <2>1, <2>4, <3>1, <3>4 DEF Count, ElapsedOK
      <4>. QED
        BY <2>1, <3>1, <4>1 DEF ElapsedOK
    <3>. QED
      BY <3>3, <3>4
  <2>. QED
    BY <2>3, <2>4
<1>2. w \in [Procs -> Nat]
  BY <1>1
<1>. QED
  BY <1>1, <1>2, Zenon DEF WaitsOK

\* Of the timer, the waits only look at the ticks.
LEMMA SameTicks ==
    ASSUME NEW t, NEW u, u.ticks = t.ticks, WaitsOK(t, pc, local, waited)
    PROVE  WaitsOK(u, pc, local, waited)
  BY Zenon DEF WaitsOK, ElapsedOK, Reads

\* A wait begins with no tick.
LEMMA NewWait ==
    ASSUME timer \in Timers, WaitsOK(timer, pc, local, waited),
           NEW p \in Procs, NEW s \in PCs, NEW c \in Nat, Becomes(p, s, c)
    PROVE  WaitsOK(timer, pc', local', waited')
<1> DEFINE m == milliseconds_elapsed(timer)
           x == timer.ticks * PERIOD_MILLIS
           z == IF s \in {"sleep", "loop"} THEN m ELSE 0
<1>1. x \in Int
  BY ClockFacts DEF Timers
<1>2. m \in Ints /\ m % Wrap = x % Wrap
  <2> HIDE DEF x
  <2>1. ToInt(x) \in Ints /\ ToInt(x) % Wrap = x % Wrap
    BY <1>1, ToIntIs, Zenon
  <2>. QED
    BY <2>1, Zenon DEF milliseconds_elapsed, x
<1>3. m \in Int /\ m + 0 * PERIOD_MILLIS = m
  BY <1>2, ClockFacts DEF Ints
<1>4. ElapsedOK(timer, m, 0)
  <2>1. 0 \in 0 .. MaxWaited
    BY LengthFacts
  <2>. QED
    BY <1>2, <1>3, <2>1, Zenon DEF ElapsedOK, Reads
<1> HIDE DEF m, x
<1>5. z \in Int
  BY <1>3
<1>6. /\ pc' = [pc EXCEPT ![p] = s] /\ waited' = [waited EXCEPT ![p] = 0]
      /\ local' = [local EXCEPT ![p] = [counter |-> c, start |-> z]]
  BY Zenon DEF Becomes, m
<1>7. /\ pc' \in [Procs -> PCs] /\ waited' \in [Procs -> Nat]
      /\ local' \in [Procs -> [counter : Nat, start : Int]]
  <2> HIDE DEF z
  <2>. QED
    BY <1>5, <1>6 DEF WaitsOK
<1>8. ASSUME NEW q \in Procs, pc'[q] \in {"sleep", "loop"}
      PROVE  ElapsedOK(timer, local'[q].start, waited'[q])
  <2>1. CASE q = p
    <3>1. s \in {"sleep", "loop"} /\ local'[q] = [counter |-> c, start |-> z] /\ waited'[q] = 0
      BY <1>6, <1>8, <2>1 DEF WaitsOK
    <3>. QED
      BY <1>4, <3>1
  <2>2. CASE q # p
    <3>1. pc'[q] = pc[q] /\ local'[q] = local[q] /\ waited'[q] = waited[q]
      BY <1>6, <2>2 DEF WaitsOK
    <3>. QED
      BY <1>8, <3>1, Zenon DEF WaitsOK
  <2>. QED
    BY <2>1, <2>2
<1>. QED
  BY <1>7, <1>8, Zenon DEF WaitsOK

\* Too early, and away from the ends of the clock, it reads less than d past s.
LEMMA TooEarly ==
    ASSUME NEW t \in Timers, NEW s, NEW n, ElapsedOK(t, s, n),
           NEW d \in {SLEEP_MILLIS, LOOP_MILLIS}, n * PERIOD_MILLIS < d, s < 0 \/ s + d <= Half
    PROVE  LET m == milliseconds_elapsed(t) IN
           m \in Ints /\ s \in Ints /\ m >= s /\ m - s < d
<1> DEFINE k == n * PERIOD_MILLIS
           m == milliseconds_elapsed(t)
<1>1. d \in Nat /\ d < Half /\ d <= MaxWaited * PERIOD_MILLIS /\ MaxWaited \in Nat
  BY LengthFacts
<1>2. s \in Ints /\ n \in Nat /\ n <= MaxWaited /\ PERIOD_MILLIS \in Nat /\ Half \in Nat
  BY <1>1, ClockFacts DEF ElapsedOK
<1>3. s \in Int /\ -Half <= s /\ k \in Nat /\ k < d
  BY <1>2 DEF Ints
<1>4. n # MaxWaited
  <2> SUFFICES ASSUME n = MaxWaited PROVE FALSE
    OBVIOUS
  <2>1. d <= k
    BY <1>1
  <2> HIDE DEF k
  <2>. QED
    BY <1>1, <1>3, <2>1
<1>5. Reads(t, s, n)
  BY <1>1, <1>2, <1>4 DEF ElapsedOK
<1>6. s + k < Half
  <2> HIDE DEF k
  <2>. QED
    BY <1>1, <1>2, <1>3
<1>7. m = s + k
  BY <1>2, <1>5, <1>6, ClockIsExact, Zenon
<1> HIDE DEF k, m
<1>8. m \in Ints /\ m >= s /\ m - s < d
  BY <1>1, <1>2, <1>3, <1>6, <1>7 DEF Ints
<1>. QED
  BY <1>2, <1>8 DEF m

\* What sleep reports when it returns.
LEMMA SleepIsLong ==
    ASSUME timer \in Timers, NEW s, NEW n, ElapsedOK(timer, s, n), Slept(timer, s, SLEEP_MILLIS)
    PROVE  EndOK([kind |-> "sleep", passed |-> n, need |-> SLEEP_MILLIS, start |-> s])
<1> DEFINE e == [kind |-> "sleep", passed |-> n, need |-> SLEEP_MILLIS, start |-> s]
<1> SUFFICES ASSUME ~LongEnough(e), ~AcrossTheSign(e) PROVE FALSE
  BY DEF EndOK
<1>1. n \in Nat /\ n * PERIOD_MILLIS \in Int /\ s \in Int /\ Half \in Nat /\ SLEEP_MILLIS \in Nat
  BY ClockFacts, LengthFacts DEF ElapsedOK, Ints
<1>2. n * PERIOD_MILLIS < SLEEP_MILLIS
  BY <1>1 DEF LongEnough
<1>3. s < 0 \/ s + SLEEP_MILLIS <= Half
  BY <1>1 DEF AcrossTheSign, Half
<1> DEFINE m == milliseconds_elapsed(timer)
<1>4. m \in Ints /\ s \in Ints /\ m >= s /\ m - s < SLEEP_MILLIS
  BY <1>2, <1>3, TooEarly, Zenon
<1>5. ToUint64(m - ToUint64(s)) >= SLEEP_MILLIS
  BY DEF Slept
<1> HIDE DEF m
<1>. QED
  BY <1>1, <1>4, <1>5, NotYetSlept, Zenon

\* What loopCommand reports when it prints.
LEMMA LoopIsLong ==
    ASSUME timer \in Timers, NEW s, NEW n, ElapsedOK(timer, s, n), Passed(timer, s, LOOP_MILLIS)
    PROVE  EndOK([kind |-> "loop", passed |-> n, need |-> LOOP_MILLIS, start |-> s])
<1> DEFINE e == [kind |-> "loop", passed |-> n, need |-> LOOP_MILLIS, start |-> s]
<1> SUFFICES ASSUME ~LongEnough(e), ~AcrossTheSign(e) PROVE FALSE
  BY DEF EndOK
<1>1. /\ n \in Nat /\ n * PERIOD_MILLIS \in Int /\ s \in Int /\ Half \in Nat
      /\ LOOP_MILLIS \in Nat /\ LOOP_MILLIS < Half
  BY ClockFacts, LengthFacts DEF ElapsedOK, Ints
<1>2. n * PERIOD_MILLIS < LOOP_MILLIS
  BY <1>1 DEF LongEnough
<1>3. (s < 0 \/ s + LOOP_MILLIS <= Half) /\ (s >= 0 \/ s + LOOP_MILLIS < 0)
  BY <1>1 DEF AcrossTheSign, Half
<1> DEFINE m == milliseconds_elapsed(timer)
<1>4. m \in Ints /\ s \in Ints /\ m >= s /\ m - s < LOOP_MILLIS
  BY <1>2, <1>3, TooEarly, Zenon
<1>5. ToUint64(m) >= ToUint64(ToUint64(s) + LOOP_MILLIS)
  BY DEF Passed
<1> HIDE DEF m
<1>. QED
  BY <1>1, <1>3, <1>4, <1>5, NotYetPassed, Zenon

CountersOK == /\ local = [p \in Procs |-> local[p]]
              /\ \A p \in Procs : local[p].counter \in Nat

\* The three ways in which sleep goes on.
LEMMA SleepGoesOn ==
    ASSUME CountersOK, NEW p \in Procs, sleep(p)
    PROVE  \/ Becomes(p, "user", 0) /\ NoneStale /\ UNCHANGED kernelVars
           \/ /\ Becomes(p, "sleep", local[p].counter - 1) /\ local[p].counter - 1 \in Nat
              /\ NoneStale /\ UNCHANGED kernelVars
           \/ main
<1> DEFINE k == local[p].counter
<1>1. (CASE k = 0 -> Becomes(p, "user", 0) /\ NoneStale /\ UNCHANGED kernelVars
         [] k > 1 -> Becomes(p, "sleep", k - 1) /\ NoneStale /\ UNCHANGED kernelVars
         [] k = 1 -> main)
  BY Zenon DEF sleep
<1>2. k \in Nat
  BY DEF CountersOK
<1> HIDE DEF k
<1>3. (k = 0 /\ ~(k > 1) /\ k # 1) \/ (k > 1 /\ k # 0 /\ k # 1 /\ k - 1 \in Nat) \/ (k = 1 /\ k # 0 /\ ~(k > 1))
  BY <1>2
<1>. QED
  BY <1>1, <1>3 DEF k

LEMMA InitTimes == Init => TimeInv
<1> SUFFICES ASSUME Init PROVE TimeInv
  OBVIOUS
<1>0. 0 \in 0 .. Wrap - 1 /\ 0 \in Nat /\ 0 \in Int
  BY ClockFacts
<1>1. SoundOK(timer, sounded)
  <2> DEFINE Z == 0 .. Wrap - 1
  <2>1. timer = TimerInit /\ sounded = 0 /\ 0 \in Z
    BY <1>0 DEF Init
  <2> HIDE DEF Z
  <2>2. timer \in [ticks : Z, speaker : BOOLEAN, sound_playing : BOOLEAN,
                   sound_start_time : Z, sound_duration : Nat]
    BY <1>0, <2>1 DEF TimerInit
  <2>3. timer.speaker = FALSE /\ timer.sound_playing = FALSE
    BY <2>1 DEF TimerInit
  <2>. QED
    BY <1>0, <2>1, <2>2, <2>3, Zenon DEF SoundOK, Timers, Z
<1>2. WaitsOK(timer, pc, local, waited)
  <2>1. pc = [p \in Procs |-> "none"] /\ local = [p \in Procs |-> Idle] /\ waited = [p \in Procs |-> 0]
    BY DEF Init
  <2>. QED
    BY <2>1 DEF WaitsOK, PCs, Idle
<1>3. EndOK(ended)
  BY DEF Init, Nothing, EndOK
<1>. QED
  BY <1>1, <1>2, <1>3 DEF TimeInv

\* A tick of the timer, or of a process that yields if those count.
LEMMA TickTimes ==
    ASSUME TimeInv, schedule(TRUE)
    PROVE  TimeInv'
<1> DEFINE t == timer
           u == timer_handler(timer)
<1>1. SoundOK(t, sounded) /\ t \in Timers /\ sounded \in Nat
  BY DEF TimeInv, SoundOK
<1>2. /\ u.ticks = (t.ticks + 1) % Wrap
      /\ SoundOK(u, IF u.sound_playing THEN sounded + 1 ELSE 0)
      /\ t.sound_playing /\ ~u.sound_playing => (sounded + 1) * PERIOD_MILLIS >= t.sound_duration
  BY <1>1, TickSound, Zenon
<1>3. /\ timer' = u /\ sounded' = IF u.sound_playing THEN sounded + 1 ELSE 0
      /\ pc' = pc /\ local' = local
      /\ waited' = [p \in Procs |-> IF p \in Waiting THEN Count(waited[p]) ELSE waited[p]]
      /\ ended' = IF t.sound_playing /\ ~u.sound_playing
                  THEN [kind |-> "sound", passed |-> sounded + 1,
                        need |-> t.sound_duration, start |-> 0]
                  ELSE Nothing
  BY Zenon DEF schedule
<1> HIDE DEF u
<1>4. SoundOK(timer', sounded')
  BY <1>2, <1>3, Zenon
<1>5. WaitsOK(timer', pc', local', waited')
  <2>1. WaitsOK(t, pc, local, waited)
    BY DEF TimeInv
  <2>. QED
    BY <1>1, <1>2, <1>3, <2>1, TickWaits
<1>6. EndOK(ended')
  <2>1. CASE t.sound_playing /\ ~u.sound_playing
    BY <1>2, <1>3, <2>1 DEF EndOK, LongEnough
  <2>2. CASE ~(t.sound_playing /\ ~u.sound_playing)
    BY <1>3, <2>2 DEF EndOK, Nothing
  <2>. QED
    BY <2>1, <2>2
<1>. QED
  BY <1>4, <1>5, <1>6 DEF TimeInv

\* A step of p that leaves the clock and the speaker alone.
LEMMA ProcessTimes ==
    ASSUME TimeInv, NEW p \in Procs, NEW s \in PCs, NEW c \in Nat, Becomes(p, s, c),
           UNCHANGED <<timer, sounded>>, EndOK(ended')
    PROVE  TimeInv'
<1>1. timer \in Timers /\ WaitsOK(timer, pc, local, waited) /\ SoundOK(timer, sounded)
  BY DEF TimeInv, SoundOK
<1>2. WaitsOK(timer, pc', local', waited')
  BY <1>1, NewWait, Zenon
<1>. QED
  BY <1>1, <1>2 DEF TimeInv

\* Every step keeps time.
LEMMA NextTimes ==
    ASSUME CountForced = TRUE, TimeInv, [Next]_vars
    PROVE  TimeInv'
<1>0. /\ timer \in Timers /\ WaitsOK(timer, pc, local, waited) /\ SoundOK(timer, sounded)
      /\ COUNTDOWN \in Nat /\ {"none", "user", "sleep", "loop", "fault"} = PCs
      /\ EndOK(Nothing)
  BY LengthFacts DEF TimeInv, SoundOK, PCs, EndOK, Nothing
<1>1. CASE timerInterrupt
  BY <1>1, TickTimes DEF timerInterrupt
<1>2. CASE forceSchedulerCall
  BY <1>2, TickTimes DEF forceSchedulerCall
<1>3. ASSUME UNCHANGED <<timer, procVars, sounded>>, NoneEnds
      PROVE  TimeInv'
  BY <1>0, <1>3 DEF TimeInv, procVars, NoneEnds
<1>4. CASE keyboardInterrupt \/ enableScheduler \/ initProcessEntry
  BY <1>3, <1>4, Zenon DEF keyboardInterrupt, enableScheduler, initProcessEntry, procVars
<1>5. ASSUME NEW p \in Procs, NEW n \in Names,
             sharedSemOpen(p, n) \/ sharedSemClose(p, n) \/ sharedSemUse(p, n)
      PROVE  TimeInv'
  BY <1>3, <1>5, Zenon DEF sharedSemOpen, sharedSemClose, sharedSemUse, procVars
<1>6. ASSUME NEW p \in Procs,
             Begins(p) \/ Ends(p) \/ sysSleep(p) \/ Faults(p) \/ handle_exception(p)
      PROVE  TimeInv'
  <2>1. UNCHANGED <<timer, sounded>> /\ EndOK(ended')
    BY <1>0, <1>6, Zenon DEF Begins, Ends, sysSleep, Faults, handle_exception, NoneEnds
  <2>2. PICK s \in PCs, c \in Nat : Becomes(p, s, c)
    BY <1>0, <1>6 DEF Begins, Ends, sysSleep, Faults, handle_exception
  <2>. QED
    BY <2>1, <2>2, ProcessTimes, Zenon
<1>7. ASSUME NEW p \in Procs, NEW f \in {0, 1}, NEW d \in Durations, sysPlaySound(p, f, d)
      PROVE  TimeInv'
  <2>1. /\ timer' = playSound(timer, f, d) /\ sounded' = 0 /\ UNCHANGED procVars
        /\ ended' = Nothing
    BY <1>7, Zenon DEF sysPlaySound, NoneEnds
  <2>2. SoundOK(timer', sounded') /\ timer'.ticks = timer.ticks
    BY <1>0, <2>1, NewSound, Zenon
  <2>3. WaitsOK(timer', pc, local, waited)
    BY <1>0, <2>2, SameTicks, Zenon
  <2>. QED
    BY <1>0, <2>1, <2>2, <2>3 DEF TimeInv, procVars
<1>8. ASSUME NEW p \in Procs, loopCommand(p)
      PROVE  TimeInv'
  <2>1. UNCHANGED <<timer, sounded>> /\ Becomes(p, "loop", 0) /\ "loop" \in PCs /\ 0 \in Nat
    BY <1>0, <1>8 DEF loopCommand
  <2>2. CASE NoneEnds
    BY <1>0, <2>1, <2>2, ProcessTimes, Zenon DEF NoneEnds
  <2>3. CASE ~NoneEnds
    <3>1. /\ pc[p] = "loop" /\ Passed(timer, local[p].start, LOOP_MILLIS)
          /\ ended' = [kind |-> "loop", passed |-> waited[p], need |-> LOOP_MILLIS,
                       start |-> local[p].start]
      BY <1>8, <2>3, Zenon DEF loopCommand
    <3>2. ElapsedOK(timer, local[p].start, waited[p])
      BY <1>0, <3>1 DEF WaitsOK
    <3>3. EndOK(ended')
      BY <1>0, <3>1, <3>2, LoopIsLong, Zenon
    <3>. QED
      BY <2>1, <3>3, ProcessTimes, Zenon
  <2>. QED
    BY <2>2, <2>3
<1>9. ASSUME NEW p \in Procs, sleep(p)
      PROVE  TimeInv'
  <2>1. /\ UNCHANGED <<timer, sounded>>
        /\ pc[p] = "sleep" /\ Slept(timer, local[p].start, SLEEP_MILLIS)
        /\ ended' = [kind |-> "sleep", passed |-> waited[p], need |-> SLEEP_MILLIS,
                     start |-> local[p].start]
    BY <1>9, Zenon DEF sleep, sleepReturns
  <2>2. ElapsedOK(timer, local[p].start, waited[p]) /\ local[p].counter \in Nat
    BY <1>0, <2>1 DEF WaitsOK
  <2>3. EndOK(ended')
    BY <1>0, <2>1, <2>2, SleepIsLong, Zenon
  <2>4. CountersOK /\ "user" \in PCs /\ "sleep" \in PCs /\ 0 \in Nat
    BY <1>0 DEF WaitsOK, CountersOK
  <2>5. CASE main
    <3>1. /\ pc' = [q \in Procs |-> "none"] /\ local' = [q \in Procs |-> Idle]
          /\ waited' = [q \in Procs |-> 0]
      BY <2>5 DEF main
    <3>2. WaitsOK(timer', pc', local', waited')
      BY <3>1 DEF WaitsOK, PCs, Idle
    <3>. QED
      BY <1>0, <2>1, <2>3, <3>2 DEF TimeInv
  <2>6. CASE ~main
    <3>1. PICK s \in PCs, c \in Nat : Becomes(p, s, c)
      BY <1>9, <2>4, <2>6, SleepGoesOn, Zenon
    <3>. QED
      BY <2>1, <2>3, <3>1, ProcessTimes, Zenon
  <2>. QED
    BY <2>5, <2>6
<1>10. CASE UNCHANGED vars
  BY <1>10 DEF vars, TimeInv
<1>. QED
  BY <1>1, <1>2, <1>4, <1>5, <1>6, <1>7, <1>8, <1>9, <1>10, Zenon DEF Next

\* timer.c, exceptions.c, loop: a sleep, a turn of loop and a sound last as long as
\* they were asked to, over every interleaving of ticks, yields, sounds, faults and
\* restarts, but for the waits that meet the sign of the clock.
THEOREM WaitsLastLongEnough ==
    ASSUME CountForced = TRUE
    PROVE  Spec => []TimesAreKept
<1>1. Init => TimeInv
  BY InitTimes
<1>2. TimeInv /\ [Next]_vars => TimeInv'
  BY NextTimes
<1>3. TimeInv => TimesAreKept
  <2> SUFFICES ASSUME TimeInv PROVE TimesAreKept
    OBVIOUS
  <2>1. timer.speaker = timer.sound_playing
    BY DEF TimeInv, SoundOK
  <2>2. timer.speaker => sounded * PERIOD_MILLIS < timer.sound_duration
    BY <2>1, Zenon DEF TimeInv, SoundOK
  <2>. QED
    BY <2>1, <2>2, Zenon DEF TimesAreKept, TimeInv, EndOK
<1>. QED
  BY <1>1, <1>2, <1>3, PTL DEF Spec

-----------------------------------------------------------------------------
(* Pointers of earlier boots *)

\* A named semaphore is left open, or its pointer is of this boot; the keyboard
\* has its new pipe by the time init is done, and the boot has left the stack it
\* was called on by the first dispatch.
StaleInv ==
    /\ sched \in [schedulerEnabled : BOOLEAN, currentProcess : {"null", "fresh"}, readyQueue : {"fresh"}]
    /\ keyboardBuffer = "stale" => phase # "up"
    /\ stack = "stale" => phase \in {"idt", "enabled"}
    /\ table \in [Names -> [sem : {"null", "fresh", "stale"}, refCount : Nat]]
    /\ \A n \in Names : /\ table[n].refCount = 0 => table[n].sem = "null"
                        /\ table[n].sem = "stale" => n \in leftOpen

\* The countdown never passes zero.
LEMMA NextCounters ==
    ASSUME CountersOK, [Next]_vars
    PROVE  CountersOK'
<1>0. COUNTDOWN \in Nat
  BY LengthFacts
<1>1. ASSUME UNCHANGED local
      PROVE  CountersOK'
  BY <1>1 DEF CountersOK
<1>2. ASSUME NEW p \in Procs, NEW s, NEW c \in Nat, Becomes(p, s, c)
      PROVE  CountersOK'
  <2>1. PICK z : local' = [local EXCEPT ![p] = [counter |-> c, start |-> z]]
    BY <1>2 DEF Becomes
  <2>. QED
    BY <2>1 DEF CountersOK
<1>3. ASSUME main
      PROVE  CountersOK'
  BY <1>3 DEF main, CountersOK, Idle
<1>4. CASE timerInterrupt \/ forceSchedulerCall \/ keyboardInterrupt \/ enableScheduler \/ initProcessEntry
  BY <1>1, <1>4, Zenon DEF timerInterrupt, forceSchedulerCall, schedule, keyboardInterrupt,
                           enableScheduler, initProcessEntry, procVars
<1>5. ASSUME NEW p \in Procs, NEW n \in Names,
             sharedSemOpen(p, n) \/ sharedSemClose(p, n) \/ sharedSemUse(p, n)
      PROVE  CountersOK'
  BY <1>1, <1>5, Zenon DEF sharedSemOpen, sharedSemClose, sharedSemUse, procVars
<1>6. ASSUME NEW p \in Procs,
             Begins(p) \/ Ends(p) \/ sysSleep(p) \/ loopCommand(p) \/ Faults(p) \/ handle_exception(p)
      PROVE  CountersOK'
  <2>1. \E s \in PCs, c \in Nat : Becomes(p, s, c)
    BY <1>0, <1>6 DEF Begins, Ends, sysSleep, loopCommand, Faults, handle_exception, PCs
  <2>. QED
    BY <1>2, <2>1
<1>7. ASSUME NEW p \in Procs, NEW f \in {0, 1}, NEW d \in Durations, sysPlaySound(p, f, d)
      PROVE  CountersOK'
  BY <1>1, <1>7, Zenon DEF sysPlaySound, procVars
<1>8. ASSUME NEW p \in Procs, sleep(p)
      PROVE  CountersOK'
  <2>1. 0 \in Nat
    OBVIOUS
  <2>. QED
    BY <1>2, <1>3, <1>8, <2>1, SleepGoesOn, Zenon
<1>9. CASE UNCHANGED vars
  BY <1>1, <1>9 DEF vars
<1>. QED
  BY <1>4, <1>5, <1>6, <1>7, <1>8, <1>9, Zenon DEF Next

\* The restart turns what was open into what is left open.
LEMMA MainForgets ==
    ASSUME StaleInv, main
    PROVE  StaleInv'
<1>1. /\ sched' = NewScheduler(sched) /\ phase' = "idt"
      /\ leftOpen' = {n \in Names : table[n].refCount > 0}
      /\ table' = [n \in Names |-> [table[n] EXCEPT !.sem = IF @ = "fresh" THEN "stale" ELSE @]]
  BY DEF main
<1>2. ASSUME NEW n \in Names
      PROVE  /\ table'[n] \in [sem : {"null", "fresh", "stale"}, refCount : Nat]
             /\ table'[n].refCount = 0 => table'[n].sem = "null"
             /\ table'[n].sem = "stale" => n \in leftOpen'
  <2> DEFINE r == table[n]
  <2>1. /\ r \in [sem : {"null", "fresh", "stale"}, refCount : Nat]
        /\ r.refCount = 0 => r.sem = "null"
    BY DEF StaleInv
  <2>2. table'[n] = [r EXCEPT !.sem = IF r.sem = "fresh" THEN "stale" ELSE r.sem]
    BY <1>1
  <2>3. n \in leftOpen' <=> r.refCount > 0
    BY <1>1
  <2> HIDE DEF r
  <2>. QED
    BY <2>1, <2>2, <2>3
<1>3. sched' \in [schedulerEnabled : BOOLEAN, currentProcess : {"null", "fresh"}, readyQueue : {"fresh"}]
  BY <1>1 DEF NewScheduler
<1>4. table' \in [Names -> [sem : {"null", "fresh", "stale"}, refCount : Nat]]
  BY <1>1, <1>2
<1>. QED
  BY <1>1, <1>2, <1>3, <1>4 DEF StaleInv

\* An open or a close of one name.
LEMMA TableChange ==
    ASSUME StaleInv, NEW n \in Names, NEW r \in [sem : {"null", "fresh", "stale"}, refCount : Nat],
           r.refCount = 0 => r.sem = "null", r.sem = "stale" => table[n].sem = "stale",
           table' = [table EXCEPT ![n] = r], UNCHANGED <<phase, sched, keyboardBuffer, stack, leftOpen>>
    PROVE  StaleInv'
<1>1. \A m \in Names : table'[m] = IF m = n THEN r ELSE table[m]
  BY DEF StaleInv
<1>2. table' \in [Names -> [sem : {"null", "fresh", "stale"}, refCount : Nat]]
  BY DEF StaleInv
<1>3. \A m \in Names : /\ table'[m].refCount = 0 => table'[m].sem = "null"
                       /\ table'[m].sem = "stale" => m \in leftOpen
  BY <1>1 DEF StaleInv
<1>. QED
  BY <1>2, <1>3, Zenon DEF StaleInv

LEMMA NextStale ==
    ASSUME CountersOK, StaleInv, [Next]_vars
    PROVE  StaleInv' /\ [stale' \subseteq Known]_vars
<1> DEFINE OnlyKnown == [stale' \subseteq Known]_vars
<1>0. ASSUME NoneStale
      PROVE  OnlyKnown
  BY <1>0 DEF NoneStale
<1>1. ASSUME UNCHANGED <<phase, sched, keyboardBuffer, stack, table, leftOpen>>
      PROVE  StaleInv'
  BY <1>1 DEF StaleInv
<1> DEFINE S == Used(stack, "stack")
<1>s. ASSUME stale' = S
      PROVE  OnlyKnown
  BY <1>s DEF Used, StaleInv, Known
<1>2. CASE timerInterrupt \/ forceSchedulerCall
  <2>1. PICK counts : schedule(counts)
    BY <1>2 DEF timerInterrupt, forceSchedulerCall
  <2>2. UNCHANGED <<keyboardBuffer, table, leftOpen>>
    BY <2>1 DEF schedule
  <2>3. CASE ~sched.schedulerEnabled
    <3>1. stale' = S /\ UNCHANGED <<sched, phase, stack>>
      BY <2>1, <2>3 DEF schedule
    <3>. QED
      BY <1>s, <1>1, <2>2, <3>1
  <2>4. CASE sched.schedulerEnabled
    <3>1. /\ stale' = S \cup Used(sched.currentProcess, "scheduler")
                        \cup Used(sched.readyQueue, "scheduler")
          /\ sched' = [sched EXCEPT !.currentProcess = "fresh"]
          /\ phase' = IF phase = "enabled" THEN "init" ELSE phase
          /\ stack' = "fresh"
      BY <2>1, <2>4 DEF schedule
    <3>2. sched.currentProcess # "stale" /\ sched.readyQueue # "stale"
      BY DEF StaleInv
    <3>3. stale' = S
      BY <3>1, <3>2 DEF Used
    <3>4. sched' \in [schedulerEnabled : BOOLEAN, currentProcess : {"null", "fresh"},
                      readyQueue : {"fresh"}]
      BY <3>1 DEF StaleInv
    <3>5. StaleInv'
      BY <2>2, <3>1, <3>4 DEF StaleInv
    <3>. QED
      BY <1>s, <3>3, <3>5
  <2>. QED
    BY <2>3, <2>4
<1>3. CASE keyboardInterrupt
  <2>1. UNCHANGED kernelVars /\ stale' = S \cup Used(keyboardBuffer, "keyboard")
    BY <1>3 DEF keyboardInterrupt
  <2>2. OnlyKnown
    BY <2>1 DEF Used, StaleInv, Known
  <2>. QED
    BY <1>1, <2>1, <2>2 DEF kernelVars
<1>4. CASE enableScheduler
  <2>1. /\ phase' = "enabled" /\ sched' = [sched EXCEPT !.schedulerEnabled = TRUE] /\ stale' = S
        /\ UNCHANGED <<keyboardBuffer, stack, table, leftOpen>>
    BY <1>4 DEF enableScheduler
  <2>2. sched' \in [schedulerEnabled : BOOLEAN, currentProcess : {"null", "fresh"}, readyQueue : {"fresh"}]
    BY <2>1 DEF StaleInv
  <2>. QED
    BY <1>s, <2>1, <2>2 DEF StaleInv
<1>5. CASE initProcessEntry
  <2>1. /\ phase = "init" /\ keyboardBuffer' = "fresh" /\ NoneStale
        /\ UNCHANGED <<sched, stack, table, leftOpen>>
    BY <1>5 DEF initProcessEntry
  <2>. QED
    BY <1>0, <2>1 DEF StaleInv
<1>6. ASSUME NEW p \in Procs,
             Begins(p) \/ Ends(p) \/ sysSleep(p) \/ loopCommand(p) \/ Faults(p) \/ handle_exception(p)
      PROVE  StaleInv' /\ OnlyKnown
  BY <1>0, <1>1, <1>6, Zenon
     DEF Begins, Ends, sysSleep, loopCommand, Faults, handle_exception, kernelVars
<1>7. ASSUME NEW p \in Procs, NEW f \in {0, 1}, NEW d \in Durations, sysPlaySound(p, f, d)
      PROVE  StaleInv' /\ OnlyKnown
  BY <1>0, <1>1, <1>7, Zenon DEF sysPlaySound, kernelVars
<1>8. ASSUME NEW p \in Procs, sleep(p)
      PROVE  StaleInv' /\ OnlyKnown
  <2>1. (NoneStale /\ UNCHANGED kernelVars) \/ main
    BY <1>8, SleepGoesOn, Zenon
  <2>2. CASE main
    <3>1. OnlyKnown
      BY <2>2 DEF main, Known
    <3>. QED
      BY <2>2, <3>1, MainForgets
  <2>3. CASE NoneStale /\ UNCHANGED kernelVars
    BY <1>0, <1>1, <2>3 DEF kernelVars
  <2>. QED
    BY <2>1, <2>2, <2>3
<1>9. ASSUME NEW p \in Procs, NEW n \in Names, sharedSemOpen(p, n)
      PROVE  StaleInv' /\ OnlyKnown
  <2> DEFINE o == table[n]
             r == [sem |-> IF o.refCount > 0 THEN o.sem ELSE "fresh", refCount |-> o.refCount + 1]
  <2>1. /\ table' = [table EXCEPT ![n] = r] /\ NoneStale
        /\ UNCHANGED <<phase, sched, keyboardBuffer, stack, leftOpen>>
    BY <1>9 DEF sharedSemOpen
  <2>2. o \in [sem : {"null", "fresh", "stale"}, refCount : Nat]
    BY DEF StaleInv
  <2>3. /\ r \in [sem : {"null", "fresh", "stale"}, refCount : Nat]
        /\ r.refCount # 0 /\ (r.sem = "stale" => o.sem = "stale")
    <3> HIDE DEF o
    <3>. QED
      BY <2>2
  <2> HIDE DEF r
  <2>. QED
    BY <1>0, <2>1, <2>3, TableChange
<1>10. ASSUME NEW p \in Procs, NEW n \in Names, sharedSemClose(p, n)
       PROVE  StaleInv' /\ OnlyKnown
  <2> DEFINE o == table[n]
             r == [sem |-> IF o.refCount > 1 THEN o.sem ELSE "null", refCount |-> o.refCount - 1]
  <2>1. /\ table' = [table EXCEPT ![n] = r] /\ o.refCount > 0
        /\ stale' = IF o.refCount = 1 THEN Used(o.sem, n) ELSE {}
        /\ UNCHANGED <<phase, sched, keyboardBuffer, stack, leftOpen>>
    BY <1>10 DEF sharedSemClose
  <2>2. /\ o \in [sem : {"null", "fresh", "stale"}, refCount : Nat]
        /\ o.sem = "stale" => n \in leftOpen
    BY DEF StaleInv
  <2>3. /\ r \in [sem : {"null", "fresh", "stale"}, refCount : Nat]
        /\ r.refCount = 0 => r.sem = "null"
        /\ r.sem = "stale" => o.sem = "stale"
    <3> HIDE DEF o
    <3>. QED
      BY <2>1, <2>2
  <2>4. OnlyKnown
    BY <2>1, <2>2 DEF Used, Known
  <2> HIDE DEF r
  <2>. QED
    BY <2>1, <2>3, <2>4, TableChange
<1>11. ASSUME NEW p \in Procs, NEW n \in Names, sharedSemUse(p, n)
       PROVE  StaleInv' /\ OnlyKnown
  <2>1. UNCHANGED kernelVars /\ stale' = Used(table[n].sem, n)
    BY <1>11 DEF sharedSemUse
  <2>2. OnlyKnown
    BY <2>1 DEF Used, Known, StaleInv
  <2>. QED
    BY <1>1, <2>1, <2>2 DEF kernelVars
<1>12. CASE UNCHANGED vars
  BY <1>1, <1>12 DEF vars
<1>. QED
  BY <1>2, <1>3, <1>4, <1>5, <1>6, <1>7, <1>8, <1>9, <1>10, <1>11, <1>12, Zenon DEF Next

\* main, exceptionHandler: a restart has a new heap and a new scheduler.  Of what it
\* leaves from the boots before, a step ever uses only the names that were open at
\* a restart, the keyboard's end of its pipe until init has made a new one, and the
\* stack of the process that faulted, until the first dispatch.
THEOREM OnlyTheseGoStale == Spec => NothingElseStale
<1>1. Init => CountersOK /\ StaleInv
  BY DEF Init, CountersOK, Idle, StaleInv, NewScheduler
<1>2. CountersOK /\ StaleInv /\ [Next]_vars => (CountersOK /\ StaleInv)'
  BY NextStale, NextCounters
<1>3. CountersOK /\ StaleInv /\ [Next]_vars => [stale' \subseteq Known]_vars
  BY NextStale
<1>. QED
  BY <1>1, <1>2, <1>3, PTL DEF Spec, NothingElseStale

=============================================================================
