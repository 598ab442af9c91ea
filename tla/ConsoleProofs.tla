---------------------------- MODULE ConsoleProofs ---------------------------
(***************************************************************************)
(* What the driver makes of a key is what was meant, for every keyboard,   *)
(* every order of presses and releases and however long the user types.    *)
(*                                                                         *)
(* The driver knows the modifiers only by the bytes it has read: between   *)
(* the user's move and the last byte of it, what it holds of one key is    *)
(* out of date, and of no other.  The invariant says which bytes of which  *)
(* key are still to come, and that everything else is in step.             *)
(***************************************************************************)
EXTENDS Console, TLAPS

Chars == DOMAIN scancodeToAscii
Tracked == {"lshift", "rshift", "lctrl"}
Kb == [keyboardStatus : SUBSET Int, multiByteFlag : BOOLEAN, capsLockActive : BOOLEAN]

\* The keys with a code behind the prefix that the driver takes for Ctrl+C or
\* Ctrl+D are left out, and caps lock does not repeat: see ConsoleMute and
\* ConsoleCaps for what happens with them.
PlainKeyboard ==
    /\ "caps" \notin Repeats
    /\ \A k \in DOMAIN KeyCodes : Extended(k) => CodeOf(k) \notin {PRESS_C, PRESS_D}

\* The driver holds for pressed just the modifiers that are, except perhaps k.
settledBut(k) ==
    \A n \in Tracked \ {k} : NamedCodes[n] \in kb.keyboardStatus <=> n \in held

Prefix == [code |-> MULTI_BYTE_SCANCODE, meant |-> None]
Make(k) == [code |-> CodeOf(k), meant |-> Meaning(k)]
Break(k) == [code |-> CodeOf(k) + 128, meant |-> None]

\* The bytes to come are the byte b of k, perhaps its prefix before it, then s.
comes(k, b, s) ==
    \/ Extended(k) /\ ~kb.multiByteFlag /\ port = <<Prefix, b>> \o s
    \/ kb.multiByteFlag = Extended(k) /\ port = <<b>> \o s

Settled ==
    /\ port = <<>> /\ ~kb.multiByteFlag
    /\ settledBut(None) /\ kb.capsLockActive = caps

\* A key was tapped: its break code follows.
Tapping(k) ==
    /\ k \notin Modifiers /\ comes(k, Make(k), Broken(k))
    /\ settledBut(None) /\ kb.capsLockActive = caps

Pressing(k) ==
    /\ k \in Modifiers \cap held /\ comes(k, Make(k), <<>>)
    /\ settledBut(k) /\ kb.capsLockActive = (caps # (k = "caps"))

Releasing(k) ==
    /\ k \notin held /\ comes(k, Break(k), <<>>)
    /\ settledBut(k) /\ kb.capsLockActive = caps

InStep == Settled \/ \E k \in DOMAIN KeyCodes : Tapping(k) \/ Pressing(k) \/ Releasing(k)

KeysInv ==
    /\ kb \in Kb /\ caps \in BOOLEAN
    /\ held \in SUBSET Modifiers
    /\ KeysMeanWhatTheySay
    /\ InStep

-----------------------------------------------------------------------------
(* Tables and codes *)

\* The named keys have these codes and the two tables the same keys.
LEMMA Codes ==
    /\ DOMAIN NamedCodes = {"a", "c", "d", "caps", "lshift", "rshift", "lctrl"}
    /\ NamedCodes["a"] = 30 /\ NamedCodes["c"] = 46 /\ NamedCodes["d"] = 32
    /\ NamedCodes["caps"] = 58 /\ NamedCodes["lctrl"] = 29
    /\ NamedCodes["lshift"] = 42 /\ NamedCodes["rshift"] = 54
  BY DEF NamedCodes, PRESS_C, PRESS_D, CAPSLOCK, LSHIFT, RSHIFT, LCONTROL

LEMMA TablesAgree ==
    /\ Chars = {2, 14, 15, 28, 30, 32, 46}
    /\ DOMAIN shiftedScancodeToAscii = Chars
  BY DEF Chars, AsciiKeys, scancodeToAscii, shiftedScancodeToAscii

\* A key is a code of seven bits, plain or behind the prefix.
LEMMA KeyHasCode ==
    ASSUME NEW k \in DOMAIN KeyCodes
    PROVE  /\ CodeOf(k) \in 1 .. 95
           /\ Extended(k) => /\ KeyCodes[k] = <<MULTI_BYTE_SCANCODE, CodeOf(k)>>
                             /\ k \notin DOMAIN NamedCodes
           /\ ~Extended(k) => /\ KeyCodes[k] = <<CodeOf(k)>>
                              /\ k \in Modifiers <=> CodeOf(k) \notin Chars
                              /\ \A n \in DOMAIN NamedCodes :
                                    k = n <=> CodeOf(k) = NamedCodes[n]
<1>1. \A n \in DOMAIN NamedCodes : k = n <=> KeyCodes[k] = <<NamedCodes[n]>>
  BY ConsoleAssumption
<1>2. CASE PlainKey(k)
  <2>1. PICK c \in 1 .. 95 :
          KeyCodes[k] = <<c>> /\ (k \in Modifiers) = (c \notin DOMAIN scancodeToAscii)
    BY <1>2 DEF PlainKey
  <2>2. CodeOf(k) = c /\ ~Extended(k)
    BY <2>1 DEF CodeOf, Extended
  <2>3. \A n \in DOMAIN NamedCodes : <<c>> = <<NamedCodes[n]>> <=> c = NamedCodes[n]
    OBVIOUS
  <2>. QED
    BY <1>1, <2>1, <2>2, <2>3 DEF Chars
<1>3. CASE ExtendedKey(k)
  <2>1. PICK c \in 1 .. 95 : KeyCodes[k] = <<MULTI_BYTE_SCANCODE, c>>
    BY <1>3 DEF ExtendedKey
  <2>2. CodeOf(k) = c /\ Extended(k)
    BY <2>1 DEF CodeOf, Extended
  <2>3. \A n \in DOMAIN NamedCodes : KeyCodes[k] # <<NamedCodes[n]>>
    BY <2>1
  <2>. QED
    BY <1>1, <2>1, <2>2, <2>3
<1>. QED
  BY <1>2, <1>3, ConsoleAssumption

\* What the controller sends for a key.
LEMMA BytesOfKeys ==
    ASSUME NEW k \in DOMAIN KeyCodes
    PROVE  /\ Extended(k) => Made(k) = <<Prefix, Make(k)>> /\ Broken(k) = <<Prefix, Break(k)>>
           /\ ~Extended(k) => Made(k) = <<Make(k)>> /\ Broken(k) = <<Break(k)>>
<1>1. CASE Extended(k)
  <2>1. KeyCodes[k] = <<MULTI_BYTE_SCANCODE, CodeOf(k)>>
    BY <1>1, KeyHasCode
  <2>2. [KeyCodes[k] EXCEPT ![Len(KeyCodes[k])] = @ + 128]
           = <<MULTI_BYTE_SCANCODE, CodeOf(k) + 128>>
    BY <2>1
  <2>. QED
    BY <1>1, <2>1, <2>2 DEF Made, Broken, Bytes, Prefix, Make, Break
<1>2. CASE ~Extended(k)
  <2>1. KeyCodes[k] = <<CodeOf(k)>>
    BY <1>2, KeyHasCode
  <2>2. [KeyCodes[k] EXCEPT ![Len(KeyCodes[k])] = @ + 128] = <<CodeOf(k) + 128>>
    BY <2>1
  <2>. QED
    BY <1>2, <2>1, <2>2 DEF Made, Broken, Bytes, Make, Break
<1>. QED
  BY <1>1, <1>2

LEMMA BrokenIsASeq ==
    ASSUME NEW k \in DOMAIN KeyCodes
    PROVE  Broken(k) \in Seq({Prefix, Break(k)})
<1>1. \A p, b : <<p, b>> \in Seq({p, b}) /\ <<b>> \in Seq({p, b})
  OBVIOUS
<1>. QED
  BY <1>1, BytesOfKeys

\* The first byte and those after it.
LEMMA FirstOf ==
    ASSUME NEW S, NEW s \in Seq(S), NEW p, NEW b
    PROVE  /\ <<b>> \o s # <<>> /\ Head(<<b>> \o s) = b /\ Tail(<<b>> \o s) = s
           /\ <<p, b>> \o s # <<>> /\ Head(<<p, b>> \o s) = p /\ Tail(<<p, b>> \o s) = <<b>> \o s
<1> DEFINE T == S \cup {p, b}
<1>1. s \in Seq(T) /\ <<b>> \in Seq(T) /\ <<p, b>> \in Seq(T) /\ <<p>> \in Seq(T)
  OBVIOUS
<1>2. /\ <<b>> \o s \in Seq(T) /\ Len(<<b>> \o s) = 1 + Len(s)
      /\ (<<b>> \o s)[1] = b /\ \A i \in 1 .. Len(s) : (<<b>> \o s)[i + 1] = s[i]
  BY <1>1
<1>3. /\ <<p, b>> \o s \in Seq(T) /\ Len(<<p, b>> \o s) = 2 + Len(s)
      /\ (<<p, b>> \o s)[1] = p /\ (<<p, b>> \o s)[2] = b
      /\ \A i \in 1 .. Len(s) : (<<p, b>> \o s)[i + 2] = s[i]
  BY <1>1
<1> HIDE DEF T
<1>4. <<b>> \o s # <<>> /\ Head(<<b>> \o s) = b /\ Tail(<<b>> \o s) = s
  BY <1>1, <1>2
<1>5. <<p, b>> \o s # <<>> /\ Head(<<p, b>> \o s) = p /\ Tail(<<p, b>> \o s) = <<b>> \o s
  BY <1>1, <1>2, <1>3
<1>. QED
  BY <1>4, <1>5

-----------------------------------------------------------------------------
(* What the driver does with a byte *)

\* The driver gets to hold these codes, this prefix and this caps lock.
driverHas(b, codes, prefixed, lock) ==
    /\ b \in Kb
    /\ b.keyboardStatus = codes /\ b.multiByteFlag = prefixed /\ b.capsLockActive = lock

\* It does after an assignment to its fields.
LEMMA Assigned ==
    ASSUME NEW b \in Kb, NEW codes \in SUBSET Int,
           NEW next, next = [b EXCEPT !.multiByteFlag = FALSE, !.keyboardStatus = codes]
    PROVE  driverHas(next, codes, FALSE, b.capsLockActive)
<1>1. /\ next.keyboardStatus = codes /\ next.multiByteFlag = FALSE
      /\ next.capsLockActive = b.capsLockActive
  BY DEF Kb
<1>2. next \in Kb
  BY DEF Kb
<1>. QED
  BY <1>1, <1>2 DEF driverHas

LEMMA Toggled ==
    ASSUME NEW b \in Kb, NEW next, next = [b EXCEPT !.capsLockActive = ~@]
    PROVE  driverHas(next, b.keyboardStatus, b.multiByteFlag, ~b.capsLockActive)
<1>1. /\ next.keyboardStatus = b.keyboardStatus /\ next.multiByteFlag = b.multiByteFlag
      /\ next.capsLockActive = ~b.capsLockActive
  BY DEF Kb
<1>2. next \in Kb
  BY DEF Kb
<1>. QED
  BY <1>1, <1>2 DEF driverHas

\* The prefix is remembered and nothing else changes.
LEMMA DecodesPrefix ==
    ASSUME NEW b \in Kb
    PROVE  /\ Decoded(b, MULTI_BYTE_SCANCODE).key = None
           /\ driverHas(Decoded(b, MULTI_BYTE_SCANCODE).kb, b.keyboardStatus, TRUE, b.capsLockActive)
  BY DEF Decoded, driverHas, Kb

\* A break code lets go of its own key.
LEMMA DecodesBreak ==
    ASSUME NEW b \in Kb, NEW c \in 1 .. 95
    PROVE  /\ Decoded(b, c + 128).key = None
           /\ driverHas(Decoded(b, c + 128).kb,
                        b.keyboardStatus \ {IF b.multiByteFlag THEN c + 127 ELSE c},
                        FALSE, b.capsLockActive)
<1>1. c + 128 # MULTI_BYTE_SCANCODE /\ c + 128 # PRESS_C /\ c + 128 # PRESS_D /\ c + 128 >= 128
  BY DEF MULTI_BYTE_SCANCODE, PRESS_C, PRESS_D
<1>2. (c + 128) % 128 = c
  OBVIOUS
<1>3. normalizedCode(b, c + 128) = IF b.multiByteFlag THEN c + 127 ELSE c
  BY <1>2 DEF normalizedCode, KEYCODE_SHIFT, Kb
<1>4. Decoded(b, c + 128) = getKeyPress(b, c + 128)
  BY <1>1 DEF Decoded, processControl
<1> DEFINE code == IF b.multiByteFlag THEN c + 127 ELSE c
           next == [b EXCEPT !.multiByteFlag = FALSE, !.keyboardStatus = @ \ {code}]
<1>5. getKeyPress(b, c + 128)
        = [kb |-> next, key |-> None]
  BY <1>1, <1>3 DEF getKeyPress
<1>6. b.keyboardStatus \ {code} \in SUBSET Int
  BY DEF Kb
<1>7. driverHas(next, b.keyboardStatus \ {code}, FALSE, b.capsLockActive)
  BY <1>6, Assigned
<1> HIDE DEF next
<1>8. Decoded(b, c + 128).kb = next /\ Decoded(b, c + 128).key = None
  BY <1>4, <1>5
<1>. QED
  BY <1>7, <1>8 DEF driverHas

\* An extended key is pressed with a code no plain key has.
LEMMA DecodesExtended ==
    ASSUME NEW b \in Kb, b.multiByteFlag, NEW c \in 1 .. 95, c \notin {PRESS_C, PRESS_D}
    PROVE  /\ Decoded(b, c).key = "ext"
           /\ driverHas(Decoded(b, c).kb, b.keyboardStatus \cup {c + 127}, FALSE, b.capsLockActive)
<1>1. c # MULTI_BYTE_SCANCODE /\ ~(c >= 128)
  BY DEF MULTI_BYTE_SCANCODE
<1>2. c % 128 = c
  OBVIOUS
<1>3. normalizedCode(b, c) = c + 127
  BY <1>2 DEF normalizedCode, KEYCODE_SHIFT, Kb
<1>4. Decoded(b, c) = getKeyPress(b, c)
  BY <1>1 DEF Decoded, processControl
<1>5. c + 127 # CAPSLOCK /\ ~(c + 127 < AsciiCodes) /\ c + 127 >= KEYCODE_SHIFT
  BY DEF CAPSLOCK, AsciiCodes, KEYCODE_SHIFT
<1> DEFINE next == [b EXCEPT !.multiByteFlag = FALSE, !.keyboardStatus = @ \cup {c + 127}]
<1>6. getKeyPress(b, c) = [kb |-> next, key |-> "ext"]
  BY <1>1, <1>3, <1>5 DEF getKeyPress
<1>7. b.keyboardStatus \cup {c + 127} \in SUBSET Int
  BY DEF Kb
<1>8. driverHas(next, b.keyboardStatus \cup {c + 127}, FALSE, b.capsLockActive)
  BY <1>7, Assigned
<1> HIDE DEF next
<1>9. Decoded(b, c).kb = next /\ Decoded(b, c).key = "ext"
  BY <1>4, <1>6
<1>. QED
  BY <1>8, <1>9 DEF driverHas

\* A plain key without a character is only noted; caps lock changes.
LEMMA DecodesModifier ==
    ASSUME NEW b \in Kb, ~b.multiByteFlag, NEW c \in (1 .. 95) \ Chars
    PROVE  /\ Decoded(b, c).key = None
           /\ driverHas(Decoded(b, c).kb, b.keyboardStatus \cup {c}, FALSE,
                        b.capsLockActive # (c = CAPSLOCK))
<1>1. c # MULTI_BYTE_SCANCODE /\ ~(c >= 128) /\ c # PRESS_C /\ c # PRESS_D
  BY TablesAgree DEF MULTI_BYTE_SCANCODE, PRESS_C, PRESS_D
<1>2. c % 128 = c
  OBVIOUS
<1>3. normalizedCode(b, c) = c
  BY <1>2 DEF normalizedCode, Kb
<1>4. Decoded(b, c) = getKeyPress(b, c)
  BY <1>1 DEF Decoded, processControl
<1> DEFINE next == [b EXCEPT !.multiByteFlag = FALSE, !.keyboardStatus = @ \cup {c}]
<1>5. driverHas(next, b.keyboardStatus \cup {c}, FALSE, b.capsLockActive)
  <2>1. b.keyboardStatus \cup {c} \in SUBSET Int
    BY DEF Kb
  <2>. QED
    BY <2>1, Assigned
<1> HIDE DEF next
<1>6. CASE c = CAPSLOCK
  <2>1. getKeyPress(b, c) = [kb |-> [next EXCEPT !.capsLockActive = ~@], key |-> None]
    BY <1>1, <1>3, <1>6 DEF getKeyPress, next
  <2>2. driverHas([next EXCEPT !.capsLockActive = ~@], b.keyboardStatus \cup {c}, FALSE,
                  ~b.capsLockActive)
    BY <1>5, Toggled DEF driverHas
  <2>3. (b.capsLockActive # (c = CAPSLOCK)) = ~b.capsLockActive
    BY <1>6 DEF Kb
  <2>4. Decoded(b, c).kb = [next EXCEPT !.capsLockActive = ~@] /\ Decoded(b, c).key = None
    BY <1>4, <2>1
  <2>. QED
    BY <2>2, <2>3, <2>4 DEF driverHas
<1>7. CASE c # CAPSLOCK
  <2>1. getKeyPress(b, c) = [kb |-> next, key |-> None]
    BY <1>1, <1>3, <1>7, TablesAgree DEF getKeyPress, KEYCODE_SHIFT, Chars, next
  <2>2. (b.capsLockActive # (c = CAPSLOCK)) = b.capsLockActive
    BY <1>7 DEF Kb
  <2>3. Decoded(b, c).kb = next /\ Decoded(b, c).key = None
    BY <1>4, <2>1
  <2>. QED
    BY <1>5, <2>2, <2>3 DEF driverHas
<1>. QED
  BY <1>6, <1>7

\* The table the driver looks in, by what it holds.
shiftedIn(b, c) ==
    (LSHIFT \in b.keyboardStatus \/ RSHIFT \in b.keyboardStatus)
        # (b.capsLockActive /\ c \in {30, 32, 46})
charIn(b, c) == IF shiftedIn(b, c) THEN shiftedScancodeToAscii[c] ELSE scancodeToAscii[c]
keyIn(b, c) == CASE LCONTROL \in b.keyboardStatus /\ c = PRESS_C -> "ETX"
                 [] LCONTROL \in b.keyboardStatus /\ c = PRESS_D -> "EOT"
                 [] OTHER -> charIn(b, c)

\* A plain key with a character: the control key if Ctrl is held, and the
\* character of the table the modifiers choose if not.
LEMMA DecodesChar ==
    ASSUME NEW b \in Kb, ~b.multiByteFlag, NEW c \in Chars
    PROVE  /\ Decoded(b, c).key = keyIn(b, c)
           /\ \E codes \in {b.keyboardStatus, b.keyboardStatus \cup {c}} :
                 driverHas(Decoded(b, c).kb, codes, FALSE, b.capsLockActive)
<1> DEFINE ctrl    == LCONTROL \in b.keyboardStatus
<1>1. c # MULTI_BYTE_SCANCODE /\ ~(c >= 128) /\ c \in 1 .. 58 /\ c # CAPSLOCK
  BY TablesAgree DEF MULTI_BYTE_SCANCODE, CAPSLOCK
<1>2. CASE ctrl /\ c = PRESS_C
  BY <1>1, <1>2 DEF Decoded, processControl, isPressed, None, keyIn, driverHas, Kb
<1>3. CASE ctrl /\ c = PRESS_D
  BY <1>1, <1>3 DEF Decoded, processControl, isPressed, None, PRESS_C, PRESS_D, keyIn, driverHas, Kb
<1>4. CASE ~(ctrl /\ c = PRESS_C) /\ ~(ctrl /\ c = PRESS_D)
  <2>1. Decoded(b, c) = getKeyPress(b, c)
    BY <1>1, <1>4 DEF Decoded, processControl, isPressed
  <2>2. c % 128 = c
    BY <1>1
  <2>3. normalizedCode(b, c) = c
    BY <1>1, <2>2 DEF normalizedCode, Kb
  <2> DEFINE next == [b EXCEPT !.multiByteFlag = FALSE, !.keyboardStatus = @ \cup {c}]
  <2>4. /\ next = [b EXCEPT !.keyboardStatus = @ \cup {c}]
        /\ next.keyboardStatus = b.keyboardStatus \cup {c}
        /\ next.capsLockActive = b.capsLockActive
    BY DEF Kb
  <2>5. c # LSHIFT /\ c # RSHIFT
    BY TablesAgree DEF LSHIFT, RSHIFT
  <2>6. shouldShift(next, c) = shiftedIn(b, c)
    BY <2>4, <2>5 DEF shouldShift, isPressed, isAlpha, shiftedIn
  <2>7. getKeyPress(b, c)
          = [kb |-> next, key |-> charIn(b, c)]
    BY <1>1, <2>3, <2>6, TablesAgree DEF getKeyPress, AsciiCodes, Chars, charIn
  <2>8. driverHas(next, b.keyboardStatus \cup {c}, FALSE, b.capsLockActive)
    <3>1. b.keyboardStatus \cup {c} \in SUBSET Int
      BY <1>1 DEF Kb
    <3>. QED
      BY <3>1, Assigned
  <2> HIDE DEF next
  <2>9. /\ Decoded(b, c).kb = next
        /\ Decoded(b, c).key = charIn(b, c)
    BY <2>1, <2>7
  <2>10. \E codes \in {b.keyboardStatus, b.keyboardStatus \cup {c}} :
            driverHas(Decoded(b, c).kb, codes, FALSE, b.capsLockActive)
    BY <2>8, <2>9 DEF driverHas
  <2>. QED
    BY <1>4, <2>9, <2>10 DEF keyIn
<1>. QED
  BY <1>2, <1>3, <1>4

-----------------------------------------------------------------------------
(* What the user does *)

LEMMA NamesTracked ==
    /\ Tracked \subseteq DOMAIN NamedCodes
    /\ None \notin Tracked /\ "caps" \notin Tracked
    /\ \A n \in Tracked : NamedCodes[n] \in 1 .. 95 /\ NamedCodes[n] \notin Chars
  BY Codes, TablesAgree DEF Tracked, None

\* A key that is held means nothing by itself, unless it is an extended one.
LEMMA ModifiersMeanNothing ==
    ASSUME NEW k \in DOMAIN KeyCodes, k \in Modifiers
    PROVE  Meaning(k) = IF Extended(k) THEN "ext" ELSE None
  BY DEF Meaning

\* Nobody presses a key while bytes of another are to come.
LEMMA NothingToCome ==
    ASSUME KeysInv, port = <<>>
    PROVE  Settled
<1>1. SUFFICES ASSUME NEW k \in DOMAIN KeyCodes, Tapping(k) \/ Pressing(k) \/ Releasing(k)
               PROVE  FALSE
  BY DEF KeysInv, InStep
<1>2. Broken(k) \in Seq({Prefix, Break(k)})
  BY BrokenIsASeq
<1>3. \A b, s : comes(k, b, s) /\ (s = <<>> \/ s = Broken(k)) => port # <<>>
  <2> SUFFICES ASSUME NEW b, NEW s, comes(k, b, s), s = <<>> \/ s = Broken(k)
               PROVE  port # <<>>
    OBVIOUS
  <2>1. s \in Seq({Prefix, Break(k)})
    <3>1. \A S : <<>> \in Seq(S)
      OBVIOUS
    <3>. QED
      BY <1>2, <3>1
  <2>2. <<Prefix, b>> \o s # <<>> /\ <<b>> \o s # <<>>
    BY <2>1, FirstOf
  <2>. QED
    BY <2>2 DEF comes
<1>. QED
  BY <1>1, <1>3 DEF Tapping, Pressing, Releasing

LEMMA TapKeeps ==
    ASSUME KeysInv, NEW k \in DOMAIN KeyCodes, Tap(k)
    PROVE  KeysInv'
<1>1. Settled
  BY NothingToCome DEF Tap, MayAct
<1>2. UNCHANGED <<held, caps, kb, last>>
  BY DEF Tap
<1>3. port' = Made(k) \o Broken(k) /\ k \notin Modifiers
  BY DEF Tap
<1>4. Make(k)' = Make(k) /\ Broken(k)' = Broken(k)
  BY <1>2 DEF Make, Broken, Bytes, CodeOf, Meaning, HoldsShift
<1>5. Broken(k) \in Seq({Prefix, Break(k)})
  BY BrokenIsASeq
<1>6. comes(k, Make(k), Broken(k))'
  <2>1. (Extended(k) => port' = <<Prefix, Make(k)>> \o Broken(k))
        /\ (~Extended(k) => port' = <<Make(k)>> \o Broken(k))
    BY <1>3, BytesOfKeys
  <2>. QED
    BY <1>1, <1>2, <1>4, <2>1 DEF comes, Settled, Prefix, KeysInv, Kb, Extended
<1>7. Tapping(k)'
  BY <1>1, <1>2, <1>3, <1>6 DEF Tapping, Settled, settledBut
<1>. QED
  BY <1>2, <1>7 DEF KeysInv, InStep, KeysMeanWhatTheySay

LEMMA PressKeeps ==
    ASSUME KeysInv, PlainKeyboard, NEW k \in DOMAIN KeyCodes, Press(k)
    PROVE  KeysInv'
<1>1. Settled
  BY NothingToCome DEF Press, MayAct
<1>2. UNCHANGED <<kb, last>> /\ port' = Made(k) /\ held' = held \cup {k} /\ k \in Modifiers
  BY DEF Press
<1>3. caps' = (caps # (k = "caps")) /\ caps' \in BOOLEAN
  BY DEF Press, PlainKeyboard, KeysInv
<1>4. Meaning(k) = IF Extended(k) THEN "ext" ELSE None
  BY <1>2, ModifiersMeanNothing
<1>5. Meaning(k)' = IF Extended(k) THEN "ext" ELSE None
  BY <1>2 DEF Meaning
<1>6. Make(k)' = Make(k)
  BY <1>4, <1>5 DEF Make, CodeOf
<1>7. comes(k, Make(k), <<>>)'
  BY <1>1, <1>2, <1>6, BytesOfKeys DEF comes, Settled, Prefix, KeysInv, Kb, Extended
<1>8. settledBut(k)'
  BY <1>1, <1>2, NamesTracked DEF Settled, settledBut
<1>9. kb'.capsLockActive = (caps' # (k = "caps"))
  BY <1>1, <1>2, <1>3 DEF Settled, KeysInv, Kb
<1>10. Pressing(k)'
  BY <1>2, <1>7, <1>8, <1>9 DEF Pressing
<1>. QED
  BY <1>2, <1>3, <1>10 DEF KeysInv, InStep, KeysMeanWhatTheySay

LEMMA ReleaseKeeps ==
    ASSUME KeysInv, NEW k \in DOMAIN KeyCodes, Release(k)
    PROVE  KeysInv'
<1>1. Settled
  BY NothingToCome DEF Release, MayAct
<1>2. UNCHANGED <<caps, kb, last>> /\ port' = Broken(k) /\ held' = held \ {k}
  BY DEF Release
<1>3. comes(k, Break(k), <<>>)'
  BY <1>1, <1>2, BytesOfKeys DEF comes, Settled, Prefix, Break, CodeOf, KeysInv, Kb, Extended
<1>4. settledBut(k)'
  BY <1>1, <1>2, NamesTracked DEF Settled, settledBut
<1>5. Releasing(k)'
  BY <1>1, <1>2, <1>3, <1>4 DEF Releasing, Settled
<1>. QED
  BY <1>2, <1>5 DEF KeysInv, InStep, KeysMeanWhatTheySay

-----------------------------------------------------------------------------
(* What the interrupt does *)

\* It takes the first byte; the user does nothing meanwhile.
LEMMA ByteTaken ==
    ASSUME keyboardInterrupt, NEW b, Head(port) = b
    PROVE  /\ kb' = Decoded(kb, b.code).kb /\ last' = [key |-> Decoded(kb, b.code).key, meant |-> b.meant]
           /\ port' = Tail(port) /\ UNCHANGED <<held, caps>>
  BY DEF keyboardInterrupt, userVars

\* A prefix comes in: the byte behind it is to come.
LEMMA PrefixTaken ==
    ASSUME KeysInv, keyboardInterrupt, NEW k \in DOMAIN KeyCodes, Extended(k), ~kb.multiByteFlag,
           NEW b, NEW S, NEW s \in Seq(S), port = <<Prefix, b>> \o s
    PROVE  /\ kb' \in Kb /\ KeysMeanWhatTheySay'
           /\ UNCHANGED <<held, caps>>
           /\ kb'.keyboardStatus = kb.keyboardStatus /\ kb'.capsLockActive = kb.capsLockActive
           /\ kb'.multiByteFlag /\ port' = <<b>> \o s
<1>1. Head(port) = Prefix /\ Tail(port) = <<b>> \o s
  BY FirstOf
<1>2. /\ kb' = Decoded(kb, MULTI_BYTE_SCANCODE).kb
      /\ last' = [key |-> Decoded(kb, MULTI_BYTE_SCANCODE).key, meant |-> None]
      /\ port' = <<b>> \o s /\ UNCHANGED <<held, caps>>
  <2>1. Prefix.code = MULTI_BYTE_SCANCODE /\ Prefix.meant = None
    BY DEF Prefix
  <2>. QED
    BY <1>1, <2>1, ByteTaken
<1>3. kb \in Kb
  BY DEF KeysInv
<1>4. Decoded(kb, MULTI_BYTE_SCANCODE).key = None
  BY <1>3, DecodesPrefix
<1>5. driverHas(kb', kb.keyboardStatus, TRUE, kb.capsLockActive)
  BY <1>2, <1>3, DecodesPrefix
<1>. QED
  BY <1>2, <1>4, <1>5 DEF driverHas, KeysMeanWhatTheySay

\* The byte b itself comes in.
LEMMA CodeTaken ==
    ASSUME KeysInv, keyboardInterrupt, NEW b, NEW S, NEW s \in Seq(S), port = <<b>> \o s
    PROVE  /\ kb' = Decoded(kb, b.code).kb
           /\ last' = [key |-> Decoded(kb, b.code).key, meant |-> b.meant]
           /\ port' = s /\ UNCHANGED <<held, caps>>
<1>1. Head(port) = b /\ Tail(port) = s
  BY FirstOf
<1>. QED
  BY <1>1, ByteTaken

\* The named keys that are pressed or not do not depend on the code of another key.
LEMMA OthersStay ==
    ASSUME NEW k \in DOMAIN KeyCodes, NEW n \in Tracked, n # k
    PROVE  NamedCodes[n] # (IF Extended(k) THEN CodeOf(k) + 127 ELSE CodeOf(k))
<1>1. n \in DOMAIN NamedCodes /\ NamedCodes[n] \in 1 .. 95
  BY NamesTracked
<1>2. CASE Extended(k)
  BY <1>1, <1>2, KeyHasCode
<1>3. CASE ~Extended(k)
  BY <1>1, <1>3, KeyHasCode
<1>. QED
  BY <1>2, <1>3

\* A tapped key with a character means the one the driver finds in its tables.
LEMMA CharMeant ==
    ASSUME KeysInv, NEW k \in DOMAIN KeyCodes, k \notin Modifiers, ~Extended(k), ~kb.multiByteFlag,
           settledBut(None), kb.capsLockActive = caps
    PROVE  /\ Decoded(kb, CodeOf(k)).key = Meaning(k)
           /\ \E codes \in {kb.keyboardStatus, kb.keyboardStatus \cup {CodeOf(k)}} :
                 driverHas(Decoded(kb, CodeOf(k)).kb, codes, FALSE, kb.capsLockActive)
<1> DEFINE c == CodeOf(k)
<1>1. c \in Chars /\ kb \in Kb
  BY KeyHasCode DEF KeysInv
<1>2. (c = 30 <=> k = "a") /\ (c = PRESS_C <=> k = "c") /\ (c = PRESS_D <=> k = "d")
  BY KeyHasCode, Codes DEF PRESS_C, PRESS_D
<1>3. LCONTROL \in kb.keyboardStatus <=> "lctrl" \in held
  BY NamesTracked, Codes DEF settledBut, Tracked, LCONTROL
<1>4. (LSHIFT \in kb.keyboardStatus \/ RSHIFT \in kb.keyboardStatus) <=> HoldsShift
  <2>1. LSHIFT \in kb.keyboardStatus <=> "lshift" \in held
    BY NamesTracked, Codes DEF settledBut, Tracked, LSHIFT
  <2>2. RSHIFT \in kb.keyboardStatus <=> "rshift" \in held
    BY NamesTracked, Codes DEF settledBut, Tracked, RSHIFT
  <2>. QED
    BY <2>1, <2>2 DEF HoldsShift
<1>5. shiftedIn(kb, c) <=> HoldsShift # (caps /\ k \in {"a", "c", "d"})
  BY <1>2, <1>4 DEF PRESS_C, PRESS_D, KeysInv, HoldsShift, shiftedIn
<1>6. charIn(kb, c) = IF HoldsShift # (caps /\ k \in {"a", "c", "d"})
                      THEN shiftedScancodeToAscii[c] ELSE scancodeToAscii[c]
  BY <1>5 DEF charIn
<1>7. keyIn(kb, c) = Meaning(k)
  BY <1>2, <1>3, <1>6 DEF Meaning, keyIn
<1>. QED
  BY <1>1, <1>7, DecodesChar

LEMMA TappingStep ==
    ASSUME KeysInv, PlainKeyboard, keyboardInterrupt, NEW k \in DOMAIN KeyCodes, Tapping(k)
    PROVE  KeysInv'
<1> USE DEF Tapping
<1>1. Broken(k) \in Seq({Prefix, Break(k)})
  BY BrokenIsASeq
<1>2. CASE Extended(k) /\ ~kb.multiByteFlag /\ port = <<Prefix, Make(k)>> \o Broken(k)
  <2>1. /\ kb' \in Kb /\ KeysMeanWhatTheySay'
        /\ UNCHANGED <<held, caps>>
        /\ kb'.keyboardStatus = kb.keyboardStatus /\ kb'.capsLockActive = kb.capsLockActive
        /\ kb'.multiByteFlag /\ port' = <<Make(k)>> \o Broken(k)
    BY <1>1, <1>2, PrefixTaken
  <2>2. Make(k)' = Make(k) /\ Broken(k)' = Broken(k)
    BY <2>1 DEF Make, Broken, Bytes, CodeOf, Meaning, HoldsShift
  <2>3. comes(k, Make(k), Broken(k))'
    BY <1>2, <2>1, <2>2 DEF comes, Extended, Kb
  <2>4. settledBut(None)' /\ kb'.capsLockActive = caps'
    BY <2>1 DEF settledBut
  <2>5. Tapping(k)'
    BY <2>3, <2>4
  <2>. QED
    BY <2>1, <2>5 DEF KeysInv, InStep
<1>3. CASE kb.multiByteFlag = Extended(k) /\ port = <<Make(k)>> \o Broken(k)
  <2> DEFINE d == Decoded(kb, CodeOf(k))
  <2>1. kb' = d.kb /\ last' = [key |-> d.key, meant |-> Meaning(k)]
        /\ port' = Broken(k) /\ UNCHANGED <<held, caps>>
    <3>1. Make(k).code = CodeOf(k) /\ Make(k).meant = Meaning(k)
      BY DEF Make
    <3>. QED
      BY <1>1, <1>3, <3>1, CodeTaken
  <2>2. /\ d.key = Meaning(k)
        /\ \E codes \in {kb.keyboardStatus,
                         kb.keyboardStatus \cup {IF Extended(k) THEN CodeOf(k) + 127 ELSE CodeOf(k)}} :
              driverHas(d.kb, codes, FALSE, kb.capsLockActive)
    <3>1. CASE Extended(k)
      <4>1. /\ d.key = "ext"
            /\ driverHas(d.kb, kb.keyboardStatus \cup {CodeOf(k) + 127}, FALSE, kb.capsLockActive)
        BY <1>3, <3>1, KeyHasCode, DecodesExtended DEF PlainKeyboard, KeysInv
      <4>. QED
        BY <3>1, <4>1 DEF Meaning
    <3>2. CASE ~Extended(k)
      BY <1>3, <3>2, CharMeant
    <3>. QED
      BY <3>1, <3>2
  <2>3. kb' \in Kb /\ ~kb'.multiByteFlag /\ kb'.capsLockActive = caps'
    BY <2>1, <2>2 DEF driverHas
  <2>4. settledBut(k)'
    BY <2>1, <2>2, OthersStay, NamesTracked DEF driverHas, settledBut
  <2>5. comes(k, Break(k), <<>>)'
    BY <2>1, <2>3, BytesOfKeys DEF comes, Break, Prefix, CodeOf, Extended, Kb
  <2>6. k \notin held'
    BY <2>1 DEF KeysInv
  <2>7. Releasing(k)'
    BY <2>3, <2>4, <2>5, <2>6 DEF Releasing
  <2>. QED
    BY <2>1, <2>2, <2>3, <2>7 DEF KeysInv, InStep, KeysMeanWhatTheySay
<1>. QED
  BY <1>2, <1>3 DEF comes

LEMMA PressingStep ==
    ASSUME KeysInv, PlainKeyboard, keyboardInterrupt, NEW k \in DOMAIN KeyCodes, Pressing(k)
    PROVE  KeysInv'
<1> USE DEF Pressing
<1>1. <<>> \in Seq({})
  OBVIOUS
<1>2. CASE Extended(k) /\ ~kb.multiByteFlag /\ port = <<Prefix, Make(k)>> \o <<>>
  <2>1. /\ kb' \in Kb /\ KeysMeanWhatTheySay'
        /\ UNCHANGED <<held, caps>>
        /\ kb'.keyboardStatus = kb.keyboardStatus /\ kb'.capsLockActive = kb.capsLockActive
        /\ kb'.multiByteFlag /\ port' = <<Make(k)>> \o <<>>
    BY <1>1, <1>2, PrefixTaken
  <2>2. Make(k)' = Make(k)
    BY <2>1 DEF Make, CodeOf, Meaning, HoldsShift
  <2>3. comes(k, Make(k), <<>>)'
    BY <1>2, <2>1, <2>2 DEF comes, Extended, Kb
  <2>4. settledBut(k)' /\ kb'.capsLockActive = (caps' # (k = "caps"))
    BY <2>1 DEF settledBut
  <2>5. Pressing(k)'
    BY <2>1, <2>3, <2>4
  <2>. QED
    BY <2>1, <2>5 DEF KeysInv, InStep
<1>3. CASE kb.multiByteFlag = Extended(k) /\ port = <<Make(k)>> \o <<>>
  <2> DEFINE d == Decoded(kb, CodeOf(k))
             code == IF Extended(k) THEN CodeOf(k) + 127 ELSE CodeOf(k)
  <2>1. kb' = d.kb /\ last' = [key |-> d.key, meant |-> Meaning(k)]
        /\ port' = <<>> /\ UNCHANGED <<held, caps>>
    <3>1. Make(k).code = CodeOf(k) /\ Make(k).meant = Meaning(k)
      BY DEF Make
    <3>. QED
      BY <1>1, <1>3, <3>1, CodeTaken
  <2>2. /\ d.key = Meaning(k)
        /\ driverHas(d.kb, kb.keyboardStatus \cup {code}, FALSE, caps)
    <3>1. CASE Extended(k)
      <4>1. /\ d.key = "ext"
            /\ driverHas(d.kb, kb.keyboardStatus \cup {CodeOf(k) + 127}, FALSE, kb.capsLockActive)
        BY <1>3, <3>1, KeyHasCode, DecodesExtended DEF PlainKeyboard, KeysInv
      <4>2. k # "caps"
        BY <3>1, KeyHasCode, Codes
      <4>3. kb.capsLockActive = caps
        BY <4>2 DEF KeysInv, Kb
      <4>. QED
        BY <3>1, <4>1, <4>3 DEF Meaning
    <3>2. CASE ~Extended(k)
      <4>1. CodeOf(k) \in (1 .. 95) \ Chars /\ (CodeOf(k) = CAPSLOCK <=> k = "caps")
        BY <3>2, KeyHasCode, Codes DEF CAPSLOCK
      <4>2. /\ d.key = None
            /\ driverHas(d.kb, kb.keyboardStatus \cup {CodeOf(k)}, FALSE,
                         kb.capsLockActive # (CodeOf(k) = CAPSLOCK))
        BY <1>3, <3>2, <4>1, DecodesModifier DEF KeysInv
      <4>3. (kb.capsLockActive # (CodeOf(k) = CAPSLOCK)) = caps
        BY <4>1 DEF KeysInv, Kb
      <4>. QED
        BY <3>2, <4>2, <4>3, ModifiersMeanNothing DEF driverHas
    <3>. QED
      BY <3>1, <3>2
  <2>3. kb' \in Kb /\ ~kb'.multiByteFlag /\ kb'.capsLockActive = caps'
    BY <2>1, <2>2 DEF driverHas
  <2>4. settledBut(None)'
    <3>1. SUFFICES ASSUME NEW n \in Tracked
                   PROVE  NamedCodes[n] \in kb'.keyboardStatus <=> n \in held'
      BY NamesTracked DEF settledBut
    <3>2. CASE n = k
      <4>1. ~Extended(k) /\ CodeOf(k) = NamedCodes[n]
        BY <3>2, KeyHasCode, NamesTracked
      <4>. QED
        BY <2>1, <2>2, <3>2, <4>1 DEF driverHas
    <3>3. CASE n # k
      BY <2>1, <2>2, <3>3, OthersStay DEF driverHas, settledBut
    <3>. QED
      BY <3>2, <3>3
  <2>5. Settled'
    BY <2>1, <2>3, <2>4 DEF Settled
  <2>. QED
    BY <2>1, <2>2, <2>3, <2>5 DEF KeysInv, InStep, KeysMeanWhatTheySay
<1>. QED
  BY <1>2, <1>3 DEF comes

LEMMA ReleasingStep ==
    ASSUME KeysInv, keyboardInterrupt, NEW k \in DOMAIN KeyCodes, Releasing(k)
    PROVE  KeysInv'
<1> USE DEF Releasing
<1>1. <<>> \in Seq({})
  OBVIOUS
<1>2. CASE Extended(k) /\ ~kb.multiByteFlag /\ port = <<Prefix, Break(k)>> \o <<>>
  <2>1. /\ kb' \in Kb /\ KeysMeanWhatTheySay'
        /\ UNCHANGED <<held, caps>>
        /\ kb'.keyboardStatus = kb.keyboardStatus /\ kb'.capsLockActive = kb.capsLockActive
        /\ kb'.multiByteFlag /\ port' = <<Break(k)>> \o <<>>
    BY <1>1, <1>2, PrefixTaken
  <2>2. comes(k, Break(k), <<>>)'
    BY <1>2, <2>1 DEF comes, Break, CodeOf, Extended, Kb
  <2>3. settledBut(k)' /\ kb'.capsLockActive = caps'
    BY <2>1 DEF settledBut
  <2>4. Releasing(k)'
    BY <2>1, <2>2, <2>3
  <2>. QED
    BY <2>1, <2>4 DEF KeysInv, InStep
<1>3. CASE kb.multiByteFlag = Extended(k) /\ port = <<Break(k)>> \o <<>>
  <2> DEFINE d == Decoded(kb, CodeOf(k) + 128)
             code == IF kb.multiByteFlag THEN CodeOf(k) + 127 ELSE CodeOf(k)
  <2>1. kb' = d.kb /\ last' = [key |-> d.key, meant |-> None]
        /\ port' = <<>> /\ UNCHANGED <<held, caps>>
    <3>1. Break(k).code = CodeOf(k) + 128 /\ Break(k).meant = None
      BY DEF Break
    <3>. QED
      BY <1>1, <1>3, <3>1, CodeTaken
  <2>2. d.key = None /\ driverHas(d.kb, kb.keyboardStatus \ {code}, FALSE, kb.capsLockActive)
    BY KeyHasCode, DecodesBreak DEF KeysInv
  <2>3. kb' \in Kb /\ ~kb'.multiByteFlag /\ kb'.capsLockActive = caps'
    BY <2>1, <2>2 DEF driverHas
  <2>4. settledBut(None)'
    <3>1. SUFFICES ASSUME NEW n \in Tracked
                   PROVE  NamedCodes[n] \in kb'.keyboardStatus <=> n \in held'
      BY NamesTracked DEF settledBut
    <3>2. CASE n = k
      <4>1. ~Extended(k) /\ CodeOf(k) = NamedCodes[n]
        BY <3>2, KeyHasCode, NamesTracked
      <4>. QED
        BY <1>3, <2>1, <2>2, <3>2, <4>1 DEF driverHas
    <3>3. CASE n # k
      <4>1. NamedCodes[n] # code
        BY <1>3, <3>3, OthersStay
      <4>. QED
        BY <2>1, <2>2, <3>3, <4>1 DEF driverHas, settledBut
    <3>. QED
      BY <3>2, <3>3
  <2>5. Settled'
    BY <2>1, <2>3, <2>4 DEF Settled
  <2>. QED
    BY <2>1, <2>2, <2>3, <2>5 DEF KeysInv, InStep, KeysMeanWhatTheySay
<1>. QED
  BY <1>2, <1>3 DEF comes

-----------------------------------------------------------------------------
(* The theorem *)

\* Nothing is held and no byte is to come.
LEMMA KeysStart == Init => KeysInv
<1> SUFFICES ASSUME Init
             PROVE  KeysInv
  OBVIOUS
<1>1. kb \in Kb /\ caps \in BOOLEAN /\ held = {} /\ last.key = last.meant
  BY DEF Init, KeyboardInit, Kb
<1>2. Settled
  BY DEF Init, KeyboardInit, Settled, settledBut
<1>. QED
  BY <1>1, <1>2 DEF KeysInv, InStep, KeysMeanWhatTheySay

\* A step that moves neither the user nor the driver.
LEMMA ElsewhereKeeps ==
    ASSUME KeysInv, UNCHANGED <<held, caps, port, kb, last>>
    PROVE  KeysInv'
<1>1. \A k \in DOMAIN KeyCodes : /\ Tapping(k)' = Tapping(k) /\ Pressing(k)' = Pressing(k)
                                  /\ Releasing(k)' = Releasing(k)
  BY DEF Tapping, Pressing, Releasing, settledBut, comes, Make, Break, Broken, Bytes, CodeOf,
         Extended, Meaning, HoldsShift
<1>2. Settled' = Settled
  BY DEF Settled, settledBut
<1>. QED
  BY <1>1, <1>2 DEF KeysInv, InStep, KeysMeanWhatTheySay

LEMMA KeysPreserved ==
    ASSUME PlainKeyboard, KeysInv, [Next]_consoleVars
    PROVE  KeysInv'
<1>1. ASSUME NEW k \in DOMAIN KeyCodes, Tap(k) \/ Press(k) \/ Release(k)
      PROVE  KeysInv'
  BY <1>1, TapKeeps, PressKeeps, ReleaseKeeps
<1>2. CASE keyboardInterrupt
  <2>1. ~Settled
    BY <1>2 DEF keyboardInterrupt, Settled
  <2>. QED
    BY <1>2, <2>1, TappingStep, PressingStep, ReleasingStep DEF KeysInv, InStep
<1>3. CASE ShellReads \/ RunLine \/ terminalProcess \/ UNCHANGED consoleVars
  BY <1>3, ElsewhereKeeps DEF ShellReads, RunLine, terminalProcess, consoleVars, userVars
<1>. QED
  BY <1>1, <1>2, <1>3 DEF Next

\* In every reachable state the driver is right about the keys held, but for the
\* one whose bytes are on their way.
THEOREM KeysInvariance == ASSUME PlainKeyboard PROVE Spec => []KeysInv
<1>. QED
  BY KeysStart, KeysPreserved, PTL DEF Spec

\* getKeyPress and processControl make of every scancode what was meant by the
\* key, however long the user types and in whatever order keys go down and up:
\* no byte is read with a stale prefix, a modifier let go of is never believed
\* held, and Ctrl+C is only ever Ctrl+C.
THEOREM KeysAlwaysMeanWhatTheySay ==
    ASSUME PlainKeyboard PROVE Spec => []KeysMeanWhatTheySay
<1>1. KeysInv => KeysMeanWhatTheySay
  BY DEF KeysInv
<1>. QED
  BY <1>1, KeysInvariance, PTL
=============================================================================
