------------------------------ MODULE Keyboard ------------------------------
(***************************************************************************)
(* The keyboard driver: scancodes to characters, modifiers and the E0      *)
(* prefix of extended keys.                                                *)
(*   Kernel/Drivers/keyboardDriver.c                                       *)
(*                                                                         *)
(* Its static variables are the record kb; keyboardStatus is the set of    *)
(* codes it holds for pressed.  The tables have the keys the runs use.     *)
(***************************************************************************)
EXTENDS Integers, Sequences, FiniteSets

MULTI_BYTE_SCANCODE == 224      \* 0xE0
KEYCODE_SHIFT == 127
LSHIFT == 42
RSHIFT == 54
CAPSLOCK == 58
LCONTROL == 29
PRESS_C == 46
PRESS_D == 32
AsciiCodes == 59                \* the size of the tables

AsciiKeys == {2, 14, 15, 28, 30, 32, 46}
scancodeToAscii ==
    [code \in AsciiKeys |-> CASE code = 2  -> "1"  [] code = 14 -> "BS" [] code = 15 -> "TAB"
                              [] code = 28 -> "NL" [] code = 30 -> "a"  [] code = 32 -> "d"
                              [] code = 46 -> "c"]
shiftedScancodeToAscii ==
    [code \in AsciiKeys |-> CASE code = 2  -> "!"  [] code = 14 -> "BS" [] code = 15 -> "TAB"
                              [] code = 28 -> "NL" [] code = 30 -> "A"  [] code = 32 -> "D"
                              [] code = 46 -> "C"]

None == "none"

KeyboardInit == [keyboardStatus |-> {}, multiByteFlag |-> FALSE, capsLockActive |-> FALSE]

isPressed(kb, code) == code \in kb.keyboardStatus
isAlpha(code) == code \in {30, 32, 46}

shouldShift(kb, code) ==
    (isPressed(kb, LSHIFT) \/ isPressed(kb, RSHIFT)) # (kb.capsLockActive /\ isAlpha(code))

\* Seeded fault: an extended key is taken for the plain one of its code.
normalizedCodePlain(kb, scancode) == scancode % 128

normalizedCode(kb, scancode) ==
    (scancode % 128) + (IF kb.multiByteFlag THEN KEYCODE_SHIFT ELSE 0)

\* The new state and the key: a character, "ext" for an extended key, or None.
getKeyPress(kb, scancode) ==
    LET code    == normalizedCode(kb, scancode)
        release == scancode >= 128
        next    == [kb EXCEPT !.multiByteFlag = FALSE,
                              !.keyboardStatus = IF release THEN @ \ {code} ELSE @ \cup {code}]
        map     == IF shouldShift(next, code) THEN shiftedScancodeToAscii ELSE scancodeToAscii
    IN  CASE release -> [kb |-> next, key |-> None]
          [] ~release /\ code = CAPSLOCK ->
               [kb |-> [next EXCEPT !.capsLockActive = ~@], key |-> None]
          [] ~release /\ code # CAPSLOCK /\ code < AsciiCodes ->
               [kb |-> next, key |-> IF code \in DOMAIN map THEN map[code] ELSE None]
          [] OTHER ->
               [kb |-> next, key |-> IF code >= KEYCODE_SHIFT THEN "ext" ELSE None]

\* It looks at the raw code, whatever prefix came before.
processControl(kb, scancode) ==
    CASE isPressed(kb, LCONTROL) /\ scancode = PRESS_C -> "ETX"
      [] isPressed(kb, LCONTROL) /\ scancode = PRESS_D -> "EOT"
      [] OTHER -> None

\* keyboardInterrupt up to the key; a control key leaves the state alone.
Decoded(kb, scancode) ==
    IF scancode = MULTI_BYTE_SCANCODE
    THEN [kb |-> [kb EXCEPT !.multiByteFlag = TRUE], key |-> None]
    ELSE IF processControl(kb, scancode) # None
    THEN [kb |-> kb, key |-> processControl(kb, scancode)]
    ELSE getKeyPress(kb, scancode)
=============================================================================
