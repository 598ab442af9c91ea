------------------------------ MODULE Console ------------------------------
(***************************************************************************)
(* From the key to the pixel: a user presses and releases keys, the        *)
(* keyboard interrupt decodes them into the keyboard's pipe, the shell     *)
(* edits and echoes its line, and the terminal draws.                      *)
(*   keyboardDriver.c, shell.c (readLine, shellLoop), terminal.c,          *)
(*   videoDriver.c                                                         *)
(*                                                                         *)
(* The two pipes are byte streams (module Pipe).  What a command writes is *)
(* a choice of Outputs.                                                    *)
(***************************************************************************)
EXTENDS Terminal, Keyboard

CONSTANTS
    KeySets,        \* the keyboards: sets of keys the user has
    KeyCodes,       \* the scancodes of each key, a prefix included
    Modifiers,      \* the keys that are held; the others are tapped
    Repeats,        \* the modifiers that repeat while held
    MAX_COMMAND_LENGTH, READ_BUF,
    PROMPT, Outputs,    \* byte sequences
    MaxEvents,          \* bound on what the user does
    MaxAhead            \* bound on what is typed ahead of the shell

\* The keys that the driver or the user knows by name, and their codes.
NamedCodes == [a |-> 30, c |-> PRESS_C, d |-> PRESS_D, caps |-> CAPSLOCK,
               lshift |-> LSHIFT, rshift |-> RSHIFT, lctrl |-> LCONTROL]

\* A key has one code of seven bits, after the prefix if it is extended; the
\* break code of none is the prefix.  A plain key has a character if it is
\* tapped and none if it is held.
PlainKey(k) == \E c \in 1 .. 95 : KeyCodes[k] = <<c>> /\ (k \in Modifiers) = (c \notin DOMAIN scancodeToAscii)
ExtendedKey(k) == \E c \in 1 .. 95 : KeyCodes[k] = <<MULTI_BYTE_SCANCODE, c>>

ASSUME ConsoleAssumption ==
    /\ \A k \in DOMAIN KeyCodes : PlainKey(k) \/ ExtendedKey(k)
    /\ \A k \in DOMAIN KeyCodes, n \in DOMAIN NamedCodes :
          k = n <=> KeyCodes[k] = <<NamedCodes[n]>>

VARIABLES
    keys,           \* this user's keyboard
    held, caps,     \* the keys really held, and whether caps lock is really on
    events,
    port,           \* scancodes not yet read: [code, meant]
    kb,             \* the driver
    last,           \* history: the last key the driver saw and what it meant
    kbdPipe,
    at, line,       \* the shell: "read" or "run", and its line so far
    termPipe,
    term            \* the terminal

userVars == <<keys, held, caps, events>>
shellVars == <<at, line>>
consoleVars == <<userVars, port, kb, last, kbdPipe, shellVars, termPipe, term>>

Init ==
    /\ keys \in KeySets
    /\ held = {} /\ caps = FALSE /\ events = 0
    /\ port = <<>> /\ kb = KeyboardInit /\ last = [key |-> None, meant |-> None]
    /\ kbdPipe = <<>>
    /\ at = "read" /\ line = <<>>
    /\ termPipe = PROMPT /\ term = TerminalInit

-----------------------------------------------------------------------------
(* The user, who is slower than the interrupts *)

HoldsShift == {"lshift", "rshift"} \cap held # {}
CodeOf(k) == KeyCodes[k][Len(KeyCodes[k])]
Extended(k) == Len(KeyCodes[k]) > 1

\* What the user means by pressing k.
Meaning(k) ==
    IF Extended(k) THEN "ext"
    ELSE CASE k \in Modifiers -> None
           [] k \notin Modifiers /\ k = "c" /\ "lctrl" \in held -> "ETX"
           [] k \notin Modifiers /\ k = "d" /\ "lctrl" \in held -> "EOT"
           [] OTHER -> IF HoldsShift # (caps /\ k \in {"a", "c", "d"})
                       THEN shiftedScancodeToAscii[CodeOf(k)] ELSE scancodeToAscii[CodeOf(k)]

Bytes(codes, meant) ==
    [i \in 1 .. Len(codes) |-> [code |-> codes[i], meant |-> IF i = Len(codes) THEN meant ELSE None]]

Made(k) == Bytes(KeyCodes[k], Meaning(k))
Broken(k) == Bytes([KeyCodes[k] EXCEPT ![Len(KeyCodes[k])] = @ + 128], None)
MayAct(k) == k \in keys /\ events < MaxEvents /\ port = <<>> /\ Len(kbdPipe) <= MaxAhead

Tap(k) ==
    /\ MayAct(k) /\ k \notin Modifiers
    /\ events' = events + 1
    /\ port' = Made(k) \o Broken(k)
    /\ UNCHANGED <<keys, held, caps, kb, last, kbdPipe, shellVars, termPipe, term>>

Press(k) ==
    /\ MayAct(k) /\ k \in Modifiers
    /\ k \notin held \/ k \in Repeats
    /\ events' = events + 1
    /\ port' = Made(k)
    /\ caps' = IF k = "caps" /\ k \notin held THEN ~caps ELSE caps
    /\ held' = held \cup {k}
    /\ UNCHANGED <<keys, kb, last, kbdPipe, shellVars, termPipe, term>>

Release(k) ==
    /\ MayAct(k) /\ k \in held
    /\ events' = events + 1
    /\ port' = Broken(k)
    /\ held' = held \ {k}
    /\ UNCHANGED <<keys, caps, kb, last, kbdPipe, shellVars, termPipe, term>>

-----------------------------------------------------------------------------
(* The system *)

\* ETX kills the foreground set, which the shell is not in; EOT sends a NUL.
keyboardInterrupt ==
    /\ port # <<>>
    /\ \E d \in {Decoded(kb, Head(port).code)} :
         /\ kb' = d.kb
         /\ last' = [key |-> d.key, meant |-> Head(port).meant]
         /\ kbdPipe' = CASE d.key \in {None, "ETX"} -> kbdPipe
                         [] d.key = "EOT"           -> Append(kbdPipe, "NUL")
                         [] OTHER                   -> Append(kbdPipe, d.key)
    /\ port' = Tail(port)
    /\ UNCHANGED <<userVars, shellVars, termPipe, term>>

isPrintableAscii(c) == c \notin {"ext", "NUL"}

\* One turn of readLine's loop; an empty line only gets a new prompt.
readLine(c) ==
    \/ /\ c = "NL" /\ line # <<>>
       /\ at' = "run"
       /\ termPipe' = Append(termPipe, c)
       /\ UNCHANGED line
    \/ /\ c = "NL" /\ line = <<>>
       /\ termPipe' = Append(termPipe, c) \o PROMPT
       /\ UNCHANGED shellVars
    \/ /\ c = "BS" /\ line # <<>>
       /\ line' = Front(line)
       /\ termPipe' = Append(termPipe, c)
       /\ UNCHANGED at
    \/ /\ c \notin {"NL", "BS"} /\ isPrintableAscii(c) /\ Len(line) < MAX_COMMAND_LENGTH - 1
       /\ line' = Append(line, c)
       /\ termPipe' = Append(termPipe, c)
       /\ UNCHANGED at
    \/ /\ \/ c = "BS" /\ line = <<>>
          \/ ~isPrintableAscii(c)
          \/ c \notin {"NL", "BS"} /\ Len(line) >= MAX_COMMAND_LENGTH - 1
       /\ UNCHANGED <<shellVars, termPipe>>

ShellReads ==
    /\ at = "read" /\ kbdPipe # <<>>
    /\ readLine(Head(kbdPipe))
    /\ kbdPipe' = Tail(kbdPipe)
    /\ UNCHANGED <<userVars, port, kb, last, term>>

\* The line is run and waited for; then a newline and the next prompt.
RunLine ==
    /\ at = "run"
    /\ \E out \in Outputs : termPipe' = termPipe \o out \o <<"NL">> \o PROMPT
    /\ at' = "read" /\ line' = <<>>
    /\ UNCHANGED <<userVars, port, kb, last, kbdPipe, term>>

\* A read returns what there is, up to a buffer full.
terminalProcess ==
    /\ termPipe # <<>>
    /\ \E n \in {IF Len(termPipe) < READ_BUF THEN Len(termPipe) ELSE READ_BUF} :
         /\ term' = FoldLeft(termPutChar, term, SubSeq(termPipe, 1, n))
         /\ termPipe' = SubSeq(termPipe, n + 1, Len(termPipe))
    /\ UNCHANGED <<userVars, port, kb, last, kbdPipe, shellVars>>

Next ==
    \/ \E k \in DOMAIN KeyCodes : Tap(k) \/ Press(k) \/ Release(k)
    \/ keyboardInterrupt
    \/ ShellReads
    \/ RunLine
    \/ terminalProcess

Spec == Init /\ [][Next]_consoleVars

-----------------------------------------------------------------------------
(* Properties *)

\* The driver makes of every scancode what the user meant by the key: with the
\* modifiers really held, caps lock as often as it was pressed, extended keys
\* apart from the plain ones, and Ctrl+C and Ctrl+D only for those.
KeysMeanWhatTheySay == last.key = last.meant

\* Once the terminal has caught up, the cells before its cursor show the prompt
\* and the line exactly as the shell holds it, and those after it are blank:
\* wrapped, scrolled, at full length, and after any backspaces.
ScreenShowsTheLine ==
    LET Cells(c) == IF c = "TAB" THEN [i \in 1 .. TAB_WIDTH |-> " "] ELSE <<c>>
        shown == <<">">> \o FlattenSeq([i \in 1 .. Len(line) |-> Cells(line[i])])
        end   == CursorCell(term)
    IN  at = "read" /\ termPipe = <<>> =>
          /\ \A i \in 1 .. Len(shown) : CellShows(term.fb, end - Len(shown) + i - 1, shown[i])
          /\ \A i \in end .. cols * rows - 1 : CellShows(term.fb, i, " ")
=============================================================================
