------------------------------ MODULE Terminal ------------------------------
(***************************************************************************)
(* The terminal process: a cursor, colours and a parser of escape          *)
(* sequences over the screen of module Video.                              *)
(*   Userland/SampleCodeModule/terminal.c                                  *)
(*                                                                         *)
(* Its static variables are the record t, so that a chunk of input is a    *)
(* fold.  A colour is the payload that names it.                           *)
(***************************************************************************)
EXTENDS Video, SequencesExt

CONSTANTS TAB_WIDTH, ESC_PAYLOAD_MAX

DEFAULT_FG == <<"white">>
DEFAULT_BG == <<"black">>

\* initLayout
cols == ScreenWidth \div CHAR_WIDTH
rows == ScreenHeight \div CHAR_HEIGHT

clearScreen(t) == [t EXCEPT !.fb = setBackground(t.bgColor), !.cursorCol = 0, !.cursorRow = 0]

TerminalInit ==
    clearScreen([cursorCol |-> 0, cursorRow |-> 0, fgColor |-> DEFAULT_FG, bgColor |-> DEFAULT_BG,
                 escState |-> "NORMAL", escCmd |-> "", escPayload |-> <<>>, fb |-> <<>>])

newline(t) ==
    IF t.cursorRow + 1 >= rows
    THEN [t EXCEPT !.cursorCol = 0, !.cursorRow = rows - 1,
                   !.fb = scrollUp(@, CHAR_HEIGHT, t.bgColor)]
    ELSE [t EXCEPT !.cursorCol = 0, !.cursorRow = @ + 1]

\* Seeded fault: at the left edge the cursor stays.
backspaceInRow(t) ==
    IF t.cursorCol = 0 THEN t
    ELSE [t EXCEPT !.cursorCol = @ - 1,
                   !.fb = drawRectangle(@, t.bgColor, (t.cursorCol - 1) * CHAR_WIDTH,
                                        t.cursorRow * CHAR_HEIGHT, CHAR_WIDTH, CHAR_HEIGHT)]

backspace(t) ==
    LET col == IF t.cursorCol = 0 THEN cols - 1 ELSE t.cursorCol - 1
        row == IF t.cursorCol = 0 THEN t.cursorRow - 1 ELSE t.cursorRow
        y   == row * CHAR_HEIGHT + BASELINE
    IN  IF t.cursorCol = 0 /\ t.cursorRow = 0 THEN t
        ELSE [t EXCEPT !.cursorCol = col, !.cursorRow = row,
                       !.fb = drawRectangle(@, t.bgColor, col * CHAR_WIDTH, y - BASELINE,
                                            CHAR_WIDTH, CHAR_HEIGHT)]

applyEscape(t, cmd, payload) ==
    CASE cmd = "c" -> clearScreen(t)
      [] cmd = "f" -> [t EXCEPT !.fgColor = payload]
      [] cmd = "b" -> clearScreen([t EXCEPT !.bgColor = payload])
      [] cmd = "r" -> [t EXCEPT !.fgColor = DEFAULT_FG, !.bgColor = DEFAULT_BG]
      [] OTHER     -> t

\* The line is broken when the next character comes, not when it is full.
drawNormalChar(t0, c) ==
    LET t == IF t0.cursorCol >= cols THEN newline(t0) ELSE t0
    IN  [t EXCEPT !.cursorCol = @ + 1,
                  !.fb = drawSymbol(@, c, t.cursorCol * CHAR_WIDTH,
                                    t.cursorRow * CHAR_HEIGHT + BASELINE, t.fgColor, t.bgColor)]

\* What is left of a finished sequence is never read again.
InSequence(t, c) ==
    CASE t.escState = "ESC_CMD" ->
           [t EXCEPT !.escCmd = c, !.escPayload = <<>>, !.escState = "ESC_PAYLOAD"]
      [] t.escState = "ESC_PAYLOAD" /\ c = ";" ->
           applyEscape([t EXCEPT !.escState = "NORMAL", !.escPayload = <<>>, !.escCmd = ""],
                       t.escCmd, t.escPayload)
      [] OTHER ->
           [t EXCEPT !.escPayload = IF Len(@) < ESC_PAYLOAD_MAX - 1 THEN Append(@, c) ELSE @]

Plain(t, c) ==
    CASE c = "ESC" -> [t EXCEPT !.escState = "ESC_CMD"]
      [] c = "NUL" -> t
      [] c = "NL"  -> newline(t)
      [] c = "CR"  -> [t EXCEPT !.cursorCol = 0]
      [] c = "BS"  -> backspace(t)
      [] c = "FF"  -> clearScreen(t)
      [] c = "TAB" -> FoldLeft(drawNormalChar, t, [i \in 1 .. TAB_WIDTH |-> " "])
      [] OTHER     -> drawNormalChar(t, c)

termPutChar(t, c) == IF t.escState = "NORMAL" THEN Plain(t, c) ELSE InSequence(t, c)

-----------------------------------------------------------------------------
(* Reading the screen back *)

CellPixels(i) ==        \* the i-th cell, from 0, row by row
    {<<(i % cols) * CHAR_WIDTH + cx, (i \div cols) * CHAR_HEIGHT + cy>> :
        cx \in 0 .. CHAR_WIDTH - 1, cy \in 0 .. CHAR_HEIGHT - 1}

\* One colour on the ink of c, another on the rest of the cell.
CellShows(fb, i, c) ==
    LET Ink == {<<(i % cols) * CHAR_WIDTH + g[1], (i \div cols) * CHAR_HEIGHT + g[2]>> : g \in Font[c]}
        Colours(S) == {fb[p] : p \in S}
    IN  /\ Cardinality(Colours(Ink)) <= 1 /\ Cardinality(Colours(CellPixels(i) \ Ink)) = 1
        /\ Colours(Ink) \cap Colours(CellPixels(i) \ Ink) = {}

CursorCell(t) == t.cursorRow * cols + t.cursorCol
=============================================================================
