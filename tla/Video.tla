------------------------------- MODULE Video -------------------------------
(***************************************************************************)
(* The drawing primitives of Kernel/Drivers/videoDriver.c that programs    *)
(* use, on the framebuffer as a function from pixels to colours.  Colours  *)
(* are opaque (alpha 0), and the pitch is three bytes per pixel, as        *)
(* setBackground assumes.                                                  *)
(***************************************************************************)
EXTENDS Integers, Sequences, FiniteSets

CONSTANTS
    ScreenWidth, ScreenHeight,
    CHAR_WIDTH, CHAR_HEIGHT, BASELINE,
    Font        \* the pixels each character inks

Pixels == (0 .. ScreenWidth - 1) \X (0 .. ScreenHeight - 1)

\* Coordinates are unsigned: a negative one is far beyond the screen.
withinScreenBounds(x, y) == <<x, y>> \in Pixels

\* The pixels of a rectangle, wherever it is.
Rectangle(x, y, width, height) == (x .. x + width - 1) \X (y .. y + height - 1)

\* putPixel for every pixel of a shape, with its colour: those outside the
\* screen are dropped.
Painted(fb, colours) ==
    [p \in Pixels |-> IF p \in DOMAIN colours /\ withinScreenBounds(p[1], p[2])
                      THEN colours[p] ELSE fb[p]]

drawRectangle(fb, colour, x, y, width, height) ==
    Painted(fb, [p \in Rectangle(x, y, width, height) |-> colour])

\* Scale 1, with a background: the whole cell is painted.
drawSymbol(fb, c, x, y, fgcolor, bgcolor) ==
    Painted(fb, [p \in Rectangle(x, y - BASELINE, CHAR_WIDTH, CHAR_HEIGHT) |->
                    IF <<p[1] - x, p[2] - y + BASELINE>> \in Font[c] THEN fgcolor ELSE bgcolor])

setBackground(color) == [p \in Pixels |-> color]

scrollUp(fb, pixelRows, fillColor) ==
    IF pixelRows = 0 \/ pixelRows >= ScreenHeight THEN fb
    ELSE [p \in Pixels |-> IF p[2] < ScreenHeight - pixelRows
                           THEN fb[<<p[1], p[2] + pixelRows>>] ELSE fillColor]
=============================================================================
