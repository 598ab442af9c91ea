-------------------------------- MODULE LibC --------------------------------
(***************************************************************************)
(* The part of the user library the commands depend on, on sequences of    *)
(* one-character strings.                                                  *)
(*   Userland/SampleCodeModule/cstandard.c                                 *)
(***************************************************************************)
EXTENDS Integers, Sequences, SequencesExt

DigitChars == <<"0", "1", "2", "3", "4", "5", "6", "7", "8", "9">>
isNumber(c) == \E d \in 1 .. 10 : DigitChars[d] = c
ValueOf(c) == (CHOOSE d \in 1 .. 10 : DigitChars[d] = c) - 1

\* The letters the runs use.
UpperOf == [e |-> "E", a |-> "A"]
isUpper(c) == \E l \in DOMAIN UpperOf : UpperOf[l] = c
toLower(c) == IF isUpper(c) THEN CHOOSE l \in DOMAIN UpperOf : UpperOf[l] = c ELSE c

RECURSIVE Digits(_)
Digits(n) == (IF n < 10 THEN <<>> ELSE Digits(n \div 10)) \o <<DigitChars[(n % 10) + 1]>>

numToString(n) == IF n < 0 THEN <<"-">> \o Digits(-n) ELSE Digits(n)

\* Seeded fault: the digits are read from the wrong end.
stringToIntReversed(str) ==
    IF \E i \in DOMAIN str : ~isNumber(str[i]) THEN -1
    ELSE FoldRight(LAMBDA c, out : out * 10 + ValueOf(c), str, 0)

\* No digits at all is 0.
stringToInt(str) ==
    LET negative == str # <<>> /\ str[1] = "-"
        body     == IF negative THEN Tail(str) ELSE str
        out      == FoldLeft(LAMBDA n, c : n * 10 + ValueOf(c), 0, body)
    IN  CASE \E i \in DOMAIN body : ~isNumber(body[i]) -> -1
          [] \A i \in DOMAIN body : isNumber(body[i])  -> IF negative THEN -out ELSE out

\* What vprintf puts for the conversion c of the argument arg.
Converted(c, arg) ==
    CASE c \in {"d", "i"} -> numToString(arg)
      [] c = "c"          -> <<arg>>
      [] c = "s"          -> arg
      [] c = "%"          -> <<"%">>
      [] OTHER            -> <<"%", c>>

\* A % at the very end is a plain character.
RECURSIVE vprintf(_, _)
vprintf(format, args) ==
    IF format = <<>> THEN <<>>
    ELSE IF format[1] = "%" /\ Len(format) > 1
    THEN LET takes == format[2] \in {"d", "i", "c", "s"}
         IN  Converted(format[2], IF takes THEN args[1] ELSE "")
             \o vprintf(SubSeq(format, 3, Len(format)), IF takes THEN Tail(args) ELSE args)
    ELSE <<format[1]>> \o vprintf(Tail(format), args)
=============================================================================
