---------------------------- MODULE CommandLine ----------------------------
(***************************************************************************)
(* How the shell takes a line apart, and what a command makes of its       *)
(* arguments.                                                              *)
(*   Userland/SampleCodeModule/shell.c, commands.c                         *)
(*                                                                         *)
(* A C string is the sequence before its NUL: the bytes the shell          *)
(* overwrites with NUL end one string and begin the next.                  *)
(***************************************************************************)
EXTENDS LibC

CONSTANTS MAX_TOKENS, MAX_PIPELINE,
          PidWidth, PriorityWidth     \* bits of pid_t, which has a sign, and of a priority

Blank == {" ", "TAB"}
Indices(s) == [i \in 1 .. Len(s) |-> i]

RECURSIVE SkipLeft(_, _)
SkipLeft(s, S) == IF s # <<>> /\ s[1] \in S THEN SkipLeft(Tail(s), S) ELSE s
SkipRight(s, S) == Reverse(SkipLeft(Reverse(s), S))
RECURSIVE UpTo(_, _)
UpTo(s, S) == IF s = <<>> \/ s[1] \in S THEN <<>> ELSE <<s[1]>> \o UpTo(Tail(s), S)

RECURSIVE tokenize(_, _)
tokenize(str, maxTokens) ==
    LET s     == SkipLeft(str, Blank)
        token == UpTo(s, Blank)
    IN  IF s = <<>> \/ maxTokens = 0 THEN <<>>
        ELSE <<token>> \o tokenize(SubSeq(s, Len(token) + 2, Len(s)), maxTokens - 1)

\* The stages, none of them if there are too many.
splitPipeline(line, maxStages) ==
    LET bars == SelectSeq(Indices(line), LAMBDA i : line[i] = "|")
        cuts == <<0>> \o bars \o <<Len(line) + 1>>
        Part(i) == SubSeq(line, cuts[i] + 1, cuts[i + 1] - 1)
    IN  IF Len(bars) + 1 > maxStages THEN <<>>
        ELSE [i \in 1 .. Len(bars) + 1 |-> IF i = 1 THEN Part(i) ELSE SkipLeft(Part(i), {" "})]

\* Seeded fault: blanks after the ampersand hide it.
hasBackgroundLast(line) ==
    IF line # <<>> /\ Last(line) = "&" THEN [line |-> SkipRight(Front(line), Blank), background |-> TRUE]
    ELSE [line |-> SkipRight(line, Blank), background |-> FALSE]

hasBackground(line) ==
    LET t == SkipRight(line, Blank)
    IN  IF t # <<>> /\ Last(t) = "&" THEN [line |-> SkipRight(Front(t), Blank), background |-> TRUE]
        ELSE [line |-> t, background |-> FALSE]

\* What runLine hands to runStage.
runLine(line) ==
    LET b      == hasBackground(line)
        stages == splitPipeline(b.line, MAX_PIPELINE)
    IN  [background |-> b.background,
         stages     |-> [i \in 1 .. Len(stages) |-> tokenize(stages[i], MAX_TOKENS)]]

-----------------------------------------------------------------------------
(* kill, nice and block: the call they make, if any *)

Signed(n, width) == LET m == n % (2 ^ width) IN IF m >= 2 ^ (width - 1) THEN m - (2 ^ width) ELSE m
NoCall == [call |-> "none", pid |-> 0, priority |-> 0]

killCommand(argv) ==
    IF Len(argv) < 2 \/ stringToInt(argv[2]) < 0 THEN NoCall
    ELSE [call |-> "kill", pid |-> Signed(stringToInt(argv[2]), PidWidth), priority |-> 0]

niceCommand(argv) ==
    IF Len(argv) < 3 \/ stringToInt(argv[2]) < 0 \/ stringToInt(argv[3]) < 1 THEN NoCall
    ELSE [call |-> "nice", pid |-> Signed(stringToInt(argv[2]), PidWidth),
          priority |-> stringToInt(argv[3]) % 2 ^ PriorityWidth]

\* block, and unblock if that fails.
blockCommand(argv) ==
    IF Len(argv) < 2 \/ stringToInt(argv[2]) < 0 THEN NoCall
    ELSE [call |-> "block", pid |-> Signed(stringToInt(argv[2]), PidWidth), priority |-> 0]

\* The commands by their initials; getCommandIndex wants the whole name.
getCommandIndex(name) == IF name \in {<<"k">>, <<"n">>, <<"b">>} THEN name[1] ELSE "not found"

CallOf(argv) ==
    CASE getCommandIndex(argv[1]) = "k" -> killCommand(argv)
      [] getCommandIndex(argv[1]) = "n" -> niceCommand(argv)
      [] getCommandIndex(argv[1]) = "b" -> blockCommand(argv)
      [] OTHER -> NoCall
=============================================================================
