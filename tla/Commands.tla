------------------------------ MODULE Commands ------------------------------
(***************************************************************************)
(* A text is typed.  As a line it is for the shell (module CommandLine);   *)
(* as the input of cat, wc and filter it reaches each of them in pieces    *)
(* of any size, while it is still being typed.                             *)
(*   Userland/SampleCodeModule/commands.c                                  *)
(***************************************************************************)
EXTENDS CommandLine, FiniteSets

CONSTANTS
    Alphabets,      \* the characters of a line, or of a text
    MaxLine,        \* bound on its length
    BufferSize      \* of the commands' reads

VARIABLES
    use,            \* "line" or "text"
    alphabet,
    text,
    pos,            \* how much of it each command has read
    catOut, filterOut,
    wc              \* the locals of wcCommand

vars == <<use, alphabet, text, pos, catOut, filterOut, wc>>
Readers == {"cat", "wc", "filter"}

Init ==
    /\ \E s \in Alphabets : use = s.use /\ alphabet = s.chars
    /\ text = <<>>
    /\ pos = [f \in Readers |-> 0]
    /\ catOut = <<>> /\ filterOut = <<>>
    /\ wc = [lines |-> 0, words |-> 0, chars |-> 0, inWord |-> FALSE]

Type(c) ==
    /\ c \in alphabet /\ Len(text) < MaxLine[use]
    /\ text' = Append(text, c)
    /\ UNCHANGED <<use, alphabet, pos, catOut, filterOut, wc>>

\* sys_read returns the next bytes, at most a buffer of them.
ReadBy(f, n) ==
    /\ use = "text" /\ n <= Len(text) - pos[f]
    /\ pos' = [pos EXCEPT ![f] = @ + n]
    /\ UNCHANGED <<use, alphabet, text>>
Chunk(f, n) == SubSeq(text, pos[f] + 1, pos[f] + n)

catCommand(n) ==
    /\ ReadBy("cat", n)
    /\ catOut' = catOut \o Chunk("cat", n)
    /\ UNCHANGED <<filterOut, wc>>

\* Seeded fault: a word that goes on in the next buffer is counted again.
CountedAfresh(w, buf) ==
    LET Step(v, c) ==
          LET blank == c \in {" ", "NL", "TAB"}
          IN  [lines  |-> v.lines + (IF c = "NL" THEN 1 ELSE 0),
               words  |-> v.words + (IF ~blank /\ ~v.inWord THEN 1 ELSE 0),
               chars  |-> v.chars + 1,
               inWord |-> ~blank]
    IN  FoldLeft(Step, [w EXCEPT !.inWord = FALSE], buf)

Counted(w, buf) ==
    LET Step(v, c) ==
          LET blank == c \in {" ", "NL", "TAB"}
          IN  [lines  |-> v.lines + (IF c = "NL" THEN 1 ELSE 0),
               words  |-> v.words + (IF ~blank /\ ~v.inWord THEN 1 ELSE 0),
               chars  |-> v.chars + 1,
               inWord |-> ~blank]
    IN  FoldLeft(Step, w, buf)

wcCommand(n) ==
    /\ ReadBy("wc", n)
    /\ wc' = Counted(wc, Chunk("wc", n))
    /\ UNCHANGED <<catOut, filterOut>>

\* What wc prints at the end of its input.
wcPrints(w) ==
    vprintf(<<"NL", "%", "d", " ", "%", "d", " ", "%", "d", "NL">>, <<w.lines, w.words, w.chars>>)

isVowel(c) == toLower(c) \in {"a", "e", "i", "o", "u"}

filterCommand(n) ==
    /\ ReadBy("filter", n)
    /\ filterOut' = filterOut \o SelectSeq(Chunk("filter", n), LAMBDA c : ~isVowel(c))
    /\ UNCHANGED <<catOut, wc>>

Next ==
    \/ \E c \in UNION {s.chars : s \in Alphabets} : Type(c)
    \/ \E n \in 1 .. BufferSize : catCommand(n)
    \/ \E n \in 1 .. BufferSize : wcCommand(n)
    \/ \E n \in 1 .. BufferSize : filterCommand(n)

Spec == Init /\ [][Next]_vars

-----------------------------------------------------------------------------
(* Properties *)

\* References, by position instead of by scanning.
Starts(s, B) == SelectSeq(Indices(s), LAMBDA i : s[i] \notin B /\ (i = 1 \/ s[i - 1] \in B))
WordFrom(s, i, B) ==
    SubSeq(s, i, CHOOSE j \in i .. Len(s) : /\ \A k \in i .. j : s[k] \notin B
                                            /\ j = Len(s) \/ s[j + 1] \in B)
Words(s, B) == [k \in 1 .. Len(Starts(s, B)) |-> WordFrom(s, Starts(s, B)[k], B)]
Count(s, P(_)) == Cardinality({i \in DOMAIN s : P(s[i])})
FirstOf(s, n) == SubSeq(s, 1, IF Len(s) < n THEN Len(s) ELSE n)
DecimalValue(s) == MapThenSumSet(LAMBDA i : ValueOf(s[i]) * 10 ^ (Len(s) - i), DOMAIN s)

\* The part of a line after i - 1 bars.
StageText(s, i) ==
    LET Mine == SelectSeq(Indices(s), LAMBDA j : s[j] # "|" /\ Count(SubSeq(s, 1, j), LAMBDA c : c = "|") = i - 1)
    IN  [k \in 1 .. Len(Mine) |-> s[Mine[k]]]

\* Whatever blanks, bars and ampersands it has, a line is run as it is written:
\* in the background if its last character that is not a blank is an ampersand,
\* as the stages between the bars if they are not too many, each with its first
\* words.
LineIsRunAsWritten ==
    LET run  == runLine(text)
        Dots == SelectSeq(Indices(text), LAMBDA i : text[i] \notin Blank)
        amp  == Dots # <<>> /\ text[Last(Dots)] = "&"
        body == IF amp THEN SubSeq(text, 1, Last(Dots) - 1) ELSE text
        bars == Count(body, LAMBDA c : c = "|")
    IN  use = "line" =>
          /\ run.background = amp
          /\ Len(run.stages) = IF bars < MAX_PIPELINE THEN bars + 1 ELSE 0
          /\ \A i \in DOMAIN run.stages :
               run.stages[i] = FirstOf(Words(StageText(body, i), Blank), MAX_TOKENS)

\* A number is written with digits; after a minus they must make 0.
Written(s) ==
    LET digits == IF s[1] = "-" THEN Tail(s) ELSE s
    IN  (\A k \in DOMAIN digits : isNumber(digits[k])) /\ (s # digits => DecimalValue(digits) = 0)
Value(s) == IF s[1] = "-" THEN 0 ELSE DecimalValue(s)
Asked(argv) == Len(argv) >= 2 /\ Written(argv[2])
AskedNice(argv) == Asked(argv) /\ Len(argv) >= 3 /\ Written(argv[3]) /\ Value(argv[3]) > 0

\* The stages of the line that are a kill, a block or a nice, as typed.
Calling == {argv \in Range(runLine(text).stages) :
               use = "line" /\ argv # <<>> /\ getCommandIndex(argv[1]) # "not found"}

\* kill, block and nice call the kernel when the line has the numbers they need and
\* not otherwise, wherever they stand in it; the call is about the process whose
\* number is written, or about no process (a negative one) if the number has the bits of
\* pid_t but for the sign, and it sets the priority that is written if that fits.
ActsOnTheNumberWritten ==
    \A argv \in Calling :
        LET c == CallOf(argv)
        IN  /\ c # NoCall <=> IF argv[1] = <<"n">> THEN AskedNice(argv) ELSE Asked(argv)
            /\ c # NoCall /\ Value(argv[2]) < 2 ^ (PidWidth - 1) => c.pid = Value(argv[2])
            /\ c # NoCall /\ Value(argv[2]) < 2 ^ PidWidth => c.pid = Value(argv[2]) \/ c.pid < 0
            /\ c.call = "nice" /\ Value(argv[3]) < 2 ^ PriorityWidth => c.priority = Value(argv[3])

\* For every number: it fails beyond 2^16.
NeverAnotherProcess ==
    \A argv \in Calling :
        LET c == CallOf(argv) IN c # NoCall => c.pid = Value(argv[2]) \/ c.pid < 0

\* However its input was cut into reads, each of cat, wc and filter has made of
\* what it has read what it would have made of it in one piece.
PiecesDoNotMatter ==
    LET Read(f) == SubSeq(text, 1, pos[f])
        Seen    == Read("wc")
        Counts  == <<Count(Seen, LAMBDA c : c = "NL"),
                     Len(Starts(Seen, {" ", "NL", "TAB"})), Len(Seen)>>
    IN  /\ catOut = Read("cat")
        /\ filterOut = SelectSeq(Read("filter"), LAMBDA c : c \notin {"a", "e", "E"})
        /\ wcPrints(wc) = <<"NL">> \o Digits(Counts[1]) \o <<" ">> \o Digits(Counts[2])
                          \o <<" ">> \o Digits(Counts[3]) \o <<"NL">>
=============================================================================
