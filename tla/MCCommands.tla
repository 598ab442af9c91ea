----------------------------- MODULE MCCommands -----------------------------
(***************************************************************************)
(* Commands with lines of several kinds and a text.  Names are one letter  *)
(* and numbers short, so pid_t and a priority have few bits.               *)
(***************************************************************************)
EXTENDS Commands

Usual == {[use |-> "line", chars |-> {"k", " ", "TAB", "|", "&"}],
          [use |-> "line", chars |-> {"k", " ", "-", "0", "1"}],
          [use |-> "line", chars |-> {"b", " ", "|", "1", "6"}],
          [use |-> "line", chars |-> {"n", " ", "-", "1", "6"}],
          [use |-> "text", chars |-> {"e", "E", "b", " ", "NL"}]}
Bounds == [line |-> 7, text |-> 3]
=============================================================================
