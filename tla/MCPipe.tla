------------------------------- MODULE MCPipe -------------------------------
(***************************************************************************)
(* Setups of Pipe: the readers and writers of a pipeline, and the keyboard *)
(* pipe with the processes it interrupts.                                  *)
(***************************************************************************)
EXTENDS Pipe, TLC

CONSTANTS r1, r2, w1, w2, idle, a, b

Pipeline(R, W, M, C, E) == [readers |-> R, writers |-> W, foreground |-> {}, keyboard |-> FALSE,
                            messages |-> M, counts |-> C, env |-> E]
Typing(R, F, E) == [readers |-> R, writers |-> {}, foreground |-> F, keyboard |-> TRUE,
                    messages |-> {<<a>>}, counts |-> {1, 2}, env |-> E]

Usual   == {Pipeline({r1, r2}, {w1, w2}, {<<a, b>>}, {1, 2}, {}),
            Pipeline({r1, r2}, {w1}, {<<a, b>>}, {1}, {"kill"}),
            Typing({r1}, {r1}, {"ctrl_d", "elsewhere"})}
Kills   == {Pipeline({r1, r2}, {w1}, {<<a>>}, {1, 2}, {"kill"})}
Simple  == {Pipeline({r1}, {w1}, {<<a>>}, {1, 2}, {})}
CtrlDs  == {Typing({r1, r2}, {r2}, {"ctrl_d"})}
Sleeper == {Typing({r1}, {}, {"elsewhere"})}
=============================================================================
