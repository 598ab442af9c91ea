------------------------------ MODULE MCKernel ------------------------------
(***************************************************************************)
(* The environments under which Kernel is model-checked: which calls user  *)
(* programs and the keyboard make.  The first group keeps to what the      *)
(* shell and the commands are meant to do; the second adds one abuse each. *)
(***************************************************************************)
EXTENDS Kernel

\* removeFromQueue is the filter of its argument, on short queues.
ASSUME RemovalIsFilter ==
    \A n \in 0 .. 4 : \A q \in [1 .. n -> 0 .. 2] :
        removeFromQueue(q, 0) = SelectSeq(q, LAMBDA e : e # 0)

TreeEnv  == {"kill", "sem", "ctrl_c"}
SchedEnv == {"kill", "sem", "nice", "block", "ctrl_c"}

SelfBlock     == {"sem", "block", "self_block"}
RunningCtrlC  == {"sem", "ctrl_c", "ctrl_c_running"}
KillZombie    == {"kill", "kill_zombie"}
ReuseWaiter   == {"kill", "reuse_waiter"}
NiceLoop      == {"nice"}
Plain         == {}
=============================================================================
