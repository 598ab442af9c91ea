----------------------------- MODULE ByteStream -----------------------------
(***************************************************************************)
(* What a pipe promises (Kernel/include/pipe.h): a bounded FIFO of bytes.  *)
(* A read delivers the oldest bytes, as many as are there up to what was   *)
(* asked; end of file is answered only when every byte has been read and   *)
(* no writer is left.                                                      *)
(***************************************************************************)
EXTENDS Naturals, Sequences

CONSTANTS Procs, Capacity, Byte

VARIABLES
    content,     \* the bytes written and not yet read
    writers,     \* how many write ends are open
    got,         \* what the last read of each process delivered
    result       \* how the last call of each process ended

streamVars == <<content, writers, got, result>>

StreamInit == /\ content = <<>>
              /\ writers \in Nat
              /\ got = [p \in Procs |-> <<>>]
              /\ result = [p \in Procs |-> "none"]

\* End of file is reported only when nothing is left and nobody can write.
EofIsTheEnd == \A p \in Procs :
    result'[p] = "eof" /\ result[p] # "eof" => content' = <<>> /\ writers = 0

Put(b) == /\ Len(content) < Capacity
          /\ content' = Append(content, b)
          /\ UNCHANGED <<writers, got>>

Take(p) == \E n \in 1 .. Len(content) :
    /\ got' = [got EXCEPT ![p] = SubSeq(content, 1, n)]
    /\ content' = SubSeq(content, n + 1, Len(content))
    /\ UNCHANGED writers

\* Calls that begin or return, and write ends that are closed.
Call == writers' <= writers /\ UNCHANGED <<content, got>>

StreamNext == /\ \/ \E b \in Byte : Put(b)
                 \/ \E p \in Procs : Take(p)
                 \/ Call
              /\ EofIsTheEnd

StreamSpec == StreamInit /\ [][StreamNext]_streamVars
=============================================================================
