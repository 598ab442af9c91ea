----------------------------- MODULE PipeProofs -----------------------------
(***************************************************************************)
(* A pipe is a byte stream, for every capacity, set of processes and       *)
(* setup; and who waits in one: its write lock, and the token that wakes   *)
(* its readers.                                                            *)
(***************************************************************************)
EXTENDS Pipe, QueueTheorems

-----------------------------------------------------------------------------
(* Arithmetic of the two indices *)

\* An index below twice the capacity, wrapped.
wrapped(S, x) == IF x < S THEN x ELSE x - S

\* An index that has run past the end once wraps by one capacity.
LEMMA WrapOnce ==
    ASSUME NEW S \in Nat \ {0}, NEW x \in 0 .. (2 * S - 1)
    PROVE  x % S = wrapped(S, x)
<1>1. CASE x < S
  BY <1>1 DEF wrapped
<1>2. CASE ~(x < S)
  <2> DEFINE q == x \div S
             r == x % S
  <2>1. /\ q \in Int /\ r \in Int /\ x = S * q + r /\ 0 <= r /\ r < S
    OBVIOUS
  <2>2. q = 1
    <3>1. q > 0
      <4> SUFFICES ASSUME q <= 0 PROVE FALSE
        BY <2>1
      <4> S * q <= 0
        BY <2>1
      <4>. QED
        BY <2>1, <1>2
    <3>2. q < 2
      <4> SUFFICES ASSUME q >= 2 PROVE FALSE
        BY <2>1
      <4> S * q >= 2 * S
        BY <2>1
      <4>. QED
        BY <2>1
    <3>. QED
      BY <2>1, <3>1, <3>2
  <2>. QED
    BY <2>1, <2>2, <1>2 DEF wrapped
<1>. QED
  BY <1>1, <1>2

\* The positions a write touches: its own, which is none of those that hold bytes.
LEMMA WriteIndices ==
    ASSUME NEW S \in Nat \ {0}, NEW r \in 0 .. S - 1, NEW c \in 0 .. S - 1,
           NEW w, w = (r + c) % S
    PROVE  /\ w \in 0 .. S - 1
           /\ (w + 1) % S \in 0 .. S - 1
           /\ (w + 1) % S = (r + (c + 1)) % S
           /\ \A i \in 1 .. c : (r + i - 1) % S \in 0 .. S - 1 /\ (r + i - 1) % S # w
<1>1. w = wrapped(S, r + c)
  <2>1. r + c \in 0 .. (2 * S - 1)
    OBVIOUS
  <2>. QED
    BY <2>1, WrapOnce, Zenon
<1>2. w \in 0 .. S - 1
  BY <1>1 DEF wrapped
<1>3. (w + 1) % S = wrapped(S, w + 1)
  <2>1. w + 1 \in 0 .. (2 * S - 1)
    BY <1>2
  <2>. QED
    BY <2>1, WrapOnce, Zenon
<1>4. (r + (c + 1)) % S = wrapped(S, r + (c + 1))
  <2>1. r + (c + 1) \in 0 .. (2 * S - 1)
    OBVIOUS
  <2>. QED
    BY <2>1, WrapOnce, Zenon
<1>5. ASSUME NEW i \in 1 .. c
      PROVE  (r + i - 1) % S \in 0 .. S - 1 /\ (r + i - 1) % S # w
  <2>1. r + i - 1 \in 0 .. (2 * S - 1)
    OBVIOUS
  <2>2. (r + i - 1) % S = wrapped(S, r + i - 1)
    BY <2>1, WrapOnce, Zenon
  <2> DEFINE x == (r + i - 1) % S
  <2>3. x = wrapped(S, r + i - 1)
    BY <2>2
  <2> HIDE DEF x
  <2>4. x \in 0 .. S - 1 /\ x # w
    BY <1>1, <2>3 DEF wrapped
  <2>. QED
    BY <2>4 DEF x
<1>6. (w + 1) % S \in 0 .. S - 1 /\ (w + 1) % S = (r + (c + 1)) % S
  <2> DEFINE x == (w + 1) % S
             y == (r + (c + 1)) % S
  <2>1. x = wrapped(S, w + 1)
    BY <1>3
  <2>2. y = wrapped(S, r + (c + 1))
    BY <1>4
  <2> HIDE DEF x, y
  <2>3. x \in 0 .. S - 1 /\ x = y
    BY <1>1, <1>2, <2>1, <2>2 DEF wrapped
  <2>. QED
    BY <2>3 DEF x, y
<1>. QED
  BY <1>2, <1>5, <1>6

\* The positions after n reads are those that were n further on.
LEMMA ReadIndices ==
    ASSUME NEW S \in Nat \ {0}, NEW r \in 0 .. S - 1, NEW c \in 0 .. S, NEW n \in 0 .. c,
           NEW r2, r2 = (r + n) % S
    PROVE  /\ r2 \in 0 .. S - 1
           /\ \A j \in 0 .. c - n : (r2 + j) % S = (r + (n + j)) % S
<1>1. r2 = wrapped(S, r + n)
  <2>1. r + n \in 0 .. (2 * S - 1)
    OBVIOUS
  <2>. QED
    BY <2>1, WrapOnce, Zenon
<1>2. r2 \in 0 .. S - 1
  BY <1>1 DEF wrapped
<1>3. ASSUME NEW j \in 0 .. c - n
      PROVE  (r2 + j) % S = (r + (n + j)) % S
  <2>1. r2 + j \in 0 .. (2 * S - 1) /\ r + (n + j) \in 0 .. (2 * S - 1)
    BY <1>1, <1>2 DEF wrapped
  <2> DEFINE x == (r2 + j) % S
             y == (r + (n + j)) % S
  <2>2. x = wrapped(S, r2 + j)
    BY <2>1, WrapOnce, Zenon
  <2>3. y = wrapped(S, r + (n + j))
    BY <2>1, WrapOnce, Zenon
  <2> HIDE DEF x, y
  <2>4. x = y
    BY <1>1, <2>1, <2>2, <2>3 DEF wrapped
  <2>. QED
    BY <2>4 DEF x, y
<1>. QED
  BY <1>2, <1>3

\* The buffer as pipe.c keeps it: indices below the capacity, and the write
\* index count bytes after the read index.
IsBuffer(cb) ==
    /\ cb \in [data : [0 .. PIPE_BUF_SIZE - 1 -> Byte], readIdx : 0 .. PIPE_BUF_SIZE - 1,
               writeIdx : 0 .. PIPE_BUF_SIZE - 1, count : 0 .. PIPE_BUF_SIZE]
    /\ cb.writeIdx = (cb.readIdx + cb.count) % PIPE_BUF_SIZE

Bytes(cb) == bufferRead(cb, cb.count)

\* A pipe holds at least one byte.
LEMMA SizeFacts == PIPE_BUF_SIZE \in Nat \ {0}
  BY PipeAssumption

\* The fields of a buffer.
LEMMA BufferFields ==
    ASSUME NEW cb, IsBuffer(cb)
    PROVE  /\ cb.data \in [0 .. PIPE_BUF_SIZE - 1 -> Byte]
           /\ cb.readIdx \in 0 .. PIPE_BUF_SIZE - 1
           /\ cb.writeIdx \in 0 .. PIPE_BUF_SIZE - 1
           /\ cb.count \in 0 .. PIPE_BUF_SIZE
           /\ cb.writeIdx = (cb.readIdx + cb.count) % PIPE_BUF_SIZE
  BY DEF IsBuffer

\* bufferRead returns bytes.
LEMMA BytesAreASequence ==
    ASSUME NEW cb, IsBuffer(cb), NEW n \in 0 .. cb.count
    PROVE  /\ bufferRead(cb, n) \in Seq(Byte)
           /\ Len(bufferRead(cb, n)) = n
           /\ \A i \in 1 .. n : bufferRead(cb, n)[i] = cb.data[(cb.readIdx + i - 1) % PIPE_BUF_SIZE]
<1> DEFINE at(i) == (cb.readIdx + i - 1) % PIPE_BUF_SIZE
<1>0. cb.readIdx \in Int /\ cb.data \in [0 .. PIPE_BUF_SIZE - 1 -> Byte] /\ n \in Nat
  BY BufferFields, SizeFacts
<1>1. \A i \in 1 .. n : at(i) \in 0 .. PIPE_BUF_SIZE - 1
  BY <1>0, SizeFacts
<1> HIDE DEF at
<1>2. \A i \in 1 .. n : cb.data[at(i)] \in Byte
  BY <1>0, <1>1
<1> DEFINE s == [i \in 1 .. n |-> cb.data[at(i)]]
<1>3. s \in [1 .. n -> Byte]
  BY <1>2
<1>4. s \in Seq(Byte) /\ Len(s) = n /\ \A i \in 1 .. n : s[i] = cb.data[at(i)]
  BY <1>0, <1>3
<1>5. s = bufferRead(cb, n)
  BY Zenon DEF bufferRead, at
<1> HIDE DEF s
<1>. QED
  BY <1>4, <1>5, Zenon DEF at

\* bufferWrite on a buffer that is not full appends its byte.
LEMMA WriteAppends ==
    ASSUME NEW cb, IsBuffer(cb), ~bufferIsFull(cb), NEW b \in Byte
    PROVE  /\ IsBuffer(bufferWrite(cb, b))
           /\ Bytes(bufferWrite(cb, b)) = Append(Bytes(cb), b)
           /\ Len(Bytes(cb)) < PIPE_BUF_SIZE
<1> DEFINE S == PIPE_BUF_SIZE
           r == cb.readIdx
           c == cb.count
           w == cb.writeIdx
           d == bufferWrite(cb, b)
           at(i) == (r + i - 1) % S
<1>0. /\ S \in Nat \ {0} /\ r \in 0 .. S - 1 /\ w \in 0 .. S - 1 /\ c \in 0 .. S - 1
      /\ cb.data \in [0 .. S - 1 -> Byte]
  BY SizeFacts, BufferFields DEF bufferIsFull
<1>1. w = (r + c) % S
  BY BufferFields
<1>2. d = [data |-> [cb.data EXCEPT ![w] = b], readIdx |-> r, writeIdx |-> (w + 1) % S,
           count |-> c + 1]
  BY DEF bufferWrite, IsBuffer
<1>3. /\ d.readIdx = r /\ d.count = c + 1 /\ d.writeIdx = (w + 1) % S
      /\ d.data = [cb.data EXCEPT ![w] = b]
  <2> HIDE DEF d, w, r, c, S
  <2>. QED
    BY <1>2
<1>4. /\ (w + 1) % S \in 0 .. S - 1
      /\ (w + 1) % S = (r + (c + 1)) % S
      /\ \A i \in 1 .. c : at(i) \in 0 .. S - 1 /\ at(i) # w
  <2> HIDE DEF S, r, c, w
  <2>. QED
    BY <1>0, <1>1, WriteIndices
<1>5. [cb.data EXCEPT ![w] = b] \in [0 .. S - 1 -> Byte] /\ c + 1 \in 0 .. S
  BY <1>0
<1>6. IsBuffer(d)
  <2> DEFINE v == (w + 1) % S
             e == [cb.data EXCEPT ![w] = b]
  <2>1. v \in 0 .. S - 1 /\ e \in [0 .. S - 1 -> Byte] /\ v = (r + (c + 1)) % S
        /\ d = [data |-> e, readIdx |-> r, writeIdx |-> v, count |-> c + 1]
    BY <1>2, <1>4, <1>5
  <2> HIDE DEF v, e, d
  <2>. QED
    BY <1>0, <1>5, <2>1 DEF IsBuffer
<1>7. /\ Bytes(cb) \in Seq(Byte) /\ Len(Bytes(cb)) = c
      /\ \A i \in 1 .. c : Bytes(cb)[i] = cb.data[at(i)]
  <2>1. c \in 0 .. cb.count
    BY <1>0
  <2>. QED
    BY <2>1, BytesAreASequence, Zenon DEF Bytes
<1>8. /\ Bytes(d) \in Seq(Byte) /\ Len(Bytes(d)) = c + 1
      /\ \A i \in 1 .. c + 1 : Bytes(d)[i] = d.data[at(i)]
  <2>1. c + 1 \in 0 .. d.count /\ d.count = c + 1 /\ d.readIdx = r
    BY <1>0, <1>3
  <2> HIDE DEF d
  <2>. QED
    BY <1>6, <2>1, BytesAreASequence, Zenon DEF Bytes
<1>9. at(c + 1) = w
  <2>1. r + (c + 1) - 1 = r + c
    BY <1>0
  <2>. QED
    BY <1>1, <2>1, Zenon
<1> HIDE DEF d, r, c, w, S, at
<1>10. \A i \in 1 .. c : d.data[at(i)] = cb.data[at(i)]
  BY <1>0, <1>3, <1>4
<1>11. d.data[w] = b
  BY <1>0, <1>3
<1>12. ASSUME NEW i \in 1 .. c + 1
       PROVE  Bytes(d)[i] = Append(Bytes(cb), b)[i]
  <2>1. CASE i \in 1 .. c
    <3>1. Append(Bytes(cb), b)[i] = Bytes(cb)[i]
      BY <1>0, <1>7, <2>1
    <3>. QED
      BY <1>7, <1>8, <1>10, <2>1, <3>1, Zenon
  <2>2. CASE i = c + 1
    <3>1. Append(Bytes(cb), b)[i] = b
      BY <1>0, <1>7, <2>2
    <3>. QED
      BY <1>8, <1>9, <1>11, <2>2, <3>1, Zenon
  <2>3. i \in 1 .. c \/ i = c + 1
    BY <1>0
  <2>. QED
    BY <2>1, <2>2, <2>3, Zenon
<1>13. Bytes(d) = Append(Bytes(cb), b)
  <2>1. Append(Bytes(cb), b) \in Seq(Byte) /\ Len(Append(Bytes(cb), b)) = c + 1
    BY <1>7
  <2> DEFINE t == Append(Bytes(cb), b)
             s == Bytes(d)
  <2>2. s \in Seq(Byte) /\ t \in Seq(Byte) /\ Len(s) = Len(t) /\ \A i \in 1 .. Len(s) : s[i] = t[i]
    BY <1>8, <1>12, <2>1, Zenon
  <2> HIDE DEF s, t
  <2>3. s = t
    BY <2>2, SeqEqual, Zenon
  <2>. QED
    BY <2>3 DEF s, t
<1>14. c < S
  BY <1>0
<1>. QED
  BY <1>6, <1>7, <1>13, <1>14, Zenon DEF d, S

\* n calls of bufferRead take the n oldest bytes and leave the others.
LEMMA ReadTakes ==
    ASSUME NEW cb, IsBuffer(cb), NEW n \in 0 .. cb.count
    PROVE  /\ IsBuffer(afterRead(cb, n))
           /\ bufferRead(cb, n) = SubSeq(Bytes(cb), 1, n)
           /\ Bytes(afterRead(cb, n)) = SubSeq(Bytes(cb), n + 1, Len(Bytes(cb)))
           /\ afterRead(cb, n).count = cb.count - n
           /\ Len(Bytes(cb)) = cb.count
<1> DEFINE S == PIPE_BUF_SIZE
           r == cb.readIdx
           c == cb.count
           d == afterRead(cb, n)
           r2 == (r + n) % S
<1>0. /\ S \in Nat \ {0} /\ r \in 0 .. S - 1 /\ c \in 0 .. S /\ n \in 0 .. c
      /\ cb.data \in [0 .. S - 1 -> Byte] /\ cb.writeIdx \in 0 .. S - 1
  BY SizeFacts, BufferFields
<1>1. cb.writeIdx = (r + c) % S
  BY BufferFields
<1>2. d = [data |-> cb.data, readIdx |-> r2, writeIdx |-> cb.writeIdx, count |-> c - n]
  <2>1. cb = [data |-> cb.data, readIdx |-> r, writeIdx |-> cb.writeIdx, count |-> c]
    BY DEF IsBuffer
  <2>2. d = [cb EXCEPT !.readIdx = r2, !.count = c - n]
    BY Zenon DEF afterRead
  <2> HIDE DEF r2, d, r, c
  <2>. QED
    BY <2>1, <2>2
<1>3. d.readIdx = r2 /\ d.count = c - n /\ d.data = cb.data
  <2> HIDE DEF d, r2, r, c, S
  <2>. QED
    BY <1>2
<1>4. r2 \in 0 .. S - 1 /\ \A j \in 0 .. c - n : (r2 + j) % S = (r + (n + j)) % S
  <2>1. r2 = (r + n) % S
    OBVIOUS
  <2> HIDE DEF S, r, c, r2
  <2>. QED
    BY <1>0, <2>1, ReadIndices, SMTT(60)
<1>5. IsBuffer(d)
  <2>1. cb.writeIdx = (r2 + (c - n)) % S
    <3>1. n + (c - n) = c /\ c - n \in 0 .. c - n
      BY <1>0
    <3>. QED
      BY <1>1, <1>4, <3>1, Zenon
  <2>2. c - n \in 0 .. S
    BY <1>0
  <2> HIDE DEF d, r2
  <2>. QED
    BY <1>0, <1>2, <1>4, <2>1, <2>2 DEF IsBuffer
<1>6. /\ Bytes(cb) \in Seq(Byte) /\ Len(Bytes(cb)) = c
      /\ \A i \in 1 .. c : Bytes(cb)[i] = cb.data[(r + i - 1) % S]
  <2>1. c \in 0 .. cb.count
    BY <1>0
  <2>. QED
    BY <2>1, BytesAreASequence, Zenon DEF Bytes
<1>7. /\ Bytes(d) \in Seq(Byte) /\ Len(Bytes(d)) = c - n
      /\ \A i \in 1 .. c - n : Bytes(d)[i] = cb.data[(r2 + i - 1) % S]
  <2>1. c - n \in 0 .. d.count /\ d.count = c - n /\ d.readIdx = r2 /\ d.data = cb.data
    BY <1>0, <1>3
  <2> HIDE DEF d, r2
  <2>. QED
    BY <1>5, <2>1, BytesAreASequence, Zenon DEF Bytes
<1>8. /\ bufferRead(cb, n) \in Seq(Byte) /\ Len(bufferRead(cb, n)) = n
      /\ \A i \in 1 .. n : bufferRead(cb, n)[i] = cb.data[(r + i - 1) % S]
  BY BytesAreASequence, Zenon
<1>9. bufferRead(cb, n) = SubSeq(Bytes(cb), 1, n)
  <2> DEFINE s == bufferRead(cb, n)
             B == Bytes(cb)
             t == SubSeq(B, 1, n)
  <2>1. \A i \in 1 .. n : i \in 1 .. c
    BY <1>0
  <2>2. \A i \in 1 .. n : s[i] = B[i]
    BY <1>6, <1>8, <2>1, Zenon
  <2>3. B \in Seq(Byte) /\ Len(B) = c /\ s \in Seq(Byte) /\ Len(s) = n
    BY <1>6, <1>8, Zenon
  <2> HIDE DEF s, B, S, r, c, d, r2
  <2>4. t \in Seq(Byte) /\ Len(t) = n /\ \A i \in 1 .. n : t[i] = B[i]
    BY <1>0, <2>3
  <2>5. \A i \in 1 .. n : s[i] = t[i]
    BY <2>2, <2>4, Zenon
  <2> HIDE DEF t
  <2>6. s = t
    BY <2>3, <2>4, <2>5, SeqEqual, Zenon
  <2>. QED
    BY <2>6 DEF s, t, B
<1>10. Bytes(d) = SubSeq(Bytes(cb), n + 1, Len(Bytes(cb)))
  <2> DEFINE s == Bytes(d)
             B == Bytes(cb)
             t == SubSeq(B, n + 1, c)
  <2>1. ASSUME NEW i \in 1 .. c - n
        PROVE  s[i] = B[i + n]
    <3>1. i - 1 \in 0 .. c - n /\ i + n \in 1 .. c /\ r + (n + (i - 1)) = r + (i + n) - 1
          /\ r2 + (i - 1) = r2 + i - 1
      <4>1. r2 \in 0 .. S - 1
        BY <1>4
      <4> HIDE DEF S, r, c, r2
      <4>. QED
        BY <1>0, <4>1
    <3>2. (r2 + (i - 1)) % S = (r + (n + (i - 1))) % S
      BY <1>4, <3>1, Zenon
    <3>3. s[i] = cb.data[(r2 + i - 1) % S]
      BY <1>7
    <3>4. B[i + n] = cb.data[(r + (i + n) - 1) % S]
      BY <1>6, <3>1, Zenon
    <3>. QED
      BY <3>1, <3>2, <3>3, <3>4, Zenon
  <2>3. B \in Seq(Byte) /\ Len(B) = c /\ s \in Seq(Byte) /\ Len(s) = c - n
    BY <1>6, <1>7, Zenon
  <2> HIDE DEF s, B, S, r, c, d, r2
  <2>4. t \in Seq(Byte) /\ Len(t) = c - n /\ \A i \in 1 .. c - n : t[i] = B[i + n]
    BY <1>0, <2>3
  <2>5. \A i \in 1 .. c - n : s[i] = t[i]
    BY <2>1, <2>4, Zenon
  <2> HIDE DEF t
  <2>6. s = t
    BY <2>3, <2>4, <2>5, SeqEqual, Zenon
  <2>. QED
    BY <2>3, <2>6 DEF s, t, B
<1>. QED
  BY <1>3, <1>5, <1>6, <1>9, <1>10, Zenon

-----------------------------------------------------------------------------
(* The invariant behind the refinement *)

Points == SemNames \cup {"user", "elsewhere"}
Results == {"none", "pending", "eof", "ctrl_d", "data", "done"}

\* A process inside pipeRead asked for at least one byte.
StreamInv ==
    /\ setup \in Setups
    /\ IsBuffer(buffer)
    /\ IsFiniteSet(writeEnds)
    /\ pc \in [Procs -> Points]
    /\ result \in [Procs -> Results]
    /\ call \in [Procs -> [buf : Seq(Byte), n : Nat, count : Nat]]
    /\ \A p \in Procs : pc[p] \in {"dataAvailable", "readMutex"} => call[p].count > 0

\* What a setup says of its parts, spelled out for the setup in use.
LEMMA SetupFacts ==
    ASSUME setup \in Setups
    PROVE  /\ Counts \subseteq Nat \ {0}
           /\ \A m \in Messages : m \in Seq(Byte) /\ m # <<>>
           /\ IsFiniteSet(Writers)
           /\ Keyboard \in BOOLEAN
           /\ Keyboard => Writers = {}
           /\ {Idle, Driver} \cap (Readers \cup Writers) = {}
           /\ Idle \in Procs /\ Readers \subseteq Procs /\ Writers \subseteq Procs
<1>1. IsSetup(setup)
  BY PipeAssumption
<1>. QED
  BY <1>1 DEF IsSetup, Counts, Messages, Writers, Readers, Keyboard, Procs

\* The pipe starts empty, nobody in a call.
LEMMA InitStream == Init => StreamInv
<1> SUFFICES ASSUME Init PROVE StreamInv
  OBVIOUS
<1>1. setup \in Setups
  BY DEF Init
<1>2. IsBuffer(buffer)
  <2>1. [i \in 0 .. PIPE_BUF_SIZE - 1 |-> NUL] \in [0 .. PIPE_BUF_SIZE - 1 -> Byte]
    BY DEF Byte
  <2>2. 0 \in 0 .. PIPE_BUF_SIZE - 1 /\ 0 \in 0 .. PIPE_BUF_SIZE /\ 0 = (0 + 0) % PIPE_BUF_SIZE
    BY SizeFacts
  <2>. QED
    BY <2>1, <2>2 DEF Init, newBuffer, IsBuffer
<1>3. IsFiniteSet(writeEnds)
  <2>1. IsFiniteSet({Driver}) /\ IsFiniteSet({})
    BY FS_Singleton, FS_EmptySet, Zenon
  <2>. QED
    BY <1>1, <2>1, SetupFacts, FS_Union, Zenon DEF Init
<1>4. pc \in [Procs -> Points] /\ result \in [Procs -> Results]
  BY DEF Init, Points, Results
<1>5. NoCall \in [buf : Seq(Byte), n : Nat, count : Nat]
  BY DEF NoCall
<1>. QED
  BY <1>1, <1>2, <1>3, <1>4, <1>5 DEF Init, StreamInv

\* What every way into or out of a wait does to the parts of the invariant.
LEMMA GoWaitMeans ==
    ASSUME NEW k, NEW p, NEW s, GoWait(k, p, s)
    PROVE  pc' = [pc EXCEPT ![p] = s] /\ setup' = setup
  BY Zenon DEF GoWait

\* What a call leaves when it returns.
LEMMA ReturnMeans ==
    ASSUME NEW k, NEW p, NEW r, Return(k, p, r)
    PROVE  /\ pc' = [pc EXCEPT ![p] = "user"]
           /\ call' = [call EXCEPT ![p] = NoCall]
           /\ result' = [result EXCEPT ![p] = r]
           /\ setup' = setup
  BY Zenon DEF Return

\* A call of pipeRead either ends at once, on an empty pipe without writers, or
\* waits with its count noted.
LEMMA StartReadMeans ==
    ASSUME NEW k, NEW p, NEW cb, NEW n, StartRead(k, p, cb, n)
    PROVE  /\ setup' = setup
           /\ \/ /\ ~bufferHasData(cb) /\ writerCount <= 0
                 /\ pc' = [pc EXCEPT ![p] = "user"]
                 /\ call' = [call EXCEPT ![p] = NoCall]
                 /\ result' = [result EXCEPT ![p] = "eof"]
              \/ /\ pc' = [pc EXCEPT ![p] = "dataAvailable"]
                 /\ call' = [call EXCEPT ![p] = [NoCall EXCEPT !.count = n]]
                 /\ result' = [result EXCEPT ![p] = "pending"]
<1>1. CASE ~bufferHasData(cb) /\ writerCount <= 0
  <2>1. Return(k, p, "eof")
    BY <1>1, Zenon DEF StartRead
  <2>2. /\ pc' = [pc EXCEPT ![p] = "user"]
        /\ call' = [call EXCEPT ![p] = NoCall]
        /\ result' = [result EXCEPT ![p] = "eof"]
        /\ setup' = setup
    BY <2>1, ReturnMeans
  <2>. QED
    BY <1>1, <2>2
<1>2. CASE ~(~bufferHasData(cb) /\ writerCount <= 0)
  <2>1. /\ GoWait(k, p, "dataAvailable")
        /\ call' = [call EXCEPT ![p] = [NoCall EXCEPT !.count = n]]
        /\ result' = [result EXCEPT ![p] = "pending"]
    BY <1>2, Zenon DEF StartRead
  <2>. QED
    BY <2>1, GoWaitMeans, Zenon
<1>. QED
  BY <1>1, <1>2, Zenon

\* The steps of a call on the buffer, seen from the bytes it holds.
LEMMA ReadSomeTakes ==
    ASSUME StreamInv, NEW p \in Procs, ReadSome(p)
    PROVE  /\ IsBuffer(buffer')
           /\ writeEnds' = writeEnds
           /\ \E n \in 1 .. Len(Bytes(buffer)) :
                 /\ got' = [got EXCEPT ![p] = SubSeq(Bytes(buffer), 1, n)]
                 /\ Bytes(buffer') = SubSeq(Bytes(buffer), n + 1, Len(Bytes(buffer)))
<1> DEFINE n == IF call[p].count < buffer.count THEN call[p].count ELSE buffer.count
<1>1. buffer.count \in Nat /\ buffer.count > 0 /\ call[p].count \in Nat /\ call[p].count > 0
  BY BufferFields, SizeFacts DEF StreamInv, ReadSome, At, bufferHasData
<1>2. n \in 1 .. buffer.count /\ n \in 0 .. buffer.count
  BY <1>1
<1>3. buffer' = afterRead(buffer, n) /\ got' = [got EXCEPT ![p] = bufferRead(buffer, n)]
      /\ writeEnds' = writeEnds
  BY Zenon DEF ReadSome
<1> HIDE DEF n
<1>4. IsBuffer(buffer)
  BY DEF StreamInv
<1>5. /\ IsBuffer(afterRead(buffer, n))
      /\ bufferRead(buffer, n) = SubSeq(Bytes(buffer), 1, n)
      /\ Bytes(afterRead(buffer, n)) = SubSeq(Bytes(buffer), n + 1, Len(Bytes(buffer)))
      /\ Len(Bytes(buffer)) = buffer.count
  BY <1>2, <1>4, ReadTakes, Zenon
<1>. QED
  BY <1>2, <1>3, <1>5, Zenon

\* WriteByte puts at most one byte, the next of its message, behind the others.
LEMMA WriteBytePuts ==
    ASSUME StreamInv, NEW p \in Procs, WriteByte(p)
    PROVE  /\ IsBuffer(buffer')
           /\ writeEnds' = writeEnds /\ got' = got
           /\ \/ buffer' = buffer
              \/ /\ Len(Bytes(buffer)) < PIPE_BUF_SIZE
                 /\ \E b \in Byte : Bytes(buffer') = Append(Bytes(buffer), b)
<1> DEFINE b == call[p].buf[call[p].n + 1]
<1>1. buffer' = bufferWrite(buffer, b) /\ writeEnds' = writeEnds /\ got' = got
  BY Zenon DEF WriteByte
<1>2. IsBuffer(buffer)
  BY DEF StreamInv
<1>3. CASE bufferIsFull(buffer)
  <2>1. buffer' = buffer
    BY <1>1, <1>3, Zenon DEF bufferWrite
  <2>. QED
    BY <1>1, <1>2, <2>1, Zenon
<1>4. CASE ~bufferIsFull(buffer)
  <2>1. call[p].n + 1 < Len(call[p].buf) \/ call[p].n + 1 = Len(call[p].buf)
    BY <1>4, Zenon DEF WriteByte
  <2>2. call[p].n \in Nat /\ call[p].buf \in Seq(Byte)
    BY DEF StreamInv
  <2>3. b \in Byte
    BY <2>1, <2>2
  <2> HIDE DEF b
  <2>. QED
    BY <1>1, <1>2, <1>4, <2>3, WriteAppends, Zenon
<1>. QED
  BY <1>3, <1>4, Zenon

\* Every step keeps the invariant; end of file is answered at the end only.
EofAtEnd == \A p \in Procs :
    result'[p] = "eof" /\ result[p] # "eof" => Bytes(buffer') = <<>> /\ writerCount = 0

\* A buffer without data holds no bytes.
LEMMA NoBytes ==
    ASSUME NEW cb, IsBuffer(cb), ~bufferHasData(cb)
    PROVE  Bytes(cb) = <<>>
<1>1. cb.count = 0
  BY BufferFields, SizeFacts DEF bufferHasData
<1>2. Bytes(cb) \in Seq(Byte) /\ Len(Bytes(cb)) = 0
  <2>1. 0 \in 0 .. cb.count
    BY <1>1
  <2>. QED
    BY <1>1, <2>1, BytesAreASequence, Zenon DEF Bytes
<1>. QED
  BY <1>2

\* Nobody writes when no write end is open.
LEMMA WriterCountFacts ==
    ASSUME StreamInv
    PROVE  /\ writerCount \in Nat
           /\ writerCount <= 0 => writerCount = 0
           /\ \A p : IsFiniteSet(writeEnds \ {p}) /\ Cardinality(writeEnds \ {p}) <= writerCount
<1>1. IsFiniteSet(writeEnds)
  BY DEF StreamInv
<1>2. writerCount \in Nat
  BY <1>1, FS_CardinalityType, Zenon DEF writerCount
<1>3. ASSUME NEW p PROVE IsFiniteSet(writeEnds \ {p}) /\ Cardinality(writeEnds \ {p}) <= writerCount
  <2>1. writeEnds \ {p} \subseteq writeEnds
    OBVIOUS
  <2>. QED
    BY <1>1, <2>1, FS_Subset, Zenon DEF writerCount
<1>4. writerCount <= 0 => writerCount = 0
  <2> HIDE DEF writerCount
  <2>. QED
    BY <1>2
<1>. QED
  BY <1>2, <1>3, <1>4, Zenon

\* A call that asks for n bytes.
LEMMA ReadCall ==
    ASSUME NEW n \in Nat
    PROVE  /\ [NoCall EXCEPT !.count = n] \in [buf : Seq(Byte), n : Nat, count : Nat]
           /\ [NoCall EXCEPT !.count = n].count = n
<1> DEFINE c == [NoCall EXCEPT !.count = n]
<1>1. c = [buf |-> <<>>, n |-> 0, count |-> n]
  BY DEF NoCall
<1> HIDE DEF c
<1>2. c \in [buf : Seq(Byte), n : Nat, count : Nat] /\ c.count = n
  BY <1>1
<1>. QED
  BY <1>2 DEF c

\* The calls of a process: to its first wait, between two waits, or to its end.
LEMMA CallPreserves ==
    ASSUME StreamInv, NEW p \in Procs, Read(p) \/ InCall(p)
    PROVE  StreamInv' /\ EofAtEnd
<1> USE DEF StreamInv
<1>0. NoCall \in [buf : Seq(Byte), n : Nat, count : Nat]
  BY DEF NoCall
<1>1. ASSUME NEW k, NEW n \in Nat \ {0}, StartRead(k, p, buffer', n),
             IsBuffer(buffer'), writeEnds' = writeEnds
      PROVE  StreamInv' /\ EofAtEnd
  <2>1. CASE /\ ~bufferHasData(buffer') /\ writerCount <= 0
             /\ pc' = [pc EXCEPT ![p] = "user"]
             /\ call' = [call EXCEPT ![p] = NoCall]
             /\ result' = [result EXCEPT ![p] = "eof"]
             /\ setup' = setup
    <3>1. Bytes(buffer') = <<>> /\ writerCount = 0
      BY <1>1, <2>1, NoBytes, WriterCountFacts, Zenon
    <3>2. EofAtEnd
      BY <3>1, Zenon DEF EofAtEnd
    <3>3. StreamInv'
      BY <1>0, <1>1, <2>1 DEF Points, Results
    <3>. QED
      BY <3>2, <3>3
  <2>2. CASE /\ pc' = [pc EXCEPT ![p] = "dataAvailable"]
             /\ call' = [call EXCEPT ![p] = [NoCall EXCEPT !.count = n]]
             /\ result' = [result EXCEPT ![p] = "pending"]
             /\ setup' = setup
    <3> DEFINE c == [NoCall EXCEPT !.count = n]
    <3>1. c \in [buf : Seq(Byte), n : Nat, count : Nat] /\ c.count = n
      BY <1>1, ReadCall
    <3> HIDE DEF c
    <3>2. call' = [call EXCEPT ![p] = c]
      BY <2>2 DEF c
    <3>3. EofAtEnd
      BY <2>2 DEF EofAtEnd
    <3>4. \A q \in Procs : pc'[q] \in {"dataAvailable", "readMutex"} => call'[q].count > 0
      BY <1>1, <2>2, <3>1, <3>2
    <3>5. /\ pc' \in [Procs -> Points] /\ result' \in [Procs -> Results]
          /\ call' \in [Procs -> [buf : Seq(Byte), n : Nat, count : Nat]]
      <4>1. "dataAvailable" \in Points /\ "pending" \in Results
        BY DEF Points, Results, SemNames
      <4>. QED
        BY <2>2, <3>1, <3>2, <4>1
    <3>6. StreamInv'
      BY <1>1, <2>2, <3>4, <3>5, Zenon
    <3>. QED
      BY <3>3, <3>6
  <2>. QED
    BY <1>1, <2>1, <2>2, StartReadMeans
<1>2. ASSUME NEW k, NEW r \in Results \ {"eof"}, Return(k, p, r),
             IsBuffer(buffer'), writeEnds' = writeEnds
      PROVE  StreamInv' /\ EofAtEnd
  <2>1. /\ pc' = [pc EXCEPT ![p] = "user"]
        /\ call' = [call EXCEPT ![p] = NoCall]
        /\ result' = [result EXCEPT ![p] = r]
        /\ setup' = setup
    BY <1>2, ReturnMeans, Zenon
  <2>2. EofAtEnd
    BY <1>2, <2>1 DEF EofAtEnd
  <2>3. StreamInv'
    BY <1>0, <1>2, <2>1 DEF Points
  <2>. QED
    BY <2>2, <2>3
<1>3. ASSUME NEW k, NEW s \in SemNames, GoWait(k, p, s), IsBuffer(buffer'),
             writeEnds' = writeEnds, call' = call, result' = result,
             s \in {"dataAvailable", "readMutex"} => pc[p] \in {"dataAvailable", "readMutex"}
      PROVE  StreamInv' /\ EofAtEnd
  <2>1. pc' = [pc EXCEPT ![p] = s] /\ setup' = setup
    BY <1>3, GoWaitMeans, Zenon
  <2>2. EofAtEnd
    BY <1>3, Zenon DEF EofAtEnd
  <2>3. StreamInv'
    BY <1>3, <2>1 DEF Points
  <2>. QED
    BY <2>2, <2>3
<1>4. CASE Read(p)
  <2>1. buffer' = buffer /\ writeEnds' = writeEnds /\ setup \in Setups /\ IsBuffer(buffer)
    BY <1>4 DEF Read
  <2>2. CASE Return(Now, p, "ctrl_d")
    BY <1>2, <2>1, <2>2 DEF Results
  <2>3. ASSUME NEW n \in Counts, StartRead(Now, p, buffer, n) PROVE StreamInv' /\ EofAtEnd
    <3>1. n \in Nat \ {0} /\ StartRead(Now, p, buffer', n) /\ IsBuffer(buffer')
      BY <2>1, <2>3, SetupFacts
    <3>. QED
      BY <1>1, <2>1, <3>1, Zenon
  <2>. QED
    BY <1>4, <2>2, <2>3, Zenon DEF Read
<1>5. CASE ReadLock(p)
  <2>1. /\ GoWait(Now, p, "readMutex") /\ buffer' = buffer /\ writeEnds' = writeEnds
        /\ call' = call /\ result' = result /\ pc[p] = "dataAvailable"
    BY <1>5, Zenon DEF ReadLock, At
  <2>. QED
    BY <1>3, <2>1 DEF SemNames
<1>6. CASE ReadSome(p)
  <2>1. IsBuffer(buffer') /\ writeEnds' = writeEnds
    BY <1>6, ReadSomeTakes, Zenon
  <2>2. PICK k, out : DropNULs(k, p, buffer', out)
    BY <1>6, Zenon DEF ReadSome
  <2>3. CASE Return(k, p, "data") \/ Return(k, p, "ctrl_d")
    BY <1>2, <2>1, <2>3 DEF Results
  <2>4. CASE StartRead(k, p, buffer', call[p].count)
    <3>1. call[p].count \in Nat \ {0}
      BY <1>6 DEF ReadSome, At
    <3>. QED
      BY <1>1, <2>1, <2>4, <3>1, Zenon
  <2>. QED
    BY <2>2, <2>3, <2>4, Zenon DEF DropNULs
<1>7. CASE ReadNothing(p)
  <2>1. buffer' = buffer /\ writeEnds' = writeEnds /\ IsBuffer(buffer') /\ pc[p] = "readMutex"
        /\ ~bufferHasData(buffer)
    BY <1>7 DEF ReadNothing, At
  <2>2. CASE writerCount <= 0 /\ Return(Post(Now, "readMutex"), p, "eof")
    <3>1. /\ pc' = [pc EXCEPT ![p] = "user"]
          /\ call' = [call EXCEPT ![p] = NoCall]
          /\ result' = [result EXCEPT ![p] = "eof"]
          /\ setup' = setup
      BY <2>2, ReturnMeans, Zenon
    <3>2. Bytes(buffer') = <<>> /\ writerCount = 0
      BY <2>1, <2>2, NoBytes, WriterCountFacts, Zenon
    <3>3. EofAtEnd
      BY <3>2, Zenon DEF EofAtEnd
    <3>4. StreamInv'
      BY <1>0, <2>1, <3>1 DEF Points, Results
    <3>. QED
      BY <3>3, <3>4
  <2>3. CASE GoWait(Post(Now, "readMutex"), p, "dataAvailable") /\ call' = call /\ result' = result
    BY <1>3, <2>1, <2>3 DEF SemNames
  <2>. QED
    BY <1>7, <2>2, <2>3, Zenon DEF ReadNothing
<1>8. CASE WriteLock(p)
  <2>1. /\ GoWait(Now, p, "freeSpaces") /\ buffer' = buffer /\ writeEnds' = writeEnds
        /\ call' = call /\ result' = result
    BY <1>8, Zenon DEF WriteLock, At
  <2>. QED
    BY <1>3, <2>1 DEF SemNames
<1>9. CASE WriteByte(p)
  <2>1. IsBuffer(buffer') /\ writeEnds' = writeEnds
    BY <1>9, WriteBytePuts, Zenon
  <2>2. CASE \E k : Return(k, p, "done")
    BY <1>2, <2>1, <2>2 DEF Results
  <2>3. ASSUME NEW k, NEW n \in Nat, GoWait(k, p, "freeSpaces"), call' = [call EXCEPT ![p].n = n],
               result' = result
        PROVE  StreamInv' /\ EofAtEnd
    <3>1. pc' = [pc EXCEPT ![p] = "freeSpaces"] /\ setup' = setup
      BY <2>3, GoWaitMeans, Zenon
    <3>2. EofAtEnd
      BY <2>3, Zenon DEF EofAtEnd
    <3>3. call' \in [Procs -> [buf : Seq(Byte), n : Nat, count : Nat]]
      BY <2>3
    <3>4. \A q \in Procs : call'[q].count = call[q].count
      BY <2>3
    <3>5. StreamInv'
      BY <2>1, <2>3, <3>1, <3>3, <3>4 DEF Points, SemNames
    <3>. QED
      BY <3>2, <3>5
  <2>4. call[p].n \in Nat /\ call[p].n + 1 \in Nat
    OBVIOUS
  <2>. QED
    BY <1>9, <2>2, <2>3, <2>4, Zenon DEF WriteByte
<1>. QED
  BY <1>4, <1>5, <1>6, <1>7, <1>8, <1>9, Zenon DEF InCall

\* A write, by a process or by the keyboard's handler, begins with its message noted.
LEMMA StartWritePreserves ==
    ASSUME StreamInv, NEW p \in Procs, NEW m \in Seq(Byte), StartWrite(p, m)
    PROVE  StreamInv' /\ EofAtEnd
<1> DEFINE c == [NoCall EXCEPT !.buf = m]
<1>1. c = [buf |-> m, n |-> 0, count |-> 0]
  BY DEF NoCall
<1>2. pc' = [pc EXCEPT ![p] = "writeMutex"] /\ setup' = setup
  BY GoWaitMeans, Zenon DEF StartWrite
<1>3. /\ call' = [call EXCEPT ![p] = c] /\ result' = [result EXCEPT ![p] = "pending"]
      /\ buffer' = buffer /\ writeEnds' = writeEnds
  BY Zenon DEF StartWrite
<1> HIDE DEF c
<1>4. c \in [buf : Seq(Byte), n : Nat, count : Nat]
  BY <1>1
<1>5. "writeMutex" \in Points /\ "pending" \in Results
  BY DEF Points, Results, SemNames
<1>6. EofAtEnd
  BY <1>3 DEF EofAtEnd, StreamInv
<1>7. \A q \in Procs : pc'[q] \in {"dataAvailable", "readMutex"} => call'[q].count > 0
  BY <1>2, <1>3 DEF StreamInv
<1>8. StreamInv'
  BY <1>2, <1>3, <1>4, <1>5, <1>7 DEF StreamInv
<1>. QED
  BY <1>6, <1>8

\* Every step keeps the invariant, and answers end of file at the end only.
LEMMA NextStream ==
    ASSUME StreamInv, [Next]_vars
    PROVE  StreamInv' /\ EofAtEnd
<1>1. CASE UNCHANGED vars
  BY <1>1 DEF vars, StreamInv, EofAtEnd, writerCount
<1>2. ASSUME setup' = setup, buffer' = buffer, result' = result, call' = call,
             pc' = pc \/ \E p \in Procs, s \in {"user", "elsewhere"} : pc' = [pc EXCEPT ![p] = s],
             writeEnds' = writeEnds \/ \E p : writeEnds' = writeEnds \ {p}
      PROVE  StreamInv' /\ EofAtEnd
  <2>1. IsFiniteSet(writeEnds')
    BY <1>2, WriterCountFacts, Zenon DEF StreamInv
  <2>2. pc' \in [Procs -> Points]
        /\ \A q \in Procs : pc'[q] \in {"dataAvailable", "readMutex"} => pc[q] = pc'[q]
    BY <1>2 DEF StreamInv, Points
  <2>. QED
    BY <1>2, <2>1, <2>2 DEF StreamInv, EofAtEnd
<1>3. CASE IdleGoesOn
  BY <1>2, <1>3, Zenon DEF IdleGoesOn
<1>4. ASSUME NEW p \in Procs,
             \/ Read(p) \/ InCall(p) \/ Write(p) \/ Close(p)
             \/ KeyPress(p) \/ CtrlD(p) \/ Kill(p)
             \/ BlockElsewhere(p) \/ ComeBack(p) \/ UserCode(p)
      PROVE  StreamInv' /\ EofAtEnd
  <2>0. setup \in Setups
    BY DEF StreamInv
  <2>1. CASE Read(p) \/ InCall(p)
    BY <2>1, CallPreserves, Zenon
  <2>2. CASE Write(p) \/ KeyPress(p)
    <3>1. PICK m \in Messages : StartWrite(p, m)
      BY <2>2, Zenon DEF Write, KeyPress
    <3>2. m \in Seq(Byte)
      BY <2>0, SetupFacts, Zenon
    <3>. QED
      BY <3>1, <3>2, StartWritePreserves, Zenon
  <2>3. CASE CtrlD(p)
    <3>1. NUL \in Byte
      BY DEF Byte
    <3>2. <<NUL>> \in Seq(Byte)
      BY <3>1
    <3>3. StartWrite(p, <<NUL>>)
      BY <2>3, Zenon DEF CtrlD
    <3>. QED
      BY <3>2, <3>3, StartWritePreserves, Zenon
  <2>4. CASE Close(p)
    BY <1>2, <2>4, Zenon DEF Close, CloseWriteEnd
  <2>5. CASE Kill(p)
    BY <1>2, <2>5, Zenon DEF Kill
  <2>6. CASE BlockElsewhere(p)
    BY <1>2, <2>6 DEF BlockElsewhere
  <2>7. CASE ComeBack(p)
    BY <1>2, <2>7 DEF ComeBack
  <2>8. CASE UserCode(p)
    BY <1>2, <2>8, Zenon DEF UserCode
  <2>. QED
    BY <1>4, <2>1, <2>2, <2>3, <2>4, <2>5, <2>6, <2>7, <2>8, Zenon
<1>. QED
  BY <1>1, <1>3, <1>4, Zenon DEF Next

\* The invariant holds in every behaviour.
THEOREM StreamInvariance == Spec => []StreamInv
<1>1. Init => StreamInv
  BY InitStream
<1>2. StreamInv /\ [Next]_vars => StreamInv'
  BY NextStream
<1>. QED
  BY <1>1, <1>2, PTL DEF Spec

\* The initial states of the pipe are initial states of the stream.
LEMMA InitRefines == Init => Stream!StreamInit
<1> SUFFICES ASSUME Init PROVE Stream!StreamInit
  OBVIOUS
<1>1. StreamInv
  BY InitStream
<1>2. Content = <<>>
  <2>1. IsBuffer(buffer) /\ ~bufferHasData(buffer)
    BY <1>1 DEF StreamInv, Init, newBuffer, bufferHasData
  <2>. QED
    BY <2>1, NoBytes, Zenon DEF Content, Bytes
<1>3. writerCount \in Nat
  BY <1>1, WriterCountFacts, Zenon
<1>. QED
  BY <1>2, <1>3, Zenon DEF Init, Stream!StreamInit

\* Every step of the pipe is a step of the stream, or leaves it alone.
LEMMA NextRefines ==
    ASSUME StreamInv, StreamInv', [Next]_vars
    PROVE  [Stream!StreamNext]_(Stream!streamVars)
<1>0. Content = Bytes(buffer) /\ Content' = Bytes(buffer')
  BY Zenon DEF Content, Bytes
<1>1. Stream!EofIsTheEnd
  BY <1>0, NextStream, Zenon DEF EofAtEnd, Stream!EofIsTheEnd
<1>2. ASSUME buffer' = buffer, got' = got,
             writeEnds' = writeEnds \/ \E p : writeEnds' = writeEnds \ {p}
      PROVE  Stream!Call
  <2>1. writerCount' <= writerCount
    <3>1. writerCount \in Nat /\ writerCount' = Cardinality(writeEnds')
      BY WriterCountFacts, Zenon DEF writerCount
    <3>2. CASE writeEnds' = writeEnds
      <4>1. writerCount' = writerCount
        BY <3>2, Zenon DEF writerCount
      <4>2. writerCount <= writerCount
        <5> HIDE DEF writerCount
        <5>. QED
          BY <3>1
      <4>. QED
        BY <4>1, <4>2, Zenon
    <3>. QED
      BY <1>2, <3>1, <3>2, WriterCountFacts, Zenon
  <2>. QED
    BY <1>0, <1>2, <2>1, Zenon DEF Stream!Call
<1>3. ASSUME NEW p \in Procs, ReadSome(p) PROVE Stream!Take(p)
  <2>1. PICK n \in 1 .. Len(Bytes(buffer)) :
             /\ got' = [got EXCEPT ![p] = SubSeq(Bytes(buffer), 1, n)]
             /\ Bytes(buffer') = SubSeq(Bytes(buffer), n + 1, Len(Bytes(buffer)))
    BY <1>3, ReadSomeTakes, Zenon
  <2>2. writerCount' = writerCount
    BY <1>3, ReadSomeTakes, Zenon DEF writerCount
  <2>. QED
    BY <1>0, <2>1, <2>2, Zenon DEF Stream!Take
<1>4. ASSUME NEW p \in Procs, WriteByte(p) PROVE Stream!Call \/ \E b \in Byte : Stream!Put(b)
  <2>1. writeEnds' = writeEnds /\ got' = got
    BY <1>4, WriteBytePuts, Zenon
  <2>2. CASE buffer' = buffer
    BY <1>2, <2>1, <2>2, Zenon
  <2>3. ASSUME Len(Bytes(buffer)) < PIPE_BUF_SIZE, NEW b \in Byte,
               Bytes(buffer') = Append(Bytes(buffer), b)
        PROVE  Stream!Put(b)
    BY <1>0, <2>1, <2>3, Zenon DEF Stream!Put, writerCount
  <2>. QED
    BY <1>4, <2>2, <2>3, WriteBytePuts, Zenon
<1>5. CASE UNCHANGED vars
  <2>1. buffer' = buffer /\ got' = got /\ writeEnds' = writeEnds
    BY <1>5, Zenon DEF vars
  <2>2. Stream!Call
    BY <1>2, <2>1, Zenon
  <2>. QED
    BY <1>1, <2>2, Zenon DEF Stream!StreamNext
<1>6. CASE IdleGoesOn
  <2>1. Stream!Call
    BY <1>2, <1>6, Zenon DEF IdleGoesOn
  <2>. QED
    BY <1>1, <2>1, Zenon DEF Stream!StreamNext
<1>7. ASSUME NEW p \in Procs,
             \/ Read(p) \/ InCall(p) \/ Write(p) \/ Close(p)
             \/ KeyPress(p) \/ CtrlD(p) \/ Kill(p)
             \/ BlockElsewhere(p) \/ ComeBack(p) \/ UserCode(p)
      PROVE  Stream!StreamNext
  <2>1. CASE ReadSome(p)
    BY <1>1, <1>3, <2>1, Zenon DEF Stream!StreamNext
  <2>2. CASE WriteByte(p)
    BY <1>1, <1>4, <2>2, Zenon DEF Stream!StreamNext
  <2>3. CASE Read(p) \/ ReadLock(p) \/ ReadNothing(p) \/ WriteLock(p)
    <3>1. Stream!Call
      BY <1>2, <2>3, Zenon DEF Read, ReadLock, ReadNothing, WriteLock
    <3>. QED
      BY <1>1, <3>1, Zenon DEF Stream!StreamNext
  <2>4. CASE Write(p) \/ KeyPress(p) \/ CtrlD(p)
    <3>1. Stream!Call
      BY <1>2, <2>4, Zenon DEF Write, KeyPress, CtrlD, StartWrite
    <3>. QED
      BY <1>1, <3>1, Zenon DEF Stream!StreamNext
  <2>5. CASE Close(p) \/ Kill(p)
    <3>1. Stream!Call
      BY <1>2, <2>5, Zenon DEF Close, CloseWriteEnd, Kill
    <3>. QED
      BY <1>1, <3>1, Zenon DEF Stream!StreamNext
  <2>6. CASE BlockElsewhere(p) \/ ComeBack(p) \/ UserCode(p)
    <3>1. Stream!Call
      BY <1>2, <2>6, Zenon DEF BlockElsewhere, ComeBack, UserCode
    <3>. QED
      BY <1>1, <3>1, Zenon DEF Stream!StreamNext
  <2>. QED
    BY <1>7, <2>1, <2>2, <2>3, <2>4, <2>5, <2>6, Zenon DEF InCall
<1>. QED
  BY <1>5, <1>6, <1>7, Zenon DEF Next

\* A pipe is a byte stream: whatever the capacity, the processes and the setup, the
\* circular buffer, its semaphores and the kills never lose, double or reorder a
\* byte, and end of file comes after the last byte and the last writer.
THEOREM PipeIsAByteStream == Spec => IsAByteStream
<1>1. Init => Stream!StreamInit
  BY InitRefines
<1>2. StreamInv /\ StreamInv' /\ [Next]_vars => [Stream!StreamNext]_(Stream!streamVars)
  BY NextRefines
<1>. QED
  BY <1>1, <1>2, StreamInvariance, PTL DEF Spec, IsAByteStream, Stream!StreamSpec

-----------------------------------------------------------------------------
(* What semWait and semPost do, for every value and every queue of waiters *)

IsSemaphore(s, P) == s \in [value : Int, blockedQueue : Seq(P)]

\* A post polls a prefix of the queue: waiters that setReady refuses and at most
\* one, the last, that it accepts; it never polls more of them than the debt.
LEMMA PolledIsAPrefix ==
    ASSUME NEW P, NEW s, IsSemaphore(s, P), NEW blocked
    PROVE  \E d \in 0 .. Len(s.blockedQueue) :
              /\ Polled(s, blocked) = 1 .. d
              /\ Cardinality(Polled(s, blocked)) = d
              /\ d > 0 => d <= -s.value
              /\ \A i \in 1 .. d - 1 : s.blockedQueue[i] \notin blocked
              /\ d < Len(s.blockedQueue) /\ d < -s.value => d > 0 /\ s.blockedQueue[d] \in blocked
<1> DEFINE q == s.blockedQueue
           v == s.value
           L == Polled(s, blocked)
           T == {i \in Nat : i > 0 /\ i \notin L}
<1>0. q \in Seq(P) /\ v \in Int /\ Len(q) \in Nat
  BY DEF IsSemaphore
<1>1. \A i : i \in L <=> /\ i \in 1 .. Len(q) /\ i <= -v
                         /\ \A j \in 1 .. i - 1 : q[j] \notin blocked
  BY DEF Polled
<1> HIDE DEF q, v, L
<1>2. Len(q) + 1 \in T
  BY <1>0, <1>1
<1>3. PICK x \in T : \A y \in T : x <= y
  BY <1>2, LeastNatural
<1> DEFINE d == x - 1
<1>4. d \in 0 .. Len(q)
  BY <1>0, <1>2, <1>3
<1>5. \A i \in 1 .. d : i \in L
  BY <1>0, <1>3, <1>4
<1>6. \A i : i \in L => i \in 1 .. d
  <2> SUFFICES ASSUME NEW i \in L PROVE i \in 1 .. d
    OBVIOUS
  <2>1. i \in 1 .. Len(q) /\ i <= -v /\ \A j \in 1 .. i - 1 : q[j] \notin blocked
    BY <1>1
  <2>2. CASE i > d
    <3>1. x \in Nat /\ x > 0 /\ x \notin L /\ x <= i
      BY <1>0, <1>3, <2>1, <2>2
    <3>2. x \in 1 .. Len(q) /\ x <= -v /\ \A j \in 1 .. x - 1 : q[j] \notin blocked
      BY <1>0, <2>1, <3>1
    <3>. QED
      BY <1>1, <3>1, <3>2
  <2>. QED
    BY <1>4, <2>1, <2>2
<1>7. L = 1 .. d
  BY <1>5, <1>6
<1>8. Cardinality(L) = d
  <2>1. Cardinality(1 .. d) = IF 1 > d THEN 0 ELSE d - 1 + 1
    BY <1>4, FS_Interval
  <2>. QED
    BY <1>4, <1>7, <2>1
<1>9. d > 0 => d <= -v
  <2> SUFFICES ASSUME d > 0 PROVE d <= -v
    OBVIOUS
  <2>1. d \in L
    BY <1>4, <1>7
  <2>. QED
    BY <1>1, <2>1
<1>10. \A i \in 1 .. d - 1 : q[i] \notin blocked
  <2> SUFFICES ASSUME NEW i \in 1 .. d - 1 PROVE q[i] \notin blocked
    OBVIOUS
  <2>1. d \in L
    BY <1>4, <1>7
  <2>. QED
    BY <1>1, <2>1
<1>11. ASSUME d < Len(q), d < -v PROVE d > 0 /\ q[d] \in blocked
  <2>1. x \in 1 .. Len(q) /\ x <= -v /\ x \notin L
    BY <1>0, <1>3, <1>4, <1>11
  <2>2. PICK j \in 1 .. x - 1 : q[j] \in blocked
    BY <1>1, <2>1
  <2>3. j = d
    <3>1. j \in 1 .. d
      BY <1>4, <2>2
    <3>2. ~(j \in 1 .. d - 1)
      BY <1>10, <2>2
    <3>. QED
      BY <1>4, <3>1, <3>2
  <2>. QED
    BY <1>4, <2>2, <2>3
<1> HIDE DEF d
<1>. QED
  BY <1>4, <1>7, <1>8, <1>9, <1>10, <1>11 DEF q, v, L

\* semPost drops the waiters it polled, of which it wakes the last if that one is
\* BLOCKED; the value is at most 1 afterwards if it was not positive, and at most
\* 0 if somebody was woken.
LEMMA SemPostFacts ==
    ASSUME NEW P, NEW s, IsSemaphore(s, P), NEW blocked
    PROVE  \E d \in 0 .. Len(s.blockedQueue) :
              /\ IsSemaphore(semPost(s, blocked), P)
              /\ Len(semPost(s, blocked).blockedQueue) = Len(s.blockedQueue) - d
              /\ \A i \in 1 .. Len(s.blockedQueue) - d :
                     semPost(s, blocked).blockedQueue[i] = s.blockedQueue[i + d]
              /\ Woken(s, blocked) = IF d > 0 /\ s.blockedQueue[d] \in blocked
                                     THEN {s.blockedQueue[d]} ELSE {}
              /\ semPost(s, blocked).value = IF Woken(s, blocked) = {} THEN s.value + 1 + d
                                                                       ELSE s.value + d
              /\ d > 0 => d <= -s.value
              /\ \A i \in 1 .. d - 1 : s.blockedQueue[i] \notin blocked
              /\ d < Len(s.blockedQueue) /\ d < -s.value => d > 0 /\ s.blockedQueue[d] \in blocked
<1> DEFINE q == s.blockedQueue
           v == s.value
           L == Polled(s, blocked)
           W == Woken(s, blocked)
           r == semPost(s, blocked)
           Vain == {i \in L : q[i] \notin blocked}
<1>0. q \in Seq(P) /\ v \in Int /\ Len(q) \in Nat
  BY DEF IsSemaphore
<1>1. PICK d \in 0 .. Len(q) :
         /\ L = 1 .. d /\ Cardinality(L) = d
         /\ d > 0 => d <= -v
         /\ \A i \in 1 .. d - 1 : q[i] \notin blocked
         /\ d < Len(q) /\ d < -v => d > 0 /\ q[d] \in blocked
  BY PolledIsAPrefix
<1>2. W = {q[i] : i \in L} \cap blocked
  BY DEF Woken
<1>3. r = [value |-> v + 1 + Cardinality(Vain), blockedQueue |-> SubSeq(q, Cardinality(L) + 1, Len(q))]
  BY DEF semPost
<1> HIDE DEF q, v, L, W, r
<1>4. W = IF d > 0 /\ q[d] \in blocked THEN {q[d]} ELSE {}
  <2>1. \A w : w \in W <=> \E i \in 1 .. d : w = q[i] /\ q[i] \in blocked
    BY <1>1, <1>2
  <2>2. \A i \in 1 .. d : q[i] \in blocked => i = d
    BY <1>1
  <2>3. d > 0 => d \in 1 .. d
    BY <1>1
  <2>4. CASE d > 0 /\ q[d] \in blocked
    <3>1. W = {q[d]}
      BY <2>1, <2>2, <2>3, <2>4
    <3>. QED
      BY <2>4, <3>1
  <2>5. CASE ~(d > 0 /\ q[d] \in blocked)
    <3>1. ~ \E i \in 1 .. d : q[i] \in blocked
      <4> SUFFICES ASSUME NEW i \in 1 .. d, q[i] \in blocked PROVE FALSE
        OBVIOUS
      <4>1. i = d
        BY <2>2
      <4>. QED
        BY <1>1, <2>5, <4>1
    <3>2. W = {}
      BY <2>1, <3>1
    <3>. QED
      BY <2>5, <3>2
  <2>. QED
    BY <2>4, <2>5
<1>5. Cardinality(Vain) = IF W = {} THEN d ELSE d - 1
  <2>1. CASE d > 0 /\ q[d] \in blocked
    <3>1. Vain = 1 .. d - 1
      BY <1>1, <2>1
    <3>2. Cardinality(1 .. d - 1) = IF 1 > d - 1 THEN 0 ELSE d - 1 - 1 + 1
      BY <1>1, FS_Interval
    <3>3. W # {}
      BY <1>4, <2>1
    <3>4. Cardinality(1 .. d - 1) = d - 1
      BY <1>1, <2>1, <3>2
    <3>. QED
      BY <3>1, <3>3, <3>4, Zenon
  <2>2. CASE ~(d > 0 /\ q[d] \in blocked)
    <3>1. Vain = L
      BY <1>1, <2>2
    <3>2. W = {}
      BY <1>4, <2>2
    <3>. QED
      BY <1>1, <3>1, <3>2
  <2>. QED
    BY <2>1, <2>2
<1> HIDE DEF Vain
<1>6. r.value = IF W = {} THEN v + 1 + d ELSE v + d
  BY <1>0, <1>1, <1>3, <1>5
<1>7. r.blockedQueue = SubSeq(q, d + 1, Len(q))
  BY <1>1, <1>3
<1>8. /\ r.blockedQueue \in Seq(P) /\ Len(r.blockedQueue) = Len(q) - d
      /\ \A i \in 1 .. Len(q) - d : r.blockedQueue[i] = q[i + d]
  <2> DEFINE t == SubSeq(q, d + 1, Len(q))
  <2>1. t \in Seq(P) /\ Len(t) = Len(q) - d /\ \A i \in 1 .. Len(q) - d : t[i] = q[i + d]
    BY <1>0, <1>1
  <2>. QED
    BY <1>7, <2>1, Zenon
<1>9. IsSemaphore(r, P)
  <2>1. r.value \in Int
    BY <1>0, <1>1, <1>6
  <2>2. r = [value |-> r.value, blockedQueue |-> r.blockedQueue]
    BY <1>3
  <2>. QED
    BY <1>8, <2>1, <2>2 DEF IsSemaphore
<1>. QED
  BY <1>1, <1>4, <1>6, <1>8, <1>9, Zenon DEF q, v, W, r

-----------------------------------------------------------------------------
(* The pipe's semaphores *)

ReadSems == {"dataAvailable", "readMutex"}
States == {"READY", "BLOCKED", "ZOMBIE"}
queueOf(k, s) == k.sem[s].blockedQueue
valueOf(k, s) == k.sem[s].value

IsWaitState(k) ==
    /\ k = [sem |-> k.sem, state |-> k.state]
    /\ k.sem \in [SemNames -> [value : Int, blockedQueue : Seq(Procs)]]
    /\ k.state \in [Procs -> States]

\* Who stands in a queue waits there, alive or dead, and only once.  The
\* processes of X may have gone on without a token: idle, on the keyboard's pipe.
Waits(k, at, X) == \A s \in SemNames : \A i \in 1 .. Len(queueOf(k, s)) :
    /\ queueOf(k, s)[i] \in X => s \notin ReadSems
    /\ queueOf(k, s)[i] \notin X =>
          /\ at[queueOf(k, s)[i]] = s
          /\ k.state[queueOf(k, s)[i]] # "READY"
          /\ \A j \in 1 .. Len(queueOf(k, s)) : queueOf(k, s)[i] = queueOf(k, s)[j] => i = j

\* If nobody dies, the readers' semaphores count their waiters.
Exact(k, at) ==
    /\ \A s \in ReadSems :
          /\ IF queueOf(k, s) = <<>> THEN valueOf(k, s) >= 0
                                     ELSE valueOf(k, s) = -Len(queueOf(k, s))
          /\ \A p \in Procs : k.state[p] = "BLOCKED" /\ at[p] = s =>
                 \E i \in 1 .. Len(queueOf(k, s)) : queueOf(k, s)[i] = p
    /\ \A p \in Procs : k.state[p] = "ZOMBIE" => at[p] \notin SemNames

\* Past writeMutex, dead holders included.
Locked(k, at) == {p \in Procs : at[p] = "freeSpaces" \/ (at[p] = "writeMutex" /\ k.state[p] = "READY")}

WriteLockInv(k, at) ==
    /\ valueOf(k, "writeMutex") <= 1
    /\ \A p, q \in Locked(k, at) : p = q
    /\ Locked(k, at) # {} => valueOf(k, "writeMutex") <= 0

\* A token of s is free, or was given to somebody who has not used it.
Token(k, at, s) ==
    valueOf(k, s) >= 1 \/ \E p \in Procs : at[p] = s /\ k.state[p] = "READY"

\* readMutex is free or held; bytes in the buffer have a reader coming.
ReadTokenInv(k, at, cb) ==
    /\ Token(k, at, "readMutex")
    /\ bufferHasData(cb) => Token(k, at, "dataAvailable") \/ \E p \in Procs : at[p] = "readMutex"

Stray == IF Keyboard THEN {Idle} ELSE {}
NoKill == "kill" \notin Env

\* What holds at every point of a call: lock says that idle writes nothing, exact
\* that nobody dies.
Calm(k, at, X, lock, exact) ==
    /\ IsWaitState(k) /\ Waits(k, at, X)
    /\ lock => X = {} /\ WriteLockInv(k, at)
    /\ exact => Exact(k, at)

\* Of idle, which only the keyboard's handler makes wait, and of the calls.
CallInv ==
    /\ pc[Idle] \notin ReadSems \cup {"elsewhere"}
    /\ ~Keyboard => pc[Idle] = "user" /\ state[Idle] = "READY"
    /\ writeEnds \subseteq Writers \cup {Driver}
    /\ \A p \in Procs : call[p].n > 0 => pc[p] = "freeSpaces"
    /\ Keyboard => \A p \in Procs : call[p].n = 0 /\ Len(call[p].buf) <= 1

\* Who waits is queued where it waits, the write lock has one holder, and bytes have a reader coming.
WaitInv ==
    /\ Calm(Now, pc, Stray, ~Keyboard, NoKill)
    /\ NoKill => ReadTokenInv(Now, pc, buffer)
    /\ CallInv

-----------------------------------------------------------------------------
(* The operators on [sem, state] *)

\* Post and WaitOn without the evaluation order that Then fixes for TLC.
LEMMA PostIs ==
    ASSUME NEW k, NEW s
    PROVE  Post(k, s) =
             [sem   |-> [k.sem EXCEPT ![s] = semPost(@, Blocked(k))],
              state |-> [p \in Procs |-> IF p \in Woken(k.sem[s], Blocked(k))
                                         THEN "READY" ELSE k.state[p]]]
  BY DEF Post, Then

\* The same for a wait.
LEMMA WaitOnIs ==
    ASSUME NEW k, NEW p, NEW s
    PROVE  WaitOn(k, p, s) =
             [sem   |-> [k.sem EXCEPT ![s] = semWait(@, p)],
              state |-> [k.state EXCEPT ![p] = IF mustBlock(k.sem[s]) THEN "BLOCKED" ELSE @]]
  BY DEF WaitOn, Then

\* The fields of a wait state.
LEMMA WaitStateFacts ==
    ASSUME NEW k, IsWaitState(k)
    PROVE  /\ \A s \in SemNames : /\ IsSemaphore(k.sem[s], Procs)
                                  /\ valueOf(k, s) \in Int
                                  /\ queueOf(k, s) \in Seq(Procs)
                                  /\ Len(queueOf(k, s)) \in Nat
                                  /\ \A i \in 1 .. Len(queueOf(k, s)) : queueOf(k, s)[i] \in Procs
           /\ \A p \in Procs : k.state[p] \in States
<1>1. ASSUME NEW s \in SemNames
      PROVE  IsSemaphore(k.sem[s], Procs) /\ valueOf(k, s) \in Int /\ queueOf(k, s) \in Seq(Procs)
  BY DEF IsWaitState, IsSemaphore, valueOf, queueOf
<1>2. \A q \in Seq(Procs) : Len(q) \in Nat /\ \A i \in 1 .. Len(q) : q[i] \in Procs
  OBVIOUS
<1>3. \A p \in Procs : k.state[p] \in States
  BY DEF IsWaitState
<1>. QED
  BY <1>1, <1>2, <1>3, Zenon

\* One post on s: which waiters leave its queue, who is woken, what the value is.
LEMMA PostFacts ==
    ASSUME NEW k, IsWaitState(k), NEW s \in SemNames
    PROVE  LET j == Post(k, s) IN
           /\ IsWaitState(j)
           /\ \A t \in SemNames : t # s => j.sem[t] = k.sem[t]
           /\ \E d \in 0 .. Len(queueOf(k, s)), W \in SUBSET Procs :
                 /\ Len(queueOf(j, s)) = Len(queueOf(k, s)) - d
                 /\ \A i \in 1 .. Len(queueOf(k, s)) - d : queueOf(j, s)[i] = queueOf(k, s)[i + d]
                 /\ W = IF d > 0 /\ k.state[queueOf(k, s)[d]] = "BLOCKED"
                        THEN {queueOf(k, s)[d]} ELSE {}
                 /\ \A p \in Procs : j.state[p] = IF p \in W THEN "READY" ELSE k.state[p]
                 /\ valueOf(j, s) = IF W = {} THEN valueOf(k, s) + 1 + d ELSE valueOf(k, s) + d
                 /\ d > 0 => d <= -valueOf(k, s)
                 /\ \A i \in 1 .. d - 1 : k.state[queueOf(k, s)[i]] # "BLOCKED"
                 /\ d < Len(queueOf(k, s)) /\ d < -valueOf(k, s) =>
                       d > 0 /\ k.state[queueOf(k, s)[d]] = "BLOCKED"
<1> DEFINE B == Blocked(k)
           e == k.sem[s]
           q == queueOf(k, s)
           W == Woken(e, B)
           f == semPost(e, B)
           j == Post(k, s)
<1>0. /\ IsSemaphore(e, Procs) /\ q = e.blockedQueue /\ valueOf(k, s) = e.value
      /\ q \in Seq(Procs) /\ Len(q) \in Nat /\ \A i \in 1 .. Len(q) : q[i] \in Procs
  BY WaitStateFacts, Zenon DEF queueOf, valueOf
<1>1. \A p \in Procs : p \in B <=> k.state[p] = "BLOCKED"
  BY DEF Blocked
<1>2. j = [sem |-> [k.sem EXCEPT ![s] = f],
           state |-> [p \in Procs |-> IF p \in W THEN "READY" ELSE k.state[p]]]
  BY PostIs, Zenon
<1> HIDE DEF e, f, W, B, q, j
<1>3. PICK d \in 0 .. Len(q) :
         /\ IsSemaphore(f, Procs)
         /\ Len(f.blockedQueue) = Len(q) - d
         /\ \A i \in 1 .. Len(q) - d : f.blockedQueue[i] = q[i + d]
         /\ W = IF d > 0 /\ q[d] \in B THEN {q[d]} ELSE {}
         /\ f.value = IF W = {} THEN e.value + 1 + d ELSE e.value + d
         /\ d > 0 => d <= -e.value
         /\ \A i \in 1 .. d - 1 : q[i] \notin B
         /\ d < Len(q) /\ d < -e.value => d > 0 /\ q[d] \in B
  <2> DEFINE c == e.blockedQueue
  <2>1. \E d \in 0 .. Len(c) :
         /\ IsSemaphore(f, Procs)
         /\ Len(f.blockedQueue) = Len(c) - d
         /\ \A i \in 1 .. Len(c) - d : f.blockedQueue[i] = c[i + d]
         /\ W = IF d > 0 /\ c[d] \in B THEN {c[d]} ELSE {}
         /\ f.value = IF W = {} THEN e.value + 1 + d ELSE e.value + d
         /\ d > 0 => d <= -e.value
         /\ \A i \in 1 .. d - 1 : c[i] \notin B
         /\ d < Len(c) /\ d < -e.value => d > 0 /\ c[d] \in B
    BY <1>0, SemPostFacts DEF f, W
  <2>2. c = q
    BY <1>0
  <2> HIDE DEF c
  <2>. QED
    BY <2>1, <2>2
<1>4. j.sem = [k.sem EXCEPT ![s] = f]
      /\ j.state = [p \in Procs |-> IF p \in W THEN "READY" ELSE k.state[p]]
      /\ j = [sem |-> j.sem, state |-> j.state]
  BY <1>2
<1>5. j.sem \in [SemNames -> [value : Int, blockedQueue : Seq(Procs)]]
      /\ \A t \in SemNames : j.sem[t] = IF t = s THEN f ELSE k.sem[t]
  BY <1>3, <1>4 DEF IsSemaphore, IsWaitState
<1>6. \A p \in Procs : j.state[p] = IF p \in W THEN "READY" ELSE k.state[p]
  BY <1>4
<1>7. IsWaitState(j)
  <2>1. j.state \in [Procs -> States]
    BY <1>4 DEF IsWaitState, States
  <2>. QED
    BY <1>4, <1>5, <2>1 DEF IsWaitState
<1>8. queueOf(j, s) = f.blockedQueue /\ valueOf(j, s) = f.value
  BY <1>5 DEF queueOf, valueOf
<1>9. \A i \in 1 .. Len(q) : q[i] \in B <=> k.state[q[i]] = "BLOCKED"
  BY <1>0, <1>1
<1>10. d > 0 => (q[d] \in B <=> k.state[q[d]] = "BLOCKED")
  BY <1>0, <1>3, <1>9
<1>11. \A i \in 1 .. d - 1 : k.state[q[i]] # "BLOCKED"
  BY <1>0, <1>3, <1>9
<1>12. W = IF d > 0 /\ k.state[q[d]] = "BLOCKED" THEN {q[d]} ELSE {}
  BY <1>3, <1>10, Zenon
<1>13. W \in SUBSET Procs
  <2>1. d > 0 => q[d] \in Procs
    BY <1>0, <1>3
  <2>. QED
    BY <2>1, <1>12
<1>14. \A t \in SemNames : t # s => j.sem[t] = k.sem[t]
  BY <1>5, Zenon
<1>15. /\ Len(queueOf(j, s)) = Len(q) - d
       /\ \A i \in 1 .. Len(q) - d : queueOf(j, s)[i] = q[i + d]
       /\ valueOf(j, s) = IF W = {} THEN valueOf(k, s) + 1 + d ELSE valueOf(k, s) + d
       /\ d > 0 => d <= -valueOf(k, s)
       /\ d < Len(q) /\ d < -valueOf(k, s) => d > 0 /\ k.state[q[d]] = "BLOCKED"
  BY <1>0, <1>3, <1>8, <1>10, Zenon
<1>. QED
  BY <1>6, <1>7, <1>11, <1>12, <1>13, <1>14, <1>15, Zenon DEF q, j

\* j comes from k by posts on s alone: waiters of s may have become READY.
PostedOn(k, j, at, X, s, exact) ==
    /\ IsWaitState(j) /\ Waits(j, at, X)
    /\ \A t \in SemNames : t # s => j.sem[t] = k.sem[t]
    /\ \A p \in Procs : j.state[p] # k.state[p] =>
           k.state[p] = "BLOCKED" /\ j.state[p] = "READY" /\ (p \notin X => at[p] = s)
    /\ exact => Exact(j, at) /\ (s \in ReadSems /\ Token(k, at, s) => Token(j, at, s))

\* The post that leads from k to j left its token free or woke somebody with it.
FreshToken(k, j, at, s) ==
    \/ valueOf(j, s) >= 1
    \/ \E p \in Procs : at[p] = s /\ k.state[p] = "BLOCKED" /\ j.state[p] = "READY"

\* A post keeps what is known of the waiters.  It wakes at most one; if the value
\* was not positive it is at most 1 afterwards, and at most 0 if one was woken.
\* If nobody dies, a post on a readers' semaphore leaves a token.
LEMMA PostKeeps ==
    ASSUME NEW k, IsWaitState(k), NEW at, NEW X, Waits(k, at, X), NEW exact,
           exact => Exact(k, at), NEW s \in SemNames
    PROVE  LET j == Post(k, s) IN
           /\ PostedOn(k, j, at, X, s, exact)
           /\ exact /\ s \in ReadSems => FreshToken(k, j, at, s)
           /\ \A p, r \in Procs : j.state[p] # k.state[p] /\ j.state[r] # k.state[r] => p = r
           /\ valueOf(k, s) <= 0 =>
                 /\ valueOf(j, s) <= 1
                 /\ (\E p \in Procs : j.state[p] # k.state[p]) => valueOf(j, s) <= 0
<1> DEFINE j == Post(k, s)
           q == queueOf(k, s)
           q2 == queueOf(j, s)
           v == valueOf(k, s)
<1>0. /\ q \in Seq(Procs) /\ Len(q) \in Nat /\ v \in Int
      /\ \A i \in 1 .. Len(q) : q[i] \in Procs
  BY WaitStateFacts, Zenon
<1>1. IsWaitState(j) /\ \A t \in SemNames : t # s => j.sem[t] = k.sem[t]
  BY PostFacts
<1>2. PICK d \in 0 .. Len(q), W \in SUBSET Procs :
         /\ Len(q2) = Len(q) - d
         /\ \A i \in 1 .. Len(q) - d : q2[i] = q[i + d]
         /\ W = IF d > 0 /\ k.state[q[d]] = "BLOCKED" THEN {q[d]} ELSE {}
         /\ \A p \in Procs : j.state[p] = IF p \in W THEN "READY" ELSE k.state[p]
         /\ valueOf(j, s) = IF W = {} THEN v + 1 + d ELSE v + d
         /\ d > 0 => d <= -v
         /\ \A i \in 1 .. d - 1 : k.state[q[i]] # "BLOCKED"
         /\ d < Len(q) /\ d < -v => d > 0 /\ k.state[q[d]] = "BLOCKED"
  BY PostFacts, ZenonT(60)
<1>3. \A t \in SemNames : t # s => queueOf(j, t) = queueOf(k, t) /\ valueOf(j, t) = valueOf(k, t)
  <2> HIDE DEF j
  <2>. QED
    BY <1>1, Zenon DEF queueOf, valueOf
<1>4. \A i \in 1 .. Len(q) : q[i] \notin X =>
         /\ at[q[i]] = s /\ k.state[q[i]] # "READY"
         /\ \A m \in 1 .. Len(q) : q[i] = q[m] => i = m
  BY Zenon DEF Waits
<1>5. \A i \in 1 .. Len(q) : q[i] \in X => s \notin ReadSems
  BY Zenon DEF Waits
<1> HIDE DEF j, q, q2, v
<1>6. d > 0 => d \in 1 .. Len(q)
  BY <1>0, <1>2
<1>7. \A w \in W : /\ d > 0 /\ w = q[d] /\ W = {w} /\ k.state[w] = "BLOCKED"
                   /\ w \notin X => at[w] = s
  BY <1>2, <1>4, <1>6
<1>8. \A p \in Procs : j.state[p] # k.state[p] => p \in W
  BY <1>2, Zenon
<1>9. \A p \in Procs : j.state[p] # k.state[p] =>
         k.state[p] = "BLOCKED" /\ j.state[p] = "READY" /\ (p \notin X => at[p] = s)
  BY <1>2, <1>7, <1>8, Zenon
<1>10. Waits(j, at, X)
  <2> SUFFICES ASSUME NEW t \in SemNames, NEW i \in 1 .. Len(queueOf(j, t))
               PROVE  /\ queueOf(j, t)[i] \in X => t \notin ReadSems
                      /\ queueOf(j, t)[i] \notin X =>
                            /\ at[queueOf(j, t)[i]] = t
                            /\ j.state[queueOf(j, t)[i]] # "READY"
                            /\ \A m \in 1 .. Len(queueOf(j, t)) :
                                  queueOf(j, t)[i] = queueOf(j, t)[m] => i = m
    BY Zenon DEF Waits
  <2>1. CASE t = s
    <3>0. queueOf(j, t) = q2
      BY <2>1 DEF q2
    <3>1. i \in 1 .. Len(q) - d /\ i + d \in 1 .. Len(q) /\ q2[i] = q[i + d]
      BY <1>0, <1>2, <3>0
    <3>2. q2[i] \in X => s \notin ReadSems
      BY <1>5, <3>1, Zenon
    <3>3. ASSUME q2[i] \notin X
          PROVE  /\ at[q2[i]] = s /\ j.state[q2[i]] # "READY"
                 /\ \A m \in 1 .. Len(q2) : q2[i] = q2[m] => i = m
      <4>1. at[q2[i]] = s /\ k.state[q2[i]] # "READY"
        BY <1>4, <3>1, <3>3, Zenon
      <4>2. q2[i] \notin W
        <5> SUFFICES ASSUME q2[i] \in W PROVE FALSE
          OBVIOUS
        <5>1. d > 0 /\ q[i + d] = q[d]
          BY <1>7, <3>1, Zenon
        <5>2. i + d = d
          BY <1>4, <1>6, <3>1, <3>3, <5>1
        <5>. QED
          BY <1>0, <1>2, <3>1, <5>2
      <4>3. j.state[q2[i]] # "READY"
        <5>1. q2[i] \in Procs
          BY <1>0, <3>1, Zenon
        <5>. QED
          BY <1>2, <4>1, <4>2, <5>1, Zenon
      <4>4. ASSUME NEW m \in 1 .. Len(q2), q2[i] = q2[m] PROVE i = m
        <5>1. m \in 1 .. Len(q) - d /\ m + d \in 1 .. Len(q) /\ q2[m] = q[m + d]
          BY <1>0, <1>2
        <5>2. i + d = m + d
          BY <1>4, <3>1, <3>3, <4>4, <5>1, Zenon
        <5>. QED
          BY <1>0, <1>2, <3>1, <5>1, <5>2
      <4>. QED
        BY <4>1, <4>3, <4>4, Zenon
    <3>. QED
      BY <2>1, <3>0, <3>2, <3>3, Zenon
  <2>2. CASE t # s
    <3> DEFINE c == queueOf(k, t)
    <3>0. queueOf(j, t) = c /\ i \in 1 .. Len(c)
      BY <1>3, <2>2, Zenon
    <3>1. /\ c[i] \in X => t \notin ReadSems
          /\ c[i] \notin X =>
                /\ at[c[i]] = t /\ k.state[c[i]] # "READY"
                /\ \A m \in 1 .. Len(c) : c[i] = c[m] => i = m
      BY <3>0, Zenon DEF Waits
    <3>2. c[i] \in Procs
      BY <3>0, WaitStateFacts, Zenon
    <3> HIDE DEF c
    <3>3. c[i] \notin X => j.state[c[i]] # "READY"
      <4> SUFFICES ASSUME c[i] \notin X PROVE j.state[c[i]] # "READY"
        OBVIOUS
      <4>1. c[i] \notin W
        BY <1>7, <2>2, <3>1, Zenon
      <4>. QED
        BY <1>2, <3>1, <3>2, <4>1, Zenon
    <3>. QED
      BY <3>0, <3>1, <3>3, Zenon
  <2>. QED
    BY <2>1, <2>2, Zenon
<1>11. \A p, r \in Procs : j.state[p] # k.state[p] /\ j.state[r] # k.state[r] => p = r
  BY <1>7, <1>8
<1>12. ASSUME v <= 0
       PROVE  /\ valueOf(j, s) <= 1
              /\ (\E p \in Procs : j.state[p] # k.state[p]) => valueOf(j, s) <= 0
  <2>1. CASE W = {}
    <3>1. valueOf(j, s) = v + 1 + d
      BY <1>2, <2>1
    <3>2. ~ \E p \in Procs : j.state[p] # k.state[p]
      BY <1>8, <2>1, Zenon
    <3>3. v + 1 + d <= 1
      BY <1>0, <1>2, <1>12
    <3>. QED
      BY <3>1, <3>2, <3>3, Zenon
  <2>2. CASE W # {}
    <3>1. valueOf(j, s) = v + d /\ d > 0
      BY <1>2, <2>2
    <3>2. v + d <= 0 /\ v + d <= 1
      BY <1>0, <1>2, <1>12, <3>1
    <3>. QED
      BY <3>1, <3>2, Zenon
  <2>. QED
    BY <2>1, <2>2, Zenon
<1>13. ASSUME exact, s \in ReadSems PROVE FreshToken(k, j, at, s)
  <2>1. Exact(k, at)
    BY <1>13
  <2>2. IF q = <<>> THEN v >= 0 ELSE v = -Len(q)
    BY <1>13, <2>1, Zenon DEF Exact, q, v
  <2>3. CASE q = <<>>
    <3>1. d = 0 /\ v >= 0
      BY <1>0, <1>2, <2>2, <2>3
    <3>2. W = {}
      BY <1>2, <3>1
    <3>3. valueOf(j, s) = v + 1 + d
      BY <1>2, <3>2
    <3>4. valueOf(j, s) >= 1
      BY <1>0, <3>1, <3>3
    <3>. QED
      BY <3>4, Zenon DEF FreshToken
  <2>4. CASE q # <<>>
    <3>1. Len(q) > 0 /\ v = -Len(q)
      BY <1>0, <2>2, <2>4
    <3>2. 1 \in 1 .. Len(q)
      BY <1>0, <3>1
    <3>3. \A i \in 1 .. Len(q) : k.state[q[i]] = "BLOCKED" /\ at[q[i]] = s
      <4> SUFFICES ASSUME NEW i \in 1 .. Len(q) PROVE k.state[q[i]] = "BLOCKED" /\ at[q[i]] = s
        OBVIOUS
      <4>1. q[i] \notin X /\ at[q[i]] = s /\ k.state[q[i]] # "READY" /\ q[i] \in Procs
        BY <1>0, <1>4, <1>5, <1>13, Zenon
      <4>2. k.state[q[i]] # "ZOMBIE"
        BY <2>1, <4>1, Zenon DEF Exact
      <4>3. k.state[q[i]] \in States
        BY <4>1, WaitStateFacts, Zenon
      <4>. QED
        BY <4>1, <4>2, <4>3 DEF States
    <3>4. d = 1
      <4>1. ~(d > 1)
        <5> SUFFICES ASSUME d > 1 PROVE FALSE
          OBVIOUS
        <5>1. 1 \in 1 .. d - 1
          BY <1>2
        <5>. QED
          BY <1>2, <3>2, <3>3, <5>1, Zenon
      <4>2. d # 0
        BY <1>0, <1>2, <3>1
      <4>. QED
        BY <1>2, <4>1, <4>2
    <3>5. q[1] \in W /\ q[1] \in Procs /\ at[q[1]] = s
      <4>1. W = {q[d]}
        BY <1>2, <3>2, <3>3, <3>4
      <4>. QED
        BY <1>0, <3>2, <3>3, <3>4, <4>1
    <3>6. j.state[q[1]] = "READY"
      BY <1>2, <3>5, Zenon
    <3>. QED
      BY <3>2, <3>3, <3>5, <3>6, Zenon DEF FreshToken
  <2>. QED
    BY <2>3, <2>4, Zenon
<1>14. ASSUME exact PROVE Exact(j, at)
  <2>1. Exact(k, at)
    BY <1>14
  <2>2. \A p \in Procs : j.state[p] = "ZOMBIE" => at[p] \notin SemNames
    <3> SUFFICES ASSUME NEW p \in Procs, j.state[p] = "ZOMBIE" PROVE at[p] \notin SemNames
      OBVIOUS
    <3>1. k.state[p] = "ZOMBIE"
      BY <1>9
    <3>. QED
      BY <2>1, <3>1, Zenon DEF Exact
  <2>3. ASSUME NEW t \in ReadSems, t # s
        PROVE  /\ IF queueOf(j, t) = <<>> THEN valueOf(j, t) >= 0
                                          ELSE valueOf(j, t) = -Len(queueOf(j, t))
               /\ \A p \in Procs : j.state[p] = "BLOCKED" /\ at[p] = t =>
                      \E i \in 1 .. Len(queueOf(j, t)) : queueOf(j, t)[i] = p
    <3>1. t \in SemNames
      BY <2>3 DEF ReadSems, SemNames
    <3>2. queueOf(j, t) = queueOf(k, t) /\ valueOf(j, t) = valueOf(k, t)
      BY <1>3, <2>3, <3>1, Zenon
    <3>3. \A p \in Procs : j.state[p] = "BLOCKED" => k.state[p] = "BLOCKED"
      BY <1>9
    <3>4. /\ IF queueOf(k, t) = <<>> THEN valueOf(k, t) >= 0
                                     ELSE valueOf(k, t) = -Len(queueOf(k, t))
          /\ \A p \in Procs : k.state[p] = "BLOCKED" /\ at[p] = t =>
                 \E i \in 1 .. Len(queueOf(k, t)) : queueOf(k, t)[i] = p
      BY <2>1, <2>3, Zenon DEF Exact
    <3>. QED
      BY <3>2, <3>3, <3>4
  <2>4. ASSUME s \in ReadSems
        PROVE  /\ IF q2 = <<>> THEN valueOf(j, s) >= 0 ELSE valueOf(j, s) = -Len(q2)
               /\ \A p \in Procs : j.state[p] = "BLOCKED" /\ at[p] = s =>
                      \E i \in 1 .. Len(q2) : q2[i] = p
    <3>1. /\ IF q = <<>> THEN v >= 0 ELSE v = -Len(q)
          /\ \A p \in Procs : k.state[p] = "BLOCKED" /\ at[p] = s =>
                 \E i \in 1 .. Len(q) : q[i] = p
      BY <2>1, <2>4, Zenon DEF Exact, q, v
    <3>2. q2 \in Seq(Procs) /\ Len(q2) \in Nat
      BY <1>1, WaitStateFacts, Zenon DEF q2
    <3>3. IF q2 = <<>> THEN valueOf(j, s) >= 0 ELSE valueOf(j, s) = -Len(q2)
      <4>1. CASE q = <<>>
        <5>1. d = 0 /\ v >= 0 /\ Len(q2) = 0
          BY <1>0, <1>2, <3>1, <4>1
        <5>2. W = {}
          BY <1>2, <5>1
        <5>3. valueOf(j, s) = v + 1 + d
          BY <1>2, <5>2
        <5>. QED
          BY <1>0, <3>2, <5>1, <5>3
      <4>2. CASE q # <<>>
        <5>1. Len(q) > 0 /\ v = -Len(q)
          BY <1>0, <3>1, <4>2
        <5>2. CASE W = {}
          <6>0. -v = Len(q)
            BY <1>0, <5>1
          <6>1. ~(d < Len(q))
            <7> SUFFICES ASSUME d < Len(q) PROVE FALSE
              OBVIOUS
            <7>1. d > 0 /\ k.state[q[d]] = "BLOCKED"
              BY <1>2, <6>0, Zenon
            <7>. QED
              BY <1>2, <5>2, <7>1, Zenon
          <6>2. Len(q2) = 0 /\ valueOf(j, s) = v + 1 + d
            <7>1. valueOf(j, s) = v + 1 + d
              BY <1>2, <5>2, Zenon
            <7>2. Len(q2) = Len(q) - d
              BY <1>2, Zenon
            <7>. QED
              BY <1>0, <6>1, <7>1, <7>2
          <6>3. valueOf(j, s) >= 0
            BY <1>0, <1>2, <5>1, <6>1, <6>2, SMTT(30)
          <6>. QED
            BY <3>2, <6>2, <6>3
        <5>3. CASE W # {}
          <6>1. valueOf(j, s) = v + d
            BY <1>2, <5>3
          <6>2. valueOf(j, s) = -Len(q2)
            <7>1. Len(q2) = Len(q) - d
              BY <1>2, Zenon
            <7>2. d \in Int
              OBVIOUS
            <7>. QED
              BY <1>0, <5>1, <6>1, <7>1, <7>2
          <6>3. q2 = <<>> => Len(q2) = 0
            BY <3>2
          <6>. QED
            BY <3>2, <6>2, <6>3
        <5>. QED
          BY <5>2, <5>3
      <4>. QED
        BY <4>1, <4>2
    <3>4. ASSUME NEW p \in Procs, j.state[p] = "BLOCKED", at[p] = s
          PROVE  \E i \in 1 .. Len(q2) : q2[i] = p
      <4>1. k.state[p] = "BLOCKED" /\ p \notin W
        BY <1>2, <1>9, <3>4
      <4>2. PICK i \in 1 .. Len(q) : q[i] = p
        BY <3>1, <3>4, <4>1, Zenon
      <4>3. ~(i \in 1 .. d - 1)
        BY <1>2, <4>1, <4>2, Zenon
      <4>4. i # d
        <5> SUFFICES ASSUME i = d PROVE FALSE
          OBVIOUS
        <5>1. d > 0 /\ k.state[q[d]] = "BLOCKED"
          BY <1>0, <4>1, <4>2
        <5>. QED
          BY <1>2, <4>1, <4>2, <5>1
      <4>5. i - d \in 1 .. Len(q) - d /\ i - d \in 1 .. Len(q2) /\ (i - d) + d = i
        BY <1>0, <1>2, <4>2, <4>3, <4>4
      <4>6. q2[i - d] = q[(i - d) + d]
        BY <1>2, <4>5, Zenon
      <4>. QED
        BY <4>2, <4>5, <4>6, Zenon
    <3>. QED
      BY <3>3, <3>4, Zenon
  <2>5. \A t \in ReadSems :
          /\ IF queueOf(j, t) = <<>> THEN valueOf(j, t) >= 0
                                     ELSE valueOf(j, t) = -Len(queueOf(j, t))
          /\ \A p \in Procs : j.state[p] = "BLOCKED" /\ at[p] = t =>
                 \E i \in 1 .. Len(queueOf(j, t)) : queueOf(j, t)[i] = p
    BY <2>3, <2>4, Zenon DEF q2
  <2>. QED
    BY <2>2, <2>5, Zenon DEF Exact
<1>15. FreshToken(k, j, at, s) => Token(j, at, s)
  BY Zenon DEF FreshToken, Token
<1>16. PostedOn(k, j, at, X, s, exact)
  BY <1>1, <1>9, <1>10, <1>13, <1>14, <1>15 DEF PostedOn
<1>. QED
  BY <1>11, <1>12, <1>13, <1>16, Zenon DEF v, j

\* n posts one after the other, as a chain of states.
LEMMA PostsAreAChain ==
    ASSUME NEW k, NEW s, NEW n \in Nat
    PROVE  \E g : /\ g[0] = k
                  /\ \A i \in 1 .. n : g[i] = Post(g[i - 1], s)
                  /\ Posts(k, s, n) = g[n]
<1> DEFINE Chain(g, m) == g = [i \in 0 .. m |-> IF i = 0 THEN k ELSE Post(g[i - 1], s)]
           T == {m \in Nat : ~ \E g : Chain(g, m)}
<1>1. T = {}
  <2> SUFFICES ASSUME T # {} PROVE FALSE
    OBVIOUS
  <2>1. PICK m \in T : \A y \in T : m <= y
    BY LeastNatural
  <2>2. CASE m = 0
    <3> DEFINE g == [i \in 0 .. 0 |-> k]
    <3>1. g = [i \in 0 .. 0 |-> IF i = 0 THEN k ELSE Post(g[i - 1], s)]
      OBVIOUS
    <3>2. Chain(g, m)
      BY <2>2, <3>1, Zenon
    <3>. QED
      BY <2>1, <3>2, Zenon
  <2>3. CASE m # 0
    <3>1. m - 1 \in Nat /\ ~(m - 1 \in T)
      <4>1. m \in Nat
        BY <2>1
      <4> HIDE DEF T
      <4>. QED
        BY <2>1, <2>3, <4>1
    <3>2. PICK g : Chain(g, m - 1)
      BY <3>1, Zenon
    <3> DEFINE h == [i \in 0 .. m |-> IF i < m THEN g[i] ELSE Post(g[m - 1], s)]
    <3>3. \A i \in 0 .. m : h[i] = IF i = 0 THEN k ELSE Post(h[i - 1], s)
      <4> SUFFICES ASSUME NEW i \in 0 .. m PROVE h[i] = IF i = 0 THEN k ELSE Post(h[i - 1], s)
        OBVIOUS
      <4>0. \A j \in 0 .. m - 1 : g[j] = IF j = 0 THEN k ELSE Post(g[j - 1], s)
        BY <3>2, Zenon
      <4>1. \A j \in 0 .. m : h[j] = IF j < m THEN g[j] ELSE Post(g[m - 1], s)
        BY Zenon
      <4> HIDE DEF h
      <4>2. CASE i < m
        <5>1. i \in 0 .. m - 1 /\ h[i] = g[i]
          BY <2>1, <4>1, <4>2
        <5>2. i # 0 => i - 1 \in 0 .. m /\ i - 1 < m
          BY <2>1, <4>2
        <5>3. i # 0 => h[i - 1] = g[i - 1]
          BY <4>1, <5>2, Zenon
        <5>. QED
          BY <4>0, <5>1, <5>3, Zenon
      <4>3. CASE ~(i < m)
        <5>1. i = m /\ i # 0 /\ m - 1 \in 0 .. m /\ m - 1 < m
          BY <2>1, <2>3, <4>3
        <5>2. h[i] = Post(g[m - 1], s) /\ h[m - 1] = g[m - 1]
          BY <4>1, <4>3, <5>1, Zenon
        <5>. QED
          BY <5>1, <5>2, Zenon
      <4>. QED
        BY <4>2, <4>3, Zenon
    <3>4. h = [i \in 0 .. m |-> h[i]]
      OBVIOUS
    <3> HIDE DEF h
    <3>5. Chain(h, m)
      BY <3>3, <3>4
    <3>. QED
      BY <2>1, <3>5, Zenon
  <2>. QED
    BY <2>2, <2>3, Zenon
<1>2. \E g : Chain(g, n)
  BY <1>1
<1> DEFINE f == CHOOSE g : Chain(g, n)
<1>3. Chain(f, n)
  BY <1>2, Zenon
<1>4. Posts(k, s, n) = f[n]
  BY Zenon DEF Posts
<1> HIDE DEF f
<1>5. \A i \in 0 .. n : f[i] = IF i = 0 THEN k ELSE Post(f[i - 1], s)
  BY <1>3, Zenon
<1>6. 0 \in 0 .. n /\ \A i \in 1 .. n : i \in 0 .. n /\ i # 0
  OBVIOUS
<1>. QED
  BY <1>4, <1>5, <1>6, Zenon

\* Posts on one semaphore compose.
LEMMA PostedOnComposes ==
    ASSUME NEW k, NEW j, NEW m, NEW at, NEW X, NEW s, NEW exact,
           PostedOn(k, j, at, X, s, exact), PostedOn(j, m, at, X, s, exact)
    PROVE  PostedOn(k, m, at, X, s, exact)
<1>1. \A p \in Procs : m.state[p] # k.state[p] =>
           k.state[p] = "BLOCKED" /\ m.state[p] = "READY" /\ (p \notin X => at[p] = s)
  BY DEF PostedOn
<1>. QED
  BY <1>1, Zenon DEF PostedOn

\* The MAX_PROCESSES posts of removePipeWriter, and those of drainBuffer, keep what
\* is known of the waiters.
LEMMA PostsKeep ==
    ASSUME NEW k, IsWaitState(k), NEW at, NEW X, Waits(k, at, X), NEW exact,
           exact => Exact(k, at), NEW s \in SemNames, NEW n \in Nat
    PROVE  PostedOn(k, Posts(k, s, n), at, X, s, exact)
<1>1. PICK g : /\ g[0] = k
               /\ \A i \in 1 .. n : g[i] = Post(g[i - 1], s)
               /\ Posts(k, s, n) = g[n]
  BY PostsAreAChain
<1> DEFINE T == {i \in Nat : i <= n /\ ~PostedOn(k, g[i], at, X, s, exact)}
<1>2. PostedOn(k, k, at, X, s, exact)
  BY DEF PostedOn
<1>3. T = {}
  <2> SUFFICES ASSUME T # {} PROVE FALSE
    OBVIOUS
  <2>1. PICK m \in T : \A y \in T : m <= y
    BY LeastNatural
  <2>2. m # 0
    BY <1>1, <1>2, <2>1, Zenon
  <2>3. m - 1 \in Nat /\ m - 1 <= n /\ m \in 1 .. n /\ ~(m - 1 \in T)
    BY <2>1, <2>2
  <2>4. PostedOn(k, g[m - 1], at, X, s, exact)
    BY <2>3, Zenon
  <2>5. PostedOn(g[m - 1], Post(g[m - 1], s), at, X, s, exact)
    <3>1. IsWaitState(g[m - 1]) /\ Waits(g[m - 1], at, X) /\ (exact => Exact(g[m - 1], at))
      BY <2>4, Zenon DEF PostedOn
    <3>. QED
      BY <3>1, PostKeeps
  <2>6. PostedOn(k, g[m], at, X, s, exact)
    <3>1. g[m] = Post(g[m - 1], s)
      BY <1>1, <2>3, Zenon
    <3>. QED
      BY <2>4, <2>5, <3>1, PostedOnComposes
  <2>. QED
    BY <2>1, <2>6, Zenon
<1>4. n \in Nat /\ n <= n
  OBVIOUS
<1>. QED
  BY <1>1, <1>3, <1>4, Zenon

\* One wait of p on s: its place in the queue and its state.
LEMMA WaitFacts ==
    ASSUME NEW k, IsWaitState(k), NEW s \in SemNames, NEW p \in Procs, k.state[p] = "READY"
    PROVE  LET j == WaitOn(k, p, s) IN
           /\ IsWaitState(j)
           /\ \A t \in SemNames : t # s => j.sem[t] = k.sem[t]
           /\ valueOf(j, s) = valueOf(k, s) - 1
           /\ IF valueOf(k, s) >= 1
              THEN queueOf(j, s) = queueOf(k, s) /\ j.state = k.state
              ELSE /\ queueOf(j, s) = Append(queueOf(k, s), p)
                   /\ j.state[p] = "BLOCKED"
                   /\ \A r \in Procs : r # p => j.state[r] = k.state[r]
<1> DEFINE j == WaitOn(k, p, s)
           e == semWait(k.sem[s], p)
           b == mustBlock(k.sem[s])
           v == valueOf(k, s)
           q == queueOf(k, s)
<1>0. q \in Seq(Procs) /\ v \in Int
  BY WaitStateFacts, Zenon
<1>1. e = [value |-> v - 1, blockedQueue |-> IF b THEN Append(q, p) ELSE q]
  BY Zenon DEF semWait, valueOf, queueOf
<1>2. b <=> ~(v >= 1)
  <2>1. b <=> v - 1 < 0
    BY DEF mustBlock, valueOf
  <2> HIDE DEF b, v
  <2>. QED
    BY <1>0, <2>1
<1>3. j = [sem |-> [k.sem EXCEPT ![s] = e],
           state |-> [k.state EXCEPT ![p] = IF b THEN "BLOCKED" ELSE @]]
  BY WaitOnIs, Zenon
<1> HIDE DEF e, b, v, q, j
<1>4. e.value = v - 1 /\ e.blockedQueue = (IF b THEN Append(q, p) ELSE q)
      /\ e \in [value : Int, blockedQueue : Seq(Procs)]
  BY <1>0, <1>1
<1>5. /\ j.sem = [k.sem EXCEPT ![s] = e]
      /\ j.state = [k.state EXCEPT ![p] = IF b THEN "BLOCKED" ELSE @]
      /\ j = [sem |-> j.sem, state |-> j.state]
  BY <1>3
<1>6. /\ j.sem \in [SemNames -> [value : Int, blockedQueue : Seq(Procs)]]
      /\ \A t \in SemNames : j.sem[t] = IF t = s THEN e ELSE k.sem[t]
  BY <1>4, <1>5 DEF IsWaitState
<1>7. j.state \in [Procs -> States]
      /\ \A r \in Procs : j.state[r] = IF r = p /\ b THEN "BLOCKED" ELSE k.state[r]
  BY <1>5 DEF IsWaitState, States
<1>8. ~b => j.state = k.state
  BY <1>5 DEF IsWaitState
<1>9. IsWaitState(j)
  BY <1>5, <1>6, <1>7, Zenon DEF IsWaitState
<1>10. valueOf(j, s) = v - 1 /\ queueOf(j, s) = IF b THEN Append(q, p) ELSE q
  BY <1>4, <1>6 DEF valueOf, queueOf
<1>. QED
  BY <1>2, <1>6, <1>7, <1>8, <1>9, <1>10, Zenon DEF v, q, j

\* A wait keeps what is known of the waiters; p was READY, so it is in no queue yet.
LEMMA WaitKeeps ==
    ASSUME NEW k, IsWaitState(k), NEW at \in [Procs -> Points], NEW X, Waits(k, at, X),
           NEW exact \in BOOLEAN, exact => Exact(k, at), NEW s \in SemNames,
           NEW p \in Procs, k.state[p] = "READY", p \in X => s \notin ReadSems
    PROVE  LET j   == WaitOn(k, p, s)
               at2 == [at EXCEPT ![p] = s]
           IN  Waits(j, at2, X) /\ (exact => Exact(j, at2))
<1> DEFINE j == WaitOn(k, p, s)
           at2 == [at EXCEPT ![p] = s]
           v == valueOf(k, s)
           q == queueOf(k, s)
           q2 == queueOf(j, s)
<1>1. /\ IsWaitState(j)
      /\ \A t \in SemNames : t # s => j.sem[t] = k.sem[t]
      /\ valueOf(j, s) = v - 1
      /\ IF v >= 1 THEN q2 = q /\ j.state = k.state
                   ELSE /\ q2 = Append(q, p) /\ j.state[p] = "BLOCKED"
                        /\ \A r \in Procs : r # p => j.state[r] = k.state[r]
  BY WaitFacts
<1>2. \A t \in SemNames : t # s => queueOf(j, t) = queueOf(k, t) /\ valueOf(j, t) = valueOf(k, t)
  BY <1>1, Zenon DEF queueOf, valueOf
<1>3. \A r \in Procs : at2[r] = IF r = p THEN s ELSE at[r]
  OBVIOUS
<1>4. q \in Seq(Procs) /\ Len(q) \in Nat /\ v \in Int /\ \A i \in 1 .. Len(q) : q[i] \in Procs
  BY WaitStateFacts, Zenon
<1> HIDE DEF j, at2
<1>5. \A t \in SemNames : \A i \in 1 .. Len(queueOf(k, t)) :
         LET c == queueOf(k, t) IN
         /\ c[i] \in Procs
         /\ c[i] \in X => t \notin ReadSems
         /\ c[i] \notin X => /\ c[i] # p /\ at2[c[i]] = t /\ j.state[c[i]] # "READY"
                             /\ \A m \in 1 .. Len(c) : c[i] = c[m] => i = m
  <2> SUFFICES ASSUME NEW t \in SemNames, NEW i \in 1 .. Len(queueOf(k, t))
               PROVE  LET c == queueOf(k, t) IN
                      /\ c[i] \in Procs
                      /\ c[i] \in X => t \notin ReadSems
                      /\ c[i] \notin X => /\ c[i] # p /\ at2[c[i]] = t /\ j.state[c[i]] # "READY"
                                          /\ \A m \in 1 .. Len(c) : c[i] = c[m] => i = m
    BY Zenon
  <2> DEFINE c == queueOf(k, t)
  <2>1. /\ c[i] \in X => t \notin ReadSems
        /\ c[i] \notin X => /\ at[c[i]] = t /\ k.state[c[i]] # "READY"
                            /\ \A m \in 1 .. Len(c) : c[i] = c[m] => i = m
    BY Zenon DEF Waits
  <2>2. c[i] \in Procs
    BY WaitStateFacts, Zenon
  <2> HIDE DEF c
  <2>3. ASSUME c[i] \notin X PROVE c[i] # p /\ at2[c[i]] = t /\ j.state[c[i]] # "READY"
    <3>1. c[i] # p
      BY <2>1, <2>3, Zenon
    <3>2. at2[c[i]] = t
      BY <1>3, <2>1, <2>2, <2>3, <3>1, Zenon
    <3>3. j.state[c[i]] = k.state[c[i]]
      BY <1>1, <2>2, <3>1, Zenon
    <3>. QED
      BY <2>1, <2>3, <3>1, <3>2, <3>3, Zenon
  <2>. QED
    BY <2>1, <2>2, <2>3, Zenon DEF c
<1>6. \A i \in 1 .. Len(q) :
         /\ q[i] \in X => s \notin ReadSems
         /\ q[i] \notin X => /\ q[i] # p /\ at2[q[i]] = s /\ j.state[q[i]] # "READY"
                             /\ \A m \in 1 .. Len(q) : q[i] = q[m] => i = m
  BY <1>5, Zenon
<1> HIDE DEF q, q2, v
<1>7. Waits(j, at2, X)
  <2> SUFFICES ASSUME NEW t \in SemNames, NEW i \in 1 .. Len(queueOf(j, t))
               PROVE  LET c == queueOf(j, t) IN
                      /\ c[i] \in X => t \notin ReadSems
                      /\ c[i] \notin X => /\ at2[c[i]] = t /\ j.state[c[i]] # "READY"
                                          /\ \A m \in 1 .. Len(c) : c[i] = c[m] => i = m
    BY Zenon DEF Waits
  <2>1. CASE t # s
    <3>1. queueOf(j, t) = queueOf(k, t)
      BY <1>2, <2>1, Zenon
    <3>. QED
      BY <1>5, <3>1, Zenon
  <2>2. CASE t = s /\ v >= 1
    <3>1. queueOf(j, t) = q
      BY <1>1, <2>2, Zenon DEF q2
    <3>. QED
      BY <1>6, <2>2, <3>1, Zenon
  <2>3. CASE t = s /\ ~(v >= 1)
    <3>1. q2 = Append(q, p) /\ j.state[p] = "BLOCKED" /\ queueOf(j, t) = q2
      BY <1>1, <2>3, Zenon DEF q2
    <3>2. /\ Len(q2) = Len(q) + 1 /\ q2[Len(q) + 1] = p
          /\ \A m \in 1 .. Len(q) : q2[m] = q[m]
      BY <1>4, <3>1
    <3>3. \A m \in 1 .. Len(q2) : m \in 1 .. Len(q) \/ m = Len(q) + 1
      BY <1>4, <3>2
    <3>4. ~(Len(q) + 1 \in 1 .. Len(q))
      BY <1>4
    <3>5. q2[i] \in X => s \notin ReadSems
      BY <1>6, <3>1, <3>2, <3>3, Zenon
    <3>6. ASSUME q2[i] \notin X
          PROVE  /\ at2[q2[i]] = s /\ j.state[q2[i]] # "READY"
                 /\ \A m \in 1 .. Len(q2) : q2[i] = q2[m] => i = m
      <4>1. CASE i \in 1 .. Len(q)
        <5>1. q2[i] = q[i] /\ q[i] # p /\ at2[q[i]] = s /\ j.state[q[i]] # "READY"
          BY <1>6, <3>2, <3>6, <4>1, Zenon
        <5>2. ASSUME NEW m \in 1 .. Len(q2), q2[i] = q2[m] PROVE i = m
          <6>1. m \in 1 .. Len(q)
            BY <3>2, <3>3, <5>1, <5>2, Zenon
          <6>2. q[i] = q[m] /\ q[i] \notin X
            BY <3>2, <3>6, <5>1, <5>2, <6>1
          <6>. QED
            BY <1>6, <4>1, <6>1, <6>2, Zenon
        <5>. QED
          BY <5>1, <5>2, Zenon
      <4>2. CASE i = Len(q) + 1
        <5>1. q2[i] = p /\ at2[p] = s /\ j.state[p] # "READY"
          BY <1>3, <3>1, <3>2, <4>2
        <5>2. ASSUME NEW m \in 1 .. Len(q2), q2[i] = q2[m] PROVE i = m
          <6>1. CASE m \in 1 .. Len(q)
            <7>1. q[m] = p /\ q[m] \notin X
              BY <3>2, <3>6, <5>1, <5>2, <6>1, Zenon
            <7>. QED
              BY <1>6, <6>1, <7>1, Zenon
          <6>. QED
            BY <3>3, <4>2, <6>1, Zenon
        <5>. QED
          BY <5>1, <5>2, Zenon
      <4>. QED
        BY <3>1, <3>3, <4>1, <4>2, Zenon
    <3>. QED
      BY <2>3, <3>1, <3>5, <3>6, Zenon
  <2>. QED
    BY <2>1, <2>2, <2>3, Zenon
<1>8. ASSUME exact PROVE Exact(j, at2)
  <2>1. Exact(k, at)
    BY <1>8
  <2>2. \A r \in Procs : r # p => j.state[r] = k.state[r]
    BY <1>1
  <2>3. j.state[p] # "ZOMBIE"
    BY <1>1
  <2>4. \A r \in Procs : j.state[r] = "ZOMBIE" => at2[r] \notin SemNames
    BY <1>3, <2>1, <2>2, <2>3 DEF Exact
  <2>5. ASSUME NEW t \in ReadSems, t # s
        PROVE  /\ IF queueOf(j, t) = <<>> THEN valueOf(j, t) >= 0
                                          ELSE valueOf(j, t) = -Len(queueOf(j, t))
               /\ \A r \in Procs : j.state[r] = "BLOCKED" /\ at2[r] = t =>
                      \E i \in 1 .. Len(queueOf(j, t)) : queueOf(j, t)[i] = r
    <3>1. t \in SemNames
      BY <2>5 DEF ReadSems, SemNames
    <3>2. queueOf(j, t) = queueOf(k, t) /\ valueOf(j, t) = valueOf(k, t)
      BY <1>2, <2>5, <3>1, Zenon
    <3>3. /\ IF queueOf(k, t) = <<>> THEN valueOf(k, t) >= 0
                                     ELSE valueOf(k, t) = -Len(queueOf(k, t))
          /\ \A r \in Procs : k.state[r] = "BLOCKED" /\ at[r] = t =>
                 \E i \in 1 .. Len(queueOf(k, t)) : queueOf(k, t)[i] = r
      BY <2>1, <2>5, Zenon DEF Exact
    <3>4. \A r \in Procs : j.state[r] = "BLOCKED" /\ at2[r] = t => k.state[r] = "BLOCKED" /\ at[r] = t
      BY <1>3, <2>2, <2>5, Zenon
    <3>. QED
      BY <3>2, <3>3, <3>4
  <2>6. ASSUME s \in ReadSems
        PROVE  /\ IF q2 = <<>> THEN valueOf(j, s) >= 0 ELSE valueOf(j, s) = -Len(q2)
               /\ \A r \in Procs : j.state[r] = "BLOCKED" /\ at2[r] = s =>
                      \E i \in 1 .. Len(q2) : q2[i] = r
    <3>1. /\ IF q = <<>> THEN v >= 0 ELSE v = -Len(q)
          /\ \A r \in Procs : k.state[r] = "BLOCKED" /\ at[r] = s =>
                 \E i \in 1 .. Len(q) : q[i] = r
      BY <2>1, <2>6, Zenon DEF Exact, q, v
    <3>2. CASE v >= 1
      <4>1. q = <<>>
        BY <1>4, <3>1, <3>2
      <4>2. q2 = q /\ j.state = k.state /\ valueOf(j, s) = v - 1
        BY <1>1, <3>2, Zenon
      <4>3. valueOf(j, s) >= 0
        BY <1>4, <3>2, <4>2
      <4>4. \A r \in Procs : j.state[r] = "BLOCKED" /\ at2[r] = s => k.state[r] = "BLOCKED" /\ at[r] = s
        BY <1>3, <4>2
      <4>. QED
        BY <3>1, <4>1, <4>2, <4>3, <4>4
    <3>3. CASE ~(v >= 1)
      <4>1. q2 = Append(q, p) /\ valueOf(j, s) = v - 1
        BY <1>1, <3>3, Zenon
      <4>2. /\ Len(q2) = Len(q) + 1 /\ q2[Len(q) + 1] = p /\ q2 # <<>>
            /\ Len(q) + 1 \in 1 .. Len(q2)
            /\ \A m \in 1 .. Len(q) : q2[m] = q[m] /\ m \in 1 .. Len(q2)
        BY <1>4, <4>1
      <4>3. v = -Len(q)
        <5>1. q = <<>> => Len(q) = 0
          OBVIOUS
        <5>. QED
          BY <1>4, <3>1, <3>3, <5>1
      <4>4. valueOf(j, s) = -Len(q2)
        BY <1>4, <4>1, <4>2, <4>3
      <4>5. ASSUME NEW r \in Procs, j.state[r] = "BLOCKED", at2[r] = s
            PROVE  \E i \in 1 .. Len(q2) : q2[i] = r
        <5>1. CASE r = p
          BY <4>2, <5>1, Zenon
        <5>2. CASE r # p
          <6>1. PICK i \in 1 .. Len(q) : q[i] = r
            BY <1>3, <2>2, <3>1, <4>5, <5>2, Zenon
          <6>. QED
            BY <4>2, <6>1, Zenon
        <5>. QED
          BY <5>1, <5>2, Zenon
      <4>. QED
        BY <4>2, <4>4, <4>5, Zenon
    <3>. QED
      BY <3>2, <3>3, Zenon
  <2>7. \A t \in ReadSems :
          /\ IF queueOf(j, t) = <<>> THEN valueOf(j, t) >= 0
                                     ELSE valueOf(j, t) = -Len(queueOf(j, t))
          /\ \A r \in Procs : j.state[r] = "BLOCKED" /\ at2[r] = t =>
                 \E i \in 1 .. Len(queueOf(j, t)) : queueOf(j, t)[i] = r
    BY <2>5, <2>6, Zenon DEF q2
  <2>. QED
    BY <2>4, <2>7, Zenon DEF Exact
<1>. QED
  BY <1>7, <1>8, Zenon DEF j, at2

-----------------------------------------------------------------------------
(* The write lock and the readers' tokens under posts, waits and returns *)

\* Posts on the other semaphores leave the write lock as it is, and the tokens.
LEMMA PostedCalm ==
    ASSUME NEW k, NEW at, NEW X, NEW lock, NEW exact,
           Calm(k, at, X, lock, exact), NEW s \in SemNames, NEW j, PostedOn(k, j, at, X, s, exact)
    PROVE  /\ s # "writeMutex" => Calm(j, at, X, lock, exact)
           /\ \A p \in Procs : k.state[p] = "READY" => j.state[p] = "READY"
           /\ exact => \A t \in ReadSems : Token(k, at, t) => Token(j, at, t)
<1>1. /\ IsWaitState(j) /\ Waits(j, at, X) /\ (exact => Exact(j, at))
      /\ \A t \in SemNames : t # s => j.sem[t] = k.sem[t]
      /\ \A p \in Procs : j.state[p] # k.state[p] =>
            k.state[p] = "BLOCKED" /\ j.state[p] = "READY" /\ (p \notin X => at[p] = s)
      /\ exact /\ s \in ReadSems /\ Token(k, at, s) => Token(j, at, s)
  BY DEF PostedOn
<1>2. \A p \in Procs : k.state[p] = "READY" => j.state[p] = "READY"
  BY <1>1
<1>3. ASSUME exact, NEW t \in ReadSems, Token(k, at, t) PROVE Token(j, at, t)
  <2>1. t \in SemNames
    BY DEF ReadSems, SemNames
  <2>2. CASE t = s
    BY <1>1, <1>3, <2>2
  <2>3. CASE t # s
    <3>1. valueOf(j, t) = valueOf(k, t)
      BY <1>1, <2>1, <2>3, Zenon DEF valueOf
    <3>. QED
      BY <1>2, <1>3, <3>1, Zenon DEF Token
  <2>. QED
    BY <2>2, <2>3
<1>4. ASSUME s # "writeMutex", lock PROVE WriteLockInv(j, at)
  <2>1. X = {} /\ WriteLockInv(k, at)
    BY <1>4 DEF Calm
  <2>2. "writeMutex" \in SemNames
    BY DEF SemNames
  <2>3. valueOf(j, "writeMutex") = valueOf(k, "writeMutex")
    BY <1>1, <1>4, <2>2, Zenon DEF valueOf
  <2>4. \A p \in Procs : p \in Locked(j, at) <=> p \in Locked(k, at)
    BY <1>1, <1>4, <2>1 DEF Locked
  <2>5. Locked(j, at) = Locked(k, at)
    BY <2>4 DEF Locked
  <2>. QED
    BY <2>1, <2>3, <2>5, Zenon DEF WriteLockInv
<1>5. ASSUME s # "writeMutex" PROVE Calm(j, at, X, lock, exact)
  BY <1>1, <1>4, <1>5 DEF Calm
<1>. QED
  BY <1>2, <1>3, <1>5, Zenon

\* A post of p's own kind, from a calm state.
LEMMA PostIsPosted ==
    ASSUME NEW k, NEW at, NEW X, NEW lock, NEW exact,
           Calm(k, at, X, lock, exact), NEW s \in SemNames
    PROVE  /\ PostedOn(k, Post(k, s), at, X, s, exact)
           /\ exact /\ s \in ReadSems => FreshToken(k, Post(k, s), at, s)
           /\ \A n \in Nat : PostedOn(k, Posts(k, s, n), at, X, s, exact)
<1>1. IsWaitState(k) /\ Waits(k, at, X) /\ (exact => Exact(k, at))
  BY DEF Calm
<1>2. PostedOn(k, Post(k, s), at, X, s, exact)
      /\ (exact /\ s \in ReadSems => FreshToken(k, Post(k, s), at, s))
  BY <1>1, PostKeeps
<1>3. \A n \in Nat : PostedOn(k, Posts(k, s, n), at, X, s, exact)
  BY <1>1, PostsKeep
<1>. QED
  BY <1>2, <1>3, Zenon

\* p goes on outside every semaphore: its place in the program changes, no queue does.
LEMMA LeaveKeeps ==
    ASSUME NEW k, IsWaitState(k), NEW at \in [Procs -> Points], NEW X, Waits(k, at, X),
           NEW exact, exact => Exact(k, at), NEW p \in Procs, k.state[p] = "READY",
           NEW x \in Points \ SemNames
    PROVE  Waits(k, [at EXCEPT ![p] = x], X) /\ (exact => Exact(k, [at EXCEPT ![p] = x]))
<1> DEFINE at2 == [at EXCEPT ![p] = x]
<1>1. \A r \in Procs : at2[r] = IF r = p THEN x ELSE at[r]
  OBVIOUS
<1> HIDE DEF at2
<1>2. \A t \in SemNames : \A i \in 1 .. Len(queueOf(k, t)) :
         /\ queueOf(k, t)[i] \in Procs
         /\ queueOf(k, t)[i] \notin X => at2[queueOf(k, t)[i]] = at[queueOf(k, t)[i]]
  <2> SUFFICES ASSUME NEW t \in SemNames, NEW i \in 1 .. Len(queueOf(k, t))
               PROVE  LET c == queueOf(k, t) IN
                      c[i] \in Procs /\ (c[i] \notin X => at2[c[i]] = at[c[i]])
    BY Zenon
  <2> DEFINE c == queueOf(k, t)
  <2>1. c[i] \in Procs
    BY WaitStateFacts, Zenon
  <2>2. c[i] \notin X => k.state[c[i]] # "READY"
    BY Zenon DEF Waits
  <2> HIDE DEF c
  <2>. QED
    BY <1>1, <2>1, <2>2 DEF c
<1>3. Waits(k, at2, X)
  BY <1>2, SMTT(30) DEF Waits
<1>4. ASSUME exact PROVE Exact(k, at2)
  <2>1. Exact(k, at)
    BY <1>4
  <2>2. \A r \in Procs : k.state[r] = "ZOMBIE" => at2[r] \notin SemNames
    BY <1>1, <2>1 DEF Exact
  <2>3. \A r \in Procs : k.state[r] = "BLOCKED" => at2[r] = at[r]
    BY <1>1
  <2>4. ASSUME NEW t \in ReadSems, NEW r \in Procs, k.state[r] = "BLOCKED", at2[r] = t
        PROVE  \E i \in 1 .. Len(queueOf(k, t)) : queueOf(k, t)[i] = r
    <3>1. at[r] = t
      BY <2>3, <2>4
    <3>. QED
      BY <2>1, <2>4, <3>1, Zenon DEF Exact
  <2>5. \A t \in ReadSems : IF queueOf(k, t) = <<>> THEN valueOf(k, t) >= 0
                             ELSE valueOf(k, t) = -Len(queueOf(k, t))
    BY <2>1, Zenon DEF Exact
  <2>. QED
    BY <2>2, <2>4, <2>5, Zenon DEF Exact
<1>. QED
  BY <1>3, <1>4, Zenon DEF at2

\* The tokens of the others are not touched when p leaves one of its semaphores.
LEMMA LeaveTokens ==
    ASSUME NEW k, NEW at \in [Procs -> Points], NEW p \in Procs, NEW x \in Points,
           NEW t, Token(k, at, t), at[p] # t
    PROVE  Token(k, [at EXCEPT ![p] = x], t)
  BY DEF Token

\* A call that returns without having held the write lock.
LEMMA LeaveCalm ==
    ASSUME NEW k, NEW at \in [Procs -> Points], NEW X, NEW lock, NEW exact,
           Calm(k, at, X, lock, exact), NEW p \in Procs, k.state[p] = "READY",
           NEW x \in Points \ SemNames, at[p] \notin {"writeMutex", "freeSpaces"}
    PROVE  Calm(k, [at EXCEPT ![p] = x], X, lock, exact)
<1> DEFINE at2 == [at EXCEPT ![p] = x]
<1>1. IsWaitState(k) /\ Waits(k, at, X) /\ (exact => Exact(k, at))
  BY DEF Calm
<1>2. Waits(k, at2, X) /\ (exact => Exact(k, at2))
  BY <1>1, LeaveKeeps
<1>3. ASSUME lock PROVE WriteLockInv(k, at2)
  <2>1. \A r \in Procs : at2[r] = IF r = p THEN x ELSE at[r]
    OBVIOUS
  <2> HIDE DEF at2
  <2>2. \A r \in Procs : r \in Locked(k, at2) <=> r \in Locked(k, at)
    BY <2>1 DEF Locked, SemNames
  <2>3. Locked(k, at2) = Locked(k, at)
    BY <2>2 DEF Locked
  <2>4. WriteLockInv(k, at)
    BY <1>3 DEF Calm
  <2>. QED
    BY <2>3, <2>4, Zenon DEF WriteLockInv
<1>4. lock => X = {}
  BY DEF Calm
<1> HIDE DEF at2
<1>5. Calm(k, at2, X, lock, exact)
  BY <1>1, <1>2, <1>3, <1>4 DEF Calm
<1>. QED
  BY <1>5 DEF at2

\* The holder of the write lock gives it up: it is free, or the one waiter that was
\* woken has it.
LEMMA UnlockCalm ==
    ASSUME NEW k, NEW at \in [Procs -> Points], NEW X, NEW lock, NEW exact,
           Calm(k, at, X, lock, exact), NEW p \in Procs, k.state[p] = "READY", at[p] = "freeSpaces"
    PROVE  Calm(Post(k, "writeMutex"), [at EXCEPT ![p] = "user"], X, lock, exact)
<1> DEFINE j == Post(k, "writeMutex")
           at2 == [at EXCEPT ![p] = "user"]
<1>0. "writeMutex" \in SemNames /\ "user" \in Points \ SemNames
  BY DEF SemNames, Points
<1>1. IsWaitState(k) /\ Waits(k, at, X) /\ (exact => Exact(k, at)) /\ (lock => X = {})
  BY DEF Calm
<1>2. /\ PostedOn(k, j, at, X, "writeMutex", exact)
      /\ \A r, t \in Procs : j.state[r] # k.state[r] /\ j.state[t] # k.state[t] => r = t
      /\ valueOf(k, "writeMutex") <= 0 =>
            /\ valueOf(j, "writeMutex") <= 1
            /\ (\E r \in Procs : j.state[r] # k.state[r]) => valueOf(j, "writeMutex") <= 0
  BY <1>0, <1>1, PostKeeps
<1> HIDE DEF j
<1>3. /\ IsWaitState(j) /\ Waits(j, at, X) /\ (exact => Exact(j, at))
      /\ \A r \in Procs : j.state[r] # k.state[r] =>
            k.state[r] = "BLOCKED" /\ j.state[r] = "READY" /\ (r \notin X => at[r] = "writeMutex")
  BY <1>2 DEF PostedOn
<1>4. j.state[p] = "READY"
  BY <1>3
<1>5. Waits(j, at2, X) /\ (exact => Exact(j, at2))
  BY <1>0, <1>3, <1>4, LeaveKeeps
<1>6. ASSUME lock PROVE WriteLockInv(j, at2)
  <2>0. \A r \in Procs : at2[r] = IF r = p THEN "user" ELSE at[r]
    OBVIOUS
  <2> HIDE DEF at2
  <2>1. WriteLockInv(k, at) /\ X = {}
    BY <1>6 DEF Calm
  <2>2. p \in Locked(k, at)
    BY DEF Locked
  <2>3. valueOf(k, "writeMutex") <= 0 /\ \A r \in Locked(k, at) : r = p
    BY <2>1, <2>2, Zenon DEF WriteLockInv
  <2>4. \A r \in Locked(j, at2) : r \in Procs /\ j.state[r] # k.state[r]
    <3> SUFFICES ASSUME NEW r \in Locked(j, at2) PROVE r \in Procs /\ j.state[r] # k.state[r]
      OBVIOUS
    <3>1. r \in Procs /\ (at2[r] = "freeSpaces" \/ (at2[r] = "writeMutex" /\ j.state[r] = "READY"))
      BY DEF Locked
    <3>2. r # p /\ at2[r] = at[r]
      BY <2>0, <3>1
    <3>3. r \notin Locked(k, at)
      BY <2>3, <3>2
    <3>. QED
      BY <3>1, <3>2, <3>3 DEF Locked
  <2>5. \A r, t \in Locked(j, at2) : r = t
    BY <1>2, <2>4, Zenon
  <2>6. valueOf(j, "writeMutex") <= 1
        /\ (Locked(j, at2) # {} => valueOf(j, "writeMutex") <= 0)
    <3>1. Locked(j, at2) # {} => \E r \in Procs : j.state[r] # k.state[r]
      BY <2>4, Zenon
    <3>. QED
      BY <1>2, <2>3, <3>1, Zenon
  <2>. QED
    BY <2>5, <2>6, Zenon DEF WriteLockInv
<1> HIDE DEF at2
<1>7. Calm(j, at2, X, lock, exact)
  BY <1>1, <1>3, <1>5, <1>6 DEF Calm
<1>. QED
  BY <1>7 DEF j, at2

\* p waits for s: a reader's wait does not touch the write lock, a writer takes it or
\* queues for it, its holder keeps it while it waits for space.
LEMMA WaitCalm ==
    ASSUME NEW k, NEW at \in [Procs -> Points], NEW X, NEW lock \in BOOLEAN, NEW exact \in BOOLEAN,
           Calm(k, at, X, lock, exact), NEW s \in SemNames,
           NEW p \in Procs, k.state[p] = "READY", p \in X => s \notin ReadSems,
           (s = "freeSpaces") <=> (at[p] \in {"writeMutex", "freeSpaces"})
    PROVE  Calm(WaitOn(k, p, s), [at EXCEPT ![p] = s], X, lock, exact)
<1> DEFINE j == WaitOn(k, p, s)
           at2 == [at EXCEPT ![p] = s]
<1>1. IsWaitState(k) /\ Waits(k, at, X) /\ (exact => Exact(k, at)) /\ (lock => X = {})
  BY DEF Calm
<1>2. Waits(j, at2, X) /\ (exact => Exact(j, at2))
  BY <1>1, WaitKeeps
<1>3. /\ IsWaitState(j)
      /\ \A t \in SemNames : t # s => j.sem[t] = k.sem[t]
      /\ valueOf(j, s) = valueOf(k, s) - 1
      /\ valueOf(k, s) >= 1 => j.state = k.state
      /\ ~(valueOf(k, s) >= 1) => j.state[p] = "BLOCKED"
      /\ \A r \in Procs : r # p => j.state[r] = k.state[r]
  <2>1. LET w == WaitOn(k, p, s) IN
           /\ IsWaitState(w)
           /\ \A t \in SemNames : t # s => w.sem[t] = k.sem[t]
           /\ valueOf(w, s) = valueOf(k, s) - 1
           /\ IF valueOf(k, s) >= 1
              THEN queueOf(w, s) = queueOf(k, s) /\ w.state = k.state
              ELSE /\ queueOf(w, s) = Append(queueOf(k, s), p)
                   /\ w.state[p] = "BLOCKED"
                   /\ \A r \in Procs : r # p => w.state[r] = k.state[r]
    BY <1>1, WaitFacts
  <2> HIDE DEF j
  <2>. QED
    BY <2>1, Zenon DEF j
<1>4. \A r \in Procs : at2[r] = IF r = p THEN s ELSE at[r]
  OBVIOUS
<1>5. valueOf(k, s) \in Int
  BY <1>1, WaitStateFacts, Zenon
<1> HIDE DEF j, at2
<1>6. ASSUME lock PROVE WriteLockInv(j, at2)
  <2>1. WriteLockInv(k, at)
    BY <1>6 DEF Calm
  <2>2. "writeMutex" \in SemNames
    BY DEF SemNames
  <2>3. \A r \in Procs : r # p => (r \in Locked(j, at2) <=> r \in Locked(k, at))
    BY <1>3, <1>4 DEF Locked
  <2>4. CASE s # "writeMutex"
    <3>1. valueOf(j, "writeMutex") = valueOf(k, "writeMutex")
      BY <1>3, <2>2, <2>4, Zenon DEF valueOf
    <3>2. p \in Locked(j, at2) <=> p \in Locked(k, at)
      BY <1>4, <2>4 DEF Locked
    <3>3. Locked(j, at2) = Locked(k, at)
      BY <2>3, <3>2 DEF Locked
    <3>. QED
      BY <2>1, <3>1, <3>3, Zenon DEF WriteLockInv
  <2>5. CASE s = "writeMutex"
    <3>1. p \notin Locked(k, at)
      BY <2>5 DEF Locked
    <3>2. CASE valueOf(k, "writeMutex") >= 1
      <4>1. Locked(k, at) = {}
        BY <1>5, <2>1, <2>5, <3>2 DEF WriteLockInv
      <4>2. \A r \in Locked(j, at2) : r = p
        BY <2>3, <4>1 DEF Locked
      <4>3. valueOf(j, "writeMutex") <= 0
        BY <1>3, <1>5, <2>1, <2>5 DEF WriteLockInv
      <4>4. valueOf(j, "writeMutex") \in Int
        BY <1>3, <1>5, <2>5
      <4>5. valueOf(j, "writeMutex") <= 1
        BY <4>3, <4>4
      <4>. QED
        BY <4>2, <4>3, <4>5, Zenon DEF WriteLockInv
    <3>3. CASE ~(valueOf(k, "writeMutex") >= 1)
      <4>1. p \notin Locked(j, at2)
        BY <1>3, <1>4, <2>5, <3>3 DEF Locked
      <4>2. Locked(j, at2) = Locked(k, at)
        BY <2>3, <3>1, <4>1 DEF Locked
      <4>3. valueOf(j, "writeMutex") <= 0 /\ valueOf(j, "writeMutex") <= 1
        BY <1>3, <1>5, <2>5, <3>3
      <4>. QED
        BY <2>1, <4>2, <4>3, Zenon DEF WriteLockInv
    <3>. QED
      BY <3>2, <3>3, Zenon
  <2>. QED
    BY <2>4, <2>5, Zenon
<1>7. Calm(j, at2, X, lock, exact)
  BY <1>1, <1>2, <1>3, <1>6 DEF Calm
<1>. QED
  BY <1>7 DEF j, at2

\* A token of s that p does not hold.
Spare(k, at, s, p) ==
    valueOf(k, s) >= 1 \/ \E r \in Procs : r # p /\ at[r] = s /\ k.state[r] = "READY"

\* A token outside p's hands stays one when p goes on or waits, even for that token;
\* the token of a post is outside the hands of whoever was READY before it.
LEMMA SpareStays ==
    ASSUME NEW k, IsWaitState(k), NEW at \in [Procs -> Points], NEW p \in Procs,
           k.state[p] = "READY", NEW t \in SemNames, Spare(k, at, t, p)
    PROVE  /\ \A x \in Points : Token(k, [at EXCEPT ![p] = x], t)
           /\ \A s \in SemNames : Token(WaitOn(k, p, s), [at EXCEPT ![p] = s], t)
<1>1. \A x \in Points : Token(k, [at EXCEPT ![p] = x], t)
  BY DEF Spare, Token
<1>2. ASSUME NEW s \in SemNames PROVE Token(WaitOn(k, p, s), [at EXCEPT ![p] = s], t)
  <2> DEFINE j == WaitOn(k, p, s)
             at2 == [at EXCEPT ![p] = s]
  <2>1. /\ \A r \in SemNames : r # s => j.sem[r] = k.sem[r]
        /\ valueOf(k, s) >= 1 => j.state = k.state
        /\ \A r \in Procs : r # p => j.state[r] = k.state[r]
    <3>1. LET w == WaitOn(k, p, s) IN
             /\ IsWaitState(w)
             /\ \A r \in SemNames : r # s => w.sem[r] = k.sem[r]
             /\ valueOf(w, s) = valueOf(k, s) - 1
             /\ IF valueOf(k, s) >= 1
                THEN queueOf(w, s) = queueOf(k, s) /\ w.state = k.state
                ELSE /\ queueOf(w, s) = Append(queueOf(k, s), p)
                     /\ w.state[p] = "BLOCKED"
                     /\ \A r \in Procs : r # p => w.state[r] = k.state[r]
      BY WaitFacts
    <3> HIDE DEF j
    <3>. QED
      BY <3>1, Zenon DEF j
  <2>2. \A r \in Procs : at2[r] = IF r = p THEN s ELSE at[r]
    OBVIOUS
  <2> HIDE DEF j, at2
  <2>3. Token(j, at2, t)
    <3>1. CASE \E r \in Procs : r # p /\ at[r] = t /\ k.state[r] = "READY"
      BY <2>1, <2>2, <3>1 DEF Token
    <3>2. CASE valueOf(k, t) >= 1 /\ t = s
      BY <2>1, <2>2, <3>2 DEF Token
    <3>3. CASE valueOf(k, t) >= 1 /\ t # s
      <4>1. valueOf(j, t) = valueOf(k, t)
        BY <2>1, <3>3, Zenon DEF valueOf
      <4>. QED
        BY <3>3, <4>1, Zenon DEF Token
    <3>. QED
      BY <3>1, <3>2, <3>3, Zenon DEF Spare
  <2>. QED
    BY <2>3 DEF j, at2
<1>. QED
  BY <1>1, <1>2, Zenon

\* Tokens that are not p's.
LEMMA SpareFacts ==
    ASSUME NEW k, NEW j, NEW at, NEW p \in Procs, NEW t
    PROVE  /\ Token(k, at, t) /\ at[p] # t => Spare(k, at, t, p)
           /\ FreshToken(k, j, at, t) /\ k.state[p] = "READY" => Spare(j, at, t, p)
           /\ FreshToken(k, j, at, t) => Token(j, at, t)
  BY DEF Token, FreshToken, Spare

-----------------------------------------------------------------------------
(* The steps of the pipe *)

\* What p leaves to the other readers in k, on its way to x: readMutex, and the token
\* of the bytes in cb.
Left(k, p, x, cb) ==
    /\ Spare(k, pc, "readMutex", p)
    /\ bufferHasData(cb) => \/ x = "readMutex"
                             \/ Spare(k, pc, "dataAvailable", p)
                             \/ \E r \in Procs : r # p /\ pc[r] = "readMutex"

\* A step that ends in a wait for s.
LEMMA GoWaitStep ==
    ASSUME StreamInv, NEW p \in Procs, NEW k, NEW s \in SemNames, GoWait(k, p, s),
           Calm(k, pc, Stray, ~Keyboard, NoKill), k.state[p] = "READY",
           p \in Stray => s \notin ReadSems,
           (s = "freeSpaces") <=> (pc[p] \in {"writeMutex", "freeSpaces"}),
           NoKill => Left(k, p, s, buffer')
    PROVE  /\ setup' = setup /\ pc' = [pc EXCEPT ![p] = s]
           /\ \A r \in Procs : r # p => state'[r] = k.state[r]
           /\ Calm(Now', pc', Stray, ~Keyboard, NoKill)
           /\ NoKill => ReadTokenInv(Now', pc', buffer')
<1> DEFINE j == WaitOn(k, p, s)
           at2 == [pc EXCEPT ![p] = s]
<1>0. pc \in [Procs -> Points] /\ IsWaitState(k) /\ s \in Points
      /\ (~Keyboard) \in BOOLEAN /\ NoKill \in BOOLEAN
  BY DEF StreamInv, Calm, Points, NoKill
<1>1. setup' = setup /\ pc' = at2 /\ sem' = j.sem /\ state' = j.state
  BY Zenon DEF GoWait
<1>2. /\ IsWaitState(j) /\ \A r \in Procs : r # p => j.state[r] = k.state[r]
  <2>1. LET w == WaitOn(k, p, s) IN
           /\ IsWaitState(w)
           /\ \A t \in SemNames : t # s => w.sem[t] = k.sem[t]
           /\ valueOf(w, s) = valueOf(k, s) - 1
           /\ IF valueOf(k, s) >= 1
              THEN queueOf(w, s) = queueOf(k, s) /\ w.state = k.state
              ELSE /\ queueOf(w, s) = Append(queueOf(k, s), p)
                   /\ w.state[p] = "BLOCKED"
                   /\ \A r \in Procs : r # p => w.state[r] = k.state[r]
    BY <1>0, WaitFacts
  <2> HIDE DEF j
  <2>. QED
    BY <2>1, Zenon DEF j
<1>3. Now' = j
  BY <1>1, <1>2, Zenon DEF Now, IsWaitState
<1>4. Calm(j, at2, Stray, ~Keyboard, NoKill)
  BY <1>0, WaitCalm
<1>5. ASSUME NoKill PROVE ReadTokenInv(j, at2, buffer')
  <2>1. Left(k, p, s, buffer')
    BY <1>5
  <2>2. "readMutex" \in SemNames /\ "dataAvailable" \in SemNames
    BY DEF SemNames
  <2>3. Token(j, at2, "readMutex")
    BY <1>0, <2>1, <2>2, SpareStays, Zenon DEF Left
  <2>4. Spare(k, pc, "dataAvailable", p) => Token(j, at2, "dataAvailable")
    BY <1>0, <2>2, SpareStays, Zenon
  <2>5. s = "readMutex" \/ (\E r \in Procs : r # p /\ pc[r] = "readMutex") =>
           \E r \in Procs : at2[r] = "readMutex"
    BY <1>0
  <2> HIDE DEF j, at2
  <2>. QED
    BY <2>1, <2>3, <2>4, <2>5, Zenon DEF ReadTokenInv, Left
<1> HIDE DEF j, at2
<1>6. /\ \A r \in Procs : r # p => state'[r] = k.state[r]
      /\ Calm(Now', pc', Stray, ~Keyboard, NoKill)
      /\ NoKill => ReadTokenInv(Now', pc', buffer')
  BY <1>1, <1>2, <1>3, <1>4, <1>5, Zenon
<1>. QED
  BY <1>1, <1>6 DEF at2

\* A step that ends a call, the lock it held given up before.
LEMMA ReturnStep ==
    ASSUME StreamInv, NEW p \in Procs, NEW k, NEW r, Return(k, p, r), IsWaitState(k),
           Calm(k, [pc EXCEPT ![p] = "user"], Stray, ~Keyboard, NoKill), k.state[p] = "READY",
           NoKill => Left(k, p, "user", buffer')
    PROVE  /\ setup' = setup /\ pc' = [pc EXCEPT ![p] = "user"]
           /\ call' = [call EXCEPT ![p] = NoCall]
           /\ state' = k.state
           /\ Calm(Now', pc', Stray, ~Keyboard, NoKill)
           /\ NoKill => ReadTokenInv(Now', pc', buffer')
<1> DEFINE at2 == [pc EXCEPT ![p] = "user"]
<1>0. pc \in [Procs -> Points] /\ "user" \in Points
  BY DEF StreamInv, Points
<1>1. /\ setup' = setup /\ pc' = at2 /\ sem' = k.sem /\ state' = k.state
      /\ call' = [call EXCEPT ![p] = NoCall]
  BY Zenon DEF Return
<1>3. Now' = k
  BY <1>1, Zenon DEF Now, IsWaitState
<1>5. ASSUME NoKill PROVE ReadTokenInv(k, at2, buffer')
  <2>1. Left(k, p, "user", buffer')
    BY <1>5
  <2>2. "readMutex" \in SemNames /\ "dataAvailable" \in SemNames
    BY DEF SemNames
  <2>3. Token(k, at2, "readMutex")
    BY <1>0, <2>1, <2>2, SpareStays, Zenon DEF Left
  <2>4. Spare(k, pc, "dataAvailable", p) => Token(k, at2, "dataAvailable")
    BY <1>0, <2>2, SpareStays, Zenon
  <2>5. (\E q \in Procs : q # p /\ pc[q] = "readMutex") =>
           \E q \in Procs : at2[q] = "readMutex"
    BY <1>0
  <2>6. "user" # "readMutex"
    OBVIOUS
  <2> HIDE DEF at2
  <2>. QED
    BY <2>1, <2>3, <2>4, <2>5, <2>6, Zenon DEF ReadTokenInv, Left
<1>6. /\ Calm(Now', pc', Stray, ~Keyboard, NoKill)
      /\ NoKill => ReadTokenInv(Now', pc', buffer')
  BY <1>1, <1>3, <1>5, Zenon
<1>. QED
  BY <1>1, <1>6

\* The parts of the invariant put together again.
LEMMA Together ==
    ASSUME setup' = setup, Calm(Now', pc', Stray, ~Keyboard, NoKill),
           NoKill => ReadTokenInv(Now', pc', buffer'), CallInv'
    PROVE  WaitInv'
<1>1. Stray' = Stray /\ Keyboard' = Keyboard /\ NoKill' = NoKill
  BY DEF Stray, Keyboard, NoKill, Env
<1>. QED
  BY <1>1, Zenon DEF WaitInv

\* What a step of p may do to idle, to the calls and to the write ends.
LEMMA CallStep ==
    ASSUME StreamInv, CallInv, NEW p \in Procs, NEW x \in Points, setup' = setup,
           pc' = [pc EXCEPT ![p] = x], writeEnds' \subseteq writeEnds,
           \A r \in Procs : r # p => call'[r] = call[r],
           call'[p].n > 0 => x = "freeSpaces",
           Keyboard => call'[p].n = 0 /\ Len(call'[p].buf) <= 1,
           p = Idle => Keyboard /\ x \notin ReadSems \cup {"elsewhere"},
           p # Idle /\ state[Idle] = "READY" => state'[Idle] = "READY"
    PROVE  CallInv'
<1>0. pc \in [Procs -> Points] /\ Idle \in Procs
  BY DEF StreamInv, Procs
<1>1. Keyboard' = Keyboard /\ Writers' = Writers
  BY DEF Keyboard, Writers
<1>2. \A r \in Procs : pc'[r] = IF r = p THEN x ELSE pc[r]
  BY <1>0
<1>3. pc'[Idle] \notin ReadSems \cup {"elsewhere"}
  BY <1>0, <1>2 DEF CallInv
<1>4. ~Keyboard => pc'[Idle] = "user" /\ state'[Idle] = "READY"
  BY <1>0, <1>2 DEF CallInv
<1>5. writeEnds' \subseteq Writers \cup {Driver}
  BY DEF CallInv
<1>6. \A r \in Procs : call'[r].n > 0 => pc'[r] = "freeSpaces"
  BY <1>2 DEF CallInv
<1>7. Keyboard => \A r \in Procs : call'[r].n = 0 /\ Len(call'[r].buf) <= 1
  BY DEF CallInv
<1>. QED
  BY <1>1, <1>3, <1>4, <1>5, <1>6, <1>7, Zenon DEF CallInv

\* The calls a step may note.
LEMMA NotedCalls ==
    /\ NoCall.n = 0 /\ Len(NoCall.buf) = 0
    /\ \A n : [NoCall EXCEPT !.count = n].n = 0 /\ Len([NoCall EXCEPT !.count = n].buf) = 0
    /\ \A m : [NoCall EXCEPT !.buf = m].n = 0 /\ [NoCall EXCEPT !.buf = m].buf = m
  BY DEF NoCall

\* What is true of the process that takes a step.
LEMMA StepFacts ==
    ASSUME StreamInv, WaitInv, NEW p \in Procs, CanRun(p)
    PROVE  /\ Now.state[p] = "READY" /\ Now.state = state /\ IsWaitState(Now)
           /\ Calm(Now, pc, Stray, ~Keyboard, NoKill)
           /\ (~Keyboard) \in BOOLEAN /\ NoKill \in BOOLEAN
           /\ pc \in [Procs -> Points]
           /\ p \in Stray => p = Idle /\ Keyboard
           /\ p = Idle => pc[p] \notin ReadSems \cup {"elsewhere"}
           /\ p = Idle /\ pc[p] # "user" => Keyboard
           /\ CallInv
<1>1. Calm(Now, pc, Stray, ~Keyboard, NoKill) /\ CallInv
  BY Zenon DEF WaitInv
<1>2. IsWaitState(Now)
  BY <1>1, Zenon DEF Calm
<1>3. Now.state = state /\ state[p] = "READY"
  BY DEF Now, CanRun
<1>4. pc \in [Procs -> Points]
  BY DEF StreamInv
<1>5. (~Keyboard) \in BOOLEAN /\ NoKill \in BOOLEAN
  BY DEF NoKill
<1>6. p \in Stray => p = Idle /\ Keyboard
  BY DEF Stray
<1>7. /\ p = Idle => pc[p] \notin ReadSems \cup {"elsewhere"}
      /\ p = Idle /\ pc[p] # "user" => Keyboard
  BY <1>1 DEF CallInv
<1>. QED
  BY <1>1, <1>2, <1>3, <1>4, <1>5, <1>6, <1>7, Zenon

\* A reader lets the next one in: readMutex is outside its hands, and so is the token
\* of the bytes it leaves.
LEMMA ReadUnlock ==
    ASSUME NEW k, Calm(k, pc, Stray, ~Keyboard, NoKill), NEW p \in Procs, k.state[p] = "READY",
           pc[p] = "readMutex", NEW cb,
           NoKill /\ bufferHasData(cb) => Token(k, pc, "dataAvailable")
    PROVE  LET j == Post(k, "readMutex") IN
           /\ Calm(j, pc, Stray, ~Keyboard, NoKill)
           /\ \A r \in Procs : k.state[r] = "READY" => j.state[r] = "READY"
           /\ NoKill => \A x : Left(j, p, x, cb)
<1> DEFINE j == Post(k, "readMutex")
<1>0. /\ "readMutex" \in SemNames /\ "readMutex" # "writeMutex" /\ "readMutex" \in ReadSems
      /\ "dataAvailable" \in ReadSems /\ "dataAvailable" # "readMutex"
      /\ (~Keyboard) \in BOOLEAN /\ NoKill \in BOOLEAN
  BY DEF SemNames, ReadSems, NoKill
<1>1. /\ PostedOn(k, j, pc, Stray, "readMutex", NoKill)
      /\ NoKill => FreshToken(k, j, pc, "readMutex")
  BY <1>0, PostIsPosted
<1> HIDE DEF j
<1>2. /\ Calm(j, pc, Stray, ~Keyboard, NoKill)
      /\ \A r \in Procs : k.state[r] = "READY" => j.state[r] = "READY"
      /\ NoKill => \A t \in ReadSems : Token(k, pc, t) => Token(j, pc, t)
  BY <1>0, <1>1, PostedCalm
<1>3. ASSUME NoKill, NEW x PROVE Left(j, p, x, cb)
  <2>1. Spare(j, pc, "readMutex", p)
    BY <1>1, <1>3, SpareFacts, Zenon
  <2>2. bufferHasData(cb) => Spare(j, pc, "dataAvailable", p)
    BY <1>0, <1>2, <1>3, SpareFacts, Zenon
  <2>. QED
    BY <2>1, <2>2, Zenon DEF Left
<1>. QED
  BY <1>2, <1>3, Zenon DEF j

\* A reader that has taken n bytes and leaves cb gives back the places, passes the token
\* on if bytes are left, and lets the next reader in.
LEMMA ReadGivesBack ==
    ASSUME StreamInv, WaitInv, NEW p \in Procs, At(p, "readMutex"), NEW n \in Nat, NEW cb
    PROVE  LET j == Post(PassToken(drainBuffer(Now, n), cb), "readMutex") IN
           /\ Calm(j, pc, Stray, ~Keyboard, NoKill)
           /\ \A r \in Procs : state[r] = "READY" => j.state[r] = "READY"
           /\ NoKill => \A x : Left(j, p, x, cb)
<1> DEFINE k1 == Posts(Now, "freeSpaces", n)
           k2 == PassToken(k1, cb)
           j == Post(k2, "readMutex")
<1>0. /\ "freeSpaces" \in SemNames /\ "freeSpaces" # "writeMutex"
      /\ "dataAvailable" \in SemNames /\ "dataAvailable" # "writeMutex" /\ "dataAvailable" \in ReadSems
  BY DEF SemNames, ReadSems
<1>1. CanRun(p) /\ pc[p] = "readMutex"
  BY DEF At
<1>2. /\ Now.state[p] = "READY" /\ Now.state = state
      /\ Calm(Now, pc, Stray, ~Keyboard, NoKill)
      /\ (~Keyboard) \in BOOLEAN /\ NoKill \in BOOLEAN
  BY <1>1, StepFacts, Zenon
<1>3. PostedOn(Now, k1, pc, Stray, "freeSpaces", NoKill)
  BY <1>0, <1>2, PostIsPosted
<1> HIDE DEF k1
<1>4. /\ Calm(k1, pc, Stray, ~Keyboard, NoKill)
      /\ \A r \in Procs : Now.state[r] = "READY" => k1.state[r] = "READY"
  BY <1>0, <1>2, <1>3, PostedCalm
<1>5. /\ Calm(k2, pc, Stray, ~Keyboard, NoKill)
      /\ \A r \in Procs : k1.state[r] = "READY" => k2.state[r] = "READY"
      /\ NoKill /\ bufferHasData(cb) => Token(k2, pc, "dataAvailable")
  <2>1. CASE bufferHasData(cb)
    <3> DEFINE w == Post(k1, "dataAvailable")
    <3>1. k2 = w
      BY <2>1, Zenon DEF PassToken
    <3>2. PostedOn(k1, w, pc, Stray, "dataAvailable", NoKill)
          /\ (NoKill => FreshToken(k1, w, pc, "dataAvailable"))
      BY <1>0, <1>2, <1>4, PostIsPosted
    <3> HIDE DEF w, k2
    <3>3. /\ Calm(w, pc, Stray, ~Keyboard, NoKill)
          /\ \A r \in Procs : k1.state[r] = "READY" => w.state[r] = "READY"
      BY <1>0, <1>2, <1>4, <3>2, PostedCalm
    <3>4. NoKill => Token(w, pc, "dataAvailable")
      BY <3>2, SpareFacts, Zenon
    <3>. QED
      BY <3>1, <3>3, <3>4, Zenon
  <2>2. CASE ~bufferHasData(cb)
    <3>1. k2 = k1
      BY <2>2, Zenon DEF PassToken
    <3> HIDE DEF k2
    <3>. QED
      BY <1>4, <2>2, <3>1, Zenon
  <2>. QED
    BY <2>1, <2>2, Zenon
<1> HIDE DEF k2
<1>6. k2.state[p] = "READY"
  BY <1>2, <1>4, <1>5, Zenon
<1>7. /\ Calm(j, pc, Stray, ~Keyboard, NoKill)
      /\ \A r \in Procs : k2.state[r] = "READY" => j.state[r] = "READY"
      /\ NoKill => \A x : Left(j, p, x, cb)
  BY <1>1, <1>5, <1>6, ReadUnlock, Zenon
<1> HIDE DEF j
<1>8. /\ Calm(j, pc, Stray, ~Keyboard, NoKill)
      /\ \A r \in Procs : state[r] = "READY" => j.state[r] = "READY"
      /\ NoKill => \A x : Left(j, p, x, cb)
  BY <1>2, <1>4, <1>5, <1>7, Zenon
<1>. QED
  BY <1>8, Zenon DEF j, k2, k1, drainBuffer

\* A reader's call ends.
LEMMA ReadReturns ==
    ASSUME StreamInv, WaitInv, NEW p \in Procs, p # Idle, CanRun(p), NEW k, NEW r,
           Return(k, p, r), writeEnds' = writeEnds,
           pc[p] \notin {"writeMutex", "freeSpaces"},
           Calm(k, pc, Stray, ~Keyboard, NoKill),
           \A q \in Procs : state[q] = "READY" => k.state[q] = "READY",
           NoKill => Left(k, p, "user", buffer')
    PROVE  WaitInv'
<1>0. /\ state[p] = "READY" /\ pc \in [Procs -> Points] /\ CallInv
      /\ (~Keyboard) \in BOOLEAN /\ NoKill \in BOOLEAN
  BY StepFacts, Zenon DEF CanRun
<1>1. k.state[p] = "READY" /\ IsWaitState(k) /\ "user" \in Points \ SemNames /\ "user" \in Points
  BY <1>0 DEF Calm, Points, SemNames
<1>2. Calm(k, [pc EXCEPT ![p] = "user"], Stray, ~Keyboard, NoKill)
  BY <1>0, <1>1, LeaveCalm
<1>3. /\ setup' = setup /\ pc' = [pc EXCEPT ![p] = "user"]
      /\ call' = [call EXCEPT ![p] = NoCall]
      /\ state' = k.state
      /\ Calm(Now', pc', Stray, ~Keyboard, NoKill)
      /\ NoKill => ReadTokenInv(Now', pc', buffer')
  BY <1>1, <1>2, ReturnStep
<1>4. CallInv'
  <2>1. (\A q \in Procs : q # p => call'[q] = call[q]) /\ call'[p] = NoCall
    BY <1>3 DEF StreamInv
  <2>2. Idle \in Procs
    BY DEF Procs
  <2>3. call'[p].n = 0 /\ Len(call'[p].buf) <= 1 /\ ~(call'[p].n > 0)
    BY <2>1, NotedCalls
  <2>4. writeEnds' \subseteq writeEnds /\ (state[Idle] = "READY" => state'[Idle] = "READY")
    BY <1>3, <2>2
  <2>. QED
    BY <1>0, <1>1, <1>3, <2>1, <2>3, <2>4, CallStep, Zenon
<1>. QED
  BY <1>3, <1>4, Together, Zenon

\* A reader's step ends in a wait, its call noted.
LEMMA ReadWaits ==
    ASSUME StreamInv, WaitInv, NEW p \in Procs, p # Idle, CanRun(p), NEW k, NEW s \in ReadSems,
           GoWait(k, p, s), writeEnds' = writeEnds,
           pc[p] \notin {"writeMutex", "freeSpaces"},
           call' = call \/ \E n : call' = [call EXCEPT ![p] = [NoCall EXCEPT !.count = n]],
           Calm(k, pc, Stray, ~Keyboard, NoKill),
           \A q \in Procs : state[q] = "READY" => k.state[q] = "READY",
           NoKill => Left(k, p, s, buffer')
    PROVE  WaitInv'
<1>0. /\ state[p] = "READY" /\ pc \in [Procs -> Points] /\ CallInv
      /\ p \notin Stray
  BY StepFacts, Zenon DEF CanRun
<1>1. k.state[p] = "READY" /\ s \in SemNames /\ s \in Points /\ s # "freeSpaces"
  BY <1>0 DEF Calm, Points, SemNames, ReadSems
<1>3. /\ setup' = setup /\ pc' = [pc EXCEPT ![p] = s]
      /\ \A r \in Procs : r # p => state'[r] = k.state[r]
      /\ Calm(Now', pc', Stray, ~Keyboard, NoKill)
      /\ NoKill => ReadTokenInv(Now', pc', buffer')
  BY <1>0, <1>1, GoWaitStep
<1>4. CallInv'
  <2>1. /\ \A q \in Procs : q # p => call'[q] = call[q]
        /\ call'[p] = call[p] \/ \E n : call'[p] = [NoCall EXCEPT !.count = n]
    BY DEF StreamInv
  <2>2. Idle \in Procs
    BY DEF Procs
  <2>3. ~(call'[p].n > 0) /\ (Keyboard => call'[p].n = 0 /\ Len(call'[p].buf) <= 1)
    <3>1. CASE call'[p] = call[p]
      BY <1>0, <3>1 DEF CallInv
    <3>2. CASE \E n : call'[p] = [NoCall EXCEPT !.count = n]
      BY <3>2, NotedCalls
    <3>. QED
      BY <2>1, <3>1, <3>2
  <2>4. writeEnds' \subseteq writeEnds /\ (state[Idle] = "READY" => state'[Idle] = "READY")
    BY <1>3, <2>2
  <2>. QED
    BY <1>0, <1>1, <1>3, <2>1, <2>3, <2>4, CallStep, Zenon
<1>. QED
  BY <1>3, <1>4, Together, Zenon

\* A call of pipeRead, the first or one after a Ctrl+D of others.
LEMMA StartReadWaits ==
    ASSUME StreamInv, WaitInv, NEW p \in Procs, p # Idle, CanRun(p), NEW k, NEW n,
           StartRead(k, p, buffer', n), writeEnds' = writeEnds,
           pc[p] \notin {"writeMutex", "freeSpaces"},
           Calm(k, pc, Stray, ~Keyboard, NoKill),
           \A q \in Procs : state[q] = "READY" => k.state[q] = "READY",
           NoKill => Left(k, p, "user", buffer') /\ Left(k, p, "dataAvailable", buffer')
    PROVE  WaitInv'
<1>1. CASE Return(k, p, "eof")
  BY <1>1, ReadReturns
<1>2. CASE /\ GoWait(k, p, "dataAvailable")
           /\ call' = [call EXCEPT ![p] = [NoCall EXCEPT !.count = n]]
  <2>1. "dataAvailable" \in ReadSems
    BY DEF ReadSems
  <2>. QED
    BY <1>2, <2>1, ReadWaits
<1>. QED
  BY <1>1, <1>2, Zenon DEF StartRead

\* The readers' steps keep the invariant.
LEMMA ReadersKeep ==
    ASSUME StreamInv, WaitInv, NEW p \in Procs,
           Read(p) \/ ReadLock(p) \/ ReadSome(p) \/ ReadNothing(p)
    PROVE  WaitInv'
<1>0. CanRun(p) /\ writeEnds' = writeEnds
  BY Zenon DEF Read, ReadLock, ReadSome, ReadNothing, InUserCode, At
<1>1. /\ Now.state[p] = "READY" /\ Now.state = state /\ IsWaitState(Now)
      /\ Calm(Now, pc, Stray, ~Keyboard, NoKill)
      /\ p = Idle => pc[p] \notin ReadSems
      /\ CallInv
  BY <1>0, StepFacts, Zenon
<1>2. /\ \A q \in Procs : state[q] = "READY" => Now.state[q] = "READY"
      /\ "readMutex" \in ReadSems /\ "dataAvailable" \in ReadSems
  BY <1>1 DEF ReadSems
<1>3. NoKill => ReadTokenInv(Now, pc, buffer)
  BY Zenon DEF WaitInv
<1>4. CASE Read(p)
  <2>1. pc[p] = "user" /\ buffer' = buffer /\ p # Idle /\ pc[p] \notin {"writeMutex", "freeSpaces"}
    BY <1>4, SetupFacts DEF Read, InUserCode, StreamInv
  <2>2. NoKill => Left(Now, p, "user", buffer') /\ Left(Now, p, "dataAvailable", buffer')
    <3>1. pc[p] # "readMutex" /\ pc[p] # "dataAvailable"
      BY <2>1
    <3>2. NoKill => /\ Spare(Now, pc, "readMutex", p)
                    /\ Token(Now, pc, "dataAvailable") => Spare(Now, pc, "dataAvailable", p)
      BY <1>3, <3>1, SpareFacts, Zenon DEF ReadTokenInv
    <3>3. \A q \in Procs : pc[q] = "readMutex" => q # p
      BY <3>1
    <3>. QED
      BY <1>3, <2>1, <3>2, <3>3, Zenon DEF Left, ReadTokenInv
  <2>3. CASE Return(Now, p, "ctrl_d")
    BY <1>0, <1>1, <1>2, <2>1, <2>2, <2>3, ReadReturns
  <2>4. ASSUME NEW n \in Counts, StartRead(Now, p, buffer, n) PROVE WaitInv'
    <3>1. StartRead(Now, p, buffer', n)
      BY <2>1, <2>4, Zenon
    <3>. QED
      BY <1>0, <1>1, <1>2, <2>1, <2>2, <3>1, StartReadWaits
  <2>. QED
    BY <1>4, <2>3, <2>4, Zenon DEF Read
<1>5. CASE ReadLock(p)
  <2>1. pc[p] = "dataAvailable" /\ buffer' = buffer /\ GoWait(Now, p, "readMutex") /\ call' = call
    BY <1>5, Zenon DEF ReadLock, At
  <2>2. p # Idle /\ pc[p] \notin {"writeMutex", "freeSpaces"}
    BY <1>1, <1>2, <2>1
  <2>3. NoKill => Left(Now, p, "readMutex", buffer')
    <3>1. pc[p] # "readMutex"
      BY <2>1
    <3>. QED
      BY <1>3, <3>1, SpareFacts, Zenon DEF Left, ReadTokenInv
  <2>. QED
    BY <1>0, <1>1, <1>2, <2>1, <2>2, <2>3, ReadWaits
<1>6. CASE ReadSome(p)
  <2> DEFINE n == IF call[p].count < buffer.count THEN call[p].count ELSE buffer.count
             cb == afterRead(buffer, n)
             k == Post(PassToken(drainBuffer(Now, n), cb), "readMutex")
  <2>1. At(p, "readMutex") /\ buffer' = cb /\ DropNULs(k, p, cb, bufferRead(buffer, n))
    BY <1>6, Zenon DEF ReadSome
  <2>2. n \in Nat
    BY BufferFields, SizeFacts DEF StreamInv
  <2>3. pc[p] = "readMutex" /\ p # Idle /\ pc[p] \notin {"writeMutex", "freeSpaces"}
    BY <1>1, <1>2, <2>1 DEF At
  <2> HIDE DEF n, cb
  <2>4. /\ Calm(k, pc, Stray, ~Keyboard, NoKill)
        /\ \A r \in Procs : state[r] = "READY" => k.state[r] = "READY"
        /\ NoKill => \A x : Left(k, p, x, cb)
    BY <2>1, <2>2, ReadGivesBack
  <2> HIDE DEF k
  <2>5. NoKill => Left(k, p, "user", buffer') /\ Left(k, p, "dataAvailable", buffer')
    BY <2>1, <2>4, Zenon
  <2>6. CASE Return(k, p, "data")
    BY <1>0, <2>3, <2>4, <2>5, <2>6, ReadReturns
  <2>7. CASE Return(k, p, "ctrl_d")
    BY <1>0, <2>3, <2>4, <2>5, <2>7, ReadReturns
  <2>8. CASE StartRead(k, p, cb, call[p].count)
    <3>1. StartRead(k, p, buffer', call[p].count)
      BY <2>1, <2>8, Zenon
    <3>. QED
      BY <1>0, <2>3, <2>4, <2>5, <3>1, StartReadWaits
  <2>. QED
    BY <2>1, <2>6, <2>7, <2>8, Zenon DEF DropNULs
<1>7. CASE ReadNothing(p)
  <2> DEFINE k == Post(Now, "readMutex")
  <2>1. /\ pc[p] = "readMutex" /\ buffer' = buffer /\ ~bufferHasData(buffer)
        /\ \/ Return(k, p, "eof")
           \/ GoWait(k, p, "dataAvailable") /\ call' = call
    BY <1>7, Zenon DEF ReadNothing, At
  <2>2. p # Idle /\ pc[p] \notin {"writeMutex", "freeSpaces"}
    BY <1>1, <1>2, <2>1
  <2>3. /\ Calm(k, pc, Stray, ~Keyboard, NoKill)
        /\ \A r \in Procs : Now.state[r] = "READY" => k.state[r] = "READY"
        /\ NoKill => \A x : Left(k, p, x, buffer)
    BY <1>1, <2>1, ReadUnlock, Zenon
  <2> HIDE DEF k
  <2>4. /\ NoKill => Left(k, p, "user", buffer') /\ Left(k, p, "dataAvailable", buffer')
        /\ \A r \in Procs : state[r] = "READY" => k.state[r] = "READY"
    BY <1>1, <2>1, <2>3, Zenon
  <2>5. CASE Return(k, p, "eof")
    BY <1>0, <2>2, <2>3, <2>4, <2>5, ReadReturns
  <2>6. CASE GoWait(k, p, "dataAvailable") /\ call' = call
    BY <1>0, <1>2, <2>2, <2>3, <2>4, <2>6, ReadWaits
  <2>. QED
    BY <2>1, <2>5, <2>6, Zenon
<1>. QED
  BY <1>4, <1>5, <1>6, <1>7, Zenon

\* Whoever is not between a reader's two waits leaves the readers' tokens alone.
LEMMA TokensLeft ==
    ASSUME NEW k, NEW cb, ReadTokenInv(k, pc, cb), NEW p \in Procs, pc[p] \notin ReadSems
    PROVE  \A x : Left(k, p, x, cb)
<1>1. pc[p] # "readMutex" /\ pc[p] # "dataAvailable"
  BY DEF ReadSems
<1>2. /\ Spare(k, pc, "readMutex", p)
      /\ Token(k, pc, "dataAvailable") => Spare(k, pc, "dataAvailable", p)
  BY <1>1, SpareFacts, Zenon DEF ReadTokenInv
<1>3. \A q \in Procs : pc[q] = "readMutex" => q # p
  BY <1>1
<1>. QED
  BY <1>2, <1>3, Zenon DEF Left, ReadTokenInv

\* A writer waits, its call noted.
LEMMA WriteWaits ==
    ASSUME StreamInv, WaitInv, NEW p \in Procs, CanRun(p), NEW k, NEW s \in {"writeMutex", "freeSpaces"},
           GoWait(k, p, s), writeEnds' = writeEnds,
           pc[p] \notin ReadSems, p = Idle => Keyboard,
           (s = "freeSpaces") <=> (pc[p] \in {"writeMutex", "freeSpaces"}),
           \A q \in Procs : q # p => call'[q] = call[q],
           s = "writeMutex" => call'[p].n = 0,
           Keyboard => call'[p].n = 0 /\ Len(call'[p].buf) <= 1,
           Calm(k, pc, Stray, ~Keyboard, NoKill),
           \A q \in Procs : state[q] = "READY" => k.state[q] = "READY",
           NoKill => ReadTokenInv(k, pc, buffer')
    PROVE  WaitInv'
<1>0. /\ state[p] = "READY" /\ pc \in [Procs -> Points] /\ CallInv
  BY StepFacts, Zenon DEF CanRun
<1>1. k.state[p] = "READY" /\ s \in SemNames /\ s \in Points /\ s \notin ReadSems \cup {"elsewhere"}
  BY <1>0 DEF Points, SemNames, ReadSems
<1>2. NoKill => Left(k, p, s, buffer')
  BY TokensLeft, Zenon
<1>3. /\ setup' = setup /\ pc' = [pc EXCEPT ![p] = s]
      /\ \A r \in Procs : r # p => state'[r] = k.state[r]
      /\ Calm(Now', pc', Stray, ~Keyboard, NoKill)
      /\ NoKill => ReadTokenInv(Now', pc', buffer')
  BY <1>0, <1>1, <1>2, GoWaitStep
<1>4. CallInv'
  <2>1. Idle \in Procs
    BY DEF Procs
  <2>2. call'[p].n > 0 => s = "freeSpaces"
    OBVIOUS
  <2>3. writeEnds' \subseteq writeEnds /\ (p # Idle /\ state[Idle] = "READY" => state'[Idle] = "READY")
    BY <1>3, <2>1
  <2>. QED
    BY <1>0, <1>1, <1>3, <2>2, <2>3, CallStep, Zenon
<1>. QED
  BY <1>3, <1>4, Together, Zenon

\* A write begins: by a process that holds a write end, or in the name of the process
\* the keyboard's handler interrupted.
LEMMA WritesBegin ==
    ASSUME StreamInv, WaitInv, NEW p \in Procs, Write(p) \/ KeyPress(p) \/ CtrlD(p)
    PROVE  WaitInv'
<1>0. setup \in Setups /\ CallInv
  BY Zenon DEF StreamInv, WaitInv
<1>1. CanRun(p) /\ pc[p] = "user"
  BY Zenon DEF Write, KeyPress, CtrlD, Interrupted, InUserCode
<1>2. PICK m : StartWrite(p, m) /\ (Keyboard => Len(m) <= 1) /\ (p = Idle => Keyboard)
  <2>1. CASE Write(p)
    <3>1. p \in Writers
      <4>1. p \in Writers \cup {Driver}
        BY <1>0, <2>1, Zenon DEF CallInv, Write
      <4>2. Driver \notin Procs
        BY PipeAssumption DEF Procs, IsSetup
      <4>. QED
        BY <4>1, <4>2
    <3>2. ~Keyboard /\ p # Idle
      BY <1>0, <3>1, SetupFacts
    <3>3. \E m : StartWrite(p, m)
      BY <2>1, Zenon DEF Write
    <3>. QED
      BY <3>2, <3>3, Zenon
  <2>2. CASE KeyPress(p)
    <3>1. PICK m : Len(m) = 1 /\ StartWrite(p, m)
      BY <2>2, Zenon DEF KeyPress
    <3>2. Keyboard /\ Len(m) <= 1
      BY <2>2, <3>1 DEF KeyPress, Interrupted
    <3>. QED
      BY <3>1, <3>2, Zenon
  <2>3. CASE CtrlD(p)
    <3>1. Keyboard /\ StartWrite(p, <<NUL>>)
      BY <2>3, Zenon DEF CtrlD, Interrupted
    <3>2. Len(<<NUL>>) <= 1
      OBVIOUS
    <3>. QED
      BY <3>1, <3>2, Zenon
  <2>. QED
    BY <2>1, <2>2, <2>3, Zenon
<1>3. /\ GoWait(Now, p, "writeMutex") /\ call' = [call EXCEPT ![p] = [NoCall EXCEPT !.buf = m]]
      /\ buffer' = buffer /\ writeEnds' = writeEnds
  BY <1>2, Zenon DEF StartWrite
<1>4. /\ \A q \in Procs : q # p => call'[q] = call[q]
      /\ call'[p] = [NoCall EXCEPT !.buf = m]
  BY <1>3 DEF StreamInv
<1>5. call'[p].n = 0 /\ (Keyboard => Len(call'[p].buf) <= 1)
  BY <1>2, <1>4, NotedCalls
<1>6. /\ Calm(Now, pc, Stray, ~Keyboard, NoKill)
      /\ \A q \in Procs : state[q] = "READY" => Now.state[q] = "READY"
      /\ NoKill => ReadTokenInv(Now, pc, buffer')
  <2>1. Now.state = state
    BY DEF Now
  <2>. QED
    BY <1>3, <2>1, Zenon DEF WaitInv
<1>7. "writeMutex" \in {"writeMutex", "freeSpaces"} /\ pc[p] \notin ReadSems
      /\ (("writeMutex" = "freeSpaces") <=> (pc[p] \in {"writeMutex", "freeSpaces"}))
  BY <1>1 DEF ReadSems
<1>. QED
  BY <1>1, <1>2, <1>3, <1>4, <1>5, <1>6, <1>7, WriteWaits

\* The holder of the write lock goes on to its first byte.
LEMMA WriteLockKeeps ==
    ASSUME StreamInv, WaitInv, NEW p \in Procs, WriteLock(p)
    PROVE  WaitInv'
<1>1. /\ CanRun(p) /\ pc[p] = "writeMutex" /\ GoWait(Now, p, "freeSpaces")
      /\ call' = call /\ buffer' = buffer /\ writeEnds' = writeEnds
  BY Zenon DEF WriteLock, At
<1>2. /\ Calm(Now, pc, Stray, ~Keyboard, NoKill)
      /\ \A q \in Procs : state[q] = "READY" => Now.state[q] = "READY"
      /\ NoKill => ReadTokenInv(Now, pc, buffer')
      /\ CallInv
  <2>1. Now.state = state
    BY DEF Now
  <2>. QED
    BY <1>1, <2>1, Zenon DEF WaitInv
<1>3. p = Idle => Keyboard
  BY <1>1, <1>2 DEF CallInv
<1>4. Keyboard => call'[p].n = 0 /\ Len(call'[p].buf) <= 1
  BY <1>1, <1>2 DEF CallInv
<1>5. "freeSpaces" \in {"writeMutex", "freeSpaces"} /\ pc[p] \notin ReadSems
      /\ pc[p] \in {"writeMutex", "freeSpaces"} /\ "freeSpaces" # "writeMutex"
  BY <1>1 DEF ReadSems
<1>. QED
  BY <1>1, <1>2, <1>3, <1>4, <1>5, WriteWaits

\* Announce tells the readers of the first byte.
LEMMA AnnounceCalm ==
    ASSUME StreamInv, WaitInv, NEW cb, NEW k,
           \/ k = Now /\ cb = buffer
           \/ k = Announce(Now, buffer)
    PROVE  /\ Calm(k, pc, Stray, ~Keyboard, NoKill)
           /\ \A q \in Procs : state[q] = "READY" => k.state[q] = "READY"
           /\ NoKill => ReadTokenInv(k, pc, cb)
<1>0. /\ Calm(Now, pc, Stray, ~Keyboard, NoKill)
      /\ NoKill => ReadTokenInv(Now, pc, buffer)
  BY Zenon DEF WaitInv
<1>1. Now.state = state
  BY DEF Now
<1>2. CASE k = Now /\ (cb = buffer \/ bufferHasData(buffer))
  <2>1. NoKill => ReadTokenInv(Now, pc, cb)
    BY <1>0, <1>2, Zenon DEF ReadTokenInv
  <2>. QED
    BY <1>0, <1>1, <1>2, <2>1, Zenon
<1>3. CASE k = Post(Now, "dataAvailable")
  <2>1. /\ "dataAvailable" \in SemNames /\ "dataAvailable" # "writeMutex"
        /\ "dataAvailable" \in ReadSems /\ "readMutex" \in ReadSems
    BY DEF SemNames, ReadSems
  <2> DEFINE j == Post(Now, "dataAvailable")
  <2>2. PostedOn(Now, j, pc, Stray, "dataAvailable", NoKill)
        /\ (NoKill => FreshToken(Now, j, pc, "dataAvailable"))
    BY <1>0, <2>1, PostIsPosted
  <2> HIDE DEF j
  <2>3. /\ Calm(j, pc, Stray, ~Keyboard, NoKill)
        /\ \A r \in Procs : Now.state[r] = "READY" => j.state[r] = "READY"
        /\ NoKill => \A t \in ReadSems : Token(Now, pc, t) => Token(j, pc, t)
    BY <1>0, <2>1, <2>2, PostedCalm
  <2>4. NoKill => Token(j, pc, "dataAvailable")
    BY <2>2, Zenon DEF FreshToken, Token
  <2>5. NoKill => ReadTokenInv(j, pc, cb)
    BY <1>0, <2>1, <2>3, <2>4, Zenon DEF ReadTokenInv
  <2>6. k = j
    BY <1>3 DEF j
  <2>. QED
    BY <1>1, <2>3, <2>5, <2>6, Zenon
<1>. QED
  BY <1>2, <1>3, Zenon DEF Announce

\* A byte is written, or refused by a full buffer; the last one gives the lock back.
LEMMA WriteByteKeeps ==
    ASSUME StreamInv, WaitInv, NEW p \in Procs, WriteByte(p)
    PROVE  WaitInv'
<1> DEFINE full == bufferIsFull(buffer)
           n == IF full THEN call[p].n ELSE call[p].n + 1
           k == IF full THEN Now ELSE Announce(Now, buffer)
<1>1. /\ CanRun(p) /\ pc[p] = "freeSpaces" /\ writeEnds' = writeEnds
      /\ buffer' = bufferWrite(buffer, call[p].buf[call[p].n + 1])
      /\ \/ n < Len(call[p].buf) /\ GoWait(k, p, "freeSpaces") /\ call' = [call EXCEPT ![p].n = n]
         \/ Return(Post(k, "writeMutex"), p, "done")
  BY Zenon DEF WriteByte, At
<1>2. (k = Now /\ buffer' = buffer) \/ k = Announce(Now, buffer)
  BY <1>1, Zenon DEF bufferWrite
<1>3. n \in Nat
  BY DEF StreamInv
<1> HIDE DEF n, k
<1>4. /\ Calm(k, pc, Stray, ~Keyboard, NoKill)
      /\ \A q \in Procs : state[q] = "READY" => k.state[q] = "READY"
      /\ NoKill => ReadTokenInv(k, pc, buffer')
  BY <1>2, AnnounceCalm
<1>5. CallInv /\ pc \in [Procs -> Points] /\ state[p] = "READY"
  BY <1>1, StepFacts, Zenon DEF CanRun
<1>6. (p = Idle => Keyboard) /\ pc[p] \notin ReadSems
  BY <1>1, <1>5 DEF CallInv, ReadSems
<1>7. CASE n < Len(call[p].buf) /\ GoWait(k, p, "freeSpaces") /\ call' = [call EXCEPT ![p].n = n]
  <2>1. /\ \A q \in Procs : q # p => call'[q] = call[q]
        /\ call'[p].n = n /\ call'[p].buf = call[p].buf
    BY <1>7 DEF StreamInv
  <2>2. Keyboard => call'[p].n = 0 /\ Len(call'[p].buf) <= 1
    <3>1. Len(call[p].buf) \in Nat
      BY DEF StreamInv
    <3>. QED
      BY <1>3, <1>5, <1>7, <2>1, <3>1 DEF CallInv
  <2>3. "freeSpaces" \in {"writeMutex", "freeSpaces"}
        /\ pc[p] \in {"writeMutex", "freeSpaces"} /\ "freeSpaces" # "writeMutex"
    BY <1>1
  <2>. QED
    BY <1>1, <1>4, <1>6, <1>7, <2>1, <2>2, <2>3, WriteWaits
<1>8. CASE Return(Post(k, "writeMutex"), p, "done")
  <2> DEFINE j == Post(k, "writeMutex")
  <2>0. k.state[p] = "READY" /\ "writeMutex" \in SemNames
        /\ "readMutex" \in ReadSems /\ "dataAvailable" \in ReadSems
    BY <1>4, <1>5 DEF SemNames, ReadSems
  <2>1. Calm(j, [pc EXCEPT ![p] = "user"], Stray, ~Keyboard, NoKill)
    BY <1>1, <1>4, <1>5, <2>0, UnlockCalm
  <2>2. PostedOn(k, j, pc, Stray, "writeMutex", NoKill)
    BY <1>4, <2>0, PostIsPosted
  <2>3. Return(j, p, "done")
    BY <1>8
  <2> HIDE DEF j
  <2>4. /\ \A q \in Procs : k.state[q] = "READY" => j.state[q] = "READY"
        /\ NoKill => \A t \in ReadSems : Token(k, pc, t) => Token(j, pc, t)
    BY <1>4, <2>0, <2>2, PostedCalm
  <2>5. NoKill => ReadTokenInv(j, pc, buffer')
    BY <1>4, <2>0, <2>4, Zenon DEF ReadTokenInv
  <2>6. NoKill => Left(j, p, "user", buffer')
    BY <1>6, <2>5, TokensLeft, Zenon
  <2>7. j.state[p] = "READY" /\ IsWaitState(j)
    BY <2>0, <2>1, <2>4, Zenon DEF Calm
  <2>8. /\ setup' = setup /\ pc' = [pc EXCEPT ![p] = "user"]
        /\ call' = [call EXCEPT ![p] = NoCall]
        /\ state' = j.state
        /\ Calm(Now', pc', Stray, ~Keyboard, NoKill)
        /\ NoKill => ReadTokenInv(Now', pc', buffer')
    BY <2>1, <2>3, <2>6, <2>7, ReturnStep
  <2>9. CallInv'
    <3>1. (\A q \in Procs : q # p => call'[q] = call[q]) /\ call'[p] = NoCall
      BY <2>8 DEF StreamInv
    <3>2. Idle \in Procs
      BY DEF Procs
    <3>3. call'[p].n = 0 /\ Len(call'[p].buf) <= 1 /\ ~(call'[p].n > 0)
      BY <3>1, NotedCalls
    <3>4. writeEnds' \subseteq writeEnds /\ (state[Idle] = "READY" => state'[Idle] = "READY")
      BY <1>1, <1>4, <2>4, <2>8, <3>2
    <3>5. "user" \in Points /\ "user" \notin ReadSems \cup {"elsewhere"}
      BY DEF Points, ReadSems
    <3>. QED
      BY <1>5, <1>6, <2>8, <3>1, <3>3, <3>4, <3>5, CallStep, Zenon
  <2>. QED
    BY <2>8, <2>9, Together, Zenon
<1>. QED
  BY <1>1, <1>7, <1>8, Zenon

-----------------------------------------------------------------------------
(* Closing, dying and the world outside the pipe *)

\* The end of the last writer wakes the readers, whoever it was.
LEMMA GoneCalm ==
    ASSUME StreamInv, WaitInv, NEW k, k = Now \/ k = LastWriterGone(Now)
    PROVE  /\ Calm(k, pc, Stray, ~Keyboard, NoKill)
           /\ \A q \in Procs : state[q] = "READY" => k.state[q] = "READY"
           /\ NoKill => ReadTokenInv(k, pc, buffer)
<1>0. /\ Calm(Now, pc, Stray, ~Keyboard, NoKill)
      /\ NoKill => ReadTokenInv(Now, pc, buffer)
  BY Zenon DEF WaitInv
<1>1. Now.state = state
  BY DEF Now
<1>2. CASE k = Now
  BY <1>0, <1>1, <1>2, Zenon
<1>3. CASE k = LastWriterGone(Now)
  <2>1. /\ "dataAvailable" \in SemNames /\ "dataAvailable" # "writeMutex"
        /\ "dataAvailable" \in ReadSems /\ "readMutex" \in ReadSems
    BY DEF SemNames, ReadSems
  <2> DEFINE j == Posts(Now, "dataAvailable", MAX_PROCESSES)
  <2>2. MAX_PROCESSES \in Nat
    BY PipeAssumption
  <2>3. PostedOn(Now, j, pc, Stray, "dataAvailable", NoKill)
    BY <1>0, <2>1, <2>2, PostIsPosted
  <2> HIDE DEF j
  <2>4. /\ Calm(j, pc, Stray, ~Keyboard, NoKill)
        /\ \A r \in Procs : Now.state[r] = "READY" => j.state[r] = "READY"
        /\ NoKill => \A t \in ReadSems : Token(Now, pc, t) => Token(j, pc, t)
    BY <1>0, <2>1, <2>3, PostedCalm
  <2>5. NoKill => ReadTokenInv(j, pc, buffer)
    BY <1>0, <2>1, <2>4, Zenon DEF ReadTokenInv
  <2>6. k = j
    BY <1>3 DEF j, LastWriterGone
  <2>. QED
    BY <1>1, <2>4, <2>5, <2>6, Zenon
<1>. QED
  BY <1>2, <1>3

\* A write end is closed.
LEMMA CloseKeeps ==
    ASSUME StreamInv, WaitInv, NEW p \in Procs, Close(p)
    PROVE  WaitInv'
<1> DEFINE k == IF writeEnds = {p} THEN LastWriterGone(Now) ELSE Now
<1>1. /\ setup' = setup /\ buffer' = buffer /\ pc' = pc /\ call' = call
      /\ writeEnds' = writeEnds \ {p} /\ sem' = k.sem /\ state' = k.state
  BY Zenon DEF Close, CloseWriteEnd
<1>2. k = Now \/ k = LastWriterGone(Now)
  BY Zenon
<1> HIDE DEF k
<1>3. /\ Calm(k, pc, Stray, ~Keyboard, NoKill)
      /\ \A q \in Procs : state[q] = "READY" => k.state[q] = "READY"
      /\ NoKill => ReadTokenInv(k, pc, buffer)
  BY <1>2, GoneCalm
<1>4. Now' = k
  BY <1>1, <1>3, Zenon DEF Now, IsWaitState, Calm
<1>5. CallInv'
  <2>1. Keyboard' = Keyboard /\ Writers' = Writers /\ Idle \in Procs
    BY <1>1 DEF Keyboard, Writers, Procs
  <2>2. CallInv
    BY Zenon DEF WaitInv
  <2>3. (state[Idle] = "READY" => state'[Idle] = "READY") /\ writeEnds' \subseteq Writers \cup {Driver}
    BY <1>1, <1>3, <2>1, <2>2 DEF CallInv
  <2>. QED
    BY <1>1, <2>1, <2>2, <2>3, Zenon DEF CallInv
<1>. QED
  BY <1>1, <1>3, <1>4, <1>5, Together, Zenon

\* A process dies where it is; what it was queued for keeps it in the queue.
LEMMA KillKeeps ==
    ASSUME StreamInv, WaitInv, NEW p \in Procs, Kill(p)
    PROVE  WaitInv'
<1> DEFINE k == IF writeEnds = {p} THEN LastWriterGone(Now) ELSE Now
           d == [sem |-> k.sem, state |-> [k.state EXCEPT ![p] = "ZOMBIE"]]
<1>1. /\ setup' = setup /\ buffer' = buffer /\ pc' = pc /\ call' = call
      /\ writeEnds' = writeEnds \ {p} /\ sem' = k.sem
      /\ state' = [k.state EXCEPT ![p] = "ZOMBIE"] /\ p # Idle /\ ~NoKill
  BY Zenon DEF Kill, NoKill
<1>2. k = Now \/ k = LastWriterGone(Now)
  BY Zenon
<1> HIDE DEF k
<1>3. /\ Calm(k, pc, Stray, ~Keyboard, NoKill)
      /\ \A q \in Procs : state[q] = "READY" => k.state[q] = "READY"
  BY <1>2, GoneCalm
<1>4. Now' = d
  BY <1>1, Zenon DEF Now
<1>5. IsWaitState(k) /\ Waits(k, pc, Stray)
  BY <1>3, Zenon DEF Calm
<1>6. IsWaitState(d)
  BY <1>5 DEF IsWaitState, States
<1>7. /\ d.sem = k.sem
      /\ \A r \in Procs : d.state[r] = IF r = p THEN "ZOMBIE" ELSE k.state[r]
  BY <1>5 DEF IsWaitState
<1> HIDE DEF d
<1>8. \A s : queueOf(d, s) = queueOf(k, s) /\ valueOf(d, s) = valueOf(k, s)
  BY <1>7, Zenon DEF queueOf, valueOf
<1>9. Waits(d, pc, Stray)
  <2>1. \A r \in Procs : k.state[r] # "READY" => d.state[r] # "READY"
    BY <1>7
  <2> SUFFICES ASSUME NEW s \in SemNames, NEW i \in 1 .. Len(queueOf(k, s))
               PROVE  LET q == queueOf(k, s) IN
                      /\ q[i] \in Stray => s \notin ReadSems
                      /\ q[i] \notin Stray =>
                           /\ pc[q[i]] = s /\ d.state[q[i]] # "READY"
                           /\ \A j \in 1 .. Len(q) : q[i] = q[j] => i = j
    BY <1>8, Zenon DEF Waits
  <2>2. queueOf(k, s)[i] \in Procs
    BY <1>5, WaitStateFacts, Zenon
  <2>. QED
    BY <1>5, <2>1, <2>2, Zenon DEF Waits
<1>10. ASSUME ~Keyboard PROVE Stray = {} /\ WriteLockInv(d, pc)
  <2>1. WriteLockInv(k, pc) /\ Stray = {}
    BY <1>3, <1>10, Zenon DEF Calm
  <2>2. \A r \in Locked(d, pc) : r \in Locked(k, pc)
    BY <1>7 DEF Locked
  <2>. QED
    BY <1>8, <2>1, <2>2, Zenon DEF WriteLockInv
<1>11. Calm(d, pc, Stray, ~Keyboard, NoKill)
  BY <1>1, <1>6, <1>9, <1>10, Zenon DEF Calm
<1>12. CallInv'
  <2>1. Keyboard' = Keyboard /\ Writers' = Writers /\ Idle \in Procs
    BY <1>1 DEF Keyboard, Writers, Procs
  <2>2. CallInv
    BY Zenon DEF WaitInv
  <2>3. state'[Idle] = k.state[Idle]
    BY <1>1, <1>5, <2>1 DEF IsWaitState
  <2>4. (state[Idle] = "READY" => state'[Idle] = "READY") /\ writeEnds' \subseteq Writers \cup {Driver}
    BY <1>1, <1>3, <2>1, <2>2, <2>3 DEF CallInv
  <2>. QED
    BY <1>1, <2>1, <2>2, <2>4, Zenon DEF CallInv
<1>. QED
  BY <1>1, <1>4, <1>11, <1>12, Together, Zenon

\* Outside the pipe p may block and come back.
LEMMA OutsideKeeps ==
    ASSUME StreamInv, WaitInv, NEW p \in Procs, p # Idle, pc[p] \notin SemNames,
           NEW x \in Points \ SemNames, NEW v \in {"READY", "BLOCKED"},
           setup' = setup, buffer' = buffer, sem' = sem, call' = call, writeEnds' = writeEnds,
           state' = [state EXCEPT ![p] = v], pc' = [pc EXCEPT ![p] = x]
    PROVE  WaitInv'
<1>0. /\ Calm(Now, pc, Stray, ~Keyboard, NoKill) /\ CallInv
      /\ NoKill => ReadTokenInv(Now, pc, buffer)
  BY Zenon DEF WaitInv
<1>1. IsWaitState(Now) /\ Waits(Now, pc, Stray) /\ pc \in [Procs -> Points]
  BY <1>0, Zenon DEF Calm, StreamInv
<1>2. /\ \A r \in Procs : pc'[r] = IF r = p THEN x ELSE pc[r]
      /\ \A r \in Procs : Now'.state[r] = IF r = p THEN v ELSE Now.state[r]
      /\ Now'.sem = Now.sem /\ Now'.state = state'
  BY <1>1 DEF IsWaitState, Now
<1>3. IsWaitState(Now')
  BY <1>1 DEF IsWaitState, Now, States
<1>4. p \notin Stray
  BY DEF Stray
<1> DEFINE d == Now'
           k == Now
           at2 == pc'
<1> HIDE DEF d, k, at2
<1>5. \A s : queueOf(d, s) = queueOf(k, s) /\ valueOf(d, s) = valueOf(k, s)
  BY <1>2, Zenon DEF queueOf, valueOf, d, k
<1>6. \A s \in SemNames : \A i \in 1 .. Len(queueOf(k, s)) :
         queueOf(k, s)[i] \in Procs /\ queueOf(k, s)[i] # p
  <2> SUFFICES ASSUME NEW s \in SemNames, NEW i \in 1 .. Len(queueOf(k, s))
               PROVE  queueOf(k, s)[i] \in Procs /\ queueOf(k, s)[i] # p
    OBVIOUS
  <2>1. queueOf(k, s)[i] \in Procs
    BY <1>1, WaitStateFacts, Zenon DEF k
  <2>2. queueOf(k, s)[i] \notin Stray => pc[queueOf(k, s)[i]] = s
    BY <1>1, Zenon DEF Waits, k
  <2>. QED
    BY <1>4, <2>1, <2>2
<1>7. \A r \in Procs : r # p => d.state[r] = k.state[r] /\ at2[r] = pc[r]
  BY <1>2 DEF d, k, at2
<1>8. Waits(d, at2, Stray)
  <2> SUFFICES ASSUME NEW s \in SemNames, NEW i \in 1 .. Len(queueOf(k, s))
               PROVE  LET q == queueOf(k, s) IN
                      /\ q[i] \in Stray => s \notin ReadSems
                      /\ q[i] \notin Stray =>
                           /\ at2[q[i]] = s /\ d.state[q[i]] # "READY"
                           /\ \A j \in 1 .. Len(q) : q[i] = q[j] => i = j
    BY <1>5, Zenon DEF Waits
  <2> DEFINE y == queueOf(k, s)[i]
  <2>1. /\ y \in Stray => s \notin ReadSems
        /\ y \notin Stray =>
             /\ pc[y] = s /\ k.state[y] # "READY"
             /\ \A j \in 1 .. Len(queueOf(k, s)) : y = queueOf(k, s)[j] => i = j
    BY <1>1, Zenon DEF Waits, k
  <2>2. d.state[y] = k.state[y] /\ at2[y] = pc[y]
    BY <1>6, <1>7, Zenon
  <2> HIDE DEF y
  <2>3. /\ y \in Stray => s \notin ReadSems
        /\ y \notin Stray =>
             /\ at2[y] = s /\ d.state[y] # "READY"
             /\ \A j \in 1 .. Len(queueOf(k, s)) : y = queueOf(k, s)[j] => i = j
    BY <2>1, <2>2
  <2>. QED
    BY <2>3 DEF y
<1>9. at2[p] = x /\ d.state[p] = v
  BY <1>2 DEF at2, d
<1>10. ASSUME ~Keyboard PROVE Stray = {} /\ WriteLockInv(d, at2)
  <2>1. WriteLockInv(k, pc) /\ Stray = {}
    BY <1>0, <1>10, Zenon DEF Calm, k
  <2>2. \A r \in Locked(d, at2) : r \in Locked(k, pc)
    BY <1>7, <1>9 DEF Locked, SemNames
  <2>. QED
    BY <1>5, <2>1, <2>2, Zenon DEF WriteLockInv
<1>11. ASSUME NoKill PROVE Exact(d, at2) /\ ReadTokenInv(d, at2, buffer')
  <2>1. Exact(k, pc) /\ ReadTokenInv(k, pc, buffer)
    BY <1>0, <1>11, Zenon DEF Calm, k
  <2>2. ASSUME NEW s \in ReadSems, NEW r \in Procs, d.state[r] = "BLOCKED", at2[r] = s
        PROVE  \E i \in 1 .. Len(queueOf(k, s)) : queueOf(k, s)[i] = r
    <3>1. r # p
      BY <1>9, <2>2 DEF SemNames, ReadSems
    <3>2. k.state[r] = "BLOCKED" /\ pc[r] = s
      BY <1>7, <2>2, <3>1
    <3>. QED
      BY <2>1, <2>2, <3>2, Zenon DEF Exact
  <2>3. \A r \in Procs : d.state[r] = "ZOMBIE" => at2[r] \notin SemNames
    <3>1. \A r \in Procs : k.state[r] = "ZOMBIE" => pc[r] \notin SemNames
      BY <2>1, Zenon DEF Exact
    <3>. QED
      BY <1>7, <1>9, <3>1
  <2>4. \A s \in ReadSems : IF queueOf(k, s) = <<>> THEN valueOf(k, s) >= 0
                            ELSE valueOf(k, s) = -Len(queueOf(k, s))
    BY <2>1, Zenon DEF Exact
  <2>5. Exact(d, at2)
    BY <1>5, <2>2, <2>3, <2>4, SMTT(30) DEF Exact
  <2>6. \A s \in ReadSems : Token(k, pc, s) => Token(d, at2, s)
    <3> SUFFICES ASSUME NEW s \in ReadSems, Token(k, pc, s) PROVE Token(d, at2, s)
      OBVIOUS
    <3>1. CASE valueOf(k, s) >= 1
      BY <1>5, <3>1, Zenon DEF Token
    <3>2. CASE \E r \in Procs : pc[r] = s /\ k.state[r] = "READY"
      <4>1. PICK r \in Procs : pc[r] = s /\ k.state[r] = "READY"
        BY <3>2
      <4>2. r # p
        BY <4>1 DEF SemNames, ReadSems
      <4>3. at2[r] = s /\ d.state[r] = "READY"
        BY <1>7, <4>1, <4>2
      <4>. QED
        BY <4>3, Zenon DEF Token
    <3>. QED
      BY <3>1, <3>2 DEF Token
  <2>7. (\E r \in Procs : pc[r] = "readMutex") => \E r \in Procs : at2[r] = "readMutex"
    <3>1. \A r \in Procs : pc[r] = "readMutex" => r # p
      BY DEF SemNames
    <3>. QED
      BY <1>7, <3>1
  <2>8. "readMutex" \in ReadSems /\ "dataAvailable" \in ReadSems
    BY DEF ReadSems
  <2>9. ReadTokenInv(d, at2, buffer)
    BY <2>1, <2>6, <2>7, <2>8, Zenon DEF ReadTokenInv
  <2>. QED
    BY <2>5, <2>9
<1>12. Calm(d, at2, Stray, ~Keyboard, NoKill)
  BY <1>3, <1>8, <1>10, <1>11, Zenon DEF Calm, d
<1>13. CallInv'
  <2>1. x \in Points /\ Idle \in Procs /\ (state[Idle] = "READY" => state'[Idle] = "READY")
    BY <1>1 DEF Procs, IsWaitState, Now
  <2>2. call[p].n > 0 => x = "freeSpaces"
    BY <1>0 DEF CallInv, SemNames
  <2>3. Keyboard => call[p].n = 0 /\ Len(call[p].buf) <= 1
    BY <1>0 DEF CallInv
  <2>4. writeEnds' \subseteq writeEnds
    OBVIOUS
  <2>. QED
    BY <1>0, <2>1, <2>2, <2>3, <2>4, CallStep, Zenon
<1>. QED
  BY <1>11, <1>12, <1>13, Together, Zenon DEF d, at2

\* Idle goes on without a token, on the keyboard's pipe only; it waits for nothing that
\* readers wait for.
LEMMA IdleKeeps ==
    ASSUME StreamInv, WaitInv, IdleGoesOn
    PROVE  WaitInv'
<1>0. /\ Calm(Now, pc, Stray, ~Keyboard, NoKill) /\ CallInv
      /\ NoKill => ReadTokenInv(Now, pc, buffer)
  BY Zenon DEF WaitInv
<1>1. /\ state[Idle] = "BLOCKED" /\ state' = [state EXCEPT ![Idle] = "READY"]
      /\ setup' = setup /\ buffer' = buffer /\ sem' = sem /\ pc' = pc /\ call' = call
      /\ writeEnds' = writeEnds
  BY Zenon DEF IdleGoesOn
<1>2. Keyboard /\ Stray = {Idle} /\ Idle \in Procs /\ pc[Idle] \notin ReadSems
  BY <1>0, <1>1 DEF CallInv, Stray, Procs
<1>3. IsWaitState(Now) /\ Waits(Now, pc, Stray)
  BY <1>0, Zenon DEF Calm
<1>4. /\ \A r \in Procs : Now'.state[r] = IF r = Idle THEN "READY" ELSE Now.state[r]
      /\ Now'.sem = Now.sem
  BY <1>1, <1>3 DEF IsWaitState, Now
<1>5. IsWaitState(Now')
  BY <1>1, <1>3 DEF IsWaitState, Now, States
<1> DEFINE d == Now'
           k == Now
<1> HIDE DEF d, k
<1>6. \A s : queueOf(d, s) = queueOf(k, s) /\ valueOf(d, s) = valueOf(k, s)
  BY <1>4, Zenon DEF queueOf, valueOf, d, k
<1>7. \A r \in Procs : r \notin Stray => d.state[r] = k.state[r]
  BY <1>2, <1>4 DEF d, k
<1>8. Waits(d, pc, Stray)
  <2> SUFFICES ASSUME NEW s \in SemNames, NEW i \in 1 .. Len(queueOf(k, s))
               PROVE  LET q == queueOf(k, s) IN
                      /\ q[i] \in Stray => s \notin ReadSems
                      /\ q[i] \notin Stray =>
                           /\ pc[q[i]] = s /\ d.state[q[i]] # "READY"
                           /\ \A j \in 1 .. Len(q) : q[i] = q[j] => i = j
    BY <1>6, Zenon DEF Waits
  <2>1. queueOf(k, s)[i] \in Procs
    BY <1>3, WaitStateFacts, Zenon DEF k
  <2>2. queueOf(k, s)[i] \notin Stray =>
           d.state[queueOf(k, s)[i]] = k.state[queueOf(k, s)[i]]
    BY <1>7, <2>1, Zenon
  <2>. QED
    BY <1>3, <2>2, Zenon DEF Waits, k
<1>9. ASSUME NoKill PROVE Exact(d, pc) /\ ReadTokenInv(d, pc, buffer')
  <2>1. Exact(k, pc) /\ ReadTokenInv(k, pc, buffer)
    BY <1>0, <1>9, Zenon DEF Calm, k
  <2>2. \A r \in Procs : /\ d.state[r] = "BLOCKED" => k.state[r] = "BLOCKED"
                         /\ d.state[r] = "ZOMBIE" => k.state[r] = "ZOMBIE"
                         /\ k.state[r] = "READY" => d.state[r] = "READY"
    BY <1>4 DEF d, k
  <2>3. Exact(d, pc)
    <3>1. \A s \in ReadSems : IF queueOf(k, s) = <<>> THEN valueOf(k, s) >= 0
                              ELSE valueOf(k, s) = -Len(queueOf(k, s))
      BY <2>1, Zenon DEF Exact
    <3>2. \A s \in ReadSems : \A r \in Procs : d.state[r] = "BLOCKED" /\ pc[r] = s =>
             \E i \in 1 .. Len(queueOf(k, s)) : queueOf(k, s)[i] = r
      BY <2>1, <2>2, Zenon DEF Exact
    <3>3. \A r \in Procs : d.state[r] = "ZOMBIE" => pc[r] \notin SemNames
      BY <2>1, <2>2, Zenon DEF Exact
    <3>. QED
      BY <1>6, <3>1, <3>2, <3>3, SMTT(30) DEF Exact
  <2>4. \A s : Token(k, pc, s) => Token(d, pc, s)
    BY <1>6, <2>2, Zenon DEF Token
  <2>5. ReadTokenInv(d, pc, buffer)
    BY <2>1, <2>4, Zenon DEF ReadTokenInv
  <2>. QED
    BY <1>1, <2>3, <2>5
<1>10. Calm(d, pc, Stray, ~Keyboard, NoKill)
  BY <1>2, <1>5, <1>8, <1>9, Zenon DEF Calm, d
<1>11. CallInv'
  <2>1. Keyboard' = Keyboard /\ Writers' = Writers
    BY <1>1 DEF Keyboard, Writers
  <2>. QED
    BY <1>0, <1>1, <1>2, <2>1, Zenon DEF CallInv
<1>. QED
  BY <1>1, <1>9, <1>10, <1>11, Together, Zenon DEF d

\* Nobody waits at the start, and the two locks are free.
LEMMA InitWaits == Init => WaitInv
<1> SUFFICES ASSUME Init PROVE WaitInv
  OBVIOUS
<1>0. setup \in Setups /\ Idle \in Procs
  BY DEF Init, Procs
<1>1. /\ sem \in [SemNames -> [value : Int, blockedQueue : Seq(Procs)]]
      /\ \A s \in SemNames : sem[s].blockedQueue = <<>> /\ sem[s].value >= 0
      /\ sem["writeMutex"].value = 1 /\ sem["readMutex"].value = 1
  BY SizeFacts DEF Init, SemNames, newSemaphore
<1>2. /\ state \in [Procs -> States] /\ state[Idle] = "READY"
      /\ \A p \in Procs : pc[p] = "user"
  BY <1>0 DEF Init, States
<1>3. /\ IsWaitState(Now) /\ Now.sem = sem /\ Now.state = state
  BY <1>1, <1>2 DEF IsWaitState, Now
<1>4. \A s \in SemNames : queueOf(Now, s) = <<>> /\ valueOf(Now, s) >= 0
  BY <1>1, <1>3, Zenon DEF queueOf, valueOf
<1>5. \A s \in SemNames : 1 .. Len(queueOf(Now, s)) = {}
  BY <1>4
<1>6. Waits(Now, pc, Stray)
  BY <1>5, Zenon DEF Waits
<1>7. valueOf(Now, "writeMutex") = 1 /\ valueOf(Now, "readMutex") = 1
  BY <1>1, <1>3, Zenon DEF valueOf
<1>8. ASSUME ~Keyboard PROVE Stray = {} /\ WriteLockInv(Now, pc)
  <2>1. Locked(Now, pc) = {}
    BY <1>2 DEF Locked
  <2>. QED
    BY <1>7, <1>8, <2>1 DEF WriteLockInv, Stray
<1>9. ReadSems \subseteq SemNames /\ "user" \notin SemNames
  BY DEF ReadSems, SemNames
<1>10. Exact(Now, pc)
  <2>1. \A s \in ReadSems : queueOf(Now, s) = <<>> /\ valueOf(Now, s) >= 0
    BY <1>4, <1>9
  <2>2. \A p \in Procs : pc[p] \notin SemNames /\ pc[p] \notin ReadSems
    BY <1>2, <1>9
  <2>. QED
    BY <2>1, <2>2, Zenon DEF Exact
<1>11. ReadTokenInv(Now, pc, buffer)
  <2>1. ~bufferHasData(buffer)
    BY DEF Init, newBuffer, bufferHasData
  <2>2. Token(Now, pc, "readMutex")
    BY <1>7 DEF Token
  <2>. QED
    BY <2>1, <2>2, Zenon DEF ReadTokenInv
<1>12. CallInv
  <2>1. \A p \in Procs : call[p] = NoCall
    BY DEF Init
  <2>2. \A p \in Procs : call[p].n = 0 /\ Len(call[p].buf) <= 1
    BY <2>1, NotedCalls
  <2>3. pc[Idle] \notin ReadSems \cup {"elsewhere"} /\ pc[Idle] = "user"
    BY <1>0, <1>2 DEF ReadSems
  <2>4. writeEnds \subseteq Writers \cup {Driver}
    BY DEF Init
  <2>. QED
    BY <1>2, <2>2, <2>3, <2>4 DEF CallInv
<1>13. Calm(Now, pc, Stray, ~Keyboard, NoKill)
  BY <1>3, <1>6, <1>8, <1>10, Zenon DEF Calm
<1>. QED
  BY <1>11, <1>12, <1>13, Zenon DEF WaitInv

\* Every step keeps the invariant.
LEMMA NextWaits ==
    ASSUME StreamInv, WaitInv, [Next]_vars
    PROVE  WaitInv'
<1>0. ASSUME setup' = setup, buffer' = buffer, sem' = sem, state' = state, pc' = pc,
             call' = call, writeEnds' = writeEnds
      PROVE  WaitInv'
  <2>1. Now' = Now
    BY <1>0, Zenon DEF Now
  <2>2. CallInv'
    BY <1>0, Zenon DEF WaitInv, CallInv, Keyboard, Writers
  <2>3. Calm(Now', pc', Stray, ~Keyboard, NoKill) /\ (NoKill => ReadTokenInv(Now', pc', buffer'))
    BY <1>0, <2>1, Zenon DEF WaitInv
  <2>. QED
    BY <1>0, <2>2, <2>3, Together, Zenon
<1>1. CASE UNCHANGED vars
  BY <1>0, <1>1, Zenon DEF vars
<1>2. CASE IdleGoesOn
  BY <1>2, IdleKeeps, Zenon
<1>3. ASSUME NEW p \in Procs, Read(p) \/ InCall(p)
      PROVE  WaitInv'
  BY <1>3, ReadersKeep, WriteLockKeeps, WriteByteKeeps, Zenon DEF InCall
<1>4. ASSUME NEW p \in Procs, Write(p) \/ KeyPress(p) \/ CtrlD(p)
      PROVE  WaitInv'
  BY <1>4, WritesBegin, Zenon
<1>5. ASSUME NEW p \in Procs, Close(p) \/ Kill(p)
      PROVE  WaitInv'
  BY <1>5, CloseKeeps, KillKeeps, Zenon
<1>6. "user" \in Points \ SemNames /\ "elsewhere" \in Points \ SemNames
  BY DEF Points, SemNames
<1>7. ASSUME NEW p \in Procs, BlockElsewhere(p) PROVE WaitInv'
  <2>1. /\ p # Idle /\ pc[p] = "user" /\ state' = [state EXCEPT ![p] = "BLOCKED"]
        /\ pc' = [pc EXCEPT ![p] = "elsewhere"]
        /\ setup' = setup /\ buffer' = buffer /\ sem' = sem /\ call' = call /\ writeEnds' = writeEnds
    BY <1>7, Zenon DEF BlockElsewhere, InUserCode
  <2>2. pc[p] \notin SemNames /\ "BLOCKED" \in {"READY", "BLOCKED"}
    BY <1>6, <2>1
  <2>. QED
    BY <1>6, <2>1, <2>2, OutsideKeeps, Zenon
<1>8. ASSUME NEW p \in Procs, ComeBack(p) PROVE WaitInv'
  <2>1. /\ pc[p] = "elsewhere" /\ state' = [state EXCEPT ![p] = "READY"]
        /\ pc' = [pc EXCEPT ![p] = "user"]
        /\ setup' = setup /\ buffer' = buffer /\ sem' = sem /\ call' = call /\ writeEnds' = writeEnds
    BY <1>8, Zenon DEF ComeBack
  <2>2. pc[p] \notin SemNames /\ "READY" \in {"READY", "BLOCKED"}
    BY <1>6, <2>1
  <2>3. p # Idle
    BY <2>1 DEF WaitInv, CallInv
  <2>. QED
    BY <1>6, <2>1, <2>2, <2>3, OutsideKeeps, Zenon
<1>9. ASSUME NEW p \in Procs, UserCode(p) PROVE WaitInv'
  BY <1>0, <1>9, Zenon DEF UserCode
<1>. QED
  BY <1>1, <1>2, <1>3, <1>4, <1>5, <1>7, <1>8, <1>9, Zenon DEF Next

-----------------------------------------------------------------------------
(* What follows *)

\* The waits of the pipe are in order in every behaviour.
THEOREM WaitInvariance == Spec => []WaitInv
<1>1. Init => StreamInv /\ WaitInv
  BY InitStream, InitWaits
<1>2. StreamInv /\ WaitInv /\ [Next]_vars => StreamInv' /\ WaitInv'
  BY NextStream, NextWaits, Zenon
<1>. QED
  BY <1>1, <1>2, PTL DEF Spec

\* Two writes are never both part way through, whoever blocks or dies (writeMutex of
\* pipeWrite): the holder of the lock is the only one past it.
THEOREM WritesStayTogether == Spec => []OneWriteInProgress
<1>1. ASSUME StreamInv, WaitInv PROVE OneWriteInProgress
  <2> DEFINE M == {p \in Procs : state[p] # "ZOMBIE" /\ call[p].n > 0}
  <2>1. \A p, q \in M : p = q
    <3>1. CASE Keyboard
      <4>1. \A p \in Procs : ~(call[p].n > 0)
        BY <1>1, <3>1 DEF WaitInv, CallInv
      <4>. QED
        BY <4>1
    <3>2. CASE ~Keyboard
      <4>1. WriteLockInv(Now, pc)
        BY <1>1, <3>2, Zenon DEF WaitInv, Calm
      <4>2. \A p \in M : p \in Locked(Now, pc)
        BY <1>1 DEF WaitInv, CallInv, Locked
      <4>. QED
        BY <4>1, <4>2, Zenon DEF WriteLockInv
    <3>. QED
      BY <3>1, <3>2
  <2>2. M = {} \/ \E p : M = {p}
    BY <2>1
  <2>3. Cardinality(M) = 0 \/ Cardinality(M) = 1
    BY <2>2, FS_EmptySet, FS_Singleton, Zenon
  <2> HIDE DEF M
  <2>4. Cardinality(M) <= 1
    BY <2>3
  <2>. QED
    BY <2>4 DEF M, OneWriteInProgress
<1>2. Spec => []StreamInv /\ []WaitInv
  BY StreamInvariance, WaitInvariance
<1>. QED
  BY <1>1, <1>2, PTL

\* No reader sleeps on data if nobody dies: the token of the bytes is free, or is with a
\* reader that will take them and pass it on (pipeRead, pipeWrite).
THEOREM ReadersAreWoken == Spec => []NoSleepOnData
<1>1. ASSUME StreamInv, WaitInv PROVE NoSleepOnData
  <2> SUFFICES ASSUME NoKill, NEW p \in Procs, state[p] = "BLOCKED", pc[p] = "dataAvailable",
                      bufferHasData(buffer)
               PROVE  ReaderComing
    BY Zenon DEF NoSleepOnData, NoSleepOnDataEver, NoKill
  <2>0. Now.state = state
    BY DEF Now
  <2>1. Exact(Now, pc) /\ ReadTokenInv(Now, pc, buffer) /\ IsWaitState(Now)
    BY <1>1, Zenon DEF WaitInv, Calm
  <2>2. ASSUME NEW s \in ReadSems, NEW q \in Procs, state[q] = "BLOCKED", pc[q] = s,
               Token(Now, pc, s)
        PROVE  ReaderComing
    <3>1. PICK i \in 1 .. Len(queueOf(Now, s)) : queueOf(Now, s)[i] = q
      BY <2>0, <2>1, <2>2, Zenon DEF Exact
    <3>2. s \in SemNames
      BY DEF ReadSems, SemNames
    <3>3. queueOf(Now, s) \in Seq(Procs) /\ valueOf(Now, s) \in Int /\ Len(queueOf(Now, s)) \in Nat
      BY <2>1, <3>2, WaitStateFacts, Zenon
    <3>4. /\ queueOf(Now, s) # <<>> => valueOf(Now, s) = -Len(queueOf(Now, s))
      BY <2>1, Zenon DEF Exact
    <3>5. queueOf(Now, s) # <<>>
      BY <3>3
    <3>6. ~(valueOf(Now, s) >= 1)
      BY <3>3, <3>4, <3>5
    <3>7. \E r \in Procs : pc[r] = s /\ state[r] = "READY"
      BY <2>0, <2>2, <3>6, Zenon DEF Token
    <3>. QED
      BY <3>7 DEF ReaderComing, ReadSems
  <2>3. "dataAvailable" \in ReadSems /\ "readMutex" \in ReadSems
    BY DEF ReadSems
  <2>4. CASE Token(Now, pc, "dataAvailable")
    BY <2>2, <2>3, <2>4, Zenon
  <2>5. CASE \E q \in Procs : pc[q] = "readMutex"
    <3>1. PICK q \in Procs : pc[q] = "readMutex"
      BY <2>5
    <3>2. CASE state[q] = "READY"
      BY <3>1, <3>2 DEF ReaderComing
    <3>3. CASE state[q] = "BLOCKED"
      <4>1. Token(Now, pc, "readMutex")
        BY <2>1, Zenon DEF ReadTokenInv
      <4>. QED
        BY <2>2, <2>3, <3>1, <3>3, <4>1, Zenon
    <3>4. state[q] # "ZOMBIE"
      <4>1. state[q] = "ZOMBIE" => pc[q] \notin SemNames
        BY <2>0, <2>1, Zenon DEF Exact
      <4>. QED
        BY <3>1, <4>1 DEF SemNames
    <3>5. state[q] \in States
      BY <2>0, <2>1, WaitStateFacts, Zenon
    <3>. QED
      BY <3>2, <3>3, <3>4, <3>5 DEF States
  <2>. QED
    BY <2>1, <2>4, <2>5, Zenon DEF ReadTokenInv
<1>2. Spec => []StreamInv /\ []WaitInv
  BY StreamInvariance, WaitInvariance
<1>. QED
  BY <1>1, <1>2, PTL
=============================================================================
