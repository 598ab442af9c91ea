----------------------------- MODULE FilesProofs -----------------------------
(***************************************************************************)
(* The counters of file accesses and pipes are exact, nothing dangles and  *)
(* nothing leaks, for every number of processes, descriptors, accesses and *)
(* pipes (module Files).                                                   *)
(*                                                                         *)
(* Inside a call the objects pass through states in which an access has    *)
(* been made and no slot holds it yet: Sound(h, L, Q) says that everything *)
(* is exact in h and that only the accesses of L and the pipes of Q may be *)
(* without a holder.  Each operator is shown to keep Sound once, and every *)
(* call is a chain of operators that starts and ends with no loose object. *)
(***************************************************************************)
EXTENDS Files, QueueTheorems

Address == Nat \ {Null}
FileRecord == [pipe : Address, flags : {READ, WRITE}, refCount : Int]
PipeRecord == [refCount : Int, writerCount : Int]

Shape(h) ==
    /\ h = [fdTable |-> h.fdTable, file |-> h.file, pipe |-> h.pipe]
    /\ h.fdTable \in [Procs -> [FDs -> Nat]]
    /\ h.file \in [DOMAIN h.file -> FileRecord]
    /\ DOMAIN h.file \subseteq Address /\ IsFiniteSet(DOMAIN h.file)
    /\ h.pipe \in [DOMAIN h.pipe -> PipeRecord]
    /\ DOMAIN h.pipe \subseteq Address /\ IsFiniteSet(DOMAIN h.pipe)

HoldersIn(t, f) == {s \in Slots : t[s[1]][s[2]] = f}
AccessesOf(F, q) == {f \in DOMAIN F : F[f].pipe = q}
WritersOf(F, q) == {f \in DOMAIN F : F[f].pipe = q /\ "write" \in F[f].flags}
Driver(f) == IF f = DriverFile THEN 1 ELSE 0

Points(h) ==
    /\ DriverFile \in DOMAIN h.file
    /\ \A p \in Procs, fd \in FDs : h.fdTable[p][fd] \in DOMAIN h.file \cup {Null}
    /\ \A f \in DOMAIN h.file : h.file[f].pipe \in DOMAIN h.pipe

FilesCounted(h, L) ==
    /\ L \subseteq DOMAIN h.file
    /\ \A f \in DOMAIN h.file : h.file[f].refCount = Cardinality(HoldersIn(h.fdTable, f)) + Driver(f)
    /\ \A f \in DOMAIN h.file \ L : h.file[f].refCount > 0

PipesCounted(h, Q) ==
    /\ Q \subseteq DOMAIN h.pipe
    /\ \A q \in DOMAIN h.pipe : /\ h.pipe[q].refCount = Cardinality(AccessesOf(h.file, q))
                                /\ h.pipe[q].writerCount = Cardinality(WritersOf(h.file, q))
    /\ \A q \in DOMAIN h.pipe \ Q : h.pipe[q].refCount > 0

Sound(h, L, Q) == Shape(h) /\ Points(h) /\ FilesCounted(h, L) /\ PipesCounted(h, Q)

\* The objects from their parts, and the parts the operators compute.
Obj(t, F, P) == [fdTable |-> t, file |-> F, pipe |-> P]
SetSlot(t, p, fd, f) == [t EXCEPT ![p][fd] = f]
AddRef(F, f, n) == [F EXCEPT ![f].refCount = @ + n]
Without(F, f) == Restrict(F, DOMAIN F \ {f})
AsWriter(flags) == IF "write" \in flags THEN 1 ELSE 0
Given(P, q, n, w) == [P EXCEPT ![q] = [refCount |-> P[q].refCount - n, writerCount |-> P[q].writerCount - w]]
Released(P, q, w) == IF P[q].refCount - 1 <= 0 THEN Without(Given(P, q, 1, w), q) ELSE Given(P, q, 1, w)

LEMMA Parts ==
    ASSUME NEW t, NEW F, NEW P
    PROVE  Obj(t, F, P).fdTable = t /\ Obj(t, F, P).file = F /\ Obj(t, F, P).pipe = P
  BY DEF Obj

LEMMA ShapeIsObj ==
    ASSUME NEW h, Shape(h)
    PROVE  h = Obj(h.fdTable, h.file, h.pipe)
  BY DEF Shape, Obj

-----------------------------------------------------------------------------
(* Counting *)

LEMMA SlotsFinite == IsFiniteSet(Slots) /\ FDs \subseteq Nat /\ 0 \in FDs
<1>1. IsFiniteSet(FDs)
  BY FS_Interval, FilesAssumption DEF FDs
<1>2. IsFiniteSet(Procs)
  BY FilesAssumption
<1>. QED
  BY <1>1, <1>2, FS_Product, FilesAssumption DEF Slots, FDs

\* The slots that hold an access, counted, are finitely many.
LEMMA HoldersFinite ==
    ASSUME NEW t, NEW f
    PROVE  IsFiniteSet(HoldersIn(t, f)) /\ Cardinality(HoldersIn(t, f)) \in Nat
<1>1. HoldersIn(t, f) \in SUBSET Slots
  BY DEF HoldersIn
<1>. QED
  BY <1>1, SlotsFinite, FS_Subset, FS_CardinalityType

\* The table u is t with b in one slot.
SlotWas(t, p, fd, b, u) ==
    /\ u \in [Procs -> [FDs -> Nat]]
    /\ \A x \in Procs, y \in FDs : u[x][y] = IF x = p /\ y = fd THEN b ELSE t[x][y]

LEMMA SlotIs ==
    ASSUME NEW t \in [Procs -> [FDs -> Nat]], NEW p \in Procs, NEW fd \in FDs, NEW b \in Nat
    PROVE  SlotWas(t, p, fd, b, SetSlot(t, p, fd, b))
  BY DEF SetSlot, SlotWas

\* A slot that goes from the access t[p][fd] to another, b, is one holder
\* less for the first and one more for the second.
LEMMA SlotSet ==
    ASSUME NEW t \in [Procs -> [FDs -> Nat]], NEW p \in Procs, NEW fd \in FDs, NEW b \in Nat,
           t[p][fd] # b
    PROVE  /\ Cardinality(HoldersIn(SetSlot(t, p, fd, b), b)) = Cardinality(HoldersIn(t, b)) + 1
           /\ Cardinality(HoldersIn(SetSlot(t, p, fd, b), t[p][fd])) =
                  Cardinality(HoldersIn(t, t[p][fd])) - 1
           /\ \A f : f # b /\ f # t[p][fd] =>
                  Cardinality(HoldersIn(SetSlot(t, p, fd, b), f)) = Cardinality(HoldersIn(t, f))
<1> DEFINE s0 == <<p, fd>>
           a == t[p][fd]
           u == SetSlot(t, p, fd, b)
<1>2. \A s \in Slots : u[s[1]][s[2]] = IF s = s0 THEN b ELSE t[s[1]][s[2]]
  BY DEF Slots, SetSlot
<1>3. s0 \in Slots /\ t[s0[1]][s0[2]] = a
  BY DEF Slots
<1>a. a # b
  OBVIOUS
<1> HIDE DEF s0, a, u
<1>4. HoldersIn(u, b) = HoldersIn(t, b) \cup {s0} /\ s0 \notin HoldersIn(t, b)
  BY <1>2, <1>3, <1>a DEF HoldersIn
<1>5. HoldersIn(u, a) = HoldersIn(t, a) \ {s0} /\ s0 \in HoldersIn(t, a)
  BY <1>2, <1>3, <1>a DEF HoldersIn
<1>6. ASSUME NEW f, f # b, f # a
      PROVE  HoldersIn(u, f) = HoldersIn(t, f)
  BY <1>2, <1>3, <1>6 DEF HoldersIn
<1>7. Cardinality(HoldersIn(u, b)) = Cardinality(HoldersIn(t, b)) + 1
  BY <1>4, HoldersFinite, FS_AddElement
<1>8. Cardinality(HoldersIn(u, a)) = Cardinality(HoldersIn(t, a)) - 1
  <2>1. Cardinality(HoldersIn(t, a) \ {s0}) =
            IF s0 \in HoldersIn(t, a) THEN Cardinality(HoldersIn(t, a)) - 1
            ELSE Cardinality(HoldersIn(t, a))
    BY HoldersFinite, FS_RemoveElement, Zenon
  <2>. QED
    BY <1>5, <2>1
<1>. QED
  BY <1>6, <1>7, <1>8 DEF u, a

\* mem_alloc gives an address that is not in use.
LEMMA UnusedIsNew ==
    ASSUME NEW S, IsFiniteSet(S)
    PROVE  Unused(S) \in Address /\ Unused(S) \notin S
<1> DEFINE n == Cardinality(S)
<1>1. n \in Nat
  BY FS_CardinalityType
<1> HIDE DEF n
<1>2. \E i \in 1 .. n + 1 : i \notin S
  <2> SUFFICES ASSUME 1 .. n + 1 \subseteq S
               PROVE  FALSE
    OBVIOUS
  <2>1. Cardinality(1 .. n + 1) = n + 1
    BY <1>1, FS_Interval
  <2>2. Cardinality(1 .. n + 1) <= n
    BY FS_Subset DEF n
  <2>. QED
    BY <1>1, <2>1, <2>2
<1>3. Unused(S) \in 1 .. n + 1 /\ Unused(S) \notin S
  BY <1>2 DEF Unused, n
<1>. QED
  BY <1>1, <1>3 DEF Address, Null

-----------------------------------------------------------------------------
(* Accesses of a pipe *)

\* A new access is counted once, for its own pipe.
LEMMA AccessAdded ==
    ASSUME NEW F, IsFiniteSet(DOMAIN F), NEW f, f \notin DOMAIN F, NEW q,
           NEW G, DOMAIN G = DOMAIN F \cup {f}, \A x \in DOMAIN F : G[x] = F[x]
    PROVE  /\ Cardinality(AccessesOf(F, q)) \in Nat /\ Cardinality(WritersOf(F, q)) \in Nat
           /\ Cardinality(AccessesOf(G, q)) =
                  Cardinality(AccessesOf(F, q)) + (IF G[f].pipe = q THEN 1 ELSE 0)
           /\ Cardinality(WritersOf(G, q)) =
                  Cardinality(WritersOf(F, q)) + (IF G[f].pipe = q /\ "write" \in G[f].flags THEN 1 ELSE 0)
<1>3. AccessesOf(F, q) \in SUBSET DOMAIN F /\ WritersOf(F, q) \in SUBSET DOMAIN F
  BY DEF AccessesOf, WritersOf
<1>4. /\ IsFiniteSet(AccessesOf(F, q)) /\ Cardinality(AccessesOf(F, q)) \in Nat
      /\ IsFiniteSet(WritersOf(F, q)) /\ Cardinality(WritersOf(F, q)) \in Nat
  BY <1>3, FS_Subset, FS_CardinalityType
<1>5. f \notin AccessesOf(F, q) /\ f \notin WritersOf(F, q)
  BY <1>3
<1>6. AccessesOf(G, q) = IF G[f].pipe = q THEN AccessesOf(F, q) \cup {f} ELSE AccessesOf(F, q)
  BY DEF AccessesOf
<1>7. WritersOf(G, q) = IF G[f].pipe = q /\ "write" \in G[f].flags THEN WritersOf(F, q) \cup {f}
                        ELSE WritersOf(F, q)
  BY DEF WritersOf
<1>8. Cardinality(AccessesOf(G, q)) =
                      Cardinality(AccessesOf(F, q)) + (IF G[f].pipe = q THEN 1 ELSE 0)
  <2>1. Cardinality(AccessesOf(F, q) \cup {f}) = Cardinality(AccessesOf(F, q)) + 1
    BY <1>4, <1>5, FS_AddElement
  <2>. QED
    BY <1>4, <1>6, <2>1
<1>9. Cardinality(WritersOf(G, q)) =
                      Cardinality(WritersOf(F, q)) + (IF G[f].pipe = q /\ "write" \in G[f].flags THEN 1 ELSE 0)
  <2>1. Cardinality(WritersOf(F, q) \cup {f}) = Cardinality(WritersOf(F, q)) + 1
    BY <1>4, <1>5, FS_AddElement
  <2>. QED
    BY <1>4, <1>7, <2>1
<1>. QED
  BY <1>4, <1>8, <1>9

\* A freed access is uncounted once, for its own pipe.
LEMMA AccessDropped ==
    ASSUME NEW F, IsFiniteSet(DOMAIN F), NEW f \in DOMAIN F, NEW q
    PROVE  /\ Cardinality(AccessesOf(F, q)) \in Nat /\ Cardinality(WritersOf(F, q)) \in Nat
           /\ Cardinality(AccessesOf(Without(F, f), q)) =
                  Cardinality(AccessesOf(F, q)) - (IF F[f].pipe = q THEN 1 ELSE 0)
           /\ Cardinality(WritersOf(Without(F, f), q)) =
                  Cardinality(WritersOf(F, q)) - (IF F[f].pipe = q /\ "write" \in F[f].flags THEN 1 ELSE 0)
<1> DEFINE G == Without(F, f)
<1>1. DOMAIN G = DOMAIN F \ {f} /\ \A x \in DOMAIN G : G[x] = F[x]
  BY DEF Without, Restrict
<1> HIDE DEF G
<1>3. AccessesOf(F, q) \in SUBSET DOMAIN F /\ WritersOf(F, q) \in SUBSET DOMAIN F
  BY DEF AccessesOf, WritersOf
<1>4. /\ IsFiniteSet(AccessesOf(F, q)) /\ Cardinality(AccessesOf(F, q)) \in Nat
      /\ IsFiniteSet(WritersOf(F, q)) /\ Cardinality(WritersOf(F, q)) \in Nat
  BY <1>3, FS_Subset, FS_CardinalityType
<1>5. /\ AccessesOf(G, q) = AccessesOf(F, q) \ {f}
      /\ f \in AccessesOf(F, q) <=> F[f].pipe = q
  BY <1>1 DEF AccessesOf
<1>6. /\ WritersOf(G, q) = WritersOf(F, q) \ {f}
      /\ f \in WritersOf(F, q) <=> F[f].pipe = q /\ "write" \in F[f].flags
  BY <1>1 DEF WritersOf
<1>7. Cardinality(AccessesOf(G, q)) =
                      Cardinality(AccessesOf(F, q)) - (IF F[f].pipe = q THEN 1 ELSE 0)
  <2>1. Cardinality(AccessesOf(F, q) \ {f}) =
            IF f \in AccessesOf(F, q) THEN Cardinality(AccessesOf(F, q)) - 1
            ELSE Cardinality(AccessesOf(F, q))
    BY <1>4, FS_RemoveElement, Zenon
  <2>. QED
    BY <1>4, <1>5, <2>1
<1>8. Cardinality(WritersOf(G, q)) =
                      Cardinality(WritersOf(F, q)) - (IF F[f].pipe = q /\ "write" \in F[f].flags THEN 1 ELSE 0)
  <2>1. Cardinality(WritersOf(F, q) \ {f}) =
            IF f \in WritersOf(F, q) THEN Cardinality(WritersOf(F, q)) - 1
            ELSE Cardinality(WritersOf(F, q))
    BY <1>4, FS_RemoveElement, Zenon
  <2>. QED
    BY <1>4, <1>6, <2>1
<1>. QED
  BY <1>4, <1>7, <1>8 DEF G

\* What a pipe counts depends on the pipe and the flags of each access only.
LEMMA SameAccesses ==
    ASSUME NEW F, NEW G, DOMAIN F = DOMAIN G, NEW q,
           \A f \in DOMAIN F : F[f].pipe = G[f].pipe /\ F[f].flags = G[f].flags
    PROVE  AccessesOf(F, q) = AccessesOf(G, q) /\ WritersOf(F, q) = WritersOf(G, q)
  BY DEF AccessesOf, WritersOf

-----------------------------------------------------------------------------
(* The operators on pipes and accesses *)

LEMMA NewPipeSound ==
    ASSUME NEW h, NEW L, Sound(h, L, {}), NEW q \in Address, q \notin DOMAIN h.pipe
    PROVE  /\ Sound(newPipe(h, q), L, {q})
           /\ newPipe(h, q).fdTable = h.fdTable /\ newPipe(h, q).file = h.file
           /\ newPipe(h, q).pipe[q].refCount = 0
<1> DEFINE P == With(h.pipe, q, [refCount |-> 0, writerCount |-> 0])
           g == newPipe(h, q)
<1>1. g = [fdTable |-> h.fdTable, file |-> h.file, pipe |-> P]
  BY DEF newPipe, Sound, Shape
<1>2. /\ DOMAIN P = DOMAIN h.pipe \cup {q} /\ P[q] = [refCount |-> 0, writerCount |-> 0]
      /\ \A x \in DOMAIN h.pipe : P[x] = h.pipe[x]
      /\ P = [x \in DOMAIN P |-> P[x]]
  BY DEF With, Sound
<1> HIDE DEF P, g
<1>3. Shape(g)
  <2>1. P \in [DOMAIN P -> PipeRecord]
    BY <1>2 DEF Sound, Shape, PipeRecord
  <2>2. IsFiniteSet(DOMAIN P)
    BY <1>2, FS_AddElement DEF Sound, Shape
  <2>. QED
    BY <1>1, <1>2, <2>1, <2>2 DEF Sound, Shape
<1>4. Points(g)
  BY <1>1, <1>2 DEF Sound, Points
<1>5. FilesCounted(g, L)
  BY <1>1 DEF Sound, FilesCounted
<1>6. AccessesOf(h.file, q) = {} /\ WritersOf(h.file, q) = {}
  BY DEF Sound, Points, AccessesOf, WritersOf
<1>7. PipesCounted(g, {q})
  <2>1. Cardinality(AccessesOf(h.file, q)) = 0 /\ Cardinality(WritersOf(h.file, q)) = 0
    BY <1>6, FS_EmptySet
  <2>. QED
    BY <1>1, <1>2, <2>1 DEF Sound, PipesCounted
<1>. QED
  BY <1>1, <1>2, <1>3, <1>4, <1>5, <1>7 DEF Sound, g

LEMMA FreePipeSound ==
    ASSUME NEW h, NEW L, NEW q, Sound(h, L, {q}), h.pipe[q].refCount = 0
    PROVE  /\ Sound(freePipe(h, q), L, {})
           /\ freePipe(h, q).fdTable = h.fdTable /\ freePipe(h, q).file = h.file
<1> DEFINE P == Restrict(h.pipe, DOMAIN h.pipe \ {q})
           g == freePipe(h, q)
<1>1. g = [fdTable |-> h.fdTable, file |-> h.file, pipe |-> P]
  BY DEF freePipe, Sound, Shape
<1>2. DOMAIN P = DOMAIN h.pipe \ {q} /\ (\A x \in DOMAIN P : P[x] = h.pipe[x])
      /\ P = [x \in DOMAIN P |-> P[x]]
  BY DEF Restrict
<1> HIDE DEF P, g
<1>3. Shape(g)
  <2>1. P \in [DOMAIN P -> PipeRecord]
    BY <1>2 DEF Sound, Shape
  <2>2. IsFiniteSet(DOMAIN P)
    BY <1>2, FS_RemoveElement DEF Sound, Shape
  <2>. QED
    BY <1>1, <1>2, <2>1, <2>2 DEF Sound, Shape
<1>4. AccessesOf(h.file, q) = {}
  <2>1. AccessesOf(h.file, q) \in SUBSET DOMAIN h.file
    BY DEF AccessesOf
  <2>2. IsFiniteSet(AccessesOf(h.file, q))
    BY <2>1, FS_Subset DEF Sound, Shape
  <2>3. Cardinality(AccessesOf(h.file, q)) = 0
    BY DEF Sound, PipesCounted
  <2>. QED
    BY <2>2, <2>3, FS_EmptySet
<1>5. Points(g)
  BY <1>1, <1>2, <1>4 DEF Sound, Points, AccessesOf
<1>6. FilesCounted(g, L)
  BY <1>1 DEF Sound, FilesCounted
<1>7. PipesCounted(g, {})
  BY <1>1, <1>2 DEF Sound, PipesCounted
<1>. QED
  BY <1>1, <1>3, <1>5, <1>6, <1>7 DEF Sound, g

\* g is h with one access more, of the pipe q, that no slot holds.
Allocated(h, f, q, g) ==
    /\ g.fdTable = h.fdTable /\ DOMAIN g.pipe = DOMAIN h.pipe
    /\ DOMAIN g.file = DOMAIN h.file \cup {f} /\ \A x \in DOMAIN h.file : g.file[x] = h.file[x]
    /\ g.file[f].pipe = q

\* A new access for an existing pipe is loose until a slot holds it; the pipe
\* is not loose any more.
LEMMA NewFileSound ==
    ASSUME NEW h, NEW L, NEW Q, Sound(h, L, Q), NEW q \in DOMAIN h.pipe,
           NEW f \in Address, f \notin DOMAIN h.file, NEW flags \in {READ, WRITE}
    PROVE  /\ Sound(newFileAccess(h, f, q, flags), L \cup {f}, Q \ {q})
           /\ Allocated(h, f, q, newFileAccess(h, f, q, flags))
<1> DEFINE r == [pipe |-> q, flags |-> flags, refCount |-> 0]
           F == With(h.file, f, r)
           w == IF "write" \in flags THEN 1 ELSE 0
           P == [h.pipe EXCEPT ![q] = [refCount    |-> h.pipe[q].refCount + 1,
                                       writerCount |-> h.pipe[q].writerCount + w]]
           g == newFileAccess(h, f, q, flags)
<1>0. /\ h = [fdTable |-> h.fdTable, file |-> h.file, pipe |-> h.pipe]
      /\ h.pipe \in [DOMAIN h.pipe -> PipeRecord] /\ IsFiniteSet(DOMAIN h.file)
      /\ q \in Address
  BY DEF Sound, Shape
<1>1. g = [fdTable |-> h.fdTable, file |-> F, pipe |-> P]
  <2> DEFINE v == [refCount    |-> h.pipe[q].refCount + 1,
                   writerCount |-> h.pipe[q].writerCount + w]
  <2>1. g = [h EXCEPT !.file = F, !.pipe[q] = v]
    BY <1>0 DEF newFileAccess
  <2> HIDE DEF F, v
  <2>2. P = [h.pipe EXCEPT ![q] = v]
    BY DEF v
  <2> HIDE DEF P, g
  <2>. QED
    BY <1>0, <2>1, <2>2
<1> HIDE DEF r
<1>2. DOMAIN F = DOMAIN h.file \cup {f} /\ F[f] = r /\ \A x \in DOMAIN h.file : F[x] = h.file[x]
  BY DEF With
<1>4. F = [x \in DOMAIN F |-> F[x]] /\ IsFiniteSet(DOMAIN F)
  <2>1. IsFiniteSet(DOMAIN F)
    BY <1>0, <1>2, FS_AddElement
  <2>. QED
    BY <2>1 DEF With
<1> HIDE DEF F
<1>3. ASSUME NEW x
      PROVE  /\ Cardinality(AccessesOf(h.file, x)) \in Nat /\ Cardinality(WritersOf(h.file, x)) \in Nat
             /\ Cardinality(AccessesOf(F, x)) =
                  Cardinality(AccessesOf(h.file, x)) + (IF F[f].pipe = x THEN 1 ELSE 0)
             /\ Cardinality(WritersOf(F, x)) =
                  Cardinality(WritersOf(h.file, x)) + (IF F[f].pipe = x /\ "write" \in F[f].flags THEN 1 ELSE 0)
  BY <1>0, <1>2, AccessAdded
<1>5. r \in FileRecord /\ r.pipe = q /\ r.flags = flags /\ r.refCount = 0
  BY <1>0 DEF FileRecord, r
<1>6. w \in Int
  OBVIOUS
<1>7. /\ DOMAIN P = DOMAIN h.pipe /\ P \in [DOMAIN P -> PipeRecord]
      /\ P[q].refCount = h.pipe[q].refCount + 1
      /\ P[q].writerCount = h.pipe[q].writerCount + w
      /\ \A x \in DOMAIN h.pipe \ {q} : P[x] = h.pipe[x]
  <2> HIDE DEF w
  <2>. QED
    BY <1>0, <1>6 DEF PipeRecord
<1> HIDE DEF P, g
<1>8. Shape(g)
  <2>1. F \in [DOMAIN F -> FileRecord]
    BY <1>2, <1>4, <1>5 DEF Sound, Shape
  <2>. QED
    BY <1>1, <1>2, <1>4, <1>7, <2>1 DEF Sound, Shape
<1>9. Points(g)
  BY <1>1, <1>2, <1>5, <1>7 DEF Sound, Points
<1>10. FilesCounted(g, L \cup {f})
  <2>1. HoldersIn(h.fdTable, f) = {}
    BY DEF Sound, Points, HoldersIn, Slots, Address
  <2>2. Cardinality(HoldersIn(h.fdTable, f)) = 0
    BY <2>1, FS_EmptySet
  <2>3. Driver(f) = 0
    BY DEF Driver, Sound, Points
  <2>. QED
    BY <1>1, <1>2, <1>5, <2>2, <2>3 DEF Sound, FilesCounted
<1>11. PipesCounted(g, Q \ {q})
  <2>1. ASSUME NEW x \in DOMAIN h.pipe
        PROVE  /\ P[x].refCount = Cardinality(AccessesOf(F, x))
               /\ P[x].writerCount = Cardinality(WritersOf(F, x))
               /\ x \notin Q \ {q} => P[x].refCount > 0
    <3>1. /\ h.pipe[x].refCount = Cardinality(AccessesOf(h.file, x))
          /\ h.pipe[x].writerCount = Cardinality(WritersOf(h.file, x))
          /\ x \notin Q => h.pipe[x].refCount > 0
      BY DEF Sound, PipesCounted
    <3>2. CASE x = q
      BY <1>2, <1>3, <1>5, <1>7, <3>1, <3>2
    <3>3. CASE x # q
      BY <1>2, <1>3, <1>5, <1>7, <3>1, <3>3
    <3>. QED
      BY <3>2, <3>3
  <2>. QED
    BY <1>1, <1>7, <2>1 DEF Sound, PipesCounted
<1>12. g.file[f].pipe = q
  BY <1>1, <1>2 DEF r
<1>. QED
  BY <1>1, <1>2, <1>7, <1>8, <1>9, <1>10, <1>11, <1>12 DEF Sound, Allocated, g

\* The reference of a pipe given back, and the pipe with the last one.
LEMMA RemovePipeRefIs ==
    ASSUME NEW t, NEW F, NEW P, P \in [DOMAIN P -> PipeRecord], NEW q \in DOMAIN P
    PROVE  removePipeRef(Obj(t, F, P), q) = Obj(t, F, Released(P, q, 0))
<1> DEFINE h == Obj(t, F, P)
           x == [h EXCEPT !.pipe[q].refCount = @ - 1]
           R == Given(P, q, 1, 0)
           rc == P[q].refCount
           wc == P[q].writerCount
<1>0. P[q] = [refCount |-> rc, writerCount |-> wc] /\ rc \in Int /\ wc \in Int
  BY DEF PipeRecord
<1>1. R = [P EXCEPT ![q].refCount = @ - 1] /\ R[q].refCount = rc - 1
  <2> HIDE DEF rc, wc
  <2>1. R = [P EXCEPT ![q] = [refCount |-> rc - 1, writerCount |-> wc - 0]]
    BY DEF Given, rc, wc
  <2>2. wc - 0 = wc
    BY <1>0
  <2>3. R[q] = [refCount |-> rc - 1, writerCount |-> wc]
    BY <2>1, <2>2
  <2>4. [P[q] EXCEPT !.refCount = @ - 1] = [refCount |-> rc - 1, writerCount |-> wc]
    BY <1>0
  <2>5. [P EXCEPT ![q].refCount = @ - 1] = [P EXCEPT ![q] = [P[q] EXCEPT !.refCount = @ - 1]]
    OBVIOUS
  <2> HIDE DEF R
  <2>6. R[q].refCount = rc - 1
    BY <2>3
  <2>. QED
    BY <2>1, <2>2, <2>4, <2>5, <2>6, Zenon
<1> HIDE DEF R
<1>2. x = Obj(t, F, R)
  BY <1>1 DEF Obj
<1>3. removePipeRef(h, q) = IF x.pipe[q].refCount <= 0 THEN freePipe(x, q) ELSE x
  <2> HIDE DEF x, h
  <2>1. removePipeRef(h, q) = Then(x, LAMBDA y : IF y.pipe[q].refCount <= 0 THEN freePipe(y, q) ELSE y)
    BY DEF removePipeRef, x
  <2>. QED
    BY <2>1 DEF Then
<1>4. freePipe(Obj(t, F, R), q) = Obj(t, F, Without(R, q))
  BY DEF freePipe, Obj, Without
<1>5. Obj(t, F, R).pipe = R
  BY Parts
<1> HIDE DEF x, h
<1>6. removePipeRef(h, q) = IF rc - 1 <= 0 THEN Obj(t, F, Without(R, q)) ELSE Obj(t, F, R)
  BY <1>1, <1>2, <1>3, <1>4, <1>5
<1>. QED
  BY <1>6 DEF h, Released, R

\* What freeFileAccess leaves, whatever the access's own counter says.
LEMMA FreeFileIs ==
    ASSUME NEW t, NEW F, NEW P, P \in [DOMAIN P -> PipeRecord],
           NEW f \in DOMAIN F, F[f].pipe \in DOMAIN P
    PROVE  freeFileAccess(Obj(t, F, P), f) =
               Obj(t, Without(F, f), Released(P, F[f].pipe, AsWriter(F[f].flags)))
<1> DEFINE h == Obj(t, F, P)
           q == F[f].pipe
           w == AsWriter(F[f].flags)
           g == IF "write" \in F[f].flags THEN [h EXCEPT !.pipe[q].writerCount = @ - 1] ELSE h
           x == [g EXCEPT !.file = Restrict(@, DOMAIN @ \ {f})]
           rc == P[q].refCount
           wc == P[q].writerCount
           P1 == Given(P, q, 0, w)
<1>0. P[q] = [refCount |-> rc, writerCount |-> wc] /\ rc \in Int /\ wc \in Int /\ q \in DOMAIN P
  BY DEF PipeRecord
<1>w. w \in Int
  BY DEF AsWriter
<1>4. freeFileAccess(h, f) = removePipeRef(x, q)
  <2>1. h.file = F
    BY Parts
  <2> HIDE DEF h
  <2>. QED
    BY <2>1 DEF freeFileAccess
<1> HIDE DEF rc, wc
<1>p. P1 = [P EXCEPT ![q] = [refCount |-> rc - 0, writerCount |-> wc - w]]
  BY DEF Given, rc, wc
<1>1. g = Obj(t, F, P1)
  <2>1. CASE "write" \in F[f].flags
    <3>1. w = 1 /\ g = [h EXCEPT !.pipe[q].writerCount = @ - 1]
      BY <2>1 DEF AsWriter
    <3> HIDE DEF g, w, P1, q
    <3>. QED
      BY <1>0, <1>p, <3>1 DEF Obj
  <2>2. CASE "write" \notin F[f].flags
    <3>1. w = 0 /\ g = h
      BY <2>2 DEF AsWriter
    <3>2. P1 = P
      <4>1. rc - 0 = rc /\ wc - 0 = wc
        BY <1>0
      <4> HIDE DEF w, P1, q
      <4>. QED
        BY <1>0, <1>p, <3>1, <4>1
    <3>. QED
      BY <3>1, <3>2
  <2>. QED
    BY <2>1, <2>2
<1> HIDE DEF g, P1, w, q
<1>2. q \in DOMAIN P1 /\ P1[q] = [refCount |-> rc, writerCount |-> wc - w] /\ DOMAIN P1 = DOMAIN P
  BY <1>0, <1>p
<1>3. P1 \in [DOMAIN P1 -> PipeRecord]
  BY <1>0, <1>w, <1>p DEF PipeRecord
<1>6. x = Obj(t, Without(F, f), P1)
  BY <1>1 DEF Obj, Without
<1> HIDE DEF x
<1>7. removePipeRef(x, q) = Obj(t, Without(F, f), Released(P1, q, 0))
  BY <1>2, <1>3, <1>6, RemovePipeRefIs
<1>8. Released(P1, q, 0) = Released(P, q, w)
  <2>1. Given(P1, q, 1, 0) = Given(P, q, 1, w)
    <3>1. Given(P1, q, 1, 0) = [P1 EXCEPT ![q] = [refCount |-> rc - 1, writerCount |-> wc - w]]
      <4>1. P1[q].refCount = rc /\ P1[q].writerCount = wc - w
        BY <1>2
      <4>2. (wc - w) - 0 = wc - w
        BY <1>0, <1>w
      <4>. QED
        BY <4>1, <4>2, Zenon DEF Given
    <3>2. Given(P, q, 1, w) = [P EXCEPT ![q] = [refCount |-> rc - 1, writerCount |-> wc - w]]
      BY <1>0, <1>w DEF Given
    <3>. QED
      BY <3>1, <3>2, <1>p
  <2>. QED
    BY <1>0, <1>2, <2>1 DEF Released
<1>. QED
  BY <1>4, <1>7, <1>8 DEF h, q, w


\* The pipes R after a reference of q has been given back: q has one less, or
\* is gone, and no other pipe changes.
LostRef(P, q, w, R) ==
    /\ DOMAIN R = IF P[q].refCount - 1 <= 0 THEN DOMAIN P \ {q} ELSE DOMAIN P
    /\ R \in [DOMAIN R -> PipeRecord]
    /\ \A x \in DOMAIN R \ {q} : R[x] = P[x]
    /\ q \in DOMAIN R => R[q].refCount = P[q].refCount - 1 /\ R[q].writerCount = P[q].writerCount - w

LEMMA ReleasedIs ==
    ASSUME NEW P, P \in [DOMAIN P -> PipeRecord], NEW q \in DOMAIN P, NEW w \in Int
    PROVE  LostRef(P, q, w, Released(P, q, w))
<1> DEFINE G == Given(P, q, 1, w)
           R == Released(P, q, w)
<1>1. /\ DOMAIN G = DOMAIN P /\ G \in [DOMAIN P -> PipeRecord]
      /\ \A x \in DOMAIN P \ {q} : G[x] = P[x]
      /\ G[q].refCount = P[q].refCount - 1
      /\ G[q].writerCount = P[q].writerCount - w
  BY DEF Given, PipeRecord
<1> HIDE DEF G
<1>2. R = IF P[q].refCount - 1 <= 0 THEN Without(G, q) ELSE G
  BY DEF Released, G
<1>3. /\ DOMAIN Without(G, q) = DOMAIN P \ {q}
      /\ Without(G, q) \in [DOMAIN P \ {q} -> PipeRecord]
      /\ \A x \in DOMAIN P \ {q} : Without(G, q)[x] = G[x]
  BY <1>1 DEF Without, Restrict
<1> HIDE DEF R
<1>4. ASSUME P[q].refCount - 1 <= 0
      PROVE  LostRef(P, q, w, R)
  <2>1. R = Without(G, q)
    BY <1>2, <1>4
  <2>2. DOMAIN R = DOMAIN P \ {q} /\ R \in [DOMAIN R -> PipeRecord]
    BY <1>3, <2>1
  <2>3. \A x \in DOMAIN R \ {q} : R[x] = P[x]
    BY <1>1, <1>3, <2>1, <2>2
  <2>. QED
    BY <1>4, <2>2, <2>3 DEF LostRef
<1>5. ASSUME ~(P[q].refCount - 1 <= 0)
      PROVE  LostRef(P, q, w, R)
  <2>1. R = G
    BY <1>2, <1>5
  <2>2. DOMAIN R = DOMAIN P /\ R \in [DOMAIN R -> PipeRecord]
    BY <1>1, <2>1
  <2>3. /\ \A x \in DOMAIN R \ {q} : R[x] = P[x]
        /\ R[q].refCount = P[q].refCount - 1 /\ R[q].writerCount = P[q].writerCount - w
    BY <1>1, <2>1, <2>2
  <2>. QED
    BY <1>5, <2>2, <2>3 DEF LostRef
<1>. QED
  BY <1>4, <1>5 DEF R

\* A loose access that is freed leaves everything exact; its pipe goes with
\* its last access.
LEMMA FreeFileSound ==
    ASSUME NEW h, NEW L, Sound(h, L, {}), NEW f \in L, f # DriverFile,
           HoldersIn(h.fdTable, f) = {}
    PROVE  /\ Sound(freeFileAccess(h, f), L \ {f}, {})
           /\ freeFileAccess(h, f).fdTable = h.fdTable
           /\ freeFileAccess(h, f).file = Without(h.file, f)
<1> DEFINE t == h.fdTable
           H == h.file
           P == h.pipe
           q == H[f].pipe
           w == AsWriter(H[f].flags)
           R == Released(P, q, w)
           F == Without(H, f)
           g == freeFileAccess(h, f)
<1>h. h = Obj(t, H, P) /\ h.fdTable = t /\ h.file = H /\ h.pipe = P
  BY ShapeIsObj DEF Sound
<1>0. /\ f \in DOMAIN H /\ q \in DOMAIN P
      /\ P \in [DOMAIN P -> PipeRecord] /\ IsFiniteSet(DOMAIN H)
      /\ IsFiniteSet(DOMAIN P)
      /\ H \in [DOMAIN H -> FileRecord]
  BY DEF Sound, Shape, Points, FilesCounted
<1>w. w \in Int
  BY DEF AsWriter
<1> HIDE DEF t, H, P
<1>1. g = Obj(t, F, R)
  BY <1>0, <1>h, FreeFileIs
<1>g. g.fdTable = t /\ g.file = F /\ g.pipe = R
  BY <1>1, Parts
<1> HIDE DEF g
<1>2. DOMAIN F = DOMAIN H \ {f} /\ (\A x \in DOMAIN F : F[x] = H[x]) /\ F \in [DOMAIN F -> FileRecord]
  BY <1>0 DEF Without, Restrict
<1>3. IsFiniteSet(DOMAIN F)
  BY <1>0, <1>2, FS_RemoveElement
<1> HIDE DEF q, w
<1>5. /\ DOMAIN R = IF P[q].refCount - 1 <= 0 THEN DOMAIN P \ {q} ELSE DOMAIN P
      /\ R \in [DOMAIN R -> PipeRecord]
      /\ \A x \in DOMAIN R \ {q} : R[x] = P[x]
      /\ q \in DOMAIN R => R[q].refCount = P[q].refCount - 1 /\ R[q].writerCount = P[q].writerCount - w
  <2>1. LostRef(P, q, w, R)
    BY <1>0, <1>w, ReleasedIs
  <2> HIDE DEF R
  <2>. QED
    BY <2>1 DEF LostRef
<1>8. ASSUME NEW x
      PROVE  /\ Cardinality(AccessesOf(H, x)) \in Nat /\ Cardinality(WritersOf(H, x)) \in Nat
             /\ Cardinality(AccessesOf(F, x)) = Cardinality(AccessesOf(H, x)) - (IF q = x THEN 1 ELSE 0)
             /\ Cardinality(WritersOf(F, x)) = Cardinality(WritersOf(H, x)) - (IF q = x THEN w ELSE 0)
  <2>1. /\ Cardinality(AccessesOf(H, x)) \in Nat /\ Cardinality(WritersOf(H, x)) \in Nat
        /\ Cardinality(AccessesOf(F, x)) =
             Cardinality(AccessesOf(H, x)) - (IF H[f].pipe = x THEN 1 ELSE 0)
        /\ Cardinality(WritersOf(F, x)) =
             Cardinality(WritersOf(H, x)) - (IF H[f].pipe = x /\ "write" \in H[f].flags THEN 1 ELSE 0)
    BY <1>0, AccessDropped
  <2>2. (IF H[f].pipe = x /\ "write" \in H[f].flags THEN 1 ELSE 0) = (IF q = x THEN w ELSE 0)
    BY DEF q, w, AsWriter
  <2>. QED
    BY <2>1, <2>2 DEF q
<1> HIDE DEF F, R
<1>7. Shape(g)
  <2>1. DOMAIN R \in SUBSET DOMAIN P
    BY <1>5
  <2>2. IsFiniteSet(DOMAIN R)
    BY <1>0, <2>1, FS_Subset
  <2>. QED
    BY <1>h, <1>1, <1>g, <1>2, <1>3, <1>5, <2>1, <2>2 DEF Sound, Shape, Obj
<1>9. ASSUME NEW x \in DOMAIN P
      PROVE  /\ P[x].refCount = Cardinality(AccessesOf(H, x))
             /\ P[x].writerCount = Cardinality(WritersOf(H, x))
             /\ P[x].refCount > 0
  BY <1>h DEF Sound, PipesCounted
<1>10. PipesCounted(g, {})
  <2>1. ASSUME NEW x \in DOMAIN R
        PROVE  /\ R[x].refCount = Cardinality(AccessesOf(F, x))
               /\ R[x].writerCount = Cardinality(WritersOf(F, x))
               /\ R[x].refCount > 0
    <3>1. x \in DOMAIN P
      BY <1>5
    <3>2. CASE x = q
      <4>1. R[x].refCount = P[x].refCount - 1 /\ R[x].writerCount = P[x].writerCount - w
        BY <1>5, <3>2
      <4>2. ~(P[x].refCount - 1 <= 0)
        BY <1>5, <3>2
      <4>. QED
        BY <1>8, <1>9, <3>1, <3>2, <4>1, <4>2
    <3>3. CASE x # q
      BY <1>5, <1>8, <1>9, <3>1, <3>3
    <3>. QED
      BY <3>2, <3>3
  <2>. QED
    BY <1>g, <2>1 DEF PipesCounted
<1>11. Points(g)
  <2>1. \A p \in Procs, fd \in FDs : t[p][fd] # f
    <3> SUFFICES ASSUME NEW p \in Procs, NEW fd \in FDs, t[p][fd] = f
                 PROVE  FALSE
      OBVIOUS
    <3>1. <<p, fd>> \in HoldersIn(t, f)
      BY DEF HoldersIn, Slots
    <3>. QED
      BY <1>h, <3>1
  <2>2. ASSUME NEW x \in DOMAIN F
        PROVE  F[x].pipe \in DOMAIN R
    <3>1. F[x].pipe \in DOMAIN P
      BY <1>h, <1>2 DEF Sound, Points
    <3>2. CASE P[q].refCount - 1 <= 0
      <4>1. P[q].refCount = Cardinality(AccessesOf(H, q)) /\ P[q].refCount > 0
        BY <1>0, <1>9
      <4>2. Cardinality(AccessesOf(F, q)) = 0
        BY <1>8, <3>2, <4>1
      <4>3. AccessesOf(F, q) = {}
        <5>1. AccessesOf(F, q) \in SUBSET DOMAIN F
          BY DEF AccessesOf
        <5>2. IsFiniteSet(AccessesOf(F, q))
          BY <1>3, <5>1, FS_Subset
        <5>. QED
          BY <4>2, <5>2, FS_EmptySet
      <4>4. F[x].pipe # q
        BY <4>3 DEF AccessesOf
      <4>. QED
        BY <1>5, <3>1, <3>2, <4>4
    <3>3. CASE ~(P[q].refCount - 1 <= 0)
      BY <1>5, <3>1, <3>3
    <3>. QED
      BY <3>2, <3>3
  <2>. QED
    BY <1>h, <1>g, <1>2, <2>1, <2>2 DEF Sound, Points
<1>12. FilesCounted(g, L \ {f})
  BY <1>h, <1>g, <1>2 DEF Sound, FilesCounted
<1>. QED
  BY <1>g, <1>7, <1>10, <1>11, <1>12 DEF Sound, g, t, F, H

-----------------------------------------------------------------------------
(* One slot *)

\* Two states of the objects agree on the pipe and the flags of an access.
Alike(F, G) == \A f \in DOMAIN F \cap DOMAIN G : F[f].pipe = G[f].pipe /\ F[f].flags = G[f].flags

\* The assignments to one field.
LEMMA SlotAssigned ==
    ASSUME NEW h, NEW t, NEW F, NEW P, h = Obj(t, F, P), NEW p, NEW fd, NEW b
    PROVE  [h EXCEPT !.fdTable[p][fd] = b] = Obj(SetSlot(t, p, fd, b), F, P)
  BY DEF Obj, SetSlot

LEMMA RefAdded ==
    ASSUME NEW t, NEW F, NEW P, NEW f
    PROVE  addFileRef(Obj(t, F, P), f) = Obj(t, AddRef(F, f, 1), P)
  BY DEF Obj, AddRef, addFileRef

\* The accesses G are F with n more references to f.
Referenced(F, f, n, G) ==
    /\ DOMAIN G = DOMAIN F /\ G \in [DOMAIN F -> FileRecord] /\ Alike(G, F)
    /\ G[f].refCount = F[f].refCount + n
    /\ \A x \in DOMAIN F \ {f} : G[x] = F[x]

LEMMA AddRefIs ==
    ASSUME NEW F, F \in [DOMAIN F -> FileRecord], NEW f \in DOMAIN F, NEW n \in Int
    PROVE  Referenced(F, f, n, AddRef(F, f, n))
<1> DEFINE G == AddRef(F, f, n)
<1>1. DOMAIN G = DOMAIN F /\ G \in [DOMAIN F -> FileRecord] /\ G[f].refCount = F[f].refCount + n
  BY DEF AddRef, FileRecord
<1>2. \A x \in DOMAIN F \ {f} : G[x] = F[x]
  BY DEF AddRef
<1>3. Alike(G, F)
  BY DEF AddRef, FileRecord, Alike
<1>. QED
  BY <1>1, <1>2, <1>3 DEF Referenced

\* Slots and reference counts may change together; the pipes are untouched.
LEMMA Recounted ==
    ASSUME NEW h, NEW L, Sound(h, L, {}), NEW u \in [Procs -> [FDs -> Nat]],
           \A p \in Procs, fd \in FDs : u[p][fd] \in DOMAIN h.file \cup {Null},
           NEW F \in [DOMAIN h.file -> FileRecord], Alike(F, h.file),
           NEW M, FilesCounted(Obj(u, F, h.pipe), M)
    PROVE  Sound(Obj(u, F, h.pipe), M, {})
<1> DEFINE g == Obj(u, F, h.pipe)
<1>1. g.fdTable = u /\ g.file = F /\ g.pipe = h.pipe /\ g = Obj(g.fdTable, g.file, g.pipe)
  BY Parts
<1> HIDE DEF g
<1>2. DOMAIN F = DOMAIN h.file
  OBVIOUS
<1>3. Shape(g)
  BY <1>1, <1>2 DEF Sound, Shape, Obj
<1>4. Points(g)
  BY <1>1, <1>2 DEF Sound, Points, Alike
<1>5. PipesCounted(g, {})
  <2>1. \A q : AccessesOf(F, q) = AccessesOf(h.file, q) /\ WritersOf(F, q) = WritersOf(h.file, q)
    BY <1>2 DEF AccessesOf, WritersOf, Alike
  <2>. QED
    BY <1>1, <2>1 DEF Sound, PipesCounted
<1>. QED
  BY <1>3, <1>4, <1>5 DEF Sound, g

\* An access goes into a free slot and gets a reference.
LEMMA FillSlot ==
    ASSUME NEW h, NEW L, Sound(h, L, {}), NEW p \in Procs, NEW fd \in FDs,
           h.fdTable[p][fd] = Null, NEW f \in DOMAIN h.file
    PROVE  LET g == addFileRef([h EXCEPT !.fdTable[p][fd] = f], f)
           IN  /\ Sound(g, L \ {f}, {})
               /\ g = Obj(SetSlot(h.fdTable, p, fd, f), AddRef(h.file, f, 1), h.pipe)
<1> DEFINE t == h.fdTable
           H == h.file
           P == h.pipe
           u == SetSlot(t, p, fd, f)
           F == AddRef(H, f, 1)
           g == addFileRef([h EXCEPT !.fdTable[p][fd] = f], f)
<1>h. h = Obj(t, H, P) /\ h.fdTable = t /\ h.file = H /\ h.pipe = P
  BY ShapeIsObj DEF Sound
<1>0. /\ H \in [DOMAIN H -> FileRecord] /\ t \in [Procs -> [FDs -> Nat]]
      /\ DOMAIN H \subseteq Address /\ f \in DOMAIN H /\ f \in Nat /\ f # Null /\ t[p][fd] = Null
  BY DEF Sound, Shape, Address
<1> HIDE DEF t, H, P
<1>1. [h EXCEPT !.fdTable[p][fd] = f] = Obj(u, H, P)
  BY <1>h, SlotAssigned
<1>2. addFileRef(Obj(u, H, P), f) = Obj(u, F, P)
  BY RefAdded
<1>3. /\ DOMAIN F = DOMAIN H /\ F \in [DOMAIN H -> FileRecord] /\ Alike(F, H)
      /\ F[f].refCount = H[f].refCount + 1 /\ \A x \in DOMAIN H \ {f} : F[x] = H[x]
  <2>1. Referenced(H, f, 1, F)
    BY <1>0, AddRefIs
  <2>. QED
    BY <2>1 DEF Referenced
<1>4. /\ u \in [Procs -> [FDs -> Nat]]
      /\ \A x \in Procs, y \in FDs : u[x][y] = IF x = p /\ y = fd THEN f ELSE t[x][y]
  <2>1. SlotWas(t, p, fd, f, u)
    BY <1>0, SlotIs
  <2>. QED
    BY <2>1 DEF SlotWas
<1>5. /\ Cardinality(HoldersIn(u, f)) = Cardinality(HoldersIn(t, f)) + 1
      /\ \A x : x # f /\ x # Null => Cardinality(HoldersIn(u, x)) = Cardinality(HoldersIn(t, x))
  <2>1. t[p][fd] # f
    BY <1>0
  <2>. QED
    BY <1>0, <2>1, SlotSet
<1> HIDE DEF u, F
<1>6. FilesCounted(Obj(u, F, P), L \ {f})
  <2>1. ASSUME NEW x \in DOMAIN F
        PROVE  /\ F[x].refCount = Cardinality(HoldersIn(u, x)) + Driver(x)
               /\ x \notin L \ {f} => F[x].refCount > 0
    <3>1. /\ H[x].refCount = Cardinality(HoldersIn(t, x)) + Driver(x)
          /\ x \notin L => H[x].refCount > 0
      BY <1>h, <1>3 DEF Sound, FilesCounted
    <3>2. Cardinality(HoldersIn(t, x)) \in Nat /\ Driver(x) \in Nat
      BY HoldersFinite DEF Driver
    <3>3. CASE x = f
      <4>1. F[x].refCount = H[x].refCount + 1
        BY <1>3, <3>3
      <4>2. Cardinality(HoldersIn(u, x)) = Cardinality(HoldersIn(t, x)) + 1
        BY <1>5, <3>3
      <4>. QED
        BY <3>1, <3>2, <4>1, <4>2
    <3>4. CASE x # f
      <4>1. x # Null
        BY <1>0, <1>3 DEF Address
      <4>2. F[x] = H[x] /\ Cardinality(HoldersIn(u, x)) = Cardinality(HoldersIn(t, x))
        BY <1>3, <1>5, <3>4, <4>1
      <4>. QED
        BY <3>1, <3>4, <4>2
    <3>. QED
      BY <3>3, <3>4
  <2>2. L \ {f} \subseteq DOMAIN F
    BY <1>h, <1>3 DEF Sound, FilesCounted
  <2>. QED
    BY <2>1, <2>2, Parts DEF FilesCounted
<1>7. \A x \in Procs, y \in FDs : u[x][y] \in DOMAIN H \cup {Null}
  BY <1>h, <1>0, <1>4 DEF Sound, Points
<1>8. Sound(Obj(u, F, P), L \ {f}, {})
  BY <1>h, <1>3, <1>4, <1>6, <1>7, Recounted
<1>. QED
  BY <1>1, <1>2, <1>8 DEF u, F, t, H, P

\* removeFileRef: one reference less, and the access freed with the last one.
LEMMA RemoveFileRefIs ==
    ASSUME NEW t, NEW F, NEW P, F \in [DOMAIN F -> FileRecord], NEW f \in DOMAIN F
    PROVE  removeFileRef(Obj(t, F, P), f) =
               IF F[f].refCount - 1 <= 0 THEN freeFileAccess(Obj(t, AddRef(F, f, -1), P), f)
               ELSE Obj(t, AddRef(F, f, -1), P)
<1> DEFINE h == Obj(t, F, P)
           x == [h EXCEPT !.file[f].refCount = @ - 1]
           G == AddRef(F, f, -1)
<1>1. Referenced(F, f, -1, G)
  BY AddRefIs
<1>2. G = [F EXCEPT ![f].refCount = @ - 1]
  <2> DEFINE n == F[f].refCount
  <2>1. n \in Int
    BY DEF FileRecord
  <2>2. n + (-1) = n - 1
    BY <2>1
  <2>3. G = [F EXCEPT ![f].refCount = n + (-1)]
    BY DEF AddRef
  <2>4. [F EXCEPT ![f].refCount = @ - 1] = [F EXCEPT ![f].refCount = n - 1]
    OBVIOUS
  <2>. QED
    BY <2>2, <2>3, <2>4
<1> HIDE DEF G
<1>3. x = Obj(t, G, P)
  BY <1>2 DEF Obj
<1>4. G[f].refCount = F[f].refCount - 1
  BY <1>1 DEF Referenced, FileRecord
<1>5. removeFileRef(h, f) = IF x.file[f].refCount <= 0 THEN freeFileAccess(x, f) ELSE x
  <2> HIDE DEF x, h
  <2>1. removeFileRef(h, f) = Then(x, LAMBDA y : IF y.file[f].refCount <= 0 THEN freeFileAccess(y, f) ELSE y)
    BY DEF removeFileRef, x
  <2>. QED
    BY <2>1 DEF Then
<1> HIDE DEF x, h
<1>6. x.file = G
  BY <1>3, Parts
<1>7. removeFileRef(h, f) = IF F[f].refCount - 1 <= 0 THEN freeFileAccess(Obj(t, G, P), f) ELSE Obj(t, G, P)
  BY <1>3, <1>4, <1>5, <1>6
<1>. QED
  BY <1>7 DEF h, G

\* A slot is emptied and its access loses a reference; the access is then
\* loose.
LEMMA EmptySlot ==
    ASSUME NEW h, NEW L, Sound(h, L, {}), NEW p \in Procs, NEW fd \in FDs,
           NEW f, f = h.fdTable[p][fd], f # Null,
           NEW u, u = SetSlot(h.fdTable, p, fd, Null), NEW F, F = AddRef(h.file, f, -1)
    PROVE  /\ Sound(Obj(u, F, h.pipe), L \cup {f}, {})
           /\ f \in DOMAIN h.file /\ Referenced(h.file, f, -1, F)
           /\ SlotWas(h.fdTable, p, fd, Null, u)
           /\ F[f].refCount = Cardinality(HoldersIn(u, f)) + Driver(f)
<1> DEFINE t == h.fdTable
           H == h.file
           P == h.pipe
<1>h. h = Obj(t, H, P) /\ h.fdTable = t /\ h.file = H /\ h.pipe = P
  BY ShapeIsObj DEF Sound
<1>0. /\ H \in [DOMAIN H -> FileRecord] /\ t \in [Procs -> [FDs -> Nat]]
      /\ DOMAIN H \subseteq Address /\ f \in DOMAIN H /\ f \in Nat /\ t[p][fd] = f /\ Null \in Nat
      /\ u = SetSlot(t, p, fd, Null) /\ F = AddRef(H, f, -1)
  BY DEF Sound, Shape, Address, Points, Null
<1> HIDE DEF t, H, P
<1>r. Referenced(H, f, -1, F)
  BY <1>0, AddRefIs
<1>s. SlotWas(t, p, fd, Null, u)
  BY <1>0, SlotIs
<1>3. /\ DOMAIN F = DOMAIN H /\ F \in [DOMAIN H -> FileRecord] /\ Alike(F, H)
      /\ F[f].refCount = H[f].refCount - 1 /\ \A x \in DOMAIN H \ {f} : F[x] = H[x]
  BY <1>r, <1>0 DEF Referenced, FileRecord
<1>4. /\ u \in [Procs -> [FDs -> Nat]]
      /\ \A x \in Procs, y \in FDs : u[x][y] = IF x = p /\ y = fd THEN Null ELSE t[x][y]
  BY <1>s DEF SlotWas
<1>5. /\ Cardinality(HoldersIn(u, f)) = Cardinality(HoldersIn(t, f)) - 1
      /\ \A x : x # f /\ x # Null => Cardinality(HoldersIn(u, x)) = Cardinality(HoldersIn(t, x))
  <2>1. t[p][fd] # Null
    BY <1>0
  <2>. QED
    BY <1>0, <2>1, SlotSet
<1>6. ASSUME NEW x \in DOMAIN F
      PROVE  /\ F[x].refCount = Cardinality(HoldersIn(u, x)) + Driver(x)
             /\ x \notin L \cup {f} => F[x].refCount > 0
  <2>1. /\ H[x].refCount = Cardinality(HoldersIn(t, x)) + Driver(x)
        /\ x \notin L => H[x].refCount > 0
    BY <1>h, <1>3 DEF Sound, FilesCounted
  <2>2. Cardinality(HoldersIn(t, x)) \in Nat /\ Driver(x) \in Nat
    BY HoldersFinite DEF Driver
  <2>3. CASE x = f
    <3>1. F[x].refCount = H[x].refCount - 1
      BY <1>3, <2>3
    <3>2. Cardinality(HoldersIn(u, x)) = Cardinality(HoldersIn(t, x)) - 1
      BY <1>5, <2>3
    <3>. QED
      BY <2>1, <2>2, <2>3, <3>1, <3>2
  <2>4. CASE x # f
    <3>1. x # Null
      BY <1>0, <1>3 DEF Address
    <3>2. F[x] = H[x] /\ Cardinality(HoldersIn(u, x)) = Cardinality(HoldersIn(t, x))
      BY <1>3, <1>5, <2>4, <3>1
    <3>. QED
      BY <2>1, <2>4, <3>2
  <2>. QED
    BY <2>3, <2>4
<1>7. FilesCounted(Obj(u, F, P), L \cup {f})
  <2>1. L \cup {f} \subseteq DOMAIN F
    BY <1>0, <1>h, <1>3 DEF Sound, FilesCounted
  <2>. QED
    BY <1>6, <2>1, Parts DEF FilesCounted
<1>8. \A x \in Procs, y \in FDs : u[x][y] \in DOMAIN H \cup {Null}
  BY <1>h, <1>0, <1>4 DEF Sound, Points
<1>9. Sound(Obj(u, F, P), L \cup {f}, {})
  BY <1>h, <1>3, <1>4, <1>7, <1>8, Recounted
<1>. QED
  BY <1>0, <1>3, <1>6, <1>9, <1>r, <1>s DEF t, H, P

\* g is h without what the slot fd of p held.
Closed(h, p, fd, g) ==
    /\ g.fdTable = IF fd \in FDs THEN SetSlot(h.fdTable, p, fd, Null) ELSE h.fdTable
    /\ DOMAIN g.file \subseteq DOMAIN h.file /\ Alike(g.file, h.file)

LEMMA CloseFdSound ==
    ASSUME NEW h, NEW L, Sound(h, L, {}), NEW p \in Procs, NEW fd,
           fd \in FDs => h.fdTable[p][fd] \notin L
    PROVE  Sound(closeFd(h, p, fd), L, {}) /\ Closed(h, p, fd, closeFd(h, p, fd))
<1> DEFINE t == h.fdTable
           H == h.file
           P == h.pipe
           f == t[p][fd]
           g == closeFd(h, p, fd)
<1>h. h = Obj(t, H, P) /\ h.fdTable = t /\ h.file = H /\ h.pipe = P
  BY ShapeIsObj DEF Sound
<1>t. t \in [Procs -> [FDs -> Nat]] /\ H \in [DOMAIN H -> FileRecord]
  BY DEF Sound, Shape
<1>1. g = IF ~isOpenFd(h, p, fd) THEN h
          ELSE removeFileRef([h EXCEPT !.fdTable[p][fd] = Null], f)
  BY DEF closeFd, Then
<1>2. isOpenFd(h, p, fd) <=> fd \in FDs /\ f # Null
  BY DEF isOpenFd
<1> HIDE DEF g, t, H, P
<1>3. CASE ~isOpenFd(h, p, fd)
  <2>1. g = h
    BY <1>1, <1>3
  <2>2. fd \in FDs => SetSlot(t, p, fd, Null) = t
    BY <1>2, <1>3, <1>t DEF SetSlot
  <2>3. Alike(h.file, h.file)
    BY DEF Alike
  <2>. QED
    BY <1>h, <2>1, <2>2, <2>3 DEF Closed, g
<1>4. CASE isOpenFd(h, p, fd)
  <2> DEFINE u == SetSlot(t, p, fd, Null)
             F == AddRef(H, f, -1)
             x == Obj(u, F, P)
  <2>0. fd \in FDs /\ f # Null /\ f \notin L
    BY <1>2, <1>4, <1>h DEF t
  <2>1. /\ Sound(x, L \cup {f}, {})
        /\ f \in DOMAIN H /\ Referenced(H, f, -1, F)
        /\ F[f].refCount = Cardinality(HoldersIn(u, f)) + Driver(f)
    <3> HIDE DEF f, u, F
    <3>1. f = t[p][fd] /\ u = SetSlot(t, p, fd, Null) /\ F = AddRef(H, f, -1)
      BY DEF f, u, F
    <3>. QED
      BY <1>h, <2>0, <3>1, EmptySlot
  <2>2. [h EXCEPT !.fdTable[p][fd] = Null] = Obj(u, H, P)
    BY <1>h, SlotAssigned
  <2>3. removeFileRef(Obj(u, H, P), f) = IF H[f].refCount - 1 <= 0 THEN freeFileAccess(x, f) ELSE x
    BY <1>t, <2>1, RemoveFileRefIs
  <2> HIDE DEF f, u, F
  <2>4. x.fdTable = u /\ x.file = F /\ x.pipe = P
    BY Parts
  <2> HIDE DEF x
  <2>5. g = IF H[f].refCount - 1 <= 0 THEN freeFileAccess(x, f) ELSE x
    BY <1>1, <1>4, <2>2, <2>3
  <2>6. DOMAIN F = DOMAIN H /\ Alike(F, H) /\ F[f].refCount = H[f].refCount - 1 /\ F[f].refCount \in Int
    BY <1>t, <2>1 DEF Referenced, FileRecord
  <2>7. CASE H[f].refCount - 1 <= 0
    <3>0. IsFiniteSet(HoldersIn(u, f)) /\ Cardinality(HoldersIn(u, f)) \in Nat /\ Driver(f) \in Nat
      BY HoldersFinite DEF Driver
    <3>1. Cardinality(HoldersIn(u, f)) = 0 /\ Driver(f) = 0
      BY <2>1, <2>6, <2>7, <3>0
    <3>2. HoldersIn(x.fdTable, f) = {} /\ f # DriverFile
      BY <2>4, <3>0, <3>1, FS_EmptySet DEF Driver
    <3>3. /\ Sound(freeFileAccess(x, f), (L \cup {f}) \ {f}, {})
          /\ freeFileAccess(x, f).fdTable = u
          /\ freeFileAccess(x, f).file = Without(F, f)
      BY <2>1, <2>4, <3>2, FreeFileSound
    <3>4. (L \cup {f}) \ {f} = L
      BY <2>0
    <3>5. DOMAIN Without(F, f) \subseteq DOMAIN H /\ Alike(Without(F, f), H)
      BY <2>6 DEF Without, Restrict, Alike
    <3>. QED
      BY <1>h, <2>0, <2>5, <2>7, <3>3, <3>4, <3>5 DEF Closed, g, u
  <2>8. CASE ~(H[f].refCount - 1 <= 0)
    <3>1. FilesCounted(x, L)
      BY <2>1, <2>4, <2>6, <2>8 DEF Sound, FilesCounted
    <3>2. Sound(x, L, {})
      BY <2>1, <3>1 DEF Sound
    <3>. QED
      BY <1>h, <2>0, <2>4, <2>5, <2>6, <2>8, <3>2 DEF Closed, g, u
  <2>. QED
    BY <2>7, <2>8
<1>. QED
  BY <1>3, <1>4

-----------------------------------------------------------------------------
(* The calls on one table *)

\* g is h with the access f in the slot fd of p.
Opened(h, p, fd, f, g) ==
    /\ g.fdTable = SetSlot(h.fdTable, p, fd, f)
    /\ DOMAIN g.file = DOMAIN h.file /\ Alike(g.file, h.file)

LEMMA OpenFdSound ==
    ASSUME NEW h, NEW L, Sound(h, L, {}), NEW p \in Procs, NEW fd \in FDs,
           h.fdTable[p][fd] = Null, NEW f \in DOMAIN h.file
    PROVE  /\ Sound(openFd(h, p, f, fd), L \ {f}, {}) /\ Opened(h, p, fd, f, openFd(h, p, f, fd))
           /\ openFd(h, p, f, fd) = addFileRef([h EXCEPT !.fdTable[p][fd] = f], f)
<1> DEFINE g == addFileRef([h EXCEPT !.fdTable[p][fd] = f], f)
<1>1. openFd(h, p, f, fd) = g
  BY DEF openFd, Then, isOpenFd
<1>2. /\ Sound(g, L \ {f}, {})
      /\ g = Obj(SetSlot(h.fdTable, p, fd, f), AddRef(h.file, f, 1), h.pipe)
  BY FillSlot
<1> HIDE DEF g
<1>3. Referenced(h.file, f, 1, AddRef(h.file, f, 1))
  BY AddRefIs DEF Sound, Shape
<1>4. Opened(h, p, fd, f, g)
  BY <1>2, <1>3, Parts DEF Opened, Referenced
<1>. QED
  BY <1>1, <1>2, <1>4 DEF g

\* addFd's slot is a free one, or -1 with none left.
LEMMA FirstFreeIs ==
    ASSUME NEW h, NEW p
    PROVE  \/ FirstFree(h, p) = -1 /\ \A fd \in FDs : h.fdTable[p][fd] # Null
           \/ FirstFree(h, p) \in FDs /\ h.fdTable[p][FirstFree(h, p)] = Null
<1> DEFINE Free == {fd \in FDs : ~isOpenFd(h, p, fd)}
<1>1. FirstFree(h, p) = IF Free = {} THEN -1 ELSE CHOOSE fd \in Free : \A g \in Free : fd <= g
  BY DEF FirstFree
<1>2. CASE Free = {}
  BY <1>1, <1>2 DEF isOpenFd
<1>3. CASE Free # {}
  <2>1. Free \in SUBSET Nat
    BY SlotsFinite
  <2> HIDE DEF Free
  <2>2. \E fd \in Free : \A g \in Free : fd <= g
    BY <1>3, <2>1, LeastNatural
  <2>3. FirstFree(h, p) \in Free
    BY <1>1, <1>3, <2>2
  <2>. QED
    BY <2>3 DEF Free, isOpenFd
<1>. QED
  BY <1>2, <1>3

\* dupFd leaves in newFd what oldFd holds, and nothing if it holds nothing.
Duplicated(h, p, oldFd, newFd, g) ==
    /\ g.fdTable = IF newFd \notin FDs \/ oldFd = newFd THEN h.fdTable
                   ELSE SetSlot(h.fdTable, p, newFd,
                                IF oldFd \in FDs THEN h.fdTable[p][oldFd] ELSE Null)
    /\ DOMAIN g.file \subseteq DOMAIN h.file /\ Alike(g.file, h.file)

LEMMA DupFdSound ==
    ASSUME NEW h, Sound(h, {}, {}), NEW p \in Procs, NEW oldFd, NEW newFd
    PROVE  Sound(dupFd(h, p, oldFd, newFd), {}, {}) /\ Duplicated(h, p, oldFd, newFd, dupFd(h, p, oldFd, newFd))
<1> DEFINE t == h.fdTable
           f == t[p][oldFd]
           c == closeFd(h, p, newFd)
           g == dupFd(h, p, oldFd, newFd)
<1>1. g = IF newFd \notin FDs \/ oldFd = newFd THEN h
          ELSE IF ~isOpenFd(h, p, oldFd) THEN c
          ELSE addFileRef([c EXCEPT !.fdTable[p][newFd] = f], f)
  BY DEF dupFd, Then
<1>2. isOpenFd(h, p, oldFd) <=> oldFd \in FDs /\ f # Null
  BY DEF isOpenFd
<1>3. Sound(c, {}, {}) /\ Closed(h, p, newFd, c)
  BY CloseFdSound
<1>4. t \in [Procs -> [FDs -> Nat]] /\ Null \in Nat
  BY DEF Sound, Shape, Null
<1> HIDE DEF g, c
<1>5. CASE newFd \notin FDs \/ oldFd = newFd
  BY <1>1, <1>5 DEF Duplicated, Alike, g
<1>6. CASE newFd \in FDs /\ oldFd # newFd /\ ~isOpenFd(h, p, oldFd)
  BY <1>1, <1>2, <1>3, <1>6 DEF Duplicated, Closed, g
<1>7. CASE newFd \in FDs /\ oldFd # newFd /\ isOpenFd(h, p, oldFd)
  <2> DEFINE u == SetSlot(t, p, newFd, Null)
  <2>1. c.fdTable = u /\ DOMAIN c.file \subseteq DOMAIN h.file /\ Alike(c.file, h.file)
    BY <1>3, <1>7 DEF Closed
  <2>2. u[p][newFd] = Null /\ u[p][oldFd] = f
    BY <1>2, <1>4, <1>7 DEF SetSlot
  <2>3. f \in DOMAIN c.file
    BY <1>2, <1>3, <1>7, <2>1, <2>2 DEF Sound, Points
  <2>4. /\ Sound(openFd(c, p, f, newFd), {} \ {f}, {}) /\ Opened(c, p, newFd, f, openFd(c, p, f, newFd))
        /\ openFd(c, p, f, newFd) = addFileRef([c EXCEPT !.fdTable[p][newFd] = f], f)
    <3> HIDE DEF u, f
    <3>1. c.fdTable[p][newFd] = Null /\ newFd \in FDs
      BY <1>7, <2>1, <2>2
    <3>. QED
      BY <1>3, <2>3, <3>1, OpenFdSound
  <2>5. g = openFd(c, p, f, newFd)
    BY <1>1, <1>7, <2>4
  <2>6. SetSlot(u, p, newFd, f) = SetSlot(t, p, newFd, f)
    BY <1>4, <1>7 DEF SetSlot
  <2> HIDE DEF f, u
  <2>7. g.fdTable = SetSlot(t, p, newFd, f) /\ DOMAIN g.file = DOMAIN c.file /\ Alike(g.file, c.file)
    BY <2>1, <2>4, <2>5, <2>6 DEF Opened
  <2>8. {} \ {f} = {}
    OBVIOUS
  <2>. QED
    BY <1>2, <1>7, <2>1, <2>4, <2>5, <2>7, <2>8 DEF Duplicated, Alike, g, f
<1>. QED
  BY <1>5, <1>6, <1>7

-----------------------------------------------------------------------------
(* Whole tables *)

\* closeAllFDs closes the descriptors in order.
LEMMA CloseAllSteps ==
    ASSUME NEW h, NEW p
    PROVE  \E g : /\ closeAllFDs(h, p) = g[MAX_FDS] /\ g[0] = h
                  /\ \A i \in 1 .. MAX_FDS : g[i] = closeFd(g[i - 1], p, i - 1)
<1> DEFINE Rec(n, k) == k = [i \in 0 .. n |-> IF i = 0 THEN h ELSE closeFd(k[i - 1], p, i - 1)]
           T == {n \in Nat : ~\E k : Rec(n, k)}
<1>1. T = {}
  <2> SUFFICES ASSUME T # {} PROVE FALSE
    OBVIOUS
  <2>1. PICK n \in T : \A m \in T : n <= m
    <3>1. T \in SUBSET Nat
      OBVIOUS
    <3> HIDE DEF T
    <3>. QED
      BY <3>1, LeastNatural
  <2>2. Rec(0, [i \in 0 .. 0 |-> h])
    OBVIOUS
  <2>3. n # 0 /\ n \in Nat
    BY <2>2
  <2>4. n - 1 \in Nat /\ n - 1 \notin T
    <3> HIDE DEF T
    <3>. QED
      BY <2>1, <2>3
  <2>5. PICK k : Rec(n - 1, k)
    BY <2>4
  <2> DEFINE j == [i \in 0 .. n |-> IF i = n THEN closeFd(k[n - 1], p, n - 1) ELSE k[i]]
  <2>6. ASSUME NEW i \in 0 .. n
        PROVE  j[i] = IF i = 0 THEN h ELSE closeFd(j[i - 1], p, i - 1)
    <3>1. CASE i = n
      <4>1. j[i - 1] = k[n - 1]
        BY <2>3, <3>1
      <4>. QED
        BY <2>3, <3>1, <4>1
    <3>2. CASE i # n
      <4>1. i \in 0 .. n - 1
        BY <2>3, <3>2
      <4>2. k[i] = IF i = 0 THEN h ELSE closeFd(k[i - 1], p, i - 1)
        BY <2>5, <4>1
      <4>3. i # 0 => j[i - 1] = k[i - 1]
        BY <2>3, <3>2
      <4>. QED
        BY <3>2, <4>2, <4>3
    <3>. QED
      BY <3>1, <3>2
  <2>7. j = [i \in 0 .. n |-> j[i]]
    OBVIOUS
  <2> HIDE DEF j
  <2>8. Rec(n, j)
    BY <2>6, <2>7
  <2>. QED
    BY <2>1, <2>8
<1>2. MAX_FDS \in Nat
  BY FilesAssumption
<1>3. \E k : Rec(MAX_FDS, k)
  BY <1>1, <1>2
<1> DEFINE g == CHOOSE k : Rec(MAX_FDS, k)
<1>4. Rec(MAX_FDS, g)
  BY <1>3
<1>5. closeAllFDs(h, p) = g[MAX_FDS]
  BY DEF closeAllFDs
<1> HIDE DEF g
<1>6. g[0] = h /\ \A i \in 1 .. MAX_FDS : g[i] = closeFd(g[i - 1], p, i - 1)
  BY <1>2, <1>4
<1>. QED
  BY <1>5, <1>6


\* The step of copyFdTable for descriptor fd, and of the overrides for one.
CopyStep(h, g, p, source, fd) ==
    IF h.fdTable[source][fd] = Null THEN closeFd(g, p, fd)
    ELSE openFd(closeFd(g, p, fd), p, h.fdTable[source][fd], fd)

OverrideStep(g, p, o) == IF o[2] = -1 THEN closeFd(g, p, o[1]) ELSE dupFd(g, p, o[2], o[1])

\* copyFdTable goes through the descriptors in order.
LEMMA CopySteps ==
    ASSUME NEW h, NEW p, NEW source
    PROVE  \E g : /\ copyFdTable(h, p, source) = g[MAX_FDS] /\ g[0] = h
                  /\ \A i \in 1 .. MAX_FDS : g[i] = CopyStep(h, g[i - 1], p, source, i - 1)
<1> DEFINE Rec(n, k) == k = [i \in 0 .. n |-> IF i = 0 THEN h ELSE CopyStep(h, k[i - 1], p, source, i - 1)]
           T == {n \in Nat : ~\E k : Rec(n, k)}
<1>1. T = {}
  <2> SUFFICES ASSUME T # {} PROVE FALSE
    OBVIOUS
  <2>1. PICK n \in T : \A m \in T : n <= m
    <3>1. T \in SUBSET Nat
      OBVIOUS
    <3> HIDE DEF T
    <3>. QED
      BY <3>1, LeastNatural
  <2>2. Rec(0, [i \in 0 .. 0 |-> h])
    OBVIOUS
  <2>3. n # 0 /\ n \in Nat
    BY <2>2
  <2>4. n - 1 \in Nat /\ n - 1 \notin T
    <3> HIDE DEF T
    <3>. QED
      BY <2>1, <2>3
  <2>5. PICK k : Rec(n - 1, k)
    BY <2>4
  <2> DEFINE j == [i \in 0 .. n |-> IF i = n THEN CopyStep(h, k[n - 1], p, source, n - 1) ELSE k[i]]
  <2>6. ASSUME NEW i \in 0 .. n
        PROVE  j[i] = IF i = 0 THEN h ELSE CopyStep(h, j[i - 1], p, source, i - 1)
    <3>1. CASE i = n
      <4>1. j[i - 1] = k[n - 1]
        BY <2>3, <3>1
      <4>. QED
        BY <2>3, <3>1, <4>1
    <3>2. CASE i # n
      <4>1. i \in 0 .. n - 1
        BY <2>3, <3>2
      <4>2. k[i] = IF i = 0 THEN h ELSE CopyStep(h, k[i - 1], p, source, i - 1)
        BY <2>5, <4>1
      <4>3. i # 0 => j[i - 1] = k[i - 1]
        BY <2>3, <3>2
      <4>. QED
        BY <3>2, <4>2, <4>3
    <3>. QED
      BY <3>1, <3>2
  <2>7. j = [i \in 0 .. n |-> j[i]]
    OBVIOUS
  <2> HIDE DEF j
  <2>8. Rec(n, j)
    BY <2>6, <2>7
  <2>. QED
    BY <2>1, <2>8
<1>2. MAX_FDS \in Nat
  BY FilesAssumption
<1>3. \E k : Rec(MAX_FDS, k)
  BY <1>1, <1>2
<1> DEFINE g == CHOOSE k : Rec(MAX_FDS, k)
<1>4. Rec(MAX_FDS, g)
  BY <1>3
<1>5. copyFdTable(h, p, source) = g[MAX_FDS]
  BY DEF copyFdTable, CopyStep
<1> HIDE DEF g
<1>6. g[0] = h /\ \A i \in 1 .. MAX_FDS : g[i] = CopyStep(h, g[i - 1], p, source, i - 1)
  BY <1>2, <1>4
<1>. QED
  BY <1>5, <1>6

\* The overrides are applied in order.
LEMMA OverrideSteps ==
    ASSUME NEW h, NEW p, NEW overrides, Len(overrides) \in Nat
    PROVE  \E g : /\ Overridden(h, p, overrides) = g[Len(overrides)] /\ g[0] = h
                  /\ \A i \in 1 .. Len(overrides) : g[i] = OverrideStep(g[i - 1], p, overrides[i])
<1> DEFINE Rec(n, k) == k = [i \in 0 .. n |-> IF i = 0 THEN h ELSE OverrideStep(k[i - 1], p, overrides[i])]
           T == {n \in Nat : ~\E k : Rec(n, k)}
<1>1. T = {}
  <2> SUFFICES ASSUME T # {} PROVE FALSE
    OBVIOUS
  <2>1. PICK n \in T : \A m \in T : n <= m
    <3>1. T \in SUBSET Nat
      OBVIOUS
    <3> HIDE DEF T
    <3>. QED
      BY <3>1, LeastNatural
  <2>2. Rec(0, [i \in 0 .. 0 |-> h])
    OBVIOUS
  <2>3. n # 0 /\ n \in Nat
    BY <2>2
  <2>4. n - 1 \in Nat /\ n - 1 \notin T
    <3> HIDE DEF T
    <3>. QED
      BY <2>1, <2>3
  <2>5. PICK k : Rec(n - 1, k)
    BY <2>4
  <2> DEFINE j == [i \in 0 .. n |-> IF i = n THEN OverrideStep(k[n - 1], p, overrides[n]) ELSE k[i]]
  <2>6. ASSUME NEW i \in 0 .. n
        PROVE  j[i] = IF i = 0 THEN h ELSE OverrideStep(j[i - 1], p, overrides[i])
    <3>1. CASE i = n
      <4>1. j[i - 1] = k[n - 1]
        BY <2>3, <3>1
      <4>. QED
        BY <2>3, <3>1, <4>1
    <3>2. CASE i # n
      <4>1. i \in 0 .. n - 1
        BY <2>3, <3>2
      <4>2. k[i] = IF i = 0 THEN h ELSE OverrideStep(k[i - 1], p, overrides[i])
        BY <2>5, <4>1
      <4>3. i # 0 => j[i - 1] = k[i - 1]
        BY <2>3, <3>2
      <4>. QED
        BY <3>2, <4>2, <4>3
    <3>. QED
      BY <3>1, <3>2
  <2>7. j = [i \in 0 .. n |-> j[i]]
    OBVIOUS
  <2> HIDE DEF j
  <2>8. Rec(n, j)
    BY <2>6, <2>7
  <2>. QED
    BY <2>1, <2>8
<1>2. Len(overrides) \in Nat
  OBVIOUS
<1>3. \E k : Rec(Len(overrides), k)
  BY <1>1, <1>2
<1> DEFINE g == CHOOSE k : Rec(Len(overrides), k)
<1>4. Rec(Len(overrides), g)
  BY <1>3
<1>5. Overridden(h, p, overrides) = g[Len(overrides)]
  BY DEF Overridden, OverrideStep
<1> HIDE DEF g
<1>6. g[0] = h /\ \A i \in 1 .. Len(overrides) : g[i] = OverrideStep(g[i - 1], p, overrides[i])
  BY <1>2, <1>4
<1>. QED
  BY <1>5, <1>6

\* A number of steps that starts well and goes on well ends well.
LEMMA Steps ==
    ASSUME NEW N \in Nat, NEW Good, 0 \in Good, \A i \in 1 .. N : i - 1 \in Good => i \in Good
    PROVE  N \in Good
<1> DEFINE Bad == {i \in Nat : i <= N /\ i \notin Good}
<1> SUFFICES ASSUME N \notin Good PROVE FALSE
  OBVIOUS
<1>1. Bad \in SUBSET Nat /\ N \in Bad
  OBVIOUS
<1>2. \A i \in Bad : i \in Nat /\ i <= N /\ i \notin Good
  OBVIOUS
<1>3. \A i \in Nat : i <= N /\ i \notin Bad => i \in Good
  OBVIOUS
<1> HIDE DEF Bad
<1>4. PICK m \in Bad : \A i \in Bad : m <= i
  BY <1>1, LeastNatural
<1>5. m \in 1 .. N
  BY <1>2
<1>6. m - 1 \in Nat /\ m - 1 <= N /\ m - 1 \notin Bad
  BY <1>4, <1>5
<1>. QED
  BY <1>2, <1>3, <1>5, <1>6

\* g is h with the first n slots of p closed, or holding what row holds.
Rewritten(h, p, row, n, g) ==
    /\ g.fdTable \in [Procs -> [FDs -> Nat]]
    /\ \A x \in Procs, y \in FDs :
           g.fdTable[x][y] = IF x = p /\ y < n THEN row[y] ELSE h.fdTable[x][y]
    /\ DOMAIN g.file \subseteq DOMAIN h.file /\ Alike(g.file, h.file)

LEMMA RewrittenAtStart ==
    ASSUME NEW h, Shape(h), NEW p, NEW row
    PROVE  Rewritten(h, p, row, 0, h)
<1>1. \A y \in FDs : ~(y < 0)
  BY SlotsFinite
<1>. QED
  BY <1>1 DEF Shape, Rewritten, Alike

\* After the last step the whole row has been written.
LEMMA RewrittenAtEnd ==
    ASSUME NEW h, Shape(h), NEW p \in Procs, NEW row \in [FDs -> Nat], NEW g,
           Rewritten(h, p, row, MAX_FDS, g)
    PROVE  g.fdTable = [h.fdTable EXCEPT ![p] = row]
<1>1. \A y \in FDs : y < MAX_FDS
  BY FilesAssumption DEF FDs
<1>2. \A x \in Procs, y \in FDs : g.fdTable[x][y] = IF x = p THEN row[y] ELSE h.fdTable[x][y]
  BY <1>1 DEF Rewritten
<1> DEFINE e == [h.fdTable EXCEPT ![p] = row]
<1>3. e \in [Procs -> [FDs -> Nat]] /\ \A x \in Procs : e[x] = IF x = p THEN row ELSE h.fdTable[x]
  BY DEF Shape
<1>4. g.fdTable \in [Procs -> [FDs -> Nat]]
  BY DEF Rewritten
<1> HIDE DEF e
<1>5. ASSUME NEW x \in Procs
      PROVE  g.fdTable[x] = e[x]
  <2>1. e[x] \in [FDs -> Nat] /\ g.fdTable[x] \in [FDs -> Nat]
    BY <1>3, <1>4
  <2>2. \A y \in FDs : g.fdTable[x][y] = e[x][y]
    BY <1>2, <1>3
  <2>. QED
    BY <2>1, <2>2
<1>6. g.fdTable = e
  BY <1>3, <1>4, <1>5
<1>. QED
  BY <1>6 DEF e

\* One slot more.
LEMMA RewrittenOneMore ==
    ASSUME NEW h, NEW p \in Procs, NEW row, NEW i \in 1 .. MAX_FDS, NEW g, NEW c,
           Rewritten(h, p, row, i - 1, g), row[i - 1] \in Nat,
           c.fdTable = SetSlot(g.fdTable, p, i - 1, row[i - 1]),
           DOMAIN c.file \subseteq DOMAIN g.file, Alike(c.file, g.file)
    PROVE  Rewritten(h, p, row, i, c)
<1>0. i - 1 \in FDs /\ MAX_FDS \in Nat
  BY FilesAssumption DEF FDs
<1> DEFINE t == g.fdTable
           u == c.fdTable
           b == row[i - 1]
           j == i - 1
<1>1. t \in [Procs -> [FDs -> Nat]]
  BY DEF Rewritten
<1>2. SlotWas(t, p, j, b, u)
  <2> HIDE DEF t, b, j
  <2>1. j \in FDs /\ b \in Nat /\ u = SetSlot(t, p, j, b)
    BY <1>0 DEF t, b, j
  <2>. QED
    BY <1>1, <2>1, SlotIs
<1>3. ASSUME NEW x \in Procs, NEW y \in FDs
      PROVE  u[x][y] = IF x = p /\ y < i THEN row[y] ELSE h.fdTable[x][y]
  <2>1. u[x][y] = IF x = p /\ y = j THEN b ELSE t[x][y]
    BY <1>2 DEF SlotWas
  <2>2. t[x][y] = IF x = p /\ y < j THEN row[y] ELSE h.fdTable[x][y]
    BY DEF Rewritten
  <2>3. y \in Nat /\ (y < i <=> y < j \/ y = j)
    BY SlotsFinite
  <2>. QED
    BY <2>1, <2>2, <2>3
<1>4. u \in [Procs -> [FDs -> Nat]]
  BY <1>2 DEF SlotWas
<1>5. DOMAIN c.file \subseteq DOMAIN h.file /\ Alike(c.file, h.file)
  BY DEF Rewritten, Alike
<1>. QED
  BY <1>3, <1>4, <1>5 DEF Rewritten

\* A process that dies closes all it has.
Emptied(h, p, g) ==
    /\ g.fdTable = [h.fdTable EXCEPT ![p] = NoFds]
    /\ DOMAIN g.file \subseteq DOMAIN h.file /\ Alike(g.file, h.file)

LEMMA CloseAllSound ==
    ASSUME NEW h, Sound(h, {}, {}), NEW p \in Procs
    PROVE  Sound(closeAllFDs(h, p), {}, {}) /\ Emptied(h, p, closeAllFDs(h, p))
<1>1. PICK g : /\ closeAllFDs(h, p) = g[MAX_FDS] /\ g[0] = h
               /\ \A i \in 1 .. MAX_FDS : g[i] = closeFd(g[i - 1], p, i - 1)
  BY CloseAllSteps
<1> DEFINE Good == {i \in 0 .. MAX_FDS : Sound(g[i], {}, {}) /\ Rewritten(h, p, NoFds, i, g[i])}
<1>2. MAX_FDS \in Nat /\ NoFds \in [FDs -> Nat] /\ Null \in Nat /\ \A i \in 1 .. MAX_FDS : i - 1 \in FDs
  BY FilesAssumption DEF NoFds, Null, FDs
<1>3. 0 \in Good
  BY <1>1, <1>2, RewrittenAtStart DEF Sound
<1>4. ASSUME NEW i \in 1 .. MAX_FDS, i - 1 \in Good
      PROVE  i \in Good
  <2> DEFINE a == g[i - 1]
             c == g[i]
             j == i - 1
  <2>1. Sound(a, {}, {}) /\ Rewritten(h, p, NoFds, i - 1, a) /\ c = closeFd(a, p, j) /\ j \in FDs
    BY <1>1, <1>2, <1>4
  <2>2. NoFds[i - 1] = Null
    BY <1>2 DEF NoFds
  <2> HIDE DEF a, c, j
  <2>3. Sound(c, {}, {}) /\ Closed(a, p, j, c)
    BY <2>1, CloseFdSound
  <2>4. /\ c.fdTable = SetSlot(a.fdTable, p, i - 1, NoFds[i - 1])
        /\ DOMAIN c.file \subseteq DOMAIN a.file /\ Alike(c.file, a.file)
    BY <2>1, <2>2, <2>3 DEF Closed, j
  <2>5. Rewritten(h, p, NoFds, i, c)
    BY <1>2, <2>1, <2>2, <2>4, RewrittenOneMore
  <2>. QED
    BY <1>2, <2>3, <2>5 DEF c
<1> HIDE DEF Good
<1>5. MAX_FDS \in Good
  BY <1>2, <1>3, <1>4, Steps
<1>6. Sound(g[MAX_FDS], {}, {}) /\ Rewritten(h, p, NoFds, MAX_FDS, g[MAX_FDS])
  BY <1>5 DEF Good
<1>7. g[MAX_FDS].fdTable = [h.fdTable EXCEPT ![p] = NoFds]
  BY <1>2, <1>6, RewrittenAtEnd DEF Sound
<1>. QED
  BY <1>1, <1>6, <1>7 DEF Emptied, Rewritten

\* The table of p is that of source, with a reference more to every access.
Copied(h, p, source, g) ==
    /\ g.fdTable = [h.fdTable EXCEPT ![p] = h.fdTable[source]]
    /\ DOMAIN g.file \subseteq DOMAIN h.file /\ Alike(g.file, h.file)

LEMMA CopySound ==
    ASSUME NEW h, Sound(h, {}, {}), NEW p \in Procs, NEW source \in Procs, p # source
    PROVE  Sound(copyFdTable(h, p, source), {}, {}) /\ Copied(h, p, source, copyFdTable(h, p, source))
<1>1. PICK g : /\ copyFdTable(h, p, source) = g[MAX_FDS] /\ g[0] = h
               /\ \A i \in 1 .. MAX_FDS : g[i] = CopyStep(h, g[i - 1], p, source, i - 1)
  BY CopySteps
<1> DEFINE row == h.fdTable[source]
           Good == {i \in 0 .. MAX_FDS : Sound(g[i], {}, {}) /\ Rewritten(h, p, row, i, g[i])}
<1>2. MAX_FDS \in Nat /\ row \in [FDs -> Nat] /\ Null \in Nat /\ \A i \in 1 .. MAX_FDS : i - 1 \in FDs
  BY FilesAssumption DEF Sound, Shape, Null, FDs
<1>r. row = h.fdTable[source]
  OBVIOUS
<1> HIDE DEF row
<1>3. 0 \in Good
  BY <1>1, <1>2, RewrittenAtStart DEF Sound
<1>4. ASSUME NEW i \in 1 .. MAX_FDS, i - 1 \in Good
      PROVE  i \in Good
  <2> DEFINE a == g[i - 1]
             c == g[i]
             j == i - 1
             d == closeFd(a, p, j)
             f == row[j]
  <2>1. Sound(a, {}, {}) /\ Rewritten(h, p, row, i - 1, a) /\ j \in FDs
    BY <1>2, <1>4
  <2>2. c = IF f = Null THEN d ELSE openFd(d, p, f, j)
    BY <1>1, <1>r DEF CopyStep
  <2>f. f \in Nat
    BY <1>2, <2>1
  <2>a. a.fdTable \in [Procs -> [FDs -> Nat]]
    BY <2>1 DEF Rewritten
  <2> HIDE DEF a, c, j, d
  <2>3. Sound(d, {}, {}) /\ Closed(a, p, j, d)
    <3>1. j \in FDs => a.fdTable[p][j] \notin {}
      OBVIOUS
    <3>. QED
      BY <2>1, <3>1, CloseFdSound DEF d
  <2>4. /\ d.fdTable = SetSlot(a.fdTable, p, j, Null)
        /\ DOMAIN d.file \subseteq DOMAIN a.file /\ Alike(d.file, a.file)
    BY <2>1, <2>3 DEF Closed
  <2>5. CASE f = Null
    <3>1. c = d /\ d.fdTable = SetSlot(a.fdTable, p, i - 1, row[i - 1])
      BY <2>2, <2>4, <2>5 DEF j
    <3>2. Rewritten(h, p, row, i, c)
      BY <1>2, <2>1, <2>f, <2>4, <3>1, RewrittenOneMore DEF j
    <3>. QED
      BY <1>2, <2>3, <3>1, <3>2 DEF c
  <2>6. CASE f # Null
    <3>1. d.fdTable[p][j] = Null /\ \A x \in Procs \ {p} : d.fdTable[x] = a.fdTable[x]
      BY <2>1, <2>4, <2>a DEF SetSlot
    <3>2. a.fdTable[source][j] = f
      BY <1>r, <2>1 DEF Rewritten
    <3>3. f \in DOMAIN d.file
      BY <2>1, <2>3, <2>6, <3>1, <3>2 DEF Sound, Points
    <3> HIDE DEF f
    <3>4. Sound(openFd(d, p, f, j), {} \ {f}, {}) /\ Opened(d, p, j, f, openFd(d, p, f, j))
      BY <2>1, <2>3, <3>1, <3>3, OpenFdSound
    <3>5. c = openFd(d, p, f, j) /\ {} \ {f} = {}
      BY <2>2, <2>6
    <3>6. SetSlot(SetSlot(a.fdTable, p, j, Null), p, j, f) = SetSlot(a.fdTable, p, j, f)
      BY <2>1, <2>a DEF SetSlot
    <3>7. c.fdTable = SetSlot(a.fdTable, p, i - 1, row[i - 1])
      BY <2>4, <3>4, <3>5, <3>6 DEF Opened, f, j
    <3>8. DOMAIN c.file \subseteq DOMAIN a.file /\ Alike(c.file, a.file)
      BY <2>4, <3>4, <3>5 DEF Opened, Alike
    <3>9. Rewritten(h, p, row, i, c)
      BY <1>2, <2>1, <2>f, <3>7, <3>8, RewrittenOneMore DEF j, f
    <3>. QED
      BY <1>2, <3>4, <3>5, <3>9 DEF c
  <2>. QED
    BY <2>5, <2>6
<1> HIDE DEF Good
<1>5. MAX_FDS \in Good
  BY <1>2, <1>3, <1>4, Steps
<1>6. Sound(g[MAX_FDS], {}, {}) /\ Rewritten(h, p, row, MAX_FDS, g[MAX_FDS])
  BY <1>5 DEF Good
<1>7. g[MAX_FDS].fdTable = [h.fdTable EXCEPT ![p] = row]
  BY <1>2, <1>6, RewrittenAtEnd DEF Sound
<1>. QED
  BY <1>1, <1>6, <1>7, <1>r DEF Copied, Rewritten

\* Only the table of p is touched.
OnlyTableOf(h, p, g) ==
    /\ g.fdTable \in [Procs -> [FDs -> Nat]]
    /\ \A x \in Procs \ {p} : g.fdTable[x] = h.fdTable[x]
    /\ DOMAIN g.file \subseteq DOMAIN h.file /\ Alike(g.file, h.file)

\* The slot of one override takes what the target holds, or nothing.
Overriding(h, p, o, g) ==
    \A fd \in FDs : g.fdTable[p][fd] = IF fd # o[1] THEN h.fdTable[p][fd]
                                      ELSE IF o[2] \in FDs THEN h.fdTable[p][o[2]] ELSE Null

LEMMA OverrideStepSound ==
    ASSUME NEW h, Sound(h, {}, {}), NEW p \in Procs, NEW o
    PROVE  /\ Sound(OverrideStep(h, p, o), {}, {}) /\ OnlyTableOf(h, p, OverrideStep(h, p, o))
           /\ Overriding(h, p, o, OverrideStep(h, p, o))
<1> DEFINE g == OverrideStep(h, p, o)
<1>0. h.fdTable \in [Procs -> [FDs -> Nat]]
  BY DEF Sound, Shape
<1>1. CASE o[2] = -1
  <2> DEFINE fd == o[1]
  <2>1. g = closeFd(h, p, fd)
    BY <1>1 DEF OverrideStep
  <2>2. fd \in FDs => h.fdTable[p][fd] \notin {}
    OBVIOUS
  <2> HIDE DEF fd, g
  <2>3. Sound(g, {}, {}) /\ Closed(h, p, fd, g)
    BY <2>1, <2>2, CloseFdSound
  <2>4. g.fdTable \in [Procs -> [FDs -> Nat]]
    BY <2>3 DEF Sound, Shape
  <2>5. Overriding(h, p, o, g)
    <3>1. -1 \notin FDs
      BY DEF FDs
    <3>. QED
      BY <1>0, <1>1, <2>3, <3>1 DEF Closed, Overriding, SetSlot, fd
  <2>. QED
    BY <1>0, <2>3, <2>4, <2>5 DEF Closed, OnlyTableOf, SetSlot, g
<1>2. CASE o[2] # -1
  <2>1. g = dupFd(h, p, o[2], o[1])
    BY <1>2 DEF OverrideStep
  <2> HIDE DEF g
  <2>2. Sound(g, {}, {}) /\ Duplicated(h, p, o[2], o[1], g)
    BY <2>1, DupFdSound
  <2>3. g.fdTable \in [Procs -> [FDs -> Nat]]
    BY <2>2 DEF Sound, Shape
  <2>4. Overriding(h, p, o, g)
    BY <1>0, <2>2 DEF Duplicated, Overriding, SetSlot
  <2>. QED
    BY <1>0, <2>2, <2>3, <2>4 DEF Duplicated, OnlyTableOf, SetSlot, g
<1>. QED
  BY <1>1, <1>2

LEMMA OverriddenSound ==
    ASSUME NEW h, Sound(h, {}, {}), NEW p \in Procs, NEW overrides, Len(overrides) \in Nat
    PROVE  Sound(Overridden(h, p, overrides), {}, {}) /\ OnlyTableOf(h, p, Overridden(h, p, overrides))
<1> DEFINE N == Len(overrides)
<1>1. PICK g : /\ Overridden(h, p, overrides) = g[N] /\ g[0] = h
               /\ \A i \in 1 .. N : g[i] = OverrideStep(g[i - 1], p, overrides[i])
  BY OverrideSteps
<1> DEFINE Good == {i \in 0 .. N : Sound(g[i], {}, {}) /\ OnlyTableOf(h, p, g[i])}
<1>2. N \in Nat
  OBVIOUS
<1> HIDE DEF N
<1>3. 0 \in Good
  BY <1>1, <1>2 DEF OnlyTableOf, Sound, Shape, Alike
<1>4. ASSUME NEW i \in 1 .. N, i - 1 \in Good
      PROVE  i \in Good
  <2> DEFINE a == g[i - 1]
             c == g[i]
             o == overrides[i]
  <2>1. Sound(a, {}, {}) /\ OnlyTableOf(h, p, a) /\ c = OverrideStep(a, p, o)
    BY <1>1, <1>4
  <2> HIDE DEF a, c, o
  <2>2. Sound(c, {}, {}) /\ OnlyTableOf(a, p, c)
    BY <2>1, OverrideStepSound
  <2>3. OnlyTableOf(h, p, c)
    BY <2>1, <2>2 DEF OnlyTableOf, Alike
  <2>. QED
    BY <1>2, <2>2, <2>3 DEF c
<1> HIDE DEF Good
<1>5. N \in Good
  BY <1>2, <1>3, <1>4, Steps
<1>. QED
  BY <1>1, <1>5 DEF Good

\* What the overrides take away: outside the slots of A, an access of B stays
\* only where it was and no override went, if no override brings one along.
LEMMA OverriddenLoses ==
    ASSUME NEW h, Sound(h, {}, {}), NEW p \in Procs, NEW overrides, Len(overrides) \in Nat,
           NEW B, Null \notin B, NEW A,
           \A i \in 1 .. Len(overrides) :
              \/ overrides[i][1] \in A
              \/ overrides[i][2] \notin FDs
              \/ overrides[i][2] \notin A /\ h.fdTable[p][overrides[i][2]] \notin B,
           NEW fd \in FDs, fd \notin A, Overridden(h, p, overrides).fdTable[p][fd] \in B
    PROVE  h.fdTable[p][fd] \in B /\ \A i \in 1 .. Len(overrides) : overrides[i][1] # fd
<1> DEFINE N == Len(overrides)
           Left(k, x) == x \in FDs /\ x \notin A /\ h.fdTable[p][x] \in B
                         /\ \A j \in 1 .. k : overrides[j][1] # x
<1>1. PICK g : /\ Overridden(h, p, overrides) = g[N] /\ g[0] = h
               /\ \A i \in 1 .. N : g[i] = OverrideStep(g[i - 1], p, overrides[i])
  BY OverrideSteps
<1> DEFINE Good == {i \in 0 .. N : /\ Sound(g[i], {}, {})
                                   /\ \A x \in FDs : x \notin A /\ g[i].fdTable[p][x] \in B => Left(i, x)}
<1>2. N \in Nat
  OBVIOUS
<1>a. \A i \in 1 .. N : \/ overrides[i][1] \in A
                        \/ overrides[i][2] \notin FDs
                        \/ overrides[i][2] \notin A /\ h.fdTable[p][overrides[i][2]] \notin B
  OBVIOUS
<1> HIDE DEF N
<1>3. 0 \in Good
  BY <1>1, <1>2
<1>4. ASSUME NEW i \in 1 .. N, i - 1 \in Good
      PROVE  i \in Good
  <2> DEFINE a == g[i - 1]
             c == g[i]
             o == overrides[i]
  <2>1. Sound(a, {}, {}) /\ c = OverrideStep(a, p, o)
    BY <1>1, <1>4
  <2>2. \A x \in FDs : x \notin A /\ a.fdTable[p][x] \in B => Left(i - 1, x)
    BY <1>4
  <2>3. o[1] \in A \/ o[2] \notin FDs \/ (o[2] \notin A /\ h.fdTable[p][o[2]] \notin B)
    BY <1>a
  <2>4. i \in 1 .. N /\ \A x \in FDs : Left(i - 1, x) /\ o[1] # x => Left(i, x)
    <3>1. \A j \in 1 .. i : j = i \/ j \in 1 .. i - 1
      BY <1>2
    <3>. QED
      BY <3>1
  <2> HIDE DEF a, c
  <2>5. Sound(c, {}, {}) /\ Overriding(a, p, o, c)
    BY <2>1, OverrideStepSound
  <2>6. ASSUME NEW x \in FDs, x \notin A, c.fdTable[p][x] \in B
        PROVE  Left(i, x)
    <3> HIDE DEF o
    <3>1. CASE x = o[1]
      <4>1. o[2] \in FDs /\ a.fdTable[p][o[2]] \in B
        BY <2>5, <2>6, <3>1 DEF Overriding
      <4>2. o[2] \notin A /\ h.fdTable[p][o[2]] \notin B
        BY <2>3, <2>6, <3>1, <4>1
      <4>. QED
        BY <2>2, <4>1, <4>2
    <3>2. CASE x # o[1]
      <4>1. a.fdTable[p][x] \in B
        BY <2>5, <2>6, <3>2 DEF Overriding
      <4>2. Left(i - 1, x)
        BY <2>2, <2>6, <4>1
      <4> HIDE DEF Left
      <4>. QED
        BY <2>4, <3>2, <4>2
    <3>. QED
      BY <3>1, <3>2
  <2> HIDE DEF Left
  <2>. QED
    BY <1>2, <2>5, <2>6 DEF c
<1> HIDE DEF Good
<1>5. N \in Good
  BY <1>2, <1>3, <1>4, Steps
<1>6. Left(N, fd)
  BY <1>1, <1>5 DEF Good
<1>. QED
  BY <1>6 DEF N

-----------------------------------------------------------------------------
(* The calls that allocate *)

\* The other processes keep their descriptors, and accesses their pipes.
OthersKeep(h, p, g) ==
    /\ g.fdTable \in [Procs -> [FDs -> Nat]]
    /\ \A x \in Procs \ {p} : g.fdTable[x] = h.fdTable[x]
    /\ Alike(g.file, h.file)

\* A new address is in no slot.
LEMMA NotHeld ==
    ASSUME NEW h, Points(h), NEW f \in Address, f \notin DOMAIN h.file
    PROVE  HoldersIn(h.fdTable, f) = {}
  BY DEF Points, HoldersIn, Slots, Address

\* Which slot addFd takes depends on the process's table only.
LEMMA SameFirstFree ==
    ASSUME NEW h, NEW g, NEW p, h.fdTable[p] = g.fdTable[p]
    PROVE  FirstFree(h, p) = FirstFree(g, p)
  BY DEF FirstFree, isOpenFd

LEMMA AddFdSound ==
    ASSUME NEW h, NEW L, Sound(h, L, {}), NEW p \in Procs, NEW f \in DOMAIN h.file,
           ~(FirstFree(h, p) < 0)
    PROVE  /\ FirstFree(h, p) \in FDs /\ h.fdTable[p][FirstFree(h, p)] = Null
           /\ Sound(addFd(h, p, f), L \ {f}, {})
           /\ Opened(h, p, FirstFree(h, p), f, addFd(h, p, f))
<1> DEFINE fd == FirstFree(h, p)
<1>1. fd \in FDs /\ h.fdTable[p][fd] = Null
  <2>1. fd # -1
    OBVIOUS
  <2>. QED
    BY <2>1, FirstFreeIs
<1>2. addFd(h, p, f) = openFd(h, p, f, fd)
  <2>1. addFd(h, p, f) = Then(h, LAMBDA x : openFd(x, p, f, FirstFree(x, p)))
    BY DEF addFd
  <2>. QED
    BY <2>1 DEF Then
<1> HIDE DEF fd
<1>3. Sound(openFd(h, p, f, fd), L \ {f}, {}) /\ Opened(h, p, fd, f, openFd(h, p, f, fd))
  BY <1>1, OpenFdSound
<1>. QED
  BY <1>1, <1>2, <1>3 DEF fd

\* removeFileRef on an access without holders frees it.
LEMMA RemoveUnheld ==
    ASSUME NEW h, NEW L, Sound(h, L, {}), NEW f \in L, f # DriverFile,
           HoldersIn(h.fdTable, f) = {}
    PROVE  removeFileRef(h, f) = freeFileAccess(h, f)
<1> DEFINE t == h.fdTable
           H == h.file
           P == h.pipe
           G == AddRef(H, f, -1)
<1>h. h = Obj(t, H, P) /\ h.fdTable = t /\ h.file = H /\ h.pipe = P
  BY ShapeIsObj DEF Sound
<1>0. /\ H \in [DOMAIN H -> FileRecord] /\ P \in [DOMAIN P -> PipeRecord]
      /\ f \in DOMAIN H /\ H[f].pipe \in DOMAIN P
      /\ H[f].refCount = Cardinality(HoldersIn(t, f)) + Driver(f)
  BY DEF Sound, Shape, Points, FilesCounted
<1>1. H[f].refCount = 0
  <2>1. Cardinality(HoldersIn(t, f)) = 0 /\ Driver(f) = 0
    BY FS_EmptySet DEF Driver
  <2>. QED
    BY <1>0, <2>1
<1> HIDE DEF t, H, P
<1>2. removeFileRef(h, f) = freeFileAccess(Obj(t, G, P), f)
  <2>1. H[f].refCount - 1 <= 0
    BY <1>1
  <2>. QED
    BY <1>0, <1>h, <2>1, RemoveFileRefIs
<1>3. Referenced(H, f, -1, G)
  BY <1>0, AddRefIs
<1> HIDE DEF G
<1>4. /\ f \in DOMAIN G /\ G[f].pipe = H[f].pipe /\ G[f].flags = H[f].flags
      /\ G \in [DOMAIN G -> FileRecord]
  BY <1>0, <1>3 DEF Referenced, Alike
<1>5. Without(G, f) = Without(H, f)
  BY <1>3 DEF Referenced, Without, Restrict
<1>6. freeFileAccess(Obj(t, G, P), f) = Obj(t, Without(G, f), Released(P, G[f].pipe, AsWriter(G[f].flags)))
  BY <1>0, <1>4, FreeFileIs
<1>7. freeFileAccess(Obj(t, H, P), f) = Obj(t, Without(H, f), Released(P, H[f].pipe, AsWriter(H[f].flags)))
  BY <1>0, FreeFileIs
<1>. QED
  BY <1>h, <1>2, <1>4, <1>5, <1>6, <1>7

\* cloneFile makes a loose access to the pipe of another.
LEMMA CloneSound ==
    ASSUME NEW h, Sound(h, {}, {}), NEW f \in DOMAIN h.file, NEW new \in Address, new \notin DOMAIN h.file
    PROVE  LET g == cloneFile(h, f, new)
           IN  /\ Sound(g, {new}, {}) /\ g.fdTable = h.fdTable
               /\ DOMAIN g.file = DOMAIN h.file \cup {new} /\ Alike(g.file, h.file)
<1> DEFINE q == h.file[f].pipe
           flags == h.file[f].flags
           g == newFileAccess(h, new, q, flags)
<1>1. q \in DOMAIN h.pipe /\ flags \in {READ, WRITE}
  BY DEF Sound, Shape, Points, FileRecord
<1> HIDE DEF q, flags
<1>2. Sound(g, {} \cup {new}, {} \ {q}) /\ Allocated(h, new, q, g)
  BY <1>1, NewFileSound
<1>3. {} \cup {new} = {new} /\ {} \ {q} = {}
  OBVIOUS
<1>4. cloneFile(h, f, new) = g
  BY DEF cloneFile, q, flags
<1> HIDE DEF g
<1>. QED
  BY <1>2, <1>3, <1>4 DEF Alike, Allocated

\* The new descriptor of p, or the table as before.
Reopened(h, p, o) ==
    \/ o.fd = -1 /\ o.h.fdTable = h.fdTable
    \/ /\ o.fd \in FDs /\ h.fdTable[p][o.fd] = Null
       /\ \E f : o.h.fdTable = SetSlot(h.fdTable, p, o.fd, f)

LEMMA ReopenSound ==
    ASSUME NEW h, Sound(h, {}, {}), NEW p \in Procs, NEW fd, NEW o \in reopenFd(h, p, fd)
    PROVE  Sound(o.h, {}, {}) /\ OthersKeep(h, p, o.h) /\ Reopened(h, p, o)
<1> DEFINE f == Unused(DOMAIN h.file)
           g == cloneFile(h, h.fdTable[p][fd], f)
<1>0. h.fdTable \in [Procs -> [FDs -> Nat]] /\ OthersKeep(h, p, h)
  BY DEF Sound, Shape, OthersKeep, Alike
<1>f. f \in Address /\ f \notin DOMAIN h.file
  BY UnusedIsNew DEF Sound, Shape
<1>1. \/ o.h = h /\ o.fd = -1
      \/ isOpenFd(h, p, fd) /\ FirstFree(h, p) < 0 /\ o.h = removeFileRef(g, f) /\ o.fd = -1
      \/ isOpenFd(h, p, fd) /\ ~(FirstFree(h, p) < 0) /\ o.h = addFd(g, p, f) /\ o.fd = FirstFree(h, p)
  <2> HIDE DEF f, g
  <2>1. reopenFd(h, p, fd) =
            IF ~isOpenFd(h, p, fd) THEN {[fd |-> -1, h |-> h]}
            ELSE {IF ~ok THEN [fd |-> -1, h |-> h]
                  ELSE IF FirstFree(h, p) < 0 THEN [fd |-> -1, h |-> removeFileRef(g, f)]
                  ELSE [fd |-> FirstFree(h, p), h |-> addFd(g, p, f)] : ok \in Alloc}
    BY DEF reopenFd, f, g
  <2>. QED
    BY <2>1
<1>2. CASE o.h = h /\ o.fd = -1
  BY <1>0, <1>2 DEF Reopened
<1>3. ASSUME isOpenFd(h, p, fd)
      PROVE  /\ Sound(g, {f}, {}) /\ g.fdTable = h.fdTable
             /\ DOMAIN g.file = DOMAIN h.file \cup {f} /\ Alike(g.file, h.file)
  <2>1. h.fdTable[p][fd] \in DOMAIN h.file
    BY <1>3 DEF isOpenFd, Sound, Points
  <2>. QED
    BY <1>f, <2>1, CloneSound
<1>4. f # DriverFile /\ HoldersIn(h.fdTable, f) = {}
  BY <1>f, NotHeld DEF Sound, Points
<1>e. {f} \ {f} = {}
  OBVIOUS
<1> HIDE DEF f, g
<1>5. CASE isOpenFd(h, p, fd) /\ FirstFree(h, p) < 0 /\ o.h = removeFileRef(g, f) /\ o.fd = -1
  <2>1. HoldersIn(g.fdTable, f) = {} /\ Sound(g, {f}, {}) /\ f \in {f}
    BY <1>3, <1>4, <1>5
  <2>2. o.h = freeFileAccess(g, f)
    BY <1>4, <1>5, <2>1, RemoveUnheld
  <2>3. Sound(o.h, {f} \ {f}, {}) /\ o.h.fdTable = g.fdTable /\ o.h.file = Without(g.file, f)
    BY <1>4, <2>1, <2>2, FreeFileSound
  <2>4. Alike(o.h.file, h.file)
    BY <1>3, <1>5, <2>3 DEF Alike, Without, Restrict
  <2>. QED
    BY <1>0, <1>3, <1>5, <1>e, <2>3, <2>4 DEF OthersKeep, Reopened
<1>6. CASE isOpenFd(h, p, fd) /\ ~(FirstFree(h, p) < 0) /\ o.h = addFd(g, p, f) /\ o.fd = FirstFree(h, p)
  <2> DEFINE n == FirstFree(g, p)
  <2>1. ~(n < 0)
    BY <1>3, <1>6, SameFirstFree
  <2>2. f \in DOMAIN g.file /\ Sound(g, {f}, {})
    BY <1>3, <1>6
  <2>3. Sound(o.h, {f} \ {f}, {}) /\ Opened(g, p, n, f, o.h)
    BY <1>6, <2>1, <2>2, AddFdSound
  <2>4. o.h.fdTable \in [Procs -> [FDs -> Nat]]
    BY <2>3 DEF Sound, Shape
  <2> HIDE DEF n
  <2>5. \A x \in Procs \ {p} : o.h.fdTable[x] = h.fdTable[x]
    BY <1>0, <1>3, <1>6, <2>3 DEF Opened, SetSlot
  <2>6. Alike(o.h.file, h.file)
    BY <1>3, <1>6, <2>3 DEF Opened, Alike
  <2>7. Reopened(h, p, o)
    <3>1. n \in FDs /\ g.fdTable[p][n] = Null
      BY <2>1, <2>2, AddFdSound DEF n
    <3>2. o.fd = n
      BY <1>3, <1>6, SameFirstFree DEF n
    <3>. QED
      BY <1>3, <1>6, <2>3, <3>1, <3>2 DEF Reopened, Opened
  <2>. QED
    BY <1>e, <2>3, <2>4, <2>5, <2>6, <2>7 DEF OthersKeep
<1>. QED
  BY <1>1, <1>2, <1>5, <1>6

\* g is h with the pipe q and those of its ends r and w that could be made;
\* what was made is loose.
EndsMade(h, q, r, w, okR, okW, g) ==
    /\ g.fdTable = h.fdTable /\ Alike(g.file, h.file) /\ DOMAIN h.file \subseteq DOMAIN g.file
    /\ okR /\ okW => Sound(g, {r, w}, {})
    /\ okR /\ ~okW => Sound(g, {r}, {})
    /\ ~okR /\ okW => Sound(g, {w}, {})
    /\ ~okR /\ ~okW => Sound(g, {}, {q}) /\ g.pipe[q].refCount = 0
    /\ (okR => g.file[r].pipe = q) /\ (okW => g.file[w].pipe = q)

LEMMA BothEndsSound ==
    ASSUME NEW h, Sound(h, {}, {}), NEW q \in Address, q \notin DOMAIN h.pipe,
           NEW r \in Address, r \notin DOMAIN h.file, NEW w \in Address, w \notin DOMAIN h.file, r # w,
           NEW okR \in BOOLEAN, NEW okW \in BOOLEAN,
           NEW g, g = BothEnds(newPipe(h, q), q, r, w, okR, okW)
    PROVE  EndsMade(h, q, r, w, okR, okW, g)
<1> DEFINE n == newPipe(h, q)
           h1 == newFileAccess(n, r, q, READ)
           h2 == newFileAccess(n, w, q, WRITE)
           h3 == newFileAccess(h1, w, q, WRITE)
<1>1. /\ Sound(n, {}, {q}) /\ n.fdTable = h.fdTable /\ n.file = h.file /\ n.pipe[q].refCount = 0
  BY NewPipeSound
<1>2. q \in DOMAIN n.pipe
  BY <1>1 DEF Sound, PipesCounted
<1>3. g = IF okR THEN (IF okW THEN h3 ELSE h1) ELSE (IF okW THEN h2 ELSE n)
  <2> HIDE DEF n, h1, h2, h3
  <2>1. BothEnds(n, q, r, w, okR, okW) = IF okR THEN (IF okW THEN h3 ELSE h1) ELSE (IF okW THEN h2 ELSE n)
    BY DEF BothEnds, h1, h2, h3
  <2>. QED
    BY <2>1 DEF n
<1>e. {} \cup {r} = {r} /\ {} \cup {w} = {w} /\ {r} \cup {w} = {r, w} /\ {q} \ {q} = {} /\ {} \ {q} = {}
  OBVIOUS
<1> HIDE DEF n
<1>4. Sound(h1, {} \cup {r}, {q} \ {q}) /\ Allocated(n, r, q, h1)
  BY <1>1, <1>2, NewFileSound
<1>5. Sound(h2, {} \cup {w}, {q} \ {q}) /\ Allocated(n, w, q, h2)
  BY <1>1, <1>2, NewFileSound
<1> HIDE DEF h1, h2
<1>6. Sound(h3, {r} \cup {w}, {} \ {q}) /\ Allocated(h1, w, q, h3)
  <2>1. q \in DOMAIN h1.pipe /\ w \notin DOMAIN h1.file /\ Sound(h1, {r}, {})
    BY <1>1, <1>2, <1>4, <1>e DEF Allocated
  <2>. QED
    BY <2>1, NewFileSound
<1> HIDE DEF h3
<1>7. /\ h1.fdTable = h.fdTable /\ h2.fdTable = h.fdTable /\ h3.fdTable = h.fdTable
      /\ Alike(h1.file, h.file) /\ Alike(h2.file, h.file) /\ Alike(h3.file, h.file) /\ Alike(h.file, h.file)
      /\ DOMAIN h.file \subseteq DOMAIN h1.file /\ DOMAIN h.file \subseteq DOMAIN h2.file
      /\ DOMAIN h.file \subseteq DOMAIN h3.file
  BY <1>1, <1>4, <1>5, <1>6 DEF Allocated, Alike
<1>8. Sound(h1, {r}, {}) /\ Sound(h2, {w}, {}) /\ Sound(h3, {r, w}, {})
  BY <1>4, <1>5, <1>6, <1>e
<1>9. h1.file[r].pipe = q /\ h2.file[w].pipe = q /\ h3.file[r].pipe = q /\ h3.file[w].pipe = q
  BY <1>4, <1>5, <1>6 DEF Allocated
<1>. QED
  BY <1>1, <1>3, <1>7, <1>8, <1>9 DEF EndsMade

\* A loose end is freed.
LEMMA FreeEnd ==
    ASSUME NEW h, NEW L, Sound(h, L, {}), NEW f \in L, f # DriverFile, NEW t,
           h.fdTable = t, HoldersIn(t, f) = {}
    PROVE  /\ Sound(freeFileAccess(h, f), L \ {f}, {}) /\ freeFileAccess(h, f).fdTable = t
           /\ Alike(freeFileAccess(h, f).file, h.file)
<1>1. /\ Sound(freeFileAccess(h, f), L \ {f}, {}) /\ freeFileAccess(h, f).fdTable = t
      /\ freeFileAccess(h, f).file = Without(h.file, f)
  BY FreeFileSound
<1>2. Alike(Without(h.file, f), h.file)
  BY DEF Without, Restrict, Alike
<1>. QED
  BY <1>1, <1>2

\* The ends of q go into the table, or everything is freed again.
Installed(h, p, q, o) ==
    \/ o.fds = <<-1, -1>> /\ o.h.fdTable = h.fdTable
    \/ \E r, w \in FDs : \E f, g \in DOMAIN o.h.file :
          /\ o.fds = <<r, w>> /\ r # w /\ h.fdTable[p][r] = Null /\ h.fdTable[p][w] = Null
          /\ o.h.fdTable = SetSlot(SetSlot(h.fdTable, p, r, f), p, w, g)
          /\ o.h.file[f].pipe = q /\ o.h.file[g].pipe = q

LEMMA InstallEndsSound ==
    ASSUME NEW h, NEW p \in Procs, NEW q, NEW r, NEW w, r # w, r # DriverFile, w # DriverFile,
           NEW okR \in BOOLEAN, NEW okW \in BOOLEAN, NEW t, h.fdTable = t,
           t \in [Procs -> [FDs -> Nat]], r \in Nat, r # Null,
           HoldersIn(t, r) = {}, HoldersIn(t, w) = {},
           okR /\ okW => Sound(h, {r, w}, {}),
           okR /\ ~okW => Sound(h, {r}, {}),
           ~okR /\ okW => Sound(h, {w}, {}),
           ~okR /\ ~okW => Sound(h, {}, {q}) /\ h.pipe[q].refCount = 0,
           okR => h.file[r].pipe = q, okW => h.file[w].pipe = q,
           NEW o, o = InstallEnds(h, p, q, r, w, okR, okW)
    PROVE  Sound(o.h, {}, {}) /\ OthersKeep(h, p, o.h) /\ Installed(h, p, q, o)
<1> DEFINE readFD == FirstFree(h, p)
           writeFD == FirstFree([h EXCEPT !.fdTable[p][readFD] = r], p)
<1>e. {r} \ {r} = {} /\ {w} \ {w} = {} /\ {r, w} \ {r} = {w}
  OBVIOUS
<1>t. \A g : g.fdTable = t /\ Alike(g.file, h.file) => OthersKeep(h, p, g)
  BY DEF OthersKeep
<1>f. o.fds = <<-1, -1>> /\ o.h.fdTable = t => Installed(h, p, q, o)
  BY DEF Installed
<1> HIDE DEF readFD, writeFD
<1>1. CASE ~okR /\ ~okW
  <2>1. o = PipeFailed(freePipe(h, q))
    BY <1>1 DEF InstallEnds
  <2>2. o.h = freePipe(h, q) /\ o.fds = <<-1, -1>>
    BY <2>1 DEF PipeFailed
  <2>3. Sound(h, {}, {q}) /\ h.pipe[q].refCount = 0
    BY <1>1
  <2>4. /\ Sound(freePipe(h, q), {}, {}) /\ freePipe(h, q).fdTable = h.fdTable
        /\ freePipe(h, q).file = h.file
    BY <2>3, FreePipeSound
  <2>5. Alike(h.file, h.file)
    BY DEF Alike
  <2>. QED
    BY <1>t, <1>f, <2>2, <2>4, <2>5
<1>2. CASE okR /\ ~okW
  <2>1. o = PipeFailed(freeFileAccess(h, r))
    BY <1>2 DEF InstallEnds
  <2>2. o.h = freeFileAccess(h, r) /\ o.fds = <<-1, -1>>
    BY <2>1 DEF PipeFailed
  <2>3. Sound(h, {r}, {}) /\ r \in {r}
    BY <1>2
  <2>4. /\ Sound(freeFileAccess(h, r), {r} \ {r}, {}) /\ freeFileAccess(h, r).fdTable = t
        /\ Alike(freeFileAccess(h, r).file, h.file)
    BY <2>3, FreeEnd
  <2>. QED
    BY <1>e, <1>t, <1>f, <2>2, <2>4
<1>3. CASE ~okR /\ okW
  <2>1. o = PipeFailed(freeFileAccess(h, w))
    BY <1>3 DEF InstallEnds
  <2>2. o.h = freeFileAccess(h, w) /\ o.fds = <<-1, -1>>
    BY <2>1 DEF PipeFailed
  <2>3. Sound(h, {w}, {}) /\ w \in {w}
    BY <1>3
  <2>4. /\ Sound(freeFileAccess(h, w), {w} \ {w}, {}) /\ freeFileAccess(h, w).fdTable = t
        /\ Alike(freeFileAccess(h, w).file, h.file)
    BY <2>3, FreeEnd
  <2>. QED
    BY <1>e, <1>t, <1>f, <2>2, <2>4
<1>4. CASE okR /\ okW
  <2>0. Sound(h, {r, w}, {}) /\ r \in {r, w} /\ w \in {r, w}
    BY <1>4
  <2>1. CASE readFD < 0
    <3> DEFINE a == freeFileAccess(h, r)
               b == freeFileAccess(a, w)
    <3>1. o.h = b /\ o.fds = <<-1, -1>>
      BY <1>4, <2>1 DEF InstallEnds, PipeFailed, readFD
    <3>2. Sound(a, {r, w} \ {r}, {}) /\ a.fdTable = t /\ Alike(a.file, h.file)
      BY <2>0, FreeEnd
    <3> HIDE DEF a
    <3>3. Sound(a, {w}, {}) /\ w \in {w}
      BY <1>e, <3>2
    <3>4. Sound(b, {w} \ {w}, {}) /\ b.fdTable = t /\ Alike(b.file, a.file) /\ b.file = Without(a.file, w)
      BY <3>2, <3>3, FreeEnd, FreeFileSound
    <3> HIDE DEF b
    <3>5. Alike(b.file, h.file)
      BY <3>2, <3>4 DEF Alike, Without, Restrict
    <3>. QED
      BY <1>e, <1>t, <1>f, <3>1, <3>4, <3>5
  <2>2. CASE ~(readFD < 0)
    <3> DEFINE a == addFd(h, p, r)
    <3>1. r \in DOMAIN h.file /\ w \in DOMAIN h.file
      BY <2>0 DEF Sound, FilesCounted
    <3>2. /\ readFD \in FDs /\ t[p][readFD] = Null
          /\ Sound(a, {r, w} \ {r}, {}) /\ Opened(h, p, readFD, r, a)
      BY <2>0, <2>2, <3>1, AddFdSound DEF readFD
    <3> HIDE DEF a
    <3>3. /\ Sound(a, {w}, {}) /\ a.fdTable = SetSlot(t, p, readFD, r)
          /\ DOMAIN a.file = DOMAIN h.file /\ Alike(a.file, h.file)
      BY <1>e, <3>2 DEF Opened
    <3>4. writeFD = FirstFree(a, p)
      <4>1. h = Obj(h.fdTable, h.file, h.pipe)
        BY <2>0, ShapeIsObj DEF Sound
      <4>2. [h EXCEPT !.fdTable[p][readFD] = r].fdTable = [t EXCEPT ![p][readFD] = r]
        BY <4>1 DEF Obj
      <4>3. [h EXCEPT !.fdTable[p][readFD] = r].fdTable[p] = a.fdTable[p]
        BY <3>3, <4>2 DEF SetSlot
      <4>. QED
        BY <4>3, SameFirstFree DEF writeFD
    <3>5. /\ o.h = IF writeFD < 0 THEN freeFileAccess(closeFd(a, p, readFD), w) ELSE addFd(a, p, w)
          /\ o.fds = IF writeFD < 0 THEN <<-1, -1>> ELSE <<readFD, writeFD>>
      BY <1>4, <2>2 DEF InstallEnds, PipeFailed, a, readFD, writeFD
    <3>6. CASE writeFD < 0
      <4> DEFINE c == closeFd(a, p, readFD)
      <4>1. a.fdTable[p][readFD] = r
        BY <3>2, <3>3 DEF SetSlot
      <4>2. readFD \in FDs => a.fdTable[p][readFD] \notin {w}
        BY <4>1
      <4>3. Sound(c, {w}, {}) /\ Closed(a, p, readFD, c)
        BY <3>3, <4>2, CloseFdSound
      <4> HIDE DEF c
      <4>4. SetSlot(SetSlot(t, p, readFD, r), p, readFD, Null) = t
        BY <3>2 DEF SetSlot
      <4>5. c.fdTable = t /\ Alike(c.file, a.file) /\ DOMAIN c.file \subseteq DOMAIN a.file
        BY <3>2, <3>3, <4>3, <4>4 DEF Closed
      <4>6. /\ Sound(freeFileAccess(c, w), {w} \ {w}, {}) /\ freeFileAccess(c, w).fdTable = t
            /\ freeFileAccess(c, w).file = Without(c.file, w)
        <5>1. w \in {w} /\ HoldersIn(c.fdTable, w) = {}
          BY <4>5
        <5>. QED
          BY <4>3, <4>5, <5>1, FreeFileSound
      <4>7. Alike(Without(c.file, w), h.file)
        BY <3>3, <4>5 DEF Alike, Without, Restrict
      <4>8. o.h = freeFileAccess(c, w)
        BY <3>5, <3>6 DEF c
      <4>. QED
        BY <1>e, <1>t, <1>f, <3>5, <3>6, <4>6, <4>7, <4>8
    <3>7. CASE ~(writeFD < 0)
      <4>1. ~(FirstFree(a, p) < 0) /\ w \in DOMAIN a.file
        BY <3>1, <3>3, <3>4, <3>7
      <4> DEFINE fd == FirstFree(a, p)
      <4>2. Sound(addFd(a, p, w), {w} \ {w}, {}) /\ Opened(a, p, fd, w, addFd(a, p, w))
        BY <3>3, <4>1, AddFdSound
      <4>3. o.h = addFd(a, p, w)
        BY <3>5, <3>7
      <4> HIDE DEF fd
      <4>4. /\ o.h.fdTable = SetSlot(SetSlot(t, p, readFD, r), p, fd, w)
            /\ DOMAIN o.h.file = DOMAIN a.file /\ Alike(o.h.file, a.file)
        BY <3>3, <4>2, <4>3 DEF Opened
      <4>5. o.h.fdTable \in [Procs -> [FDs -> Nat]]
        BY <4>2, <4>3 DEF Sound, Shape
      <4>6. \A x \in Procs \ {p} : o.h.fdTable[x] = h.fdTable[x]
        BY <4>4 DEF SetSlot
      <4>7. Alike(o.h.file, h.file)
        BY <3>3, <4>4 DEF Alike
      <4>8. Installed(h, p, q, o)
        <5>1. fd \in FDs /\ a.fdTable[p][fd] = Null
          BY <3>3, <4>1, AddFdSound DEF fd
        <5>2. readFD # fd /\ t[p][fd] = Null
          BY <3>2, <3>3, <5>1 DEF SetSlot
        <5>3. r \in DOMAIN o.h.file /\ w \in DOMAIN o.h.file
          BY <3>1, <3>3, <4>4
        <5>4. o.h.file[r].pipe = q /\ o.h.file[w].pipe = q
          BY <1>4, <3>1, <4>7, <5>3 DEF Alike
        <5>5. o.fds = <<readFD, fd>>
          BY <3>4, <3>5, <3>7 DEF fd
        <5>. QED
          BY <3>2, <4>4, <5>1, <5>2, <5>3, <5>4, <5>5 DEF Installed
      <4>. QED
        BY <1>e, <4>2, <4>3, <4>5, <4>6, <4>7, <4>8 DEF OthersKeep
    <3>. QED
      BY <3>6, <3>7
  <2>. QED
    BY <2>1, <2>2
<1>. QED
  BY <1>1, <1>2, <1>3, <1>4

\* Whatever could be allocated, sys_pipe leaves nothing loose; both ends are
\* in the table, of a pipe that was not there, or the table is as before.
Piped(h, p, o) ==
    \/ o.fds = <<-1, -1>> /\ o.h.fdTable = h.fdTable
    \/ \E q : q \notin DOMAIN h.pipe /\ Installed(h, p, q, o)

LEMMA SysPipeSound ==
    ASSUME NEW h, Sound(h, {}, {}), NEW p \in Procs, NEW o \in sysPipe(h, p)
    PROVE  Sound(o.h, {}, {}) /\ OthersKeep(h, p, o.h) /\ Piped(h, p, o)
<1> DEFINE q == Unused(DOMAIN h.pipe)
           r == Unused(DOMAIN h.file)
           w == Unused(DOMAIN h.file \cup {r})
           n == newPipe(h, q)
<1>1. q \in Address /\ q \notin DOMAIN h.pipe
  BY UnusedIsNew DEF Sound, Shape
<1>2. r \in Address /\ r \notin DOMAIN h.file
  BY UnusedIsNew DEF Sound, Shape
<1>3. w \in Address /\ w \notin DOMAIN h.file /\ w # r
  <2>1. IsFiniteSet(DOMAIN h.file \cup {r})
    BY FS_AddElement DEF Sound, Shape
  <2>2. w \in Address /\ w \notin DOMAIN h.file \cup {r}
    BY <2>1, UnusedIsNew
  <2>. QED
    BY <2>2
<1>4. \/ o = PipeFailed(h)
      \/ \E okR, okW \in BOOLEAN :
            o = InstallEnds(BothEnds(n, q, r, w, okR, okW), p, q, r, w, okR, okW)
  <2>1. Alloc \subseteq BOOLEAN
    BY DEF Alloc
  <2> HIDE DEF q, r, w, n
  <2> DEFINE Outcomes(okR, okW) == {InstallEnds(g, p, q, r, w, okR, okW)
                                      : g \in {BothEnds(n, q, r, w, okR, okW)}}
             Failures == {PipeFailed(h) : ok \in Alloc \ {TRUE}}
             All == {Outcomes(okR, okW) : okR \in Alloc, okW \in Alloc}
  <2>2. sysPipe(h, p) = (UNION All) \cup Failures
    BY DEF sysPipe, q, r, w, n
  <2>3. \A X \in All : \E okR, okW \in Alloc : X = Outcomes(okR, okW)
    <3> HIDE DEF Outcomes
    <3>. QED
      OBVIOUS
  <2> HIDE DEF All
  <2>4. o \in Failures \/ \E X \in All : o \in X
    <3> HIDE DEF Failures
    <3>1. o \in (UNION All) \cup Failures
      BY <2>2, Zenon
    <3>2. o \in Failures \/ o \in UNION All
      BY <3>1, Zenon
    <3>. QED
      BY <3>2, Zenon
  <2>5. CASE o \in Failures
    BY <2>5
  <2>6. ASSUME NEW X \in All, o \in X
        PROVE  \E okR, okW \in BOOLEAN :
                  o = InstallEnds(BothEnds(n, q, r, w, okR, okW), p, q, r, w, okR, okW)
    <3>1. PICK okR \in Alloc, okW \in Alloc : X = Outcomes(okR, okW)
      BY <2>3
    <3>2. o = InstallEnds(BothEnds(n, q, r, w, okR, okW), p, q, r, w, okR, okW)
      BY <2>6, <3>1
    <3>. QED
      BY <2>1, <3>2
  <2>. QED
    BY <2>4, <2>5, <2>6
<1> HIDE DEF q, r, w, n
<1>5. h.fdTable \in [Procs -> [FDs -> Nat]] /\ OthersKeep(h, p, h)
  BY DEF Sound, Shape, OthersKeep, Alike
<1>6. CASE o = PipeFailed(h)
  BY <1>5, <1>6 DEF PipeFailed, Piped
<1>7. ASSUME NEW okR \in BOOLEAN, NEW okW \in BOOLEAN,
             o = InstallEnds(BothEnds(n, q, r, w, okR, okW), p, q, r, w, okR, okW)
      PROVE  Sound(o.h, {}, {}) /\ OthersKeep(h, p, o.h) /\ Piped(h, p, o)
  <2> DEFINE g == BothEnds(newPipe(h, q), q, r, w, okR, okW)
             t == h.fdTable
  <2>1. o = InstallEnds(g, p, q, r, w, okR, okW)
    BY <1>7 DEF n
  <2>2. g = BothEnds(newPipe(h, q), q, r, w, okR, okW)
    OBVIOUS
  <2> HIDE DEF g, t
  <2>3. /\ g.fdTable = h.fdTable /\ Alike(g.file, h.file) /\ DOMAIN h.file \subseteq DOMAIN g.file
        /\ okR /\ okW => Sound(g, {r, w}, {})
        /\ okR /\ ~okW => Sound(g, {r}, {})
        /\ ~okR /\ okW => Sound(g, {w}, {})
        /\ ~okR /\ ~okW => Sound(g, {}, {q}) /\ g.pipe[q].refCount = 0
        /\ (okR => g.file[r].pipe = q) /\ (okW => g.file[w].pipe = q)
    <3>1. r # w
      BY <1>3
    <3>2. EndsMade(h, q, r, w, okR, okW, g)
      BY <1>1, <1>2, <1>3, <2>2, <3>1, BothEndsSound
    <3>. QED
      BY <3>2 DEF EndsMade
  <2>4. r # DriverFile /\ w # DriverFile /\ r \in Nat /\ r # Null
    BY <1>2, <1>3 DEF Sound, Points, Address
  <2>5. HoldersIn(t, r) = {} /\ HoldersIn(t, w) = {}
    BY <1>2, <1>3, NotHeld DEF Sound, t
  <2>6. t \in [Procs -> [FDs -> Nat]]
    BY <1>5 DEF t
  <2>7. Sound(o.h, {}, {}) /\ OthersKeep(g, p, o.h) /\ Installed(g, p, q, o)
    <3>1. g.fdTable = t /\ r # w
      BY <1>3, <2>3 DEF t
    <3>. QED
      BY <2>1, <2>3, <2>4, <2>5, <2>6, <3>1, InstallEndsSound
  <2>8. OthersKeep(h, p, o.h)
    BY <2>3, <2>7 DEF OthersKeep, Alike, t
  <2>9. Installed(h, p, q, o)
    BY <2>3, <2>7 DEF Installed
  <2>. QED
    BY <1>1, <2>7, <2>8, <2>9 DEF Piped
<1>. QED
  BY <1>4, <1>6, <1>7

-----------------------------------------------------------------------------
(* The invariant *)

\* Between calls nothing is loose, and only a live process has descriptors.
TablesOK ==
    /\ state \in [Procs -> {"FREE", "ALIVE", "ZOMBIE"}]
    /\ \A p \in Procs : state[p] # "ALIVE" => fdTable[p] = NoFds
FilesInv == Sound(Objects, {}, {}) /\ TablesOK

LEMMA SetIs ==
    ASSUME NEW h, Set(h), Sound(h, {}, {})
    PROVE  Sound(Objects, {}, {})' /\ fdTable' = h.fdTable
<1>1. fdTable' = h.fdTable /\ file' = h.file /\ pipe' = h.pipe
  BY DEF Set
<1>2. Objects' = h
  <2>1. h = [fdTable |-> h.fdTable, file |-> h.file, pipe |-> h.pipe]
    BY DEF Sound, Shape
  <2>. QED
    BY <1>1, <2>1 DEF Objects
<1>3. Sound(Objects', {}, {})
  BY <1>2
<1>. QED
  BY <1>1, <1>3

\* A step that leaves nothing loose and changes the table of one live process.
LEMMA StepKeeps ==
    ASSUME FilesInv, NEW p \in Procs, NEW h, Set(h), Sound(h, {}, {}),
           \A x \in Procs \ {p} : h.fdTable[x] = fdTable[x],
           state[p] = "ALIVE", UNCHANGED state
    PROVE  FilesInv'
<1>1. Sound(Objects, {}, {})' /\ fdTable' = h.fdTable
  BY SetIs
<1>2. TablesOK'
  BY <1>1 DEF FilesInv, TablesOK
<1>. QED
  BY <1>1, <1>2 DEF FilesInv

LEMMA FilesStart == FilesInit => FilesInv
<1> SUFFICES ASSUME FilesInit
             PROVE  FilesInv
  OBVIOUS
<1> DEFINE h == Objects
<1>1. h = [fdTable |-> h.fdTable, file |-> h.file, pipe |-> h.pipe]
      /\ h.fdTable = fdTable /\ h.file = KeyboardFiles /\ h.pipe = KeyboardPipe
  BY DEF Objects, FilesInit
<1> HIDE DEF h
<1>2. /\ DOMAIN h.file = {1, 2} /\ DOMAIN h.pipe = {1}
      /\ h.file[1] = [pipe |-> 1, flags |-> READ, refCount |-> 1]
      /\ h.file[2] = [pipe |-> 1, flags |-> WRITE, refCount |-> 1]
      /\ h.pipe[1] = [refCount |-> 2, writerCount |-> 1]
  BY <1>1 DEF KeyboardFiles, KeyboardPipe
<1>3. /\ INIT_PID \in Procs /\ STDIN \in FDs
      /\ fdTable = [p \in Procs |-> [fd \in FDs |-> IF p = INIT_PID /\ fd = STDIN THEN 1 ELSE 0]]
  BY FilesAssumption, SlotsFinite DEF FilesInit, Null, STDIN
<1>4. Shape(h)
  <2>1. IsFiniteSet({1, 2}) /\ IsFiniteSet({1})
    <3>1. IsFiniteSet({1})
      BY FS_Singleton
    <3>2. IsFiniteSet({1} \cup {2}) /\ {1} \cup {2} = {1, 2}
      BY <3>1, FS_AddElement
    <3>. QED
      BY <3>1, <3>2
  <2>2. h.file \in [DOMAIN h.file -> FileRecord]
    <3>1. h.file[1] \in FileRecord /\ h.file[2] \in FileRecord
      BY <1>2 DEF FileRecord, Address, Null
    <3>. QED
      BY <1>1, <1>2, <3>1 DEF KeyboardFiles
  <2>3. h.pipe \in [DOMAIN h.pipe -> PipeRecord]
    <3>1. h.pipe[1] \in PipeRecord
      BY <1>2 DEF PipeRecord
    <3>. QED
      BY <1>1, <1>2, <3>1 DEF KeyboardPipe
  <2>4. h.fdTable \in [Procs -> [FDs -> Nat]]
    BY <1>1, <1>3
  <2>. QED
    BY <1>1, <1>2, <2>1, <2>2, <2>3, <2>4 DEF Shape, Address, Null
<1>5. Points(h)
  BY <1>1, <1>2, <1>3 DEF Points, DriverFile, Null
<1>6. FilesCounted(h, {})
  <2>1. HoldersIn(h.fdTable, 1) = {<<INIT_PID, STDIN>>}
    BY <1>1, <1>3 DEF HoldersIn, Slots
  <2>2. HoldersIn(h.fdTable, 2) = {}
    BY <1>1, <1>3 DEF HoldersIn, Slots
  <2>3. Cardinality(HoldersIn(h.fdTable, 1)) = 1 /\ Cardinality(HoldersIn(h.fdTable, 2)) = 0
    BY <2>1, <2>2, FS_Singleton, FS_EmptySet
  <2>. QED
    BY <1>2, <2>3 DEF FilesCounted, Driver, DriverFile
<1>7. PipesCounted(h, {})
  <2>1. AccessesOf(h.file, 1) = {1} \cup {2}
    BY <1>2 DEF AccessesOf
  <2>2. WritersOf(h.file, 1) = {2}
    BY <1>2 DEF WritersOf, READ, WRITE
  <2>3. IsFiniteSet({1}) /\ Cardinality({1}) = 1 /\ Cardinality({2}) = 1
    BY FS_Singleton
  <2>4. Cardinality({1} \cup {2}) = 2
    BY <2>3, FS_AddElement
  <2>. QED
    BY <1>2, <2>1, <2>2, <2>3, <2>4 DEF PipesCounted
<1>8. TablesOK
  BY <1>3 DEF FilesInit, TablesOK, NoFds, Null
<1>. QED
  BY <1>4, <1>5, <1>6, <1>7, <1>8 DEF FilesInv, Sound, h

-----------------------------------------------------------------------------
(* The steps *)

LEMMA PipeKeeps == ASSUME FilesInv, NEW p \in Procs, Pipe(p) PROVE FilesInv'
<1>1. PICK o \in sysPipe(Objects, p) : Set(o.h)
  BY DEF Pipe
<1>2. Sound(o.h, {}, {}) /\ OthersKeep(Objects, p, o.h)
  BY SysPipeSound DEF FilesInv
<1> DEFINE h == o.h
<1> HIDE DEF h
<1>3. Set(h) /\ Sound(h, {}, {}) /\ \A x \in Procs \ {p} : h.fdTable[x] = fdTable[x]
  BY <1>1, <1>2 DEF OthersKeep, Objects, h
<1>. QED
  BY <1>3, StepKeeps DEF Pipe, Calls, Alive

LEMMA ReopenKeeps == ASSUME FilesInv, NEW p \in Procs, Reopen(p) PROVE FilesInv'
<1>1. PICK fd \in FDs : \E o \in reopenFd(Objects, p, fd) : Set(o.h)
  BY DEF Reopen
<1>2. PICK o \in reopenFd(Objects, p, fd) : Set(o.h)
  BY <1>1
<1>3. Sound(o.h, {}, {}) /\ OthersKeep(Objects, p, o.h)
  BY ReopenSound DEF FilesInv
<1> DEFINE h == o.h
<1> HIDE DEF h
<1>4. Set(h) /\ Sound(h, {}, {}) /\ \A x \in Procs \ {p} : h.fdTable[x] = fdTable[x]
  BY <1>2, <1>3 DEF OthersKeep, Objects, h
<1>. QED
  BY <1>4, StepKeeps DEF Reopen, Calls, Alive

LEMMA CloseKeeps == ASSUME FilesInv, NEW p \in Procs, Close(p) PROVE FilesInv'
<1>1. PICK fd \in FDs : Set(closeFd(Objects, p, fd))
  BY DEF Close
<1> DEFINE h == closeFd(Objects, p, fd)
<1>2. Sound(h, {}, {}) /\ Closed(Objects, p, fd, h)
  BY CloseFdSound DEF FilesInv
<1> HIDE DEF h
<1>3. Set(h) /\ Sound(h, {}, {}) /\ \A x \in Procs \ {p} : h.fdTable[x] = fdTable[x]
  <2>1. Set(h)
    BY <1>1 DEF h
  <2>2. Objects.fdTable = fdTable /\ fdTable \in [Procs -> [FDs -> Nat]]
    BY DEF Objects, FilesInv, Sound, Shape
  <2>. QED
    BY <1>2, <2>1, <2>2 DEF Closed, SetSlot
<1>. QED
  BY <1>3, StepKeeps DEF Close, Calls, Alive

LEMMA DupKeeps == ASSUME FilesInv, NEW p \in Procs, Dup(p) PROVE FilesInv'
<1>1. PICK oldFd \in FDs, newFd \in FDs : Set(dupFd(Objects, p, oldFd, newFd))
  BY DEF Dup
<1> DEFINE h == dupFd(Objects, p, oldFd, newFd)
<1>2. Sound(h, {}, {}) /\ Duplicated(Objects, p, oldFd, newFd, h)
  BY DupFdSound DEF FilesInv
<1> HIDE DEF h
<1>3. Set(h) /\ Sound(h, {}, {}) /\ \A x \in Procs \ {p} : h.fdTable[x] = fdTable[x]
  <2>1. Set(h)
    BY <1>1 DEF h
  <2>2. Objects.fdTable = fdTable /\ fdTable \in [Procs -> [FDs -> Nat]]
    BY DEF Objects, FilesInv, Sound, Shape
  <2>. QED
    BY <1>2, <2>1, <2>2 DEF Duplicated, SetSlot
<1>. QED
  BY <1>3, StepKeeps DEF Dup, Calls, Alive

\* The child inherits p's table; p is alive and the child's slot was free.
LEMMA SpawnKeeps == ASSUME FilesInv, NEW p \in Procs, Spawn(p) PROVE FilesInv'
<1>1. PICK c \in Procs, fd \in FDs, target \in FDs \cup {-1} :
         /\ state[p] = "ALIVE" /\ state[c] = "FREE"
         /\ Set(Overridden(copyFdTable(Objects, c, p), c, <<<<fd, target>>>>))
         /\ state' = [state EXCEPT ![c] = "ALIVE"]
  BY DEF Spawn, Alive
<1> DEFINE g == copyFdTable(Objects, c, p)
           h == Overridden(g, c, <<<<fd, target>>>>)
<1>2. Sound(g, {}, {}) /\ Copied(Objects, c, p, g)
  <2>1. c # p
    BY <1>1
  <2>. QED
    BY <2>1, CopySound DEF FilesInv
<1>3. Set(h)
  BY <1>1
<1> HIDE DEF g
<1>4. Sound(h, {}, {}) /\ OnlyTableOf(g, c, h)
  <2> DEFINE overrides == <<<<fd, target>>>>
  <2>1. Len(overrides) \in Nat
    OBVIOUS
  <2> HIDE DEF overrides
  <2>2. Sound(Overridden(g, c, overrides), {}, {}) /\ OnlyTableOf(g, c, Overridden(g, c, overrides))
    BY <1>2, <2>1, OverriddenSound
  <2>. QED
    BY <2>2 DEF overrides
<1> HIDE DEF h
<1>5. Sound(Objects, {}, {})' /\ fdTable' = h.fdTable
  BY <1>3, <1>4, SetIs
<1>6. \A x \in Procs \ {c} : fdTable'[x] = fdTable[x]
  BY <1>2, <1>4, <1>5 DEF Copied, OnlyTableOf, Objects, FilesInv, Sound, Shape
<1>7. TablesOK'
  BY <1>1, <1>6 DEF TablesOK, FilesInv
<1>. QED
  BY <1>5, <1>7 DEF FilesInv

LEMMA TerminateKeeps == ASSUME FilesInv, NEW p \in Procs, Terminate(p) PROVE FilesInv'
<1> DEFINE h == closeAllFDs(Objects, p)
<1>1. Set(h) /\ state' = [state EXCEPT ![p] = "ZOMBIE"]
  BY DEF Terminate
<1>2. Sound(h, {}, {}) /\ Emptied(Objects, p, h)
  BY CloseAllSound DEF FilesInv
<1> HIDE DEF h
<1>3. Sound(Objects, {}, {})' /\ fdTable' = h.fdTable
  BY <1>1, <1>2, SetIs
<1>4. fdTable' = [fdTable EXCEPT ![p] = NoFds] /\ fdTable \in [Procs -> [FDs -> Nat]]
  BY <1>2, <1>3 DEF Emptied, Objects, FilesInv, Sound, Shape
<1>5. TablesOK'
  BY <1>1, <1>4 DEF TablesOK, FilesInv
<1>. QED
  BY <1>3, <1>5 DEF FilesInv

LEMMA ReapKeeps == ASSUME FilesInv, NEW p \in Procs, Reap(p) PROVE FilesInv'
<1>1. fdTable \in [Procs -> [FDs -> Nat]] /\ fdTable[p] = NoFds
  BY DEF FilesInv, Sound, Shape, TablesOK, Reap, Objects
<1>2. fdTable' = fdTable /\ file' = file /\ pipe' = pipe
  BY <1>1 DEF Reap
<1>3. Sound(Objects, {}, {})'
  <2>1. Objects' = Objects
    BY <1>2 DEF Objects
  <2>2. Sound(Objects', {}, {})
    BY <2>1 DEF FilesInv
  <2>. QED
    BY <2>2
<1>4. TablesOK'
  BY <1>2 DEF TablesOK, FilesInv, Reap
<1>. QED
  BY <1>3, <1>4 DEF FilesInv

LEMMA FilesPreserve == FilesInv /\ [FilesNext]_<<fileVars, state>> => FilesInv'
<1> SUFFICES ASSUME FilesInv, [FilesNext]_<<fileVars, state>>
             PROVE  FilesInv'
  OBVIOUS
<1>1. CASE UNCHANGED <<fileVars, state>>
  <2>1. Objects' = Objects /\ fdTable' = fdTable /\ state' = state
    BY <1>1 DEF Objects, fileVars
  <2>2. Sound(Objects', {}, {}) /\ TablesOK'
    BY <2>1 DEF FilesInv, TablesOK
  <2>. QED
    BY <2>2 DEF FilesInv
<1>2. ASSUME NEW p \in Procs, FilesStep(p)
      PROVE  FilesInv'
  BY <1>2, PipeKeeps, ReopenKeeps, CloseKeeps, DupKeeps, SpawnKeeps, TerminateKeeps, ReapKeeps
  DEF FilesStep
<1>. QED
  BY <1>1, <1>2 DEF FilesNext

\* The reference counts are exact between any two calls, and only live
\* processes hold descriptors.
THEOREM FilesInvariance == FilesSpec => []FilesInv
  BY FilesStart, FilesPreserve, PTL DEF FilesSpec

-----------------------------------------------------------------------------
(* What the invariant gives *)

LEMMA InvMeans == FilesInv => NothingDangles /\ CountsExact /\ NothingLeaks
<1> SUFFICES ASSUME FilesInv
             PROVE  NothingDangles /\ CountsExact /\ NothingLeaks
  OBVIOUS
<1>1. /\ Points(Objects) /\ FilesCounted(Objects, {}) /\ PipesCounted(Objects, {}) /\ Shape(Objects)
      /\ Objects.fdTable = fdTable /\ Objects.file = file /\ Objects.pipe = pipe
  BY DEF FilesInv, Sound, Objects
<1>2. NothingDangles
  BY <1>1 DEF NothingDangles, Points, Slots
<1>3. CountsExact
  <2>1. \A f \in DOMAIN file : file[f].refCount =
           Cardinality(Holders(f)) + (IF f = DriverFile THEN 1 ELSE 0)
    BY <1>1 DEF FilesCounted, Holders, HoldersIn, Driver
  <2>2. ASSUME NEW q \in DOMAIN pipe
        PROVE  LET Of == {f \in DOMAIN file : file[f].pipe = q}
               IN  /\ pipe[q].refCount = Cardinality(Of)
                   /\ pipe[q].writerCount = Cardinality({f \in Of : "write" \in file[f].flags})
    <3> DEFINE Of == {f \in DOMAIN file : file[f].pipe = q}
    <3>1. Of = AccessesOf(file, q) /\ {f \in Of : "write" \in file[f].flags} = WritersOf(file, q)
      BY DEF AccessesOf, WritersOf
    <3>2. /\ pipe[q].refCount = Cardinality(AccessesOf(file, q))
          /\ pipe[q].writerCount = Cardinality(WritersOf(file, q))
      BY <1>1 DEF PipesCounted
    <3>. QED
      BY <3>1, <3>2
  <2>. QED
    BY <2>1, <2>2 DEF CountsExact
<1>4. NothingLeaks
  <2>1. ASSUME NEW f \in DOMAIN file, f # DriverFile
        PROVE  \E p \in Procs : Alive(p) /\ f \in Range(fdTable[p])
    <3>1. file[f].refCount = Cardinality(HoldersIn(fdTable, f)) + 0 /\ file[f].refCount > 0
      BY <1>1, <2>1 DEF FilesCounted, Driver
    <3>2. HoldersIn(fdTable, f) # {}
      BY <3>1, FS_EmptySet
    <3>3. PICK p \in Procs, fd \in FDs : fdTable[p][fd] = f
      BY <3>2 DEF HoldersIn, Slots
    <3>4. f # Null
      BY <1>1 DEF Shape, Address
    <3>5. fdTable[p] # NoFds
      BY <3>3, <3>4 DEF NoFds
    <3>6. Alive(p)
      BY <3>5 DEF FilesInv, TablesOK, Alive
    <3>7. fdTable[p] \in [FDs -> Nat]
      BY <1>1 DEF Shape
    <3>8. f \in Range(fdTable[p])
      BY <3>3, <3>7 DEF Range
    <3>. QED
      BY <3>6, <3>8
  <2>2. ASSUME NEW q \in DOMAIN pipe
        PROVE  \E f \in DOMAIN file : file[f].pipe = q
    <3>1. pipe[q].refCount = Cardinality(AccessesOf(file, q)) /\ pipe[q].refCount > 0
      BY <1>1 DEF PipesCounted
    <3>2. AccessesOf(file, q) # {}
      BY <3>1, FS_EmptySet
    <3>. QED
      BY <3>2 DEF AccessesOf
  <2>. QED
    BY <2>1, <2>2 DEF NothingLeaks
<1>. QED
  BY <1>2, <1>3, <1>4

\* closeFd, dupFd, copyFdTable and the error paths of sys_pipe and sys_open:
\* no descriptor and no access ever points to freed memory.
THEOREM NothingEverDangles == FilesSpec => []NothingDangles
<1>1. FilesInv => NothingDangles
  BY InvMeans
<1>. QED
  BY <1>1, FilesInvariance, PTL

\* addFileRef, removeFileRef, newFileAccess and freeFileAccess: refCount and
\* writerCount are the numbers of slots, accesses and writers there are.
THEOREM CountsAlwaysExact == FilesSpec => []CountsExact
<1>1. FilesInv => CountsExact
  BY InvMeans
<1>. QED
  BY <1>1, FilesInvariance, PTL

\* Whatever call fails and whoever dies, an access is held by a live process
\* and a pipe by an access.
THEOREM NothingEverLeaks == FilesSpec => []NothingLeaks
<1>1. FilesInv => NothingLeaks
  BY InvMeans
<1>. QED
  BY <1>1, FilesInvariance, PTL

\* A process that called exit or was killed by another holds no descriptor,
\* so freeProcess need not close any (FilesSpec leaves out Ctrl+C, which kills
\* the process that has the CPU and lets it go on: ZombieCall).
THEOREM TheDeadHoldNothing == FilesSpec => []ZombieHoldsNothing
<1>1. FilesInv => ZombieHoldsNothing
  BY DEF FilesInv, TablesOK, ZombieHoldsNothing
<1>. QED
  BY <1>1, FilesInvariance, PTL
=============================================================================
