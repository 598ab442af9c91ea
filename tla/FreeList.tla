------------------------------ MODULE FreeList ------------------------------
(***************************************************************************)
(* The default memory manager, Kernel/memory/memoryManager.c: first fit    *)
(* with splitting and coalescing.  The heap is the sequence of its blocks  *)
(* in address order; prev and next are the neighbours in the sequence.     *)
(***************************************************************************)
EXTENDS Naturals, Sequences, SequencesExt

CONSTANTS HEADER_SIZE, ALIGNMENT

\* n rounded up to a multiple of ALIGNMENT (sizes far from the width of
\* uint64_t, where n + ALIGNMENT - 1 would wrap).
alignUp(n) == ((n + ALIGNMENT - 1) \div ALIGNMENT) * ALIGNMENT

FreeListInit(total) == <<[size |-> total - HEADER_SIZE, free |-> TRUE]>>

\* The offset of block i's payload, what mem_alloc returns.
Payload(blocks, i) ==
    LET f[k \in 1 .. i] == IF k = 1 THEN HEADER_SIZE
                           ELSE f[k - 1] + blocks[k - 1].size + HEADER_SIZE
    IN  f[i]

\* Block i is taken; what is left over becomes a block if a header and a
\* smallest payload fit in it.
SplitAt(blocks, i, size) ==
    LET rest == blocks[i].size - size
    IN  IF rest >= HEADER_SIZE + ALIGNMENT
        THEN InsertAt(ReplaceAt(blocks, i, [size |-> size, free |-> FALSE]), i + 1,
                      [size |-> rest - HEADER_SIZE, free |-> TRUE])
        ELSE [blocks EXCEPT ![i].free = FALSE]

\* [heap, addr], addr = -1 for NULL.
FreeListAlloc(blocks, n) ==
    LET size == alignUp(n)
        Fit  == {i \in DOMAIN blocks : blocks[i].free /\ blocks[i].size >= size}
    IN  IF n = 0 \/ Fit = {} THEN [heap |-> blocks, addr |-> -1]
        ELSE LET i == CHOOSE i \in Fit : \A j \in Fit : i <= j
             IN  [heap |-> SplitAt(blocks, i, size), addr |-> Payload(blocks, i)]

\* Block i absorbs the next one if both are free.
Absorb(blocks, i) ==
    IF i \in DOMAIN blocks /\ i + 1 \in DOMAIN blocks /\ blocks[i].free /\ blocks[i + 1].free
    THEN RemoveAt([blocks EXCEPT ![i].size = @ + HEADER_SIZE + blocks[i + 1].size], i + 1)
    ELSE blocks

\* Seeded fault: a freed block is not joined to the one before it.
FreeListFreeForward(blocks, addr) ==
    LET i == CHOOSE i \in DOMAIN blocks : Payload(blocks, i) = addr
    IN  Absorb([blocks EXCEPT ![i].free = TRUE], i)

\* mem_free of an address that mem_alloc returned and nobody has freed.
FreeListFree(blocks, addr) ==
    LET i == CHOOSE i \in DOMAIN blocks : Payload(blocks, i) = addr
    IN  Absorb(Absorb([blocks EXCEPT ![i].free = TRUE], i), i - 1)

FreeListStatus(blocks, total) ==
    LET Free == SelectSeq(blocks, LAMBDA b : b.free)
        f    == FoldLeft(LAMBDA acc, b : acc + b.size, 0, Free)
    IN  [free |-> f, occupied |-> total - f, fragments |-> Len(Free)]
=============================================================================
