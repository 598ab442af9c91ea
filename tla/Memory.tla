------------------------------- MODULE Memory -------------------------------
(***************************************************************************)
(* The heap under callers that ask for memory and give it back in any      *)
(* order, with either manager (the build chooses one).                     *)
(*   Kernel/include/memoryManager.h                                        *)
(***************************************************************************)
EXTENDS FreeList, Buddy, Functions, TLC

CONSTANTS
    HeapSize, Requests,
    Managers,       \* the builds: "freelist", "buddy"
    Pools           \* values of MAX_NODES

ASSUME MemoryAssumption == /\ HeapSize \in Nat /\ Requests \subseteq Nat /\ Pools \subseteq Nat \ {0}
                           /\ ALIGNMENT \in Nat \ {0} /\ HEADER_SIZE % ALIGNMENT = 0
                           /\ HeapSize % ALIGNMENT = 0 /\ HeapSize > HEADER_SIZE
                           /\ HeapSize >= 2 ^ MIN_ORDER

VARIABLES manager, heap, held

memVars == <<manager, heap, held>>

mem_alloc(n) == IF manager = "buddy" THEN BuddyAlloc(heap, n) ELSE FreeListAlloc(heap, n)
mem_free(addr) == IF manager = "buddy" THEN BuddyFree(heap, addr) ELSE FreeListFree(heap, addr)
mem_status == IF manager = "buddy" THEN BuddyStatus(heap) ELSE FreeListStatus(heap, HeapSize)

Init == /\ held = <<>>
        /\ \/ /\ manager = "freelist" /\ manager \in Managers
              /\ heap = FreeListInit(HeapSize)
           \/ /\ manager = "buddy" /\ manager \in Managers
              /\ \E pool \in Pools : heap = BuddyInit(HeapSize, pool)

Alloc(n) == \E r \in {mem_alloc(n)} :
    /\ heap' = r.heap
    /\ held' = IF r.addr = -1 THEN held ELSE (r.addr :> n) @@ held
    /\ UNCHANGED manager

Free(a) == /\ heap' = mem_free(a)
           /\ held' = Restrict(held, DOMAIN held \ {a})
           /\ UNCHANGED manager

Next == \/ \E n \in Requests : Alloc(n)
        \/ \E a \in DOMAIN held : Free(a)

Spec == Init /\ [][Next]_memVars

-----------------------------------------------------------------------------
\* Both managers keep the promise of memoryManager.h: what two callers hold
\* never overlaps and is as large as was asked (mem_alloc, mem_free).
Promise == INSTANCE Allocator
IsAnAllocator == Promise!AllocatorSpec

FullTree == 2 ^ (log2Int(HeapSize) - MIN_ORDER + 1) - 1

\* Nothing is lost: blocks and headers, or the leaves of the tree, cover the
\* heap, and each node slot is either in the tree or on the recycling list.
\* Once everything is given back, in whatever order, the heap is one free block
\* again (coalescing, merging), if the pool has nodes for a full tree.
NothingLost ==
    /\ \/ /\ manager = "freelist"
          /\ Payload(heap, Len(heap)) + heap[Len(heap)].size = HeapSize
       \/ /\ manager = "buddy"
          /\ mem_status.free + mem_status.occupied = 2 ^ heap.maxOrder
          /\ DOMAIN heap.nodes = Subtree(heap, Root) \cup Recycled(heap, heap.firstFreeNode)
          /\ Subtree(heap, Root) \cap Recycled(heap, heap.firstFreeNode) = {}
    /\ held = <<>> /\ (manager = "buddy" => heap.pool >= FullTree) =>
          LET s == mem_status
          IN  s.fragments = 1 /\ s.occupied = (IF manager = "buddy" THEN 0 ELSE HEADER_SIZE)
=============================================================================
