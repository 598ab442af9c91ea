------------------------------- MODULE Buddy -------------------------------
(***************************************************************************)
(* The buddy memory manager, Kernel/memory/memoryManagerBuddy.c, built     *)
(* with USE_BUDDY.  The heap is the record of the file's static variables: *)
(* the nodes that were ever used, of which the tree uses some and the list *)
(* at firstFreeNode the others, and the bounds maxOrder and pool.          *)
(***************************************************************************)
EXTENDS Integers, FiniteSets, FiniteSetsExt

CONSTANTS MIN_ORDER

Root == 0
None == -1

isLeaf(h, i) == h.nodes[i].leftChild = None
nodeCount(h) == Cardinality(DOMAIN h.nodes)
log2Int(n) == CHOOSE r \in 0 .. n : 2 ^ r <= n /\ n < 2 ^ (r + 1)

Leaf(order, offset, parent) == [isFree |-> TRUE, order |-> order, offset |-> offset,
                                leftChild |-> None, rightChild |-> None, parent |-> parent]

\* [h, idx]: a recycled slot if there is one, else the next of the pool.
createNode(h, order, offset, parent) ==
    LET idx == IF h.firstFreeNode # None THEN h.firstFreeNode ELSE nodeCount(h)
    IN  IF h.firstFreeNode = None /\ nodeCount(h) >= h.pool THEN [h |-> h, idx |-> None]
        ELSE [h   |-> [h EXCEPT !.firstFreeNode = IF @ # None THEN h.nodes[@].leftChild ELSE @,
                                !.nodes = [i \in DOMAIN @ \cup {idx} |->
                                             IF i = idx THEN Leaf(order, offset, parent) ELSE @[i]]],
              idx |-> idx]

recycled(h, idx) == [h EXCEPT !.nodes = [@ EXCEPT ![idx].parent = None,
                                                  ![idx].leftChild = h.firstFreeNode],
                              !.firstFreeNode = idx]

\* [h, ok]: leaf i is divided in two buddies.
splitNode(h, i) ==
    LET n == h.nodes[i]
        l == createNode(h, n.order - 1, n.offset, i)
        r == createNode(l.h, n.order - 1, n.offset + 2 ^ (n.order - 1), i)
    IN  IF n.order <= MIN_ORDER \/ l.idx = None THEN [h |-> h, ok |-> FALSE]
        ELSE IF r.idx = None THEN [h |-> recycled(l.h, l.idx), ok |-> FALSE]
        ELSE [h  |-> [r.h EXCEPT !.nodes = [@ EXCEPT ![i].leftChild = l.idx, ![i].rightChild = r.idx]],
              ok |-> TRUE]

\* mem_init; the pool is MAX_NODES.
BuddyInit(size, pool) ==
    LET maxOrder == IF log2Int(size) > MIN_ORDER THEN log2Int(size) ELSE MIN_ORDER
    IN  [nodes |-> [i \in {Root} |-> Leaf(maxOrder, 0, None)], firstFreeNode |-> None,
         maxOrder |-> maxOrder, pool |-> pool]

\* Seeded fault: the order whose block is the next one below the size.
getOrderFloor(h, size) == IF log2Int(size) < MIN_ORDER THEN MIN_ORDER ELSE log2Int(size)

\* The least order that covers size, but never more than maxOrder.
getOrder(h, size) ==
    CHOOSE o \in MIN_ORDER .. h.maxOrder :
        /\ 2 ^ o >= size \/ o = h.maxOrder
        /\ \A q \in MIN_ORDER .. o - 1 : 2 ^ q < size

updateNodeStatus(h, i) ==
    LET n == h.nodes[i]
    IN  IF i = None \/ isLeaf(h, i) THEN h
        ELSE [h EXCEPT !.nodes = [@ EXCEPT ![i].isFree =
                  h.nodes[n.leftChild].isFree /\ h.nodes[n.rightChild].isFree]]

\* [h, idx]: a free leaf of this order in the subtree of i, left to right,
\* larger leaves being divided on the way down; what was divided in vain stays so.
RECURSIVE findAndAllocate(_, _, _)
findAndAllocate(h, i, order) ==
    LET n    == h.nodes[i]
        s    == splitNode(h, i)
        \* both children of i in turn, in heap g
        InChildren(g) ==
            LET l == findAndAllocate(g, g.nodes[i].leftChild, order)
                r == findAndAllocate(l.h, g.nodes[i].rightChild, order)
            IN  IF l.idx # None THEN [l EXCEPT !.h = updateNodeStatus(@, i)]
                ELSE IF r.idx # None THEN [r EXCEPT !.h = updateNodeStatus(@, i)]
                ELSE r
    IN  CASE n.order < order -> [h |-> h, idx |-> None]
          [] n.order >= order /\ ~isLeaf(h, i) -> InChildren(h)
          [] n.order >= order /\ isLeaf(h, i) /\ ~n.isFree -> [h |-> h, idx |-> None]
          [] n.order = order /\ isLeaf(h, i) /\ n.isFree ->
                 [h |-> [h EXCEPT !.nodes = [@ EXCEPT ![i].isFree = FALSE]], idx |-> i]
          [] n.order > order /\ isLeaf(h, i) /\ n.isFree ->
                 IF s.ok THEN InChildren(s.h) ELSE [h |-> s.h, idx |-> None]

BuddyAlloc(h, n) ==
    LET r == findAndAllocate(h, Root, getOrder(h, n))
    IN  IF n = 0 THEN [heap |-> h, addr |-> -1]
        ELSE [heap |-> r.h, addr |-> IF r.idx = None THEN -1 ELSE r.h.nodes[r.idx].offset]

recycleChildNodes(h, l, r) == recycled(recycled(h, l), r)

canMerge(h, l, r) == /\ h.nodes[l].isFree /\ h.nodes[r].isFree
                     /\ isLeaf(h, l) /\ isLeaf(h, r)

\* tryMerge and mergeBuddies, up the tree as far as buddies are free.
RECURSIVE tryMerge(_, _)
tryMerge(h, i) ==
    LET p == h.nodes[i].parent
        l == h.nodes[p].leftChild
        r == h.nodes[p].rightChild
        g == recycleChildNodes([h EXCEPT !.nodes = [@ EXCEPT ![p].isFree = TRUE,
                                    ![p].leftChild = None, ![p].rightChild = None]], l, r)
    IN  IF p = None THEN h ELSE IF canMerge(h, l, r) THEN tryMerge(g, p) ELSE h

\* findNodeByAddress: the first slot that looks allocated at this offset.
findNodeByAddress(h, addr) ==
    LET Match == {i \in DOMAIN h.nodes : /\ h.nodes[i].offset = addr
                                         /\ ~h.nodes[i].isFree /\ isLeaf(h, i)}
    IN  IF Match = {} THEN None ELSE CHOOSE i \in Match : \A j \in Match : i <= j

BuddyFree(h, addr) ==
    LET i == findNodeByAddress(h, addr)
        g == [h EXCEPT !.nodes = [@ EXCEPT ![i].isFree = TRUE]]
    IN  IF i = None THEN h ELSE tryMerge(updateNodeStatus(g, g.nodes[i].parent), i)

\* The nodes of the tree, and its leaves.
RECURSIVE Subtree(_, _)
Subtree(h, i) == {i} \cup IF isLeaf(h, i) THEN {}
                          ELSE Subtree(h, h.nodes[i].leftChild) \cup Subtree(h, h.nodes[i].rightChild)
Leaves(h) == {i \in Subtree(h, Root) : isLeaf(h, i)}

countLeafNodes(h, free) ==
    LET S == {i \in Leaves(h) : h.nodes[i].isFree = free}
    IN  [count |-> Cardinality(S), bytes |-> MapThenSumSet(LAMBDA i : 2 ^ h.nodes[i].order, S)]

BuddyStatus(h) == [free      |-> countLeafNodes(h, TRUE).bytes,
                   occupied  |-> countLeafNodes(h, FALSE).bytes,
                   fragments |-> countLeafNodes(h, TRUE).count]

\* The slots on the list of recycled nodes.
RECURSIVE Recycled(_, _)
Recycled(h, i) == IF i = None THEN {} ELSE {i} \cup Recycled(h, h.nodes[i].leftChild)
=============================================================================
