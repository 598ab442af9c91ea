\* Both managers on a heap of 32 units; the buddy's pool may run out of nodes.
SPECIFICATION Spec
CONSTANTS
    HeapSize = 32
    HEADER_SIZE = 2
    ALIGNMENT = 2
    MIN_ORDER = 3
    Requests = {0, 1, 4, 8, 9, 16, 17, 32}
    Managers = {"freelist", "buddy"}
    Pools = {4, 7}
INVARIANTS NothingLost
PROPERTIES IsAnAllocator
