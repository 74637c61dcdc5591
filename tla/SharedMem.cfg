CONSTANTS
    Tasks = {t1, t2}
    Word = 4
    Header = 12
    MemSize = 80
    Requests = {4, 5, 20}
SPECIFICATION Spec
INVARIANTS ChainsTileMemory FreeIsMerged
PROPERTIES ImplementsHeap
