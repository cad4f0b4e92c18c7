SPECIFICATION Spec
CONSTANTS
    n1 = n1
    n2 = n2
    n3 = n3
    Nodes <- ThreeNodes
    Retention = 2
    MaxStored = 2
    MaxClock = 4
INVARIANTS TypeOK MemoryIsOnDisk FreshestStay
PROPERTIES MemorySpec
SYMMETRY Symmetry
