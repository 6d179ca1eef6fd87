SPECIFICATION Spec
CONSTANTS
    p1 = p1
    p2 = p2
    p3 = p3
SYMMETRY Symmetry
INVARIANTS
    TablesAreExact
    PacketsAreInOnePlace
    ArrivalOrderIsKept
    
    
CHECK_DEADLOCK FALSE
