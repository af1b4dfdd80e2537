CONSTANTS
    None = None
    Blank = Blank
    p1 = p1
    p2 = p2
    p3 = p3
    Procs <- MCProcs
SPECIFICATION Spec
INVARIANTS GcomExclusion
PROPERTIES WedgedForever PassEnds
CHECK_DEADLOCK FALSE
