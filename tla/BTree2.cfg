CONSTANTS
    f1 = f1
    f2 = f2
    None = none
    Fibers = {f1, f2}
    Load <- MCLoad
    MaxKey = 12
    LeafCap = 4
    InnerCap = 3
    Underfull = 1
    RightMax = 3
    Mixes <- MCMixes
    OpKeys <- MCOpKeys
    MaxOps = 3
    MaxPages = 12
    MaxFails = 1
    MaxVersion = 8
SPECIFICATION Spec
SYMMETRY FiberSymmetry
CHECK_DEADLOCK FALSE
INVARIANTS
    TreeStands
    ReadsAreRight
    
