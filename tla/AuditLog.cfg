SPECIFICATION Spec
CONSTANTS
    c1 = c1
    c2 = c2
    c3 = c3
    c4 = c4
    t1 = t1
    t2 = t2
    Calls <- FourCalls
    Tenants <- TwoTenants
    MaxThreads = 2
    MaxRotations = 1
    MaxEdits = 2
SYMMETRY Symmetry
INVARIANT SingleThreadChain
 
INVARIANT RotationAnchored
