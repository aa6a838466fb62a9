CONSTANTS
    fa = fa
    fb = fb
    rmain = rmain
    rother = rother
    Files = {fa, fb}
    Roots = {rmain, rother}
    RootOf <- MCRootOf
    Direct = {fa}
    InitialFiles = {fb}
    Edited = {fb}
    Unreliable = {fb}
    BaseRoots = {rmain}
    Walkers = {w1, w2}
    Cap = 1
    MaxChanges = 2
SPECIFICATION Spec
INVARIANTS NoLostInvalidation RootTimeDetectsListing CapIsReported
CHECK_DEADLOCK FALSE
SYMMETRY WalkerSymmetry
