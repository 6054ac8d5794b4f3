SPECIFICATION Spec
CONSTANTS
    k1 = k1
    k2 = k2
    k3 = k3
    v1 = v1
    v2 = v2
    Nothing = Nothing
    Key <- MCKey
    Value <- MCValue
    Lifetime = {1, 2}
    MaxEntries = 2
    MaxTime = 4
SYMMETRY MCSymmetry
INVARIANTS IInv
PROPERTIES ImplementsCache
