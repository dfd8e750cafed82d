SPECIFICATION Spec
CONSTANTS
  Keys = {k1, k2, k3, k4, k5, k6}
  Values = {v1, v2}
  Nil = Nil
  Size = 3
SYMMETRY Sym
INVARIANTS TypeOK OneListPerKey
PROPERTIES EvictsOnlyWhenFull ImplementsLossyCache
