SPECIFICATION Spec
CONSTANTS
  Spaces = {n1}
  Names = {j1}
  NoSpace = NoSpace
  Configs = {v1, v2, v3}
  NoImage = {v3}
  NoMarshal = {v3}
  Clients = {c1, c2}
  MaxSeq = 2
  None = None
  Empty = Empty
  Torn = Torn
  Unknown = Unknown
SYMMETRY Sym
VIEW View
INVARIANTS TypeOK ListedAreStored FatalOnlyAfterFailure
PROPERTIES ImplementsConfigStore
