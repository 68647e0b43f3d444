SPECIFICATION Spec
CONSTANTS
  Proc = {i, j, p}
  Initers = {i, j}
  Secret = {s1, s2}
  Empty = Empty
  NoFile = NoFile
  Value = {alice}
SYMMETRY Symmetry
INVARIANTS TypeOK OwnRowsReadable SentTokensBacked SecretWhole
PROPERTY SecretKept
CHECK_DEADLOCK FALSE
