SPECIFICATION AllSpec
CONSTANTS
  Upload = {u1}
  n1 = n1
  Chunk = {c1}
  Index = {c1}
  Request = {r1}
  Name <- OneName
  filename <- SameName
  name = n1
  Url = {a, b}
  ETag = {e1, e2}
  Strong = {e1}
  Blocks = 2
  Tries = 2
INVARIANTS
  ImportIsOneVersion
  NoStrayPlaceholder
PROPERTY LibraryIsExclusive
CHECK_DEADLOCK FALSE
SYMMETRY Symmetry
