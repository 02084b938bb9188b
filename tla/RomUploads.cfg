SPECIFICATION RomSpec
CONSTANTS
  Upload = {u1}
  n1 = n1
  Chunk = {c1, c2}
  Index = {c1, c2, c3}
  Request = {r1, r2}
  Name <- OneName
  filename <- SameName
  Target = {u1}
INVARIANTS
  OneAssembler
  SessionHasDirectory
  DamagedOnlyByOverlap
  RecordIsRight
PROPERTIES
  FileIsKept
  TmpIsReclaimed
CHECK_DEADLOCK FALSE
