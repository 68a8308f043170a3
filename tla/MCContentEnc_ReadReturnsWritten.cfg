CONSTANTS
  f1 = f1
  id1 = id1
  id2 = id2
  NoID = NoID
  Files <- MCFiles
  FileIDs <- MCFileIDs
  Contents <- MCContents
  PlainBS = 2
  IVLen = 2
  TagLen = 1
  NumCPU = 2
  MaxTamper = 2
  RMWOffsets <- MCRMWOffsets
  MaxRMW = 1

SPECIFICATION Spec
SYMMETRY Symmetry
INVARIANT ReadReturnsWritten
