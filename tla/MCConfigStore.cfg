SPECIFICATION Spec
CONSTANTS
  i1 = i1
  i2 = i2
  i3 = i3
  None = None
  Inodes <- MCInodes
  LogNs <- MCLogNs
  Argon2Params <- MCArgon2Params
  EditValues <- MCEditValues
  MaxSaves = 3
  MaxEdits = 1
SYMMETRY Symm
INVARIANT TypeOK
INVARIANT CrashSafe
INVARIANT NoWeakMount
