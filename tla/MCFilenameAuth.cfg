CONSTANTS
  x = x
  dot = dot
  Junk = Junk
  MasterKey = MasterKey
  NoKey = NoKey
  NameChars <- MCNameChars
  PadBits <- MCPadBits
  Sep = dot
  MaxNameLen = 2
  MaxEntries = 2
SPECIFICATION Spec
INVARIANT TypeOK
INVARIANT RoundTrip
INVARIANT AcceptedWereCreated
