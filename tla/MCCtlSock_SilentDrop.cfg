CONSTANTS
  c1 = c1
  c2 = c2
  anon = anon
  uidSelf = uidSelf
  uidOther = uidOther
  noPeer = noPeer
  Uids <- MCUids
  ServerUID = uidSelf
  NoPeer = noPeer
  Conns <- MCConns
  Ids <- MCIds
  ConnID <- MCConnID
  \* As with 60 per minute against a 5 s read timeout, a client can keep a
  \* connection busy past its 30 s deadline without being refused.
  Limit = 3
  Window = 4
  ConnTimeout = 3
  ReadTimeout = 2
  MaxReqs = 4
SPECIFICATION Spec
SYMMETRY Symmetry
INVARIANT NoSilentDrop
