CONSTANTS
  c1 = c1
  c2 = c2
  anon = anon
  uidSelf = uidSelf
  uidOther = uidOther
  noPeer = noPeer
  Uids <- MCUids
  ServerUID = uidSelf
  NoPeer = noPeer
  Conns <- MCConns
  Ids <- MCIds
  ConnID <- MCConnID
  Limit = 2
  Window = 4
  ConnTimeout = 3
  ReadTimeout = 2
  MaxReqs = 3
SPECIFICATION FairSpec
INVARIANTS TypeOK WindowLimit OnlyOwnerServed
PROPERTIES ConnEnds
