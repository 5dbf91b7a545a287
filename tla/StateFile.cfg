\* Two commands saving and loading two states, for ever.
SPECIFICATION FairSpec
CONSTANTS
  Proc = {p1, p2}
  Value = {s1, s2}
  NoState = NoState  NoFile = NoFile  Partial = Partial  NoProc = NoProc
INVARIANTS
  TypeOK
  RenamesItsOwn
PROPERTIES
  LockIsReleased
  IsARegister
