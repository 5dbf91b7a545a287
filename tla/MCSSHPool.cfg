\* Two callers and two hosts, one of them under two entries.
SPECIFICATION FairSpec
CONSTANTS
  i1 = i1  i2 = i2  i3 = i3  h1 = h1  h2 = h2
  Caller = {p1, p2}
  Info = {i1, i2, i3}
  keyOf <- MCKeyOf
  Client = {c1, c2, c3}
  None = None
INVARIANTS
  TypeOK
  NothingLeaks
  OneConnectionPerHost
PROPERTIES
  CallsReturn
