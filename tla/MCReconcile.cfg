\* Every pair of a configuration and a state of a small world, every scope.
SPECIFICATION Spec
CONSTANTS
  i1 = i1  d1 = d1  z1 = z1  z2 = z2  v1 = v1  v2 = v2  b1 = b1  b2 = b2  g1 = g1
  x = x  y = y
  Unset = Unset
  Worlds <- MCWorlds
  Scopes <- MCScopes
INVARIANTS
  TypeOK
  ReplanIsRest
  WholeRunConverges
  ServerRunsPartition
