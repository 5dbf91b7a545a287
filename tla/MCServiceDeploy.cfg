\* "service deploy" without --infra.
SPECIFICATION Spec
CONSTANTS
  v = v  b = b  g = g  x = x
  Unset = Unset
  Worlds <- MCWorlds
  Filters <- MCFilters
INVARIANT DeploysTheServices
CHECK_DEADLOCK FALSE
