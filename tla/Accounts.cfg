SPECIFICATION Spec
CONSTANTS
  c1 = c1
  c2 = c2
  n1 = n1
  n2 = n2
  e1 = e1
  e2 = e2
  Client = {c1, c2}
  Username = {n1, n2}
  Email = {e1, e2}
  Account <- MCAccount
  Connected = {TRUE, FALSE}
  Life = 1
  Kept = 3
  MaxTime = 3
  None = None
INVARIANTS SessionsHaveUser StoreMatchesSessions
PROPERTIES RegistrySpec
SYMMETRY Symmetry
CHECK_DEADLOCK FALSE
