\* The database never fails.
CONSTANTS
  alice = alice  bob = bob  p1 = p1  p2 = p2  none = none
  NoCred = none
  Email = {alice, bob}
  Passwd = {p1, p2}
  Cred <- Credentials
  UserId = {1, 2, 3}
  Residue = {"clean"}
  Restarts = 0
  AuthFaults = FALSE
  SqlFaults = {}
  FdSetSize = 3
  MaxRequests = 3
SPECIFICATION Spec
INVARIANT CreatedIsStored
\* The process ends on a request that does not parse, and spins after a reset.
CHECK_DEADLOCK FALSE
