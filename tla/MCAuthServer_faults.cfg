\* The calls before the second insert may throw, both servers die and start
\* again, and one select can watch one connection.
CONSTANTS
  alice = alice  bob = bob  p1 = p1  p2 = p2  none = none
  NoCred = none
  Email = {alice, bob}
  Passwd = {p1, p2}
  Cred <- TwoUsers
  UserId = {1, 2}
  Residue = {"clean"}
  Restarts = 1
  AuthFaults = TRUE
  SqlFaults = {"connect", "prepare", "insert", "login"}
  FdSetSize = 2
  MaxRequests = 2
SPECIFICATION FairSpec
INVARIANTS TypeOK LoginIsAccount UserIdsDistinct FailureIsClean RecvNeverBlocks
PROPERTIES ImplementsAuthService Served
\* The process ends on a request that does not parse, and spins after a reset.
CHECK_DEADLOCK FALSE
