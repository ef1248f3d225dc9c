\* As many clients as one select can watch, any of which may be killed; a stale
\* tag may follow a response.
CONSTANTS
  c1 = c1  c2 = c2  c3 = c3
  alice = alice  bob = bob  none = none
  NoCred = none
  UserId = {1}
  Client = {c1, c2}
  Cred = {alice}
  Residue = {"clean", "detail"}
  Typed = {alice}
  Kills = TRUE
  FdSetSize = 3
  InitialAction = {"OTHER"}
  Restarts = 0
  AuthFaults = FALSE
SPECIFICATION FairSpec
PROPERTIES Answered EndNoticed
\* The server spins in recv for ever on a connection that was reset.
CHECK_DEADLOCK FALSE
