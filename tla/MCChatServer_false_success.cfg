CONSTANTS
  c1 = c1  c2 = c2  c3 = c3
  alice = alice  bob = bob  none = none
  NoCred = none
  UserId = {1}
  Client = {c1, c2}
  Cred = {alice, bob}
  Residue = {"clean", "garbage"}
  Typed = {alice, bob}
  Kills = FALSE
  FdSetSize = 3
  InitialAction = {"OTHER"}
  Restarts = 0
  AuthFaults = FALSE
SPECIFICATION Spec
INVARIANT NoFalseSuccess
\* The server spins in recv for ever on a connection that was reset.
CHECK_DEADLOCK FALSE
