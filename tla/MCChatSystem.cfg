\* An account and a wrong password for it; both servers die and start again.
CONSTANTS
  c1 = c1  c2 = c2
  alice = alice  p1 = p1  p2 = p2  none = none
  NoCred = none
  Email = {alice}
  Passwd = {p1, p2}
  Cred <- AliceTwice
  UserId = {1, 2, 3, 4}
  Client = {c1, c2}
  Residue = {"clean"}
  Typed <- AliceTwice
  Kills = FALSE
  FdSetSize = 3
  InitialAction = {"OTHER"}
  Restarts = 1
  AuthFaults = TRUE
  SqlFaults = {}
  MaxRequests = 4
SPECIFICATION SystemSpec
SYMMETRY Symmetry
INVARIANTS LoginMeansAccount CreatedMeansAccount AccountsWereAskedFor
PROPERTIES PeerIsChatServer ServiceIsAuthServer
\* The servers spin in recv for ever on a connection that was reset.
CHECK_DEADLOCK FALSE
