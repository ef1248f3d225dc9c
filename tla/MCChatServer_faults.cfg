\* Clients and both servers are killed at any point, both servers start again.
CONSTANTS
  c1 = c1  c2 = c2  c3 = c3
  alice = alice  bob = bob  none = none
  NoCred = none
  UserId = {1}
  Client = {c1, c2}
  Cred = {alice}
  Residue = {"clean"}
  Typed = {alice}
  Kills = TRUE
  FdSetSize = 3
  InitialAction = {"LOGIN"}
  Restarts = 1
  AuthFaults = TRUE
SPECIFICATION Spec
SYMMETRY Symmetry
INVARIANTS
  TypeOK LockStep AnswerIsCurrent RelayOwn NoFalseSuccess AnswerFitsCommand
  RecvNeverBlocks RelaysBounded BareRequestIsFirst
PROPERTIES KeepsToService ImplementsService
\* The server spins in recv for ever on a connection that was reset.
CHECK_DEADLOCK FALSE
