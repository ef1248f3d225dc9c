\* A request may arrive in pieces.
CONSTANTS
  alice = alice  bob = bob  carol = carol  none = none
  Cred = {alice, bob, carol}
  NoCred = none
  UserId = {1}
  Residue = {"clean"}
  Text <- MCText
  Date <- MCDate
  Kinds = {"requests"}
  Fill = {0, 204}
  BufLen = 32
  MaxId = 2
  Ids = {0, 1, 2, 130}
  Vals = {0, 1, 2, 130}
  Cuts = TRUE
SPECIFICATION Spec
CHECK_DEADLOCK FALSE
INVARIANTS CredentialsOfOneRequest
