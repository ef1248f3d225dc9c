\* Every message arrives whole, into a buffer of zeros or of the 0xCC bytes of
\* a debug build.
CONSTANTS
  alice = alice  bob = bob  carol = carol  none = none
  Cred = {alice, bob, carol}
  NoCred = none
  UserId = {1}
  Residue = {"clean"}
  Text <- MCText
  Date <- MCDate
  Kinds = {"requests", "responses"}
  Fill = {0, 204}
  BufLen = 32
  MaxId = 1
  Ids = {0, 1, 130}
  Vals = {0, 1}
  Cuts = FALSE
SPECIFICATION Spec
CHECK_DEADLOCK FALSE
INVARIANTS RequestsAreRead ResponsesAreRead
