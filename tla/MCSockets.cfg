\* The program's own two sockets and three clients, and any three failures.
CONSTANTS
  s1 = s1  s2 = s2  s3 = s3  s4 = s4  s5 = s5
  Handle = {s1, s2, s3, s4, s5}
  NoHandle = NoHandle
  MaxFailures = 3
CHECK_DEADLOCK FALSE
SYMMETRY Symmetry
SPECIFICATION Spec
INVARIANTS TypeOK Balanced AuthConnectionKept FaultNeedsCause ClientEndsClean
