CONSTANTS
  NPROC = 4
  CPUs = {c1, c2}
  Calls = {"fork", "wait", "exit"}
  MapFaults = FALSE
SPECIFICATION Spec
SYMMETRY Symm
CONSTRAINT NobodySleeps
CHECK_DEADLOCK FALSE
INVARIANT NoLockCycle
