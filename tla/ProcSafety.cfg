CONSTANTS
  NPROC = 3
  CPUs = {c1, c2}
  Calls = {"fork", "wait", "wait4", "exit", "nanosleep", "kill"}
  MapFaults = TRUE
SPECIFICATION Spec
SYMMETRY Symm
CHECK_DEADLOCK FALSE
INVARIANTS StackInUse ParentStable ParentAlive NoLostExit
PROPERTY ZombieUntilWaited
