\* The join of the GTK thread and the threads that are still at work.
SPECIFICATION Spec
CONSTANTS
  nuc1 = nuc1
  nuc2 = nuc2
  nuc3 = nuc3
  sleeper = sleeper
  Hlc = {nuc1, nuc2}
  Sleeper = sleeper
  Operations = 4
INVARIANTS
  JoinedWhenDone
CHECK_DEADLOCK FALSE
