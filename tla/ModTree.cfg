CONSTANTS
  Entries = {1, 2, 3}
  MaxLinks = 1
  Faults = {"opendir", "readdir", "stat"}
SPECIFICATION FairSpec
INVARIANTS
  ListsAreTheMod
  ParentsFirst
  OnlyFailureLeaksDirs
PROPERTIES
  TraversalEnds
CHECK_DEADLOCK FALSE
