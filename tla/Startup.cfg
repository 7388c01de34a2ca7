CONSTANTS
  Home = "/h"
  Default = "/h/mhwimm"
  Values <- MCValues
  Games = {"/g"}
  MkdirDone = {"/other"}
  Long = {"/long"}
  Cut = "cut"
  Nil = "nil"
  Environments <- MCEnvironments
SPECIFICATION FairSpec
INVARIANTS
  TypeOK
  ConfigRestored
  TableExists
PROPERTIES
  StartEnds
