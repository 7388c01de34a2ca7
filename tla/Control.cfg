CONSTANTS
  Words <- MCWords
  Blank = ""
  Bug = "BUG"
  Paths <- OnePath
  Dirs <- OneDir
  FilesOf <- OneFilesOf
  Inputs <- FewInputs
  MaxOut = 2
  Faults <- AllFaults
SPECIFICATION FairSpec
INVARIANTS
  TypeOK
  HandshakeAsserts
  StrictHandover
  EveryLineShown
PROPERTIES
  CommandAnswered
  ExitTerminates
