CONSTANTS
  Words <- MCWords
  Blank = ""
  Bug = "BUG"
  Paths <- MCPaths
  Dirs <- MCDirs
  FilesOf <- MCFilesOf
  Inputs <- MCInputs
  MaxOut = 2
  Faults <- NoDbFaults
SPECIFICATION Spec
INVARIANTS
  RecordsMatchGame
  InstalledListsRecorded
PROPERTIES
  RegistryKept
