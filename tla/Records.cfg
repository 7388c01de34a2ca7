CONSTANTS
  Words <- MCWords
  Blank = ""
  Bug = "BUG"
  Paths <- MCPaths
  Dirs <- MCDirs
  FilesOf <- MCFilesOf
  Inputs <- RecordsInputs
  MaxOut = 2
  Faults <- NotLate
SPECIFICATION Spec
INVARIANTS
  SuccessIsTrue
PROPERTIES
  RowsOnlyOfCommand
