CONSTANTS
  Words <- MCWords
  Blank = ""
  Bug = "BUG"
  Paths <- OnePath
  Dirs <- OneDir
  FilesOf <- OneFilesOf
  Inputs <- FewInputs
  MaxOut = 2
  Faults <- NotLate
SPECIFICATION Spec
PROPERTIES
  UndoOnlyAfterAdd
