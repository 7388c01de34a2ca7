CONSTANTS
  Names = {"a", "b"}
  Paths <- MCPaths
  Bug = "BUG"
  Roots = {"r", "s"}
  Top = "/"
  Parent <- MCParent
  Dirs <- MCDirs
  Listing <- MCListing
  Game <- MCGame
  Environments <- MCEnvironments
SPECIFICATION FairSpec
INVARIANTS
  TypeOK
  GameKept
  WritesNeverResume
  FailedInstallUndone
  RecordedIsPresent
  PresentIsRecorded
  UninstallIsComplete
  InstalledIsExact
PROPERTIES
  OnlyOwnFilesRemoved
  ImplementsRegistry
  CommandEnds
