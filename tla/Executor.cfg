CONSTANTS
  Words <- MCWords
  Codes <- MCCodes
  Lines <- MCLines
  FirstConf <- MCFirstConf
  Counts = {2, 8, 17}
  Supported <- MCSupported
SPECIFICATION FairSpec
INVARIANTS
  TypeOK
  OutputBounded
  OutputIsTheCommands
  SupportedWordsWork
PROPERTIES
  CommandReturns
CHECK_DEADLOCK FALSE
