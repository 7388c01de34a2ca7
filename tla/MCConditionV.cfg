CONSTANTS
  Even = Even
  Odd = Odd
  None = None
  IntMax <- MCIntMax
SPECIFICATION FairSpec
INVARIANTS
  TypeOK
  TurnIsExclusive
  NoLostWakeup
PROPERTIES
  WaiterIsServed
  TakesTurns
