SPECIFICATION Spec
CONSTANTS
  T1 = T1
  T2 = T2
  NoTask = NoTask
  Tasks <- MCTasks
  MayCall <- MCMayCall
  SERVICE_NUM = 5
  CHAR_NUM = 2
  DESC_NUM = 1
  Positions <- MCPositions
  MaxUrcs = 1
CONSTRAINT Apart
INVARIANTS
  TypeOK
  ReturnIsOfTheCommand
  ReadsStayInside
PROPERTY OnlyTheServersEventsAreTold
