SPECIFICATION Spec
CONSTANTS
  T1 = T1
  T2 = T2
  UrcTask = UrcTask
  Nobody = Nobody
  Tasks <- MCTasks
  MayCall <- MCMayCall
  Patient <- MCPatient
  Heard <- MCHeard
  MaxUrcs = 1
  MaxCalls = 8
  MaxMessages = 7
CONSTRAINT OneGroup
INVARIANTS
  TypeOK
  ReportsReachTheirCaller
  LocationsAreAnswered
  HttpDataIsTheCallers
  FlagFollowsModule
  CallNumbersAreIntact
PROPERTY ImplementsOneShot
