SPECIFICATION Spec
CONSTANTS
  T1 = T1
  T2 = T2
  NoTask = NoTask
  Tasks <- MCTasks
  MayCall <- MCMayCall
  NewChannels = {"0", "1"}
  Values <- MCValues
CONSTRAINT OthersAlone
INVARIANTS
  TypeOK
  SuccessMeansAnswered
  FailedFtpQueryIsMarked
  VolumeIsOfTheChannelRead
  ThresholdsReachTheirCaller
  SppDataIsTheCallers
  NoCallWaitsOutAnError
  ContextLeftOpenOnlyByLogin
  TextIsReadRight
