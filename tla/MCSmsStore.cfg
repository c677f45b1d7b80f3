SPECIFICATION Spec
CONSTANTS
  Task = {t1, t2}
  Msg = {m1, m2}
  NULL = NULL
  Junk = Junk
  SM_TOTAL = 2
  ME_TOTAL = 1
  MaxInd = 1
SYMMETRY Symmetric
INVARIANTS
  TypeOK
  ReadsAreFaithful
  AnsweredCommandsEnd
  CommandsAreWellAimed
  NotifiedMessageIsRead
  ReadMarksAreEarned
