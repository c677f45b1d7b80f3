SPECIFICATION Spec
CONSTANTS
  Task = {t1}
  Msg = {m1}
  NULL = NULL
  Junk = Junk
  SM_TOTAL = 1
  ME_TOTAL = 0
  MaxInd = 1
INVARIANTS
  PduIsAMessage
