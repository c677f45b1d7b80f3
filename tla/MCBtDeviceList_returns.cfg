SPECIFICATION Spec
CONSTANTS
  Dev = {d1}
  EmptyHdl = e0
  NULL = NULL
  MAX_BT_DEV_CNT = 1
  MAX_BT_PAIRED_CNT = 1
  MAX_BT_SCAN_CNT = 1
  MaxConn = 1
  MaxUrc = 1
  MaxDoubts = 5
PROPERTIES
  CallsAndHandlersReturn
