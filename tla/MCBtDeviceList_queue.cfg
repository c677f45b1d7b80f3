SPECIFICATION Spec
CONSTANTS
  Dev = {d1, d2}
  EmptyHdl = e0
  NULL = NULL
  MAX_BT_DEV_CNT = 3
  MAX_BT_PAIRED_CNT = 1
  MAX_BT_SCAN_CNT = 1
  MaxConn = 1
  MaxUrc = 2
  MaxDoubts = 1
CONSTRAINT FewDoubts
SYMMETRY DevSymmetry
INVARIANTS
  ConnIdsAreCurrent
  QuietListIsComplete
