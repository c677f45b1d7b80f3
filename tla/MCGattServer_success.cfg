SPECIFICATION Spec
CONSTANTS
  SERVICE_NUM = 1
  CHAR_NUM = 0
  DESC_NUM = 0
  Handle = {h1}
  NoHandle = h0
  NULL = NULL
  MaxWrong = 1
INVARIANTS
  SuccessIsReal
