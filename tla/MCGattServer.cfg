SPECIFICATION Spec
CONSTANTS
  SERVICE_NUM = 2
  CHAR_NUM = 1
  DESC_NUM = 1
  Handle = {h1, h2}
  NoHandle = h0
  NULL = NULL
  MaxWrong = 1
CONSTRAINT FewWrong
SYMMETRY HandleSymmetry
INVARIANTS
  TypeOK
  OwnResultIsTrue
  UsedServicesExist
  RecordsFollowServices
