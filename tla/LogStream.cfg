SPECIFICATION FairSpec
CONSTANTS
  BufLen = 2
  Lines = {1, 3}
  MaxLen = 6
CHECK_DEADLOCK FALSE
INVARIANTS TypeOK NothingSkipped CompleteAfterChmod PartnersMeet
PROPERTIES NothingLeftBehind EndsWithExecution
