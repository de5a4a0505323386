SPECIFICATION FairSpec
CONSTANT
  InitQuits = FALSE
PROPERTY
  DestructorReturns
CHECK_DEADLOCK FALSE
