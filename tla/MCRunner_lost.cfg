SPECIFICATION FairSpec
PROPERTIES LostLeaseEndsProgram
CHECK_DEADLOCK FALSE
