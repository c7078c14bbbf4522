SPECIFICATION FairSpec
INVARIANTS DialogShown AcknowledgementPending NoProgramWithoutLease
PROPERTIES RunReturns
CHECK_DEADLOCK FALSE
