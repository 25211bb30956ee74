SPECIFICATION Spec
CONSTANT MaxShares = 1
INVARIANT EndShareNamesSession
CHECK_DEADLOCK FALSE
