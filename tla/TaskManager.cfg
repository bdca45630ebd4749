SPECIFICATION FairSpec
CONSTANTS
    Callers = {c1, c2}
    Tasks = {t1, t2, t3}
    Nesting = {}
    NoOne = noOne
INVARIANTS TypeOK OnlyNestingBlocks
PROPERTIES CloseWaits NoAddDuringWait CloseReturns
CHECK_DEADLOCK FALSE
