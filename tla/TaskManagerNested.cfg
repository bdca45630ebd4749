SPECIFICATION FairSpec
CONSTANTS
    Callers = {c1, c2}
    Tasks = {t1, t2}
    Nesting = {t1}
    NoOne = noOne
PROPERTY AllExit
CHECK_DEADLOCK FALSE
