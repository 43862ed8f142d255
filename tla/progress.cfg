SPECIFICATION FairSpec
CONSTANTS
    Callers = {c1, c2}
    None = None
CHECK_DEADLOCK FALSE
PROPERTIES
    EveryoneIsAnswered
