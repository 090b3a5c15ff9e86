SPECIFICATION FairSpec
CONSTANTS
    Requests = {q1, q2, q3}
    PoolSize = 2
CHECK_DEADLOCK FALSE
INVARIANTS
    TypeOK
    AnswerIsOwnCommit
    ReadsMissNothing
PROPERTIES
    PoolIsNeverStuck
