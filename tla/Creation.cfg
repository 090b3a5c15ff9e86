SPECIFICATION FairSpec
CONSTANTS
    owner = owner
    other = other
    t1 = t1
    Users = {owner, other}
    Managers = {owner}
    Keys = {k1}
    EmptyKey = EmptyKey
    NoKey = NoKey
    Targets = {t1, t2, t3}
    KnownTargets = {t1, t2}
    Asked <- MCAsked
    Requests = {q1, q2, q3}
CHECK_DEADLOCK FALSE
INVARIANTS
    TypeOK
    KeyNamesOneRelease
    LateRetryIsReplayed
    AnswersAreTrue
    FailsOnlyInRaces
    NoDeadlock
PROPERTIES
    RequestsEnd
