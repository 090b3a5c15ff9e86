SPECIFICATION FairSpec
CONSTANTS
    dev = dev
    rev = rev
    adm = adm
    r1 = r1
    r2 = r2
    NoUser = NoUser
    NoTime = NoTime
    NoChange = NoChange
    Users = {adm}
    Role <- MCRole
    Creator <- AdminCreates
    Releases = {r1, r2}
    NeedsApproval <- NoneGated
    Requests = {q1}
    Workers = {w1, w2}
    RowLocks = TRUE
    BatchLimit = 1
    MaxTime = 2
    ResubmitBound = 4
PROPERTIES
    ScheduledIsActivated
