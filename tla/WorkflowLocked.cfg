SPECIFICATION Spec
CONSTANTS
    dev = dev
    rev = rev
    adm = adm
    r1 = r1
    r2 = r2
    NoUser = NoUser
    NoTime = NoTime
    NoChange = NoChange
    Users = {rev, adm}
    Role <- MCRole
    Creator <- MCCreator
    Releases = {r1}
    NeedsApproval <- AllGated
    Requests = {q1, q2}
    Workers = {w1}
    RowLocks = TRUE
    BatchLimit = 1
    MaxTime = 2
    ResubmitBound = 4
INVARIANTS
    TypeOK
    ApprovalGate
    GateInv
    LockInv
    LockedRowIsCurrent
PROPERTIES
    NeverEarly
