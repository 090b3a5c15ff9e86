SPECIFICATION FairSpec
CONSTANTS
    dev = dev
    rev = rev
    adm = adm
    r1 = r1
    f1 = f1
    Users = {dev, rev, adm}
    RoleOf <- MCRoleOf
    Projects = {p1, p2}
    First = p1
    Releases = {r1}
    ProjectOf <- MCProjectOf
    Creator <- MCCreator
    NeedsApproval <- MCNeedsApproval
    Fetches = {f1, f2}
    Settings <- MCSettings
    None = None
CHECK_DEADLOCK FALSE
INVARIANTS
    RefusedOnlyWhenStale
    NothingWithheld
    PageIsOfSelected
PROPERTIES
    SignedOutIsHidden
