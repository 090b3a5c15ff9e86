SPECIFICATION FairSpec
CONSTANTS
    ann = ann
    Ann = Ann
    c1 = c1
    c2 = c2
    Emails = {ann, Ann, root}
    Lower <- MCLower
    Root = root
    Slugs = {shop}
    Labels = {prod}
    Asked = {"reviewer", "admin"}
    Requests = {q1, q2}
    Free = Free
    Containers = {c1, c2}
    Deployments <- MCDeployments
    MaxCrashes = 1
CHECK_DEADLOCK FALSE
INVARIANTS
    TypeOK
    AnswersAreTrue
    HistoryExact
    AuthorityIsGranted
    ServingIsReady
PROPERTIES
    ImplementsClaims
    LaunchSucceeds
