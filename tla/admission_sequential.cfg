SPECIFICATION FairSpec
CONSTANTS
    n1 = n1
    n2 = n2
    b1 = b1
    team = team
    Namespaces <- MCNamespaces
    Claims <- MCClaims
    Buckets = {b1}
    TeamOf <- MCTeamOf
    NamespaceLimit <- MCNamespaceLimit
    TeamLimit <- MCTeamLimit
    Quotas <- MCQuotas
    Requests = {r1}
    Operator = operator
    NoTeam = noteam
    NoLimit = nolimit
    NoClaim = noclaim
    NoBucket = nobucket
    Lagging = FALSE
    MaxRequests = 3
    MaxErrors = 1
CHECK_DEADLOCK FALSE
INVARIANTS
    TypeOK
    WithinNamespaceQuota
    WithinClusterQuota
PROPERTIES
    DeletionAdmitted
