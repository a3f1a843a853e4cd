SPECIFICATION Spec
CONSTANTS
    c1 = c1
    c2 = c2
    s1 = s1
    Claims <- MCOneClaim
    Subusers <- MCSubusers
    Admin = admin
    Readonly = readonly
    SecretNames <- MCSecretNames
    SubuserSecret <- MCSubuserSecret
    SpecsOf <- MCSubuserSpecs
    NoKey = nokey
    NoSecret = nosecret
    Webhooks = FALSE
    LaggingQuotaCache = FALSE
    MaxCreates = 2
    MaxEdits = 1
    MaxDeletes = 2
    MaxStrips = 0
    MaxFails = 1
    MaxCrashes = 0
CHECK_DEADLOCK FALSE
INVARIANTS
    TypeOK
    ProvisionedWhenSettled
    NoCephUserLeftBehind
    WritesBounded
PROPERTIES
    NoLivePurge
    CredentialsStable
    ReleasedWhenClean
    ClaimRefAdvances
