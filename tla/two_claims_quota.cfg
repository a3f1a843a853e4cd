SPECIFICATION Spec
CONSTANTS
    c1 = c1
    c2 = c2
    s1 = s1
    Claims <- MCTwoClaims
    Subusers = {}
    Admin = admin
    Readonly = readonly
    SecretNames <- MCSecretNames
    SubuserSecret <- MCSubuserSecret
    SpecsOf <- MCQuotaSpecs
    NoKey = nokey
    NoSecret = nosecret
    Webhooks = FALSE
    LaggingQuotaCache = FALSE
    MaxCreates = 1
    MaxEdits = 1
    MaxDeletes = 1
    MaxStrips = 0
    MaxFails = 0
    MaxCrashes = 0
SYMMETRY MCSymmetry
CHECK_DEADLOCK FALSE
INVARIANTS
    UsedQuotaAccurate
    UsedInv
