SPECIFICATION Spec
CONSTANTS
    c1 = c1
    c2 = c2
    s1 = s1
    Claims <- MCOneClaim
    Subusers <- MCSubusers
    Admin = admin
    Readonly = readonly
    SecretNames <- MCSecretNames
    SubuserSecret <- MCSubuserSecret
    SpecsOf <- MCSubuserSpecs
    NoKey = nokey
    NoSecret = nosecret
    Webhooks = FALSE
    LaggingQuotaCache = FALSE
    MaxCreates = 2
    MaxEdits = 0
    MaxDeletes = 2
    MaxStrips = 1
    MaxFails = 0
    MaxCrashes = 1
CHECK_DEADLOCK FALSE
INVARIANTS
    ProvisionedWhenSettled
    NoS3UserLeftBehind
    SafetyInv
    KeysWork
    SettlingInv
PROPERTIES
    NoLivePurge
    CredentialsStable
    ImplementsLifecycle
