SPECIFICATION FairSpec
CONSTANTS
    b1 = b1
    c1 = c1
    c2 = c2
    s1 = s1
    s2 = s2
    Owners <- MCOwners
    Subusers <- MCSubusers
    Buckets <- MCBuckets
    SpecsOf <- MCSpecs
    NoBucketName = nobucket
    NoOwner = noowner
    MaxCreates = 2
    MaxEdits = 1
    MaxChanges = 1
    MaxFaults = 1
CHECK_DEADLOCK FALSE
INVARIANTS
    TypeOK
    BucketWhenSettled
    AccessFollowsBindings
    GoneWhenReleased
    SafetyInv
    NoStrangers
PROPERTIES
    ImplementsLifecycle
    DeletedOnlyWhenAsked
    Converges
    DeletionCompletes
