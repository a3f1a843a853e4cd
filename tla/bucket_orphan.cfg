SPECIFICATION Spec
CONSTANTS
    b1 = b1
    c1 = c1
    c2 = c2
    s1 = s1
    s2 = s2
    Owners <- MCOwners
    Subusers <- MCSubusers
    Buckets <- MCBuckets
    SpecsOf <- MCPolicySpecs
    NoBucketName = nobucket
    NoOwner = noowner
    MaxCreates = 1
    MaxEdits = 0
    MaxChanges = 0
    MaxFaults = 0
CHECK_DEADLOCK FALSE
INVARIANTS
    NoBucketLeftBehind
