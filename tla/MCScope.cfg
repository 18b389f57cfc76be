SPECIFICATION Spec
CONSTANTS
    Bucket <- MCBucket
    BucketOf <- MCBucketOf
    Name <- MCName
    Value <- MCValue
    Unbound = none
    MaxLevel = 2
    MaxEntries = 3
INVARIANTS
    ChainsSound
    LookupRight
PROPERTIES
    ImplementsFrames
