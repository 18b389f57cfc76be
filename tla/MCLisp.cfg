SPECIFICATION Spec
CONSTANTS
    Bucket <- MCBucket
    BucketOf <- MCBucketOf
    Builtins <- MCBuiltins
    Lines <- MCLines
    Locals <- MCLocals
    WORD = 256
    MAX_DEPTH = 9
    MaxEntries = 3
    MaxLeaks = 2
CHECK_DEADLOCK FALSE
INVARIANTS
    CollectorExact
    ScopeSound
    ExampleHolds
PROPERTIES
    GlobalsKept
    LeavesNoTrace
