CONSTANTS
    None = None
    MaxLen = 1024
SPECIFICATION Spec
INVARIANT TypeOK
INVARIANT ChecksMatchPolicy
