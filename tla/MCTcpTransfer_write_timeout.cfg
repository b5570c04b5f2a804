SPECIFICATION Spec
CONSTANTS
    Expected = 3
INVARIANTS
    WriteTimeoutMeansNoWrite
