CONSTANTS
    CHAR_BIT = 3
    MaxBits = 7
    Limits = {1, 5, 6, 7, 9}
SPECIFICATION Spec
INVARIANTS
    TypeOK
    RoundTrip
    SizeExact
