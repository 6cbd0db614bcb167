CONSTANTS
    BYTES_PER_CHUNK = 32
    CHAR_BIT = 8
    zero_hash_depth = 42
    Types <- outermost
SPECIFICATION Spec
INVARIANTS
    TypeOK
    TablesSuffice
    SizesDeclared
