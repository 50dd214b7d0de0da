SPECIFICATION Spec
CONSTANTS
    Keys <- MCKeys
    CacheSize = 256
    Size <- MCSize
    Type <- MCType
    Writable <- MCWritable
    Volatile <- MCVolatile
INVARIANTS
    TypeOK
    InfoIsOwnOrRivals
    NoFalseMismatch
