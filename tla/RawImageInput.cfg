\* u32 and usize scaled down, with the room that they have on 64 bits.
SPECIFICATION Spec
CONSTANTS
    RawCalls <- MCRawCalls
    MaxU32 = 15
    UsizeRange = 256
    Omitted = Omitted
INVARIANTS
    BuiltIffWellFormed
    NeverPanics
    PngErrorMeansBadData
CHECK_DEADLOCK FALSE
