\* Two options on every side of their checks, and level, deflate and filter
\* together.
SPECIFICATION Spec
CONSTANTS
    Calls <- MCCalls
    Preset <- MCPreset
    ChunkNames <- MCChunkNames
    MaxOptions = 3
    MaxI64 = 300
    MaxUsize = 600
    MaxI128 = 900
    MaxSeconds = 1000
    Unset = Unset
INVARIANTS
    OptionsAreAsked
    ErrorIsJustified
CHECK_DEADLOCK FALSE
