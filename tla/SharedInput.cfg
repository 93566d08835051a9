\* Two activations that share one RawImage and one bytearray.
SPECIFICATION Spec
CONSTANTS
    Calls = {c1, c2}
    Images = {image}
    Buffers = {bytes}
    None = None
    MaxEdits = 2
INVARIANTS
    InputHeld
    EncodesGivenInput
CHECK_DEADLOCK FALSE
