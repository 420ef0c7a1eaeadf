SPECIFICATION Spec
CONSTANTS
    p = p
    q = q
    Zero = zero
    Byte = {p, q, zero}
    kCheapPrepend = 1
    kInitialSize = 2
    MaxInput = 3
    Inputs <- ShortInputs
    MaxContent = 2
    ShrinkAtFront = TRUE
INVARIANTS HoldsContent SpaceIsMade
