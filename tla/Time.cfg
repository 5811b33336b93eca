SPECIFICATION TimeSpec
CONSTANTS
    Requests = {r1, r2}
    U64 = 6
    MaxNow = 2
    Seconds = {2}
    Timestamps = {1, 4}
    Resets = {1, 3}
    MaxOffset = 3
    MaxLast = 4
    None = None
SYMMETRY RequestSymmetry
PROPERTIES
    NeverBackwards
