CONSTANTS
    Reader = {r1}
    RADIX = 2
    DIGITS = 2
    Clock <- ThreeSeconds
    Count = {1, 3}
    BUF_LEN = 2
SPECIFICATION Spec
INVARIANT PrintedExactly
