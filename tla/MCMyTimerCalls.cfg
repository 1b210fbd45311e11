\* Two processes read and write the file; three times of day.
CONSTANTS
    Reader = {r1, r2}
    RADIX = 2
    DIGITS = 1
    Clock <- TwoSeconds
    Count = {0, 3}
    BUF_LEN = 2
SPECIFICATION Spec
INVARIANTS TypeOK ElapsedExact ElapsedShown WholeTextOnce TimerInv
SYMMETRY ReadersAlike
