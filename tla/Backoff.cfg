\* Durations of 12 bits, shifted up to 20 times: odd bases that wrap to values
\* above and below the caps, and even ones.
CONSTANTS
    Width = 12
    Bases = {1, 2, 3, 5, 6, 9, 12, 20, 24, 31, 45, 65, 67, 80, 129, 257}
    Caps = {1, 7, 24, 60, 100, 131, 300, 2000}
    MaxAttempts = 21
SPECIFICATION Spec
INVARIANTS
    WaitInBounds
    WaitDoubles
