SPECIFICATION Spec
CONSTANTS
    Timers = 1
    Variants = {v1, v2, v3}
    None = None
INVARIANTS
    TickChecksAll
