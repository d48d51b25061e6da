SPECIFICATION Spec
CONSTANTS
    Word = 65536
    Reps = 2
    Rounds = 2
    MaxSkips = 1
    Suites = {"all", "binary"}
INVARIANTS Capable
