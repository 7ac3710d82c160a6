\* Two processes; at some time none may be ready.
SPECIFICATION Spec
CONSTANTS
    MinCapacity = 1
    MaxCapacity = 4
    Word = 20
    Counts = {1, 2}
    JobBursts = {1, 2}
    JobArrivals = {0, 1, 2, 3}
    Jobs <- MCJobs
    Quanta <- MCQuanta
INVARIANT NeverDies
CHECK_DEADLOCK FALSE \* a program ends
