\* Up to three processes, arriving in any order and with idle time or not.
SPECIFICATION Spec
CONSTANTS
    MinCapacity = 1
    MaxCapacity = 4
    Word = 20
    Counts = {0, 1, 2, 3, 5}
    JobBursts = {0, 1, 2, 3}
    JobArrivals = {0, 1, 3}
    Jobs <- MCJobs
    Quanta <- MCQuanta
INVARIANTS
    NoProcessLost
    StatisticsRight
    LeastTurnaround
    NoStarvation
    WholeFilesOnly
    ExitIsClean
PROPERTY Returns
CHECK_DEADLOCK FALSE \* a program ends
