\* Pages of three bytes, so that one can end two lines, up to two and a third of them, and a job
\* that appends during the request.
SPECIFICATION TailSpec
CONSTANTS
    PageSize = 3
    Tails = {0, 1, 3}
    MaxSize = 7
    MaxGrowth = 2
INVARIANTS TailSound TailComplete TailBounded
PROPERTIES RequestEnds FileClosed
CHECK_DEADLOCK FALSE
