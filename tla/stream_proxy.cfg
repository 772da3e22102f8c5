CONSTANTS
    Tasks = {t1, t2, t3}
    NoFile = NoFile
    Full = 3
    MaxChunk = 2
    MaxInt = 8
    Requests = {r1}
    Headers <- MCHeaders
    MaxRequests = 1
SPECIFICATION Spec
SYMMETRY MCSymmetry
INVARIANTS RangeServed PromiseKept WholeOrNone LostOnlyToFailure
