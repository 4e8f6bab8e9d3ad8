CONSTANTS
    N = 3
    Threads = {t1, t2}
    NoItem = NoItem
    NoError = NoError
SPECIFICATION BatchLiveSpec
INVARIANT FirstErrorIsRootCause
PROPERTY StoppedBatchJoins
