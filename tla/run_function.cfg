\* One call after another, of functions that write less and more than pipes
\* and limits hold; any step may fail, anybody may give up.
CONSTANTS
    PipeSize = 1
    MaxStdio = 2
    Overhead = 1
    Request = 2
    Outs = {0, 1, 3, 4}
    Errs = {0, 1, 2, 4}
    MayFail = TRUE
SPECIFICATION FairSpec
INVARIANTS Inv AnswerWhole SuccessAnswered RootfsInUse BundleRemoved
PROPERTIES CallSpec CancelReturns TimeoutReturns ModestReturns SparkEnds
