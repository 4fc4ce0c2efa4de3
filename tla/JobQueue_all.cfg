SPECIFICATION FairSpec
CONSTANTS
    j1 = j1
    j2 = j2
    w1 = w1
    w2 = w2
    None = None
    Job = {j1}
    Worker = {w1, w2}
    MaxRetries <- OneMaxRetries
    RetryCap = 2
    MaxRequests = 2
    Capacity = 1
INVARIANTS ExecutionExclusive Recoverable RunnerInSync
PROPERTIES CompletionSound ImplementsJobLife EveryJobEnds
