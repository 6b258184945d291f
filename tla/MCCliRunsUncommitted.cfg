CONSTANTS
    Chunks = {"a#0", "b#0", "b#1", "z#0"}
    DocOf <- MCDocOf
    Corpus <- MCCorpus
    Older <- MCOlder
    MaxRuns = 3
    MaxLive = 2
SPECIFICATION Spec
CHECK_DEADLOCK FALSE
INVARIANT OnlyCommittedRead
