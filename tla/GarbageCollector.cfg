SPECIFICATION GCFairSpec
CONSTANTS
    CommitIds <- MCCommits
    TreeIds <- MCTrees
    BlobIds <- MCBlobs
    Child <- MCChild
    PrefixOf <- MCPrefixOf
    NumPrefixes = 2
    MaxChanges = 3
    MaxRuns = 2
    Failures = {"read", "remove"}
INVARIANTS NothingLost NothingSkipped
PROPERTY Completes
CHECK_DEADLOCK FALSE
