SPECIFICATION Spec
CONSTANTS
    Log = {api, cli, test_runner}
    ShortLived = {test_runner}
    Nobody = Nobody
    MaxAppends = 4
INVARIANTS
    ChainIntactOfOne
    ReturnedEntriesKept
    PredecessorOnDisk
