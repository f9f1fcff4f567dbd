SPECIFICATION PredSpec
CONSTANTS
    MaxStack = 2
    NumBuckets = 4
    EltIds = 8
    RECS_BUCKET_SIZE = 3
    num_recs_to_make = 2
    g_output_scale = 5
    MAX_RATS_PER_PERSON = 2
    NUM_G_POP_GROUPS = 2
    Leftovers <- MCLeftovers
    Files <- MCFiles
    Requests <- MCRequests
INVARIANTS StoreTypeOK ScansStop SortedCopy FoundAsInFile FourBitsSuffice TallyExact RecsAreBest SingleAsAsked
CHECK_DEADLOCK FALSE
