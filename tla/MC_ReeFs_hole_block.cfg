\* After power loss in a multi-block write, a never-written active block slot lies inside the file and reads as zeros that fail authentication.
CONSTANTS
    BLOCK_SIZE = 2
    NUM_BLOCKS_PER_FILE = 2
    META_SIZE = 2
    BLOCK_HEADER_SIZE = 1
    TEE_DATA_MAX_POSITION = 5
    DataValues = {1, 2}
    WriteLens = {0, 1, 2}
    ReadLens = {2}
    SeekOffsets <- MC_SeekOffsets
    COUNTER_MOD = 4
    PRIOR_COMMITS = 2
    MAX_COMMITS = 3
    FaultySteps = {}
    WRITE_BACK = FALSE
    POWER_LOSS = TRUE
    Torn = Torn
    Hole = Hole
    Eof = Eof
    NoData = NoData
    Unreadable = Unreadable
SPECIFICATION SpecCommitted
INVARIANT UnwrittenBlockReadsZero
