\* The open handle never runs ahead of the disk, under refused opens, reads,
\* block and meta writes and power loss.  Three commits beyond the first.
CONSTANTS
    BLOCK_SIZE = 2
    NUM_BLOCKS_PER_FILE = 2
    META_SIZE = 2
    BLOCK_HEADER_SIZE = 1
    TEE_DATA_MAX_POSITION = 5
    DataValues = {1}
    WriteLens = {0, 1, 2}
    ReadLens = {2}
    SeekOffsets <- MC_SeekOffsets
    COUNTER_MOD = 8
    PRIOR_COMMITS = 5
    MAX_COMMITS = 4
    FaultySteps = {"open", "read", "block", "meta", "fsync"}
    WRITE_BACK = FALSE
    POWER_LOSS = TRUE
    Torn = Torn
    Hole = Hole
    Eof = Eof
    NoData = NoData
    Unreadable = Unreadable
SPECIFICATION SpecCommitted
INVARIANT HandleMatchesDisk
PROPERTY LiveMetaSlotKept
