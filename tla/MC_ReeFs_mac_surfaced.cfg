\* ree_fs_write returns the MAC_INVALID of read_block to its caller: power
\* loss tears a shadow block slot above an active slot never written, which
\* then reads as zeros and fails authentication.
CONSTANTS
    BLOCK_SIZE = 2
    NUM_BLOCKS_PER_FILE = 2
    META_SIZE = 2
    BLOCK_HEADER_SIZE = 1
    TEE_DATA_MAX_POSITION = 5
    DataValues = {1, 2}
    WriteLens = {0, 1, 2}
    ReadLens = {2}
    SeekOffsets <- MC_SeekOffsets
    COUNTER_MOD = 4
    PRIOR_COMMITS = 2
    MAX_COMMITS = 3
    FaultySteps = {}
    WRITE_BACK = FALSE
    POWER_LOSS = TRUE
    Torn = Torn
    Hole = Hole
    Eof = Eof
    NoData = NoData
    Unreadable = Unreadable
SPECIFICATION SpecCommitted
INVARIANT NoMacInvalidSurfaced
