\* Shrink then extend: with three commits beyond the first, a file written,
\* truncated and extended again (by ree_fs_truncate or by a write past the
\* end) still refines AtomicFile, so the extension reads zeros and never
\* the bytes the shrink left in the block.  Meta writes may be refused.
CONSTANTS
    BLOCK_SIZE = 2
    NUM_BLOCKS_PER_FILE = 2
    META_SIZE = 2
    BLOCK_HEADER_SIZE = 1
    TEE_DATA_MAX_POSITION = 5
    DataValues = {1}
    WriteLens = {1, 2}
    ReadLens = {2}
    SeekOffsets <- MC_SeekOffsets
    COUNTER_MOD = 8
    PRIOR_COMMITS = 6
    MAX_COMMITS = 4
    FaultySteps = {"meta"}
    WRITE_BACK = FALSE
    POWER_LOSS = FALSE
    Torn = Torn
    Hole = Hole
    Eof = Eof
    NoData = NoData
    Unreadable = Unreadable
SPECIFICATION SpecCommitted
PROPERTY Refinement
