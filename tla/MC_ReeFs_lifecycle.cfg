\* A committed file stays readable across create, remove, power loss and
\* refused opens, reads, block and meta writes and fsyncs.  Refused counter
\* writes are left out: run counter_fault shows they break the live meta.
CONSTANTS
    BLOCK_SIZE = 2
    NUM_BLOCKS_PER_FILE = 2
    META_SIZE = 2
    BLOCK_HEADER_SIZE = 1
    TEE_DATA_MAX_POSITION = 5
    DataValues = {1}
    WriteLens = {0, 1, 2}
    ReadLens = {2}
    SeekOffsets <- MC_SeekOffsets
    COUNTER_MOD = 4
    PRIOR_COMMITS = 0
    MAX_COMMITS = 3
    FaultySteps = {"open", "read", "block", "meta", "fsync"}
    WRITE_BACK = FALSE
    POWER_LOSS = TRUE
    Torn = Torn
    Hole = Hole
    Eof = Eof
    NoData = NoData
    Unreadable = Unreadable
SPECIFICATION Spec
INVARIANT ReadableOnceCommitted
