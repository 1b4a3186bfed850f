\* Crash atomicity and read-your-writes: ReeFs refines AtomicFile while the
\* host refuses any block or meta write and power may fail during any step.
\* Two commits beyond the initial one; run resize takes three without power
\* loss.  Refused opens, reads and fsyncs are checked by runs handle and
\* lifecycle.
CONSTANTS
    BLOCK_SIZE = 2
    NUM_BLOCKS_PER_FILE = 2
    META_SIZE = 2
    BLOCK_HEADER_SIZE = 1
    TEE_DATA_MAX_POSITION = 5
    DataValues = {1}
    WriteLens = {1, 2}
    ReadLens = {2}
    SeekOffsets <- MC_SeekOffsets
    COUNTER_MOD = 8
    PRIOR_COMMITS = 6
    MAX_COMMITS = 3
    FaultySteps = {"block", "meta"}
    WRITE_BACK = FALSE
    POWER_LOSS = TRUE
    Torn = Torn
    Hole = Hole
    Eof = Eof
    NoData = NoData
    Unreadable = Unreadable
SPECIFICATION SpecCommitted
INVARIANT TypeOK
INVARIANT ChunksCoverRange
PROPERTY Refinement
