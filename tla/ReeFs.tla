-------------------------------- MODULE ReeFs --------------------------------
(***************************************************************************)
(* The REE secure file system of src/compat/mitee_compat/tee_ree_fs.c: one *)
(* secure object kept as one file in the untrusted normal-world file       *)
(* system, with a 4-byte meta counter at offset 0, two meta slots and two  *)
(* slots per data block.  The counter's parity selects the active meta     *)
(* slot; bit n of the meta's backup_version_table selects the active slot  *)
(* of block n.  Updates are written out of place and made visible by the   *)
(* final counter write.                                                    *)
(*                                                                         *)
(* One open handle (callers serialise, and two handles on one file are     *)
(* undefined).  Each file operation is one action: its RPC writes are      *)
(* computed as a plan, and the action chooses whether the plan runs to     *)
(* the end, the host refuses one of its writes (the operation returns an   *)
(* error and runs its error path), or the device loses power during one    *)
(* of its writes (the handle is gone, the disk keeps the writes done so    *)
(* far).  A refused or interrupted slot write may leave the slot torn.     *)
(* Encryption is abstracted: a slot holds its plaintext, and a torn slot,  *)
(* or a never-written slot inside the file (a hole, read back as zeros),   *)
(* fails authentication.                                                   *)
(***************************************************************************)
EXTENDS Integers, Sequences, FiniteSets, TLC, SequencesExt, FiniteSetsExt

CONSTANTS
    BLOCK_SIZE,           \* bytes of plaintext per block (1 << BLOCK_SHIFT)
    NUM_BLOCKS_PER_FILE,  \* blocks per file, from the key manager
    META_SIZE,            \* meta_size(): header + sizeof(struct tee_fs_file_meta)
    BLOCK_HEADER_SIZE,    \* tee_fs_get_header_size(BLOCK_FILE)
    TEE_DATA_MAX_POSITION,\* largest position ree_fs_seek accepts
    DataValues,           \* byte values callers write (0 is the zero byte)
    WriteLens,            \* lengths passed to ree_fs_write
    ReadLens,             \* lengths passed to ree_fs_read
    SeekOffsets,          \* offsets passed to ree_fs_seek
    COUNTER_MOD,          \* 2^32: meta_counter is a uint32 and wraps
    PRIOR_COMMITS,        \* commits the committed file had before the first modelled one
    MAX_COMMITS,          \* bound on commits since create, counted from PRIOR_COMMITS
    FaultySteps,          \* which RPC steps the host may refuse
    WRITE_BACK,           \* the host caches writes and persists them in any order
    POWER_LOSS,           \* the device may lose power
    Torn,                 \* a slot whose write was cut short: never authenticates
    Hole,                 \* never written, below the end of the file: reads zeros
    Eof,                  \* never written, at or past the end: the read returns 0 bytes
    NoData,               \* rd when the last operation was not a successful read
    Unreadable            \* the committed content when a reopen cannot read it

ASSUME /\ BLOCK_SIZE \in Nat \ {0}
       /\ NUM_BLOCKS_PER_FILE \in Nat \ {0}
       /\ META_SIZE \in Nat \ {0}
       /\ BLOCK_HEADER_SIZE \in Nat
       /\ 0 \notin DataValues
       /\ COUNTER_MOD \in Nat /\ COUNTER_MOD % 2 = 0 /\ COUNTER_MOD > MAX_COMMITS
       /\ PRIOR_COMMITS \in Nat
       /\ FaultySteps \subseteq {"open", "read", "block", "meta", "counter", "fsync"}
       /\ WRITE_BACK \in BOOLEAN /\ POWER_LOSS \in BOOLEAN

MAX_FILE_SIZE == BLOCK_SIZE * NUM_BLOCKS_PER_FILE

Blocks == 0 .. NUM_BLOCKS_PER_FILE - 1
Bytes  == {0} \cup DataValues


\* Result codes.
SUCCESS        == "SUCCESS"
BAD_PARAMETERS == "BAD_PARAMETERS"
GENERIC        == "GENERIC"
CORRUPT_OBJECT == "CORRUPT_OBJECT"
MAC_INVALID    == "MAC_INVALID"


VARIABLES
    file_exists,  \* the backing file exists in the REE file system
    disk,         \* offset -> content of every slot ever written, as reads see it
    durable,      \* the part of the file the storage medium holds
    h_open,       \* a handle is open (ree_fs_open / ree_fs_create returned it)
    fdp,          \* struct tee_fs_fd: [meta, meta_counter, pos]
    res,          \* result of the last operation
    rd            \* bytes returned by the last ree_fs_read

vars == <<file_exists, disk, durable, h_open, fdp, res, rd>>

-----------------------------------------------------------------------------
(* Layout calculator.                                                      *)

B2N(b) == IF b THEN 1 ELSE 0

pos_to_block_num(position) == position \div BLOCK_SIZE

get_backup_version_of_block(meta, block_num) == meta.bvt[block_num]

\* Variant: write_block without the toggle of the block's bit.
toggle_dropped(meta, block_num) == meta

toggle_backup_version_of_block(meta, block_num) ==
    [meta EXCEPT !.bvt[block_num] = 1 - @]

\* Variant: the meta slot chosen by the counter alone, for reads and writes.
meta_pos_raw_same_slot(meta_counter, active) ==
    4 + (IF meta_counter % 2 = 1 THEN META_SIZE ELSE 0)

meta_pos_raw(meta_counter, active) ==
    4 + (IF meta_counter % 2 = B2N(active) THEN META_SIZE ELSE 0)

block_size_raw == BLOCK_HEADER_SIZE + BLOCK_SIZE

\* Variant: the block slot chosen by the version bit alone (update in place).
block_pos_raw_in_place(meta, block_num, active) ==
    4 + META_SIZE * 2 + (2 * block_num + meta.bvt[block_num]) * block_size_raw

block_pos_raw(meta, block_num, active) ==
    LET n == 2 * block_num
             + (IF B2N(active) = get_backup_version_of_block(meta, block_num)
                THEN 1 ELSE 0)
    IN  4 + META_SIZE * 2 + n * block_size_raw

-----------------------------------------------------------------------------
(* Data.                                                                   *)

Meta   == [length : 0 .. MAX_FILE_SIZE, bvt : [Blocks -> {0, 1}]]
Block  == [0 .. BLOCK_SIZE - 1 -> Bytes]
ZeroBlock == [i \in 0 .. BLOCK_SIZE - 1 |-> 0]

\* A freshly allocated handle: calloc'ed meta, and the meta create_meta builds.
ZeroMeta  == [length |-> 0, bvt |-> [b \in Blocks |-> 0]]
FreshMeta == [length |-> 0, bvt |-> [b \in Blocks |-> 1]]
ClosedFd  == [meta |-> ZeroMeta, meta_counter |-> 0, pos |-> 0]

\* What a read at offset o of the untrusted file finds.
SlotState(d, o) ==
    IF o \in DOMAIN d THEN d[o]
    ELSE IF \E p \in DOMAIN d : p > o THEN Hole ELSE Eof

Unauthentic(x) == x \in {Torn, Hole}

\* read_block: the active slot of block b, zeros when the slot is past the end.
read_block(d, meta, b) ==
    LET st == SlotState(d, block_pos_raw(meta, b, TRUE))
    IN  IF st = Eof THEN ZeroBlock ELSE st

\* The byte at position p as seen through meta.
ByteAt(d, meta, p) == read_block(d, meta, pos_to_block_num(p))[p % BLOCK_SIZE]

-----------------------------------------------------------------------------
(* Plans.  A step is one RPC write: its kind, offset and content, and the  *)
(* update of the handle the code makes once that write has succeeded.      *)

NoUpd == [f \in {} |-> 0]

Step(kind, off, val, upd) == [kind |-> kind, off |-> off, val |-> val, upd |-> upd]

ApplyWrites(d, steps) == FoldLeft(LAMBDA dd, s : (s.off :> s.val) @@ dd, d, steps)

ApplyUpd(h, steps) ==
    FoldLeft(LAMBDA hh, s : [f \in DOMAIN hh |->
                               IF f \in DOMAIN s.upd THEN s.upd[f] ELSE hh[f]],
             h, steps)

\* One pass of the loop of out_of_place_write per block b .. e: the piece of
\* the block it patches, from offset p % bs for MIN(remain, bs) bytes cut
\* at the end of the block, and the position and remaining bytes after it.
RECURSIVE write_chunks_unclipped(_, _, _, _, _)
\* Variant: the piece not cut at the end of the block.
write_chunks_unclipped(bs, p, remain, b, e) ==
    IF b > e THEN <<>>
    ELSE LET size == IF remain < bs THEN remain ELSE bs
         IN  <<[block |-> b, offset |-> p % bs, size |-> size]>>
             \o write_chunks_unclipped(bs, p + size, remain - size, b + 1, e)

RECURSIVE write_chunks(_, _, _, _, _)
write_chunks(bs, p, remain, b, e) ==
    IF b > e THEN <<>>
    ELSE LET offset == p % bs
             size0  == IF remain < bs THEN remain ELSE bs
             size   == IF size0 + offset > bs THEN bs - offset ELSE size0
         IN  <<[block |-> b, offset |-> offset, size |-> size]>>
             \o write_chunks(bs, p + size, remain - size, b + 1, e)

\* The pieces for [pos, pos + len) with blocks of bs bytes.
Chunks(bs, pos, len) ==
    write_chunks(bs, pos, len, pos \div bs, (pos + len - 1) \div bs)

\* out_of_place_write: for every piece read the active slot of its block,
\* patch it, write it to the shadow slot and toggle the block's bit in the
\* candidate meta; stop at the first block whose active slot does not
\* authenticate; on success raise the candidate's length to pos + len.
\* v = 0 is the zero fill of a NULL buffer.
out_of_place_write(d, new_meta, pos, len, v) ==
    LET chunks  == Chunks(BLOCK_SIZE, pos, len)
        bad     == {k \in DOMAIN chunks :
                      Unauthentic(SlotState(d, block_pos_raw(new_meta, chunks[k].block, TRUE)))}
        n       == IF bad = {} THEN Len(chunks) ELSE Min(bad) - 1
        patched(c) ==
            [i \in 0 .. BLOCK_SIZE - 1 |->
                IF c.offset <= i /\ i < c.offset + c.size
                THEN v ELSE read_block(d, new_meta, c.block)[i]]
        steps   == [k \in 1 .. n |->
                      Step("block", block_pos_raw(new_meta, chunks[k].block, FALSE),
                           patched(chunks[k]), NoUpd)]
        toggled == FoldSet(LAMBDA b, m : toggle_backup_version_of_block(m, b),
                           new_meta, {chunks[k].block : k \in 1 .. n})
    IN  [ok    |-> bad = {},
         steps |-> steps,
         meta  |-> [toggled EXCEPT !.length = IF pos + len > @ THEN pos + len ELSE @]]

\* new_meta->counter = fdp->meta_counter + 1 in uint32 arithmetic.
NextCounter(c) == (c + 1) % COUNTER_MOD

\* Commits since create of a handle at counter c, for bounding runs.
Generation(c) == (c - PRIOR_COMMITS) % COUNTER_MOD

\* The commits a ree_fs_write from handle h makes: one more when it must
\* first extend the file to h.pos.
Commits(h) == IF h.meta.length < h.pos THEN 2 ELSE 1

\* Variant: the counter written before the meta it selects.
commit_counter_first(h, new_meta) ==
    << Step("counter", 0, NextCounter(h.meta_counter), NoUpd),
       Step("meta", meta_pos_raw(h.meta_counter, FALSE), new_meta,
            [meta |-> new_meta, meta_counter |-> NextCounter(h.meta_counter)]) >>

\* commit_meta_file: write the candidate to the shadow meta slot, adopt it
\* in the handle, then write the incremented counter.
commit_meta_file(h, new_meta) ==
    << Step("meta", meta_pos_raw(h.meta_counter, FALSE), new_meta,
            [meta |-> new_meta, meta_counter |-> NextCounter(h.meta_counter)]),
       Step("counter", 0, NextCounter(h.meta_counter), NoUpd) >>

Plan(steps, err) == [steps |-> steps, err |-> err]

\* Variant: an extension that commits the new length without zero-filling
\* [old_len, new_file_len) in the blocks.
ftruncate_no_zero_fill(d, h, new_file_len) ==
    CASE new_file_len > MAX_FILE_SIZE -> Plan(<<>>, BAD_PARAMETERS)
      [] OTHER -> Plan(commit_meta_file(h, [h.meta EXCEPT !.length = new_file_len]), SUCCESS)

\* ree_fs_ftruncate_internal
ree_fs_ftruncate_internal(d, h, new_file_len) ==
    LET new_meta == [h.meta EXCEPT !.length = new_file_len]
        old_len  == h.meta.length
        ext      == out_of_place_write(d, new_meta, old_len,
                                       new_file_len - old_len, 0)
    IN  CASE new_file_len > MAX_FILE_SIZE -> Plan(<<>>, BAD_PARAMETERS)
          [] new_file_len > old_len /\ ~ext.ok -> Plan(ext.steps, MAC_INVALID)
          [] new_file_len > old_len ->
               Plan(ext.steps \o commit_meta_file(h, ext.meta), SUCCESS)
          [] OTHER -> Plan(commit_meta_file(h, new_meta), SUCCESS)

\* The out-of-place write and commit of ree_fs_write; the handle's position
\* moves past the data once every block is written.
WriteData(d, h, len, v) ==
    LET w     == out_of_place_write(d, h.meta, h.pos, len, v)
        moved == [k \in DOMAIN w.steps |->
                    IF k < Len(w.steps) THEN w.steps[k]
                    ELSE Step("block", w.steps[k].off, w.steps[k].val, [pos |-> h.pos + len])]
    IN  IF w.ok THEN Plan(moved \o commit_meta_file(h, w.meta), SUCCESS)
                ELSE Plan(w.steps, MAC_INVALID)

\* ree_fs_write: extend the file to pos first (its own commit) when pos is
\* past the end, then write and commit the data.
ree_fs_write_plan(d, h, len, v) ==
    LET ext == ree_fs_ftruncate_internal(d, h, h.pos)
        d1  == ApplyWrites(d, ext.steps)
        h1  == ApplyUpd(h, ext.steps)
        wd  == WriteData(d1, h1, len, v)
    IN  CASE len = 0 -> Plan(<<>>, SUCCESS)
          [] h.pos + len > MAX_FILE_SIZE -> Plan(<<>>, BAD_PARAMETERS)
          [] h.meta.length < h.pos /\ ext.err # SUCCESS -> ext
          [] h.meta.length < h.pos -> Plan(ext.steps \o wd.steps, wd.err)
          [] OTHER -> WriteData(d, h, len, v)

\* Run a plan: to the end, or refused by the host at step i (the error path
\* keeps the handle updates of the steps before i), or cut by power loss
\* at step i (the handle is gone).  The counter write is 4 bytes and is not
\* torn; a refused or cut slot write may leave the slot torn.
StepWrittenUpTo(d, steps, i) ==
    {ApplyWrites(d, SubSeq(steps, 1, i - 1))} \cup
    (IF steps[i].kind = "counter" THEN {}
     ELSE {(steps[i].off :> Torn) @@ ApplyWrites(d, SubSeq(steps, 1, i - 1))})

\* The offsets whose content a reader sees but the medium does not hold.
Pending(d) == {o \in DOMAIN d : o \notin DOMAIN durable \/ d[o] # durable[o]}

\* A write reaches the medium at once unless the host caches it.
Persist(d) == durable' = IF WRITE_BACK THEN durable ELSE d

\* The file after power loss when reads saw d: a cached write survives
\* only if the host has persisted it, in no particular order.
Survivors(d) ==
    IF WRITE_BACK THEN {Restrict(d, S) @@ durable : S \in SUBSET Pending(d)}
    ELSE {d}

PowerLoss(d) ==
    /\ POWER_LOSS
    /\ \E dd \in Survivors(d) : disk' = dd /\ durable' = dd

RunPlan(p) ==
    \/ /\ disk' = ApplyWrites(disk, p.steps)
       /\ Persist(disk')
       /\ fdp' = ApplyUpd(fdp, p.steps)
       /\ res' = p.err
       /\ UNCHANGED h_open
    \/ \E i \in 1 .. Len(p.steps) :
          /\ p.steps[i].kind \in FaultySteps
          /\ disk' \in StepWrittenUpTo(disk, p.steps, i)
          /\ Persist(disk')
          /\ fdp' = ApplyUpd(fdp, SubSeq(p.steps, 1, i - 1))
          /\ res' = GENERIC
          /\ UNCHANGED h_open
    \/ \E i \in 1 .. Len(p.steps) :
          /\ \E d \in StepWrittenUpTo(disk, p.steps, i) : PowerLoss(d)
          /\ h_open' = FALSE
          /\ fdp' = ClosedFd
          /\ res' = GENERIC

\* A host that short-writes (spec.md 5, the RPC transport): it stores only
\* part of slot write i and reports success.  encrypt_and_write_file does
\* not look at the byte count tee_fs_rpc_write returns, so the operation
\* goes on to the end as if the slot were whole.
ShortWrite(p) ==
    \E i \in 1 .. Len(p.steps) :
        /\ p.steps[i].kind \in {"block", "meta"}
        /\ disk' = ApplyWrites(disk, [k \in DOMAIN p.steps |->
                                         IF k # i THEN p.steps[k]
                                         ELSE Step(p.steps[k].kind, p.steps[k].off, Torn, NoUpd)])
        /\ Persist(disk')
        /\ fdp' = ApplyUpd(fdp, p.steps)
        /\ res' = p.err
        /\ UNCHANGED h_open

EmptyDisk == [o \in {} |-> 0]

-----------------------------------------------------------------------------
(* Meta manager: reading the committed state.                              *)

\* read_meta: the counter at offset 0 (a read of 0 bytes is corrupt, a hole
\* reads as counter 0), then the active meta slot (past the end of the file
\* the read returns 0 bytes and the calloc'ed meta is kept).
read_meta(d) ==
    LET cst == SlotState(d, 0)
        ctr == IF cst = Hole THEN 0 ELSE cst
        mst == SlotState(d, meta_pos_raw(ctr, TRUE))
    IN  IF cst = Eof \/ Unauthentic(mst)
        THEN [res |-> CORRUPT_OBJECT, meta_counter |-> 0, meta |-> ZeroMeta]
        ELSE [res |-> SUCCESS, meta_counter |-> ctr,
              meta |-> IF mst = Eof THEN ZeroMeta ELSE mst]

\* The steps of create_meta on the freshly created file.
create_meta_steps ==
    << Step("meta", meta_pos_raw(0, FALSE), FreshMeta, NoUpd),
       Step("counter", 0, 0, NoUpd) >>

-----------------------------------------------------------------------------
(* Operations of ree_fs_ops.                                               *)

Init ==
    /\ file_exists = FALSE
    /\ disk = EmptyDisk
    /\ durable = EmptyDisk
    /\ h_open = FALSE
    /\ fdp = ClosedFd
    /\ res = SUCCESS
    /\ rd = NoData

\* open_internal(file, create = TRUE): the file is new (the path is unused).
\* Before the RPC open, the path check, the FEK generation or the open
\* itself may fail; after it, a failed write closes the fd and removes the
\* file, while a power loss leaves the file as far as it was written.
ree_fs_create ==
    /\ ~h_open
    /\ ~file_exists
    /\ rd' = NoData
    /\ \/ /\ "open" \in FaultySteps
          /\ res' = GENERIC
          /\ UNCHANGED <<file_exists, disk, durable, h_open, fdp>>
       \/ /\ file_exists' = TRUE
          /\ disk' = ApplyWrites(EmptyDisk, create_meta_steps)
          /\ Persist(disk')
          /\ h_open' = TRUE
          /\ fdp' = [meta |-> FreshMeta, meta_counter |-> 0, pos |-> 0]
          /\ res' = SUCCESS
       \/ \E i \in 1 .. Len(create_meta_steps) :
             /\ create_meta_steps[i].kind \in FaultySteps
             /\ file_exists' = FALSE
             /\ disk' = EmptyDisk
             /\ durable' = EmptyDisk
             /\ res' = GENERIC
             /\ UNCHANGED <<h_open, fdp>>
       \/ \E i \in 1 .. Len(create_meta_steps) :
             /\ file_exists' = TRUE
             /\ \E d \in StepWrittenUpTo(EmptyDisk, create_meta_steps, i) : PowerLoss(d)
             /\ res' = GENERIC
             /\ UNCHANGED <<h_open, fdp>>

\* open_internal(file, create = FALSE): read_meta, closing the fd on error.
ree_fs_open ==
    LET r == read_meta(disk)
    IN  /\ ~h_open
        /\ file_exists
        /\ rd' = NoData
        /\ UNCHANGED <<file_exists, disk, durable>>
        /\ \/ /\ FaultySteps \cap {"open", "read"} # {}
              /\ res' = GENERIC
              /\ UNCHANGED <<h_open, fdp>>
           \/ /\ r.res # SUCCESS
              /\ res' = r.res
              /\ UNCHANGED <<h_open, fdp>>
           \/ /\ r.res = SUCCESS
              /\ h_open' = TRUE
              /\ fdp' = [meta |-> r.meta, meta_counter |-> r.meta_counter, pos |-> 0]
              /\ res' = SUCCESS

ree_fs_close ==
    /\ h_open
    /\ h_open' = FALSE
    /\ fdp' = ClosedFd
    /\ res' = SUCCESS
    /\ rd' = NoData
    /\ UNCHANGED <<file_exists, disk, durable>>

\* Power loss between operations: the handle is lost, and the file keeps
\* what the medium holds.
Crash ==
    /\ h_open \/ Pending(disk) # {}
    /\ PowerLoss(disk)
    /\ h_open' = FALSE
    /\ fdp' = ClosedFd
    /\ rd' = NoData
    /\ UNCHANGED <<file_exists, res>>

\* The host writes one cached slot back to the medium, at a time and in an
\* order of its choosing.
HostWriteBack ==
    /\ \E o \in Pending(disk) : durable' = (o :> disk[o]) @@ durable
    /\ UNCHANGED <<file_exists, disk, h_open, fdp, res, rd>>

\* The slots of the container.
MetaSlots  == {meta_pos_raw(c, a) : c \in 0 .. 1, a \in BOOLEAN}
BlockSlots == {4 + META_SIZE * 2 + n * block_size_raw : n \in 0 .. 2 * NUM_BLOCKS_PER_FILE - 1}

\* The untrusted host rewrites the backing file behind the engine's back:
\* it flips bits in a slot's ciphertext (the slot no longer authenticates),
\* writes any value over the plaintext counter that read_meta_counter
\* copies unchecked, or moves a slot's ciphertext to another slot of the
\* same kind, which tee_fs_encrypt_file does not bind to its offset.
HostTamper ==
    /\ \/ \E o \in DOMAIN disk \ {0} : disk' = [disk EXCEPT ![o] = Torn]
       \/ \E c \in 0 .. COUNTER_MOD - 1 : disk' = (0 :> c) @@ disk
       \/ \E o1 \in DOMAIN disk, o2 \in MetaSlots \cup BlockSlots :
             /\ o1 # o2
             /\ {o1, o2} \subseteq MetaSlots \/ {o1, o2} \subseteq BlockSlots
             /\ disk' = (o2 :> disk[o1]) @@ disk
    /\ durable' = disk'
    /\ UNCHANGED <<file_exists, h_open, fdp, res, rd>>

Whences == {"SET", "CUR", "END", "OTHER"}

\* Variant: ree_fs_seek without the TEE_DATA_MAX_POSITION check.
ree_fs_seek_unbounded(whence, offset) ==
    LET new_pos == CASE whence = "SET" -> offset
                     [] whence = "CUR" -> fdp.pos + offset
                     [] OTHER          -> fdp.meta.length + offset
    IN  /\ h_open
        /\ rd' = NoData
        /\ UNCHANGED <<file_exists, disk, durable, h_open>>
        /\ IF whence = "OTHER"
           THEN res' = BAD_PARAMETERS /\ UNCHANGED fdp
           ELSE res' = SUCCESS /\ fdp' = [fdp EXCEPT !.pos = IF new_pos < 0 THEN 0 ELSE new_pos]

ree_fs_seek(whence, offset) ==
    LET new_pos == CASE whence = "SET" -> offset
                     [] whence = "CUR" -> fdp.pos + offset
                     [] OTHER          -> fdp.meta.length + offset
        clamped == IF new_pos < 0 THEN 0 ELSE new_pos
    IN  /\ h_open
        /\ rd' = NoData
        /\ UNCHANGED <<file_exists, disk, durable, h_open>>
        /\ IF whence = "OTHER" \/ clamped > TEE_DATA_MAX_POSITION
           THEN res' = BAD_PARAMETERS /\ UNCHANGED fdp
           ELSE res' = SUCCESS /\ fdp' = [fdp EXCEPT !.pos = clamped]

\* ree_fs_read: clamp the length to the file, then read block by block; a
\* block that fails authentication is CORRUPT_OBJECT, a refused RPC read is
\* GENERIC, and either leaves the position after the blocks already read.
ree_fs_read(len) ==
    LET m     == fdp.meta
        p     == fdp.pos
        eff   == IF p > m.length THEN 0
                 ELSE IF p + len > m.length THEN m.length - p ELSE len
        start == pos_to_block_num(p)
        end   == pos_to_block_num(p + eff - 1)
        bad   == {b \in start .. end :
                    Unauthentic(SlotState(disk, block_pos_raw(m, b, TRUE)))}
        stop  == IF bad = {} THEN end ELSE Min(bad)
        posAt(b) == IF b = start THEN p ELSE b * BLOCK_SIZE
    IN  /\ h_open
        /\ UNCHANGED <<file_exists, disk, durable, h_open>>
        /\ \/ /\ eff = 0
              /\ res' = SUCCESS /\ rd' = <<>> /\ UNCHANGED fdp
           \/ /\ eff > 0 /\ bad = {}
              /\ res' = SUCCESS
              /\ rd' = [i \in 1 .. eff |-> ByteAt(disk, m, p + i - 1)]
              /\ fdp' = [fdp EXCEPT !.pos = p + eff]
           \/ /\ eff > 0 /\ bad # {}
              /\ res' = CORRUPT_OBJECT /\ rd' = NoData
              /\ fdp' = [fdp EXCEPT !.pos = posAt(Min(bad))]
           \/ /\ eff > 0 /\ "read" \in FaultySteps
              /\ \E b \in start .. stop :
                    /\ res' = GENERIC /\ rd' = NoData
                    /\ fdp' = [fdp EXCEPT !.pos = posAt(b)]

ree_fs_write(len, v) ==
    /\ h_open
    /\ Generation(fdp.meta_counter) + Commits(fdp) <= MAX_COMMITS
    /\ RunPlan(ree_fs_write_plan(disk, fdp, len, v))
    /\ rd' = NoData
    /\ UNCHANGED file_exists

ree_fs_truncate(len) ==
    /\ h_open
    /\ Generation(fdp.meta_counter) + 1 <= MAX_COMMITS
    /\ RunPlan(ree_fs_ftruncate_internal(disk, fdp, len))
    /\ rd' = NoData
    /\ UNCHANGED file_exists

ree_fs_remove ==
    /\ ~h_open
    /\ file_exists
    /\ rd' = NoData
    /\ UNCHANGED <<h_open, fdp>>
    /\ \/ /\ "open" \in FaultySteps
          /\ res' = GENERIC
          /\ UNCHANGED <<file_exists, disk, durable>>
       \/ /\ file_exists' = FALSE
          /\ disk' = EmptyDisk
          /\ durable' = EmptyDisk
          /\ res' = SUCCESS

\* ree_fs_fsync: tee_fs_rpc_fsync on the handle's fd makes every write
\* the host still caches durable.
\* With no handle (fdp NULL) it does nothing and returns TEE_SUCCESS.
ree_fs_fsync ==
    /\ rd' = NoData
    /\ UNCHANGED <<file_exists, disk, h_open, fdp>>
    /\ \/ /\ ~h_open
          /\ res' = SUCCESS
          /\ UNCHANGED durable
       \/ /\ h_open
          /\ "fsync" \in FaultySteps
          /\ res' = GENERIC
          /\ UNCHANGED durable
       \/ /\ h_open
          /\ durable' = disk
          /\ res' = SUCCESS

\* ree_fs_write and ree_fs_truncate on a host that short-writes one slot.
ShortWriteNext ==
    /\ h_open
    /\ rd' = NoData
    /\ UNCHANGED file_exists
    /\ \/ \E len \in WriteLens, v \in DataValues :
             /\ Generation(fdp.meta_counter) + Commits(fdp) <= MAX_COMMITS
             /\ ShortWrite(ree_fs_write_plan(disk, fdp, len, v))
       \/ \E len \in 0 .. MAX_FILE_SIZE + 1 :
             /\ Generation(fdp.meta_counter) + 1 <= MAX_COMMITS
             /\ ShortWrite(ree_fs_ftruncate_internal(disk, fdp, len))

\* The operations on an open handle, and power loss.
HandleNext ==
    \/ ree_fs_open
    \/ ree_fs_close
    \/ Crash
    \/ \E len \in ReadLens : ree_fs_read(len)
    \/ \E len \in WriteLens, v \in DataValues : ree_fs_write(len, v)
    \/ \E len \in 0 .. MAX_FILE_SIZE + 1 : ree_fs_truncate(len)
    \/ \E w \in Whences, o \in SeekOffsets : ree_fs_seek(w, o)
    \/ ree_fs_fsync

Next ==
    \/ HandleNext
    \/ ree_fs_create
    \/ ree_fs_remove

Spec == Init /\ [][Next]_vars

\* The state after ree_fs_create, PRIOR_COMMITS + 1 calls of
\* ree_fs_truncate(0) and ree_fs_close: a file whose first commit is done,
\* with the counter PRIOR_COMMITS + 1 (so a run can start near the wrap).
InitCommitted ==
    /\ file_exists = TRUE
    /\ disk = FoldLeft(LAMBDA d, k :
                         ApplyWrites(d, commit_meta_file([meta |-> FreshMeta,
                                           meta_counter |-> k % COUNTER_MOD,
                                           pos |-> 0], FreshMeta)),
                     ApplyWrites(EmptyDisk, create_meta_steps),
                     [i \in 1 .. PRIOR_COMMITS + 1 |-> i - 1])
    /\ durable = disk
    /\ h_open = FALSE
    /\ fdp = ClosedFd
    /\ res = SUCCESS
    /\ rd = NoData

SpecCommitted == InitCommitted /\ [][HandleNext]_vars

\* The committed file on a host that caches writes (WRITE_BACK) and writes
\* them back when it chooses.
SpecWriteBack == InitCommitted /\ [][HandleNext \/ HostWriteBack]_vars

\* The committed file on a host that may short-write a slot.
SpecShortWrite == InitCommitted /\ [][HandleNext \/ ShortWriteNext]_vars

\* The committed file under an untrusted host that also tampers with it.
SpecTampered == InitCommitted /\ [][HandleNext \/ HostTamper]_vars

-----------------------------------------------------------------------------
(* Properties.                                                             *)

\* The file as a fresh ree_fs_open followed by reads from 0 would see it.
CommittedContent ==
    LET r == read_meta(disk)
    IN  IF /\ file_exists
           /\ r.res = SUCCESS
           /\ \A p \in 0 .. r.meta.length - 1 :
                 ~Unauthentic(SlotState(disk, block_pos_raw(r.meta, pos_to_block_num(p), TRUE)))
        THEN [i \in 1 .. r.meta.length |-> ByteAt(disk, r.meta, i - 1)]
        ELSE Unreadable


\* The shape of a container file: a counter, meta slots and block slots.
FileImage(d) ==
    /\ DOMAIN d \subseteq {0} \cup MetaSlots \cup BlockSlots
    /\ 0 \in DOMAIN d => d[0] \in 0 .. COUNTER_MOD - 1
    /\ \A o \in DOMAIN d \cap MetaSlots : d[o] \in Meta \cup {Torn}
    /\ \A o \in DOMAIN d \cap BlockSlots : d[o] \in Block \cup {Torn}

TypeOK ==
    /\ file_exists \in BOOLEAN
    /\ FileImage(disk)
    /\ FileImage(durable)
    /\ h_open \in BOOLEAN
    /\ fdp \in [meta : Meta, meta_counter : 0 .. COUNTER_MOD - 1, pos : 0 .. TEE_DATA_MAX_POSITION]
    /\ res \in {SUCCESS, BAD_PARAMETERS, GENERIC, CORRUPT_OBJECT, MAC_INVALID}
    /\ rd = NoData \/ rd \in Seq(Bytes)

\* The handle never runs ahead of the disk: while a handle is open, its
\* meta counter and meta are the ones a fresh ree_fs_open would read.  The
\* handle adopts a meta in commit_meta_file before the counter write that
\* makes it current on disk, and an error path or a reordering of those
\* writes could leave the two apart.
HandleMatchesDisk ==
    h_open => LET r == read_meta(disk)
              IN  /\ r.res = SUCCESS
                  /\ r.meta_counter = fdp.meta_counter
                  /\ r.meta = fdp.meta

\* Crash atomicity and read-your-writes (spec.md 4.3, 7, 8.1-8.5): the file
\* a reopen would see changes only as one whole ree_fs_write or
\* ree_fs_truncate, through every refused RPC and power loss, and every
\* ree_fs_read returns the bytes of that file at the handle's position.
AF == INSTANCE AtomicFile WITH content <- CommittedContent, opened <- h_open,
                               pos <- fdp.pos
Refinement == AF!Spec


\* A file whose first commit is on disk stays readable (spec.md 3, invariant
\* 1): whenever the on-disk counter is past the one create_meta writes, the
\* meta slot it selects and the blocks that meta selects authenticate.
\* Across ree_fs_create, ree_fs_remove and power loss at any step of a commit,
\* and every refused RPC but the counter write (see run counter_fault).  A
\* file at counter 0 is left out: create_meta leaves it unreadable (run
\* create_reopen), and a create cut short has made no promise.
ReadableOnceCommitted ==
    (file_exists /\ 0 \in DOMAIN disk /\ disk[0] >= 1) => CommittedContent # Unreadable

\* MAC_INVALID stays inside the engine (spec.md 6 and 7): every operation
\* upgrades an authentication failure of read_block to CORRUPT_OBJECT
\* before returning, as ree_fs_read does.
NoMacInvalidSurfaced == res # MAC_INVALID

\* A never-written block slot reads as zeros (spec.md 4.4 and 7): no block
\* slot the open handle would read is a never-written hole in the file.
UnwrittenBlockReadsZero ==
    h_open => \A b \in Blocks : SlotState(disk, block_pos_raw(fdp.meta, b, TRUE)) # Hole


\* The live meta is never overwritten (spec.md 4.3): a step that leaves the
\* on-disk counter as it was leaves the meta slot that counter selects as
\* it was.  commit_meta_file writes the slot meta_pos_raw(fdp, false)
\* computes from the handle's counter, which is the shadow slot only while
\* the handle's counter is the disk's.
LiveMetaSlotKept ==
    [][(0 \in DOMAIN disk /\ 0 \in DOMAIN disk' /\ disk'[0] = disk[0])
         => SlotState(disk', meta_pos_raw(disk[0], TRUE))
            = SlotState(disk, meta_pos_raw(disk[0], TRUE))]_disk

\* The part of block b that [pos, pos + len) covers, computed directly.
ChunkRef(bs, pos, len) ==
    LET s == pos \div bs
        e == (pos + len - 1) \div bs
    IN  [k \in 1 .. e - s + 1 |->
           LET b  == s + k - 1
               lo == Max({pos, b * bs})
               hi == Min({pos + len, (b + 1) * bs})
           IN  [block |-> b, offset |-> lo - b * bs, size |-> hi - lo]]

\* Block sizes over which the chunking is checked.
ChunkBlockSizes == 1 .. 4

\* The loop of out_of_place_write cuts every range that starts at the
\* handle's position into exactly the per-block pieces it covers (spec.md
\* 4.5): for each block from the one holding pos to the one holding
\* pos + len - 1, the offset in the block and the byte count, whatever
\* the alignment of pos, for ranges of up to two blocks.
ChunksCoverRange ==
    \A bs \in ChunkBlockSizes :
        \A len \in 1 .. 2 * bs :
            Chunks(bs, fdp.pos, len) = ChunkRef(bs, fdp.pos, len)

\* Tampering is evident (spec.md 8.6, and 9: a corrupted counter write is
\* detected through a MAC mismatch): a step of the host that rewrites the
\* backing file either leaves the file a reopen would see as it was or
\* makes it unreadable; it never turns it into other content that
\* authenticates.  read_meta_counter takes the counter unauthenticated.
TamperEvident ==
    [][HostTamper => CommittedContent' \in {CommittedContent, Unreadable}]_vars

=============================================================================
