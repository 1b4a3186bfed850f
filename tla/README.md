# TLA+ model of the REE secure file system

This directory holds the model-checking project for the secure file system in
`src/compat/mitee_compat/tee_ree_fs.c`. That file stores each secure object
as one opaque file in the untrusted normal-world (REE) file system. The file
is a double-buffered, encrypted container:

```
offset 0                   u32 meta_counter
4                          meta slot 0
4 + S_meta                 meta slot 1
4 + 2 S_meta + k S_block   block k/2, slot k%2
```

- The parity of the counter selects the active meta slot (`meta_pos_raw`).
- Bit n of the meta's `backup_version_table` selects the active slot of block n (`block_pos_raw`).
- Every update is written out of place:
  - new block versions go into the shadow slots, toggling their bits in a new meta;
  - the new meta goes into the shadow meta slot;
  - writing the incremented counter at offset 0 commits the update.

## Inventory

### Parts of the system

These follow the component split of spec.md §2.

| Part | Code | State | Operations |
|---|---|---|---|
| C1 layout calculator | `pos_to_block_num`, `get/toggle_backup_version_of_block`, `meta_pos_raw`, `block_size_raw`, `block_pos_raw` (84–142) | none (pure) | offset arithmetic |
| C2 encrypted I/O | `encrypt_and_write_file`, `read_and_decrypt_file`, `write_meta_counter`, `read_meta_counter` (147–249, 321–345) | the backing file | slot write, slot read plus authentication |
| C3 meta manager | `create_meta`, `commit_meta_file`, `read_meta`, `read_meta_file` (251–363) | counter and meta slots; `fdp->meta`, `fdp->meta_counter` | create, commit, read |
| C4 block engine | `read_block`, `write_block` (365–416) | block slots, bits of the new meta | block read, shadow write with toggle |
| C5 range writer / reader | `out_of_place_write`, the loop of `ree_fs_read` (418–473, 634–691) | `fdp->pos` | per-block loops |
| C6 façade | `open_internal`, `ree_fs_*`, `ree_fs_ops` (475–798) | the handle | open, create, close, seek, read, write, truncate, rename, remove, fsync |
| random source | `src/compat/random.c` | none | `hw_get_random_bytes` (FEK generation) |
| panic | `src/compat/panic.c` | none | `__do_panic` |
| defines | `src/include/tee_api_defines.h` | none | a constant |

### How the parts interact

A façade operation runs the range loop (C5). The loop calls the block engine
(C4), which calls encrypted I/O (C2) at offsets from the layout (C1). A
write or truncate then calls `commit_meta_file` (C3). Every disk access is an
RPC to the untrusted host, which may refuse it. The device may also lose
power between any two RPCs, or during one. The host may hold written data in
a cache and persist it later, in any order; only `ree_fs_fsync` asks it to
persist everything, and the engine itself never calls it.

### What is hard here

- **Order of the commit writes.** Block writes, then the meta write, then the counter write. The handle adopts the new meta *before* the counter write (lines 303–306).
- **Failure part-way.** A refused RPC can land at any step of a multi-block loop. A write past the end commits twice: the extension first (line 730), then the data.
- **Power loss.** A crash can strike during any write, and the slot written at that moment may be torn.
- **Two kinds of unwritten slot.** An unwritten slot past the end of the file reads 0 bytes. One inside the file (below written data) reads zeros, which fail authentication.
- **Positions.** Seek allows positions past the file and past `MAX_FILE_SIZE`.

### Properties per part

- C1/C3: a commit never overwrites the live meta slot. The handle always agrees with what a reopen would read.
- C2/C4: a torn or shadow slot is never read as live data.
- C5/C6: writes and truncates are atomic. Reads return the committed bytes. A committed file stays readable. Errors are reported as the spec's codes.

## Modules

| Module | Role |
|---|---|
| `ReeFs.tla` | The engine: C1–C6 over one backing file and one handle. |
| `AtomicFile.tla` | The abstract file the engine promises: a byte sequence changed only by whole operations. |
| `MC_ReeFs.tla` | The model-checking instance: it gives the seek offsets, including a negative one. |
| `HwRandom.tla` | `hw_get_random_bytes`: a NULL check, one `getrandom` call and the mapping of its count to a result. |

### ReeFs

**State.**

- `file_exists`: whether the backing file exists.
- `disk`: the file as reads see it, a function from the offsets written so far to their content. Offset 0 holds the counter. A meta slot holds `[length, bvt]`. A block slot holds a byte sequence. Any slot may hold `Torn`.
- `durable`: what the storage medium holds, the same kind of function. Without a write-back host it always equals `disk`.
- `h_open` and `fdp`: the handle, `struct tee_fs_fd` reduced to `meta`, `meta_counter` and `pos`.
- `res` and `rd`: the last result code and the bytes the last read returned.

Encryption is abstracted: a slot holds its plaintext, and `Unauthentic` says
which slot states fail `tee_fs_decrypt_file`. `SlotState` is what
`read_and_decrypt_file` sees at an offset:

- the content, if the offset has been written;
- `Hole`, if it is unwritten but lies below a written offset (it reads as zeros and fails authentication);
- `Eof`, if nothing is written past it (the RPC read returns 0 bytes).

**The chunking loop.** The `while` loop of `out_of_place_write` is the
RECURSIVE operator `write_chunks`. Each call is one pass of the loop: the piece
of block `b` starting at offset `p % bs`, whose size is `MIN(remain, bs)` cut
at the block end; the next call starts from `p + size`. `out_of_place_write`
patches and writes those pieces. `ChunksCoverRange` compares the loop with a
direct definition, the intersection of the range with each block, over block
sizes 1 to 4, every position the handle reaches (0 to 5) and every
length up to two blocks. This is wider than
the 2-byte blocks of the rest of the model.

**Each operation is one action.** `ree_fs_write`, `ree_fs_truncate` and
`ree_fs_create` compute their RPC writes as a *plan*, a sequence of steps
(`out_of_place_write`, `commit_meta_file`, `ree_fs_ftruncate_internal`,
`ree_fs_write_plan`). Each step carries the update the code makes to the
handle once that RPC succeeds: `commit_meta_file` adopts the meta after the
meta write, and `out_of_place_write` advances `pos` at the end of the loop.
`RunPlan` then chooses one of three outcomes:

- the whole plan runs;
- the host refuses step i, if that step's kind is in `FaultySteps`: the earlier steps are on disk, the slot of step i may be torn, the handle keeps the updates of the earlier steps, and the operation returns GENERIC;
- power is lost during step i: the handle is gone.

A counter write is 4 bytes and is never torn. The counter is a `uint32`:
`NextCounter` adds one modulo `COUNTER_MOD`, which stands for 2^32. The cfgs
make it small (4 or 8) and start the file `PRIOR_COMMITS` commits in, so the
runs cross the wrap. `MAX_COMMITS` bounds the commits since create
(`Generation`).

**The host.** With `WRITE_BACK = FALSE` every write reaches the medium at once
(`Persist`). With `WRITE_BACK = TRUE` writes stay pending in the host's cache
(`Pending`) until `HostWriteBack` persists one slot, in any order, or
`ree_fs_fsync` persists them all. `HostWriteBack` is not in `HandleNext`: only
`SpecWriteBack` adds it, for the `writeback_crash` run, since spec.md §5 assumes
no durability before fsync and so promises nothing a pass run could check. `PowerLoss` (enabled by `POWER_LOSS`)
keeps any subset of the pending writes (`Survivors`) and drops the rest, and
the view falls back to the medium. A refused fsync returns GENERIC. The handler's guards and early
returns come from the code:

- the `len == 0` return;
- the `MAX_FILE_SIZE` checks;
- the stop at the first block that fails authentication, which returns MAC_INVALID unconverted from `out_of_place_write`.

`ree_fs_read` clamps the length as the code does. It then succeeds, stops at
the first unauthentic block with CORRUPT_OBJECT, or stops at a refused RPC
read. In both failures the position is left after the blocks already read.
**The untrusted host.** `HostTamper` is the REE file system acting against
the engine. It can flip bits in a slot's ciphertext (the slot becomes `Torn`),
write any value over the plaintext counter, or move a slot's ciphertext to
another slot of the same kind, since `tee_fs_encrypt_file` is given no offset.
It is not in `HandleNext`: only `SpecTampered` adds it, for the `tamper` run.
In the same way, `ShortWriteNext` runs `ree_fs_write` and `ree_fs_truncate`
on a host that stores only part of one slot write and reports success
(`ShortWrite`); only `SpecShortWrite` adds it, for the `short_write` run.

`ree_fs_open` runs `read_meta`. `ree_fs_fsync` (which returns SUCCESS and does nothing when the handle is NULL), `ree_fs_remove`, `ree_fs_close` and `Crash`
(power loss between operations) complete the set. `Next` is the operation
table.

Two initial states are used:

- `Init`: no file.
- `InitCommitted`: the disk after `ree_fs_create`, `ree_fs_truncate(0)` and `ree_fs_close`, the first point at which the code's file can be reopened.

`SpecCommitted` runs the handle operations from `InitCommitted`.

### AtomicFile and the refinement

`AtomicFile` has `content`, `opened`, `pos` and `rd`. It allows these
operations, each either taking effect whole or leaving `content` unchanged:

- `Write`: takes effect whole, or leaves only the zero extension up to `pos`, because a write past the end commits its extension first. When it fails, the cursor stays or is past the data: `out_of_place_write` restores `orig_pos` only when its block loop fails (lines 460 and 467), so a meta or counter write refused after the loop (line 745) leaves `pos` advanced;
- `Truncate`, `Seek`;
- `Read`: returns `Slice(content, pos, n)`, or fails and leaves `pos` anywhere in the range.

`ReeFs` maps onto it with `content <- CommittedContent` (the bytes a fresh
open followed by reads from 0 would return, or `Unreadable`), `opened <- h_open` and
`pos <- fdp.pos`.

## Runs

All runs use these constants:

- `BLOCK_SIZE = 2`, `NUM_BLOCKS_PER_FILE = 2`, so `MAX_FILE_SIZE = 4`;
- `META_SIZE = 2`, `BLOCK_HEADER_SIZE = 1`, `TEE_DATA_MAX_POSITION = 5`;
- data values {1, 2} in the violation runs and {1} in the pass runs, whose state spaces are larger; write lengths {0, 1, 2} ({1, 2} in `atomic` and `resize`, whose state spaces are the largest), read length 2;
- seek offsets {-1, 0, 1, 3, 6}.

Two blocks of two bytes are the smallest layout where all of these happen:

- writes that span a block boundary;
- partial-block writes that must read back the old block;
- extensions that cross into a new block;
- positions past the file and past `MAX_FILE_SIZE`.

Write length 2 at an odd position spans two blocks. Truncate takes every
length from 0 to `MAX_FILE_SIZE + 1`. `MAX_COMMITS` bounds the commits after
create: 3 or 4 (2 in `writeback_crash`). A write past the end costs two commits
(`Commits`). With 3 (`atomic`), a failure after an earlier successful commit
happens; with 4 (`resize`, `handle`), a write, a shrink and an extension
happen in one behaviour, the least that can bring old bytes back.
`COUNTER_MOD` is 4 (8 in `handle`) and `PRIOR_COMMITS` 2 (5 in `handle`), so
the committed runs start two commits before the counter wraps and pass
through the wrap; the slot parity, which is all the engine uses, is kept
because `COUNTER_MOD` is even. All runs except `writeback_crash` use a
write-through host (`WRITE_BACK = FALSE`).

| Run | Cfg | Expect | Checks | Shows |
|---|---|---|---|---|
| atomic | `MC_ReeFs_atomic.cfg` | pass | `TypeOK`, `ChunksCoverRange`, `Refinement` | With refused block and meta writes and power loss at any step, every behaviour is an `AtomicFile` behaviour: operations are atomic, a failed write past the end leaves at most its zero extension, and reads return committed bytes. The chunking loop of `out_of_place_write` (`write_chunks`) yields exactly the per-block pieces of every range (`ChunkRef`) for block sizes 1 to 4. |
| handle | `MC_ReeFs_handle.cfg` | pass | `HandleMatchesDisk`, `LiveMetaSlotKept` | Unless a counter write is refused, the handle's meta and counter always equal what a reopen reads, and no step rewrites the meta slot the on-disk counter selects. |
| lifecycle | `MC_ReeFs_lifecycle.cfg` | pass | `ReadableOnceCommitted` | From no file, through create, remove, power loss and refused opens, reads, block and meta writes and fsyncs: once the counter is past the create's, the file is readable. Refused counter writes are left out, since `counter_fault` shows they break the live meta. Counter 0 is left out, since `create_reopen` shows a fresh file is unreadable. |
| create_reopen | `MC_ReeFs_create_reopen.cfg` | violation | `HandleMatchesDisk` | `create_meta` writes `meta_pos_raw(fdp, false)` (slot 1) and then counter 0, which selects slot 0, a hole. Reopening a fresh file fails with CORRUPT_OBJECT (finding, line 277). |
| counter_fault | `MC_ReeFs_counter_fault.cfg` | violation | `LiveMetaSlotKept` | Once a counter write is refused, the handle is a commit ahead. Its next commit writes the live meta slot, contrary to spec.md §4.3 (finding, line 303). |
| mac_surfaced | `MC_ReeFs_mac_surfaced.cfg` | violation | `NoMacInvalidSurfaced` | Power loss in an extending truncate tears block 1's shadow slot. Block 0's active slot lies below it and was never written, so it reads as zeros and fails authentication. A write through a reopened handle then returns that MAC_INVALID, which spec.md §6/§7 says is always CORRUPT_OBJECT (finding, line 440). |
| hole_block | `MC_ReeFs_hole_block.cfg` | violation | `UnwrittenBlockReadsZero` | A crash in a multi-block extension leaves a committed meta whose active slot for an in-file block was never written. A slot written above it makes the host file long enough that this slot reads as zeros rather than 0 bytes, so it fails authentication instead of reading as a new zero block (finding, line 385). |
| resize | `MC_ReeFs_resize.cfg` | pass | `Refinement` | With three commits after the first and refused meta writes, a file written, shrunk and extended again (by truncate or by a write past the end) is still an `AtomicFile`: the extension reads zeros, never the bytes the shrink left in the block. |
| writeback_crash | `MC_ReeFs_writeback_crash.cfg` | violation | `Refinement` | With write-back and power loss, a truncate's counter and meta reach the medium while a block slot they select does not: the file reopens as neither the old nor the new content. No fsync separates the commit's writes (finding, line 306). |
| tamper | `MC_ReeFs_tamper.cfg` | violation | `TamperEvident` | The host flips bits in the live meta slot (detected: the file is unreadable), then writes 0 over the plaintext counter: the file reopens, without any MAC failure, as its previous commit. `read_meta_counter` copies the counter unauthenticated, contrary to spec.md §9's claim that a corrupted counter is caught by a MAC mismatch (finding, line 337). spec.md §1 leaves replay protection of the counter to the key-management collaborator; that covers a replayed whole container, but here only the 4-byte counter of the current container is rewritten. |
| random_short_read | `HwRandom_short_read.cfg` | violation | `FilledOnSuccess` | `getrandom` filling 1 of 2 bytes is reported as SUCCESS (finding, random.c line 29). |
| short_write | `MC_ReeFs_short_write.cfg` | violation | `Refinement` | The host stores part of a block write and reports success. `encrypt_and_write_file` ignores the byte count `tee_fs_rpc_write` returns, so a 1-byte `ree_fs_write` commits a meta that selects the torn block, returns SUCCESS, and the file no longer reads back (finding, line 170). spec.md §5 allows the transport to short-write. |

The pass runs take under 3 minutes each, at 40k–330k distinct states. Together they
fire every action and every branch of `RunPlan`. Each property of a
pass run has a mutant in `PROJECT.json`: a variant of a mapped definition, defined just
before it in `ReeFs.tla`, that TLC catches:

- the seek without its range check;
- the toggle dropped;
- the counter written before the meta;
- both meta positions equal;
- block writes in place;
- pieces not cut at the end of their block (`write_chunks_unclipped`);
- an extension that commits the new length without zero-filling the blocks (`ftruncate_no_zero_fill`).

### Fairness

None. Every operation is called by the TEE client. Nothing in the code waits
for or retries anything, so no step is guaranteed to happen, and the runs
check safety and refinement only.

## Not modelled

- **`ree_fs_rename`.** A one-line RPC passthrough over two paths; the model has one backing file.
- **Encryption and the FEK.** Replaced by plaintext plus an authenticity predicate. `HwRandom` models the entropy call on its own; the key derivation that uses it is outside `src/`.
- **`tee_api_defines.h`.** One constant, `TEE_STORAGE_USER`, with no behaviour. With `CONFIG_OPTEE_RPMB_FS` it is 0x80000100: it differs from 0x80000000 in byte 1, not in the high byte that spec.md §6 describes.
- **`panic.c`.** `__do_panic` has no state of its own. The release build halts in `while (1)`. With `CFG_TEE_CORE_DEBUG` it only logs and returns, so code after `panic()` runs in debug builds (line 26). A model would only restate the `#if`.
- **Write-back with power loss together with faults other than fsync.** The state space grows past reach, so `writeback_crash` uses two commits and no refused writes.
- **Two handles on one object.** spec.md §5 makes two handles on the same backing file undefined behaviour, so the model has one handle and lists no hazard for it.
- **The counter going back to 0 at 2^32 commits.** The `handle` run crosses the wrap with a 3-bit counter and passes, because the engine only uses the counter's parity. The wrap itself contradicts the strictly increasing counter of spec.md §3, but 2^32 commits are out of practical reach, so no run checks it.
- **Overflow checks in read and write** (lines 646, 722). Unreachable with positions bounded by `TEE_DATA_MAX_POSITION`.
- **Out-of-memory paths.** Not modelled.

## Plan for later work

- **The read loop.** `ree_fs_read`'s per-block loop (lines 660–690) could also use `write_chunks`'s form instead of its closed-form slice.
- **Bit-flip detection as a passing run.** `HostTamper` limited to ciphertext bit flips, with `TamperEvident` expected to hold (spec.md §8.6). This needs a run slot.
- **Rename.** Added as an action over two paths.
