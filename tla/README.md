# Verification of librsu in TLA+

librsu is the library with which a Linux or Zephyr program manages the remote
system update slots of an FPGA SoC: which bitstreams are in QSPI flash, where, and
in which order the boot firmware (the SDM) tries them. Two tables in flash say so,
each kept twice. A board on which both copies of one of them are lost does not
boot what it should, or not at all; that a power failure, a crash or a flash error
at any point never does this is what most of the library's code is about, and what
this project verifies.

- TLC checks the modules on small instances: safety, refinement of an abstract
  specification, and that calls return.
- TLAPS proves the invariants, the action properties and the refinements for every
  value of the constants.

How to run: `tlc -config X.cfg M` for each run of section 3, `tlapm M.tla` for each
module of section 5.

## 1. Inventory

| part | source | state it keeps | operations |
|---|---|---|---|
| SPT, the sub-partition table | `src/libRSU_ops.c` | two copies in flash (SPT0, SPT1), one in memory, `spt_corrupted` | load_spt, check_spt, writeback_spt, partition_*, restore_spt_*, save_spt_* |
| CPB, the configuration pointer block | `src/libRSU_ops.c` | two copies in flash (CPB0, CPB1), one in memory, `cpb_corrupted`, `cpb_fixed` | load_cpb, check_cpb, update_cpb, writeback_cpb, priority_*, empty_cpb, restore_cpb_*, save_cpb_* |
| library context and API | `src/libRSU.c` | `ctx.state`, one mutex, the interface pointer | librsu_init, librsu_exit, rsu_slot_*, rsu_*_spt, rsu_*_cpb |
| program and verify pipeline | `src/libRSU_cb.c` | position in the slot, a 4 kB block, the callback | librsu_cb_program_common, librsu_cb_verify_common |
| image processing | `src/libRSU_image.c` | sections found so far, the original signature block | librsu_image_block_init, _process |
| configuration file | `src/libRSU_cfg.c` | write protected slots, log level, SPT checksum switch | librsu_cfg_parse, librsu_cfg_writeprotected |
| names and slot numbers | `src/libRSU_misc.c`, `libRSU_utils.c` | none | is_rsvd_name, is_slot, slot2part, swap_bits |
| status, notify, DCMF | `src/libRSU.c`, `libRSU_ops.c` | none | rsu_status_log, rsu_notify, rsu_dcmf_* |
| QSPI driver | `platform/linux-aarch64/dependency/rsu_qspi_ops.c` | an open MTD device | read, write, erase |
| mailbox, sysfs, files, CRC, OSAL, logging | `platform/...` | file handles | wrappers |
| client | `linux-example/rsu_client.c` | none | one library call per option |

How they interact. A call of `libRSU.c` checks `ctx.state`, takes the mutex for
its whole length, checks `spt_ops.corrupted()` and `cpb_ops.corrupted()`, turns
the slot number into a partition number by the SPT in memory, and calls one or
several functions of `libRSU_ops.c`. Those change the table in memory, write it to
both copies in flash through the driver, and load it again, which may repair a copy.
`restore_spt_*` reloads the CPB; `load_cpb` checks its pointers against the SPT.
The pipeline calls the user's callback with the mutex held, and ends with
`priority.add`. The firmware reads both tables at boot and reports which CPB copies
were bad.

What is hard.
- Crashes: power may fail, and the process may die, between and inside any two
  flash operations, in the repair of an earlier crash too.
- Errors: each read, erase and write may fail half way; some callers reload the
  table then, some leave memory ahead of flash.
- Stale state: memory against flash between calls; SPT1's or SPT0's content in
  memory between the checks of load_*; the firmware's report after a restart
  without a reboot; slot numbers after a delete.
- Full tables, compression of the CPB, closing the gap in the SPT.
- Partial data: a bitstream may come in pieces of any size, end early, meet what an
  earlier attempt left in flash, or be cut short.
- Threads: one mutex, but `ctx.state` is read without it and `librsu_exit`
  destroys it; two calls hold it twice, with a gap.
- Undoing: five stages of librsu_cfg_parse, each undone by hand.

What makes the parts correct.
- SPT and CPB: one copy survives everything; loading finds the table from before
  or from after an interrupted edit, never a third; memory is what flash holds
  between calls; the table is called corrupted only with a cause; calls return;
  seen from outside, the table is a durable list changed one edit at a time.
- SPT: valid tables (no overlap, no name twice, the critical partitions) stay
  valid; an edit of slot n reaches slot n.
- CPB: an enabled slot has priority one; compression keeps every live entry in
  order; a slot is listed once.
- SPT with CPB and data: no pointer to a partition that is gone; what is listed is a
  whole bitstream; a call changes the data of the slot its caller meant and of no
  protected one.
- Pipeline and image: a slot is in the CPB only when its data was written, relocated
  and read back; verifying finds no difference where there is none.
- Context: no section runs in a library that is not set up or already torn down;
  nothing is left behind by a failure; status calls see one instant and change what
  they are for.

## 2. Modules

| module | what it is |
|---|---|
| `Durable` | abstract specification: a value changed one edit at a time that survives stops, or is refused, or is lost |
| `NorFlash` | what erasing and programming do to flash words, done or torn |
| `Cpb` | the pointer block: load_cpb, update_cpb, writeback_cpb, priority_*, empty_cpb, restore_cpb_*, and the calls that reach them |
| `CpbImplements` | refinement mapping: `Cpb` implements a durable boot order |
| `CpbInvariant` | the inductive invariant of `Cpb` |
| `CpbSafety`, `CpbList` | proofs: lemmas, type correctness, the invariant and its consequences; the list of slots, what rsu_slot_enable makes of it, and the refinement of `Durable` |
| `Tables` | partition tables as values: check_spt, slot numbers, create, delete and rename |
| `TablesProofs` | proofs: what these return, that they keep a valid table valid, and that slot numbers and names find what they stand for |
| `Spt` | the partition table in flash and memory: load_spt, writeback_spt, partition_*, restore_spt_* |
| `SptImplements` | refinement mapping: `Spt` implements a durable numbered list of slots |
| `SptInvariant` | the inductive invariant of `Spt` |
| `SptSafety` | proofs: lemmas, type correctness, the invariant and its consequences, the refinement of `Durable` |
| `Image` | libRSU_image.c: the walk over the blocks of a bitstream, and the definition over the whole bitstream it should agree with |
| `Program` | libRSU_cb.c and the calls of libRSU.c that use it: data sources, programming, verifying, one slot |
| `ProgramInvariant`, `ProgramProofs` | its inductive invariant; proofs about the state machine of `Image`, for every bitstream, and about `Program` |
| `Slots` | the composition: every slot call of libRSU.c on both tables and all slots' data |
| `SlotsInvariant` | the inductive invariants of `Slots` |
| `SlotsImplements` | refinement mapping: the partition table of `Slots`, with a history of what is being installed, implements `Durable` too |
| `SlotsSafety`, `SlotsImages` | proofs: the right slot, write protection and where the pointers lead; the data of what is listed, what callers see, and the refinement of `Durable` |
| `Lifecycle` | librsu_init and librsu_exit, the mutex, the configuration, messages to the firmware, with several threads |
| `LifecycleInvariant`, `LifecycleProofs` | its inductive invariant, and the proofs |
| `MCCpb`, `MCSpt`, `MCProgram`, `MCSlots`, `MCLifecycle` | constants of the runs |

How they fit together. `Cpb` and `Spt` are at the grain of one flash operation, with
two copies of their table. `Slots` takes one update of a table as one step, which
leaves the old or the new table, possibly cut short: that is what the refinements of
`Durable` and `SettlesOnOldOrNew` say of the two. The partition table of `Slots` keeps the
same promise: `Spt` flash operation by flash operation (`KeepsSlotList`, for the list of
slots) and `Slots` update by update (`KeepsTable`, for the table itself, across the calls
that also work on data and pointers) implement the same `Durable`. `Program` shows block by block how
a slot's data comes to be, which `Slots` takes for one pass that may stop anywhere.
`Tables` is shared by `Spt` and `Slots`. `Lifecycle` has the calls of the others as
single steps under the mutex, and shows that they are alone there.

### `Cpb` and `Spt`

Both machines are at the grain of one flash operation per step; everything between
two flash operations is part of the step. The code is sequential under the mutex, so
that nothing else can happen there but a stop.

| variable | code |
|---|---|
| `flash` | the content of the two copies |
| `cpb` / `spt` | `plat_database->cpb` / `->spt` |
| `corrupted`, `fixed` | `cpb_corrupted` or `spt_corrupted`, `cpb_fixed` |
| `fw` (Cpb) | the firmware's report on the CPB copies, as old as the last boot |
| `pc` | where the library is: `down`, `idle`, `check` (about to run load_*), `erase`, `body`, `magic` (about to do that write of writeback_* or of a repair), `write` (update_cpb), `remove`, `add` (priority_*) |
| `job`, `todo` | the function that writes, and the copies it has still to write |
| `call` | the API call and what it is going to return |

History variables, which no guard of a code action reads: `committed`, the table
the flash holds; `target`, the one being written; `interrupted`, a write was cut
short since the table was whole; `trusted`, nothing has happened that two copies
cannot protect from. In `Cpb` it is a variable, in `Spt` it is `committed # Lost`.
Trust ends when a flash error leaves memory ahead of flash and a further call builds
on it, when a table is replaced while it is corrupted, or when a replacement is not
a valid table. The code gives no guarantee there, and where the documents promise
one, a violation run shows the difference (section 4). In `Cpb` trust returns with
a complete replacement, in `Spt` with any successful load.

`Open` is librsu_init's rsu_qspi_open; `Stop` is librsu_exit or the death of the
process; `PowerCycle` and `PowerFails` cut power, also in the middle of a flash
operation. A torn program of the CPB clears any subset of the bits it should
(`TornProgram`); a torn erase leaves any member of `HalfErased`. In the SPT every
write goes over an erased copy, and a torn body or magic number is as good as none.
An error that an operation reports leaves the same outcomes as a power failure.

### `Image` and `Program`

A block is two halves: the front has the data and the magic number, the tail the
section pointers and the CRC. `Image` translates librsu_image_block_process as a state
machine over blocks (`ImageInit`, `BlockProcess`, `SigBlockAccepted`,
`SigBlockExpected`), and states beside it, over the whole bitstream, which blocks are
signature blocks (`Signatures`) and what the slot should hold (`Relocated`).

| variable of `Program` | code |
|---|---|
| `flash`, `listed` | the slot's halves in flash; the CPB has its pointer |
| `pc` | where the loop of librsu_cb_program_common or librsu_cb_verify_common is |
| `stream`, `offset`, `cnt`, `done` | the source's data, the position, the fill of the block, the source's end |
| `state`, `buf`, `vbuf` | struct rsu_image_state and the two block buffers, which malloc does not clear |
| `content` | history: the data the slot was listed with |
| `faults` | how often flash was cut short since the slot was last erased |

The three sources differ in what they may return (`BufChunks`, `FileChunks`,
`CallbackChunks`). A block is filled, processed, written, read back, compared; the
slot is listed after the last one. Data that meets older data, or was cut short, is
`Garbled`, which may or may not read back as expected.

### `Slots`

| variable | code |
|---|---|
| `table`, `pointers`, `data` | the two tables and the slots' data in flash |
| `sptTorn`, `cpbTorn` | an update of that table was cut short, so that its copies may differ |
| `spt`, `cpb`, `loaded`, `sptCorrupted`, `cpbCorrupted` | `plat_database`; `loaded` is that `cpb_slots` points into a CPB |
| `up` | the library is initialized |
| `call`, `todo` | the call in progress with its slot, partition and table, and the steps it has still to do |
| `known`, `vouched`, `guarded`, `checked` | history: the table callers know, the pointers that a caller listed on its own word, the units that write protection covers, no table in use failed check_spt |

A call's action has the checks of the function in libRSU.c, in order, and leaves the
steps it takes next in `todo`: rsu_slot_delete is `remove`, `erase`, `edit`. Each step
has an action for success and one for failure; a call that fails does nothing more.
`Crash` may come before or within any step. The getters, rsu_slot_copy_to_file and
the save calls are operators (`SlotGetInfo`, `SlotByName`, `CopyToFile`, `SaveSpt`).

`vouched` draws the line of what the library answers for: a pointer is a caller's
own from when the caller enables the slot, restores a table, or adds to the CPB after
an edit of the SPT has failed, to when the pointer is gone from flash and memory.

`SlotsImplements` adds one more history variable to `Slots`, `target`: the table that the
update in progress installs, or that the one cut short by a crash was to install; None
when an update failed and the library went on (memory is ahead of flash then), when a
table was written over a corrupted one, or when the one installed does not pass check_spt.
`TrackedSpec` is `Init` and `Next` of `Slots` with `Track`, which says what becomes of
`target` in each step and has no guard.

### `Lifecycle`

Each thread has a `pc`: the stages of librsu_init (`hal`, `log`, `mailbox`, `qspi`,
`misc`, `common`, `tables`), those of librsu_exit and of a failed init (`exit`,
`close`, `undo`), and those of a call (`lock`, `locked`, `reading`, `read`, `relock`,
`clearing`). `state`, `mutex`, `hal`, `database`, `logType`, `logFile`, `mailboxDev`,
`miscDev`, `root` and `devFile` are the static variables of the code by the same or a
telling name; `firmware` is what the firmware's attributes in sysfs say, `seen` the
history of them since a thread began to read. A message has a stage and the two flags
of rsu_clear_error_status and rsu_reset_retry_counter.

## 3. Runs

| run | constants | what it shows |
|---|---|---|
| `cpb_crash` | 3 entries, 2 slots whose offsets differ in one bit, a good and a stale backup, half erased copies that pass the checks and that fail each | with power failing and the process dying everywhere: survival, agreement of memory, a cause for corruption, enabled is highest, a well-formed list, settling on old or new, refinement of `Durable`, calls return |
| `cpb_errors` | 2 entries, offsets with no bit in common, CPB1 first, all errors | the inductive invariant (and with it survival), agreement, refinement, with flash errors added |
| `spt_crash` | 7 partitions, 5 of them fixed, 2 names, 4 extents of which two overlap others and one is empty, 4 backups of which three are bad | survival, agreement, a cause for corruption, settling on old or new, edits of the slot asked for, refinement of `Durable`, calls return |
| `spt_errors` | 6 partitions, SPT1 and a slot before SPT0, checksums, all errors | the inductive invariant, survival, agreement, refinement |
| `program` | a slot of 4 blocks, 6 bitstreams (to relocate, absolute, half a block at the end, half a block, too large, empty), all errors, one access to flash cut short between two erasures | what is listed is the relocated bitstream, success means a match, a verify accepts what was programmed, listed data is stable, calls return |
| `slots` | 7 partitions, 2 slots with a reserved name between them, the second protected and listed; 2 extents, 2 SPT backups and 2 CPB backups of which one each does not fit; 2 pointers; one fault | pointers lead to slots, listed slots hold whole bitstreams, callers see what is in flash, an edit reaches the slot meant, protected data is kept; with `TrackedSpec`, the partition table implements `Durable` |
| `lifecycle` | 2 threads, 3 configuration files (full, empty, wrong), 2 stages, 2 retry counts, firmware with all features | exclusive sections in a library that is set up, nothing left behind, devices agree, the status is a snapshot, messages change what they are for, sections end |
| `cpb_listed`, `cpb_blocked`, `spt_checksum`, `program_pointer`, `lifecycle_exit` | as the above | disagreements of code and documents, section 4 |

Bounds. No run bounds the number of calls. In `cpb_*` and `spt_*` nothing bounds
crashes or errors either: the state spaces are finite. Three CPB entries are the
fewest with which an entry can be live, spent and erased at once and a compression has
something to move; with two slots the list has all its shapes, since a slot is listed
at most once. Two bits would do for the pointers of `cpb_errors`; the third bit of
`cpb_crash` is for a pointer to no partition. The SPT has room for two slots beside
the fixed partitions, so that numbers shift, the table is full and names collide.
`BoundedFaults`, an action constraint of the two CPB runs, lets flash operations be
done or not done, but not torn, while the CPB is not trusted: no property says
anything of those states, and the CPB leaves them only through a replacement, which
writes both copies anew. `spt_*` need no constraint.

In `program`, four blocks hold two sections with a signature block each, the first of
which says where the second begins. `MaxFaults` = 1 bounds the accesses to flash cut
short since the last erasure, so that one attempt may go over what another left; a
call may be repeated on it without end. `WalkFindsSignatures`, an assumption of
`MCProgram` that TLC evaluates, compares the walk with the definition over the whole
bitstream for every image of four blocks with sections anywhere.

In `slots`, two slots are the fewest for which deleting one changes the number of the
other, and the protected number then belongs to nobody or to a new slot. `MaxFaults`
= 1 lets one thing go wrong in a whole behaviour; the calls after it may go wrong
through what it left behind, and that is where the hard cases are. With `MaxFaults` = 2
the same properties hold in 6.8 million states, which takes longer than a run should.
What has been proved of `Slots` (section 5) has no such bound. In `lifecycle`, two threads are
enough: the mutex has one holder, and librsu_init is alone but for calls that come
back at once.

Fairness. `FairSpec` of `Cpb`, `Spt` and `Program` is weak fairness of `Step`, the
steps of a call the library is in: the thread that runs it holds the mutex and waits
for nobody but a callback, whose contract is to come back, and the OS schedules it.
That of `Lifecycle` is weak fairness of each thread's steps; it does not make a mutex
fair, and `SectionsEnd` does not need it to be. Callers, crashes and errors owe
nothing. A stop, a crash or `Boot` may end any call, and the properties say so. None
of the machines may deadlock: a library that is down can be opened.

Every property of a passing run has a mutant, an operator beside the definition it
changes ("Mutant of ..."), with which TLC finds it violated: both copies erased at
once, a repair from the wrong copy, a loop that ends or starts one off, an error
ignored, a missing overlap check, a pointer that stays when its slot is deleted, half
of a block not compared, a mutex kept on an error path.

## 4. Where documents and code disagree

Each with a run that shows it.

- `cpb_blocked`: the comment above load_cpb says that a corrupted CPB blocks all CPB
  operations but restore_cpb and empty_cpb; rsu_slot_program_callback does not look.
- `cpb_listed`: the header says that rsu_slot_program_buf enters the slot into the
  CPB. After rsu_create_empty_cpb failed in an erase, memory has an empty table,
  flash the old one; the next program call writes its pointer over an old entry and
  returns 0, and what is in flash is the AND of the two.
- `spt_checksum`: writeback_spt calculates the checksum over memory as it is. When an
  earlier write of a body failed, memory has 0xFFFFFFFF for the magic number, and the
  first copy of the next edit gets a checksum that check_spt rejects.
- `program_pointer`: sig_block_adjust, by its comment, "checks that the section
  pointers are consistent"; it compares them as signed numbers (libRSU_image.c:160), so
  that in an absolute image a pointer to flash in front of the slot is accepted.
- `lifecycle_exit`: the header says that librsu_exit cleans up internal data.
  RSU_logging_exit closes the log file but leaves `rsu_log_type` at RSU_FILE; after a
  librsu_init with a file that does not say where the log goes, nothing is logged, and
  the next librsu_exit calls fclose with a null pointer.

Met while modelling, without a run of their own:

- The comments above load_cpb and load_spt say "If they both pass checks, use CPB0
  [SPT0]". Both pass and differ after a power failure between the writes of the two
  copies. The code then calls the table corrupted, and refuses every call until a table
  is restored. `CorruptedHasCause` shows that nothing but an interruption (or the
  firmware's report) leads there; `Slots` has it as `LoadSptCorrupted` and
  `LoadCpbCorrupted`.
- A read error of a file counts as its end (`FileChunks`): the part that was read is
  programmed and listed, and the call returns 0. `SuccessMeansMatch` makes an exception
  for files.
- A last block that ends early is compared whole in a verify; the rest of the buffers
  is what was there before (`Seen`). `VerifyAcceptsProgrammed` is about whole blocks.
- A bitstream with more sections than MAX_SECTIONS is programmed with a signature
  block that is not relocated; the properties say `FewSections` where it matters.
- The retry of a failed rsu_slot_delete works on the slot behind, since memory has the
  edit that flash may not have. `EditsSlotMeant` says `known = spt` for this.
- rsu_restore_spt_* installs overlapping slots, and rsu_restore_cpb_* pointers to
  nowhere (`checked`, `vouched`).
- qspi_file keeps the root device of an earlier configuration, a line that cannot be
  taken ends librsu_common_cfg_parse and librsu_init goes on with the slots protected
  so far (`SetupCommon`), put_devattr writes to DEFAULT_RSU_DEV whatever device is
  configured (`OpenTables` succeeds only where the two agree), and plat_database is
  freed but not reset on three early errors (`database` = "freed"), so that later calls
  of librsu_init fail.

## 5. Proofs

For every number of entries, word width, set of offsets, partition order, set of
backups, content of half erased copies and set of reported errors (`Cpb`); for
every set of names and requests, provisioned valid table, table size, set of
backups, half erased content and errors, with and without checksums (`Spt`); for every
set of names, requests and backups, provisioned table, pointers it comes with, number
of pointers, set of protected numbers and number of faults (`Slots`); for every slot,
set of bitstreams, length of the list of sections, set of errors and number of faults
(`Program`); for every set of threads, configuration files, stages, retry counts and
firmware features (`Lifecycle`):

| theorem | statement |
|---|---|
| `CpbSafety!TypeCorrect`, `SptSafety!TypeCorrect` | `Spec => []TypeOK` |
| `Invariance` of `CpbSafety`, `SptSafety`, `SlotsSafety`, `ProgramProofs` and `LifecycleProofs` | `Spec => []IInv` |
| `CpbSafety!CopySurvives`, `SptSafety!CopySurvives` | `Spec => []OneCopySurvives` |
| `CpbSafety!MemoryAgrees`, `SptSafety!MemoryAgrees` | `Spec => []MemoryMatchesFlash` |
| `CpbSafety!SettlesRight`, `SptSafety!SettlesRight` | `Spec => SettlesOnOldOrNew` |
| `CpbSafety!CorruptionCaused`, `SptSafety!CorruptionCaused` | `Spec => []CorruptedHasCause` |
| `CpbList!ListInvariance`, `ListSafe`, `EnabledFirst` | `WellFormedBackups` implies `Spec => []` of `ListInv`, `ListWellFormed`, `EnabledIsHighest` |
| `CpbList!KeepsBootOrder` | `WellFormedBackups` implies `Spec => ImplementsBootOrder` |
| `SptSafety!KeepsSlotList`, `EditsTheSlot` | `Spec => ImplementsSlotList`, `Spec => EditsSlotAskedFor` |
| `TablesProofs!CreateKeepsValid`, `DeleteKeepsValid`, `RenameKeepsValid` | an edit, under its guards, makes a valid table of a valid one |
| `SlotsSafety!SlotMeant`, `ProtectedKept` | `Spec => EditsSlotMeant`, `Spec => ProtectedDataKept` |
| `SlotsSafety!MenuInvariance`, `MenuSafe` | `Spec => []MenuInv`, `Spec => []MenuPointsToSlots` |
| `SlotsImages!ImageInvariance`, `ImagesSafe` | `Spec => []ImageInv`, `Spec => []ListedHasImage` |
| `SlotsImages!SeenInvariance`, `CallersSafe` | `Spec => []SeenInv`, `Spec => []CallersSeeFlash` |
| `SlotsImages!TrackInvariance`, `KeepsTable` | `TrackedSpec => []TrackInv`, `TrackedSpec => ImplementsTable` |
| `ProgramProofs!WalkFindsThem`, `WalkRelocates` | for every bitstream whose sections fit in the list: the state machine finds its signature blocks, and makes `Relocated` of it |
| `ProgramProofs!ListedSafe`, `ListedStable` | `Spec => []ListedIsRelocated`, `Spec => ListedDataStable` |
| `ProgramProofs!SuccessMatches`, `VerifyAccepts` | `Spec => SuccessMeansMatch`, `Spec => VerifyAcceptsProgrammed` |
| `LifecycleProofs!SectionsSafe`, `NothingLeft`, `DevicesConsistent`, `StatusSnapshot` | `Spec => []` of `SectionsAreSafe`, `NothingLeftBehind`, `DevicesAreConsistent`, `StatusIsSnapshot` |
| `LifecycleProofs!ChangesOwned` | `Spec => CallsChangeTheirOwn` |

Assumptions: those the modules name (`...Assumption`): offsets are neither erased
nor spent words, the magic number is not erased flash, slot names are not reserved,
the provisioned table is valid and the pointers a board comes with lead to its slots, no
two to the same one, requested slots are not empty and no partition of a provisioned or
saved table is (`Slots`), backups of an SPT name the critical partitions (`Slots`),
bitstreams are sequences of blocks and halves as `IsBitstream` describes them
(`Program`), `None` is no table (`SlotsImplements`), and the types of the other constants. The theorems about the list say
`WellFormedBackups`, which is no assumption of the module: rsu_restore_cpb_* takes any
file with a good checksum, and one that has a slot twice, or an erased entry below a
written one, is installed as it is. rsu_save_cpb_* saves no such file of a list that has
come about by the library's calls; that is what the theorems show.

The argument for `Cpb` and `Spt`. `OneCopySurvives` is not inductive: that the other
copy is good when one is erased depends on which copies the function has written, on
what memory holds and on whether the copies agreed when it began. `IInv` says it for
each function that writes. `Updating` (CPB only): clearing bits, first copy first,
so that a torn copy is between old and new. `WritingBack`: a copy that is done
equals memory; the one being written is erased, then complete but for the magic
number, and thus rejected. `WritingBackSafely`: a copy that was not reached holds the
old table. `Repairing`: the other copy is the good one, and memory is its content.
`Whole` and `Agreeing` say what holds when nothing is being written, which is what
the next edit needs to start from. Each step gets a lemma; its core is
`OtherCopyIntact`, that the copy which is not being written is good, from which
survival follows whatever the operation leaves of the copy it works on
(`StaysRecoverable`). In `Spt` the validity lemmas give that the table an edit
writes is accepted by the load that follows.

The list of slots (`CpbList`). Between the removal and the addition of
rsu_slot_enable lies a load, which may repair a copy, and after the addition lies
another. `ListInv` follows the pointer through them: it is not in the table being
written after the removal (`AddedOnce`), it comes first in the one written by the
addition (`AddedFirst`), and when the load begins both copies hold that table
(`EnablePlan`), so that it finds no other. That an update keeps the list well-formed is
`SpendList` and `AddList`; for compression (`CompressedList`), that ranks number the live
entries from one without a gap (`RankFacts`).

The refinements. `Durable` is in one of its modes (`Mode`) by what the library is doing
and whether it can still protect its table; `MappedNow` and `MappedNext` say what that
means of the mapped variables before and after a step. Every action of `Durable` then
has a lemma that says which concrete steps are that action (`Boots`, `Halts`, `Settles`,
`Refuses`, `Loses`, `Recovers`, an edit, a replacement), and every concrete action is
put under one of them by the inductive invariant: `Whole` gives that a call starts from
what flash holds, `Caused` that no edit runs on a table the library has called corrupted,
`ReplacedBy` that the table installed over a lost one is the one asked for,
`Reloading` that the load after an edit finds the table whole. What is left is what an
edit of the table does to the list. For the pointer block (`SpendOrder`, `AddOrder`,
`CompressedOrder`): spending an entry removes the one in its place and moves up those
behind it, a new entry gets the first place, and compression leaves every entry its
place. For the partition table (`AppendedSlots`, `WithoutSlots`, `RenamedSlots`): places
count slots only, so that create, delete and rename do to the list what they do to the
table whatever reserved partitions lie between; and a valid table has the critical
partitions beside its slots, which is why the list stays below `Capacity` (`RoomLeft`).
`KeepsBootOrder` needs `WellFormedBackups`, since in a list with an erased entry below a
written one the new entry would not be the first.

The argument for `Slots`. A step relies on checks that its call made when it began:
`PlanFits` says which steps can follow which, `CallFits` that the partition a data step
works on is still the slot the caller named, not protected, in a table not corrupted,
and that an edit still to be done keeps the table valid. `Covered` says that what is
guarded lies in slots whose numbers are protected now. Since slots of a valid table do
not overlap (`SlotsApart`) and numbers tell slots apart, a data step on a slot that is
not protected stays clear of what is guarded; and the units it changes are in the
slot of that number, in the table callers know.

Where the pointers lead is not inductive by itself: the table in flash follows the one
in memory, and that one follows an edit still to be done. `MenuFits` says it of both
tables for the pointers in flash and in memory (those in memory get to flash by the
next update), `MenuKept` of the table an edit will write. rsu_slot_delete makes its
table from before it removes the pointer, so `MenuKept` makes an exception for the
slot whose pointer is about to be removed first; that one removal is enough is
`ListedOnce`, and that priority_remove takes out the pointer it finds is `RemovedFacts`.
`ListedOnce` holds because rsu_slot_program_* looks at the priority before it begins
(`NotListed`), and because rsu_slot_enable removes before it adds.

That there is a bitstream where the pointers lead (`ImageInv`): each place has a slot of
the same length in the table in flash, in the one in memory and in the one an edit will
write (`ImagesWhole`), so that in a valid table no other partition reaches it
(`FillsApart`); what a call changes is not listed meanwhile (`Unlisted`), which for an
erasure is so only once its first step has removed the pointer; and what is about to be
listed has been written (`Written`). `MemoryHasAll` makes the last one go through: a call
decides by memory, and memory knows every pointer in flash that the library answers for.
`SeenInv` is why callers see flash: the tables in memory are those in flash unless an
update was cut short, and no partition is empty, so that places tell partitions apart.
The copies (`CopyToFile`, `CopyToBuf`) are recursive over the chunks; `TrimmedFile`
says what they hold.

The refinement of `Durable` by `Slots`. A call checks its arguments against the table in
memory, perhaps many steps before it writes: `TrackInv` says that the edit still to be
done is one of the table in memory, and `SeenInv` that this is the table in flash, so that
what is installed is an edit of what was there. An update that a crash cuts short keeps
`target`, so that flash has the table before or after it and the next open either refuses
to serve or settles on it; one that fails while the library goes on loses `target`, and
only a table that passes check_spt, installed or found, makes the value known again.
Everything else a call does, on data and on pointers, is a stutter (`QuietTracks`).

The argument for `Program`. `Relocated` is defined over the whole bitstream, and the
code goes through it block by block, with a list of sections and a flag in its state. So
the invariant compares flash with `Walk`, what the state machine makes of each half of
a block: `StateInv` says that the machine is where it would be in front of the
current block, `BufferInv` that the buffer is that block, raw or as the machine leaves
it, `BehindInv` that flash behind the loop is what it should be, and `SlotInv` keeps
that for the slot once it is listed. `WalkRelocates` is a theorem about bitstreams
alone: by induction over the blocks the list holds the sections of the signature blocks
in front (`StatesAre`), so that a block is recognized exactly when it is one
(`WalkFindsThem`).

Induction. The library's induction theorems have operators for parameters, which none of
the provers instantiates. Where a proof needs one it is said of a set: the numbers for
which a statement fails, if there are any, have a least one (`LeastExists`), or a set of
numbers with zero that has the successor of each member has them all (`AllNats`, `UpTo`).
With that the recursive functions of `Image` and `Slots` are shown to exist and to be
what they say; there is no RECURSIVE operator in the project. The lists of the
refinements are not built by recursion either: entry k is the one in k-th place, and the
place is a cardinality.

The argument for `Lifecycle`. `MutexHeld` ties the holder to the sections, `Alone` and
`StateFits` say who can be in the library at which of its states, `StagesFit` what each
stage of librsu_init finds, from which follows that an error undoes all of it.
`ReadingFits` says that what a thread has read of the status so far is still so, since
messages need the mutex too.

Only model-checked: `CallsReturn` and `SectionsEnd`, since liveness under fairness is out
of the prover's reach. Every other property of a passing run is proved. `IInv` of `Cpb`
and of `Spt` is an invariant of a run as well; the other invariants were checked on the
constants of the runs before they were proved.

Also outside the proofs: that the grain of `Slots` is right. That `Spt` and `Slots` both
implement `Durable` shows that they keep the same promise, not that every behaviour of the
one is one of the other; that an update of a table may be one step in `Slots` is an
argument from the refinements. For the pointer block `Slots` has no refinement of its own:
rsu_slot_enable makes two updates in a row that no caller can tell apart but a crash can,
which `Durable` has no step for; `KeepsBootOrder` has them at the grain of `Cpb`. The same
goes for one pass over a slot's data, from `Program`. The values of the CRC, the checksum
and the firmware's report are what the modules say they may be.

## 6. Not modelled

- Discipline the library leaves to callers: librsu_init and librsu_exit not at the same
  time, librsu_exit not during a call, no call of the library from a data callback
  (which would wait for its own mutex). `Lifecycle` takes it for granted.
- The command line client, one library call per option, and the unit tests.
- CRC (zlib), string helpers, log levels and formatting, memory allocation but for its
  failure where that matters, and the text of the configuration file and of attributes.
- The loops of the QSPI driver that split a read, write or erase; `NorFlash` has what
  they leave. The Zephyr platform layer: only its build files are in this repository.
- In `Spt` and `Slots`: addresses that wrap around 2^64, names that differ only in
  the last byte, tables whose SPT0 entry is not where the firmware says.
- In `Cpb`: header fields beyond the magic number; they are one bad header. In `Slots`
  the CPB is the list of its pointers: spent entries and compression are in `Cpb`.
- In `Program`: write protection and corrupted tables (in `Slots`), pointers inside a
  block.

## 7. Plan

1. `Cpb`, `Spt` and their refinements: done and proved but for liveness.
2. `Slots`, the composition with the data: done and proved.
3. `Image` and `Program`: done; proved but for liveness.
4. `Lifecycle`: done; proved but for liveness.
5. Proofs: every safety property of a passing run is proved, and so are the refinements of
   `Durable` by `Cpb`, `Spt` and `Slots`. What could be added: a refinement of the table
   steps of `Slots` by `Spt` and `Cpb`, so that the change of grain is a theorem, and
   the same for a slot's data and `Program`.
