-------------------------------- MODULE Spt --------------------------------
(***************************************************************************)
(* The sub-partition table (SPT): which partitions the flash has, kept     *)
(* twice in flash (SPT0 and SPT1) and once in the library's memory.        *)
(* Models libRSU_ops.c's load_spt, check_spt, writeback_spt, partition_*   *)
(* and restore_spt_* and the libRSU.c calls that reach them, at the grain  *)
(* of one flash operation per step.                                        *)
(*                                                                         *)
(* Abstractions.                                                           *)
(*  - A copy is its magic number and checksum, right or not, and its       *)
(*    table (see Tables).  Whether a table carries a checksum (its version *)
(*    and the configuration file decide) is the constant Checksums.        *)
(*  - Every write goes over an erased copy, so that no bits are left over  *)
(*    from an older table; a body or a magic number that was written in    *)
(*    part is as good as none, because no write follows it.                *)
(*  - SPT0 and SPT1 are where the firmware says they are, also in the      *)
(*    tables that are restored.                                            *)
(*  - A call that fails its first checks changes nothing and has no        *)
(*    action.  rsu_slot_delete starts where its slot is out of the CPB and *)
(*    its data erased; write protection only refuses calls.                *)
(***************************************************************************)
EXTENDS Tables

CONSTANTS
  Provisioned,    \* the table of a new board
  Requests,       \* offset and length of the slots callers create
  Backups,        \* the tables rsu_restore_spt may be given (CRC and magic correct)
  Checksums,      \* version > SPT_VERSION and librsu_cfg_spt_checksum_enabled()
  HalfErased,     \* what a copy may read as after an erase that stopped half way
  IoErrors        \* the flash operations that may report an error

Copies == {"SPT0", "SPT1"}
Other(c) == CHOOSE d \in Copies : d # c
Content == [magic : BOOLEAN, sum : BOOLEAN, table : Table]

-----------------------------------------------------------------------------
(* Copies in flash *)

Passes(content) ==
  /\ content.magic
  /\ Checksums => content.sum
  /\ CheckSpt(content.table)

\* An erased copy has 2^32 - 1 partitions, which no check accepts.
Blank == [magic |-> FALSE, sum |-> FALSE, table |-> <<>>]

ASSUME ProvisionedAssumption == Provisioned \in Table /\ CheckSpt(Provisioned)
ASSUME RequestsAssumption == Requests \subseteq [offset : Nat, length : Nat]
ASSUME BackupsAssumption ==
  \A b \in Backups : b \in Table /\ Len(b) <= MaxPartitions
ASSUME ChecksumsAssumption == Checksums \in BOOLEAN
ASSUME HalfErasedAssumption == HalfErased \subseteq Content
ASSUME IoErrorsAssumption == IoErrors \subseteq {"read", "erase", "write"}

VARIABLES
  flash,      \* contents of SPT0 and SPT1
  spt,        \* plat_database->spt
  corrupted,  \* plat_database->spt_corrupted
  pc,         \* what the library does next
  job,        \* the function the flash operations belong to
  todo,       \* the copies this function has still to write
  call,       \* the API call and its result so far
  committed,  \* history: the table the SPT holds
  target,     \* history: the table being written, committed when none is
  interrupted \* history: a write to flash was cut short since the SPT was whole

memory == <<spt, corrupted>>
control == <<pc, job, todo, call>>
history == <<committed, target, interrupted>>
vars == <<flash, spt, corrupted, pc, job, todo, call,
          committed, target, interrupted>>

-----------------------------------------------------------------------------
(* What one flash operation does *)

IndexOf(t, name) == CHOOSE x \in DOMAIN t : t[x].name = name

\* writeback_spt goes through the table in memory.
FirstOf(copies, t) ==
  CHOOSE c \in copies : \A d \in copies \ {c} : IndexOf(t, c) < IndexOf(t, d)
Copy == FirstOf(todo, spt.table)

\* The checksum writeback_spt puts into memory: right if memory holds the magic
\* number the copy will have.  load_spt's repair keeps what it read.
Sum == IF Checksums /\ job = "writeback_spt" THEN spt.magic ELSE spt.sum

Outcome(old) ==
  IF pc = "erase" THEN Blank
  ELSE IF pc = "body" THEN [magic |-> FALSE, sum |-> Sum, table |-> spt.table]
  ELSE [old EXCEPT !.magic = TRUE]
TornOutcomes(old) ==
  {old, Outcome(old)} \cup (IF pc = "erase" THEN HalfErased ELSE {})

InFlight == pc \in {"erase", "body", "magic"} /\ todo # {}

-----------------------------------------------------------------------------
(* Ends of a call *)

Idle == pc = "idle"
Return(result) == pc' = "idle" /\ call' = [call EXCEPT !.result = result]

\* load_spt returned 0.
Proceed == Return("ok")

\* load_spt set spt_corrupted: librsu_init still succeeds, other calls fail.
ReportCorrupted ==
  /\ corrupted' = TRUE
  /\ Return(IF call.op = "open" THEN "ok" ELSE "fail")

\* An error that sets no flag: librsu_init closes the library again.
Abort ==
  /\ pc' = IF call.op = "open" THEN "down" ELSE "idle"
  /\ call' = [call EXCEPT !.result = "fail"]

\* History: the library takes the table t; something happened that the copies do
\* not protect from.
Settle(t) == committed' = t /\ target' = t
Lost == <<>>
Lose == Settle(Lost)
trusted == committed # Lost

\* The copies protect an edit that starts when both are whole.
Begun(t) ==
  IF trusted /\ ~corrupted /\ ~interrupted
  THEN target' = t /\ UNCHANGED committed
  ELSE Lose

-----------------------------------------------------------------------------
(* load_spt: SPT1 is read first, then SPT0, both into spt *)

Passing == {c \in Copies : Passes(flash[c])}

LoadMatched ==
  /\ pc = "check" /\ Passing = Copies
  /\ flash["SPT0"] = flash["SPT1"]
  /\ spt' = flash["SPT0"]
  /\ Settle(flash["SPT0"].table)
  /\ interrupted' = FALSE
  /\ Proceed
  /\ UNCHANGED <<flash, corrupted, job, todo>>

LoadUnmatched ==
  /\ pc = "check" /\ Passing = Copies
  /\ \/ flash["SPT0"] # flash["SPT1"] /\ UNCHANGED <<committed, target>>
     \/ "read" \in IoErrors /\ Lose    \* check_both_spt cannot read
  /\ spt' = flash["SPT0"]
  /\ ReportCorrupted
  /\ UNCHANGED <<flash, job, todo, interrupted>>

\* Mutant of LoadRepair: SPT1 is not read again.
RepairFromLastRead ==
  /\ pc = "check"
  /\ \E c \in Copies :
       /\ Passing = {c}
       /\ spt' = flash["SPT0"]
       /\ Settle(flash[c].table)
       /\ todo' = {Other(c)}
  /\ pc' = "erase" /\ job' = "load_spt"
  /\ UNCHANGED <<flash, corrupted, call, interrupted>>

\* Mutant of LoadRepair: the copies are swapped.
RepairFromBadCopy ==
  /\ pc = "check"
  /\ \E c \in Copies :
       /\ Passing = {c}
       /\ spt' = flash[Other(c)]
       /\ Settle(flash[Other(c)].table)
       /\ todo' = {c}
  /\ pc' = "erase" /\ job' = "load_spt"
  /\ UNCHANGED <<flash, corrupted, call, interrupted>>

\* One copy passes: it is taken, and the other one is erased and rewritten.
LoadRepair ==
  /\ pc = "check"
  /\ \E c \in Copies :
       /\ Passing = {c}
       /\ spt' = flash[c]
       /\ Settle(flash[c].table)
       /\ todo' = {Other(c)}
  /\ pc' = "erase" /\ job' = "load_spt"
  /\ UNCHANGED <<flash, corrupted, call, interrupted>>

LoadNone ==
  /\ pc = "check" /\ Passing = {}
  /\ spt' = flash["SPT0"]
  /\ ReportCorrupted
  /\ UNCHANGED <<flash, job, todo, history>>

\* Reading SPT1 fails, or SPT0, or SPT1 for the second time: unlike a copy that is
\* bad, one that cannot be read ends load_spt.
LoadReadFails ==
  /\ pc = "check" /\ "read" \in IoErrors
  /\ \/ UNCHANGED spt
     \/ spt' = flash["SPT1"]
     \/ Passing = {"SPT1"} /\ spt' = flash["SPT0"]
  /\ IF call.op = "open" THEN UNCHANGED <<committed, target>> ELSE Settle(target)
  /\ Abort
  /\ UNCHANGED <<flash, corrupted, job, todo, interrupted>>

LoadSpt ==
  LoadMatched \/ LoadUnmatched \/ LoadRepair \/ LoadNone \/ LoadReadFails

-----------------------------------------------------------------------------
(* Flash operations of writeback_spt and load_spt's repair *)

\* Mutants of EraseCopy: every copy still to write is erased; none is; the loop starts
\* over.
EraseAll ==
  /\ pc = "erase" /\ todo # {}
  /\ flash' = [c \in Copies |-> IF c \in todo THEN Outcome(flash[c]) ELSE flash[c]]
  /\ pc' = "body"
  /\ UNCHANGED <<memory, job, todo, call, history>>
EraseSkipped ==
  /\ pc = "erase" /\ todo # {}
  /\ pc' = "body"
  /\ UNCHANGED <<flash, memory, job, todo, call, history>>
EraseForEver ==
  /\ pc = "erase" /\ todo # {}
  /\ flash' = [flash EXCEPT ![Copy] = Outcome(@)]
  /\ UNCHANGED <<memory, control, history>>

EraseCopy ==
  /\ pc = "erase" /\ todo # {}
  /\ flash' = [flash EXCEPT ![Copy] = Outcome(@)]
  /\ pc' = "body"
  /\ UNCHANGED <<memory, job, todo, call, history>>

WriteBody ==
  /\ pc = "body"
  /\ flash' = [flash EXCEPT ![Copy] = Outcome(@)]
  /\ spt' = [spt EXCEPT !.magic = FALSE, !.sum = Sum]
  /\ pc' = "magic"
  /\ UNCHANGED <<corrupted, job, todo, call, history>>

\* Mutant of WriteMagic: the loop ends with the first copy.
WriteMagicOnce ==
  /\ pc = "magic"
  /\ flash' = [flash EXCEPT ![Copy] = Outcome(@)]
  /\ spt' = [spt EXCEPT !.magic = TRUE]
  /\ todo' = {}
  /\ pc' = "erase"
  /\ UNCHANGED <<corrupted, job, call, history>>

\* The magic number makes the copy valid; the next copy is started only then.
WriteMagic ==
  /\ pc = "magic"
  /\ flash' = [flash EXCEPT ![Copy] = Outcome(@)]
  /\ spt' = [spt EXCEPT !.magic = TRUE]
  /\ todo' = todo \ {Copy}
  /\ pc' = "erase"
  /\ UNCHANGED <<corrupted, job, call, history>>

Written(function) == pc = "erase" /\ todo = {} /\ job = function

\* load_spt has repaired the bad copy.
EndRepair ==
  /\ Written("load_spt")
  /\ interrupted' = FALSE
  /\ Proceed
  /\ UNCHANGED <<flash, memory, job, todo, committed, target>>

\* writeback_spt returns 0: partition_* load the SPT again.
EndEdit ==
  /\ Written("writeback_spt") /\ call.op # "restore"
  /\ \A c \in Copies : Named(spt.table, c)
  /\ pc' = "check"
  /\ UNCHANGED <<flash, memory, job, todo, call, history>>

\* restore_spt_* take the table without a check, and the SPT counts as good again.
EndRestore ==
  /\ Written("writeback_spt") /\ call.op = "restore"
  /\ \A c \in Copies : Named(spt.table, c)
  /\ corrupted' = FALSE
  /\ IF CheckSpt(spt.table) THEN Settle(spt.table) ELSE Lose
  /\ interrupted' = FALSE
  /\ Return("ok")
  /\ UNCHANGED <<flash, spt, job, todo>>

\* The table names only one of SPT0 and SPT1: -EADDRNOTAVAIL, after writing it.
EndIncomplete ==
  /\ Written("writeback_spt")
  /\ \E c \in Copies : ~Named(spt.table, c)
  /\ Return("fail")
  /\ UNCHANGED <<flash, memory, job, todo, history>>

\* Mutant of WriteFails: the loop goes on with the other copy.
WriteErrorIgnored ==
  /\ pc = "erase" /\ todo # {} /\ "erase" \in IoErrors
  /\ \E content \in TornOutcomes(flash[Copy]) : flash' = [flash EXCEPT ![Copy] = content]
  /\ todo' = todo \ {Copy}
  /\ interrupted' = TRUE
  /\ UNCHANGED <<memory, pc, job, call, committed, target>>

\* A flash operation reports an error: writeback_spt and load_spt return it at once.
\* The table in memory stays as edited, with the magic number it has at that point,
\* and partition_* do not load the SPT again.
WriteFails ==
  /\ \/ pc = "erase" /\ todo # {} /\ "erase" \in IoErrors /\ UNCHANGED spt
     \/ /\ pc = "body" /\ "write" \in IoErrors
        /\ spt' = [spt EXCEPT !.magic = FALSE, !.sum = Sum]
     \/ /\ pc = "magic" /\ "write" \in IoErrors
        /\ spt' = [spt EXCEPT !.magic = TRUE]
  /\ \E content \in TornOutcomes(flash[Copy]) : flash' = [flash EXCEPT ![Copy] = content]
  /\ todo' = {}
  /\ Abort
  /\ interrupted' = TRUE
  /\ UNCHANGED <<corrupted, job, committed, target>>

-----------------------------------------------------------------------------
(* API calls; one at a time, libRSU.c holds its mutex for the whole call *)

\* rsu_qspi_open allocates a zeroed database and runs load_spt.
Open ==
  /\ pc = "down"
  /\ call' = [op |-> "open", result |-> "none"]
  /\ pc' = "check"
  /\ spt' = Blank /\ corrupted' = FALSE
  /\ UNCHANGED <<flash, job, todo, history>>

\* writeback_spt starts on memory holding content.
WriteBack(op, content) ==
  /\ call' = [op |-> op, result |-> "none"]
  /\ spt' = content
  /\ todo' = {c \in Copies : Named(content.table, c)}
  /\ job' = "writeback_spt"
  /\ pc' = "erase"
  /\ UNCHANGED <<flash, corrupted, interrupted>>

Edit(op, t) ==
  /\ Idle /\ ~corrupted
  /\ WriteBack(op, [spt EXCEPT !.table = t])
  /\ Begun(t)

\* Mutant of Create: the overlap is not looked for.
CreateOverlapping(name, request) ==
  /\ ~Named(spt.table, name)
  /\ Len(spt.table) < MaxPartitions
  /\ Edit("create", Append(spt.table, NewSlot(name, request)))

Create(name, request) ==
  /\ ~Named(spt.table, name)
  /\ Len(spt.table) < MaxPartitions
  /\ \A x \in DOMAIN spt.table : ~Overlap(spt.table[x], NewSlot(name, request))
  /\ Edit("create", Append(spt.table, NewSlot(name, request)))

\* Erasing a slot of length zero fails, so that such a slot is never deleted.
Delete(n) ==
  \E x \in Slot2Part(spt.table, n) :
    /\ spt.table[x].length > 0
    /\ Edit("delete", Without(spt.table, x))

\* Mutant of Rename: the name may be in use.
RenameToUsed(n, name) ==
  \E x \in Slot2Part(spt.table, n) :
    Edit("rename", Renamed(spt.table, x, name))

Rename(n, name) ==
  \E x \in Slot2Part(spt.table, n) :
    /\ ~Named(spt.table, name)
    /\ Edit("rename", Renamed(spt.table, x, name))

\* rsu_restore_spt and rsu_restore_spt_from_buf replace the table, whatever it was.
Restore(t) ==
  /\ Idle
  /\ Named(t, "SPT0")
  /\ WriteBack("restore", [magic |-> TRUE, sum |-> TRUE, table |-> t])
  /\ IF CheckSpt(t) THEN Begun(t) ELSE Lose

\* load_spt0_offset finds no SPT0: the call fails, and memory holds the table.
RestoreRefused(t) ==
  /\ Idle
  /\ ~Named(t, "SPT0")
  /\ spt' = [magic |-> TRUE, sum |-> TRUE, table |-> t]
  /\ call' = [op |-> "restore", result |-> "fail"]
  /\ Lose
  /\ UNCHANGED <<flash, corrupted, pc, job, todo, interrupted>>

-----------------------------------------------------------------------------
(* Environment *)

Down ==
  /\ pc' = "down" /\ job' = "none" /\ todo' = {}
  /\ call' = [op |-> "open", result |-> "none"]
  /\ spt' = Blank /\ corrupted' = FALSE
  /\ interrupted' = (interrupted \/ InFlight)
  /\ UNCHANGED <<committed, target>>

\* librsu_exit, or the process dies between two flash operations.
Stop ==
  /\ pc # "down"
  /\ Down
  /\ UNCHANGED flash

\* Power fails, possibly half way through a flash operation.
PowerFails ==
  /\ pc # "down"
  /\ InFlight /\ \E content \in TornOutcomes(flash[Copy]) :
                   flash' = [flash EXCEPT ![Copy] = content]
  /\ Down

-----------------------------------------------------------------------------
(* Specification *)

Init ==
  /\ flash = [c \in Copies |-> [magic |-> TRUE, sum |-> TRUE, table |-> Provisioned]]
  /\ spt = Blank /\ corrupted = FALSE
  /\ pc = "down" /\ job = "none" /\ todo = {}
  /\ call = [op |-> "open", result |-> "none"]
  /\ committed = Provisioned /\ target = Provisioned
  /\ interrupted = FALSE

\* The steps of a call the library is in.
Step ==
  \/ LoadSpt
  \/ EraseCopy \/ WriteBody \/ WriteMagic
  \/ EndRepair \/ EndEdit \/ EndRestore \/ EndIncomplete
  \/ WriteFails

Api ==
  \/ Open
  \/ \E name \in SlotNames, request \in Requests : Create(name, request)
  \/ \E n \in 0..MaxPartitions : Delete(n) \/ \E name \in SlotNames : Rename(n, name)
  \/ \E t \in Backups : Restore(t) \/ RestoreRefused(t)

Next == Step \/ Api \/ Stop \/ PowerFails

Spec == Init /\ [][Next]_vars

\* A thread inside a call keeps running; callers and the environment owe nothing.
FairSpec == Spec /\ WF_vars(Step)

-----------------------------------------------------------------------------
(* Properties *)

TypeOK ==
  /\ flash \in [Copies -> Content]
  /\ spt \in Content
  /\ corrupted \in BOOLEAN
  /\ pc \in {"down", "idle", "check", "erase", "body", "magic"}
  /\ job \in {"none", "load_spt", "writeback_spt"}
  /\ todo \in SUBSET Copies
  /\ call \in [op : {"open", "create", "delete", "rename", "restore"},
               result : {"none", "ok", "fail"}]
  /\ committed \in Table /\ target \in Table
  /\ interrupted \in BOOLEAN

\* At every instant, so after a power cut in the middle of any flash operation too,
\* one of the two copies passes every check of load_spt and holds the table from
\* before or the table from after the edit in progress.
OneCopySurvives ==
  trusted => \E c \in Copies : /\ Passes(flash[c])
                               /\ flash[c].table \in {committed, target}

\* Between calls the table in memory, which slot numbers refer to and the next edit
\* starts from, is what both copies in flash hold, and a valid one.
MemoryMatchesFlash ==
  (trusted /\ Idle /\ ~corrupted /\ ~interrupted) =>
    Passes(spt) /\ \A c \in Copies : flash[c] = spt

\* The library calls the SPT corrupted, and refuses every call but rsu_restore_spt,
\* only when a write to flash was cut short.
CorruptedHasCause == (trusted /\ corrupted) => interrupted

\* An SPT that survived is never replaced by anything but the outcome of the edit in
\* progress: loading settles on the table from before or from after.
SettlesOnOldOrNew ==
  [][trusted => committed' \in {committed, target, Lost}]_vars

\* Every call returns, unless the process or the board stops first.
CallsReturn == pc \notin {"idle", "down"} ~> pc \in {"idle", "down"}

-----------------------------------------------------------------------------
(* What a comment says, and the code does not do *)

\* The comment in writeback_spt: "calculate the new checksum"; what it writes is a
\* checksum that check_spt agrees with.
ChecksumIsRight ==
  \A c \in Copies : flash[c].magic => flash[c].sum
=============================================================================
