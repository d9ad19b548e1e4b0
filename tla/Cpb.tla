-------------------------------- MODULE Cpb --------------------------------
(***************************************************************************)
(* The configuration pointer block (CPB): the list of slots the boot       *)
(* firmware tries, kept twice in flash (partitions CPB0 and CPB1) and once *)
(* in the library's memory.  Models libRSU_ops.c's load_cpb, update_cpb,   *)
(* writeback_cpb, priority_* and *_cpb functions and the libRSU.c calls    *)
(* that reach them, at the grain of one flash operation per step, so that  *)
(* power can fail, the process can die and the driver can report an error  *)
(* between any two flash operations or in the middle of one.               *)
(*                                                                         *)
(* Abstractions.                                                           *)
(*  - A table has one word for its header and one per pointer.  The header *)
(*    word stands for the magic number; a header whose other fields are    *)
(*    bad is, like a bad magic number, a header that differs from Magic.   *)
(*  - Offsets are the partition offsets check_cpb accepts: the SPT is      *)
(*    intact and does not change here.                                     *)
(*  - cpb_slots[x] is entry x + 1 of a table.                              *)
(*  - Slot data is not modelled: rsu_slot_program_* is its last step,      *)
(*    priority.add, rsu_slot_erase and rsu_slot_delete start with the      *)
(*    priority.remove of Disable.                                          *)
(***************************************************************************)
EXTENDS NorFlash, Integers, FiniteSets

CONSTANTS
  NSlots,     \* image_ptr_slots
  Offsets,    \* offsets of the slots' partitions
  Magic,      \* CPB_MAGIC_NUMBER
  First,      \* which of CPB0 and CPB1 comes first in the SPT
  Backups,    \* the images rsu_restore_cpb may be given (CRC and magic correct)
  HalfErased, \* what a copy may read as after an erase that stopped half way
  IoErrors    \* the flash operations that may report an error

Slots == 1..NSlots
Cells == 0..NSlots
Header == 0
Table == [Cells -> Word]
Copies == {0, 1}
Other(c) == 1 - c

ASSUME NSlotsAssumption == NSlots \in Nat \ {0}
ASSUME OffsetsAssumption == Offsets \subseteq Word \ {Erased, Spent}
ASSUME MagicAssumption == Magic \in Word \ {Erased}
ASSUME FirstAssumption == First \in Copies
ASSUME BackupsAssumption == \A b \in Backups : b \in Table /\ b[Header] = Magic
ASSUME HalfErasedAssumption == HalfErased \subseteq Table
ASSUME IoErrorsAssumption == IoErrors \subseteq {"read", "erase", "write"}

VARIABLES
  flash,      \* contents of CPB0 and CPB1
  fw,         \* what the firmware found when it booted: "ok", "cpb0", "both"
  cpb,        \* plat_database->cpb
  corrupted,  \* plat_database->cpb_corrupted
  fixed,      \* plat_database->cpb_fixed
  pc,         \* what the library does next
  job,        \* the function the flash operations belong to
  todo,       \* the copies this function has still to write
  call,       \* the API call: operation, pointer, what follows its current step
  committed,  \* history: the table the CPB holds
  target,     \* history: the table being written, committed when none is
  trusted,    \* history: nothing happened that the copies do not protect from
  interrupted \* history: a write to flash was cut short since the CPB was whole

durable == <<flash, fw>>
memory == <<cpb, corrupted, fixed>>
control == <<pc, job, todo, call>>
history == <<committed, target, trusted, interrupted>>
vars == <<flash, fw, cpb, corrupted, fixed, pc, job, todo, call,
          committed, target, trusted, interrupted>>

-----------------------------------------------------------------------------
(* Tables *)

Live(w) == w \notin {Erased, Spent}
LiveSlots(t) == {s \in Slots : Live(t[s])}
Enabled(t, p) == \E s \in Slots : t[s] = p
Lowest(S) == CHOOSE s \in S : \A r \in S : s <= r
Highest(S) == CHOOSE s \in S : \A r \in S : r <= s

\* The checks of load_cpb and check_cpb on one copy.
Good(t) ==
  /\ t[Header] = Magic
  /\ \A s \in Slots : t[s] \in Offsets \cup {Erased, Spent}

\* priority_get: entries are counted from the end of the table, so the entry
\* written last has priority one; zero is a disabled slot.
Priority(t, p) ==
  IF Enabled(t, p)
  THEN LET found == Highest({s \in Slots : t[s] = p})
       IN  Cardinality({s \in LiveSlots(t) : s >= found})
  ELSE 0

\* The table of rsu_create_empty_cpb: a header and erased entries.
EmptyTable == [c \in Cells |-> IF c = Header THEN Magic ELSE Erased]
ErasedTable == [c \in Cells |-> Erased]
WithoutMagic(t) == [t EXCEPT ![Header] = Erased]
WithMagic(t) == [t EXCEPT ![Header] = Magic]

\* priority_add's compression: live entries move to the front in their order, p
\* follows them and the rest is erased.
Rank(t, s) == Cardinality({r \in LiveSlots(t) : r <= s})
CompressedEntry(t, p, c) ==
  IF c = Header THEN t[Header]
  ELSE IF \E s \in LiveSlots(t) : Rank(t, s) = c
       THEN t[CHOOSE s \in LiveSlots(t) : Rank(t, s) = c]
       ELSE IF c = Cardinality(LiveSlots(t)) + 1 THEN p ELSE Erased

\* Mutants of Compressed: one entry past the end; p before the live entries; p over
\* the last live entry.
CompressedOverrun(t, p) ==
  [c \in Cells \cup {NSlots + 1} |-> CompressedEntry(t, p, c)]
CompressedInFront(t, p) ==
  [c \in Cells |-> IF c = Header THEN t[Header]
                   ELSE IF c = 1 THEN p ELSE CompressedEntry(t, Erased, c - 1)]
CompressedOffByOne(t, p) ==
  [c \in Cells |-> IF c = Cardinality(LiveSlots(t)) /\ c # Header THEN p
                   ELSE CompressedEntry(t, Erased, c)]

Compressed(t, p) == [c \in Cells |-> CompressedEntry(t, p, c)]

-----------------------------------------------------------------------------
(* What one flash operation does to the copy it is applied to *)

\* A table goes to the copies in the order of their partitions in the SPT.
Copy == IF First \in todo THEN First ELSE Other(First)

\* The bytes the pending write holds: the magic number is left erased until the
\* rest of the table is in flash.
Written ==
  IF pc = "body" THEN WithoutMagic(cpb)
  ELSE IF pc = "magic" THEN WithMagic(ErasedTable)
  ELSE cpb    \* update_cpb

Outcome(old) == IF pc = "erase" THEN Erase(old) ELSE Program(old, Written)
TornOutcomes(old) ==
  IF pc = "erase" THEN {old, Erase(old)} \cup HalfErased
  ELSE TornProgram(old, Written)

InFlight == pc \in {"erase", "body", "magic", "write"}

\* The firmware's report when it boots.  It never rejects a copy that load_cpb
\* would accept.
BootReports(f) ==
  {"ok"} \cup {r \in {"cpb0"} : ~Good(f[0])}
         \cup {r \in {"both"} : ~Good(f[0]) /\ ~Good(f[1])}

-----------------------------------------------------------------------------
(* Ends of a call *)

Request(op, p, next) == call' = [op |-> op, ptr |-> p, next |-> next]

\* load_cpb returned 0: rsu_slot_enable goes on with priority_add, any other call
\* returns what it already decided.
Proceed ==
  /\ pc' = IF call.next = "add" THEN "add" ELSE "idle"
  /\ call' = [call EXCEPT !.next = IF @ = "add" THEN "ok" ELSE @]

\* load_cpb set cpb_corrupted: librsu_init still succeeds, other calls fail.
ReportCorrupted ==
  /\ corrupted' = TRUE
  /\ pc' = "idle"
  /\ call' = [call EXCEPT !.next = IF call.op = "open" THEN @ ELSE "fail"]

\* An error that sets no flag: librsu_init closes the library again.
Abort ==
  /\ pc' = IF call.op = "open" THEN "down" ELSE "idle"
  /\ call' = [call EXCEPT !.next = "fail"]

\* History: the library takes the table t.
Settle(t) == committed' = t /\ target' = t

-----------------------------------------------------------------------------
(* load_cpb *)

\* A stale report counts until rsu_create_empty_cpb or rsu_restore_cpb.
Skip0 == fw = "cpb0" /\ ~fixed
Refused == fw = "both" /\ ~fixed

\* The copies whose first read fails.
Unreadable == IF "read" \in IoErrors THEN SUBSET Copies ELSE {{}}
Passes(unread) ==
  {c \in Copies : c \notin unread /\ Good(flash[c]) /\ ~(c = 0 /\ Skip0)}

\* CPB1 is read first, then CPB0, both into cpb.
LastRead(unread) ==
  IF 0 \notin unread /\ ~Skip0 THEN flash[0]
  ELSE IF 1 \notin unread THEN flash[1] ELSE cpb

LoadRefused ==
  /\ pc = "check" /\ Refused
  /\ ReportCorrupted
  /\ UNCHANGED <<flash, fw, cpb, fixed, job, todo, history>>

LoadMatched ==
  /\ pc = "check" /\ ~Refused
  /\ Passes({}) = Copies
  /\ flash[0] = flash[1]
  /\ cpb' = flash[0]
  /\ Settle(flash[0])
  /\ interrupted' = FALSE
  /\ Proceed
  /\ UNCHANGED <<durable, corrupted, fixed, job, todo, trusted>>

LoadUnmatched ==
  /\ pc = "check" /\ ~Refused
  /\ Passes({}) = Copies
  /\ \/ flash[0] # flash[1] /\ UNCHANGED trusted
     \/ "read" \in IoErrors /\ trusted' = FALSE    \* check_both_cpb cannot read
  /\ cpb' = flash[0]
  /\ ReportCorrupted
  /\ UNCHANGED <<durable, fixed, job, todo, committed, target, interrupted>>

\* Mutant of LoadRepair: CPB1 is not read again, memory keeps the last read.
RepairFromLastRead(unread) ==
  /\ pc = "check" /\ ~Refused
  /\ \E c \in Copies :
       /\ Passes(unread) = {c}
       /\ cpb' = LastRead(unread)
       /\ Settle(flash[c])
       /\ todo' = {Other(c)}
  /\ pc' = "erase" /\ job' = "load_cpb"
  /\ trusted' = (trusted /\ unread = {})
  /\ UNCHANGED <<durable, corrupted, fixed, call, interrupted>>

\* Mutant of LoadRepair: the copies are swapped.
RepairFromBadCopy(unread) ==
  /\ pc = "check" /\ ~Refused
  /\ \E c \in Copies :
       /\ Passes(unread) = {c}
       /\ cpb' = flash[Other(c)]
       /\ Settle(flash[Other(c)])
       /\ todo' = {c}
  /\ pc' = "erase" /\ job' = "load_cpb"
  /\ trusted' = (trusted /\ unread = {})
  /\ UNCHANGED <<durable, corrupted, fixed, call, interrupted>>

\* One copy passes: it is taken, and the other one is erased and rewritten.
LoadRepair(unread) ==
  /\ pc = "check" /\ ~Refused
  /\ \E c \in Copies :
       /\ Passes(unread) = {c}
       /\ cpb' = flash[c]
       /\ Settle(flash[c])
       /\ todo' = {Other(c)}
  /\ pc' = "erase" /\ job' = "load_cpb"
  /\ trusted' = (trusted /\ unread = {})
  /\ UNCHANGED <<durable, corrupted, fixed, call, interrupted>>

\* Only CPB1 passes and reading it again fails.
LoadReadFails(unread) ==
  /\ pc = "check" /\ ~Refused
  /\ "read" \in IoErrors
  /\ Passes(unread) = {1}
  /\ cpb' = LastRead(unread)
  /\ trusted' = FALSE
  /\ Abort
  /\ UNCHANGED <<durable, corrupted, fixed, job, todo, committed, target, interrupted>>

LoadNone(unread) ==
  /\ pc = "check" /\ ~Refused
  /\ Passes(unread) = {}
  /\ cpb' = LastRead(unread)
  /\ trusted' = (trusted /\ unread = {})
  /\ ReportCorrupted
  /\ UNCHANGED <<durable, fixed, job, todo, committed, target, interrupted>>

LoadCpb ==
  \/ LoadRefused
  \/ LoadMatched
  \/ LoadUnmatched
  \/ \E unread \in Unreadable :
       LoadRepair(unread) \/ LoadReadFails(unread) \/ LoadNone(unread)

-----------------------------------------------------------------------------
(* Flash operations of update_cpb, writeback_cpb and load_cpb's repair *)

\* update_cpb and writeback_cpb write the table to both copies.
WriteBoth(t, function, step) ==
  /\ cpb' = t
  /\ target' = t
  /\ todo' = Copies
  /\ job' = function
  /\ pc' = step

\* Mutants of EraseCopy: every copy still to write is erased; none is.
EraseAll ==
  /\ pc = "erase"
  /\ flash' = [c \in Copies |-> IF c \in todo THEN Outcome(flash[c]) ELSE flash[c]]
  /\ pc' = "body"
  /\ UNCHANGED <<fw, memory, job, todo, call, history>>
EraseSkipped ==
  /\ pc = "erase"
  /\ pc' = "body"
  /\ UNCHANGED <<flash, fw, memory, job, todo, call, history>>

EraseCopy ==
  /\ pc = "erase"
  /\ flash' = [flash EXCEPT ![Copy] = Outcome(@)]
  /\ pc' = "body"
  /\ UNCHANGED <<fw, memory, job, todo, call, history>>

WriteBody ==
  /\ pc = "body"
  /\ flash' = [flash EXCEPT ![Copy] = Outcome(@)]
  /\ cpb' = WithoutMagic(cpb)
  /\ pc' = "magic"
  /\ UNCHANGED <<fw, corrupted, fixed, job, todo, call, history>>

\* The magic number makes the copy valid; the next copy is started only then.
WriteMagic ==
  /\ pc = "magic"
  /\ todo = Copies
  /\ flash' = [flash EXCEPT ![Copy] = Outcome(@)]
  /\ cpb' = WithMagic(cpb)
  /\ todo' = todo \ {Copy}
  /\ pc' = "erase"
  /\ UNCHANGED <<fw, corrupted, fixed, job, call, history>>

LastMagic(function) ==
  /\ pc = "magic" /\ job = function
  /\ todo # Copies
  /\ flash' = [flash EXCEPT ![Copy] = Outcome(@)]
  /\ cpb' = WithMagic(cpb)
  /\ todo' = {}
  /\ UNCHANGED <<fw, job>>

\* load_cpb has repaired the bad copy.
EndRepair ==
  /\ LastMagic("load_cpb")
  /\ interrupted' = FALSE
  /\ Proceed
  /\ UNCHANGED <<corrupted, fixed, committed, target, trusted>>

\* writeback_cpb returns 0: to priority_add, which loads the CPB again, or to
\* empty_cpb and restore_cpb_*, which clear the flag.
EndWriteback ==
  /\ LastMagic("writeback_cpb")
  /\ IF call.op \in {"empty", "restore"}
     THEN /\ pc' = "idle"
          /\ call' = [call EXCEPT !.next = "ok"]
          /\ corrupted' = FALSE /\ fixed' = TRUE
          /\ Settle(target)
          /\ trusted' = Good(target) /\ interrupted' = FALSE
     ELSE /\ pc' = "check"
          /\ UNCHANGED <<call, corrupted, fixed, history>>

\* Mutants of UpdateCopy: only the first copy is written; the first one for ever.
UpdateFirstOnly ==
  /\ pc = "write"
  /\ flash' = [flash EXCEPT ![Copy] = Outcome(@)]
  /\ todo' = {} /\ pc' = "check"
  /\ UNCHANGED <<fw, memory, job, call, history>>
UpdateForEver ==
  /\ pc = "write"
  /\ flash' = [flash EXCEPT ![Copy] = Outcome(@)]
  /\ UNCHANGED <<fw, memory, control, history>>

\* update_cpb writes the whole table over the old one, without erasing it.
UpdateCopy ==
  /\ pc = "write"
  /\ flash' = [flash EXCEPT ![Copy] = Outcome(@)]
  /\ todo' = todo \ {Copy}
  /\ pc' = IF todo = Copies THEN "write" ELSE "check"
  /\ UNCHANGED <<fw, memory, job, call, history>>

-----------------------------------------------------------------------------
(* Flash operations that report an error *)

\* Mutant of UpdateFails: the CPB is not loaded again.
UpdateNotReloaded ==
  /\ pc = "write" /\ "write" \in IoErrors
  /\ \E t \in TornOutcomes(flash[Copy]) : flash' = [flash EXCEPT ![Copy] = t]
  /\ todo' = {}
  /\ pc' = "idle"
  /\ call' = [call EXCEPT !.next = "fail"]
  /\ trusted' = (trusted /\ fw # "cpb0")
  /\ interrupted' = TRUE
  /\ UNCHANGED <<fw, memory, job, committed, target>>

\* update_cpb returns -EIO; priority_add and priority_remove load the CPB again
\* and fail whatever that finds.
UpdateFails ==
  /\ pc = "write" /\ "write" \in IoErrors
  /\ \E t \in TornOutcomes(flash[Copy]) : flash' = [flash EXCEPT ![Copy] = t]
  /\ todo' = {}
  /\ pc' = "check"
  /\ call' = [call EXCEPT !.next = "fail"]
  /\ trusted' = (trusted /\ fw # "cpb0")
  /\ interrupted' = TRUE
  /\ UNCHANGED <<fw, memory, job, committed, target>>

\* Mutant of WriteFails: librsu_init goes on after a repair that failed.
WriteErrorIgnored ==
  /\ \/ pc = "erase" /\ "erase" \in IoErrors /\ UNCHANGED cpb
     \/ pc = "body" /\ "write" \in IoErrors /\ cpb' = WithoutMagic(cpb)
     \/ pc = "magic" /\ "write" \in IoErrors /\ cpb' = WithMagic(cpb)
  /\ \E t \in TornOutcomes(flash[Copy]) : flash' = [flash EXCEPT ![Copy] = t]
  /\ todo' = {}
  /\ Proceed
  /\ trusted' = (trusted /\ call.op = "open")
  /\ interrupted' = TRUE
  /\ UNCHANGED <<fw, corrupted, fixed, job, committed, target>>

\* writeback_cpb and load_cpb return the error at once; cpb keeps the magic
\* number it has at that point.
WriteFails ==
  /\ \/ pc = "erase" /\ "erase" \in IoErrors /\ UNCHANGED cpb
     \/ pc = "body" /\ "write" \in IoErrors /\ cpb' = WithoutMagic(cpb)
     \/ pc = "magic" /\ "write" \in IoErrors /\ cpb' = WithMagic(cpb)
  /\ \E t \in TornOutcomes(flash[Copy]) : flash' = [flash EXCEPT ![Copy] = t]
  /\ todo' = {}
  /\ Abort
  /\ trusted' = (trusted /\ call.op = "open")
  /\ interrupted' = TRUE
  /\ UNCHANGED <<fw, corrupted, fixed, job, committed, target>>

-----------------------------------------------------------------------------
(* priority_remove and priority_add *)

\* Only the first entry that matches is cleared.
PriorityRemove ==
  /\ pc = "remove"
  /\ IF Enabled(cpb, call.ptr)
     THEN /\ WriteBoth([cpb EXCEPT ![Lowest({s \in Slots : cpb[s] = call.ptr})]
                          = Spent], "update_cpb", "write")
          /\ UNCHANGED <<flash, fw, corrupted, fixed, call, committed, trusted,
                 interrupted>>
     ELSE /\ pc' = "check"
          /\ UNCHANGED <<durable, memory, job, todo, call, history>>

ErasedSlots(t) == {s \in Slots : t[s] = Erased}

\* The pointer goes to the first erased entry.
PriorityAddInPlace ==
  /\ pc = "add" /\ ErasedSlots(cpb) # {}
  /\ WriteBoth([cpb EXCEPT ![Lowest(ErasedSlots(cpb))] = call.ptr],
               "update_cpb", "write")
  /\ UNCHANGED <<flash, fw, corrupted, fixed, call, committed, trusted,
                 interrupted>>

\* No entry is erased, some are spent.
PriorityAddCompressed ==
  /\ pc = "add" /\ ErasedSlots(cpb) = {}
  /\ Cardinality(LiveSlots(cpb)) < NSlots
  /\ WriteBoth(Compressed(cpb, call.ptr), "writeback_cpb", "erase")
  /\ UNCHANGED <<flash, fw, corrupted, fixed, call, committed, trusted,
                 interrupted>>

\* Every entry is live: -EFAULT.
PriorityAddFull ==
  /\ pc = "add" /\ Cardinality(LiveSlots(cpb)) = NSlots
  /\ Abort
  /\ UNCHANGED <<durable, memory, job, todo, history>>

PriorityAdd == PriorityAddInPlace \/ PriorityAddCompressed \/ PriorityAddFull

-----------------------------------------------------------------------------
(* API calls; one at a time, libRSU.c holds its mutex for the whole call *)

Idle == pc = "idle"
Begin(op, p, next, step) ==
  /\ Request(op, p, next)
  /\ pc' = step
  /\ UNCHANGED <<durable, memory, job, todo>>

\* rsu_qspi_open allocates a zeroed database and runs load_cpb.  Nothing reads
\* the fresh cpb buffer before load_cpb fills it.
Open ==
  /\ pc = "down"
  /\ Request("open", Spent, "ok")
  /\ pc' = "check"
  /\ cpb' = ErasedTable /\ corrupted' = FALSE /\ fixed' = FALSE
  /\ UNCHANGED <<durable, job, todo, history>>

\* Mutant of Enable: the slot's old entry stays.
EnableAgain(p) ==
  /\ Idle /\ ~corrupted
  /\ Begin("enable", p, "ok", "add")
  /\ UNCHANGED history

Enable(p) ==
  /\ Idle /\ ~corrupted
  /\ Begin("enable", p, "add", "remove")
  /\ UNCHANGED history

\* Also the first step of rsu_slot_erase and rsu_slot_delete.
Disable(p) ==
  /\ Idle /\ ~corrupted
  /\ Begin("disable", p, "ok", "remove")
  /\ UNCHANGED history

\* The slot's data is in flash and was read back; the slot was not enabled.
ProgramSlot(p) ==
  /\ Idle /\ ~corrupted
  /\ Priority(cpb, p) = 0
  /\ Begin("program", p, "ok", "add")
  /\ UNCHANGED history

\* rsu_slot_program_callback does not look at cpb_corrupted.  (When cpb holds no
\* header either, priority_get walks through a table it does not have: not
\* modelled beyond the process dying, Stop.)
ProgramCallback(p) ==
  /\ Idle /\ corrupted
  /\ cpb[Header] = Magic
  /\ Priority(cpb, p) = 0
  /\ Begin("program", p, "ok", "add")
  /\ trusted' = FALSE
  /\ UNCHANGED <<committed, target, interrupted>>

\* rsu_create_empty_cpb and rsu_restore_cpb replace the table, whatever it was.
Replace(op, t) ==
  /\ Idle
  /\ Request(op, Spent, "ok")
  /\ WriteBoth(t, "writeback_cpb", "erase")
  /\ trusted' = (trusted /\ ~corrupted /\ Good(t))
  /\ UNCHANGED <<durable, corrupted, fixed, committed, interrupted>>

CreateEmpty == Replace("empty", EmptyTable)
Restore(t) == Replace("restore", t)

-----------------------------------------------------------------------------
(* Environment *)

Down ==
  /\ pc' = "down" /\ job' = "none" /\ todo' = {}
  /\ Request("open", Spent, "ok")
  /\ cpb' = ErasedTable /\ corrupted' = FALSE /\ fixed' = FALSE
  /\ interrupted' = (interrupted \/ InFlight)
  /\ UNCHANGED <<committed, target, trusted>>

\* librsu_exit, or the process dies between two flash operations.  The firmware
\* does not run: its report stays.
Stop ==
  /\ pc # "down"
  /\ Down
  /\ UNCHANGED durable

\* Power fails, possibly half way through a flash operation, and the board
\* boots: the firmware looks at the copies again.
PowerCycle ==
  /\ \/ UNCHANGED flash
     \/ InFlight /\ \E t \in TornOutcomes(flash[Copy]) :
                      flash' = [flash EXCEPT ![Copy] = t]
  /\ fw' \in BootReports(flash')
  /\ Down

-----------------------------------------------------------------------------
(* Specification *)

\* A board that was provisioned with an empty CPB.
Init ==
  /\ flash = [c \in Copies |-> EmptyTable]
  /\ fw = "ok"
  /\ cpb = ErasedTable /\ corrupted = FALSE /\ fixed = FALSE
  /\ pc = "down" /\ job = "none" /\ todo = {}
  /\ call = [op |-> "open", ptr |-> Spent, next |-> "ok"]
  /\ committed = EmptyTable /\ target = EmptyTable /\ trusted = TRUE
  /\ interrupted = FALSE

\* The steps of a call the library is in.
Step ==
  \/ LoadCpb
  \/ EraseCopy \/ WriteBody \/ WriteMagic \/ EndRepair \/ EndWriteback
  \/ UpdateCopy \/ UpdateFails \/ WriteFails
  \/ PriorityRemove \/ PriorityAdd

Api ==
  \/ Open
  \/ \E p \in Offsets : Enable(p) \/ Disable(p) \/ ProgramSlot(p) \/ ProgramCallback(p)
  \/ CreateEmpty
  \/ \E t \in Backups : Restore(t)

Next == Step \/ Api \/ Stop \/ PowerCycle

Spec == Init /\ [][Next]_vars

\* A thread inside a call keeps running; callers and the environment owe nothing.
FairSpec == Spec /\ WF_vars(Step)

-----------------------------------------------------------------------------
(* Properties *)

Ops == {"open", "enable", "disable", "program", "empty", "restore"}
Calls == [op : Ops, ptr : Offsets \cup {Spent}, next : {"add", "ok", "fail"}]

TypeOK ==
  /\ flash \in [Copies -> Table]
  /\ fw \in {"ok", "cpb0", "both"}
  /\ cpb \in Table
  /\ corrupted \in BOOLEAN /\ fixed \in BOOLEAN
  /\ pc \in {"down", "idle", "check", "remove", "add",
             "erase", "body", "magic", "write"}
  /\ job \in {"none", "load_cpb", "writeback_cpb", "update_cpb"}
  /\ todo \in SUBSET Copies
  /\ call \in Calls
  /\ committed \in Table /\ target \in Table
  /\ trusted \in BOOLEAN /\ interrupted \in BOOLEAN

\* At every instant, so after a power cut in the middle of any flash operation
\* too, one of the two copies is intact and holds the table from before or the
\* table from after the update in progress.
OneCopySurvives ==
  trusted => \E c \in Copies : /\ flash[c] \in {committed, target}
                               /\ Good(flash[c])

\* Between calls the copy in memory, which answers rsu_slot_priority and is the
\* base of the next update, is what both copies in flash hold.
MemoryMatchesFlash ==
  (trusted /\ Idle /\ ~corrupted) =>
    Good(cpb) /\ \A c \in Copies : flash[c] = cpb

\* The library calls the CPB corrupted only when a write to flash was cut short, or
\* the firmware reported a bad copy at the last boot.
CorruptedHasCause ==
  (trusted /\ corrupted) => interrupted \/ fw # "ok"

\* rsu_slot_enable's promise: when it returns 0 the slot has priority one, through
\* the removal of its old entry, compression and any repair on the way.
EnabledIsHighest ==
  (trusted /\ Idle /\ call.op = "enable" /\ call.next = "ok") =>
    Priority(cpb, call.ptr) = 1

\* A slot is in the list at most once (rsu_slot_disable clears one entry), and no
\* erased entry is below a written one (the entry added last is the highest).
ListWellFormed ==
  (trusted /\ Idle /\ ~corrupted) =>
    \A s, r \in Slots :
      s < r => /\ Live(cpb[s]) => cpb[s] # cpb[r]
               /\ cpb[s] = Erased => cpb[r] = Erased

\* A CPB that survived is never replaced by anything but the outcome of the
\* update in progress: loading settles on the table from before or from after.
SettlesOnOldOrNew ==
  [][(trusted /\ trusted' /\ committed' # committed) => committed' = target]_vars

\* Every call returns, unless the process or the board stops first.
CallsReturn == pc \notin {"idle", "down"} ~> pc \in {"idle", "down"}

-----------------------------------------------------------------------------
(* What comments and the public header say, and the code does not do *)

\* libRSU.h, rsu_slot_program_buf: "program a slot using FPGA config data from a
\* buffer and enter slot into CPB".
ProgrammedIsListed ==
  (Idle /\ call.op = "program" /\ call.next = "ok") => Priority(cpb, call.ptr) > 0

\* The comment above load_cpb: "When CPB_CORRUPTED flag is true, all CPB operations
\* are blocked except restore_cpb and empty_cpb."
CorruptedBlocksWrites ==
  [][(corrupted /\ flash' # flash) => call.op \in {"empty", "restore"}]_vars
=============================================================================
