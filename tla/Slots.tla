------------------------------- MODULE Slots -------------------------------
(***************************************************************************)
(* The slots as callers of libRSU.c have them: the partition table, the    *)
(* pointer block and the data in flash together, at the grain of one       *)
(* update of a table or one pass over a slot's data per step.              *)
(*                                                                         *)
(* Abstractions.                                                           *)
(*  - The two copies of a table are one, old or new after an update that   *)
(*    was cut short, as Spt and Cpb show; the next load may then also find *)
(*    two good copies that differ, and call the table corrupted.           *)
(*  - The pointer block is the sequence of its pointers, oldest first.     *)
(*  - A unit of a slot's data is erased, part of a bitstream for the place *)
(*    where it lies, or anything else (see Program for how it gets there). *)
(*  - A call that fails its first checks changes nothing and has no        *)
(*    action.  Backups name SPT0, SPT1, CPB0 and CPB1, and slots have a    *)
(*    length; Spt has the others.                                          *)
(***************************************************************************)
EXTENDS Tables, SequencesExt

CONSTANTS
  Provisioned,     \* the partition table of a new board
  Shipped,         \* the pointers of a new board, to slots that hold bitstreams
  Requests,        \* offset and length of the slots callers create
  SptBackups,      \* the tables rsu_restore_spt may be given
  CpbBackups,      \* the pointers rsu_restore_cpb may be given
  MaxPointers,     \* CPB_IMAGE_PTR_NSLOTS
  WriteProtected,  \* the slot numbers the configuration file protects
  MaxFaults        \* how often something outside the library fails

Offsets == {Provisioned[x].offset : x \in DOMAIN Provisioned}
           \cup {request.offset : request \in Requests}
           \cup UNION {{t[x].offset : x \in DOMAIN t} : t \in SptBackups}

ASSUME ProvisionedAssumption == Provisioned \in Table /\ CheckSpt(Provisioned)
ASSUME ShippedAssumption ==
  /\ Shipped \in Seq(Offsets)
  /\ \A k \in DOMAIN Shipped : \E x \in DOMAIN Provisioned :
       IsSlot(Provisioned[x]) /\ Provisioned[x].offset = Shipped[k]
  /\ \A j, k \in DOMAIN Shipped : j # k => Shipped[j] # Shipped[k]
ASSUME RequestsAssumption == Requests \subseteq [offset : Nat, length : Nat \ {0}]
ASSUME SptBackupsAssumption ==
  \A t \in SptBackups : t \in Table /\ \A name \in Critical : Named(t, name)
ASSUME LengthsAssumption ==
  \A t \in SptBackups \cup {Provisioned} : \A x \in DOMAIN t : t[x].length # 0
ASSUME CpbBackupsAssumption == CpbBackups \subseteq Seq(Offsets)
ASSUME MaxPointersAssumption == MaxPointers \in Nat
ASSUME WriteProtectedAssumption == WriteProtected \subseteq Nat
ASSUME MaxFaultsAssumption == MaxFaults \in Nat

VARIABLES
  table,         \* the partition table in flash
  pointers,      \* the pointer block in flash, which the firmware boots from
  data,          \* the slots' data in flash
  sptTorn,       \* an update of the partition table was cut short
  cpbTorn,       \* an update of the pointer block was cut short
  spt,           \* plat_database->spt
  cpb,           \* plat_database->cpb
  loaded,        \* it has been read, and plat_database->cpb_slots points into it
  sptCorrupted,  \* plat_database->spt_corrupted
  cpbCorrupted,  \* plat_database->cpb_corrupted
  up,            \* the library is initialized
  call,          \* the call in progress
  todo,          \* what it has still to do
  faults,        \* how often something has failed
  known,         \* history: the table whose slot numbers callers know
  vouched,       \* history: the pointers listed on a caller's word
  guarded,       \* history: the units that write protection covers
  checked        \* history: every table in use so far passes check_spt

flash == <<table, pointers, data, sptTorn, cpbTorn>>
memory == <<spt, cpb, loaded, sptCorrupted, cpbCorrupted>>
control == <<up, call, todo, faults>>
history == <<known, vouched, guarded, checked>>
vars == <<flash, memory, control, history>>

-----------------------------------------------------------------------------
(* Data *)

Units == UNION {t.offset .. (t.offset + t.length - 1) :
                  t \in Requests \cup {Provisioned[x] : x \in DOMAIN Provisioned}
                        \cup UNION {{b[x] : x \in DOMAIN b} : b \in SptBackups}}
Blank == <<"blank">>
Other == <<"other">>
Image(place) == <<"image", place>>

Region(p) == p.offset .. (p.offset + p.length - 1)
Fill(units, content) == [u \in Units |-> IF u \in units THEN content ELSE data[u]]

\* The units of region below limit hold content, and the one at limit is part done.
Partly(region, content) ==
  {[u \in Units |-> IF u \in region /\ u < limit THEN content
                    ELSE IF u = limit THEN Other ELSE data[u]] : limit \in region}

HasImage(t, place) ==
  \E x \in DOMAIN t : /\ t[x].offset = place
                      /\ \A u \in Region(t[x]) : data[u] = Image(place)

-----------------------------------------------------------------------------
(* The pointer block *)

Pointers(list) == {list[x] : x \in DOMAIN list}

\* check_cpb: every pointer leads to a partition that is not reserved.
CheckCpb(t, list) ==
  \A place \in Pointers(list) :
    \E x \in DOMAIN t :
      /\ t[x].offset = place /\ "reserved" \notin t[x].flags
      /\ \A y \in 1..(x - 1) : t[y].offset # place

\* priority_remove looks no further than the first pointer it finds.
Removed(list, place) ==
  LET first == CHOOSE x \in DOMAIN list :
                 list[x] = place /\ \A y \in 1..(x - 1) : list[y] # place
  IN  IF place \in Pointers(list) THEN RemoveAt(list, first) ELSE list

\* Mutant of PriorityGet: the oldest pointer comes first.
PriorityFromOldest(place) ==
  LET at == {x \in DOMAIN cpb : cpb[x] = place}
  IN  IF at = {} THEN 0 ELSE CHOOSE x \in at : \A y \in at : x <= y

\* priority_get counts from the newest pointer; 0 is none.
PriorityGet(place) ==
  LET at == {x \in DOMAIN cpb : cpb[x] = place}
  IN  IF at = {} THEN 0 ELSE Len(cpb) + 1 - CHOOSE x \in at : \A y \in at : x >= y

-----------------------------------------------------------------------------
(* What callers see of a slot *)

SlotCount == Cardinality({x \in DOMAIN spt : IsSlot(spt[x])})

\* rsu_slot_by_name; the numbers of the slots with this name.
SlotByName(name) ==
  {SlotNumber(spt, x) : x \in {y \in DOMAIN spt : IsSlot(spt[y]) /\ spt[y].name = name}}

SlotSize(n) == {spt[x].length : x \in Slot2Part(spt, n)}
SlotPriority(n) == {PriorityGet(spt[x].offset) : x \in Slot2Part(spt, n)}
SlotGetInfo(n) ==
  {[name |-> spt[x].name, offset |-> spt[x].offset, size |-> spt[x].length,
    priority |-> PriorityGet(spt[x].offset)] : x \in Slot2Part(spt, n)}

\* data_read goes through the table in memory.
DataRead(x) == [k \in 1..spt[x].length |-> data[spt[x].offset + k - 1]]

\* rsu_slot_copy_to_file leaves erased chunks out, and puts them back when more follows.
CopyToFile(n) ==
  {LET read == DataRead(x)
       file[k \in 0..Len(read)] ==
         IF k = 0 THEN <<>>
         ELSE IF read[k] = Blank THEN file[k - 1]
         ELSE file[k - 1] \o [gap \in 1..(k - 1 - Len(file[k - 1])) |-> Blank]
                          \o <<read[k]>>
   IN  file[Len(read)] :
     x \in {y \in Slot2Part(spt, n) : PriorityGet(spt[y].offset) > 0}}

CopyToBuf(n) ==
  {DataRead(x) : x \in {y \in Slot2Part(spt, n) : PriorityGet(spt[y].offset) > 0}}

\* Backups come from the first copy in flash, not from memory.
SavedSpt == table
SavedCpb == pointers
SaveSpt == IF sptCorrupted THEN {} ELSE {SavedSpt}
SaveCpb == IF cpbCorrupted THEN {} ELSE {SavedCpb}

-----------------------------------------------------------------------------
(* Beginning and end of a call *)

Idle == up /\ todo = <<>>
NoCall == [op |-> "none", slot |-> 0, part |-> 0, table |-> <<>>]

At(stage) == todo # <<>> /\ Head(todo) = stage
Return == todo' = <<>> /\ call' = NoCall
Proceed ==
  /\ UNCHANGED <<up, faults>>
  /\ IF Len(todo) = 1 THEN Return ELSE todo' = Tail(todo) /\ UNCHANGED call
Fail == Return /\ UNCHANGED <<up, faults>>

\* Flash, a file or the mailbox lets the call down.
Fault == faults < MaxFaults /\ faults' = faults + 1 /\ Return /\ UNCHANGED up

Begin(op, n, x, t, stages) ==
  /\ Idle
  /\ call' = [op |-> op, slot |-> n, part |-> x, table |-> t]
  /\ todo' = stages
  /\ UNCHANGED <<flash, memory, up, faults, history>>

\* The checks most calls begin with.  They do not see that the pointer block was never
\* read: a call that needs it then follows a null pointer, and the process dies.
Usable == ~sptCorrupted /\ ~cpbCorrupted /\ loaded

OnSlot(op, n, stages) ==
  \E x \in Slot2Part(spt, n) : Begin(op, n, x, <<>>, stages)
Place == spt[call.part].offset

-----------------------------------------------------------------------------
(* API calls of libRSU.c: what each checks, and the steps it takes in order *)

\* Mutant of SlotErase: protected slots too.
SlotEraseProtected(n) == Usable /\ OnSlot("erase", n, <<"remove", "erase">>)

SlotErase(n) ==
  Usable /\ n \notin WriteProtected /\ OnSlot("erase", n, <<"remove", "erase">>)

\* Mutant of SlotProgram: the slot is listed before it is written.
SlotProgramListed(n) ==
  /\ Usable /\ n \notin WriteProtected
  /\ SlotPriority(n) = {0}
  /\ OnSlot("program", n, <<"add", "write">>)

\* librsu_cb_program_common, for any source of data.
SlotProgram(n) ==
  /\ Usable /\ n \notin WriteProtected
  /\ SlotPriority(n) = {0}
  /\ OnSlot("program", n, <<"write", "add">>)

\* The raw calls look at the SPT only, the callback ones at neither table.
SlotProgramRaw(n) ==
  /\ ~sptCorrupted /\ loaded /\ n \notin WriteProtected
  /\ SlotPriority(n) = {0}
  /\ OnSlot("program raw", n, <<"write raw">>)

SlotDisable(n) == Usable /\ OnSlot("disable", n, <<"remove">>)
SlotEnable(n) == Usable /\ OnSlot("enable", n, <<"remove", "add">>)

\* Mutant of SlotDelete: the pointer stays.
SlotDeleteListed(n) ==
  /\ Usable /\ n \notin WriteProtected
  /\ \E x \in Slot2Part(spt, n) :
       Begin("delete", n, x, Without(spt, x), <<"erase", "edit">>)

\* rsu_slot_delete: out of the CPB, then the data, then the partition.
SlotDelete(n) ==
  /\ Usable /\ n \notin WriteProtected
  /\ \E x \in Slot2Part(spt, n) :
       Begin("delete", n, x, Without(spt, x), <<"remove", "erase", "edit">>)

SlotRename(n, name) ==
  /\ Usable /\ ~Named(spt, name)
  /\ \E x \in Slot2Part(spt, n) :
       Begin("rename", n, x, Renamed(spt, x, name), <<"edit">>)

SlotCreate(name, request) ==
  /\ Usable /\ ~Named(spt, name)
  /\ Len(spt) < MaxPartitions
  /\ \A x \in DOMAIN spt : ~Overlap(spt[x], NewSlot(name, request))
  /\ Begin("create", 0, 0, Append(spt, NewSlot(name, request)), <<"edit">>)

\* Neither looks at the state of any table.
RestoreSpt(t) == Begin("restore", 0, 0, t, <<"replace", "load_cpb">>)
RestoreSptFromBuf(t) == RestoreSpt(t)

\* Both replace the pointers as they are, and look at the SPT's state only; the one
\* from a buffer also wants a CPB that is not corrupted.
RestoreCpb(list) ==
  ~sptCorrupted /\ Begin("restore cpb", 0, 0, list, <<"restore cpb">>)
RestoreCpbFromBuf(list) == ~cpbCorrupted /\ RestoreCpb(list)
CreateEmptyCpb == ~sptCorrupted /\ Begin("empty cpb", 0, 0, <<>>, <<"restore cpb">>)

\* librsu_init.
Open ==
  /\ ~up
  /\ up' = TRUE
  /\ call' = [NoCall EXCEPT !.op = "open"]
  /\ todo' = <<"load_spt", "load_cpb">>
  /\ spt' = <<>> /\ cpb' = <<>> /\ loaded' = FALSE
  /\ sptCorrupted' = FALSE /\ cpbCorrupted' = FALSE
  /\ UNCHANGED <<flash, faults, history>>

\* librsu_init closes the library again when an error sets no flag.
Abort ==
  /\ faults < MaxFaults /\ faults' = faults + 1
  /\ up' = (call.op # "open")
  /\ Return

-----------------------------------------------------------------------------
(* Updates of the pointer block *)

\* History: places are listed on a caller's word, like those that were and still are,
\* in flash or in the copy that the next update writes there, and like those of which
\* memory lost sight when neither the update nor the load after it went through.
Vouch(places) ==
  vouched' = (vouched \cap (Pointers(pointers') \cup Pointers(cpb'))) \cup places
             \cup (Pointers(pointers') \ Pointers(cpb'))

\* update_cpb or writeback_cpb, then load_cpb, which finds what was written unless it
\* cannot ask the firmware for its state.
SetPointers(list) ==
  /\ pointers' = list /\ cpb' = list
  /\ cpbTorn' = FALSE
  /\ \/ CheckCpb(spt, list) /\ Proceed /\ UNCHANGED cpbCorrupted
     \/ ~CheckCpb(spt, list) /\ cpbCorrupted' = TRUE /\ Fail
     \/ Fault /\ UNCHANGED cpbCorrupted
  /\ UNCHANGED <<table, data, sptTorn, spt, loaded, sptCorrupted, known, guarded,
                 checked>>

\* The write is cut short, or meets what an earlier one left; memory holds what flash
\* does, or what was to be written.
SetPointersFails(list) ==
  /\ pointers' \in {pointers, list} /\ cpb' \in {pointers', list}
  /\ cpbTorn' = TRUE
  /\ cpbCorrupted' \in BOOLEAN
  /\ Fault \/ (cpbTorn /\ Fail)
  /\ UNCHANGED <<table, data, sptTorn, spt, loaded, sptCorrupted, known, guarded,
                 checked>>

RemovePointer ==
  /\ At("remove")
  /\ LET list == Removed(cpb, Place)
     IN  (SetPointers(list) \/ SetPointersFails(list)) /\ Vouch({})

\* A slot is listed on the caller's word when it is enabled, and when an edit of the
\* partition table has failed, so that flash may not have it.
AddPointer ==
  /\ At("add")
  /\ Len(cpb) < MaxPointers
  /\ LET list == Append(cpb, Place)
     IN  /\ SetPointers(list) \/ SetPointersFails(list)
         /\ Vouch(IF call.op = "enable" \/ spt[call.part] \notin ToSet(table)
                  THEN {Place} ELSE {})

\* Compressing gains no room: memory is compressed, and nothing is written.
AddPointerFails ==
  /\ At("add")
  /\ Len(cpb) >= MaxPointers
  /\ Fail
  /\ UNCHANGED <<flash, memory, history>>

\* restore_cpb_* and empty_cpb do not load the table again.
ReplacePointers ==
  /\ At("restore cpb")
  /\ \/ /\ pointers' = call.table /\ cpb' = call.table /\ loaded' = TRUE
        /\ cpbTorn' = FALSE /\ cpbCorrupted' = FALSE
        /\ Proceed
     \/ /\ pointers' \in {pointers, call.table} /\ cpb' = call.table
        /\ cpbTorn' = TRUE
        /\ Fault
        /\ UNCHANGED <<loaded, cpbCorrupted>>
  /\ UNCHANGED <<table, data, sptTorn, spt, sptCorrupted, known, guarded, checked>>
  /\ Vouch(Pointers(call.table))

\* load_cpb, as librsu_init and rsu_restore_spt call it.
LoadCpb ==
  /\ At("load_cpb")
  /\ CheckCpb(spt, pointers)
  /\ cpb' = pointers /\ loaded' = TRUE
  /\ cpbTorn' = FALSE
  /\ Proceed
  /\ UNCHANGED <<table, pointers, data, sptTorn, spt, sptCorrupted, cpbCorrupted, known,
                 guarded, checked>>
  /\ Vouch({})

LoadCpbCorrupted ==
  /\ At("load_cpb")
  /\ ~CheckCpb(spt, pointers) \/ cpbTorn
  /\ cpbCorrupted' = TRUE /\ loaded' = FALSE
  /\ Proceed
  /\ UNCHANGED <<flash, spt, cpb, sptCorrupted, history>>

LoadCpbFails ==
  /\ At("load_cpb")
  /\ Abort
  /\ UNCHANGED <<flash, memory, history>>

-----------------------------------------------------------------------------
(* Updates of the partition table *)

\* History: the units of the slots that write protection covers in t.
Protected(t) ==
  UNION {Region(t[x]) : x \in UNION {Slot2Part(t, n) : n \in WriteProtected}}

\* History: a call that succeeds tells callers which slots there are; protection goes
\* by number, and stays with the units whose number is still protected.
Learn(t) == known' = t /\ guarded' = guarded \cap Protected(t)

\* Everything listed is on the word of the caller who replaces the table.
Distrust(t) ==
  /\ vouched' = Pointers(pointers) \cup Pointers(cpb)
  /\ guarded' = IF CheckSpt(t) THEN guarded \cap Protected(t) ELSE {}
  /\ checked' = (checked /\ CheckSpt(t))

\* writeback_spt, then load_spt, for rename, delete and create.
Edit ==
  /\ At("edit")
  /\ table' = call.table /\ spt' = call.table
  /\ sptTorn' = FALSE
  /\ IF CheckSpt(call.table) THEN Proceed /\ UNCHANGED sptCorrupted
     ELSE sptCorrupted' = TRUE /\ Fail
  /\ Learn(call.table)
  /\ UNCHANGED <<pointers, data, cpbTorn, cpb, loaded, cpbCorrupted, vouched, checked>>

\* Mutant of EditFails: the call goes on as if flash had the edit.
EditFailsUnseen ==
  /\ At("edit")
  /\ table' \in {table, call.table} /\ spt' = call.table
  /\ sptTorn' = FALSE
  /\ Proceed
  /\ guarded' = guarded \cap Protected(call.table)
  /\ UNCHANGED <<pointers, data, cpbTorn, cpb, loaded, sptCorrupted, cpbCorrupted,
                 known, vouched, checked>>

\* Memory keeps the edit that flash may not have; callers know of nothing.
EditFails ==
  /\ At("edit")
  /\ table' \in {table, call.table} /\ spt' = call.table
  /\ sptTorn' = TRUE
  /\ Fault
  /\ guarded' = guarded \cap Protected(call.table)
  /\ UNCHANGED <<pointers, data, cpbTorn, cpb, loaded, sptCorrupted, cpbCorrupted,
                 known, vouched, checked>>

\* restore_spt_*: no check, and both tables count as good again before load_cpb runs.
Replace ==
  /\ At("replace")
  /\ table' = call.table /\ spt' = call.table
  /\ sptTorn' = FALSE
  /\ sptCorrupted' = FALSE /\ cpbCorrupted' = FALSE
  /\ Proceed
  /\ known' = call.table
  /\ Distrust(call.table)
  /\ UNCHANGED <<pointers, data, cpbTorn, cpb, loaded>>

ReplaceFails ==
  /\ At("replace")
  /\ table' \in {table, call.table} /\ spt' = call.table
  /\ sptTorn' = TRUE
  /\ Fault
  /\ Distrust(call.table)
  /\ UNCHANGED <<pointers, data, cpbTorn, cpb, loaded, sptCorrupted, cpbCorrupted, known>>

LoadSpt ==
  /\ At("load_spt")
  /\ CheckSpt(table)
  /\ spt' = table /\ sptTorn' = FALSE
  /\ Proceed
  /\ known' = table /\ guarded' = Protected(table)
  /\ UNCHANGED <<table, pointers, data, cpbTorn, cpb, loaded, sptCorrupted, cpbCorrupted,
                 vouched, checked>>

\* Both copies are bad, or differ: librsu_init does not load the pointers then.
LoadSptCorrupted ==
  /\ At("load_spt")
  /\ ~CheckSpt(table) \/ sptTorn
  /\ sptCorrupted' = TRUE /\ cpbCorrupted' = TRUE
  /\ Fail
  /\ guarded' = {}
  /\ UNCHANGED <<flash, spt, cpb, loaded, known, vouched, checked>>

LoadSptFails ==
  /\ At("load_spt")
  /\ Abort
  /\ UNCHANGED <<flash, memory, history>>

-----------------------------------------------------------------------------
(* The slots' data *)

DataUnchanged == UNCHANGED <<table, pointers, sptTorn, cpbTorn, memory, history>>

\* Mutant of EraseData: one unit too many.
EraseBeyond ==
  /\ At("erase")
  /\ data' = Fill(Region(spt[call.part]) \cup {Place + spt[call.part].length}, Blank)
  /\ Proceed
  /\ DataUnchanged

EraseData ==
  /\ At("erase")
  /\ data' = Fill(Region(spt[call.part]), Blank)
  /\ Proceed
  /\ DataUnchanged

EraseFails ==
  /\ At("erase")
  /\ data' \in Partly(Region(spt[call.part]), Blank)
  /\ Fault
  /\ DataUnchanged

\* The blocks of a bitstream, relocated to the slot, go over erased flash.
WriteData ==
  /\ At("write")
  /\ \A u \in Region(spt[call.part]) : data[u] \in {Blank, Image(Place)}
  /\ data' = Fill(Region(spt[call.part]), Image(Place))
  /\ Proceed
  /\ DataUnchanged

WriteRaw ==
  /\ At("write raw")
  /\ \A u \in Region(spt[call.part]) : data[u] \in {Blank, Other}
  /\ data' = Fill(Region(spt[call.part]), Other)
  /\ Proceed
  /\ DataUnchanged

\* A block is refused, cannot be written, or does not read back as it was written.
WriteFails ==
  /\ At("write") \/ At("write raw")
  /\ data' \in Partly(Region(spt[call.part]), IF At("write") THEN Image(Place) ELSE Other)
  /\ Fail
  /\ DataUnchanged

-----------------------------------------------------------------------------
(* Environment *)

\* The process ends, or power fails, before a step or on its way.
Crash ==
  /\ up
  /\ faults < MaxFaults /\ faults' = faults + 1
  /\ up' = FALSE /\ Return
  /\ sptTorn' = (sptTorn \/ At("edit") \/ At("replace"))
  /\ cpbTorn' = (cpbTorn \/ At("remove") \/ At("add") \/ At("restore cpb"))
  /\ data' \in {data}
       \cup (IF At("erase") THEN Partly(Region(spt[call.part]), Blank) ELSE {})
       \cup (IF At("write") THEN Partly(Region(spt[call.part]), Image(Place)) ELSE {})
       \cup (IF At("write raw") THEN Partly(Region(spt[call.part]), Other) ELSE {})
  /\ spt' = <<>> /\ cpb' = <<>> /\ loaded' = FALSE
  /\ sptCorrupted' = FALSE /\ cpbCorrupted' = FALSE
  /\ IF At("replace") THEN Distrust(call.table)
     ELSE UNCHANGED <<vouched, guarded, checked>>
  /\ UNCHANGED <<table, pointers, known>>

-----------------------------------------------------------------------------
(* Specification *)

Init ==
  /\ table = Provisioned /\ pointers = Shipped
  /\ data = [u \in Units |->
               LET listed == {x \in DOMAIN Provisioned :
                                Provisioned[x].offset \in Pointers(Shipped)
                                /\ u \in Region(Provisioned[x])}
               IN  IF listed = {} THEN Blank
                   ELSE Image(Provisioned[CHOOSE x \in listed : TRUE].offset)]
  /\ sptTorn = FALSE /\ cpbTorn = FALSE
  /\ spt = <<>> /\ cpb = <<>> /\ loaded = FALSE
  /\ sptCorrupted = FALSE /\ cpbCorrupted = FALSE
  /\ up = FALSE /\ call = NoCall /\ todo = <<>> /\ faults = 0
  /\ known = Provisioned /\ vouched = {} /\ guarded = {} /\ checked = TRUE

Step ==
  \/ LoadSpt \/ LoadSptCorrupted \/ LoadSptFails
  \/ LoadCpb \/ LoadCpbCorrupted \/ LoadCpbFails
  \/ RemovePointer \/ AddPointer \/ AddPointerFails \/ ReplacePointers
  \/ Edit \/ EditFails \/ Replace \/ ReplaceFails
  \/ EraseData \/ EraseFails \/ WriteData \/ WriteRaw \/ WriteFails

Api ==
  \/ Open
  \/ \E n \in 0..(MaxPartitions - 1) :
       \/ SlotErase(n) \/ SlotProgram(n) \/ SlotProgramRaw(n)
       \/ SlotDisable(n) \/ SlotEnable(n) \/ SlotDelete(n)
       \/ \E name \in SlotNames : SlotRename(n, name)
  \/ \E name \in SlotNames, request \in Requests : SlotCreate(name, request)
  \/ \E t \in SptBackups : RestoreSpt(t) \/ RestoreSptFromBuf(t)
  \/ \E list \in CpbBackups : RestoreCpb(list) \/ RestoreCpbFromBuf(list)
  \/ CreateEmptyCpb

Next == Step \/ Api \/ Crash

Spec == Init /\ [][Next]_vars

-----------------------------------------------------------------------------
(* Properties *)

\* Every pointer the firmware may follow leads to a partition of the table in flash,
\* at every instant of every call and after every crash, unless a caller listed that
\* pointer: by enabling the slot, by restoring a table, or by going on after an edit of
\* the partition table had failed.
MenuPointsToSlots ==
  \A place \in Pointers(pointers) \ vouched :
    \E x \in DOMAIN table : IsSlot(table[x]) /\ table[x].offset = place

\* What the firmware may boot is a whole bitstream, relocated to where it lies, unless
\* a caller listed it by rsu_slot_enable or by restoring a table.
ListedHasImage ==
  checked => \A place \in Pointers(pointers) \ vouched : HasImage(table, place)

\* The call that changes data changes only the slot its caller named, also when slots
\* before it were deleted, renamed or created; not so when an edit has failed and its
\* caller repeats it, because memory numbers the slots without it.
EditsSlotMeant ==
  [][(checked /\ known = spt) =>
       \A u \in Units : data'[u] # data[u] =>
         \E x \in Slot2Part(known, call.slot) : u \in Region(known[x])]_vars

\* The data of a write protected slot never changes, as long as it keeps its number.
ProtectedDataKept == [][\A u \in guarded : data'[u] = data[u]]_vars

Agreed ==
  Idle /\ Usable /\ known = spt /\ ~sptTorn /\ ~cpbTorn

\* Between calls a caller sees what flash holds: as many slots as there are, each by
\* the number its name is found under, with its priority the place in the firmware's
\* order, and its data in a copy of it, to the last chunk that is not erased.  A backup
\* has all of this, and would be accepted again.
CallersSeeFlash ==
  (Agreed /\ checked) =>
    /\ SaveSpt = {spt} /\ CheckSpt(spt)
    /\ SaveCpb = {cpb} /\ (Pointers(cpb) \cap vouched = {} => CheckCpb(spt, cpb))
    /\ SlotCount = Cardinality({x \in DOMAIN table : IsSlot(table[x])})
    /\ \A n \in 0..(SlotCount - 1) : \E x \in DOMAIN table :
         LET p == table[x]
             priority == PriorityGet(p.offset)
         IN  /\ SlotSize(n) = {p.length}
             /\ SlotGetInfo(n) = {[name |-> p.name, offset |-> p.offset,
                                   size |-> p.length, priority |-> priority]}
             /\ SlotByName(p.name) = {n}
             /\ IF priority = 0 THEN p.offset \notin Pointers(pointers)
                ELSE pointers[Len(pointers) + 1 - priority] = p.offset
             /\ \A file \in CopyToFile(n), buf \in CopyToBuf(n) :
                  \A k \in DOMAIN buf :
                    /\ buf[k] = data[p.offset + k - 1]
                    /\ buf[k] = IF k <= Len(file) THEN file[k] ELSE Blank
=============================================================================
