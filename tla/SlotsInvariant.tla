--------------------------- MODULE SlotsInvariant ---------------------------
(***************************************************************************)
(* The inductive invariants behind Slots' properties: what a call in       *)
(* progress has still to do, that the partition it works on is the slot    *)
(* its caller named, that write protection covers what it did, that what   *)
(* the pointers lead to is in both tables and full of a bitstream, and     *)
(* that the tables in memory are those in flash.                           *)
(***************************************************************************)
EXTENDS Slots

DataStages == {"erase", "write", "write raw"}
Stages == DataStages \cup {"load_spt", "load_cpb", "remove", "add", "restore cpb", "edit",
                           "replace"}

Pending(stage) == \E k \in DOMAIN todo : todo[k] = stage

\* Every partition lies where data is.
Placed(t) == \A x \in DOMAIN t : Region(t[x]) \subseteq Units

TypeOK ==
  /\ table \in Table /\ Placed(table)
  /\ spt \in Table /\ Placed(spt)
  /\ sptCorrupted \in BOOLEAN /\ up \in BOOLEAN
  /\ todo \in Seq(Stages)
  /\ guarded \subseteq Units

\* The library works for a call only when it is initialized; nothing but the load of
\* the pointer block follows a change of the partition table, and the load of that
\* table comes first.
PlanFits ==
  /\ todo # <<>> => up
  /\ \A j, k \in DOMAIN todo :
       (todo[j] \in {"edit", "replace", "load_spt"} /\ j < k) => todo[k] = "load_cpb"
  /\ \A k \in DOMAIN todo : todo[k] = "load_spt" => k = 1

\* What a step relies on was so when the call began, and still is.
CallFits ==
  /\ \A stage \in DataStages : Pending(stage) =>
       /\ call.part \in Slot2Part(spt, call.slot)
       /\ call.slot \notin WriteProtected /\ ~sptCorrupted
  /\ Pending("edit") =>
       /\ call.table \in Table /\ Placed(call.table)
       /\ CheckSpt(spt) => CheckSpt(call.table)
  /\ Pending("replace") => call.table \in SptBackups
  /\ Pending("load_spt") => call.op = "open"

\* What is guarded lies in slots whose numbers are protected, of a table without
\* overlaps.
Covered ==
  (up /\ ~Pending("load_spt") /\ ~sptCorrupted /\ guarded # {}) =>
    CheckSpt(spt) /\ guarded \subseteq Protected(spt)

IInv == TypeOK /\ PlanFits /\ CallFits /\ Covered

-----------------------------------------------------------------------------
(* The pointers *)

SlotAt(t, place) == \E x \in DOMAIN t : IsSlot(t[x]) /\ t[x].offset = place

\* No two elements of list are alike, but for members of but.
Once(list, but) ==
  \A j, k \in DOMAIN list : (j # k /\ list[j] = list[k]) => list[j] \in but

\* A pointer is removed first, added last, and it is the slot's.
MenuPlan ==
  /\ pointers \in Seq(Nat) /\ cpb \in Seq(Nat)
  /\ \A k \in DOMAIN todo :
       /\ todo[k] = "remove" => k = 1
       /\ todo[k] \in {"add", "restore cpb", "load_cpb"} => k = Len(todo)
  /\ (Pending("remove") \/ Pending("add")) => call.part \in Slot2Part(spt, call.slot)
  /\ Pending("restore cpb") => call.table \in Seq(Nat)

\* The pointers in flash and in memory that the library answers for.
Answered == (Pointers(pointers) \cup Pointers(cpb)) \ vouched

\* The partition table in memory has been read.
InUse == up /\ ~Pending("load_spt") /\ ~sptCorrupted

\* They lead to slots, of the table in flash and of the one in memory.
MenuFits ==
  \A place \in Answered : SlotAt(table, place) /\ (InUse => SlotAt(spt, place))

\* No list has one of them twice, so that removing it once is enough.
ListedOnce == Once(pointers, vouched) /\ Once(cpb, vouched)

\* The table an edit is about to write has their slots, but for the one whose pointer
\* the call removes first; what rsu_slot_program_* adds is not there yet.
MenuKept ==
  /\ Pending("edit") =>
       \A place \in Answered :
         SlotAt(call.table, place) \/ (At("remove") /\ place = Place)
  /\ (Pending("add") /\ call.op # "enable") => Place \notin Pointers(cpb)

MenuInv == MenuPlan /\ MenuFits /\ ListedOnce /\ MenuKept
-----------------------------------------------------------------------------
(* The data *)

Extent(place, length) == place .. (place + length - 1)

SlotFills(t, place, length) ==
  \E x \in DOMAIN t : IsSlot(t[x]) /\ t[x].offset = place /\ t[x].length = length

\* A slot is listed after it was written, and after nothing else was done to its data.
ImagePlan ==
  Pending("add") => \A k \in DOMAIN todo : todo[k] \in {"remove", "write", "add"}

\* The tables in use pass check_spt, so that slots have no unit in common.
TablesValid ==
  /\ CheckSpt(table)
  /\ InUse => CheckSpt(spt)
  /\ Pending("edit") => CheckSpt(call.table)

\* Where a pointer leads there is a slot, as long in flash as in memory and in the table
\* an edit is about to write, and it is full of a bitstream for that place.
ImagesWhole ==
  \A place \in Answered : \E length \in Nat :
    /\ SlotFills(table, place, length)
    /\ InUse => SlotFills(spt, place, length)
    /\ Pending("edit") =>
         SlotFills(call.table, place, length) \/ (At("remove") /\ place = Place)
    /\ \A u \in Extent(place, length) : data[u] = Image(place)

\* The pointers that memory has not lost sight of are in flash and in memory.
MemoryHasAll == loaded => Pointers(pointers) \subseteq Pointers(cpb) \cup vouched

\* What a call changes is not listed while it does.
Unlisted ==
  ( \/ Pending("erase") /\ ~At("remove")
    \/ Pending("write") \/ Pending("write raw") ) => Place \notin Answered

\* What a call is about to list is written.
Written ==
  (Pending("add") /\ ~Pending("write") /\ call.op # "enable") =>
    \A u \in Region(spt[call.part]) : data[u] = Image(Place)

ImageInv ==
  /\ ImagePlan /\ MemoryHasAll /\ Unlisted /\ Written
  /\ checked => TablesValid /\ ImagesWhole

-----------------------------------------------------------------------------
(* What callers see *)

\* No partition is empty, so that no two begin at the same place.
Long(t) == \A x \in DOMAIN t : t[x].length # 0

\* Memory has what flash has, unless an update was cut short.
SeenInv ==
  /\ (InUse /\ ~sptTorn) => spt = table
  /\ (loaded /\ ~cpbTorn) => cpb = pointers
  /\ Long(table) /\ Long(spt)
  /\ Pending("edit") => Long(call.table)
=============================================================================
