---------------------------- MODULE SlotsImages ----------------------------
(***************************************************************************)
(* What the firmware may boot and what callers see: the slots that the     *)
(* pointers in flash lead to are full of a bitstream for the place where   *)
(* they lie, as long as every table in use passes check_spt, and the       *)
(* getters, copies and backups tell what flash holds, for every set of     *)
(* names, requested slots and backups, any provisioned table and pointers  *)
(* that fit, any number of pointers and of faults.  The last section shows *)
(* that the partition table, seen through whole calls, implements Durable. *)
(***************************************************************************)
EXTENDS SlotsSafety, SlotsImplements

USE SlotNamesAssumption, RequestsAssumption

-----------------------------------------------------------------------------
(* Lemmas about tables *)

\* What one slot fills, no other partition of a valid table reaches.
LEMMA FillsApart ==
  ASSUME NEW t \in Table, CheckSpt(t), NEW x \in DOMAIN t,
         NEW place, NEW length, SlotFills(t, place, length), place # t[x].offset
  PROVE  Extent(place, length) \cap Region(t[x]) = {}
<1>1. PICK y \in DOMAIN t : t[y].offset = place /\ t[y].length = length
  BY DEF SlotFills
<1>2. ~Overlap(t[x], t[y])
  BY <1>1 DEF CheckSpt
<1>3. /\ t[x].offset \in Nat /\ t[x].length \in Nat
      /\ t[y].offset \in Nat /\ t[y].length \in Nat
  BY TableFacts DEF Partition
<1> QED
  BY <1>1, <1>2, <1>3 DEF Overlap, Region, Extent

LEMMA FillsPlaced ==
  ASSUME NEW t, Placed(t), NEW place, NEW length, SlotFills(t, place, length)
  PROVE  Extent(place, length) \subseteq Units
BY DEF SlotFills, Placed, Extent, Region

\* An edit keeps the slots of a table as they lie, but for the one it deletes.
LEMMA EditsKeepFills ==
  ASSUME NEW t \in Table, NEW place, NEW length, SlotFills(t, place, length)
  PROVE  /\ \A x \in DOMAIN t :
              place # t[x].offset => SlotFills(Without(t, x), place, length)
         /\ \A x \in DOMAIN t, name \in SlotNames :
              IsSlot(t[x]) => SlotFills(Renamed(t, x, name), place, length)
         /\ \A name \in SlotNames, request \in Requests :
              SlotFills(Append(t, NewSlot(name, request)), place, length)
<1>1. PICK z \in DOMAIN t : IsSlot(t[z]) /\ t[z].offset = place /\ t[z].length = length
  BY DEF SlotFills
<1>2. ASSUME NEW x \in DOMAIN t, place # t[x].offset
      PROVE  SlotFills(Without(t, x), place, length)
  <2>1. z \in DOMAIN t \ {x}
    BY <1>1, <1>2
  <2>2. PICK y \in DOMAIN Without(t, x) : Without(t, x)[y] = t[z]
    BY <2>1, WithoutFacts
  <2> QED
    BY <1>1, <2>2 DEF SlotFills
<1>3. ASSUME NEW x \in DOMAIN t, NEW name \in SlotNames, IsSlot(t[x])
      PROVE  SlotFills(Renamed(t, x, name), place, length)
  <2> DEFINE u == Renamed(t, x, name)
  <2>1. z \in DOMAIN u /\ u[z] = IF z = x THEN [t[x] EXCEPT !.name = name] ELSE t[z]
    BY RenamedFacts
  <2> HIDE DEF u
  <2>2. t[x] \in Partition
    BY TableFacts
  <2>3. /\ [t[x] EXCEPT !.name = name].flags = t[x].flags
        /\ [t[x] EXCEPT !.name = name].name = name
        /\ [t[x] EXCEPT !.name = name].offset = t[x].offset
        /\ [t[x] EXCEPT !.name = name].length = t[x].length
    BY <2>2 DEF Partition
  <2>4. IsSlot(u[z]) /\ u[z].offset = place /\ u[z].length = length
    BY <1>1, <1>3, <2>1, <2>3 DEF IsSlot
  <2> QED
    BY <2>1, <2>4 DEF SlotFills, u
<1>4. ASSUME NEW name \in SlotNames, NEW request \in Requests
      PROVE  SlotFills(Append(t, NewSlot(name, request)), place, length)
  <2> DEFINE p == NewSlot(name, request)
  <2>1. p \in Partition
    <3>1. request \in [offset : Nat, length : Nat]
      OBVIOUS
    <3> QED
      BY <3>1, NewSlotFacts
  <2> HIDE DEF p
  <2>2. z \in DOMAIN Append(t, p) /\ Append(t, p)[z] = t[z]
    BY <2>1, AppendedTable
  <2> QED
    BY <1>1, <2>2 DEF SlotFills, p
<1> QED
  BY <1>2, <1>3, <1>4

-----------------------------------------------------------------------------
(* Lemmas about steps *)

\* A call whose work is done has no part of the invariant left to keep but what the
\* tables and the data say.
LEMMA DoneFits ==
  ASSUME \A stage : Pending(stage)' => stage = "load_cpb"
  PROVE  ImagePlan' /\ Unlisted' /\ Written' /\ ~Pending("edit")'
<1>1. /\ ~Pending("add")' /\ ~Pending("erase")' /\ ~Pending("write")'
      /\ ~Pending("write raw")' /\ ~Pending("edit")'
  OBVIOUS
<1> QED
  BY <1>1 DEF ImagePlan, Unlisted, Written

\* A step takes the head off what is left to do, and nothing else.
LEMMA RestStays ==
  ASSUME IInv, ImagePlan, todo # <<>>, Proceed
  PROVE  /\ ImagePlan'
         /\ \A some, stage : (Pending(some)' /\ Pending(stage) /\ ~At(stage)) =>
              Pending(stage)'
<1>1. CASE Len(todo) = 1
  <2>1. \A stage : ~Pending(stage)'
    BY <1>1, LastStep
  <2> QED
    BY <2>1 DEF ImagePlan
<1>2. CASE Len(todo) # 1
  <2>1. todo' = Tail(todo)
    BY <1>2 DEF Proceed
  <2>2. /\ todo \in Seq(Stages) /\ Len(todo) \in Nat /\ DOMAIN todo = 1..Len(todo)
        /\ DOMAIN todo' = 1..(Len(todo) - 1) /\ Head(todo) = todo[1]
        /\ \A k \in DOMAIN todo' : k + 1 \in DOMAIN todo /\ todo'[k] = todo[k + 1]
    BY <2>1 DEF IInv, TypeOK
  <2>3. ImagePlan'
    BY <2>2 DEF ImagePlan, Pending
  <2>4. ASSUME NEW stage, Pending(stage), ~At(stage)
        PROVE  Pending(stage)'
    <3>1. PICK k \in DOMAIN todo : todo[k] = stage
      BY <2>4 DEF Pending
    <3>2. k # 1
      BY <2>2, <2>4, <3>1 DEF At
    <3>3. k - 1 \in DOMAIN todo' /\ todo'[k - 1] = stage
      BY <2>2, <3>1, <3>2
    <3> QED
      BY <3>3 DEF Pending
  <2> QED
    BY <2>3, <2>4
<1> QED
  BY <1>1, <1>2

\* What a pointer leads to does not change: the data of a call in progress are not
\* listed, and lie apart from what is.
LEMMA DataElsewhere ==
  ASSUME IInv, MenuPlan, Unlisted, TablesValid, [Next]_vars,
         NEW place \in Answered, NEW length \in Nat,
         SlotFills(table, place, length), InUse => SlotFills(spt, place, length),
         NEW u \in Extent(place, length)
  PROVE  data'[u] = data[u]
<1>1. SUFFICES ASSUME data'[u] # data[u]
               PROVE  FALSE
  OBVIOUS
<1>2. u \in Units
  BY FillsPlaced DEF IInv, TypeOK
<1>3. /\ call.part \in Slot2Part(spt, call.slot) /\ u \in Region(spt[call.part])
      /\ ~sptCorrupted /\ up /\ ~Pending("load_spt")
  BY <1>1, <1>2, ChangesNamed
<1>4. PICK stage \in DataStages : At(stage)
  BY <1>1, <1>2, DataChanges
<1>5. Pending(stage) /\ ~At("remove")
  BY <1>4, MenuHead DEF DataStages
<1>6. Place \notin Answered
  BY <1>5 DEF Unlisted, DataStages
<1>7. InUse /\ CheckSpt(spt) /\ spt \in Table /\ call.part \in DOMAIN spt
  BY <1>3 DEF InUse, TablesValid, IInv, TypeOK, Slot2Part
<1>8. place # spt[call.part].offset
  BY <1>6 DEF Place
<1> QED
  BY <1>3, <1>7, <1>8, FillsApart

\* Steps that list nothing new and edit no table.
LEMMA ImagesStay ==
  ASSUME IInv, MenuPlan, Unlisted, TablesValid, ImagesWhole, [Next]_vars,
         table' = table, InUse' => InUse /\ spt' = spt, Answered' \subseteq Answered,
         Pending("edit")' => /\ Pending("edit") /\ call' = call
                             /\ ~At("remove") \/ Place \notin Answered'
  PROVE  TablesValid' /\ ImagesWhole'
<1>1. TablesValid'
  BY DEF TablesValid
<1>2. ASSUME NEW place \in Answered'
      PROVE  \E length \in Nat :
               /\ SlotFills(table, place, length)'
               /\ InUse' => SlotFills(spt, place, length)'
               /\ Pending("edit")' =>
                    SlotFills(call.table, place, length)' \/ (At("remove")' /\ place = Place')
               /\ \A u \in Extent(place, length) : data'[u] = Image(place)
  <2>1. place \in Answered
    BY <1>2
  <2>2. PICK length \in Nat :
          /\ SlotFills(table, place, length)
          /\ InUse => SlotFills(spt, place, length)
          /\ Pending("edit") =>
               SlotFills(call.table, place, length) \/ (At("remove") /\ place = Place)
          /\ \A u \in Extent(place, length) : data[u] = Image(place)
    BY <2>1 DEF ImagesWhole
  <2>3. \A u \in Extent(place, length) : data'[u] = data[u]
    BY <2>1, <2>2, DataElsewhere
  <2>4. Pending("edit")' => SlotFills(call.table, place, length)'
    BY <1>2, <2>2 DEF SlotFills
  <2>5. SlotFills(table, place, length)' /\ (InUse' => SlotFills(spt, place, length)')
    BY <2>2 DEF SlotFills
  <2> QED
    BY <2>2, <2>3, <2>4, <2>5
<1>3. ImagesWhole'
  BY <1>2 DEF ImagesWhole, Extent, Image
<1> QED
  BY <1>1, <1>3

-----------------------------------------------------------------------------
(* Steps preserve the invariant *)

\* Steps that end the work of a call without a change of what is listed.
LEMMA QuietImage ==
  ASSUME IInv, MenuPlan, ImageInv, [Next]_vars,
         \A stage : Pending(stage)' => stage = "load_cpb",
         checked' => checked, MemoryHasAll', Answered' \subseteq Answered,
         table' = table, InUse' => InUse /\ spt' = spt
  PROVE  ImageInv'
<1>1. ImagePlan' /\ Unlisted' /\ Written' /\ ~Pending("edit")'
  BY DoneFits
<1>2. checked' => TablesValid' /\ ImagesWhole'
  BY <1>1, ImagesStay DEF ImageInv
<1> QED
  BY <1>1, <1>2 DEF ImageInv

LEMMA DataStepImage ==
  ASSUME IInv, MenuInv, ImageInv, [Next]_vars,
         EraseData \/ EraseFails \/ WriteData \/ WriteRaw \/ WriteFails
  PROVE  ImageInv'
<1>1. PICK stage \in DataStages : At(stage)
  BY DEF EraseData, EraseFails, WriteData, WriteRaw, WriteFails, DataStages
<1>2. /\ todo # <<>> /\ Pending(stage) /\ ~Pending("load_spt") /\ ~At("remove") /\ up
      /\ todo[1] = stage /\ 1 \in DOMAIN todo
  BY <1>1, MenuHead, HeadPending DEF MenuInv, DataStages, IInv
<1>3. UNCHANGED <<table, spt, sptCorrupted, pointers, cpb, loaded, vouched, checked>>
  BY DEF EraseData, EraseFails, WriteData, WriteRaw, WriteFails, DataUnchanged, memory,
     history
<1>4. /\ Answered' = Answered /\ (InUse' => InUse) /\ MemoryHasAll'
  BY <1>2, <1>3 DEF Answered, InUse, Pointers, ImageInv, MemoryHasAll
<1>5. CASE EraseFails \/ WriteFails
  <2>1. Return
    BY <1>5 DEF EraseFails, WriteFails, Fault, Fail
  <2> QED
    BY <1>3, <1>4, <2>1, ReturnFits, QuietImage DEF MenuInv
<1>6. CASE EraseData \/ WriteData \/ WriteRaw
  <2>1. Proceed
    BY <1>6 DEF EraseData, WriteData, WriteRaw
  <2>2. /\ ImagePlan'
        /\ \A some : Pending(some)' => Pending(some) /\ call' = call
    BY <1>2, <2>1, RestStays, StillPending DEF ImageInv
  <2>3. checked' => TablesValid' /\ ImagesWhole'
    BY <1>2, <1>3, <1>4, <2>2, ImagesStay DEF MenuInv, ImageInv
  <2>4. Unlisted'
    <3>1. SUFFICES ASSUME \/ Pending("erase")' /\ ~At("remove")'
                          \/ Pending("write")' \/ Pending("write raw")'
                   PROVE  Place' \notin Answered'
      BY DEF Unlisted
    <3>2. Place \notin Answered /\ call' = call
      BY <1>2, <2>2, <3>1 DEF ImageInv, Unlisted
    <3> QED
      BY <1>3, <1>4, <3>2 DEF Place
  <2>5. Written'
    <3>1. SUFFICES ASSUME Pending("add")'
                   PROVE  /\ \A u \in Region(spt[call.part]) : data'[u] = Image(Place)
                          /\ call' = call
      BY <1>3 DEF Written, Place, Image, Region
    <3>2. Pending("add") /\ call' = call
      BY <2>2, <3>1
    <3>3. stage = "write"
      BY <1>2, <3>2 DEF ImageInv, ImagePlan, DataStages
    <3>4. data' = Fill(Region(spt[call.part]), Image(Place))
      BY <1>1, <1>6, <3>3 DEF EraseData, WriteRaw, WriteData, At
    <3>5. Region(spt[call.part]) \subseteq Units
      BY <3>2 DEF MenuInv, MenuPlan, Slot2Part, IInv, TypeOK, Placed
    <3> QED
      BY <3>2, <3>4, <3>5 DEF Fill
  <2> QED
    BY <1>4, <2>2, <2>3, <2>4, <2>5 DEF ImageInv
<1> QED
  BY <1>5, <1>6

LEMMA VouchedHasAll ==
  ASSUME NEW places, Vouch(places)
  PROVE  MemoryHasAll'
BY DEF Vouch, MemoryHasAll

\* A pointer that is removed is not listed any more, or on a caller's word.
LEMMA RemoveImage ==
  ASSUME IInv, MenuInv, ImageInv, [Next]_vars, RemovePointer
  PROVE  ImageInv'
<1> DEFINE list == Removed(cpb, Place)
<1>1. /\ At("remove") /\ Vouch({})
      /\ SetPointers(list) \/ SetPointersFails(list)
  BY DEF RemovePointer
<1>2. todo # <<>> /\ ~Pending("load_spt") /\ up
  BY <1>1, MenuHead DEF MenuInv
<1>3. /\ Pointers(list) \subseteq Pointers(cpb)
      /\ Place \in Pointers(list) => Place \in vouched
  BY RemovedFacts DEF MenuInv, MenuPlan, ListedOnce
<1> HIDE DEF list
<1>4. /\ pointers' \in {pointers, list} /\ cpb' \in {pointers, list}
      /\ UNCHANGED <<table, spt, sptCorrupted, checked, data>>
      /\ Proceed \/ Return
  BY <1>1, Zenon DEF SetPointers, SetPointersFails, Fail, Fault, RemovePointer
<1>5. \/ pointers' = list /\ cpb' = list
      \/ \A stage : ~Pending(stage)'
  BY <1>1, ReturnFits DEF SetPointers, SetPointersFails, Fail, Fault
<1>6. vouched' = (vouched \cap (Pointers(pointers') \cup Pointers(cpb')))
                 \cup (Pointers(pointers') \ Pointers(cpb'))
  BY <1>1 DEF Vouch
<1>7. Answered' \subseteq Answered /\ Answered' \subseteq Pointers(cpb') \ vouched
  <2>1. Pointers(pointers') \cup Pointers(cpb') \subseteq Pointers(pointers) \cup Pointers(cpb)
    BY <1>3, <1>4
  <2> QED
    BY <1>6, <2>1 DEF Answered
<1>8. MemoryHasAll' /\ (InUse' => InUse)
  BY <1>1, <1>2, <1>4, VouchedHasAll DEF InUse
<1>9. CASE \A stage : ~Pending(stage)'
  BY <1>4, <1>7, <1>8, <1>9, QuietImage DEF MenuInv
<1>10. CASE cpb' = list /\ ~\A stage : ~Pending(stage)'
  <2>1. Proceed
    BY <1>4, <1>10, ReturnFits
  <2>2. /\ ImagePlan'
        /\ \A stage : Pending(stage)' => Pending(stage) /\ call' = call
        /\ Pending("write") => Pending("write")'
    <3>1. ~At("write")
      BY <1>1 DEF At
    <3> QED
      BY <1>2, <1>10, <2>1, <3>1, RestStays, StillPending DEF ImageInv
  <2>3. Place \notin Answered'
    BY <1>3, <1>7, <1>10
  <2>4. checked' => TablesValid' /\ ImagesWhole'
    BY <1>4, <1>7, <1>8, <2>2, <2>3, ImagesStay DEF MenuInv, ImageInv
  <2>5. Unlisted'
    BY <1>4, <1>10, <2>2, <2>3 DEF Unlisted, Place
  <2>6. Written'
    BY <1>4, <2>2 DEF ImageInv, Written, Place, Region, Image
  <2> QED
    BY <1>8, <2>2, <2>4, <2>5, <2>6 DEF ImageInv
<1> QED
  BY <1>5, <1>9, <1>10

\* What is added is a slot that was written, or on the caller's word.
LEMMA AddImage ==
  ASSUME IInv, MenuInv, ImageInv, [Next]_vars, AddPointer
  PROVE  ImageInv'
<1> DEFINE list == Append(cpb, Place)
           word == IF call.op = "enable" \/ spt[call.part] \notin ToSet(table)
                   THEN {Place} ELSE {}
           length == spt[call.part].length
<1>1. /\ At("add") /\ Vouch(word)
      /\ SetPointers(list) \/ SetPointersFails(list)
  BY DEF AddPointer
<1>2. todo # <<>> /\ ~Pending("load_spt") /\ up /\ Len(todo) = 1 /\ Pending("add")
  BY <1>1, MenuTail DEF MenuInv
<1>3. /\ call.part \in DOMAIN spt /\ IsSlot(spt[call.part])
      /\ Place \in Nat /\ length \in Nat
  <2>1. call.part \in DOMAIN spt /\ IsSlot(spt[call.part])
    BY <1>2 DEF MenuInv, MenuPlan, Slot2Part
  <2>2. spt[call.part] \in Partition
    BY <2>1, TableFacts DEF IInv, TypeOK
  <2> QED
    BY <2>1, <2>2 DEF Place, Partition
<1>4. SlotFills(spt, Place, length) /\ Region(spt[call.part]) = Extent(Place, length)
  BY <1>3 DEF SlotFills, Place, Region, Extent
<1>5. Place \notin word =>
        /\ SlotFills(table, Place, length)
        /\ \A u \in Extent(Place, length) : data[u] = Image(Place)
  <2>1. SUFFICES ASSUME call.op # "enable", spt[call.part] \in ToSet(table)
                 PROVE  /\ SlotFills(table, Place, length)
                        /\ \A u \in Extent(Place, length) : data[u] = Image(Place)
    OBVIOUS
  <2>2. \E x \in DOMAIN table : table[x] = spt[call.part]
    BY <2>1 DEF ToSet
  <2>3. ~Pending("write")
    <3>1. DOMAIN todo = {1} /\ todo[1] = "add"
      BY <1>1, <1>2, HeadPending DEF IInv, TypeOK
    <3> QED
      BY <3>1 DEF Pending
  <2>4. \A u \in Region(spt[call.part]) : data[u] = Image(Place)
    BY <1>2, <2>1, <2>3 DEF ImageInv, Written
  <2> QED
    BY <1>3, <1>4, <2>2, <2>4 DEF SlotFills, Place
<1>6. Pointers(list) = Pointers(cpb) \cup {Place}
  <2> DEFINE all == Pointers(cpb) \cup {Place}
  <2>1. cpb \in Seq(Nat) /\ Once(cpb, all)
    BY DEF MenuInv, MenuPlan, Once, Pointers
  <2> HIDE DEF all
  <2>2. Place \in all
    BY DEF all
  <2> QED
    BY <1>3, <2>1, <2>2, AppendedOnce
<1> HIDE DEF list, word
<1>7. /\ pointers' \in {pointers, list} /\ cpb' \in {pointers, list}
      /\ UNCHANGED <<table, spt, sptCorrupted, checked, data>>
      /\ Proceed \/ Return
  BY <1>1, Zenon DEF SetPointers, SetPointersFails, Fail, Fault
<1>8. vouched' = (vouched \cap (Pointers(pointers') \cup Pointers(cpb'))) \cup word
                 \cup (Pointers(pointers') \ Pointers(cpb'))
  BY <1>1 DEF Vouch
<1>9. \A stage : ~Pending(stage)'
  BY <1>2, <1>7, LastStep
<1>10. ASSUME NEW place \in Answered'
       PROVE  place \in Answered \/ (place = Place /\ Place \notin word)
  <2>1. place \in Pointers(cpb') /\ place \notin vouched /\ place \notin word
    BY <1>8, <1>10 DEF Answered
  <2>2. place \in Pointers(pointers) \cup Pointers(cpb) \cup {Place}
    BY <1>6, <1>7, <2>1
  <2> QED
    BY <2>1, <2>2 DEF Answered
<1>11. InUse' => InUse
  BY <1>2, <1>7 DEF InUse
<1>12. ASSUME checked, NEW place \in Answered'
       PROVE  \E size \in Nat :
                /\ SlotFills(table, place, size)
                /\ InUse => SlotFills(spt, place, size)
                /\ \A u \in Extent(place, size) : data[u] = Image(place)
  <2>1. CASE place \in Answered
    BY <1>12, <2>1 DEF ImageInv, ImagesWhole
  <2>2. CASE place = Place /\ Place \notin word
    <3> HIDE DEF length
    <3> QED
      BY <1>3, <1>4, <1>5, <2>2
  <2> QED
    BY <1>10, <2>1, <2>2
<1>13. checked' => TablesValid' /\ ImagesWhole'
  <2>1. checked' => TablesValid'
    BY <1>7, <1>9, <1>11 DEF ImageInv, TablesValid
  <2>2. checked => ImagesWhole'
    BY <1>7, <1>9, <1>11, <1>12 DEF ImagesWhole, SlotFills
  <2> QED
    BY <1>7, <2>1, <2>2
<1> QED
  BY <1>1, <1>9, <1>13, DoneFits, VouchedHasAll DEF ImageInv

\* Pointers of a backup are on the caller's word.
LEMMA ReplacePointersImage ==
  ASSUME IInv, MenuInv, ImageInv, [Next]_vars, ReplacePointers
  PROVE  ImageInv'
<1>1. At("restore cpb") /\ Vouch(Pointers(call.table))
  BY DEF ReplacePointers
<1>2. todo # <<>> /\ Len(todo) = 1 /\ ~Pending("load_spt") /\ up
  BY <1>1, MenuTail DEF MenuInv
<1>3. /\ pointers' \in {pointers, call.table} /\ cpb' = call.table
      /\ UNCHANGED <<table, spt, sptCorrupted, checked, data>>
      /\ Proceed \/ Return
  BY DEF ReplacePointers, Fault
<1>4. Answered' = {}
  BY <1>1, <1>3 DEF Answered, Vouch
<1>5. \A stage : ~Pending(stage)'
  BY <1>2, <1>3, LastStep
<1>6. InUse' => InUse
  BY <1>2, <1>3 DEF InUse
<1> QED
  BY <1>1, <1>3, <1>4, <1>5, <1>6, QuietImage, VouchedHasAll DEF MenuInv

LEMMA LoadImage ==
  ASSUME IInv, MenuInv, ImageInv, [Next]_vars,
         \/ LoadSpt \/ LoadSptCorrupted \/ LoadSptFails
         \/ LoadCpb \/ LoadCpbCorrupted \/ LoadCpbFails \/ AddPointerFails
  PROVE  ImageInv'
<1>1. CASE LoadSpt
  <2>1. At("load_spt") /\ todo # <<>> /\ \A stage : Pending(stage)' => stage = "load_cpb"
    BY <1>1, MenuHead, ProceedFits DEF LoadSpt, IInv, MenuInv
  <2>2. /\ CheckSpt(table) /\ spt' = table
        /\ UNCHANGED <<table, pointers, cpb, loaded, vouched, data, checked>>
    BY <1>1 DEF LoadSpt
  <2>3. MemoryHasAll' /\ Answered' = Answered
    BY <2>2 DEF ImageInv, MemoryHasAll, Answered, Pointers
  <2>4. ~Pending("edit")'
    BY <2>1
  <2>5. checked' => TablesValid' /\ ImagesWhole'
    <3>1. TablesValid'
      BY <2>2, <2>4 DEF TablesValid
    <3>2. checked => ImagesWhole'
      BY <2>2, <2>3, <2>4 DEF ImageInv, ImagesWhole, SlotFills
    <3> QED
      BY <2>2, <3>1, <3>2
  <2> QED
    BY <2>1, <2>3, <2>5, DoneFits DEF ImageInv
<1>2. CASE LoadCpb
  <2>1. At("load_cpb") /\ todo # <<>> /\ Len(todo) = 1 /\ up /\ ~Pending("load_spt")
    BY <1>2, MenuTail DEF LoadCpb, MenuInv
  <2>2. /\ Proceed /\ cpb' = pointers /\ Vouch({})
        /\ UNCHANGED <<table, pointers, spt, sptCorrupted, checked>>
    BY <1>2 DEF LoadCpb
  <2>3. Answered' \subseteq Answered
    BY <2>2 DEF Answered, Pointers, Vouch
  <2>4. \A stage : ~Pending(stage)'
    BY <2>1, <2>2, LastStep
  <2>5. InUse' => InUse
    BY <2>1, <2>2 DEF InUse
  <2> QED
    BY <2>2, <2>3, <2>4, <2>5, QuietImage, VouchedHasAll DEF MenuInv
<1>3. CASE LoadSptCorrupted \/ LoadSptFails
  <2>1. At("load_spt") /\ todo # <<>> /\ Pending("load_spt")
    BY <1>3, MenuHead DEF LoadSptCorrupted, LoadSptFails, MenuInv
  <2>2. /\ Return /\ UNCHANGED <<table, spt, pointers, cpb, loaded, vouched, checked>>
        /\ ~InUse'
    BY <1>3, <2>1 DEF LoadSptCorrupted, LoadSptFails, Fail, Abort, flash, memory, history,
       InUse, IInv, CallFits
  <2>3. MemoryHasAll' /\ Answered' = Answered
    BY <2>2 DEF ImageInv, MemoryHasAll, Answered, Pointers
  <2> QED
    BY <2>2, <2>3, ReturnFits, QuietImage DEF MenuInv
<1>4. CASE LoadCpbCorrupted \/ LoadCpbFails \/ AddPointerFails
  <2>1. /\ At("load_cpb") \/ At("add")
        /\ todo # <<>> /\ Len(todo) = 1 /\ up /\ ~Pending("load_spt")
    BY <1>4, MenuTail DEF LoadCpbCorrupted, LoadCpbFails, AddPointerFails, MenuInv
  <2>2. /\ Proceed \/ Return
        /\ UNCHANGED <<table, spt, pointers, cpb, vouched, sptCorrupted, checked>>
        /\ loaded' => loaded
    BY <1>4 DEF LoadCpbCorrupted, LoadCpbFails, AddPointerFails, Fail, Abort, flash, memory,
       history
  <2>3. MemoryHasAll' /\ Answered' = Answered
    BY <2>2 DEF ImageInv, MemoryHasAll, Answered, Pointers
  <2>4. InUse' => InUse
    BY <2>1, <2>2 DEF InUse
  <2> QED
    BY <2>1, <2>2, <2>3, <2>4, LastStep, QuietImage DEF MenuInv
<1> QED
  BY <1>1, <1>2, <1>3, <1>4

\* An edit of the partition table leaves the slots that are listed as they lie.
LEMMA EditImage ==
  ASSUME IInv, MenuInv, ImageInv, Edit \/ EditFails
  PROVE  ImageInv'
<1>1. /\ At("edit") /\ todo # <<>> /\ Pending("edit") /\ ~At("remove")
      /\ \A stage : Pending(stage)' => stage = "load_cpb"
  <2>1. At("edit") /\ (Proceed \/ Return)
    BY DEF Edit, EditFails, Fail, Fault
  <2>2. "edit" # "remove"
    OBVIOUS
  <2>3. todo # <<>> /\ Pending("edit") /\ ~At("remove")
    BY <2>1, <2>2, MenuHead DEF MenuInv
  <2> QED
    BY <2>1, <2>3, ProceedFits, ReturnFits DEF IInv
<1>2. /\ table' \in {table, call.table} /\ spt' = call.table
      /\ UNCHANGED <<pointers, cpb, loaded, vouched, data, checked>>
  BY DEF Edit, EditFails
<1>3. MemoryHasAll' /\ Answered' = Answered
  BY <1>2 DEF ImageInv, MemoryHasAll, Answered, Pointers
<1>4. ~Pending("edit")'
  BY <1>1
<1>5. checked => TablesValid'
  BY <1>1, <1>2, <1>4 DEF ImageInv, TablesValid
<1>6. checked => ImagesWhole'
  <2>1. ASSUME checked, NEW place \in Answered
        PROVE  \E length \in Nat :
                 /\ SlotFills(table', place, length)
                 /\ SlotFills(spt', place, length)
                 /\ \A u \in Extent(place, length) : data'[u] = Image(place)
    <3>1. PICK length \in Nat :
            /\ SlotFills(table, place, length)
            /\ SlotFills(call.table, place, length)
            /\ \A u \in Extent(place, length) : data[u] = Image(place)
      BY <1>1, <2>1 DEF ImageInv, ImagesWhole
    <3> QED
      BY <1>2, <3>1 DEF SlotFills
  <2> QED
    BY <1>3, <1>4, <2>1 DEF ImagesWhole, SlotFills, Extent, Image
<1> QED
  BY <1>1, <1>2, <1>3, <1>5, <1>6, DoneFits DEF ImageInv

LEMMA ReplaceImage ==
  ASSUME IInv, MenuInv, ImageInv, Replace \/ ReplaceFails
  PROVE  ImageInv'
<1>1. \A stage : Pending(stage)' => stage = "load_cpb"
  <2>1. At("replace") /\ (Proceed \/ Return)
    BY DEF Replace, ReplaceFails, Fault
  <2> QED
    BY <2>1, MenuHead, ProceedFits, ReturnFits DEF IInv, MenuInv
<1>2. /\ table' \in {table, call.table} /\ spt' = call.table
      /\ UNCHANGED <<pointers, cpb>>
      /\ vouched' = Pointers(pointers) \cup Pointers(cpb)
      /\ checked' = (checked /\ CheckSpt(call.table))
  BY DEF Replace, ReplaceFails, Distrust
<1>3. MemoryHasAll' /\ Answered' = {}
  BY <1>2 DEF MemoryHasAll, Answered, Pointers
<1>4. ~Pending("edit")'
  BY <1>1
<1>5. checked' => TablesValid'
  BY <1>2, <1>4 DEF ImageInv, TablesValid
<1> QED
  BY <1>1, <1>3, <1>5, DoneFits DEF ImageInv, ImagesWhole

LEMMA CrashImage ==
  ASSUME IInv, MenuInv, ImageInv, [Next]_vars, Crash
  PROVE  ImageInv'
<1>1. /\ up' = FALSE /\ Return /\ cpb' = <<>> /\ loaded' = FALSE
      /\ UNCHANGED <<table, pointers>>
      /\ vouched \cap Pointers(pointers) \subseteq vouched'
      /\ checked' => checked
  BY DEF Crash, Distrust
<1>2. DOMAIN cpb' = {} /\ \A stage : ~Pending(stage)'
  BY <1>1, ReturnFits
<1>3. Answered' \subseteq Answered /\ MemoryHasAll' /\ ~InUse'
  BY <1>1, <1>2 DEF Answered, Pointers, MemoryHasAll, InUse
<1> QED
  BY <1>1, <1>2, <1>3, QuietImage DEF MenuInv

LEMMA OpenImage ==
  ASSUME IInv, MenuInv, ImageInv, [Next]_vars, Open
  PROVE  ImageInv'
<1>1. /\ todo' = <<"load_spt", "load_cpb">> /\ cpb' = <<>> /\ loaded' = FALSE
      /\ UNCHANGED <<table, pointers, vouched, data, checked>>
  BY DEF Open, flash, history
<1>2. /\ DOMAIN todo' = 1..2 /\ todo'[1] = "load_spt" /\ todo'[2] = "load_cpb"
      /\ DOMAIN cpb' = {}
  BY <1>1
<1>3. Pending("load_spt")' /\ \A stage : Pending(stage)' => stage \in {"load_spt", "load_cpb"}
  BY <1>2 DEF Pending
<1>4. /\ ~Pending("add")' /\ ~Pending("erase")' /\ ~Pending("write")'
      /\ ~Pending("write raw")' /\ ~Pending("edit")'
  <2>1. \A stage \in {"add", "erase", "write", "write raw", "edit"} :
          stage \notin {"load_spt", "load_cpb"}
    OBVIOUS
  <2> QED
    BY <1>3, <2>1
<1>5. Answered' \subseteq Answered /\ MemoryHasAll' /\ ~InUse'
  BY <1>1, <1>2, <1>3 DEF Answered, Pointers, MemoryHasAll, InUse
<1>6. checked' => TablesValid' /\ ImagesWhole'
  BY <1>1, <1>4, <1>5, ImagesStay DEF MenuInv, ImageInv
<1> QED
  BY <1>4, <1>5, <1>6 DEF ImageInv, ImagePlan, Unlisted, Written

-----------------------------------------------------------------------------
(* Calls preserve the invariant *)

LEMMA HasElement ==
  ASSUME NEW S, NEW list \in Seq(S), NEW k \in DOMAIN list
  PROVE  list # <<>>
OBVIOUS

LEMMA BeginImage ==
  ASSUME IInv, MenuInv, ImageInv, [Next]_vars,
         NEW op, NEW n, NEW x, NEW t, NEW stages \in Seq(Stages),
         Begin(op, n, x, t, stages),
         (\E k \in DOMAIN stages : stages[k] = "add") =>
           \A k \in DOMAIN stages : stages[k] \in {"remove", "write", "add"},
         ( \/ (\E k \in DOMAIN stages : stages[k] = "erase") /\ Head(stages) # "remove"
           \/ \E k \in DOMAIN stages : stages[k] \in {"write", "write raw"} ) =>
           spt[x].offset \notin Answered,
         ( /\ \E k \in DOMAIN stages : stages[k] = "add"
           /\ \A k \in DOMAIN stages : stages[k] # "write" ) => op = "enable",
         (\E k \in DOMAIN stages : stages[k] = "edit") =>
           /\ InUse /\ (CheckSpt(spt) => CheckSpt(t))
           /\ \A place, length : SlotFills(spt, place, length) =>
                \/ SlotFills(t, place, length)
                \/ stages # <<>> /\ Head(stages) = "remove" /\ place = spt[x].offset
  PROVE  ImageInv'
<1>1. /\ todo = <<>> /\ up /\ up' = up /\ todo' = stages
      /\ call'.op = op /\ call'.slot = n /\ call'.part = x /\ call'.table = t
      /\ UNCHANGED <<table, spt, sptCorrupted, pointers, cpb, loaded, vouched, data, checked>>
  BY DEF Begin, Idle, flash, memory, history
<1>2. ImagePlan'
  BY <1>1 DEF ImagePlan, Pending
<1>3. Answered' = Answered /\ MemoryHasAll'
  <2>1. Answered' = Answered
    BY <1>1 DEF Answered, Pointers
  <2>2. MemoryHasAll'
    BY <1>1 DEF ImageInv, MemoryHasAll
  <2> QED
    BY <2>1, <2>2
<1>4. InUse' => InUse
  <2>1. ~Pending("load_spt")
    BY <1>1, NothingPending
  <2> QED
    BY <1>1, <2>1 DEF InUse
<1>5. Place' = spt[x].offset /\ call'.part = x /\ spt' = spt
  BY <1>1 DEF Place
<1>6. Unlisted'
  <2>1. ASSUME Pending("erase")', ~At("remove")'
        PROVE  (\E k \in DOMAIN stages : stages[k] = "erase") /\ Head(stages) # "remove"
    <3>1. \E k \in DOMAIN stages : stages[k] = "erase"
      BY <1>1, <2>1 DEF Pending
    <3>2. stages # <<>>
      BY <3>1, HasElement
    <3> QED
      BY <1>1, <2>1, <3>1, <3>2 DEF At
  <2>2. ASSUME Pending("write")' \/ Pending("write raw")'
        PROVE  \E k \in DOMAIN stages : stages[k] \in {"write", "write raw"}
    BY <1>1, <2>2 DEF Pending
  <2> QED
    BY <1>3, <1>5, <2>1, <2>2 DEF Unlisted
<1>7. Written'
  <2>1. SUFFICES ASSUME Pending("add")', ~Pending("write")'
                 PROVE  op = "enable"
    BY <1>1 DEF Written
  <2> QED
    BY <1>1, <2>1 DEF Pending
<1>8. Pending("edit")' => \E k \in DOMAIN stages : stages[k] = "edit"
  BY <1>1 DEF Pending
<1>9. checked => TablesValid'
  BY <1>1, <1>4, <1>8 DEF ImageInv, TablesValid
<1>10. checked => ImagesWhole'
  <2>1. ASSUME checked, NEW place \in Answered
        PROVE  \E length \in Nat :
                 /\ SlotFills(table', place, length)
                 /\ InUse' => SlotFills(spt', place, length)
                 /\ Pending("edit")' =>
                      \/ SlotFills(call'.table, place, length)
                      \/ At("remove")' /\ place = Place'
                 /\ \A u \in Extent(place, length) : data'[u] = Image(place)
    <3>1. PICK length \in Nat :
            /\ SlotFills(table, place, length)
            /\ InUse => SlotFills(spt, place, length)
            /\ \A u \in Extent(place, length) : data[u] = Image(place)
      BY <2>1 DEF ImageInv, ImagesWhole
    <3>2. ASSUME Pending("edit")'
          PROVE  \/ SlotFills(call'.table, place, length)
                 \/ At("remove")' /\ place = Place'
      <4>1. InUse /\ \/ SlotFills(t, place, length)
                     \/ /\ stages # <<>> /\ Head(stages) = "remove"
                        /\ place = spt[x].offset
        BY <1>8, <3>1, <3>2
      <4> QED
        BY <1>1, <1>5, <4>1 DEF At
    <3> QED
      BY <1>1, <1>4, <3>1, <3>2
  <2> QED
    BY <1>3, <2>1 DEF ImagesWhole, SlotFills, Extent, Image
<1> QED
  BY <1>1, <1>2, <1>3, <1>6, <1>7, <1>9, <1>10 DEF ImageInv

\* A slot of priority 0 is not listed, in memory or in flash.
LEMMA NotAnswered ==
  ASSUME MenuInv, ImageInv, loaded, NEW place, PriorityGet(place) = 0
  PROVE  place \notin Answered
<1>1. place \notin Pointers(cpb)
  BY NotListed DEF MenuInv, MenuPlan
<1> QED
  BY <1>1 DEF ImageInv, MemoryHasAll, Answered

\* Calls on one slot.
LEMMA OnSlotImage ==
  ASSUME IInv, MenuInv, ImageInv, [Next]_vars, NEW n,
         \/ SlotErase(n) \/ SlotProgram(n) \/ SlotProgramRaw(n)
         \/ SlotDisable(n) \/ SlotEnable(n)
  PROVE  ImageInv'
<1>1. CASE SlotErase(n)
  <2> DEFINE stages == <<"remove", "erase">>
  <2>1. PICK x \in Slot2Part(spt, n) : Begin("erase", n, x, <<>>, stages)
    BY <1>1 DEF SlotErase, OnSlot
  <2>2. /\ stages \in Seq(Stages) /\ DOMAIN stages = {1, 2} /\ Head(stages) = "remove"
        /\ stages[1] = "remove" /\ stages[2] = "erase"
    BY DEF Stages, DataStages
  <2> HIDE DEF stages
  <2> QED
    BY <2>1, <2>2, BeginImage
<1>2. CASE SlotProgram(n)
  <2> DEFINE stages == <<"write", "add">>
  <2>1. PICK x \in Slot2Part(spt, n) : Begin("program", n, x, <<>>, stages)
    BY <1>2 DEF SlotProgram, OnSlot
  <2>2. spt[x].offset \notin Answered
    BY <1>2, <2>1, NotAnswered DEF SlotProgram, SlotPriority, Usable
  <2>3. /\ stages \in Seq(Stages) /\ DOMAIN stages = {1, 2}
        /\ stages[1] = "write" /\ stages[2] = "add"
    BY DEF Stages, DataStages
  <2> HIDE DEF stages
  <2> QED
    BY <2>1, <2>2, <2>3, BeginImage
<1>3. CASE SlotProgramRaw(n)
  <2> DEFINE stages == <<"write raw">>
  <2>1. PICK x \in Slot2Part(spt, n) : Begin("program raw", n, x, <<>>, stages)
    BY <1>3 DEF SlotProgramRaw, OnSlot
  <2>2. spt[x].offset \notin Answered
    BY <1>3, <2>1, NotAnswered DEF SlotProgramRaw, SlotPriority
  <2>3. stages \in Seq(Stages) /\ DOMAIN stages = {1} /\ stages[1] = "write raw"
    BY OneStage DEF Stages, DataStages
  <2> HIDE DEF stages
  <2> QED
    BY <2>1, <2>2, <2>3, BeginImage
<1>4. CASE SlotDisable(n)
  <2> DEFINE stages == <<"remove">>
  <2>1. PICK x \in Slot2Part(spt, n) : Begin("disable", n, x, <<>>, stages)
    BY <1>4 DEF SlotDisable, OnSlot
  <2>2. stages \in Seq(Stages) /\ DOMAIN stages = {1} /\ stages[1] = "remove"
    BY OneStage DEF Stages
  <2> HIDE DEF stages
  <2> QED
    BY <2>1, <2>2, BeginImage
<1>5. CASE SlotEnable(n)
  <2> DEFINE stages == <<"remove", "add">>
  <2>1. PICK x \in Slot2Part(spt, n) : Begin("enable", n, x, <<>>, stages)
    BY <1>5 DEF SlotEnable, OnSlot
  <2>2. /\ stages \in Seq(Stages) /\ DOMAIN stages = {1, 2}
        /\ stages[1] = "remove" /\ stages[2] = "add"
    BY DEF Stages
  <2> HIDE DEF stages
  <2> QED
    BY <2>1, <2>2, BeginImage
<1> QED
  BY <1>1, <1>2, <1>3, <1>4, <1>5

\* Edits of the partition table keep it valid, and keep the slots that are listed.
LEMMA EditCallImage ==
  ASSUME IInv, MenuInv, ImageInv, [Next]_vars,
         \/ \E n : SlotDelete(n) \/ \E name \in SlotNames : SlotRename(n, name)
         \/ \E name \in SlotNames, request \in Requests : SlotCreate(name, request)
  PROVE  ImageInv'
<1>1. InUse /\ spt \in Table /\ Placed(spt)
  <2>1. todo = <<>> /\ up /\ ~sptCorrupted
    BY DEF SlotDelete, SlotRename, SlotCreate, Usable, Begin, Idle
  <2>2. ~Pending("load_spt")
    BY <2>1, NothingPending
  <2> QED
    BY <2>1, <2>2 DEF InUse, IInv, TypeOK
<1>2. CASE \E n : SlotDelete(n)
  <2> DEFINE stages == <<"remove", "erase", "edit">>
  <2>0. PICK n : SlotDelete(n)
    BY <1>2
  <2>1. PICK x \in Slot2Part(spt, n) : Begin("delete", n, x, Without(spt, x), stages)
    BY <2>0 DEF SlotDelete
  <2>2. /\ stages \in Seq(Stages) /\ DOMAIN stages = {1, 2, 3}
        /\ stages[1] = "remove" /\ stages[2] = "erase" /\ stages[3] = "edit"
        /\ stages # <<>> /\ Head(stages) = "remove"
    BY DEF Stages, DataStages
  <2> HIDE DEF stages
  <2>3. x \in DOMAIN spt /\ IsSlot(spt[x])
    BY <2>1 DEF Slot2Part
  <2>4. CheckSpt(spt) => CheckSpt(Without(spt, x))
    BY <1>1, <2>3, EditsFit
  <2>5. \A place, length : SlotFills(spt, place, length) =>
          SlotFills(Without(spt, x), place, length) \/ place = spt[x].offset
    BY <1>1, <2>3, EditsKeepFills
  <2> QED
    BY <1>1, <2>1, <2>2, <2>4, <2>5, BeginImage
<1>3. CASE ~\E n : SlotDelete(n)
  <2> DEFINE stages == <<"edit">>
  <2>1. PICK op, n, x, t :
          /\ Begin(op, n, x, t, stages)
          /\ CheckSpt(spt) => CheckSpt(t)
          /\ \A place, length : SlotFills(spt, place, length) => SlotFills(t, place, length)
    <3>1. CASE \E n : \E name \in SlotNames : SlotRename(n, name)
      <4>0. PICK n : \E name \in SlotNames : SlotRename(n, name)
        BY <3>1
      <4>1. PICK name \in SlotNames : SlotRename(n, name)
        BY <4>0
      <4>2. PICK x \in Slot2Part(spt, n) :
              Begin("rename", n, x, Renamed(spt, x, name), stages)
        BY <4>1 DEF SlotRename
      <4> HIDE DEF stages
      <4>3. x \in DOMAIN spt /\ IsSlot(spt[x]) /\ ~Named(spt, name)
        BY <4>1, <4>2 DEF Slot2Part, SlotRename
      <4>4. CheckSpt(spt) => CheckSpt(Renamed(spt, x, name))
        BY <1>1, <4>3, EditsFit
      <4>5. \A place, length : SlotFills(spt, place, length) =>
              SlotFills(Renamed(spt, x, name), place, length)
        BY <1>1, <4>3, EditsKeepFills
      <4> QED
        BY <4>2, <4>4, <4>5
    <3>2. CASE \E name \in SlotNames, request \in Requests : SlotCreate(name, request)
      <4>1. PICK name \in SlotNames, request \in Requests : SlotCreate(name, request)
        BY <3>2
      <4> DEFINE t == Append(spt, NewSlot(name, request))
      <4>2. Begin("create", 0, 0, t, stages)
        BY <4>1 DEF SlotCreate
      <4> HIDE DEF stages
      <4>3. CheckSpt(spt) => CheckSpt(t)
        BY <1>1, <4>1, EditsFit DEF SlotCreate
      <4>4. \A place, length : SlotFills(spt, place, length) => SlotFills(t, place, length)
        BY <1>1, EditsKeepFills
      <4> HIDE DEF t
      <4> QED
        BY <4>2, <4>3, <4>4
    <3> QED
      BY <1>3, <3>1, <3>2
  <2>2. stages \in Seq(Stages) /\ DOMAIN stages = {1} /\ stages[1] = "edit"
    BY OneStage DEF Stages
  <2> HIDE DEF stages
  <2> QED
    BY <1>1, <2>1, <2>2, BeginImage
<1> QED
  BY <1>2, <1>3

LEMMA ReplaceCallImage ==
  ASSUME IInv, MenuInv, ImageInv, [Next]_vars,
         \/ \E t \in SptBackups : RestoreSpt(t)
         \/ \E list \in CpbBackups : RestoreCpb(list)
         \/ CreateEmptyCpb
  PROVE  ImageInv'
<1>1. CASE \E t \in SptBackups : RestoreSpt(t)
  <2> DEFINE stages == <<"replace", "load_cpb">>
  <2>1. PICK t \in SptBackups : Begin("restore", 0, 0, t, stages)
    BY <1>1 DEF RestoreSpt
  <2>2. /\ stages \in Seq(Stages) /\ DOMAIN stages = {1, 2}
        /\ stages[1] = "replace" /\ stages[2] = "load_cpb"
    BY DEF Stages
  <2> HIDE DEF stages
  <2> QED
    BY <2>1, <2>2, BeginImage
<1>2. CASE (\E list \in CpbBackups : RestoreCpb(list)) \/ CreateEmptyCpb
  <2> DEFINE stages == <<"restore cpb">>
  <2>1. \E op, list : Begin(op, 0, 0, list, stages)
    <3>1. CASE CreateEmptyCpb
      BY <3>1 DEF CreateEmptyCpb
    <3>2. CASE \E list \in CpbBackups : RestoreCpb(list)
      BY <3>2 DEF RestoreCpb
    <3> QED
      BY <1>2, <3>1, <3>2
  <2>2. stages \in Seq(Stages) /\ DOMAIN stages = {1} /\ stages[1] = "restore cpb"
    BY OneStage DEF Stages
  <2> HIDE DEF stages
  <2>3. PICK op, list : Begin(op, 0, 0, list, stages)
    BY <2>1
  <2> QED
    BY <2>2, <2>3, BeginImage
<1> QED
  BY <1>1, <1>2

LEMMA ApiImage ==
  ASSUME IInv, MenuInv, ImageInv, [Next]_vars, Api
  PROVE  ImageInv'
<1>1. CASE Open
  BY <1>1, OpenImage
<1>2. CASE \E n : \/ SlotErase(n) \/ SlotProgram(n) \/ SlotProgramRaw(n)
                  \/ SlotDisable(n) \/ SlotEnable(n)
  BY <1>2, OnSlotImage
<1>3. CASE \/ \E n : SlotDelete(n) \/ \E name \in SlotNames : SlotRename(n, name)
           \/ \E name \in SlotNames, request \in Requests : SlotCreate(name, request)
  BY <1>3, EditCallImage
<1>4. CASE \/ \E t \in SptBackups : RestoreSpt(t) \/ RestoreSptFromBuf(t)
           \/ \E list \in CpbBackups : RestoreCpb(list) \/ RestoreCpbFromBuf(list)
           \/ CreateEmptyCpb
  BY <1>4, ReplaceCallImage DEF RestoreSptFromBuf, RestoreCpbFromBuf
<1> QED
  BY <1>1, <1>2, <1>3, <1>4 DEF Api

-----------------------------------------------------------------------------
(* Theorems *)

\* A new board's slots hold a bitstream each where a pointer leads.
LEMMA InitImage == Init => ImageInv
<1> SUFFICES ASSUME Init
             PROVE  ImageInv
  OBVIOUS
<1>1. /\ table = Provisioned /\ pointers = Shipped /\ cpb = <<>> /\ todo = <<>>
      /\ ~up /\ vouched = {} /\ ~loaded
  BY DEF Init
<1>2. DOMAIN cpb = {} /\ \A stage : ~Pending(stage)
  BY <1>1, NothingPending
<1>3. ImagePlan /\ MemoryHasAll /\ Unlisted /\ Written
  BY <1>1, <1>2 DEF ImagePlan, MemoryHasAll, Unlisted, Written
<1>4. TablesValid
  BY <1>1, <1>2, ProvisionedAssumption DEF TablesValid, InUse
<1>5. ImagesWhole
  <2>1. ASSUME NEW place \in Answered
        PROVE  \E length \in Nat :
                 /\ SlotFills(table, place, length)
                 /\ \A u \in Extent(place, length) : data[u] = Image(place)
    <3>1. place \in Pointers(Shipped)
      BY <1>1, <1>2, <2>1 DEF Answered, Pointers
    <3>2. PICK x \in DOMAIN Provisioned :
            IsSlot(Provisioned[x]) /\ Provisioned[x].offset = place
      BY <3>1, ShippedAssumption DEF Pointers
    <3> DEFINE p == Provisioned[x]
    <3>3. p \in Partition
      BY TableFacts, ProvisionedAssumption
    <3>4. p.length \in Nat /\ Region(p) = Extent(place, p.length)
      BY <3>2, <3>3 DEF Partition, Region, Extent
    <3>5. ASSUME NEW u \in Region(p)
          PROVE  data[u] = Image(place)
      <4> DEFINE listed == {y \in DOMAIN Provisioned :
                              /\ Provisioned[y].offset \in Pointers(Shipped)
                              /\ u \in Region(Provisioned[y])}
                 first == CHOOSE y \in listed : TRUE
      <4>1. x \in listed
        BY <3>1, <3>2, <3>5
      <4>2. ASSUME NEW y \in listed
            PROVE  y = x
        <5>1. Provisioned[y] \in Partition
          BY TableFacts, ProvisionedAssumption
        <5>2. Overlap(p, Provisioned[y])
          BY <3>3, <3>5, <4>2, <5>1 DEF Region, Overlap, Partition
        <5> QED
          BY <5>2, ProvisionedAssumption DEF CheckSpt
      <4>3. first = x
        BY <4>1, <4>2
      <4>4. u \in Units
        BY <3>5, BackupsPlaced DEF Placed
      <4>5. data[u] = IF listed = {} THEN Blank ELSE Image(Provisioned[first].offset)
        BY <4>4 DEF Init
      <4> HIDE DEF listed, first
      <4> QED
        BY <3>2, <4>1, <4>3, <4>5
    <3>6. SlotFills(table, place, p.length)
      BY <1>1, <3>2 DEF SlotFills
    <3> QED
      BY <3>4, <3>5, <3>6
  <2> QED
    BY <1>1, <1>2, <2>1 DEF ImagesWhole, InUse
<1> QED
  BY <1>3, <1>4, <1>5 DEF ImageInv

LEMMA NextImage == IInv /\ MenuInv /\ ImageInv /\ [Next]_vars => ImageInv'
<1> SUFFICES ASSUME IInv, MenuInv, ImageInv, [Next]_vars
             PROVE  ImageInv'
  OBVIOUS
<1>1. CASE Step
  BY <1>1, DataStepImage, RemoveImage, AddImage, ReplacePointersImage, LoadImage, EditImage,
     ReplaceImage DEF Step
<1>2. CASE Api
  BY <1>2, ApiImage
<1>3. CASE Crash
  BY <1>3, CrashImage
<1>4. CASE UNCHANGED vars
  <2>1. UNCHANGED <<table, pointers, data, spt, cpb, loaded, sptCorrupted, up, call, todo,
                    vouched, checked>>
    BY <1>4 DEF vars, flash, memory, control, history
  <2>2. /\ Answered' = Answered /\ InUse' = InUse /\ Place' = Place
        /\ \A stage : Pending(stage)' = Pending(stage) /\ At(stage)' = At(stage)
    BY <2>1 DEF Answered, InUse, Place, Pending, At, Pointers
  <2>3. ImagePlan' /\ MemoryHasAll' /\ Unlisted'
    BY <2>1, <2>2 DEF ImageInv, ImagePlan, MemoryHasAll, Unlisted, Pointers
  <2>4. Written'
    BY <2>1, <2>2 DEF ImageInv, Written, Region, Image
  <2>5. checked' => TablesValid' /\ ImagesWhole'
    BY <2>1, <2>2 DEF ImageInv, TablesValid, ImagesWhole, SlotFills, Extent, Image
  <2> QED
    BY <2>3, <2>4, <2>5 DEF ImageInv
<1> QED
  BY <1>1, <1>2, <1>3, <1>4 DEF Next

\* The tables and the data keep in step: as long as every table in use is valid, each
\* pointer the library answers for leads to a slot that is full of its bitstream in all
\* the tables a call goes by, what a call writes or erases is not listed meanwhile, and
\* what it lists is written.
THEOREM ImageInvariance == Spec => []ImageInv
<1>1. IInv /\ MenuInv /\ ImageInv /\ [Next]_vars => ImageInv'
  BY NextImage
<1> QED
  BY <1>1, InitImage, Invariance, MenuInvariance, PTL DEF Spec

\* In all of libRSU.c, whatever fails and whenever the process dies, the firmware boots
\* whole bitstreams relocated to where they lie, but for what a caller listed.
THEOREM ImagesSafe == Spec => []ListedHasImage
<1>1. ASSUME ImageInv
      PROVE  ListedHasImage
  <2>1. ASSUME checked, NEW place \in Pointers(pointers) \ vouched
        PROVE  HasImage(table, place)
    <3>1. PICK length \in Nat :
            /\ SlotFills(table, place, length)
            /\ \A u \in Extent(place, length) : data[u] = Image(place)
      BY <1>1, <2>1 DEF ImageInv, ImagesWhole, Answered
    <3> QED
      BY <3>1 DEF HasImage, SlotFills, Extent, Region
  <2> QED
    BY <2>1 DEF ListedHasImage
<1>2. ImageInv => ListedHasImage
  BY <1>1
<1> QED
  BY <1>2, ImageInvariance, PTL

-----------------------------------------------------------------------------
(* Priorities, copies and counts *)

\* A priority is the place in the list, from its end.
LEMMA PriorityPlaces ==
  ASSUME cpb \in Seq(Nat), NEW place, PriorityGet(place) # 0
  PROVE  cpb[Len(cpb) + 1 - PriorityGet(place)] = place
<1> DEFINE at == {x \in DOMAIN cpb : cpb[x] = place}
           newest == CHOOSE x \in at : \A y \in at : x >= y
<1>0. Len(cpb) \in Nat /\ DOMAIN cpb = 1..Len(cpb)
  OBVIOUS
<1>1. at # {} /\ PriorityGet(place) = Len(cpb) + 1 - newest
  BY DEF PriorityGet
<1>2. at \in SUBSET (1..Len(cpb))
  BY <1>0
<1>3. \E x \in at : \A y \in at : x >= y
  BY <1>0, <1>1, <1>2, GreatestExists
<1>4. newest \in at
  BY <1>3
<1> HIDE DEF newest
<1>5. newest \in Nat /\ cpb[newest] = place
  BY <1>0, <1>4
<1>6. Len(cpb) + 1 - (Len(cpb) + 1 - newest) = newest
  BY <1>0, <1>5
<1> QED
  BY <1>1, <1>5, <1>6

\* The loop of rsu_slot_copy_to_file, up to chunk m of read.
Trims(read, m, file) ==
  file = [k \in 0..m |->
            IF k = 0 THEN <<>>
            ELSE IF read[k] = Blank THEN file[k - 1]
            ELSE file[k - 1] \o [gap \in 1..(k - 1 - Len(file[k - 1])) |-> Blank]
                             \o <<read[k]>>]

LEMMA TrimsExists == \A read : \A m \in Nat : \E file : Trims(read, m, file)
<1> SUFFICES ASSUME NEW read, NEW bad \in Nat, ~\E file : Trims(read, bad, file)
             PROVE  FALSE
  OBVIOUS
<1> DEFINE without == {m \in Nat : ~\E file : Trims(read, m, file)}
<1>1. without \in SUBSET Nat /\ without # {}
  OBVIOUS
<1> HIDE DEF without
<1>2. PICK m \in without : \A l \in without : m <= l
  BY <1>1, LeastExists
<1>3. m \in Nat /\ ~\E file : Trims(read, m, file)
  BY <1>2 DEF without
<1>4. m # 0
  <2> DEFINE file == [k \in 0..0 |-> <<>>]
  <2>1. Trims(read, 0, file)
    BY DEF Trims
  <2> QED
    BY <1>3, <2>1
<1>5. m - 1 \in Nat /\ m - 1 \notin without
  BY <1>1, <1>2, <1>3, <1>4
<1>6. PICK file : Trims(read, m - 1, file)
  BY <1>5 DEF without
<1> DEFINE last == IF read[m] = Blank THEN file[m - 1]
                   ELSE file[m - 1] \o [gap \in 1..(m - 1 - Len(file[m - 1])) |-> Blank]
                                    \o <<read[m]>>
           longer == [k \in 0..m |-> IF k = m THEN last ELSE file[k]]
<1>7. \A k \in 0..(m - 1) : longer[k] = file[k]
  <2>1. \A k \in 0..(m - 1) : k \in 0..m /\ k # m
    BY <1>3
  <2> HIDE DEF last
  <2> QED
    BY <2>1
<1>8. ASSUME NEW k \in 0..m
      PROVE  longer[k] =
               IF k = 0 THEN <<>>
               ELSE IF read[k] = Blank THEN longer[k - 1]
               ELSE longer[k - 1] \o [gap \in 1..(k - 1 - Len(longer[k - 1])) |-> Blank]
                                  \o <<read[k]>>
  <2>1. CASE k = m
    <3>2. longer[m] = last
      BY <1>3
    <3> HIDE DEF longer, last
    <3>3. m - 1 \in 0..(m - 1)
      BY <1>5
    <3>1. m - 1 \in 0..(m - 1) /\ longer[m - 1] = file[m - 1]
      BY <3>3, <1>7
    <3> USE DEF last
    <3> QED
      BY <1>4, <2>1, <3>1, <3>2
  <2>2. CASE k # m
    <3> HIDE DEF longer, last
    <3>4. k \in 0..(m - 1) /\ (k # 0 => k - 1 \in 0..(m - 1))
      BY <1>3, <2>2
    <3>1. k \in 0..(m - 1) /\ longer[k] = file[k]
      BY <1>7, <3>4
    <3>2. k # 0 => k - 1 \in 0..(m - 1) /\ longer[k - 1] = file[k - 1]
      BY <1>7, <3>4
    <3>3. file[k] = IF k = 0 THEN <<>>
                    ELSE IF read[k] = Blank THEN file[k - 1]
                    ELSE file[k - 1] \o [gap \in 1..(k - 1 - Len(file[k - 1])) |-> Blank]
                                     \o <<read[k]>>
      BY <1>6, <3>1 DEF Trims
    <3> QED
      BY <3>1, <3>2, <3>3
  <2> QED
    BY <2>1, <2>2
<1>9. Trims(read, m, longer)
  BY <1>8 DEF Trims
<1> QED
  BY <1>3, <1>9

LEMMA FunctionIsSeq ==
  ASSUME NEW S, NEW n \in Nat, NEW f \in [1..n -> S]
  PROVE  f \in Seq(S) /\ Len(f) = n /\ DOMAIN f = 1..n
OBVIOUS

\* A chunk behind those in file goes where it was read, over erased chunks.
LEMMA TrimStep ==
  ASSUME NEW S, NEW list \in Seq(S), NEW k \in Nat, Len(list) <= k, NEW e \in S, NEW b \in S
  PROVE  LET u == list \o [gap \in 1..(k - Len(list)) |-> b] \o <<e>>
         IN  /\ u \in Seq(S) /\ Len(u) = k + 1 /\ u[k + 1] = e
             /\ \A j \in 1..k : u[j] = IF j <= Len(list) THEN list[j] ELSE b
<1>1. PICK n \in Nat : Len(list) = n /\ n <= k /\ DOMAIN list = 1..n
  OBVIOUS
<1> DEFINE gaps == [gap \in 1..(k - Len(list)) |-> b]
           front == list \o gaps
           u == front \o <<e>>
<1>2. gaps \in Seq(S) /\ Len(gaps) = k - n /\ \A j \in 1..(k - n) : gaps[j] = b
  <2>1. k - n \in Nat /\ gaps = [gap \in 1..(k - n) |-> b]
    BY <1>1
  <2>2. gaps \in [1..(k - n) -> S] /\ \A j \in 1..(k - n) : gaps[j] = b
    BY <2>1
  <2> HIDE DEF gaps
  <2> QED
    BY <2>1, <2>2, FunctionIsSeq
<1> HIDE DEF gaps
<1>3. /\ front \in Seq(S) /\ Len(front) = k
      /\ \A j \in 1..k : front[j] = IF j <= n THEN list[j] ELSE b
  <2>1. /\ front \in Seq(S) /\ Len(front) = Len(list) + Len(gaps)
        /\ \A j \in 1..(Len(list) + Len(gaps)) :
             front[j] = IF j <= Len(list) THEN list[j] ELSE gaps[j - Len(list)]
    BY <1>2, ConcatProperties
  <2>2. Len(list) + Len(gaps) = k /\ \A j \in 1..k : ~(j <= n) => j - n \in 1..(k - n)
    BY <1>1, <1>2
  <2> HIDE DEF front
  <2> QED
    BY <1>1, <1>2, <2>1, <2>2
<1> HIDE DEF front
<1>4. /\ u \in Seq(S) /\ Len(u) = k + 1 /\ u[k + 1] = e
      /\ \A j \in 1..k : u[j] = front[j]
  BY <1>3
<1> QED
  BY <1>1, <1>3, <1>4 DEF front, gaps

\* What the file has of the chunks read so far is what they are, and behind it they
\* are erased.
LEMMA TrimmedFile ==
  ASSUME NEW S, Blank \in S, NEW read \in Seq(S), NEW file, Trims(read, Len(read), file)
  PROVE  \A k \in 1..Len(read) :
           read[k] = IF k <= Len(file[Len(read)]) THEN file[Len(read)][k] ELSE Blank
<1> DEFINE Right(k) == /\ file[k] \in Seq(S) /\ Len(file[k]) <= k
                       /\ \A j \in 1..k :
                            read[j] = IF j <= Len(file[k]) THEN file[k][j] ELSE Blank
           wrong == {k \in 0..Len(read) : ~Right(k)}
<1>1. PICK n \in Nat : Len(read) = n /\ \A k \in 1..n : read[k] \in S
  OBVIOUS
<1>2. \A k \in 0..n : file[k] =
        IF k = 0 THEN <<>>
        ELSE IF read[k] = Blank THEN file[k - 1]
        ELSE file[k - 1] \o [gap \in 1..(k - 1 - Len(file[k - 1])) |-> Blank]
                         \o <<read[k]>>
  BY <1>1 DEF Trims
<1>3. Right(0)
  <2>1. 0 \in 0..n
    BY <1>1
  <2>2. file[0] = <<>>
    BY <1>2, <2>1, Zenon
  <2> QED
    BY <2>2
<1>4. ASSUME NEW k \in 1..n, Right(k - 1)
      PROVE  Right(k)
  <2> DEFINE list == file[k - 1]
  <2>1. /\ list \in Seq(S) /\ Len(list) <= k - 1 /\ k - 1 \in Nat /\ k - 1 + 1 = k
        /\ \A j \in 1..(k - 1) : read[j] = IF j <= Len(list) THEN list[j] ELSE Blank
    BY <1>4
  <2>2. file[k] = IF read[k] = Blank THEN list
                  ELSE list \o [gap \in 1..(k - 1 - Len(list)) |-> Blank] \o <<read[k]>>
    <3>1. k \in 0..n /\ k # 0
      OBVIOUS
    <3> QED
      BY <1>2, <3>1, Zenon
  <2>3. PICK l \in Nat : Len(list) = l
    BY <2>1
  <2> HIDE DEF list
  <2>4. CASE read[k] = Blank
    <3>1. file[k] = list /\ ~(k <= l) /\ l <= k
      BY <2>1, <2>2, <2>3, <2>4
    <3>2. \A j \in 1..k : j = k \/ j \in 1..(k - 1)
      OBVIOUS
    <3> QED
      BY <2>1, <2>3, <2>4, <3>1, <3>2
  <2>5. CASE read[k] # Blank
    <3>1. read[k] \in S
      BY <1>1
    <3>2. /\ file[k] \in Seq(S) /\ Len(file[k]) = k /\ file[k][k] = read[k]
          /\ \A j \in 1..(k - 1) : file[k][j] = IF j <= Len(list) THEN list[j] ELSE Blank
      <4>1. PICK m \in Nat : m = k - 1 /\ k = m + 1
        BY <2>1
      <4>2. file[k] = list \o [gap \in 1..(m - Len(list)) |-> Blank] \o <<read[k]>>
        BY <2>2, <2>5, <4>1
      <4>3. list \in Seq(S) /\ Len(list) <= m
        BY <2>1, <4>1
      <4>4. /\ file[k] \in Seq(S) /\ Len(file[k]) = m + 1 /\ file[k][m + 1] = read[k]
            /\ \A j \in 1..m : file[k][j] = IF j <= Len(list) THEN list[j] ELSE Blank
        BY <3>1, <4>1, <4>2, <4>3, TrimStep
      <4> QED
        BY <4>1, <4>4
    <3>3. \A j \in 1..k : j <= k /\ (j = k \/ j \in 1..(k - 1))
      OBVIOUS
    <3> QED
      BY <2>1, <3>2, <3>3
  <2> QED
    BY <2>4, <2>5
<1>5. wrong = {}
  <2>1. SUFFICES ASSUME wrong # {}
                 PROVE  FALSE
    OBVIOUS
  <2>2. wrong \in SUBSET Nat
    BY <1>1
  <2> HIDE DEF Right
  <2>3. PICK k \in wrong : \A j \in wrong : k <= j
    BY <2>1, <2>2, LeastExists
  <2>4. k # 0 /\ k \in 0..n /\ ~Right(k)
    BY <1>1, <1>3, <2>3
  <2>5. k \in 1..n /\ k - 1 \in 0..n /\ ~(k <= k - 1)
    BY <1>1, <2>4
  <2>6. Right(k - 1)
    BY <1>1, <2>3, <2>5
  <2> QED
    BY <1>4, <2>4, <2>5, <2>6
<1>6. Right(n)
  BY <1>1, <1>5
<1> QED
  BY <1>1, <1>6

\* A copy of a slot in a file is a copy in a buffer, short of the erased chunks at its
\* end.
LEMMA CopiesAgree ==
  ASSUME IInv, NEW n, NEW x, Slot2Part(spt, n) = {x},
         NEW file \in CopyToFile(n), NEW buf \in CopyToBuf(n), NEW k \in DOMAIN buf
  PROVE  /\ buf[k] = data[spt[x].offset + k - 1]
         /\ buf[k] = IF k <= Len(file) THEN file[k] ELSE Blank
<1>1. spt[x] \in Partition
  BY TableFacts DEF Slot2Part, IInv, TypeOK
<1>2. buf = DataRead(x)
  BY DEF CopyToBuf
<1> DEFINE Kept(y) ==
             LET read == DataRead(y)
                 kept[l \in 0..Len(read)] ==
                   IF l = 0 THEN <<>>
                   ELSE IF read[l] = Blank THEN kept[l - 1]
                   ELSE kept[l - 1] \o [gap \in 1..(l - 1 - Len(kept[l - 1])) |-> Blank]
                                    \o <<read[l]>>
             IN  kept[Len(read)]
<1>3. PICK y \in Slot2Part(spt, n) : file = Kept(y)
  BY DEF CopyToFile
<1>4. file = Kept(x)
  <2> HIDE DEF Kept
  <2> QED
    BY <1>3
<1> DEFINE read == DataRead(x)
           kept[l \in 0..Len(read)] ==
             IF l = 0 THEN <<>>
             ELSE IF read[l] = Blank THEN kept[l - 1]
             ELSE kept[l - 1] \o [gap \in 1..(l - 1 - Len(kept[l - 1])) |-> Blank]
                              \o <<read[l]>>
           S == {Blank} \cup {data[spt[x].offset + l - 1] : l \in 1..spt[x].length}
<1>5. file = kept[Len(read)]
  BY <1>4
<1> HIDE DEF S
<1>6. /\ read \in Seq(S) /\ Len(read) \in Nat /\ DOMAIN buf = 1..Len(read)
      /\ \A l \in DOMAIN buf : buf[l] = data[spt[x].offset + l - 1] /\ buf[l] = read[l]
  <2>1. PICK m \in Nat : spt[x].length = m
    BY <1>1 DEF Partition
  <2>2. /\ read \in [1..m -> S] /\ DOMAIN read = 1..m
        /\ \A l \in 1..m : read[l] = data[spt[x].offset + l - 1]
    BY <2>1 DEF DataRead, S
  <2> HIDE DEF read
  <2>3. read \in Seq(S) /\ Len(read) = m
    BY <2>2, FunctionIsSeq
  <2>4. buf = read
    BY <1>2 DEF read
  <2> QED
    BY <2>2, <2>3, <2>4
<1>7. Trims(read, Len(read), kept)
  <2>1. PICK one : Trims(read, Len(read), one)
    BY <1>6, TrimsExists
  <2>2. kept = CHOOSE some : Trims(read, Len(read), some)
    BY Zenon DEF Trims
  <2> QED
    BY <2>1, <2>2, Zenon
<1> HIDE DEF kept, read
<1>8. Blank \in S
  BY DEF S
<1>9. \A l \in 1..Len(read) :
         read[l] = IF l <= Len(kept[Len(read)]) THEN kept[Len(read)][l] ELSE Blank
  BY <1>6, <1>7, <1>8, TrimmedFile
<1> QED
  BY <1>5, <1>6, <1>9

-----------------------------------------------------------------------------
(* Memory agrees with flash *)

LEMMA StepSeen ==
  ASSUME IInv, MenuInv, SeenInv, Step
  PROVE  SeenInv'
<1>1. todo # <<>> /\ (Proceed \/ Return)
  <2>1. todo # <<>>
    BY DEF Step, LoadSpt, LoadSptCorrupted, LoadSptFails, LoadCpb, LoadCpbCorrupted,
       LoadCpbFails, RemovePointer, AddPointer, AddPointerFails, ReplacePointers, Edit,
       EditFails, Replace, ReplaceFails, EraseData, EraseFails, WriteData, WriteRaw,
       WriteFails, At
  <2>2. Proceed \/ Return
    BY DEF Step, LoadSpt, LoadSptCorrupted, LoadSptFails, LoadCpb, LoadCpbCorrupted,
       LoadCpbFails, RemovePointer, AddPointer, AddPointerFails, ReplacePointers, Edit,
       EditFails, Replace, ReplaceFails, EraseData, EraseFails, WriteData, WriteRaw,
       WriteFails, SetPointers, SetPointersFails, Fail, Fault, Abort
  <2> QED
    BY <2>1, <2>2
<1>2. Pending("edit")' => Long(call'.table)
  BY <1>1, StillPending DEF SeenInv
<1>3. CASE EraseData \/ EraseFails \/ WriteData \/ WriteRaw \/ WriteFails
  <2>1. PICK stage \in DataStages : At(stage)
    BY <1>3 DEF EraseData, EraseFails, WriteData, WriteRaw, WriteFails, DataStages
  <2>2. up /\ ~Pending("load_spt")
    BY <2>1, MenuHead DEF MenuInv, DataStages
  <2>3. UNCHANGED <<table, spt, sptTorn, sptCorrupted, pointers, cpb, loaded, cpbTorn>>
    BY <1>3 DEF EraseData, EraseFails, WriteData, WriteRaw, WriteFails, DataUnchanged,
       memory
  <2> QED
    BY <1>2, <2>2, <2>3 DEF SeenInv, InUse, Long
<1>4. CASE \/ RemovePointer \/ AddPointer \/ AddPointerFails \/ ReplacePointers
           \/ LoadCpb \/ LoadCpbCorrupted \/ LoadCpbFails
  <2>1. PICK stage \in {"remove", "add", "restore cpb", "load_cpb"} : At(stage)
    BY <1>4 DEF RemovePointer, AddPointer, AddPointerFails, ReplacePointers, LoadCpb,
       LoadCpbCorrupted, LoadCpbFails
  <2>2. up /\ ~Pending("load_spt")
    BY <2>1, MenuHead DEF MenuInv
  <2>3. UNCHANGED <<table, spt, sptTorn, sptCorrupted>>
    BY <1>4 DEF RemovePointer, AddPointer, AddPointerFails, ReplacePointers, LoadCpb,
       LoadCpbCorrupted, LoadCpbFails, SetPointers, SetPointersFails, flash, memory
  <2>4. (loaded' /\ ~cpbTorn') => cpb' = pointers'
    <3>1. CASE RemovePointer \/ AddPointer
      <4>1. \E list : SetPointers(list) \/ SetPointersFails(list)
        BY <3>1 DEF RemovePointer, AddPointer
      <4> QED
        BY <4>1 DEF SetPointers, SetPointersFails
    <3>2. CASE ReplacePointers \/ LoadCpb
      BY <3>2 DEF ReplacePointers, LoadCpb
    <3>3. CASE AddPointerFails \/ LoadCpbCorrupted \/ LoadCpbFails
      BY <3>3 DEF AddPointerFails, LoadCpbCorrupted, LoadCpbFails, flash, memory, SeenInv
    <3> QED
      BY <1>4, <3>1, <3>2, <3>3
  <2> QED
    BY <1>2, <2>2, <2>3, <2>4 DEF SeenInv, InUse, Long
<1>5. CASE Edit \/ EditFails
  <2>1. Long(call.table)
    BY <1>5, HeadPending DEF Edit, EditFails, IInv, SeenInv
  <2>2. /\ table' \in {table, call.table} /\ spt' = call.table
        /\ ~sptTorn' => table' = spt'
        /\ UNCHANGED <<pointers, cpb, loaded, cpbTorn>>
    BY <1>5 DEF Edit, EditFails
  <2> QED
    BY <1>2, <2>1, <2>2 DEF SeenInv, Long
<1>6. CASE Replace \/ ReplaceFails
  <2>1. call.table \in SptBackups
    BY <1>6, HeadPending DEF Replace, ReplaceFails, IInv, CallFits
  <2>2. Long(call.table)
    BY <2>1, LengthsAssumption DEF Long
  <2>3. /\ table' \in {table, call.table} /\ spt' = call.table
        /\ ~sptTorn' => table' = spt'
        /\ UNCHANGED <<pointers, cpb, loaded, cpbTorn>>
    BY <1>6 DEF Replace, ReplaceFails
  <2> QED
    BY <1>2, <2>2, <2>3 DEF SeenInv, Long
<1>7. CASE LoadSpt
  BY <1>2, <1>7 DEF LoadSpt, SeenInv, Long
<1>8. CASE LoadSptCorrupted \/ LoadSptFails
  <2>1. Pending("load_spt")
    BY <1>8, HeadPending DEF LoadSptCorrupted, LoadSptFails, IInv
  <2>2. ~InUse' /\ UNCHANGED <<table, spt, pointers, cpb, loaded, cpbTorn>>
    BY <1>8, <2>1 DEF LoadSptCorrupted, LoadSptFails, Abort, flash, memory, InUse, IInv,
       CallFits
  <2> QED
    BY <1>2, <2>2 DEF SeenInv, Long
<1> QED
  BY <1>3, <1>4, <1>5, <1>6, <1>7, <1>8 DEF Step

LEMMA EditsStayLong ==
  ASSUME NEW t \in Table, Long(t)
  PROVE  /\ \A x \in DOMAIN t : Long(Without(t, x))
         /\ \A x \in DOMAIN t, name \in SlotNames : Long(Renamed(t, x, name))
         /\ \A name \in SlotNames, request \in Requests :
              Long(Append(t, NewSlot(name, request)))
<1>1. ASSUME NEW x \in DOMAIN t
      PROVE  Long(Without(t, x))
  BY WithoutFacts DEF Long
<1>2. ASSUME NEW x \in DOMAIN t, NEW name \in SlotNames
      PROVE  Long(Renamed(t, x, name))
  <2>1. t[x] \in Partition
    BY TableFacts
  <2>2. [t[x] EXCEPT !.name = name].length = t[x].length
    BY <2>1 DEF Partition
  <2> DEFINE u == Renamed(t, x, name)
  <2>3. DOMAIN u = DOMAIN t /\ \A y \in DOMAIN t :
          u[y] = IF y = x THEN [t[x] EXCEPT !.name = name] ELSE t[y]
    BY RenamedFacts
  <2> HIDE DEF u
  <2>4. \A y \in DOMAIN u : u[y].length # 0
    BY <2>2, <2>3 DEF Long
  <2> QED
    BY <2>4 DEF Long, u
<1>3. ASSUME NEW name \in SlotNames, NEW request \in Requests
      PROVE  Long(Append(t, NewSlot(name, request)))
  <2> DEFINE p == NewSlot(name, request)
  <2>1. p \in Partition /\ p.length # 0
    <3>1. request \in [offset : Nat, length : Nat]
      OBVIOUS
    <3> QED
      BY <3>1, NewSlotFacts DEF NewSlot
  <2> HIDE DEF p
  <2> QED
    BY <2>1, AppendedTable DEF Long, p
<1> QED
  BY <1>1, <1>2, <1>3

LEMMA ApiSeen ==
  ASSUME IInv, SeenInv, Api
  PROVE  SeenInv'
<1>1. CASE Open
  <2>1. ~loaded' /\ todo' = <<"load_spt", "load_cpb">> /\ spt' = <<>> /\ table' = table
    BY <1>1 DEF Open, flash
  <2>2. DOMAIN todo' = {1, 2} /\ todo'[1] = "load_spt" /\ todo'[2] = "load_cpb"
    BY <2>1
  <2>3. Pending("load_spt")' /\ ~Pending("edit")'
    BY <2>2 DEF Pending
  <2> QED
    BY <2>1, <2>3 DEF SeenInv, InUse, Long
<1>2. ASSUME NEW op, NEW n, NEW x, NEW t, NEW stages, Begin(op, n, x, t, stages),
             Long(t) \/ \A k \in DOMAIN stages : stages[k] # "edit"
      PROVE  SeenInv'
  <2>1. /\ up /\ todo = <<>> /\ todo' = stages /\ call'.table = t
        /\ UNCHANGED <<table, spt, sptTorn, sptCorrupted, pointers, cpb, loaded, cpbTorn>>
    BY <1>2 DEF Begin, Idle, flash, memory
  <2>2. InUse' => InUse
    BY <2>1, NothingPending DEF InUse
  <2>3. Pending("edit")' => Long(call'.table)
    BY <1>2, <2>1 DEF Pending
  <2> QED
    BY <2>1, <2>2, <2>3 DEF SeenInv, Long
<1>3. spt \in Table /\ Long(spt)
  BY DEF IInv, TypeOK, SeenInv
<1>4. ASSUME NEW n, SlotDelete(n)
      PROVE  SeenInv'
  <2>1. PICK x \in Slot2Part(spt, n) :
          Begin("delete", n, x, Without(spt, x), <<"remove", "erase", "edit">>)
    BY <1>4 DEF SlotDelete
  <2>2. Long(Without(spt, x))
    BY <1>3, EditsStayLong DEF Slot2Part
  <2> QED
    BY <1>2, <2>1, <2>2
<1>5. ASSUME NEW n, NEW name \in SlotNames, SlotRename(n, name)
      PROVE  SeenInv'
  <2>1. PICK x \in Slot2Part(spt, n) :
          Begin("rename", n, x, Renamed(spt, x, name), <<"edit">>)
    BY <1>5 DEF SlotRename
  <2>2. Long(Renamed(spt, x, name))
    BY <1>3, EditsStayLong DEF Slot2Part
  <2> QED
    BY <1>2, <2>1, <2>2
<1>6. ASSUME NEW name \in SlotNames, NEW request \in Requests, SlotCreate(name, request)
      PROVE  SeenInv'
  BY <1>2, <1>3, <1>6, EditsStayLong DEF SlotCreate
<1>7. ASSUME NEW op, NEW n, NEW x, NEW t,
             \/ Begin(op, n, x, t, <<"remove", "erase">>)
             \/ Begin(op, n, x, t, <<"write", "add">>)
             \/ Begin(op, n, x, t, <<"write raw">>)
             \/ Begin(op, n, x, t, <<"remove">>)
             \/ Begin(op, n, x, t, <<"remove", "add">>)
             \/ Begin(op, n, x, t, <<"replace", "load_cpb">>)
             \/ Begin(op, n, x, t, <<"restore cpb">>)
      PROVE  SeenInv'
  <2>1. /\ \A k \in DOMAIN <<"remove", "erase">> : <<"remove", "erase">>[k] # "edit"
        /\ \A k \in DOMAIN <<"write", "add">> : <<"write", "add">>[k] # "edit"
        /\ \A k \in DOMAIN <<"remove", "add">> : <<"remove", "add">>[k] # "edit"
        /\ \A k \in DOMAIN <<"replace", "load_cpb">> : <<"replace", "load_cpb">>[k] # "edit"
    OBVIOUS
  <2>2. \A stage \in {"write raw", "remove", "restore cpb"} :
          \A k \in DOMAIN <<stage>> : <<stage>>[k] # "edit"
    <3>1. \A stage \in {"write raw", "remove", "restore cpb"} :
            stage \in Stages /\ stage # "edit"
      BY DEF Stages, DataStages
    <3> QED
      BY <3>1, OneStage
  <2> QED
    BY <1>2, <1>7, <2>1, <2>2
<1>8. ASSUME NEW n, \/ SlotErase(n) \/ SlotProgram(n) \/ SlotProgramRaw(n)
                    \/ SlotDisable(n) \/ SlotEnable(n)
      PROVE  SeenInv'
  BY <1>7, <1>8 DEF SlotErase, SlotProgram, SlotProgramRaw, SlotDisable, SlotEnable, OnSlot
<1>9. ASSUME NEW t, RestoreSpt(t) \/ RestoreSptFromBuf(t)
      PROVE  SeenInv'
  BY <1>7, <1>9 DEF RestoreSpt, RestoreSptFromBuf
<1>10. ASSUME NEW list, RestoreCpb(list) \/ RestoreCpbFromBuf(list) \/ CreateEmptyCpb
       PROVE  SeenInv'
  BY <1>7, <1>10 DEF RestoreCpb, RestoreCpbFromBuf, CreateEmptyCpb
<1> QED
  BY <1>1, <1>4, <1>5, <1>6, <1>8, <1>9, <1>10 DEF Api

\* What the library keeps in memory is what flash has, but for an update cut short.
THEOREM SeenInvariance == Spec => []SeenInv
<1>1. ASSUME Init
      PROVE  SeenInv
  <2>1. /\ table = Provisioned /\ spt = <<>> /\ todo = <<>> /\ ~up /\ ~loaded
    BY <1>1 DEF Init
  <2>2. Long(table) /\ Long(spt)
    BY <2>1, LengthsAssumption DEF Long
  <2> QED
    BY <2>1, <2>2, NothingPending DEF SeenInv, InUse
<1>2. ASSUME IInv, MenuInv, SeenInv, [Next]_vars
      PROVE  SeenInv'
  <2>1. CASE Crash
    <3>1. ~up' /\ ~loaded' /\ spt' = <<>> /\ table' = table /\ \A stage : ~Pending(stage)'
      BY <2>1, ReturnFits DEF Crash
    <3> QED
      BY <1>2, <3>1 DEF SeenInv, InUse, Long
  <2>2. CASE UNCHANGED vars
    BY <1>2, <2>2 DEF SeenInv, InUse, Pending, Long, vars, flash, memory, control
  <2> QED
    BY <1>2, <2>1, <2>2, StepSeen, ApiSeen DEF Next
<1> QED
  BY <1>1, <1>2, Invariance, MenuInvariance, PTL DEF Spec

\* Between calls callers see what flash holds: every slot by its one number and name,
\* its priority the place in the firmware's order, its data in a copy of it; and a
\* backup would be accepted again.
THEOREM CallersSafe == Spec => []CallersSeeFlash
<1>1. ASSUME IInv, MenuInv, ImageInv, SeenInv, Agreed, checked
      PROVE  /\ SaveSpt = {spt} /\ CheckSpt(spt)
             /\ SaveCpb = {cpb} /\ (Pointers(cpb) \cap vouched = {} => CheckCpb(spt, cpb))
             /\ SlotCount = Cardinality({x \in DOMAIN table : IsSlot(table[x])})
             /\ \A n \in 0..(SlotCount - 1) : \E x \in DOMAIN table :
                  LET p == table[x]
                      priority == PriorityGet(p.offset)
                  IN  /\ SlotSize(n) = {p.length}
                      /\ SlotGetInfo(n) = {[name |-> p.name, offset |-> p.offset,
                                            size |-> p.length, priority |-> priority]}
                      /\ SlotByName(p.name) = {n}
                      /\ IF priority = 0 THEN p.offset \notin Pointers(pointers)
                         ELSE pointers[Len(pointers) + 1 - priority] = p.offset
                      /\ \A file \in CopyToFile(n), buf \in CopyToBuf(n) :
                           \A k \in DOMAIN buf :
                             /\ buf[k] = data[p.offset + k - 1]
                             /\ buf[k] = IF k <= Len(file) THEN file[k] ELSE Blank
  <2>1. /\ up /\ todo = <<>> /\ ~sptCorrupted /\ ~cpbCorrupted /\ loaded
        /\ ~sptTorn /\ ~cpbTorn
    BY <1>1 DEF Agreed, Idle, Usable
  <2>2. InUse
    BY <2>1, NothingPending DEF InUse
  <2>3. spt = table /\ cpb = pointers /\ CheckSpt(spt) /\ spt \in Table /\ Long(spt)
    BY <1>1, <2>1, <2>2 DEF SeenInv, ImageInv, TablesValid, IInv, TypeOK
  <2>4. SaveSpt = {spt} /\ SaveCpb = {cpb}
    BY <2>1, <2>3 DEF SaveSpt, SaveCpb, SavedSpt, SavedCpb
  <2>5. ASSUME NEW x \in DOMAIN spt, NEW y \in DOMAIN spt, spt[x].offset = spt[y].offset
        PROVE  x = y
    <3>1. /\ spt[x].offset \in Nat /\ spt[x].length \in Nat \ {0}
          /\ spt[y].offset \in Nat /\ spt[y].length \in Nat \ {0}
      BY <2>3, TableFacts DEF Partition, Long
    <3>2. Overlap(spt[x], spt[y])
      BY <2>5, <3>1 DEF Overlap
    <3> QED
      BY <2>3, <3>2 DEF CheckSpt
  <2>6. ASSUME Pointers(cpb) \cap vouched = {}
        PROVE  CheckCpb(spt, cpb)
    <3>1. SUFFICES ASSUME NEW place \in Pointers(cpb)
                   PROVE  \E x \in DOMAIN spt :
                            /\ spt[x].offset = place /\ "reserved" \notin spt[x].flags
                            /\ \A y \in 1..(x - 1) : spt[y].offset # place
      BY DEF CheckCpb
    <3>2. place \in Answered
      BY <2>6, <3>1 DEF Answered
    <3>3. PICK x \in DOMAIN spt : IsSlot(spt[x]) /\ spt[x].offset = place
      BY <1>1, <2>2, <3>2 DEF MenuInv, MenuFits, SlotAt
    <3>4. \A y \in 1..(x - 1) : y \in DOMAIN spt /\ y # x
      BY <2>3, TableFacts
    <3>5. \A y \in 1..(x - 1) : spt[y].offset # place
      BY <2>5, <3>3, <3>4
    <3> QED
      BY <3>3, <3>5 DEF IsSlot
  <2>7. ASSUME NEW n \in 0..(SlotCount - 1)
        PROVE  \E x \in DOMAIN table :
                 LET p == table[x]
                     priority == PriorityGet(p.offset)
                 IN  /\ SlotSize(n) = {p.length}
                     /\ SlotGetInfo(n) = {[name |-> p.name, offset |-> p.offset,
                                           size |-> p.length, priority |-> priority]}
                     /\ SlotByName(p.name) = {n}
                     /\ IF priority = 0 THEN p.offset \notin Pointers(pointers)
                        ELSE pointers[Len(pointers) + 1 - priority] = p.offset
                     /\ \A file \in CopyToFile(n), buf \in CopyToBuf(n) :
                          \A k \in DOMAIN buf :
                            /\ buf[k] = data[p.offset + k - 1]
                            /\ buf[k] = IF k <= Len(file) THEN file[k] ELSE Blank
    <3>1. PICK x \in DOMAIN table : Slot2Part(spt, n) = {x}
      BY <2>3, <2>7, NumberTaken DEF SlotCount
    <3>2. x \in Slot2Part(spt, n) /\ IsSlot(spt[x]) /\ SlotNumber(spt, x) = n
      BY <3>1 DEF Slot2Part
    <3> DEFINE p == table[x]
               priority == PriorityGet(p.offset)
    <3>3. SlotSize(n) = {p.length}
      BY <2>3, <3>1 DEF SlotSize
    <3>4. SlotGetInfo(n) = {[name |-> p.name, offset |-> p.offset, size |-> p.length,
                             priority |-> priority]}
      BY <2>3, <3>1 DEF SlotGetInfo
    <3>5. SlotByName(p.name) = {n}
      <4>1. {y \in DOMAIN spt : IsSlot(spt[y]) /\ spt[y].name = p.name} = {x}
        BY <2>3, <3>2 DEF CheckSpt
      <4> QED
        BY <3>2, <4>1 DEF SlotByName
    <3>6. cpb \in Seq(Nat)
      BY <1>1 DEF MenuInv, MenuPlan
    <3>7. IF priority = 0 THEN p.offset \notin Pointers(pointers)
          ELSE pointers[Len(pointers) + 1 - priority] = p.offset
      BY <2>3, <3>6, NotListed, PriorityPlaces
    <3>8. \A file \in CopyToFile(n), buf \in CopyToBuf(n) : \A k \in DOMAIN buf :
            /\ buf[k] = data[p.offset + k - 1]
            /\ buf[k] = IF k <= Len(file) THEN file[k] ELSE Blank
      <4>1. p = spt[x]
        BY <2>3
      <4> HIDE DEF p
      <4> QED
        BY <1>1, <3>1, <4>1, CopiesAgree
    <3> QED
      BY <3>3, <3>4, <3>5, <3>7, <3>8
  <2> QED
    <3>1. SlotCount = Cardinality({x \in DOMAIN table : IsSlot(table[x])})
      BY <2>3 DEF SlotCount
    <3> QED
      BY <2>3, <2>4, <2>6, <2>7, <3>1
<1>2. IInv /\ MenuInv /\ ImageInv /\ SeenInv => CallersSeeFlash
  BY <1>1 DEF CallersSeeFlash
<1> QED
  BY <1>2, Invariance, MenuInvariance, ImageInvariance, SeenInvariance, PTL

-----------------------------------------------------------------------------
(* The partition table implements Durable *)

\* The five modes of the abstract table, told from the state of the library.
LEMMA Shown ==
  /\ target = None => Mode = "unsafe" /\ Value = None /\ View = None
  /\ target # None =>
       /\ Value = table
       /\ ~up => Mode = "off" /\ View = None
       /\ (up /\ todo # <<>>) => Mode = "busy" /\ View = None
       /\ (Idle /\ sptCorrupted) => Mode = "refused" /\ View = None
       /\ (Idle /\ ~sptCorrupted) => Mode = "serving" /\ View = spt
BY DEF Mode, Value, View, Idle

\* The same after a step.
LEMMA ShownNext ==
  /\ target' = None => Mode' = "unsafe" /\ Value' = None /\ View' = None
  /\ target' # None =>
       /\ Value' = table'
       /\ ~up' => Mode' = "off" /\ View' = None
       /\ (up' /\ todo' # <<>>) => Mode' = "busy" /\ View' = None
       /\ (Idle' /\ sptCorrupted') => Mode' = "refused" /\ View' = None
       /\ (Idle' /\ ~sptCorrupted') => Mode' = "serving" /\ View' = spt'
BY DEF Mode, Value, View, Idle

\* A step of Slots is one of the abstract table, or none.
TableStep == Durably!Next \/ UNCHANGED Durably!vars

\* What is lost stays lost, seen from outside.
LEMMA StaysLost ==
  ASSUME target = None, target' = None
  PROVE  TableStep
BY Shown, ShownNext DEF TableStep, Durably!vars

\* An update goes wrong in a way that the calls above it can tell.
LEMMA Loses ==
  ASSUME target # None, up, target' = None
  PROVE  TableStep
<1>1. Mode # "off"
  BY Shown DEF Idle
<1> QED
  BY <1>1, Shown, ShownNext DEF TableStep, Durably!Next, Durably!Lose

\* Whatever ends the process leaves the table and its target as they were.
LEMMA Halts ==
  ASSUME target # None, target' = target, table' = table, ~up'
  PROVE  TableStep
<1>1. Mode # "unsafe"
  BY Shown DEF Idle
<1> QED
  BY <1>1, Shown, ShownNext DEF TableStep, Durably!Next, Durably!Halt

\* Between two steps of a call, or at its end, the abstract table settles.
LEMMA Settles ==
  ASSUME target # None, up, todo # <<>>, table' \in {table, target}, target' = table',
         target' # None, up', todo' = <<>> => ~sptCorrupted' /\ spt' = table'
  PROVE  TableStep
<1>1. Mode = "busy" /\ Value = table
  BY Shown
<1>2. /\ Value' = table'
      /\ \/ Mode' = "busy" /\ View' = None
         \/ Mode' = "serving" /\ View' = Value'
  BY ShownNext DEF Idle
<1> QED
  BY <1>1, <1>2 DEF TableStep, Durably!Next, Durably!Settle

\* A table that was lost is installed again, or found in order by an open.
LEMMA Recovers ==
  ASSUME target = None, CheckSpt(table'), target' = table', target' # None, up',
         todo' = <<>> => ~sptCorrupted' /\ spt' = table'
  PROVE  TableStep
<1>1. Mode = "unsafe"
  BY Shown
<1>2. /\ Value' = table'
      /\ \/ Mode' = "busy" /\ View' = None
         \/ Mode' = "serving" /\ View' = Value'
  BY ShownNext DEF Idle
<1> QED
  BY <1>1, <1>2 DEF TableStep, Durably!Next, Durably!Recover

\* No table in flash or in a call is None.
LEMMA NotNone ==
  ASSUME IInv
  PROVE  /\ table # None
         /\ Pending("edit") => call.table # None
         /\ Pending("replace") => call.table # None
BY NoneAssumption, SptBackupsAssumption DEF IInv, TypeOK, CallFits

\* An update that comes next is one of the stages still to do.
LEMMA InstallingNext ==
  ASSUME todo' \in Seq(Stages)
  PROVE  Installing' => todo' # <<>> /\ (Pending("edit")' \/ Pending("replace")')
<1>1. SUFFICES ASSUME NEW stage \in {"edit", "replace"}, todo' # <<>>, Head(todo') = stage
               PROVE  Pending(stage)'
  BY DEF Installing, At
<1>2. 1 \in DOMAIN todo' /\ todo'[1] = stage
  BY <1>1
<1> QED
  BY <1>2 DEF Pending

\* Steps on data and pointers leave the table alone, but may lead up to an edit of it.
LEMMA QuietTracks ==
  ASSUME IInv, SeenInv, TrackInv, Track, todo # <<>>, ~Pending("load_spt"), ~Installing,
         UNCHANGED <<table, spt, sptTorn, sptCorrupted>>,
         Proceed \/ (Return /\ up' \in BOOLEAN)
  PROVE  TrackInv' /\ TableStep
<1>1. up /\ table # None
  BY NotNone DEF IInv, PlanFits
<1>2. \A stage : Pending(stage)' => Pending(stage) /\ call' = call
  BY StillPending
<1>3. ~Pending("replace") /\ ~Pending("replace")'
  BY <1>2 DEF TrackInv, Installing
<1>4. Installing' => todo' # <<>> /\ Pending("edit")'
  <2>1. todo' \in Seq(Stages)
    BY ProceedFits, ReturnFits DEF IInv
  <2> QED
    BY <1>3, <2>1, InstallingNext
<1>5. CASE target = None
  <2>1. target' = None
    BY <1>5 DEF Track, Lost, TrackInv
  <2>2. TrackInv'
    BY <1>2, <1>3, <1>5, <2>1 DEF TrackInv
  <2> QED
    BY <1>5, <2>1, <2>2, StaysLost
<1>6. CASE target # None
  <2>1. ~sptCorrupted /\ ~sptTorn /\ target = table /\ CheckSpt(table)
    BY <1>1, <1>6 DEF TrackInv
  <2>2. spt = table
    BY <1>1, <2>1 DEF SeenInv, InUse
  <2>3. target' = IF Installing' THEN call'.table ELSE table'
    BY <1>6, <2>1 DEF Track, Lost
  <2>4. Installing' => call'.table = call.table /\ call.table # None
                       /\ call.table \in TableEdits(table)
    BY <1>2, <1>4, <2>2, NotNone DEF TrackInv
  <2>5. TrackInv'
    BY <1>1, <1>2, <1>3, <2>1, <2>3, <2>4 DEF TrackInv
  <2>6. TableStep
    <3>1. CASE ~up'
      <4>1. todo' = <<>>
        BY <1>1, <3>1 DEF Proceed, Return
      <4>2. ~Installing'
        BY <4>1 DEF Installing, At
      <4> QED
        BY <1>6, <2>1, <2>3, <3>1, <4>2, Halts
    <3>2. CASE up' /\ ~Installing'
      BY <1>1, <1>6, <2>1, <2>2, <2>3, <3>2, Settles
    <3>3. CASE up' /\ Installing'
      <4>1. Mode = "busy" /\ Value = table /\ View = None
        BY <1>1, <1>6, Shown
      <4>2. /\ target' = call.table /\ call.table \in TableEdits(table)
            /\ Mode' = "busy" /\ Value' = table /\ View' = None
        BY <1>4, <2>3, <2>4, <3>3, ShownNext
      <4> QED
        BY <2>1, <4>1, <4>2 DEF TableStep, Durably!Next, Durably!Edit
    <3> QED
      BY <3>1, <3>2, <3>3
  <2> QED
    BY <2>5, <2>6
<1> QED
  BY <1>5, <1>6

\* An update installs its target, or the target is lost.
LEMMA InstallTracks ==
  ASSUME IInv, TrackInv, Track, Edit \/ EditFails \/ Replace \/ ReplaceFails
  PROVE  TrackInv' /\ TableStep
<1>1. PICK stage \in {"edit", "replace"} : At(stage)
  BY DEF Edit, EditFails, Replace, ReplaceFails
<1>2. Installing /\ todo # <<>> /\ up /\ ~Pending("load_spt") /\ Pending(stage)
  BY <1>1, HeadPending DEF Installing, IInv
<1>3. /\ up' = up /\ spt' = call.table /\ table' \in {table, call.table}
      /\ Proceed \/ Return
      /\ ~sptTorn' => table' = call.table
  BY DEF Edit, EditFails, Replace, ReplaceFails, Proceed, Fail, Fault
<1>4. (sptCorrupted' /\ ~sptTorn') => ~CheckSpt(table')
  <2>1. CASE Edit
    BY <2>1, HeadPending DEF Edit, TrackInv, IInv
  <2>2. CASE EditFails \/ Replace \/ ReplaceFails
    BY <2>2 DEF EditFails, Replace, ReplaceFails
  <2> QED
    BY <2>1, <2>2
<1>5. \A some : Pending(some)' => some = "load_cpb"
  <2>1. CASE Proceed
    BY <1>1, <1>2, <2>1, ProceedFits DEF IInv
  <2>2. CASE Return
    BY <2>2, ReturnFits
  <2> QED
    BY <1>3, <2>1, <2>2
<1>6. ~Installing'
  <2>1. todo' \in Seq(Stages)
    BY <1>2, <1>3, ProceedFits, ReturnFits DEF IInv
  <2> QED
    BY <1>5, <2>1, InstallingNext
<1>7. call.table # None
  BY <1>1, <1>2, NotNone
<1>8. CASE sptTorn' \/ ~CheckSpt(table')
  <2>1. target' = None
    BY <1>2, <1>3, <1>8 DEF Track, Lost
  <2>2. TrackInv'
    BY <1>5, <1>8, <2>1 DEF TrackInv
  <2> QED
    BY <1>2, <2>1, <2>2, StaysLost, Loses
<1>9. CASE ~sptTorn' /\ CheckSpt(table')
  <2>1. ~sptCorrupted' /\ table' = call.table /\ spt' = table'
    BY <1>3, <1>4, <1>9
  <2>2. target' = table' /\ target' # None
    BY <1>6, <1>7, <1>9, <2>1 DEF Track, Lost
  <2>3. TrackInv'
    BY <1>5, <1>6, <1>9, <2>1, <2>2 DEF TrackInv
  <2>6. up /\ todo # <<>> /\ up'
    BY <1>2, <1>3
  <2>4. CASE target = None
    BY <1>9, <2>1, <2>2, <2>3, <2>4, <2>6, Recovers
  <2>5. CASE target # None
    <3>1. target = call.table
      BY <1>2, <2>5 DEF TrackInv
    <3> QED
      BY <2>1, <2>2, <2>3, <2>5, <2>6, <3>1, Settles
  <2> QED
    BY <2>4, <2>5
<1> QED
  BY <1>8, <1>9

\* An open settles on the table that flash holds, refuses to serve, or gives up.
LEMMA LoadTracks ==
  ASSUME IInv, TrackInv, Track, LoadSpt \/ LoadSptCorrupted \/ LoadSptFails
  PROVE  TrackInv' /\ TableStep
<1>1. At("load_spt")
  BY DEF LoadSpt, LoadSptCorrupted, LoadSptFails
<1>2. /\ todo # <<>> /\ up /\ Pending("load_spt") /\ call.op = "open"
      /\ ~sptCorrupted /\ ~Installing /\ table # None
  BY <1>1, HeadPending, NotNone DEF IInv, CallFits, TrackInv, Installing, At
<1>3. table' = table /\ (Proceed \/ Return)
  BY DEF LoadSpt, LoadSptCorrupted, LoadSptFails, Proceed, Fail, Abort, flash
<1>4. \A some : Pending(some)' => some = "load_cpb"
  <2>1. CASE Proceed
    BY <1>1, <1>2, <2>1, ProceedFits DEF IInv
  <2>2. CASE Return
    BY <2>2, ReturnFits
  <2> QED
    BY <1>3, <2>1, <2>2
<1>5. ~Installing'
  <2>1. todo' \in Seq(Stages)
    BY <1>2, <1>3, ProceedFits, ReturnFits DEF IInv
  <2> QED
    BY <1>4, <2>1, InstallingNext
<1>6. CASE LoadSpt
  <2>1. /\ CheckSpt(table) /\ spt' = table /\ ~sptTorn' /\ up' = up
        /\ ~sptCorrupted'
    BY <1>2, <1>6 DEF LoadSpt, Proceed
  <2>2. target' = table'
    BY <1>2, <1>3, <1>5, <2>1 DEF Track, Lost
  <2>3. TrackInv'
    BY <1>2, <1>3, <1>4, <1>5, <2>1, <2>2 DEF TrackInv
  <2> QED
    BY <1>2, <1>3, <2>1, <2>2, <2>3, Recovers, Settles
<1>7. CASE LoadSptCorrupted
  <2>1. /\ ~CheckSpt(table) \/ sptTorn
        /\ sptCorrupted' /\ todo' = <<>> /\ up' = up /\ sptTorn' = sptTorn
    BY <1>7 DEF LoadSptCorrupted, Fail, Return, flash
  <2>2. CASE target = None
    <3>1. target' = None
      BY <1>3, <2>1, <2>2 DEF Track, Lost
    <3>2. TrackInv'
      BY <1>3, <1>4, <2>1, <3>1 DEF TrackInv
    <3> QED
      BY <2>2, <3>1, <3>2, StaysLost
  <2>3. CASE target # None
    <3>1. CheckSpt(table) /\ sptTorn
      BY <2>1, <2>3 DEF TrackInv
    <3>2. target' = target
      BY <1>2, <1>5, <2>1, <2>3, <3>1 DEF Track, Lost
    <3>3. TrackInv'
      BY <1>3, <1>4, <2>1, <2>3, <3>1, <3>2 DEF TrackInv
    <3>4. /\ Mode = "busy" /\ Value = table
          /\ Mode' = "refused" /\ Value' = table /\ View' = None
      BY <1>2, <1>3, <2>1, <2>3, <3>2, Shown, ShownNext DEF Idle
    <3> QED
      BY <3>2, <3>3, <3>4 DEF TableStep, Durably!Next, Durably!Refuse
  <2> QED
    BY <2>2, <2>3
<1>8. CASE LoadSptFails
  <2>1. /\ UNCHANGED <<sptTorn, sptCorrupted>> /\ ~up' /\ todo' = <<>>
    BY <1>2, <1>8 DEF LoadSptFails, Abort, Return, flash, memory
  <2>2. CASE target = None
    <3>1. target' = None
      BY <1>3, <2>1, <2>2 DEF Track, Lost, TrackInv
    <3>2. TrackInv'
      BY <1>2, <1>3, <1>4, <2>1, <2>2, <3>1 DEF TrackInv
    <3> QED
      BY <2>2, <3>1, <3>2, StaysLost
  <2>3. CASE target # None
    <3>1. target' = target
      BY <1>2, <1>3, <1>5, <2>1, <2>3 DEF Track, Lost, TrackInv
    <3>2. TrackInv'
      BY <1>2, <1>3, <1>4, <1>5, <2>1, <2>3, <3>1 DEF TrackInv
    <3> QED
      BY <1>3, <2>1, <2>3, <3>1, <3>2, Halts
  <2> QED
    BY <2>2, <2>3
<1> QED
  BY <1>6, <1>7, <1>8

\* A crash keeps the target of the update it cuts short, for the next open to settle.
LEMMA CrashTracks ==
  ASSUME IInv, TrackInv, Track, Crash
  PROVE  TrackInv' /\ TableStep
<1>1. /\ up /\ ~up' /\ todo' = <<>> /\ ~sptCorrupted' /\ table' = table
      /\ sptTorn' = (sptTorn \/ Installing)
      /\ \A some : ~Pending(some)'
  BY ReturnFits DEF Crash, Return, Installing
<1>2. ~Installing'
  BY <1>1 DEF Installing, At
<1>3. CASE target = None
  <2>1. target' = None
    BY <1>1, <1>3 DEF Track, Lost, TrackInv
  <2>2. TrackInv'
    BY <1>1, <1>3, <2>1 DEF TrackInv
  <2> QED
    BY <1>3, <2>1, <2>2, StaysLost
<1>4. CASE target # None
  <2>1. target' = target
    BY <1>1, <1>2, <1>4 DEF Track, Lost, TrackInv
  <2>2. TrackInv'
    BY <1>1, <1>2, <1>4, <2>1 DEF TrackInv
  <2> QED
    BY <1>1, <1>4, <2>1, <2>2, Halts
<1> QED
  BY <1>3, <1>4

\* librsu_init boots the abstract table.
LEMMA OpenTracks ==
  ASSUME IInv, TrackInv, Track, Open
  PROVE  TrackInv' /\ TableStep
<1>1. /\ ~up /\ up' /\ todo' = <<"load_spt", "load_cpb">> /\ ~sptCorrupted'
      /\ table' = table /\ sptTorn' = sptTorn
  BY DEF Open, flash
<1>2. todo = <<>> /\ ~Installing
  BY <1>1 DEF IInv, PlanFits, Installing, At
<1>3. /\ todo' # <<>> /\ ~Installing' /\ Pending("load_spt")'
      /\ ~Pending("edit")' /\ ~Pending("replace")'
  <2>1. DOMAIN todo' = {1, 2} /\ todo'[1] = "load_spt" /\ todo'[2] = "load_cpb"
    BY <1>1
  <2>2. Head(todo') = "load_spt"
    BY <1>1
  <2> QED
    BY <1>1, <2>1, <2>2 DEF Installing, At, Pending
<1>4. CASE target = None
  <2>1. target' = None
    BY <1>1, <1>4 DEF Track, Lost, TrackInv
  <2>2. TrackInv'
    BY <1>1, <1>3, <1>4, <2>1 DEF TrackInv
  <2> QED
    BY <1>4, <2>1, <2>2, StaysLost
<1>5. CASE target # None
  <2>1. target' = target
    BY <1>1, <1>2, <1>3, <1>5 DEF Track, Lost, TrackInv
  <2>2. TrackInv'
    BY <1>1, <1>2, <1>3, <1>5, <2>1 DEF TrackInv
  <2>3. /\ Mode = "off" /\ Value = table /\ View = None
        /\ Mode' = "busy" /\ Value' = table /\ View' = None
    BY <1>1, <1>3, <1>5, <2>1, Shown, ShownNext
  <2> QED
    BY <2>1, <2>2, <2>3 DEF TableStep, Durably!Next, Durably!Boot
<1> QED
  BY <1>4, <1>5

\* A call begins: what it will install is an edit of what flash holds.
LEMMA BeginTracks ==
  ASSUME IInv, SeenInv, TrackInv, Track,
         NEW op, NEW n, NEW x, NEW t, NEW stages \in Seq(Stages), stages # <<>>,
         Begin(op, n, x, t, stages),
         \A k \in DOMAIN stages :
           /\ stages[k] # "load_spt"
           /\ stages[k] = "replace" => k = 1 /\ t \in SptBackups
           /\ stages[k] = "edit" => ~sptCorrupted /\ t \in TableEdits(spt) /\ t \in Table
  PROVE  TrackInv' /\ TableStep
<1>1. /\ up /\ todo = <<>> /\ up' = up /\ todo' = stages /\ call'.table = t
      /\ UNCHANGED <<table, spt, sptTorn, sptCorrupted>>
  BY DEF Begin, Idle, flash, memory
<1>2. /\ Pending("edit")' => ~sptCorrupted /\ t \in TableEdits(spt) /\ t \in Table
      /\ Pending("replace")' => At("replace")' /\ t \in SptBackups
      /\ ~Pending("load_spt")'
  <2>1. Head(stages) = stages[1] /\ 1 \in DOMAIN stages
    OBVIOUS
  <2> QED
    BY <1>1, <2>1 DEF Pending, At
<1>3. Installing' => \/ t \in TableEdits(spt) /\ t \in Table
                     \/ t \in SptBackups
  BY <1>1, <1>2, InstallingNext
<1>4. ~Installing /\ ~Pending("load_spt") /\ table # None /\ (Installing' => t # None)
  BY <1>1, <1>3, NothingPending, NotNone, NoneAssumption, SptBackupsAssumption
     DEF Installing, At
<1>5. CASE target = None
  <2>1. target' = None
    BY <1>1, <1>5 DEF Track, Lost, TrackInv
  <2>2. TrackInv'
    BY <1>1, <1>2, <1>5, <2>1 DEF TrackInv
  <2> QED
    BY <1>5, <2>1, <2>2, StaysLost
<1>6. CASE target # None /\ sptCorrupted
  <2>1. target' = None
    BY <1>1, <1>6 DEF Track, Lost
  <2>2. TrackInv'
    BY <1>1, <1>2, <1>6, <2>1 DEF TrackInv
  <2> QED
    BY <1>1, <1>6, <2>1, <2>2, Loses
<1>7. CASE target # None /\ ~sptCorrupted
  <2>1. ~sptTorn /\ target = table /\ CheckSpt(table)
    BY <1>1, <1>4, <1>7 DEF TrackInv
  <2>2. spt = table
    BY <1>1, <1>4, <1>7, <2>1 DEF SeenInv, InUse
  <2>3. target' = IF Installing' THEN t ELSE table
    BY <1>1, <1>4, <1>7, <2>1 DEF Track, Lost
  <2>4. target' # None
    BY <1>4, <2>3
  <2>5. TrackInv'
    BY <1>1, <1>2, <1>7, <2>1, <2>3, <2>4 DEF TrackInv
  <2>6. target' \in {table} \cup TableEdits(table) \cup SptBackups
    BY <1>3, <2>2, <2>3
  <2>7. /\ Mode = "serving" /\ Value = table
        /\ Mode' = "busy" /\ Value' = table /\ View' = None
    BY <1>1, <1>7, <2>4, Shown, ShownNext DEF Idle
  <2> QED
    BY <2>1, <2>5, <2>6, <2>7 DEF TableStep, Durably!Next, Durably!Call
<1> QED
  BY <1>5, <1>6, <1>7

\* What callers may ask for is an edit of the table in memory.
LEMMA AskedFor ==
  ASSUME IInv
  PROVE  /\ \A n : \A x \in Slot2Part(spt, n) :
              Without(spt, x) \in TableEdits(spt) /\ Without(spt, x) \in Table
         /\ \A n : \A x \in Slot2Part(spt, n), name \in SlotNames :
              ~Named(spt, name) =>
                Renamed(spt, x, name) \in TableEdits(spt) /\ Renamed(spt, x, name) \in Table
         /\ \A name \in SlotNames, request \in Requests :
              LET slot == NewSlot(name, request)
              IN  ( /\ ~Named(spt, name) /\ Len(spt) < MaxPartitions
                    /\ \A x \in DOMAIN spt : ~Overlap(spt[x], slot) ) =>
                      Append(spt, slot) \in TableEdits(spt) /\ Append(spt, slot) \in Table
<1>1. spt \in Table /\ Placed(spt)
  BY DEF IInv, TypeOK
<1>2. ASSUME NEW n, NEW x \in Slot2Part(spt, n)
      PROVE  /\ Without(spt, x) \in TableEdits(spt) /\ Without(spt, x) \in Table
             /\ \A name \in SlotNames : ~Named(spt, name) =>
                  Renamed(spt, x, name) \in TableEdits(spt) /\ Renamed(spt, x, name) \in Table
  <2>1. x \in DOMAIN spt /\ IsSlot(spt[x])
    BY DEF Slot2Part
  <2>2. /\ Without(spt, x) \in Table
        /\ \A name \in SlotNames : ~Named(spt, name) => Renamed(spt, x, name) \in Table
    BY <1>1, <2>1, EditsFit
  <2> QED
    BY <2>1, <2>2 DEF TableEdits
<1>3. ASSUME NEW name \in SlotNames, NEW request \in Requests,
             ~Named(spt, name), Len(spt) < MaxPartitions,
             \A x \in DOMAIN spt : ~Overlap(spt[x], NewSlot(name, request))
      PROVE  /\ Append(spt, NewSlot(name, request)) \in TableEdits(spt)
             /\ Append(spt, NewSlot(name, request)) \in Table
  <2>1. Append(spt, NewSlot(name, request)) \in Table
    BY <1>1, <1>3, EditsFit
  <2>2. NewSlot(name, request).name = name
    BY DEF NewSlot
  <2> QED
    BY <1>3, <2>1, <2>2 DEF TableEdits
<1> QED
  BY <1>2, <1>3

\* Every call of the API begins an edit or a replacement, or nothing that the table
\* shows.
LEMMA ApiTracks ==
  ASSUME IInv, SeenInv, TrackInv, Track, Api
  PROVE  TrackInv' /\ TableStep
<1>1. ASSUME NEW op, NEW n, NEW x, NEW t, NEW stages \in Seq(Stages), stages # <<>>,
             Begin(op, n, x, t, stages),
             \A k \in DOMAIN stages : stages[k] \notin {"load_spt", "edit", "replace"}
      PROVE  TrackInv' /\ TableStep
  BY <1>1, BeginTracks
<1>2. ASSUME NEW op, NEW n, NEW x, NEW t,
             \/ Begin(op, n, x, t, <<"remove", "erase">>)
             \/ Begin(op, n, x, t, <<"write", "add">>)
             \/ Begin(op, n, x, t, <<"remove", "add">>)
      PROVE  TrackInv' /\ TableStep
  <2>1. ASSUME NEW one \in {"remove", "write"}, NEW two \in {"erase", "add"}
        PROVE  /\ <<one, two>> \in Seq(Stages) /\ <<one, two>> # <<>>
               /\ \A k \in DOMAIN <<one, two>> :
                    <<one, two>>[k] \notin {"load_spt", "edit", "replace"}
    <3>1. /\ one \in Stages /\ one \notin {"load_spt", "edit", "replace"}
          /\ two \in Stages /\ two \notin {"load_spt", "edit", "replace"}
      BY DEF Stages, DataStages
    <3> QED
      BY <3>1
  <2>2. ASSUME NEW one \in {"remove", "write"}, NEW two \in {"erase", "add"},
               Begin(op, n, x, t, <<one, two>>)
        PROVE  TrackInv' /\ TableStep
    BY <1>1, <2>1, <2>2
  <2> QED
    BY <1>2, <2>2
<1>3. ASSUME NEW op, NEW n, NEW x, NEW t, NEW stage \in {"write raw", "remove", "restore cpb"},
             Begin(op, n, x, t, <<stage>>)
      PROVE  TrackInv' /\ TableStep
  <2>1. stage \in Stages
    BY DEF Stages, DataStages
  <2> QED
    BY <1>1, <1>3, <2>1, OneStage
<1>4. ASSUME NEW op, NEW n, NEW x, NEW t \in TableEdits(spt), t \in Table, ~sptCorrupted,
             \/ Begin(op, n, x, t, <<"edit">>)
             \/ Begin(op, n, x, t, <<"remove", "erase", "edit">>)
      PROVE  TrackInv' /\ TableStep
  <2> DEFINE three == <<"remove", "erase", "edit">>
  <2>1. "edit" \in Stages
    BY DEF Stages, DataStages
  <2>2. CASE Begin(op, n, x, t, <<"edit">>)
    <3>1. /\ <<"edit">> \in Seq(Stages) /\ <<"edit">> # <<>>
          /\ \A k \in DOMAIN <<"edit">> : <<"edit">>[k] \notin {"load_spt", "replace"}
      BY <2>1
    <3> QED
      BY <1>4, <2>2, <3>1, BeginTracks
  <2>3. CASE Begin(op, n, x, t, three)
    <3>1. /\ three \in Seq(Stages) /\ three # <<>>
          /\ \A k \in DOMAIN three : three[k] \notin {"load_spt", "replace"}
      BY DEF Stages, DataStages
    <3> HIDE DEF three
    <3> QED
      BY <1>4, <2>3, <3>1, BeginTracks
  <2> QED
    BY <1>4, <2>2, <2>3
<1>5. ASSUME NEW t \in SptBackups, RestoreSpt(t) \/ RestoreSptFromBuf(t)
      PROVE  TrackInv' /\ TableStep
  <2> DEFINE stages == <<"replace", "load_cpb">>
  <2>1. /\ stages \in Seq(Stages) /\ stages # <<>>
        /\ \A k \in DOMAIN stages : /\ stages[k] \notin {"load_spt", "edit"}
                                    /\ stages[k] = "replace" => k = 1
    BY DEF Stages, DataStages
  <2>2. Begin("restore", 0, 0, t, stages)
    BY <1>5 DEF RestoreSpt, RestoreSptFromBuf
  <2> HIDE DEF stages
  <2> QED
    BY <2>1, <2>2, BeginTracks
<1>6. ASSUME NEW n, \/ SlotErase(n) \/ SlotProgram(n) \/ SlotProgramRaw(n)
                    \/ SlotDisable(n) \/ SlotEnable(n)
      PROVE  TrackInv' /\ TableStep
  BY <1>2, <1>3, <1>6 DEF SlotErase, SlotProgram, SlotProgramRaw, SlotDisable, SlotEnable,
     OnSlot
<1>7. ASSUME NEW n, SlotDelete(n)
      PROVE  TrackInv' /\ TableStep
  BY <1>4, <1>7, AskedFor DEF SlotDelete, Usable
<1>8. ASSUME NEW n, NEW name \in SlotNames, SlotRename(n, name)
      PROVE  TrackInv' /\ TableStep
  BY <1>4, <1>8, AskedFor DEF SlotRename, Usable
<1>9. ASSUME NEW name \in SlotNames, NEW request \in Requests, SlotCreate(name, request)
      PROVE  TrackInv' /\ TableStep
  BY <1>4, <1>9, AskedFor DEF SlotCreate, Usable
<1>10. ASSUME NEW list, RestoreCpb(list) \/ RestoreCpbFromBuf(list) \/ CreateEmptyCpb
       PROVE  TrackInv' /\ TableStep
  BY <1>3, <1>10 DEF RestoreCpb, RestoreCpbFromBuf, CreateEmptyCpb
<1> QED
  BY <1>5, <1>6, <1>7, <1>8, <1>9, <1>10, OpenTracks DEF Api

\* Every stage of a call is a step of the abstract table, or a stutter.
LEMMA StepTracks ==
  ASSUME IInv, SeenInv, TrackInv, Track, Step
  PROVE  TrackInv' /\ TableStep
<1>1. CASE EraseData \/ EraseFails \/ WriteData \/ WriteRaw \/ WriteFails
  <2>1. PICK stage \in DataStages : At(stage)
    BY <1>1 DEF EraseData, EraseFails, WriteData, WriteRaw, WriteFails, DataStages
  <2>2. todo # <<>> /\ ~Pending("load_spt") /\ ~Installing
    BY <2>1, HeadPending DEF IInv, DataStages, Installing, At
  <2>3. UNCHANGED <<table, spt, sptTorn, sptCorrupted>>
    BY <1>1 DEF EraseData, EraseFails, WriteData, WriteRaw, WriteFails, DataUnchanged,
       memory
  <2>4. Proceed \/ (Return /\ up' = up)
    BY <1>1 DEF EraseData, EraseFails, WriteData, WriteRaw, WriteFails, Fail, Fault
  <2> QED
    BY <2>2, <2>3, <2>4, QuietTracks DEF IInv, TypeOK
<1>2. CASE \/ RemovePointer \/ AddPointer \/ AddPointerFails \/ ReplacePointers
           \/ LoadCpb \/ LoadCpbCorrupted \/ LoadCpbFails
  <2>1. PICK stage \in {"remove", "add", "restore cpb", "load_cpb"} : At(stage)
    BY <1>2 DEF RemovePointer, AddPointer, AddPointerFails, ReplacePointers, LoadCpb,
       LoadCpbCorrupted, LoadCpbFails
  <2>2. todo # <<>> /\ ~Pending("load_spt") /\ ~Installing
    BY <2>1, HeadPending DEF IInv, Installing, At
  <2>3. UNCHANGED <<table, spt, sptTorn, sptCorrupted>>
    BY <1>2 DEF RemovePointer, AddPointer, AddPointerFails, ReplacePointers, LoadCpb,
       LoadCpbCorrupted, LoadCpbFails, SetPointers, SetPointersFails, flash, memory
  <2>4. Proceed \/ (Return /\ up' \in BOOLEAN)
    <3>1. CASE RemovePointer \/ AddPointer
      <4>1. \E list : SetPointers(list) \/ SetPointersFails(list)
        BY <3>1 DEF RemovePointer, AddPointer
      <4> QED
        BY <4>1 DEF SetPointers, SetPointersFails, Fail, Fault, IInv, TypeOK
    <3>2. CASE AddPointerFails \/ ReplacePointers \/ LoadCpb \/ LoadCpbCorrupted
      BY <3>2 DEF AddPointerFails, ReplacePointers, LoadCpb, LoadCpbCorrupted, Fail, Fault,
         IInv, TypeOK
    <3>3. CASE LoadCpbFails
      BY <3>3 DEF LoadCpbFails, Abort
    <3> QED
      BY <1>2, <3>1, <3>2, <3>3
  <2> QED
    BY <2>2, <2>3, <2>4, QuietTracks
<1> QED
  BY <1>1, <1>2, InstallTracks, LoadTracks DEF Step

\* Every step, of the library, of its callers or of the board.
LEMMA NextTracks ==
  ASSUME IInv, SeenInv, TrackInv, [Next /\ Track]_<<vars, target>>
  PROVE  TrackInv' /\ TableStep
<1>1. CASE Next /\ Track
  BY <1>1, StepTracks, ApiTracks, CrashTracks DEF Next
<1>2. CASE UNCHANGED <<vars, target>>
  <2>1. UNCHANGED <<table, spt, sptTorn, sptCorrupted, up, todo, call, target>>
    BY <1>2 DEF vars, flash, memory, control
  <2>2. TrackInv'
    BY <2>1 DEF TrackInv, Installing, At, Pending
  <2>3. UNCHANGED Durably!vars
    BY <2>1, Zenon DEF Durably!vars, Mode, Value, View, Idle
  <2> QED
    BY <2>2, <2>3 DEF TableStep
<1> QED
  BY <1>1, <1>2

\* As long as the target is known, the table in flash passes check_spt and is the target
\* unless an update is under way; a torn table is never in use; and what the next update
\* installs is an edit of the table that callers see (rsu_slot_create, _delete, _rename
\* check their arguments against the table in memory before writeback_spt writes it).
THEOREM TrackInvariance == TrackedSpec => []TrackInv
<1>1. ASSUME Init, target = Provisioned
      PROVE  TrackInv
  <2>1. /\ table = Provisioned /\ ~sptTorn /\ ~sptCorrupted /\ todo = <<>>
    BY <1>1 DEF Init
  <2>2. Provisioned # None
    BY ProvisionedAssumption, NoneAssumption
  <2> QED
    BY <1>1, <2>1, <2>2, NothingPending, ProvisionedAssumption
       DEF TrackInv, Installing, At
<1>2. TrackedSpec => Spec
  <2>1. [Next /\ Track]_<<vars, target>> => [Next]_vars
    OBVIOUS
  <2> QED
    BY <2>1, PTL DEF TrackedSpec, TrackedInit, Spec
<1> QED
  BY <1>1, <1>2, NextTracks, Invariance, SeenInvariance, PTL
     DEF TrackedSpec, TrackedInit

\* The partition table of Slots implements Durable: whatever calls, crashes, errors and
\* restores come in between, flash holds the table before or after one edit that a caller
\* asked for, or a replacement, or the library refuses to serve, and callers see no other.
THEOREM KeepsTable == TrackedSpec => ImplementsTable
<1>1. ASSUME Init, target = Provisioned
      PROVE  Durably!Init
  <2>1. table = Provisioned /\ ~up
    BY <1>1 DEF Init
  <2>2. Provisioned # None
    BY ProvisionedAssumption, NoneAssumption
  <2> QED
    BY <1>1, <2>1, <2>2, Shown DEF Durably!Init
<1>2. TrackedSpec => Spec
  <2>1. [Next /\ Track]_<<vars, target>> => [Next]_vars
    OBVIOUS
  <2> QED
    BY <2>1, PTL DEF TrackedSpec, TrackedInit, Spec
<1>3. ASSUME IInv, SeenInv, TrackInv, [Next /\ Track]_<<vars, target>>
      PROVE  [Durably!Next]_(Durably!vars)
  BY <1>3, NextTracks DEF TableStep
<1> QED
  BY <1>1, <1>2, <1>3, Invariance, SeenInvariance, TrackInvariance, PTL
     DEF TrackedSpec, TrackedInit, ImplementsTable, Durably!Spec
=============================================================================
