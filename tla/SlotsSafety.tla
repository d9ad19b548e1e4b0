---------------------------- MODULE SlotsSafety ----------------------------
(***************************************************************************)
(* Theorems about Slots, for every set of names, requested slots, backups  *)
(* and protected slot numbers, every valid provisioned table and pointers  *)
(* that fit, any number of pointers and of faults: a call changes the slot *)
(* its caller named and none that is protected, and the pointers in flash, *)
(* which the firmware may follow, lead to slots of the partition table in  *)
(* flash.                                                                  *)
(***************************************************************************)
EXTENDS SlotsInvariant, TablesProofs, SequenceTheorems

USE SlotNamesAssumption, MaxPartitionsAssumption, ProvisionedAssumption,
    RequestsAssumption, SptBackupsAssumption

-----------------------------------------------------------------------------
(* Lemmas about tables and units *)

LEMMA BackupsPlaced ==
  /\ Placed(Provisioned) /\ Placed(<<>>) /\ <<>> \in Table
  /\ \A t \in SptBackups : t \in Table /\ Placed(t)
  /\ \A name : \A request \in Requests : Region(NewSlot(name, request)) \subseteq Units
<1>1. Placed(Provisioned) /\ Placed(<<>>)
  BY DEF Placed, Region, Units
<1>2. ASSUME NEW t \in SptBackups
      PROVE  t \in Table /\ Placed(t)
  BY DEF Placed, Region, Units
<1>3. ASSUME NEW name, NEW request \in Requests
      PROVE  Region(NewSlot(name, request)) \subseteq Units
  BY DEF NewSlot, Region, Units
<1>4. <<>> \in Table
  BY DEF Table
<1> QED
  BY <1>1, <1>2, <1>3, <1>4

\* What an edit makes of a table lies where data is, and passes check_spt again.
LEMMA EditsFit ==
  ASSUME NEW t \in Table, Placed(t)
  PROVE  /\ \A x \in DOMAIN t : IsSlot(t[x]) =>
              /\ Without(t, x) \in Table /\ Placed(Without(t, x))
              /\ CheckSpt(t) => CheckSpt(Without(t, x))
         /\ \A x \in DOMAIN t, name \in SlotNames :
              (IsSlot(t[x]) /\ ~Named(t, name)) =>
                /\ Renamed(t, x, name) \in Table /\ Placed(Renamed(t, x, name))
                /\ CheckSpt(t) => CheckSpt(Renamed(t, x, name))
         /\ \A name \in SlotNames, request \in Requests :
              ( /\ ~Named(t, name) /\ Len(t) < MaxPartitions
                /\ \A x \in DOMAIN t : ~Overlap(t[x], NewSlot(name, request)) ) =>
                  LET u == Append(t, NewSlot(name, request))
                  IN  u \in Table /\ Placed(u) /\ (CheckSpt(t) => CheckSpt(u))
<1>1. ASSUME NEW x \in DOMAIN t, IsSlot(t[x])
      PROVE  /\ Without(t, x) \in Table /\ Placed(Without(t, x))
             /\ CheckSpt(t) => CheckSpt(Without(t, x))
  BY <1>1, WithoutFacts, DeleteKeepsValid DEF Placed
<1>2. ASSUME NEW x \in DOMAIN t, NEW name \in SlotNames, IsSlot(t[x]), ~Named(t, name)
      PROVE  /\ Renamed(t, x, name) \in Table /\ Placed(Renamed(t, x, name))
             /\ CheckSpt(t) => CheckSpt(Renamed(t, x, name))
  <2>1. Placed(Renamed(t, x, name))
    <3>1. ASSUME NEW y \in DOMAIN t
          PROVE  Region(Renamed(t, x, name)[y]) = Region(t[y])
      <4>1. t[x] \in Partition
        BY TableFacts
      <4>2. Region([t[x] EXCEPT !.name = name]) = Region(t[x])
        BY <4>1 DEF Region, Partition
      <4> QED
        BY <4>2, RenamedFacts
    <3>2. DOMAIN Renamed(t, x, name) = DOMAIN t
      BY RenamedFacts
    <3> QED
      BY <3>1, <3>2 DEF Placed
  <2> QED
    BY <1>2, <2>1, RenamedFacts, RenameKeepsValid
<1>3. ASSUME NEW name \in SlotNames, NEW request \in Requests,
             ~Named(t, name), Len(t) < MaxPartitions,
             \A x \in DOMAIN t : ~Overlap(t[x], NewSlot(name, request))
      PROVE  LET u == Append(t, NewSlot(name, request))
             IN  u \in Table /\ Placed(u) /\ (CheckSpt(t) => CheckSpt(u))
  <2> DEFINE p == NewSlot(name, request)
  <2>1. request \in [offset : Nat, length : Nat]
    OBVIOUS
  <2>2. p \in Partition /\ Region(p) \subseteq Units
    BY <2>1, NewSlotFacts, BackupsPlaced
  <2>3. Append(t, p) \in Table /\ Placed(Append(t, p))
    <3> HIDE DEF p
    <3> QED
      BY <2>2, AppendedTable DEF Placed
  <2>4. CheckSpt(t) => CheckSpt(Append(t, p))
    BY <1>3, <2>1, CreateKeepsValid
  <2> QED
    BY <2>3, <2>4
<1> QED
  BY <1>1, <1>2, <1>3

LEMMA ProtectedPlaced ==
  ASSUME NEW t, Placed(t)
  PROVE  Protected(t) \subseteq Units
BY DEF Protected, Slot2Part, Placed

\* Slots with different numbers have no unit in common.
LEMMA SlotsApart ==
  ASSUME NEW t \in Table, CheckSpt(t), NEW n, NEW m, n # m,
         NEW x \in Slot2Part(t, n), NEW y \in Slot2Part(t, m)
  PROVE  Region(t[x]) \cap Region(t[y]) = {}
<1>1. x # y /\ x \in DOMAIN t /\ y \in DOMAIN t
  BY DEF Slot2Part
<1>2. ~Overlap(t[x], t[y])
  BY <1>1 DEF CheckSpt
<1>3. /\ t[x].offset \in Nat /\ t[x].length \in Nat
      /\ t[y].offset \in Nat /\ t[y].length \in Nat
  BY <1>1, TableFacts DEF Partition
<1> QED
  BY <1>2, <1>3 DEF Overlap, Region

-----------------------------------------------------------------------------
(* Lemmas about plans *)

LEMMA ReturnFits ==
  ASSUME Return
  PROVE  todo' = <<>> /\ todo' \in Seq(Stages) /\ \A stage : ~Pending(stage)'
BY DEF Return, Pending

LEMMA ProceedFits ==
  ASSUME TypeOK, PlanFits, Proceed, todo # <<>>
  PROVE  /\ up' = up /\ todo' \in Seq(Stages)
         /\ PlanFits'
         /\ \A stage : Pending(stage)' => Pending(stage) /\ call' = call
         /\ (At("edit") \/ At("replace") \/ At("load_spt")) =>
              \A stage : Pending(stage)' => stage = "load_cpb"
<1>1. CASE Len(todo) = 1
  <2>1. up' = up /\ Return
    BY <1>1 DEF Proceed
  <2> QED
    BY <2>1, ReturnFits DEF PlanFits
<1>2. CASE Len(todo) # 1
  <2>1. up' = up /\ todo' = Tail(todo) /\ call' = call
    BY <1>2 DEF Proceed
  <2>2. /\ todo' \in Seq(Stages) /\ Len(todo') = Len(todo) - 1 /\ Len(todo) \in Nat
        /\ DOMAIN todo = 1..Len(todo) /\ DOMAIN todo' = 1..(Len(todo) - 1)
        /\ \A k \in DOMAIN todo' : k + 1 \in DOMAIN todo /\ todo'[k] = todo[k + 1]
    BY <2>1 DEF TypeOK
  <2>3. PlanFits'
    BY <2>1, <2>2 DEF PlanFits
  <2>4. \A stage : Pending(stage)' => Pending(stage) /\ call' = call
    BY <2>1, <2>2 DEF Pending
  <2>5. ASSUME At("edit") \/ At("replace") \/ At("load_spt"),
               NEW k \in DOMAIN todo'
        PROVE  todo'[k] = "load_cpb"
    <3>1. todo[1] \in {"edit", "replace", "load_spt"} /\ 1 \in DOMAIN todo
      BY <2>2, <2>5 DEF At, TypeOK
    <3> QED
      BY <2>2, <3>1 DEF PlanFits
  <2> QED
    BY <2>1, <2>2, <2>3, <2>4, <2>5 DEF Pending
<1> QED
  BY <1>1, <1>2

-----------------------------------------------------------------------------
(* Steps preserve the invariant *)

LEMMA HeadPending ==
  ASSUME TypeOK, PlanFits, NEW stage, At(stage)
  PROVE  /\ todo # <<>> /\ 1 \in DOMAIN todo /\ todo[1] = stage /\ Pending(stage) /\ up
         /\ stage # "load_spt" => ~Pending("load_spt")
BY DEF TypeOK, PlanFits, At, Pending

\* Steps that leave the partition table and its numbers alone.
LEMMA QuietStep ==
  ASSUME IInv, UNCHANGED <<table, spt, sptCorrupted, guarded>>,
         todo # <<>>, ~Pending("load_spt"),
         Proceed \/ (Return /\ up' \in BOOLEAN)
  PROVE  IInv'
<1>1. CASE Proceed
  <2>1. TypeOK'
    BY <1>1, ProceedFits DEF IInv, TypeOK, Placed
  <2>2. PlanFits'
    BY <1>1, ProceedFits DEF IInv
  <2>3. CallFits'
    BY <1>1, ProceedFits DEF IInv, CallFits
  <2>4. Covered'
    <3>1. up' = up /\ (Pending("load_spt")' => Pending("load_spt"))
      BY <1>1, ProceedFits DEF IInv
    <3>2. Protected(spt)' = Protected(spt)
      BY DEF Protected
    <3> QED
      BY <3>1, <3>2 DEF IInv, Covered
  <2> QED
    BY <2>1, <2>2, <2>3, <2>4 DEF IInv
<1>2. CASE Return /\ up' \in BOOLEAN
  <2>1. TypeOK'
    BY <1>2, ReturnFits DEF IInv, TypeOK, Placed
  <2>2. PlanFits' /\ CallFits'
    BY <1>2, ReturnFits DEF PlanFits, CallFits
  <2>3. Covered'
    BY <1>2 DEF IInv, PlanFits, Covered, Protected
  <2> QED
    BY <2>1, <2>2, <2>3 DEF IInv
<1> QED
  BY <1>1, <1>2

LEMMA DataStepStays ==
  ASSUME IInv, EraseData \/ EraseFails \/ WriteData \/ WriteRaw \/ WriteFails
  PROVE  IInv'
<1>1. PICK stage \in DataStages : At(stage)
  BY DEF EraseData, EraseFails, WriteData, WriteRaw, WriteFails, DataStages
<1>2. todo # <<>> /\ ~Pending("load_spt")
  BY <1>1, HeadPending DEF IInv, DataStages
<1>3. UNCHANGED <<table, spt, sptCorrupted, guarded>>
  BY DEF EraseData, EraseFails, WriteData, WriteRaw, WriteFails, DataUnchanged, memory,
     history
<1>4. Proceed \/ (Return /\ up' \in BOOLEAN)
  BY DEF EraseData, EraseFails, WriteData, WriteRaw, WriteFails, Fault, Fail, IInv,
     TypeOK
<1> QED
  BY <1>2, <1>3, <1>4, QuietStep

LEMMA PointerStepStays ==
  ASSUME IInv, \/ RemovePointer \/ AddPointer \/ AddPointerFails \/ ReplacePointers
               \/ LoadCpb \/ LoadCpbCorrupted \/ LoadCpbFails
  PROVE  IInv'
<1>1. PICK stage \in {"remove", "add", "restore cpb", "load_cpb"} : At(stage)
  BY DEF RemovePointer, AddPointer, AddPointerFails, ReplacePointers, LoadCpb,
     LoadCpbCorrupted, LoadCpbFails
<1>2. todo # <<>> /\ ~Pending("load_spt")
  BY <1>1, HeadPending DEF IInv
<1>3. UNCHANGED <<table, spt, sptCorrupted, guarded>>
  BY DEF RemovePointer, AddPointer, AddPointerFails, ReplacePointers, LoadCpb,
     LoadCpbCorrupted, LoadCpbFails, SetPointers, SetPointersFails, flash, memory, history
<1>4. Proceed \/ (Return /\ up' \in BOOLEAN)
  BY DEF RemovePointer, AddPointer, AddPointerFails, ReplacePointers, LoadCpb,
     LoadCpbCorrupted, LoadCpbFails, SetPointers, SetPointersFails, Fault, Fail, Abort,
     IInv, TypeOK
<1> QED
  BY <1>2, <1>3, <1>4, QuietStep

LEMMA EditStays ==
  ASSUME IInv, Edit \/ EditFails
  PROVE  IInv'
<1> DEFINE t == call.table
<1>1. /\ At("edit") /\ Pending("edit") /\ up /\ todo # <<>>
      /\ ~Pending("load_spt")
  BY HeadPending DEF IInv, Edit, EditFails
<1>2. t \in Table /\ Placed(t) /\ (CheckSpt(spt) => CheckSpt(t))
  BY <1>1 DEF IInv, CallFits
<1>3. /\ table' \in {table, t} /\ spt' = t /\ sptCorrupted' \in BOOLEAN
      /\ guarded' = guarded \cap Protected(t)
  BY DEF Edit, EditFails, Learn, IInv, TypeOK
<1>4. /\ \A stage : Pending(stage)' => stage = "load_cpb"
      /\ PlanFits' /\ todo' \in Seq(Stages) /\ up' = up
  <2>1. Proceed \/ (Return /\ up' = up)
    BY DEF Edit, EditFails, Fault, Fail
  <2>2. CASE Proceed
    BY <1>1, <2>2, ProceedFits DEF IInv
  <2>3. CASE Return /\ up' = up
    BY <2>3, ReturnFits DEF PlanFits
  <2> QED
    BY <2>1, <2>2, <2>3
<1> HIDE DEF t
<1>5. TypeOK'
  BY <1>2, <1>3, <1>4 DEF IInv, TypeOK, Placed
<1>6. CallFits'
  BY <1>4 DEF CallFits, DataStages
<1>7. (~sptCorrupted' /\ guarded' # {}) => CheckSpt(spt')
  <2>1. CASE Edit
    BY <1>3, <2>1 DEF Edit, t
  <2>2. CASE EditFails
    <3>1. sptCorrupted' = sptCorrupted
      BY <2>2 DEF EditFails
    <3> QED
      BY <1>1, <1>2, <1>3, <3>1 DEF IInv, Covered
  <2> QED
    BY <2>1, <2>2
<1>8. Covered'
  BY <1>3, <1>7 DEF Covered, Protected
<1> QED
  BY <1>4, <1>5, <1>6, <1>8 DEF IInv

LEMMA ReplaceStays ==
  ASSUME IInv, Replace \/ ReplaceFails
  PROVE  IInv'
<1> DEFINE t == call.table
<1>1. At("replace") /\ Pending("replace") /\ todo # <<>>
  BY HeadPending DEF IInv, Replace, ReplaceFails
<1>2. t \in Table /\ Placed(t)
  BY <1>1, BackupsPlaced DEF IInv, CallFits
<1>3. /\ table' \in {table, t} /\ spt' = t /\ sptCorrupted' \in BOOLEAN
      /\ guarded' = IF CheckSpt(t) THEN guarded \cap Protected(t) ELSE {}
  BY DEF Replace, ReplaceFails, Distrust, IInv, TypeOK
<1>4. /\ \A stage : Pending(stage)' => stage = "load_cpb"
      /\ PlanFits' /\ todo' \in Seq(Stages) /\ up' = up
  <2>1. Proceed \/ (Return /\ up' = up)
    BY DEF Replace, ReplaceFails, Fault
  <2>2. CASE Proceed
    BY <1>1, <2>2, ProceedFits DEF IInv
  <2>3. CASE Return /\ up' = up
    BY <2>3, ReturnFits DEF PlanFits
  <2> QED
    BY <2>1, <2>2, <2>3
<1> HIDE DEF t
<1>5. TypeOK'
  BY <1>2, <1>3, <1>4 DEF IInv, TypeOK, Placed
<1>6. CallFits'
  BY <1>4 DEF CallFits, DataStages
<1>7. Covered'
  BY <1>3 DEF Covered, Protected
<1> QED
  BY <1>4, <1>5, <1>6, <1>7 DEF IInv

LEMMA LoadStays ==
  ASSUME IInv, LoadSpt \/ LoadSptCorrupted \/ LoadSptFails
  PROVE  IInv'
<1>1. At("load_spt") /\ Pending("load_spt") /\ todo # <<>>
  BY HeadPending DEF IInv, LoadSpt, LoadSptCorrupted, LoadSptFails
<1>2. CASE LoadSpt
  <2>1. /\ \A stage : Pending(stage)' => stage = "load_cpb"
        /\ PlanFits' /\ todo' \in Seq(Stages) /\ up' = up
    BY <1>1, <1>2, ProceedFits DEF IInv, LoadSpt
  <2>2. /\ CheckSpt(table) /\ spt' = table /\ table' = table
        /\ guarded' = Protected(table) /\ sptCorrupted' = sptCorrupted
    BY <1>2 DEF LoadSpt
  <2>3. TypeOK'
    BY <2>1, <2>2, ProtectedPlaced DEF IInv, TypeOK, Placed
  <2>4. CallFits'
    BY <2>1 DEF CallFits, DataStages
  <2>5. Covered'
    BY <2>2 DEF Covered, Protected
  <2> QED
    BY <2>1, <2>3, <2>4, <2>5 DEF IInv
<1>3. CASE LoadSptCorrupted
  <2>1. /\ Return /\ up' = up /\ guarded' = {} /\ sptCorrupted' = TRUE
        /\ spt' = spt /\ table' = table
    BY <1>3 DEF LoadSptCorrupted, Fail, flash
  <2>2. TypeOK'
    BY <2>1, ReturnFits DEF IInv, TypeOK, Placed
  <2> QED
    BY <2>1, <2>2, ReturnFits DEF IInv, PlanFits, CallFits, Covered
<1>4. CASE LoadSptFails
  <2>1. /\ Return /\ up' = FALSE
        /\ UNCHANGED <<guarded, sptCorrupted, spt, table>>
    BY <1>1, <1>4 DEF LoadSptFails, Abort, IInv, CallFits, flash, memory, history
  <2>2. TypeOK'
    BY <2>1, ReturnFits DEF IInv, TypeOK, Placed
  <2> QED
    BY <2>1, <2>2, ReturnFits DEF IInv, PlanFits, CallFits, Covered
<1> QED
  BY <1>2, <1>3, <1>4

LEMMA CrashStays ==
  ASSUME IInv, Crash
  PROVE  IInv'
<1>1. /\ Return /\ up' = FALSE /\ table' = table /\ spt' = <<>>
      /\ sptCorrupted' = FALSE /\ guarded' \subseteq guarded
  BY DEF Crash, Distrust
<1>2. TypeOK'
  BY <1>1, ReturnFits, BackupsPlaced DEF IInv, TypeOK, Placed
<1> QED
  BY <1>1, <1>2, ReturnFits DEF IInv, PlanFits, CallFits, Covered

LEMMA OpenStays ==
  ASSUME IInv, Open
  PROVE  IInv'
<1>1. /\ up' = TRUE /\ todo' = <<"load_spt", "load_cpb">> /\ call'.op = "open"
      /\ spt' = <<>> /\ sptCorrupted' = FALSE
      /\ UNCHANGED <<table, guarded>>
  BY DEF Open, flash, history, NoCall
<1>2. /\ todo' \in Seq(Stages) /\ DOMAIN todo' = 1..2
      /\ todo'[1] = "load_spt" /\ todo'[2] = "load_cpb"
  BY <1>1 DEF Stages
<1>3. TypeOK'
  BY <1>1, <1>2, BackupsPlaced DEF IInv, TypeOK, Placed
<1>4. PlanFits'
  BY <1>1, <1>2 DEF PlanFits
<1>5. /\ \A stage : Pending(stage)' => stage \in {"load_spt", "load_cpb"}
      /\ Pending("load_spt")'
  BY <1>2 DEF Pending
<1>6. CallFits'
  <2>1. \A stage \in DataStages \cup {"edit", "replace"} : ~Pending(stage)'
    BY <1>5 DEF DataStages
  <2>2. call'.op = "open"
    BY <1>1
  <2> QED
    BY <2>1, <2>2 DEF CallFits
<1>7. Covered'
  BY <1>5 DEF Covered
<1> QED
  BY <1>3, <1>4, <1>6, <1>7 DEF IInv

\* Calls begin with a plan that fits what they know of the slot.
LEMMA BeginStays ==
  ASSUME IInv, NEW op, NEW n, NEW x, NEW t, NEW stages \in Seq(Stages),
         Begin(op, n, x, t, stages),
         \A k \in DOMAIN stages : stages[k] # "load_spt",
         \A j, k \in DOMAIN stages :
           (stages[j] \in {"edit", "replace"} /\ j < k) => stages[k] = "load_cpb",
         (\E k \in DOMAIN stages : stages[k] \in DataStages) =>
           x \in Slot2Part(spt, n) /\ n \notin WriteProtected /\ ~sptCorrupted,
         (\E k \in DOMAIN stages : stages[k] = "edit") =>
           t \in Table /\ Placed(t) /\ (CheckSpt(spt) => CheckSpt(t)),
         (\E k \in DOMAIN stages : stages[k] = "replace") => t \in SptBackups
  PROVE  IInv'
<1>1. /\ todo = <<>> /\ up /\ up' = up /\ todo' = stages
      /\ call'.slot = n /\ call'.part = x /\ call'.table = t
      /\ UNCHANGED <<table, spt, sptCorrupted, guarded>>
  BY DEF Begin, Idle, flash, memory, history
<1>2. TypeOK'
  BY <1>1 DEF IInv, TypeOK, Placed
<1>3. PlanFits'
  BY <1>1 DEF PlanFits
<1>4. CallFits'
  BY <1>1 DEF CallFits, Pending
<1>5. ~Pending("load_spt") /\ ~Pending("load_spt")'
  BY <1>1 DEF Pending
<1>6. Covered'
  BY <1>1, <1>5 DEF IInv, Covered, Protected
<1> QED
  BY <1>2, <1>3, <1>4, <1>6 DEF IInv

LEMMA OnSlotStays ==
  ASSUME IInv, NEW op, NEW n, NEW stages \in Seq(DataStages \cup {"remove", "add"}),
         OnSlot(op, n, stages),
         \/ stages \in Seq({"remove", "add"})
         \/ n \notin WriteProtected /\ ~sptCorrupted
  PROVE  IInv'
<1>1. PICK x \in Slot2Part(spt, n) : Begin(op, n, x, <<>>, stages)
  BY DEF OnSlot
<1>2. \A k \in DOMAIN stages : stages[k] \in DataStages \cup {"remove", "add"}
  OBVIOUS
<1>3. stages \in Seq(Stages)
  <2>1. DataStages \cup {"remove", "add"} \subseteq Stages
    BY DEF Stages
  <2> HIDE DEF DataStages, Stages
  <2>2. Len(stages) \in Nat /\ stages \in [1..Len(stages) -> Stages]
    BY <2>1
  <2> QED
    BY <2>2
<1>4. \A k \in DOMAIN stages : stages[k] \notin {"load_spt", "edit", "replace"}
  BY <1>2 DEF DataStages
<1>5. ASSUME stages \in Seq({"remove", "add"}), NEW k \in DOMAIN stages
      PROVE  stages[k] \notin DataStages
  <2>1. stages[k] \in {"remove", "add"}
    BY <1>5
  <2> QED
    BY <2>1 DEF DataStages
<1> QED
  BY <1>1, <1>3, <1>4, <1>5, BeginStays

LEMMA EditBeginStays ==
  ASSUME IInv, NEW op, NEW n, NEW x, NEW t, Begin(op, n, x, t, <<"edit">>),
         t \in Table, Placed(t), CheckSpt(spt) => CheckSpt(t)
  PROVE  IInv'
<1> DEFINE stages == <<"edit">>
<1>1. /\ stages \in Seq(Stages) /\ DOMAIN stages = {1} /\ stages[1] = "edit"
      /\ "edit" \notin DataStages
  BY DEF Stages, DataStages
<1>2. Begin(op, n, x, t, stages)
  OBVIOUS
<1> HIDE DEF stages
<1> QED
  BY <1>1, <1>2, BeginStays

LEMMA DeleteStays ==
  ASSUME IInv, NEW n, SlotDelete(n)
  PROVE  IInv'
<1> DEFINE stages == <<"remove", "erase", "edit">>
<1>1. PICK x \in Slot2Part(spt, n) : Begin("delete", n, x, Without(spt, x), stages)
  BY DEF SlotDelete
<1>2. x \in DOMAIN spt /\ IsSlot(spt[x])
  BY DEF Slot2Part
<1>3. /\ Without(spt, x) \in Table /\ Placed(Without(spt, x))
      /\ CheckSpt(spt) => CheckSpt(Without(spt, x))
  BY <1>2, EditsFit DEF IInv, TypeOK
<1>4. n \notin WriteProtected /\ ~sptCorrupted
  BY DEF SlotDelete, Usable
<1>5. /\ stages \in Seq(Stages) /\ DOMAIN stages = 1..3
      /\ stages[1] = "remove" /\ stages[2] = "erase" /\ stages[3] = "edit"
  BY DEF Stages, DataStages
<1> HIDE DEF stages
<1>6. /\ \A k \in DOMAIN stages : stages[k] # "load_spt" /\ stages[k] # "replace"
      /\ \A j, k \in DOMAIN stages :
           (stages[j] \in {"edit", "replace"} /\ j < k) => stages[k] = "load_cpb"
  BY <1>5
<1> QED
  BY <1>1, <1>3, <1>4, <1>5, <1>6, BeginStays

LEMMA ReplaceBeginStays ==
  ASSUME IInv, NEW list,
         \/ list \in SptBackups /\ RestoreSpt(list)
         \/ RestoreCpb(list)
         \/ CreateEmptyCpb
  PROVE  IInv'
<1>1. CASE list \in SptBackups /\ RestoreSpt(list)
  <2> DEFINE stages == <<"replace", "load_cpb">>
  <2>1. /\ stages \in Seq(Stages) /\ DOMAIN stages = 1..2
        /\ stages[1] = "replace" /\ stages[2] = "load_cpb"
        /\ "replace" \notin DataStages /\ "load_cpb" \notin DataStages
    BY DEF Stages, DataStages
  <2>2. Begin("restore", 0, 0, list, stages)
    BY <1>1 DEF RestoreSpt
  <2> HIDE DEF stages
  <2> QED
    BY <1>1, <2>1, <2>2, BeginStays
<1>2. CASE RestoreCpb(list) \/ CreateEmptyCpb
  <2> DEFINE stages == <<"restore cpb">>
  <2>1. /\ stages \in Seq(Stages) /\ DOMAIN stages = {1} /\ stages[1] = "restore cpb"
        /\ "restore cpb" \notin DataStages
    BY DEF Stages, DataStages
  <2>2. \E op, t : Begin(op, 0, 0, t, stages)
    BY <1>2 DEF RestoreCpb, CreateEmptyCpb
  <2> HIDE DEF stages
  <2> QED
    BY <2>1, <2>2, BeginStays
<1> QED
  BY <1>1, <1>2

LEMMA ApiStays ==
  ASSUME IInv, Api
  PROVE  IInv'
<1>0. spt \in Table /\ Placed(spt)
  BY DEF IInv, TypeOK
<1>1. CASE Open
  BY <1>1, OpenStays
<1>2. ASSUME NEW n,
             \/ SlotErase(n) \/ SlotProgram(n) \/ SlotProgramRaw(n)
             \/ SlotDisable(n) \/ SlotEnable(n)
      PROVE  IInv'
  <2>1. /\ <<"remove", "erase">> \in Seq(DataStages \cup {"remove", "add"})
        /\ <<"write", "add">> \in Seq(DataStages \cup {"remove", "add"})
        /\ <<"write raw">> \in Seq(DataStages \cup {"remove", "add"})
        /\ <<"remove">> \in Seq(DataStages \cup {"remove", "add"})
        /\ <<"remove", "add">> \in Seq(DataStages \cup {"remove", "add"})
    BY DEF DataStages
  <2>2. <<"remove">> \in Seq({"remove", "add"}) /\ <<"remove", "add">> \in Seq({"remove", "add"})
    OBVIOUS
  <2> QED
    BY <1>2, <2>1, <2>2, OnSlotStays DEF SlotErase, SlotProgram, SlotProgramRaw,
       SlotDisable, SlotEnable, Usable
<1>3. ASSUME NEW n, SlotDelete(n)
      PROVE  IInv'
  BY <1>3, DeleteStays
<1>4. ASSUME NEW n, NEW name \in SlotNames, SlotRename(n, name)
      PROVE  IInv'
  <2>1. PICK x \in Slot2Part(spt, n) :
          Begin("rename", n, x, Renamed(spt, x, name), <<"edit">>)
    BY <1>4 DEF SlotRename
  <2>2. x \in DOMAIN spt /\ IsSlot(spt[x]) /\ ~Named(spt, name)
    BY <1>4 DEF Slot2Part, SlotRename
  <2> QED
    BY <1>0, <2>1, <2>2, EditsFit, EditBeginStays
<1>5. ASSUME NEW name \in SlotNames, NEW request \in Requests, SlotCreate(name, request)
      PROVE  IInv'
  <2>1. /\ Append(spt, NewSlot(name, request)) \in Table
        /\ Placed(Append(spt, NewSlot(name, request)))
        /\ CheckSpt(spt) => CheckSpt(Append(spt, NewSlot(name, request)))
    BY <1>0, <1>5, EditsFit DEF SlotCreate
  <2> QED
    BY <1>5, <2>1, EditBeginStays DEF SlotCreate
<1>6. ASSUME NEW t \in SptBackups, RestoreSpt(t) \/ RestoreSptFromBuf(t)
      PROVE  IInv'
  BY <1>6, ReplaceBeginStays DEF RestoreSptFromBuf
<1>7. ASSUME NEW list, RestoreCpb(list) \/ RestoreCpbFromBuf(list)
      PROVE  IInv'
  BY <1>7, ReplaceBeginStays DEF RestoreCpbFromBuf
<1>8. CASE CreateEmptyCpb
  BY <1>8, ReplaceBeginStays
<1> QED
  BY <1>1, <1>2, <1>3, <1>4, <1>5, <1>6, <1>7, <1>8 DEF Api

LEMMA InitHolds == Init => IInv
<1> SUFFICES ASSUME Init
             PROVE  IInv
  OBVIOUS
<1>1. TypeOK
  <2>1. sptCorrupted \in BOOLEAN /\ up \in BOOLEAN
    BY Zenon DEF Init
  <2>2. todo \in Seq(Stages) /\ guarded \subseteq Units
    BY DEF Init
  <2>3. table \in Table /\ Placed(table) /\ spt \in Table /\ Placed(spt)
    BY BackupsPlaced DEF Init
  <2> QED
    BY <2>1, <2>2, <2>3 DEF TypeOK
<1>2. PlanFits /\ CallFits /\ Covered
  BY DEF Init, PlanFits, CallFits, Covered, Pending
<1> QED
  BY <1>1, <1>2 DEF IInv

LEMMA NextStays == IInv /\ [Next]_vars => IInv'
<1>1. ASSUME IInv, Step
      PROVE  IInv'
  BY <1>1, DataStepStays, PointerStepStays, EditStays, ReplaceStays, LoadStays DEF Step
<1>2. ASSUME IInv, UNCHANGED vars
      PROVE  IInv'
  BY <1>2 DEF IInv, TypeOK, PlanFits, CallFits, Covered, Placed, Pending, Protected, vars,
     flash, memory, control, history
<1> QED
  BY <1>1, <1>2, ApiStays, CrashStays DEF Next

-----------------------------------------------------------------------------
(* Theorems *)

\* The invariant holds in every reachable state.
THEOREM Invariance == Spec => []IInv
BY InitHolds, NextStays, PTL DEF Spec

\* A step that changes a unit is one of a call that works on a slot's data, and the
\* unit lies in the partition it works on.
LEMMA DataChanges ==
  ASSUME IInv, [Next]_vars, NEW u \in Units, data'[u] # data[u]
  PROVE  /\ u \in Region(spt[call.part])
         /\ \E stage \in DataStages : At(stage)
<1> DEFINE region == Region(spt[call.part])
<1>1. ASSUME NEW content, data' = Fill(region, content)
      PROVE  u \in region
  BY <1>1 DEF Fill
<1>2. ASSUME NEW content, data' \in Partly(region, content)
      PROVE  u \in region
  BY <1>2 DEF Partly
<1> HIDE DEF region
<1>3. CASE EraseData \/ WriteData \/ WriteRaw
  BY <1>1, <1>3 DEF EraseData, WriteData, WriteRaw, region, DataStages
<1>4. CASE EraseFails \/ WriteFails
  BY <1>2, <1>4 DEF EraseFails, WriteFails, region, DataStages
<1>5. CASE Crash
  <2>1. data' \in {data}
          \cup (IF At("erase") THEN Partly(region, Blank) ELSE {})
          \cup (IF At("write") THEN Partly(region, Image(Place)) ELSE {})
          \cup (IF At("write raw") THEN Partly(region, Other) ELSE {})
    BY <1>5 DEF Crash, region
  <2>2. \/ data' \in Partly(region, Blank) /\ At("erase")
        \/ data' \in Partly(region, Image(Place)) /\ At("write")
        \/ data' \in Partly(region, Other) /\ At("write raw")
    BY <2>1
  <2> QED
    BY <1>2, <2>2 DEF DataStages, region
<1>6. CASE LoadSpt \/ LoadSptCorrupted \/ LoadSptFails \/ LoadCpb \/ LoadCpbCorrupted
           \/ LoadCpbFails \/ RemovePointer \/ AddPointer \/ AddPointerFails
           \/ ReplacePointers \/ Edit \/ EditFails \/ Replace \/ ReplaceFails
  BY <1>6 DEF LoadSpt, LoadSptCorrupted, LoadSptFails, LoadCpb, LoadCpbCorrupted,
     LoadCpbFails, RemovePointer, AddPointer, AddPointerFails, ReplacePointers, Edit,
     EditFails, Replace, ReplaceFails, SetPointers, SetPointersFails, flash
<1>7. CASE Api
  BY <1>7 DEF Api, Open, SlotErase, SlotProgram, SlotProgramRaw, SlotDisable, SlotEnable,
     SlotDelete, SlotRename, SlotCreate, RestoreSpt, RestoreSptFromBuf, RestoreCpb,
     RestoreCpbFromBuf, CreateEmptyCpb, OnSlot, Begin, flash
<1>8. CASE UNCHANGED vars
  BY <1>8 DEF vars, flash
<1> QED
  BY <1>3, <1>4, <1>5, <1>6, <1>7, <1>8 DEF Next, Step, region

LEMMA ChangesNamed ==
  ASSUME IInv, [Next]_vars, NEW u \in Units, data'[u] # data[u]
  PROVE  /\ call.part \in Slot2Part(spt, call.slot) /\ u \in Region(spt[call.part])
         /\ call.slot \notin WriteProtected /\ ~sptCorrupted
         /\ up /\ ~Pending("load_spt")
<1>1. PICK stage \in DataStages : At(stage)
  BY DataChanges
<1>2. Pending(stage) /\ up /\ ~Pending("load_spt")
  BY <1>1, HeadPending DEF IInv, DataStages
<1> QED
  BY <1>2, DataChanges DEF IInv, CallFits

\* A call changes the data of the slot its caller named and of no other, whatever was
\* created, renamed, deleted or cut short before it.
THEOREM SlotMeant == Spec => EditsSlotMeant
<1>1. IInv /\ [Next]_vars =>
        [(checked /\ known = spt) =>
           \A u \in Units : data'[u] # data[u] =>
             \E x \in Slot2Part(known, call.slot) : u \in Region(known[x])]_vars
  BY ChangesNamed
<1> QED
  BY Invariance, <1>1, PTL DEF Spec, EditsSlotMeant

\* No call, error or crash changes a unit that write protection covers.
THEOREM ProtectedKept == Spec => ProtectedDataKept
<1>1. ASSUME IInv, [Next]_vars, NEW u \in guarded
      PROVE  data'[u] = data[u]
  <2>1. SUFFICES ASSUME data'[u] # data[u]
                 PROVE  FALSE
    OBVIOUS
  <2>2. u \in Units /\ guarded # {}
    BY <1>1 DEF IInv, TypeOK
  <2>3. /\ call.part \in Slot2Part(spt, call.slot) /\ u \in Region(spt[call.part])
        /\ call.slot \notin WriteProtected
        /\ CheckSpt(spt) /\ u \in Protected(spt)
    BY <1>1, <2>1, <2>2, ChangesNamed DEF IInv, Covered
  <2>4. PICK n \in WriteProtected : \E y \in Slot2Part(spt, n) : u \in Region(spt[y])
    BY <2>3 DEF Protected
  <2>5. PICK y \in Slot2Part(spt, n) : u \in Region(spt[y])
    BY <2>4
  <2>6. spt \in Table /\ n # call.slot
    BY <1>1, <2>3 DEF IInv, TypeOK
  <2> QED
    BY <2>3, <2>5, <2>6, SlotsApart
<1>2. IInv /\ [Next]_vars => [\A u \in guarded : data'[u] = data[u]]_vars
  BY <1>1
<1> QED
  BY Invariance, <1>2, PTL DEF Spec, ProtectedDataKept

-----------------------------------------------------------------------------
(* Lemmas about tables and lists of pointers *)

\* An edit keeps the slots of a table where they are, but for the one it deletes.
LEMMA EditsKeepSlots ==
  ASSUME NEW t \in Table, NEW place, SlotAt(t, place)
  PROVE  /\ \A x \in DOMAIN t : place # t[x].offset => SlotAt(Without(t, x), place)
         /\ \A x \in DOMAIN t, name \in SlotNames :
              IsSlot(t[x]) => SlotAt(Renamed(t, x, name), place)
         /\ \A name \in SlotNames, request \in Requests :
              SlotAt(Append(t, NewSlot(name, request)), place)
<1>1. PICK z \in DOMAIN t : IsSlot(t[z]) /\ t[z].offset = place
  BY DEF SlotAt
<1>2. ASSUME NEW x \in DOMAIN t, place # t[x].offset
      PROVE  SlotAt(Without(t, x), place)
  <2>1. z \in DOMAIN t \ {x}
    BY <1>1, <1>2
  <2>2. PICK y \in DOMAIN Without(t, x) : Without(t, x)[y] = t[z]
    BY <2>1, WithoutFacts
  <2> QED
    BY <1>1, <2>2 DEF SlotAt
<1>3. ASSUME NEW x \in DOMAIN t, NEW name \in SlotNames, IsSlot(t[x])
      PROVE  SlotAt(Renamed(t, x, name), place)
  <2> DEFINE u == Renamed(t, x, name)
  <2>1. z \in DOMAIN u /\ u[z] = IF z = x THEN [t[x] EXCEPT !.name = name] ELSE t[z]
    BY RenamedFacts
  <2> HIDE DEF u
  <2>2. t[x] \in Partition
    BY TableFacts
  <2>3. /\ [t[x] EXCEPT !.name = name].flags = t[x].flags
        /\ [t[x] EXCEPT !.name = name].name = name
        /\ [t[x] EXCEPT !.name = name].offset = t[x].offset
    BY <2>2 DEF Partition
  <2>4. IsSlot(u[z]) /\ u[z].offset = place
    BY <1>1, <1>3, <2>1, <2>3 DEF IsSlot
  <2> QED
    BY <2>1, <2>4 DEF SlotAt, u
<1>4. ASSUME NEW name \in SlotNames, NEW request \in Requests
      PROVE  SlotAt(Append(t, NewSlot(name, request)), place)
  <2> DEFINE p == NewSlot(name, request)
  <2>1. p \in Partition
    <3>1. request \in [offset : Nat, length : Nat]
      OBVIOUS
    <3> QED
      BY <3>1, NewSlotFacts
  <2> HIDE DEF p
  <2>2. z \in DOMAIN Append(t, p) /\ Append(t, p)[z] = t[z]
    BY <2>1, AppendedTable
  <2> QED
    BY <1>1, <2>2 DEF SlotAt, p
<1> QED
  BY <1>2, <1>3, <1>4

LEMMA Differences ==
  ASSUME NEW n \in Nat, NEW i \in 1..n
  PROVE  /\ (IF 1 <= i - 1 THEN i - 1 - 1 + 1 ELSE 0) = i - 1
         /\ (IF i + 1 <= n THEN n - (i + 1) + 1 ELSE 0) = n - i
         /\ n - (i + 1) + 1 = n - i /\ i - 1 - 1 + 1 = i - 1
         /\ i - 1 + (n - i) = n - 1
OBVIOUS

LEMMA RemoveAtFacts ==
  ASSUME NEW list \in Seq(Nat), NEW i \in 1..Len(list)
  PROVE  /\ RemoveAt(list, i) \in Seq(Nat)
         /\ DOMAIN RemoveAt(list, i) = 1..(Len(list) - 1)
         /\ \A k \in DOMAIN RemoveAt(list, i) :
              RemoveAt(list, i)[k] = list[IF k < i THEN k ELSE k + 1]
<1> DEFINE front == SubSeq(list, 1, i - 1)
           back == SubSeq(list, i + 1, Len(list))
           r == RemoveAt(list, i)
<1>1. PICK n \in Nat : Len(list) = n /\ i \in 1..n /\ \A k \in 1..n : list[k] \in Nat
  OBVIOUS
<1>2. /\ front \in Seq(Nat) /\ Len(front) = i - 1
      /\ \A k \in 1..(i - 1) : front[k] = list[k]
  <2>1. /\ front \in Seq(Nat) /\ Len(front) = IF 1 <= i - 1 THEN i - 1 - 1 + 1 ELSE 0
        /\ \A k \in 1..(i - 1 - 1 + 1) : front[k] = list[1 + k - 1]
    BY <1>1, SubSeqProperties
  <2> HIDE DEF front
  <2>2. \A k \in 1..(i - 1) : 1 + k - 1 = k
    BY <1>1
  <2> QED
    BY <1>1, <2>1, <2>2, Differences
<1>3. /\ back \in Seq(Nat) /\ Len(back) = n - i
      /\ \A k \in 1..(n - i) : back[k] = list[i + k]
  <2>1. /\ back \in Seq(Nat) /\ Len(back) = IF i + 1 <= n THEN n - (i + 1) + 1 ELSE 0
        /\ \A k \in 1..(n - (i + 1) + 1) : back[k] = list[i + 1 + k - 1]
    <3>1. back = SubSeq(list, i + 1, n)
      BY <1>1
    <3> HIDE DEF back
    <3>2. i + 1 \in Int /\ n \in Int /\ \A k \in (i + 1)..n : list[k] \in Nat
      BY <1>1
    <3> QED
      BY <3>1, <3>2, SubSeqProperties
  <2> HIDE DEF back
  <2>2. \A k \in 1..(n - i) : i + 1 + k - 1 = i + k
    BY <1>1
  <2> QED
    BY <1>1, <2>1, <2>2, Differences
<1>4. r = front \o back
  BY DEF RemoveAt
<1> HIDE DEF front, back, r
<1>5. /\ r \in Seq(Nat) /\ Len(r) = n - 1
      /\ \A k \in 1..(n - 1) : r[k] = IF k <= i - 1 THEN front[k] ELSE back[k - (i - 1)]
  <2>1. /\ r \in Seq(Nat) /\ Len(r) = Len(front) + Len(back)
        /\ \A k \in 1..(Len(front) + Len(back)) :
             r[k] = IF k <= Len(front) THEN front[k] ELSE back[k - Len(front)]
    <3>1. front \in Seq(Nat) /\ back \in Seq(Nat)
      BY <1>2, <1>3
    <3> QED
      BY <1>4, <3>1, ConcatProperties
  <2>2. Len(front) + Len(back) = n - 1
    BY <1>1, <1>2, <1>3, Differences
  <2> QED
    BY <1>2, <2>1, <2>2
<1>6. DOMAIN r = 1..(n - 1)
  BY <1>5
<1>7. ASSUME NEW k \in 1..(n - 1)
      PROVE  r[k] = list[IF k < i THEN k ELSE k + 1]
  <2>1. CASE k < i
    <3>1. k \in 1..(i - 1) /\ k <= i - 1
      BY <1>1, <2>1
    <3> QED
      BY <1>2, <1>5, <2>1, <3>1
  <2>2. CASE ~(k < i)
    <3>1. k - (i - 1) \in 1..(n - i) /\ ~(k <= i - 1) /\ i + (k - (i - 1)) = k + 1
      BY <1>1, <2>2
    <3> QED
      BY <1>3, <1>5, <2>2, <3>1
  <2> QED
    BY <2>1, <2>2
<1> QED
  BY <1>1, <1>5, <1>6, <1>7 DEF r

\* priority_remove takes one pointer out, and leaves another like it only when the list
\* had it twice.
LEMMA RemovedFacts ==
  ASSUME NEW list \in Seq(Nat), NEW place
  PROVE  /\ Removed(list, place) \in Seq(Nat)
         /\ Pointers(Removed(list, place)) \subseteq Pointers(list)
         /\ \A but : Once(list, but) =>
              /\ Once(Removed(list, place), but)
              /\ place \in Pointers(Removed(list, place)) => place \in but
<1> DEFINE IsFirst(x) == list[x] = place /\ \A y \in 1..(x - 1) : list[y] # place
           first == CHOOSE x \in DOMAIN list : IsFirst(x)
           r == RemoveAt(list, first)
<1>0. Len(list) \in Nat /\ DOMAIN list = 1..Len(list)
  OBVIOUS
<1>1. CASE place \notin Pointers(list)
  BY <1>1 DEF Removed, Pointers
<1>2. CASE place \in Pointers(list)
  <2>1. first \in DOMAIN list /\ list[first] = place
    <3> DEFINE at == {x \in DOMAIN list : list[x] = place}
    <3>1. at \in SUBSET Nat /\ at # {}
      BY <1>0, <1>2 DEF Pointers
    <3>2. PICK x \in at : \A y \in at : x <= y
      BY <3>1, LeastExists
    <3>3. IsFirst(x) /\ x \in DOMAIN list
      BY <1>0, <3>2
    <3> QED
      BY <3>3
  <2>2. Removed(list, place) = r
    BY <1>2 DEF Removed
  <2> HIDE DEF first
  <2>3. /\ r \in Seq(Nat) /\ DOMAIN r = 1..(Len(list) - 1)
        /\ \A k \in DOMAIN r : r[k] = list[IF k < first THEN k ELSE k + 1]
    BY <1>0, <2>1, RemoveAtFacts DEF r
  <2> HIDE DEF r
  <2>4. Pointers(r) \subseteq Pointers(list)
    <3>1. \A k \in 1..(Len(list) - 1) : (IF k < first THEN k ELSE k + 1) \in 1..Len(list)
      BY <1>0, <2>1
    <3> QED
      BY <1>0, <2>3, <3>1 DEF Pointers
  <2>5. ASSUME NEW but, Once(list, but)
        PROVE  Once(r, but) /\ (place \in Pointers(r) => place \in but)
    <3> DEFINE From(x) == IF x < first THEN x ELSE x + 1
    <3>0. first \in Nat /\ \A k \in DOMAIN r : k \in Nat
      BY <1>0, <2>1, <2>3
    <3>1. \A j, k \in DOMAIN r : j # k => From(j) # From(k)
      BY <3>0
    <3>5. \A k \in DOMAIN r : r[k] = list[From(k)]
      BY <2>3
    <3>6. \A k \in 1..(Len(list) - 1) : From(k) # first /\ From(k) \in 1..Len(list)
      BY <1>0, <3>0
    <3> HIDE DEF From
    <3>2. \A k \in DOMAIN r : r[k] = list[From(k)] /\ From(k) # first
                              /\ From(k) \in DOMAIN list
      BY <1>0, <2>3, <3>5, <3>6
    <3>3. Once(r, but)
      BY <2>5, <3>1, <3>2 DEF Once
    <3>4. ASSUME NEW k \in DOMAIN r, r[k] = place
          PROVE  place \in but
      BY <2>1, <2>5, <3>2, <3>4 DEF Once
    <3> QED
      BY <3>3, <3>4 DEF Pointers
  <2> QED
    BY <2>2, <2>3, <2>4, <2>5
<1> QED
  BY <1>1, <1>2

\* A priority of 0 says that the list has no such pointer.
LEMMA NotListed ==
  ASSUME cpb \in Seq(Nat), NEW place, PriorityGet(place) = 0
  PROVE  place \notin Pointers(cpb)
<1> DEFINE at == {x \in DOMAIN cpb : cpb[x] = place}
           newest == CHOOSE x \in at : \A y \in at : x >= y
<1>0. Len(cpb) \in Nat /\ DOMAIN cpb = 1..Len(cpb)
  OBVIOUS
<1>1. SUFFICES ASSUME at # {}
               PROVE  FALSE
  BY DEF Pointers
<1>2. \E x \in at : \A y \in at : x >= y
  <2>1. at \in SUBSET (1..Len(cpb))
    BY <1>0
  <2> QED
    BY <1>0, <1>1, <2>1, GreatestExists
<1>3. newest \in at
  BY <1>2
<1>4. PriorityGet(place) = Len(cpb) + 1 - newest
  BY <1>1 DEF PriorityGet
<1> HIDE DEF newest
<1> QED
  BY <1>0, <1>3, <1>4

LEMMA AppendedOnce ==
  ASSUME NEW list \in Seq(Nat), NEW place \in Nat, NEW but, Once(list, but),
         place \in Pointers(list) => place \in but
  PROVE  /\ Append(list, place) \in Seq(Nat)
         /\ Pointers(Append(list, place)) = Pointers(list) \cup {place}
         /\ Once(Append(list, place), but)
<1> DEFINE u == Append(list, place)
<1>1. /\ Len(list) \in Nat /\ DOMAIN list = 1..Len(list)
      /\ u \in Seq(Nat) /\ DOMAIN u = 1..(Len(list) + 1)
      /\ \A k \in DOMAIN list : u[k] = list[k]
      /\ u[Len(list) + 1] = place
  OBVIOUS
<1> HIDE DEF u
<1>2. DOMAIN u = DOMAIN list \cup {Len(list) + 1} /\ Len(list) + 1 \notin DOMAIN list
  BY <1>1
<1>3. Pointers(u) = Pointers(list) \cup {place}
  <2>1. \A k \in DOMAIN u : u[k] \in Pointers(list) \cup {place}
    BY <1>1, <1>2 DEF Pointers
  <2>2. \A k \in DOMAIN list : list[k] \in Pointers(u)
    BY <1>1, <1>2 DEF Pointers
  <2>3. place \in Pointers(u)
    BY <1>1, <1>2 DEF Pointers
  <2> QED
    BY <2>1, <2>2, <2>3 DEF Pointers
<1>4. Once(u, but)
  <2>1. \A j \in DOMAIN list : list[j] = place => place \in but
    BY DEF Pointers
  <2> QED
    BY <1>1, <1>2, <2>1 DEF Once
<1> QED
  BY <1>1, <1>3, <1>4 DEF u

-----------------------------------------------------------------------------
(* Lemmas about plans *)

LEMMA MenuHead ==
  ASSUME IInv, MenuPlan, NEW stage, At(stage)
  PROVE  /\ todo # <<>> /\ Pending(stage) /\ up
         /\ stage # "load_spt" => ~Pending("load_spt")
         /\ stage # "remove" => ~At("remove") /\ ~Pending("remove")
         /\ stage \in {"add", "restore cpb", "load_cpb"} => Len(todo) = 1
<1>1. /\ todo # <<>> /\ 1 \in DOMAIN todo /\ todo[1] = stage /\ Pending(stage) /\ up
      /\ stage # "load_spt" => ~Pending("load_spt")
  BY HeadPending DEF IInv
<1>2. stage # "remove" => ~At("remove") /\ ~Pending("remove")
  BY <1>1 DEF At, Pending, MenuPlan
<1>3. stage \in {"add", "restore cpb", "load_cpb"} => Len(todo) = 1
  BY <1>1 DEF MenuPlan
<1> QED
  BY <1>1, <1>2, <1>3

LEMMA MenuTail ==
  ASSUME IInv, MenuPlan, NEW stage \in {"add", "restore cpb", "load_cpb"}, At(stage)
  PROVE  /\ todo # <<>> /\ Pending(stage) /\ up /\ Len(todo) = 1
         /\ ~Pending("load_spt") /\ ~At("remove")
<1>1. stage # "remove" /\ stage # "load_spt"
  OBVIOUS
<1> QED
  BY <1>1, MenuHead

\* The last step of a call leaves nothing to do.
LEMMA LastStep ==
  ASSUME Proceed \/ Return, Len(todo) = 1
  PROVE  \A stage : ~Pending(stage)'
<1>1. Return
  BY DEF Proceed
<1> QED
  BY <1>1, ReturnFits

LEMMA StillPending ==
  ASSUME IInv, todo # <<>>, Proceed \/ Return
  PROVE  \A stage : Pending(stage)' => Pending(stage) /\ call' = call
BY ProceedFits, ReturnFits DEF IInv

LEMMA PlanProceeds ==
  ASSUME IInv, MenuPlan, todo # <<>>, Proceed \/ Return,
         pointers' \in Seq(Nat), cpb' \in Seq(Nat),
         spt' = spt \/ \A stage : Pending(stage)' => stage = "load_cpb"
  PROVE  MenuPlan'
<1>1. \A k \in DOMAIN todo' :
        /\ todo'[k] = "remove" => k = 1
        /\ todo'[k] \in {"add", "restore cpb", "load_cpb"} => k = Len(todo')
  <2>1. CASE Len(todo) = 1 \/ Return
    <3>1. todo' = <<>>
      BY <2>1, ReturnFits DEF Proceed
    <3>2. DOMAIN todo' = {}
      BY <3>1
    <3> QED
      BY <3>2
  <2>2. CASE Len(todo) # 1 /\ Proceed
    <3>1. todo' = Tail(todo)
      BY <2>2 DEF Proceed
    <3>2. /\ todo \in Seq(Stages) /\ Len(todo) \in Nat /\ DOMAIN todo = 1..Len(todo)
          /\ Len(todo') = Len(todo) - 1 /\ DOMAIN todo' = 1..(Len(todo) - 1)
          /\ \A k \in DOMAIN todo' : k + 1 \in DOMAIN todo /\ todo'[k] = todo[k + 1]
      BY <3>1 DEF IInv, TypeOK
    <3>3. ASSUME NEW k \in DOMAIN todo'
          PROVE  /\ todo'[k] = "remove" => k = 1
                 /\ todo'[k] \in {"add", "restore cpb", "load_cpb"} => k = Len(todo')
      <4>1. /\ todo[k + 1] = "remove" => k + 1 = 1
            /\ todo[k + 1] \in {"add", "restore cpb", "load_cpb"} => k + 1 = Len(todo)
        BY <3>2 DEF MenuPlan
      <4>2. k \in Nat /\ k # 0 /\ k + 1 # 1 /\ (k + 1 = Len(todo) => k = Len(todo) - 1)
        BY <3>2
      <4> QED
        BY <3>2, <4>1, <4>2
    <3> QED
      BY <3>3
  <2> QED
    BY <2>1, <2>2
<1>2. (Pending("remove")' \/ Pending("add")') => call'.part \in Slot2Part(spt', call'.slot)
  BY StillPending DEF MenuPlan
<1>3. Pending("restore cpb")' => call'.table \in Seq(Nat)
  BY StillPending DEF MenuPlan
<1> QED
  BY <1>1, <1>2, <1>3 DEF MenuPlan

LEMMA KeptWhenDone ==
  ASSUME \A stage : Pending(stage)' => stage = "load_cpb"
  PROVE  MenuKept'
<1>1. ~Pending("edit")' /\ ~Pending("add")'
  OBVIOUS
<1> QED
  BY <1>1 DEF MenuKept

-----------------------------------------------------------------------------
(* Steps preserve the invariant *)

\* Steps that leave the partition table, the pointers and what is said of them alone.
LEMMA MenuQuiet ==
  ASSUME IInv, MenuInv, todo # <<>>, Proceed \/ Return, ~At("remove"), InUse' => InUse,
         UNCHANGED <<table, spt, pointers, cpb, vouched>>
  PROVE  MenuInv'
<1>1. MenuPlan'
  BY PlanProceeds DEF MenuInv, MenuPlan
<1>2. Answered' = Answered
  BY DEF Answered, Pointers
<1>3. MenuFits'
  BY <1>2 DEF MenuInv, MenuFits, SlotAt
<1>4. ListedOnce'
  BY DEF MenuInv, ListedOnce, Once
<1>5. MenuKept'
  <2>1. ASSUME Pending("edit")', NEW place \in Answered'
        PROVE  SlotAt(call'.table, place)
    BY <1>2, <2>1, StillPending DEF MenuInv, MenuKept
  <2>2. ASSUME Pending("add")', call'.op # "enable"
        PROVE  Place' \notin Pointers(cpb')
    BY <2>2, StillPending DEF MenuInv, MenuKept, Place, Pointers
  <2> QED
    BY <2>1, <2>2 DEF MenuKept, Pointers
<1> QED
  BY <1>1, <1>3, <1>4, <1>5 DEF MenuInv

LEMMA DataStepMenu ==
  ASSUME IInv, MenuInv, EraseData \/ EraseFails \/ WriteData \/ WriteRaw \/ WriteFails
  PROVE  MenuInv'
<1>1. PICK stage \in DataStages : At(stage)
  BY DEF EraseData, EraseFails, WriteData, WriteRaw, WriteFails, DataStages
<1>2. todo # <<>> /\ ~Pending("load_spt") /\ ~At("remove") /\ up
  BY <1>1, MenuHead DEF MenuInv, DataStages
<1>3. /\ UNCHANGED <<table, spt, sptCorrupted, pointers, cpb, vouched>>
      /\ Proceed \/ Return
  BY DEF EraseData, EraseFails, WriteData, WriteRaw, WriteFails, DataUnchanged, memory,
     history, Fail, Fault
<1>4. InUse' => InUse
  BY <1>2, <1>3 DEF InUse
<1> QED
  BY <1>2, <1>3, <1>4, MenuQuiet

LEMMA RemoveMenu ==
  ASSUME IInv, MenuInv, RemovePointer
  PROVE  MenuInv'
<1> DEFINE list == Removed(cpb, Place)
<1>1. /\ At("remove") /\ Vouch({})
      /\ SetPointers(list) \/ SetPointersFails(list)
  BY DEF RemovePointer
<1>2. todo # <<>> /\ ~Pending("load_spt") /\ up
  BY <1>1, MenuHead DEF MenuInv
<1>3. /\ pointers \in Seq(Nat) /\ list \in Seq(Nat)
      /\ Pointers(list) \subseteq Pointers(cpb)
      /\ Once(list, vouched) /\ (Place \in Pointers(list) => Place \in vouched)
  BY RemovedFacts DEF MenuInv, MenuPlan, ListedOnce
<1> HIDE DEF list
<1>4. /\ pointers' \in {pointers, list} /\ cpb' \in {pointers, list}
      /\ UNCHANGED <<table, spt, sptCorrupted>>
      /\ Proceed \/ Return
  BY <1>1 DEF SetPointers, SetPointersFails, Fail, Fault
<1>5. \/ pointers' = list /\ cpb' = list
      \/ \A stage : ~Pending(stage)'
  BY <1>1, ReturnFits DEF SetPointers, SetPointersFails, Fail, Fault
<1>6. vouched' = (vouched \cap (Pointers(pointers') \cup Pointers(cpb')))
                 \cup (Pointers(pointers') \ Pointers(cpb'))
  BY <1>1 DEF Vouch
<1>7. MenuPlan'
  BY <1>2, <1>3, <1>4, PlanProceeds DEF MenuInv
<1>8. Answered' \subseteq Answered /\ Answered' \subseteq Pointers(cpb') \ vouched
  <2>1. Pointers(pointers') \cup Pointers(cpb') \subseteq Pointers(pointers) \cup Pointers(cpb)
    BY <1>3, <1>4
  <2> QED
    BY <1>6, <2>1 DEF Answered
<1>9. MenuFits'
  <2>1. InUse' => InUse
    BY <1>2, <1>4 DEF InUse
  <2> QED
    BY <1>4, <1>8, <2>1 DEF MenuInv, MenuFits, SlotAt
<1>10. ListedOnce'
  <2>1. ASSUME NEW u \in {pointers', cpb'}
        PROVE  Once(u, vouched')
    <3>1. Once(u, vouched)
      BY <1>3, <1>4 DEF MenuInv, ListedOnce
    <3>2. \A k \in DOMAIN u : u[k] \in vouched => u[k] \in vouched'
      BY <1>6 DEF Pointers
    <3> QED
      BY <3>1, <3>2 DEF Once
  <2> QED
    BY <2>1 DEF ListedOnce
<1>11. MenuKept'
  <2>1. CASE pointers' = list /\ cpb' = list
    <3>1. ASSUME Pending("edit")', NEW place \in Answered'
          PROVE  SlotAt(call'.table, place)
      <4>1. Pending("edit") /\ call' = call /\ place \in Answered
        BY <1>2, <1>4, <1>8, <3>1, StillPending
      <4>2. place \in Pointers(list) /\ place \notin vouched
        BY <1>8, <2>1, <3>1
      <4>3. place # Place
        BY <1>3, <4>2
      <4> QED
        BY <4>1, <4>3 DEF MenuInv, MenuKept
    <3>2. ASSUME Pending("add")', call'.op # "enable"
          PROVE  Place' \notin Pointers(cpb')
      <4>1. Pending("add") /\ call' = call /\ Place \notin Pointers(cpb)
        BY <1>2, <1>4, <3>2, StillPending DEF MenuInv, MenuKept
      <4>2. Place' = Place
        BY <1>4, <4>1 DEF Place
      <4> QED
        BY <1>3, <2>1, <4>1, <4>2
    <3> QED
      BY <3>1, <3>2 DEF MenuKept
  <2>2. CASE \A stage : ~Pending(stage)'
    BY <2>2, KeptWhenDone
  <2> QED
    BY <1>5, <2>1, <2>2
<1> QED
  BY <1>7, <1>9, <1>10, <1>11 DEF MenuInv

\* A slot is added that is not listed yet, or on the caller's word.
LEMMA AddMenu ==
  ASSUME IInv, MenuInv, AddPointer
  PROVE  MenuInv'
<1> DEFINE list == Append(cpb, Place)
           word == IF call.op = "enable" \/ spt[call.part] \notin ToSet(table)
                   THEN {Place} ELSE {}
<1>1. /\ At("add") /\ Vouch(word)
      /\ SetPointers(list) \/ SetPointersFails(list)
  BY DEF AddPointer
<1>2. todo # <<>> /\ ~Pending("load_spt") /\ up /\ Len(todo) = 1 /\ Pending("add")
  BY <1>1, MenuTail DEF MenuInv
<1>3. /\ call.part \in DOMAIN spt /\ IsSlot(spt[call.part]) /\ Place \in Nat
      /\ SlotAt(spt, Place)
  <2>1. call.part \in DOMAIN spt /\ IsSlot(spt[call.part])
    BY <1>2 DEF MenuInv, MenuPlan, Slot2Part
  <2>2. spt[call.part] \in Partition
    BY <2>1, TableFacts DEF IInv, TypeOK
  <2> QED
    BY <2>1, <2>2 DEF Place, SlotAt, Partition
<1>4. Place \notin word => SlotAt(table, Place) /\ Place \notin Pointers(cpb)
  <2>1. SUFFICES ASSUME call.op # "enable", spt[call.part] \in ToSet(table)
                 PROVE  SlotAt(table, Place) /\ Place \notin Pointers(cpb)
    OBVIOUS
  <2>2. \E x \in DOMAIN table : table[x] = spt[call.part]
    BY <2>1 DEF ToSet
  <2> QED
    BY <1>2, <1>3, <2>1, <2>2 DEF SlotAt, Place, MenuInv, MenuKept
<1>5. /\ pointers \in Seq(Nat) /\ cpb \in Seq(Nat)
      /\ Once(pointers, vouched) /\ Once(cpb, vouched)
  BY DEF MenuInv, MenuPlan, ListedOnce
<1>6. /\ list \in Seq(Nat) /\ Pointers(list) = Pointers(cpb) \cup {Place}
      /\ Once(list, vouched \cup word)
  <2> HIDE DEF word, list
  <2>1. Once(cpb, vouched \cup word)
    BY <1>5 DEF Once
  <2>2. Place \in Pointers(cpb) => Place \in vouched \cup word
    BY <1>4
  <2> QED
    BY <1>3, <1>5, <2>1, <2>2, AppendedOnce DEF list
<1> HIDE DEF list, word
<1>7. /\ pointers' \in {pointers, list} /\ cpb' \in {pointers, list}
      /\ UNCHANGED <<table, spt, sptCorrupted>>
      /\ Proceed \/ Return
  BY <1>1 DEF SetPointers, SetPointersFails, Fail, Fault
<1>8. vouched' = (vouched \cap (Pointers(pointers') \cup Pointers(cpb'))) \cup word
                 \cup (Pointers(pointers') \ Pointers(cpb'))
  BY <1>1 DEF Vouch
<1>9. MenuPlan'
  BY <1>2, <1>5, <1>6, <1>7, PlanProceeds DEF MenuInv
<1>10. ASSUME NEW place \in Answered'
       PROVE  \/ place \in Answered
              \/ place = Place /\ SlotAt(table, Place)
  <2>1. place \in Pointers(cpb') /\ place \notin vouched /\ place \notin word
    BY <1>8, <1>10 DEF Answered
  <2>2. place \in Pointers(pointers) \cup Pointers(cpb) \cup {Place}
    BY <1>6, <1>7, <2>1
  <2> QED
    BY <1>4, <2>1, <2>2 DEF Answered
<1>11. MenuFits'
  <2>1. InUse' => InUse
    BY <1>2, <1>7 DEF InUse
  <2> QED
    BY <1>3, <1>7, <1>10, <2>1 DEF MenuInv, MenuFits, SlotAt
<1>12. ListedOnce'
  <2>1. ASSUME NEW u \in {pointers', cpb'}
        PROVE  Once(u, vouched')
    <3>1. Once(u, vouched \cup word)
      BY <1>5, <1>6, <1>7 DEF Once
    <3>2. \A k \in DOMAIN u : u[k] \in vouched \cup word => u[k] \in vouched'
      BY <1>8 DEF Pointers
    <3> QED
      BY <3>1, <3>2 DEF Once
  <2> QED
    BY <2>1 DEF ListedOnce
<1>13. MenuKept'
  BY <1>2, <1>7, LastStep, KeptWhenDone
<1> QED
  BY <1>9, <1>11, <1>12, <1>13 DEF MenuInv

\* Pointers of a backup are on the caller's word.
LEMMA ReplacePointersMenu ==
  ASSUME IInv, MenuInv, ReplacePointers
  PROVE  MenuInv'
<1> DEFINE list == call.table
<1>1. At("restore cpb") /\ Vouch(Pointers(list))
  BY DEF ReplacePointers
<1>2. /\ todo # <<>> /\ Len(todo) = 1 /\ list \in Seq(Nat)
      /\ pointers \in Seq(Nat) /\ Once(pointers, vouched)
  BY <1>1, MenuHead DEF MenuInv, MenuPlan, ListedOnce
<1>3. /\ pointers' \in {pointers, list} /\ cpb' = list
      /\ UNCHANGED <<table, spt, sptCorrupted>>
      /\ Proceed \/ Return
  BY DEF ReplacePointers, Fault
<1>4. vouched' = (vouched \cap (Pointers(pointers') \cup Pointers(cpb'))) \cup Pointers(list)
                 \cup (Pointers(pointers') \ Pointers(cpb'))
  BY <1>1 DEF Vouch
<1> HIDE DEF list
<1>5. MenuPlan'
  BY <1>2, <1>3, PlanProceeds DEF MenuInv
<1>6. Answered' = {}
  BY <1>3, <1>4 DEF Answered
<1>7. ListedOnce'
  <2>1. Once(list, vouched')
    BY <1>4 DEF Once, Pointers
  <2>2. Once(pointers, vouched') \/ pointers' # pointers
    BY <1>2, <1>4 DEF Once, Pointers
  <2> QED
    BY <1>3, <2>1, <2>2 DEF ListedOnce
<1>8. MenuKept'
  BY <1>2, <1>3, LastStep, KeptWhenDone
<1> QED
  BY <1>5, <1>6, <1>7, <1>8 DEF MenuInv, MenuFits

LEMMA LoadMenu ==
  ASSUME IInv, MenuInv, \/ LoadSpt \/ LoadSptCorrupted \/ LoadSptFails
                        \/ LoadCpb \/ LoadCpbCorrupted \/ LoadCpbFails \/ AddPointerFails
  PROVE  MenuInv'
<1>1. CASE LoadSpt
  <2>1. At("load_spt") /\ todo # <<>> /\ \A stage : Pending(stage)' => stage = "load_cpb"
    BY <1>1, MenuHead, ProceedFits DEF LoadSpt, IInv, MenuInv
  <2>2. Proceed /\ spt' = table /\ UNCHANGED <<table, pointers, cpb, vouched>>
    BY <1>1 DEF LoadSpt
  <2>3. MenuPlan'
    BY <2>1, <2>2, PlanProceeds DEF MenuInv, MenuPlan
  <2>4. MenuFits'
    BY <2>2 DEF MenuInv, MenuFits, Answered, SlotAt, Pointers
  <2>5. ListedOnce'
    BY <2>2 DEF MenuInv, ListedOnce, Once
  <2>6. MenuKept'
    BY <2>1, KeptWhenDone
  <2> QED
    BY <2>3, <2>4, <2>5, <2>6 DEF MenuInv
<1>2. CASE LoadCpb
  <2>1. At("load_cpb") /\ todo # <<>> /\ Len(todo) = 1 /\ up /\ ~Pending("load_spt")
    BY <1>2, MenuTail DEF LoadCpb, MenuInv
  <2>2. /\ Proceed /\ cpb' = pointers /\ Vouch({})
        /\ UNCHANGED <<table, pointers, spt, sptCorrupted>>
    BY <1>2 DEF LoadCpb
  <2>3. MenuPlan'
    BY <2>1, <2>2, PlanProceeds DEF MenuInv, MenuPlan
  <2>4. vouched' = vouched \cap Pointers(pointers)
    BY <2>2 DEF Vouch, Pointers
  <2>5. Answered' \subseteq Answered
    BY <2>2, <2>4 DEF Answered, Pointers
  <2>6. MenuFits'
    BY <2>1, <2>2, <2>5 DEF MenuInv, MenuFits, SlotAt, InUse
  <2>7. ListedOnce'
    BY <2>2, <2>4 DEF MenuInv, ListedOnce, Once, Pointers
  <2>8. MenuKept'
    BY <2>1, <2>2, LastStep, KeptWhenDone
  <2> QED
    BY <2>3, <2>6, <2>7, <2>8 DEF MenuInv
<1>3. CASE LoadSptCorrupted \/ LoadSptFails
  <2>1. At("load_spt") /\ todo # <<>> /\ ~At("remove") /\ Pending("load_spt")
    BY <1>3, MenuHead DEF LoadSptCorrupted, LoadSptFails, MenuInv
  <2>2. /\ Return /\ UNCHANGED <<table, spt, pointers, cpb, vouched>>
        /\ ~InUse'
    BY <1>3, <2>1 DEF LoadSptCorrupted, LoadSptFails, Fail, Abort, flash, memory, history,
       InUse, IInv, CallFits
  <2> QED
    BY <2>1, <2>2, MenuQuiet
<1>4. CASE LoadCpbCorrupted \/ LoadCpbFails \/ AddPointerFails
  <2>1. /\ At("load_cpb") \/ At("add")
        /\ todo # <<>> /\ ~At("remove") /\ up /\ ~Pending("load_spt")
    BY <1>4, MenuTail DEF LoadCpbCorrupted, LoadCpbFails, AddPointerFails, MenuInv
  <2>2. /\ Proceed \/ Return
        /\ UNCHANGED <<table, spt, pointers, cpb, vouched, sptCorrupted>>
    BY <1>4 DEF LoadCpbCorrupted, LoadCpbFails, AddPointerFails, Fail, Abort, flash, memory,
       history
  <2> QED
    BY <2>1, <2>2, MenuQuiet DEF InUse
<1> QED
  BY <1>1, <1>2, <1>3, <1>4

LEMMA EditMenu ==
  ASSUME IInv, MenuInv, Edit \/ EditFails
  PROVE  MenuInv'
<1>1. /\ At("edit") /\ todo # <<>> /\ Pending("edit") /\ ~At("remove")
      /\ \A stage : Pending(stage)' => stage = "load_cpb"
  <2>1. At("edit") /\ (Proceed \/ Return)
    BY DEF Edit, EditFails, Fail, Fault
  <2>2. "edit" # "remove"
    OBVIOUS
  <2>3. todo # <<>> /\ Pending("edit") /\ ~At("remove")
    BY <2>1, <2>2, MenuHead DEF MenuInv
  <2> QED
    BY <2>1, <2>3, ProceedFits, ReturnFits DEF IInv
<1>2. /\ table' \in {table, call.table} /\ spt' = call.table
      /\ Proceed \/ Return
      /\ UNCHANGED <<pointers, cpb, vouched>>
  BY DEF Edit, EditFails, Fail, Fault
<1>3. MenuPlan'
  BY <1>1, <1>2, PlanProceeds DEF MenuInv, MenuPlan
<1>4. MenuFits'
  <2>1. \A place \in Answered : SlotAt(table, place) /\ SlotAt(call.table, place)
    BY <1>1 DEF MenuInv, MenuFits, MenuKept
  <2> QED
    BY <1>2, <2>1 DEF MenuFits, Answered, SlotAt, Pointers
<1>5. ListedOnce'
  BY <1>2 DEF MenuInv, ListedOnce, Once
<1>6. MenuKept'
  BY <1>1, KeptWhenDone
<1> QED
  BY <1>3, <1>4, <1>5, <1>6 DEF MenuInv

LEMMA ReplaceMenu ==
  ASSUME IInv, MenuInv, Replace \/ ReplaceFails
  PROVE  MenuInv'
<1>1. /\ At("replace") /\ todo # <<>>
      /\ \A stage : Pending(stage)' => stage = "load_cpb"
  <2>1. At("replace") /\ (Proceed \/ Return)
    BY DEF Replace, ReplaceFails, Fault
  <2> QED
    BY <2>1, MenuHead, ProceedFits, ReturnFits DEF IInv, MenuInv
<1>2. /\ Proceed \/ Return
      /\ UNCHANGED <<pointers, cpb>>
      /\ vouched' = Pointers(pointers) \cup Pointers(cpb)
  BY DEF Replace, ReplaceFails, Fault, Distrust
<1>3. MenuPlan'
  BY <1>1, <1>2, PlanProceeds DEF MenuInv, MenuPlan
<1>4. MenuFits'
  BY <1>2 DEF MenuFits, Answered, Pointers
<1>5. ListedOnce'
  BY <1>2 DEF ListedOnce, Once, Pointers
<1>6. MenuKept'
  BY <1>1, KeptWhenDone
<1> QED
  BY <1>3, <1>4, <1>5, <1>6 DEF MenuInv

LEMMA CrashMenu ==
  ASSUME IInv, MenuInv, Crash
  PROVE  MenuInv'
<1>1. /\ up' = FALSE /\ Return /\ cpb' = <<>> /\ UNCHANGED <<table, pointers>>
      /\ vouched \cap Pointers(pointers) \subseteq vouched'
  BY DEF Crash, Distrust
<1>2. /\ todo' = <<>> /\ DOMAIN todo' = {} /\ \A stage : ~Pending(stage)'
      /\ DOMAIN cpb' = {} /\ cpb' \in Seq(Nat)
  BY <1>1, ReturnFits
<1>3. MenuPlan'
  BY <1>1, <1>2 DEF MenuInv, MenuPlan
<1>4. Answered' \subseteq Answered
  BY <1>1, <1>2 DEF Answered, Pointers
<1>5. MenuFits'
  BY <1>1, <1>4 DEF MenuInv, MenuFits, InUse, SlotAt
<1>6. ListedOnce'
  BY <1>1, <1>2 DEF MenuInv, ListedOnce, Once, Pointers
<1>7. MenuKept'
  BY <1>2, KeptWhenDone
<1> QED
  BY <1>3, <1>5, <1>6, <1>7 DEF MenuInv

LEMMA OpenMenu ==
  ASSUME IInv, MenuInv, Open
  PROVE  MenuInv'
<1>1. /\ todo' = <<"load_spt", "load_cpb">> /\ cpb' = <<>>
      /\ UNCHANGED <<table, pointers, vouched>>
  BY DEF Open, flash, history
<1>2. /\ DOMAIN todo' = 1..2 /\ Len(todo') = 2
      /\ todo'[1] = "load_spt" /\ todo'[2] = "load_cpb"
      /\ DOMAIN cpb' = {} /\ cpb' \in Seq(Nat)
  BY <1>1
<1>3. Pending("load_spt")' /\ \A stage : Pending(stage)' => stage \in {"load_spt", "load_cpb"}
  BY <1>2 DEF Pending
<1>4. MenuPlan'
  <2>1. \A k \in DOMAIN todo' : k = 1 \/ k = 2
    BY <1>2
  <2>2. ~Pending("remove")' /\ ~Pending("add")' /\ ~Pending("restore cpb")'
    <3>1. \A k \in DOMAIN todo' : todo'[k] \notin {"remove", "add", "restore cpb"}
      BY <1>2, <2>1
    <3> QED
      BY <3>1 DEF Pending
  <2>3. \A k \in DOMAIN todo' :
          todo'[k] # "remove" /\ (todo'[k] \in {"add", "restore cpb", "load_cpb"} => k = 2)
    BY <1>2, <2>1
  <2> QED
    BY <1>1, <1>2, <2>2, <2>3 DEF MenuInv, MenuPlan
<1>5. Answered' \subseteq Answered
  BY <1>1, <1>2 DEF Answered, Pointers
<1>6. MenuFits'
  BY <1>1, <1>3, <1>5 DEF MenuInv, MenuFits, InUse, SlotAt
<1>7. ListedOnce'
  BY <1>1, <1>2 DEF MenuInv, ListedOnce, Once
<1>8. MenuKept'
  BY <1>3 DEF MenuKept
<1> QED
  BY <1>4, <1>6, <1>7, <1>8 DEF MenuInv

-----------------------------------------------------------------------------
(* Calls preserve the invariant *)

LEMMA NothingPending ==
  ASSUME todo = <<>>, NEW stage
  PROVE  ~Pending(stage)
<1>1. DOMAIN todo = {}
  OBVIOUS
<1> QED
  BY <1>1 DEF Pending

LEMMA OneStage ==
  ASSUME NEW stage \in Stages
  PROVE  <<stage>> \in Seq(Stages) /\ DOMAIN <<stage>> = {1} /\ <<stage>>[1] = stage
OBVIOUS

LEMMA BeginMenu ==
  ASSUME IInv, MenuInv, NEW op, NEW n, NEW x, NEW t, NEW stages \in Seq(Stages),
         Begin(op, n, x, t, stages),
         \A k \in DOMAIN stages :
           /\ stages[k] # "load_spt"
           /\ stages[k] = "remove" => k = 1
           /\ stages[k] \in {"add", "restore cpb", "load_cpb"} => k = Len(stages),
         (\E k \in DOMAIN stages : stages[k] \in {"remove", "add"}) => x \in Slot2Part(spt, n),
         (\E k \in DOMAIN stages : stages[k] = "restore cpb") => t \in Seq(Nat),
         (\E k \in DOMAIN stages : stages[k] = "edit") =>
           \A place \in Answered :
             \/ SlotAt(t, place)
             \/ stages # <<>> /\ Head(stages) = "remove" /\ place = spt[x].offset,
         (\E k \in DOMAIN stages : stages[k] = "add") =>
           op = "enable" \/ spt[x].offset \notin Pointers(cpb)
  PROVE  MenuInv'
<1>1. /\ todo = <<>> /\ up /\ up' = up /\ todo' = stages
      /\ call'.op = op /\ call'.slot = n /\ call'.part = x /\ call'.table = t
      /\ UNCHANGED <<table, spt, sptCorrupted, pointers, cpb, vouched>>
  BY DEF Begin, Idle, flash, memory, history
<1>2. MenuPlan'
  BY <1>1 DEF MenuInv, MenuPlan, Pending
<1>3. Answered' = Answered
  BY <1>1 DEF Answered, Pointers
<1>4. InUse' => InUse
  <2>1. todo = <<>>
    BY <1>1
  <2>2. ~Pending("load_spt")
    BY <2>1, NothingPending
  <2> QED
    BY <1>1, <2>2 DEF InUse
<1>5. MenuFits'
  BY <1>1, <1>3, <1>4 DEF MenuInv, MenuFits, SlotAt
<1>6. ListedOnce'
  BY <1>1 DEF MenuInv, ListedOnce, Once
<1>7. Place' = spt[x].offset
  BY <1>1 DEF Place
<1>8. MenuKept'
  <2>1. ASSUME Pending("edit")', NEW place \in Answered'
        PROVE  SlotAt(call'.table, place) \/ (At("remove")' /\ place = Place')
    <3>1. \E k \in DOMAIN stages : stages[k] = "edit"
      BY <1>1, <2>1 DEF Pending
    <3>2. place \in Answered
      BY <1>3, <2>1
    <3> QED
      BY <1>1, <1>7, <3>1, <3>2 DEF At
  <2>2. ASSUME Pending("add")', call'.op # "enable"
        PROVE  Place' \notin Pointers(cpb')
    <3>1. \E k \in DOMAIN stages : stages[k] = "add"
      BY <1>1, <2>2 DEF Pending
    <3> QED
      BY <1>1, <1>7, <2>2, <3>1 DEF Pointers
  <2> QED
    BY <2>1, <2>2 DEF MenuKept, SlotAt
<1> QED
  BY <1>2, <1>5, <1>6, <1>8 DEF MenuInv

\* Calls on one slot.
LEMMA OnSlotMenu ==
  ASSUME IInv, MenuInv, NEW n,
         \/ SlotErase(n) \/ SlotProgram(n) \/ SlotProgramRaw(n)
         \/ SlotDisable(n) \/ SlotEnable(n)
  PROVE  MenuInv'
<1>1. ASSUME NEW op, NEW stages \in Seq(Stages), OnSlot(op, n, stages),
             \A k \in DOMAIN stages :
               /\ stages[k] \in {"remove", "erase", "write raw"}
               /\ stages[k] = "remove" => k = 1
      PROVE  MenuInv'
  <2>1. PICK x \in Slot2Part(spt, n) : Begin(op, n, x, <<>>, stages)
    BY <1>1 DEF OnSlot
  <2>2. \A k \in DOMAIN stages :
          stages[k] \notin {"load_spt", "add", "restore cpb", "load_cpb", "edit"}
    BY <1>1
  <2> QED
    BY <1>1, <2>1, <2>2, BeginMenu
<1>2. CASE SlotProgram(n)
  <2> DEFINE stages == <<"write", "add">>
  <2>1. PICK x \in Slot2Part(spt, n) : Begin("program", n, x, <<>>, stages)
    BY <1>2 DEF SlotProgram, OnSlot
  <2>2. PriorityGet(spt[x].offset) = 0
    BY <1>2, <2>1 DEF SlotProgram, SlotPriority
  <2>3. spt[x].offset \notin Pointers(cpb)
    BY <2>2, NotListed DEF MenuInv, MenuPlan
  <2>4. /\ stages \in Seq(Stages) /\ DOMAIN stages = {1, 2} /\ Len(stages) = 2
        /\ stages[1] = "write" /\ stages[2] = "add"
    BY DEF Stages, DataStages
  <2> HIDE DEF stages
  <2> QED
    BY <2>1, <2>3, <2>4, BeginMenu
<1>3. CASE SlotEnable(n)
  <2> DEFINE stages == <<"remove", "add">>
  <2>1. PICK x \in Slot2Part(spt, n) : Begin("enable", n, x, <<>>, stages)
    BY <1>3 DEF SlotEnable, OnSlot
  <2>2. /\ stages \in Seq(Stages) /\ DOMAIN stages = {1, 2} /\ Len(stages) = 2
        /\ stages[1] = "remove" /\ stages[2] = "add"
    BY DEF Stages
  <2> HIDE DEF stages
  <2> QED
    BY <2>1, <2>2, BeginMenu
<1>4. CASE SlotErase(n) \/ SlotDisable(n) \/ SlotProgramRaw(n)
  <2>1. CASE SlotErase(n)
    <3> DEFINE stages == <<"remove", "erase">>
    <3>1. OnSlot("erase", n, stages)
      BY <2>1 DEF SlotErase
    <3>2. /\ stages \in Seq(Stages) /\ DOMAIN stages = {1, 2}
          /\ stages[1] = "remove" /\ stages[2] = "erase"
      BY DEF Stages, DataStages
    <3> HIDE DEF stages
    <3> QED
      BY <1>1, <3>1, <3>2
  <2>2. ASSUME NEW op, NEW stage \in {"remove", "write raw"}, OnSlot(op, n, <<stage>>)
        PROVE  MenuInv'
    <3> DEFINE stages == <<stage>>
    <3>1. stage \in Stages
      BY DEF Stages, DataStages
    <3>2. stages \in Seq(Stages) /\ DOMAIN stages = {1} /\ stages[1] = stage
      BY <3>1, OneStage
    <3>3. OnSlot(op, n, stages)
      BY <2>2
    <3> HIDE DEF stages
    <3> QED
      BY <1>1, <3>2, <3>3
  <2>3. CASE SlotDisable(n)
    BY <2>2, <2>3 DEF SlotDisable
  <2>4. CASE SlotProgramRaw(n)
    BY <2>2, <2>4 DEF SlotProgramRaw
  <2> QED
    BY <1>4, <2>1, <2>3, <2>4
<1> QED
  BY <1>2, <1>3, <1>4

\* Edits of the partition table keep the slots that are listed.
LEMMA EditCallMenu ==
  ASSUME IInv, MenuInv,
         \/ \E n : SlotDelete(n) \/ \E name \in SlotNames : SlotRename(n, name)
         \/ \E name \in SlotNames, request \in Requests : SlotCreate(name, request)
  PROVE  MenuInv'
<1>1. /\ todo = <<>> /\ up /\ ~sptCorrupted /\ spt \in Table
      /\ \A place \in Answered : SlotAt(spt, place)
  <2>1. todo = <<>> /\ up /\ ~sptCorrupted
    BY DEF SlotDelete, SlotRename, SlotCreate, Usable, Begin, Idle
  <2>2. InUse
    <3>1. DOMAIN todo = {}
      BY <2>1
    <3> QED
      BY <2>1, <3>1 DEF InUse, Pending
  <2> QED
    BY <2>1, <2>2 DEF MenuInv, MenuFits, IInv, TypeOK
<1>2. CASE \E n : SlotDelete(n)
  <2> DEFINE stages == <<"remove", "erase", "edit">>
  <2>0. PICK n : SlotDelete(n)
    BY <1>2
  <2>1. PICK x \in Slot2Part(spt, n) : Begin("delete", n, x, Without(spt, x), stages)
    BY <2>0 DEF SlotDelete
  <2>2. /\ stages \in Seq(Stages) /\ DOMAIN stages = {1, 2, 3} /\ Len(stages) = 3
        /\ stages[1] = "remove" /\ stages[2] = "erase" /\ stages[3] = "edit"
        /\ stages # <<>> /\ Head(stages) = "remove"
    BY DEF Stages, DataStages
  <2> HIDE DEF stages
  <2>3. ASSUME NEW place \in Answered
        PROVE  SlotAt(Without(spt, x), place) \/ place = spt[x].offset
    BY <1>1, <2>3, EditsKeepSlots DEF Slot2Part
  <2> QED
    BY <2>1, <2>2, <2>3, BeginMenu
<1>3. CASE ~\E n : SlotDelete(n)
  <2> DEFINE stages == <<"edit">>
  <2>1. PICK op, n, x, t : /\ Begin(op, n, x, t, stages)
                           /\ \A place \in Answered : SlotAt(t, place)
    <3>1. CASE \E n : \E name \in SlotNames : SlotRename(n, name)
      <4>0. PICK n : \E name \in SlotNames : SlotRename(n, name)
        BY <3>1
      <4>1. PICK name \in SlotNames : SlotRename(n, name)
        BY <4>0
      <4>2. PICK x \in Slot2Part(spt, n) :
              Begin("rename", n, x, Renamed(spt, x, name), stages)
        BY <4>1 DEF SlotRename
      <4> HIDE DEF stages
      <4>3. \A place \in Answered : SlotAt(Renamed(spt, x, name), place)
        BY <1>1, <4>2, EditsKeepSlots DEF Slot2Part
      <4> QED
        BY <4>2, <4>3
    <3>2. CASE \E name \in SlotNames, request \in Requests : SlotCreate(name, request)
      <4>1. PICK name \in SlotNames, request \in Requests : SlotCreate(name, request)
        BY <3>2
      <4>2. Begin("create", 0, 0, Append(spt, NewSlot(name, request)), stages)
        BY <4>1 DEF SlotCreate
      <4> HIDE DEF stages
      <4>3. \A place \in Answered : SlotAt(Append(spt, NewSlot(name, request)), place)
        BY <1>1, EditsKeepSlots
      <4> QED
        BY <4>2, <4>3
    <3> QED
      BY <1>3, <3>1, <3>2
  <2>2. stages \in Seq(Stages) /\ DOMAIN stages = {1} /\ Len(stages) = 1 /\ stages[1] = "edit"
    BY DEF Stages
  <2> HIDE DEF stages
  <2> QED
    BY <2>1, <2>2, BeginMenu
<1> QED
  BY <1>2, <1>3

LEMMA WiderSeq ==
  ASSUME NEW S, NEW T, S \subseteq T, NEW s \in Seq(S)
  PROVE  s \in Seq(T)
<1>1. Len(s) \in Nat /\ s \in [1..Len(s) -> T]
  OBVIOUS
<1> QED
  BY <1>1

LEMMA OffsetsAreNat == Offsets \subseteq Nat
<1>1. ASSUME NEW t \in Table
      PROVE  \A x \in DOMAIN t : t[x].offset \in Nat
  BY TableFacts DEF Partition
<1>2. Provisioned \in Table /\ \A t \in SptBackups : t \in Table
  BY ProvisionedAssumption, SptBackupsAssumption
<1> QED
  BY <1>1, <1>2 DEF Offsets

\* Backups may bring any pointers, as long as they are pointers.
LEMMA ReplaceCallMenu ==
  ASSUME IInv, MenuInv,
         \/ \E t \in SptBackups : RestoreSpt(t)
         \/ \E list \in CpbBackups : RestoreCpb(list)
         \/ CreateEmptyCpb
  PROVE  MenuInv'
<1>1. CASE \E t \in SptBackups : RestoreSpt(t)
  <2> DEFINE stages == <<"replace", "load_cpb">>
  <2>1. PICK t \in SptBackups : Begin("restore", 0, 0, t, stages)
    BY <1>1 DEF RestoreSpt
  <2>2. /\ stages \in Seq(Stages) /\ DOMAIN stages = {1, 2} /\ Len(stages) = 2
        /\ stages[1] = "replace" /\ stages[2] = "load_cpb"
    BY DEF Stages
  <2> HIDE DEF stages
  <2> QED
    BY <2>1, <2>2, BeginMenu
<1>2. CASE (\E list \in CpbBackups : RestoreCpb(list)) \/ CreateEmptyCpb
  <2> DEFINE stages == <<"restore cpb">>
  <2>0. \E op : \E list \in Seq(Nat) : Begin(op, 0, 0, list, stages)
    <3>1. CpbBackups \subseteq Seq(Nat)
      <4>1. \A list \in Seq(Offsets) : list \in Seq(Nat)
        BY OffsetsAreNat, WiderSeq
      <4> QED
        BY <4>1, CpbBackupsAssumption
    <3>2. <<>> \in Seq(Nat)
      OBVIOUS
    <3>3. CASE \E list \in CpbBackups : RestoreCpb(list)
      <4>1. PICK list \in CpbBackups : RestoreCpb(list)
        BY <3>3
      <4>2. Begin("restore cpb", 0, 0, list, stages)
        BY <4>1 DEF RestoreCpb
      <4> HIDE DEF stages
      <4> QED
        BY <3>1, <4>2
    <3>4. CASE CreateEmptyCpb
      <4>1. Begin("empty cpb", 0, 0, <<>>, stages)
        BY <3>4 DEF CreateEmptyCpb
      <4> HIDE DEF stages
      <4> QED
        BY <3>2, <4>1
    <3> QED
      BY <1>2, <3>3, <3>4
  <2>1. PICK op : \E list \in Seq(Nat) : Begin(op, 0, 0, list, stages)
    BY <2>0
  <2>2. /\ stages \in Seq(Stages) /\ DOMAIN stages = {1} /\ Len(stages) = 1
        /\ stages[1] = "restore cpb"
    BY DEF Stages
  <2> HIDE DEF stages
  <2> QED
    BY <2>1, <2>2, BeginMenu
<1> QED
  BY <1>1, <1>2

LEMMA ApiMenu ==
  ASSUME IInv, MenuInv, Api
  PROVE  MenuInv'
<1>1. CASE Open
  BY <1>1, OpenMenu
<1>2. CASE \E n : \/ SlotErase(n) \/ SlotProgram(n) \/ SlotProgramRaw(n)
                  \/ SlotDisable(n) \/ SlotEnable(n)
  BY <1>2, OnSlotMenu
<1>3. CASE \/ \E n : SlotDelete(n) \/ \E name \in SlotNames : SlotRename(n, name)
           \/ \E name \in SlotNames, request \in Requests : SlotCreate(name, request)
  BY <1>3, EditCallMenu
<1>4. CASE \/ \E t \in SptBackups : RestoreSpt(t) \/ RestoreSptFromBuf(t)
           \/ \E list \in CpbBackups : RestoreCpb(list) \/ RestoreCpbFromBuf(list)
           \/ CreateEmptyCpb
  BY <1>4, ReplaceCallMenu DEF RestoreSptFromBuf, RestoreCpbFromBuf
<1> QED
  BY <1>1, <1>2, <1>3, <1>4 DEF Api

-----------------------------------------------------------------------------
(* Theorems *)

LEMMA InitMenu == Init => MenuInv
<1> SUFFICES ASSUME Init
             PROVE  MenuInv
  OBVIOUS
<1>1. /\ table = Provisioned /\ pointers = Shipped /\ cpb = <<>> /\ todo = <<>>
      /\ ~up /\ vouched = {}
  BY DEF Init
<1>2. DOMAIN todo = {} /\ DOMAIN cpb = {} /\ cpb \in Seq(Nat) /\ \A stage : ~Pending(stage)
  BY <1>1 DEF Pending
<1>3. MenuPlan
  <2>1. Shipped \in Seq(Nat)
    BY ShippedAssumption, OffsetsAreNat, WiderSeq
  <2> QED
    BY <1>1, <1>2, <2>1 DEF MenuPlan
<1>4. MenuFits
  BY <1>1, <1>2, ShippedAssumption DEF MenuFits, Answered, Pointers, SlotAt, InUse
<1>5. ListedOnce
  BY <1>1, <1>2, ShippedAssumption DEF ListedOnce, Once
<1>6. MenuKept
  BY <1>2 DEF MenuKept
<1> QED
  BY <1>3, <1>4, <1>5, <1>6 DEF MenuInv

LEMMA NextMenu == IInv /\ MenuInv /\ [Next]_vars => MenuInv'
<1> SUFFICES ASSUME IInv, MenuInv, [Next]_vars
             PROVE  MenuInv'
  OBVIOUS
<1>1. CASE Step
  BY <1>1, DataStepMenu, RemoveMenu, AddMenu, ReplacePointersMenu, LoadMenu, EditMenu,
     ReplaceMenu DEF Step
<1>2. CASE Api
  BY <1>2, ApiMenu
<1>3. CASE Crash
  BY <1>3, CrashMenu
<1>4. CASE UNCHANGED vars
  <2>1. UNCHANGED <<table, pointers, spt, cpb, sptCorrupted, up, call, todo, vouched>>
    BY <1>4 DEF vars, flash, memory, control, history
  <2>2. /\ Answered' = Answered /\ InUse' = InUse /\ Place' = Place
        /\ \A stage : Pending(stage)' = Pending(stage) /\ At(stage)' = At(stage)
    BY <2>1 DEF Answered, InUse, Place, Pending, At, Pointers
  <2>3. MenuPlan'
    BY <2>1, <2>2 DEF MenuInv, MenuPlan
  <2>4. MenuFits'
    BY <2>1, <2>2 DEF MenuInv, MenuFits, SlotAt
  <2>5. ListedOnce'
    BY <2>1 DEF MenuInv, ListedOnce, Once
  <2>6. MenuKept'
    BY <2>1, <2>2 DEF MenuInv, MenuKept, SlotAt, Pointers
  <2> QED
    BY <2>3, <2>4, <2>5, <2>6 DEF MenuInv
<1> QED
  BY <1>1, <1>2, <1>3, <1>4 DEF Next

\* What a call still has to do with the pointers fits the tables it will do it to: the
\* pointers the library answers for lead to slots of the table in flash, of the one in
\* memory and of the one an edit is about to write.
THEOREM MenuInvariance == Spec => []MenuInv
<1>1. IInv /\ MenuInv /\ [Next]_vars => MenuInv'
  BY NextMenu
<1> QED
  BY <1>1, InitMenu, Invariance, PTL DEF Spec

\* In all of libRSU.c, whatever fails and whenever the process dies, the firmware
\* finds no pointer to a place that the partition table in flash does not give to a
\* slot, but for those a caller listed.
THEOREM MenuSafe == Spec => []MenuPointsToSlots
<1>1. MenuInv => MenuPointsToSlots
  BY DEF MenuInv, MenuFits, MenuPointsToSlots, Answered, SlotAt
<1> QED
  BY <1>1, MenuInvariance, PTL
=============================================================================
