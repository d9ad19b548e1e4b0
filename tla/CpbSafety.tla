----------------------------- MODULE CpbSafety -----------------------------
(***************************************************************************)
(* Theorems about Cpb, for every table size, word width, set of offsets,   *)
(* partition order, set of backups and set of I/O errors: the variables    *)
(* keep their types, the invariant of CpbInvariant is inductive, and what  *)
(* follows from it: one copy of the pointer block survives any             *)
(* interruption, loading settles on the table from before or after the     *)
(* interrupted update, and the table is called corrupted only for a cause. *)
(***************************************************************************)
EXTENDS CpbInvariant, TLAPS, WellFoundedInduction

USE NSlotsAssumption, OffsetsAssumption, MagicAssumption, FirstAssumption,
    BackupsAssumption, HalfErasedAssumption

-----------------------------------------------------------------------------
(* Lemmas about tables and flash operations *)

LEMMA LeastExists ==
  ASSUME NEW S \in SUBSET Nat, S # {}
  PROVE  \E s \in S : \A r \in S : s <= r
<1> DEFINE R == OpToRel(<, Nat)
<1>1. \E x \in S : \A y \in S : ~ (<<y, x>> \in R)
  <2>1. IsWellFoundedOn(R, Nat)
    BY NatLessThanWellFounded
  <2> HIDE DEF R
  <2> QED
    BY <2>1, WFMin
<1>2. PICK x \in S : \A y \in S : ~ (<<y, x>> \in R)
  BY <1>1
<1>3. \A y \in S : ~ (y < x)
  BY <1>2 DEF OpToRel
<1> QED
  BY <1>3

LEMMA LowestInSet ==
  ASSUME NEW S \in SUBSET Slots, S # {}
  PROVE  Lowest(S) \in S
<1>1. S \in SUBSET Nat
  BY DEF Slots
<1> QED
  BY <1>1, LeastExists DEF Lowest

LEMMA CopiesFacts ==
  /\ \A c \in Copies : /\ Other(c) \in Copies /\ Other(c) # c
                       /\ Other(Other(c)) = c
                       /\ Copies = {c, Other(c)}
  /\ First \in Copies
BY DEF Copies, Other

LEMMA TableFacts ==
  /\ EmptyTable \in Table /\ ErasedTable \in Table
  /\ \A t \in Table : WithMagic(t) \in Table /\ WithoutMagic(t) \in Table
  /\ \A b \in Backups : b \in Table
BY DEF EmptyTable, ErasedTable, Table, Word, Erased, WithMagic, WithoutMagic

LEMMA ProgramType ==
  ASSUME NEW old \in Table, NEW blk \in Table
  PROVE  Program(old, blk) \in Table
BY DEF Program, Table, Word

LEMMA TornProgramType ==
  ASSUME NEW old \in Table, NEW blk \in Table, NEW t \in TornProgram(old, blk)
  PROVE  t \in Table
<1>1. PICK done : t = [c \in DOMAIN old |-> {b \in old[c] : <<c, b>> \notin done}]
  BY Zenon DEF TornProgram
<1>2. DOMAIN old = Cells /\ \A c \in Cells : old[c] \in SUBSET Bits
  BY DEF Table, Word
<1>3. \A c \in Cells : {b \in old[c] : <<c, b>> \notin done} \in SUBSET Bits
  BY <1>2
<1> QED
  BY <1>1, <1>2, <1>3 DEF Table, Word

LEMMA EraseType ==
  ASSUME NEW old \in Table
  PROVE  Erase(old) = ErasedTable
BY DEF Erase, ErasedTable, Table

LEMMA OutcomeType ==
  ASSUME cpb \in Table, NEW old \in Table
  PROVE  /\ Outcome(old) \in Table
         /\ TornOutcomes(old) \subseteq Table
<1>1. Written \in Table
  BY TableFacts DEF Written
<1> QED
  BY <1>1, TableFacts, ProgramType, TornProgramType, EraseType
     DEF Outcome, TornOutcomes

LEMMA CompressedType ==
  ASSUME NEW t \in Table, NEW p \in Word
  PROVE  Compressed(t, p) \in Table
<1> SUFFICES ASSUME NEW c \in Cells
             PROVE  Compressed(t, p)[c] \in Word
  BY DEF Compressed, CompressedEntry, Table
<1>1. CASE c = Header
  BY <1>1 DEF Compressed, CompressedEntry, Table
<1>2. CASE c # Header /\ \E s \in LiveSlots(t) : Rank(t, s) = c
  <2>1. (CHOOSE s \in LiveSlots(t) : Rank(t, s) = c) \in LiveSlots(t)
    BY <1>2
  <2>2. LiveSlots(t) \subseteq Cells
    BY DEF LiveSlots, Slots, Cells
  <2> QED
    BY <1>2, <2>1, <2>2 DEF Compressed, CompressedEntry, Table
<1>3. CASE c # Header /\ ~ \E s \in LiveSlots(t) : Rank(t, s) = c
  BY <1>3 DEF Compressed, CompressedEntry, Word, Erased
<1> QED
  BY <1>1, <1>2, <1>3

\* The ends of a call keep pc and call well typed.
LEMMA EndsType ==
  ASSUME TypeOK, Proceed \/ ReportCorrupted \/ Abort
  PROVE  /\ pc' \in {"down", "idle", "add"}
         /\ call' \in Calls
<1> USE DEF TypeOK, Calls
<1>1. CASE Proceed
  BY <1>1 DEF Proceed
<1>2. CASE ReportCorrupted
  BY <1>2 DEF ReportCorrupted
<1>3. CASE Abort
  BY <1>3 DEF Abort
<1> QED
  BY <1>1, <1>2, <1>3

LEMMA InitType == Init => TypeOK
<1> SUFFICES ASSUME Init
             PROVE  TypeOK
  OBVIOUS
<1>1. flash \in [Copies -> Table]
  BY TableFacts DEF Init
<1>2. call \in Calls
  BY DEF Init, Calls, Ops
<1> QED
  BY <1>1, <1>2, TableFacts DEF Init, TypeOK

LEMMA LoadCpbType == TypeOK /\ LoadCpb => TypeOK'
<1> SUFFICES ASSUME TypeOK, LoadCpb
             PROVE  TypeOK'
  OBVIOUS
<1> USE CopiesFacts DEF durable, memory, history
<1>0. /\ flash[0] \in Table /\ flash[1] \in Table
      /\ \A unread : LastRead(unread) \in Table
  BY DEF TypeOK, LastRead, Copies
<1>1. CASE LoadRefused
  BY <1>1, EndsType DEF LoadRefused, ReportCorrupted, TypeOK
<1>2. CASE LoadMatched
  BY <1>0, <1>2, EndsType DEF LoadMatched, Settle, TypeOK
<1>3. CASE LoadUnmatched
  BY <1>0, <1>3, EndsType DEF LoadUnmatched, ReportCorrupted, TypeOK
<1>4. ASSUME NEW unread, LoadRepair(unread)
      PROVE  TypeOK'
  <2>1. PICK c \in Copies : cpb' = flash[c] /\ Settle(flash[c]) /\ todo' = {Other(c)}
    BY <1>4 DEF LoadRepair
  <2>2. flash[c] \in Table /\ todo' \in SUBSET Copies
    BY <2>1 DEF TypeOK
  <2> QED
    BY <1>4, <2>1, <2>2 DEF LoadRepair, Settle, TypeOK
<1>5. ASSUME NEW unread, LoadReadFails(unread)
      PROVE  TypeOK'
  BY <1>0, <1>5, EndsType DEF LoadReadFails, TypeOK
<1>6. ASSUME NEW unread, LoadNone(unread)
      PROVE  TypeOK'
  BY <1>0, <1>6, EndsType DEF LoadNone, ReportCorrupted, TypeOK
<1> QED
  BY <1>1, <1>2, <1>3, <1>4, <1>5, <1>6 DEF LoadCpb

\* One flash operation, done or torn, on the copy in progress.
LEMMA FlashStepType ==
  ASSUME TypeOK,
         \/ flash' = [flash EXCEPT ![Copy] = Outcome(@)]
         \/ \E t \in TornOutcomes(flash[Copy]) : flash' = [flash EXCEPT ![Copy] = t]
  PROVE  flash' \in [Copies -> Table]
<1>1. Copy \in Copies
  BY CopiesFacts DEF Copy
<1>2. flash[Copy] \in Table /\ cpb \in Table
  BY <1>1 DEF TypeOK
<1> QED
  BY <1>1, <1>2, OutcomeType DEF TypeOK

LEMMA WriteStepType ==
  TypeOK /\ (EraseCopy \/ WriteBody \/ WriteMagic \/ EndRepair \/ EndWriteback
              \/ UpdateCopy)
    => TypeOK'
<1> SUFFICES ASSUME TypeOK,
                    \/ EraseCopy \/ WriteBody \/ WriteMagic \/ EndRepair
                    \/ EndWriteback \/ UpdateCopy
             PROVE  TypeOK'
  OBVIOUS
<1> USE DEF memory, history
<1>0. flash' \in [Copies -> Table]
  BY FlashStepType DEF EraseCopy, WriteBody, WriteMagic, EndRepair, EndWriteback,
     LastMagic, UpdateCopy
<1>1. WithMagic(cpb) \in Table /\ WithoutMagic(cpb) \in Table
  BY TableFacts DEF TypeOK
<1>2. CASE EraseCopy
  BY <1>0, <1>2 DEF EraseCopy, TypeOK
<1>3. CASE WriteBody
  BY <1>0, <1>1, <1>3 DEF WriteBody, TypeOK
<1>4. CASE WriteMagic
  BY <1>0, <1>1, <1>4 DEF WriteMagic, TypeOK
<1>5. CASE EndRepair
  BY <1>0, <1>1, <1>5, EndsType DEF EndRepair, LastMagic, TypeOK
<1>6. CASE EndWriteback
  <2>1. call' \in Calls
    BY <1>6 DEF EndWriteback, TypeOK, Calls
  <2>2. Good(target) \in BOOLEAN
    BY DEF Good
  <2> QED
    BY <1>0, <1>1, <1>6, <2>1, <2>2 DEF EndWriteback, LastMagic, Settle, TypeOK
<1>7. CASE UpdateCopy
  BY <1>0, <1>7 DEF UpdateCopy, TypeOK
<1> QED
  BY <1>2, <1>3, <1>4, <1>5, <1>6, <1>7

LEMMA FailureType == TypeOK /\ (UpdateFails \/ WriteFails) => TypeOK'
<1> SUFFICES ASSUME TypeOK, UpdateFails \/ WriteFails
             PROVE  TypeOK'
  OBVIOUS
<1>0. flash' \in [Copies -> Table]
  BY FlashStepType DEF UpdateFails, WriteFails
<1>1. WithMagic(cpb) \in Table /\ WithoutMagic(cpb) \in Table
  BY TableFacts DEF TypeOK
<1>2. CASE UpdateFails
  BY <1>0, <1>2 DEF UpdateFails, TypeOK, memory, Calls
<1>3. CASE WriteFails
  BY <1>0, <1>1, <1>3, EndsType DEF WriteFails, TypeOK
<1> QED
  BY <1>2, <1>3

\* Starting to write a table to both copies.
LEMMA WriteBothType ==
  ASSUME TypeOK, NEW t \in Table,
         NEW function \in {"update_cpb", "writeback_cpb"}, NEW step \in {"write", "erase"},
         WriteBoth(t, function, step)
  PROVE  /\ cpb' \in Table /\ target' \in Table /\ todo' \in SUBSET Copies
         /\ job' \in {"none", "load_cpb", "writeback_cpb", "update_cpb"}
         /\ pc' \in {"write", "erase"}
BY DEF WriteBoth

LEMMA PriorityType == TypeOK /\ (PriorityRemove \/ PriorityAdd) => TypeOK'
<1> SUFFICES ASSUME TypeOK, PriorityRemove \/ PriorityAdd
             PROVE  TypeOK'
  OBVIOUS
<1> USE DEF durable, memory, history
<1>0. \A s, w : w \in Word => [cpb EXCEPT ![s] = w] \in Table
  BY DEF TypeOK, Table
<1>1. call.ptr \in Word /\ Spent \in Word
  BY DEF TypeOK, Calls, Word, Spent
<1>2. CASE PriorityRemove
  BY <1>0, <1>1, <1>2, WriteBothType DEF PriorityRemove, TypeOK
<1>3. CASE PriorityAddInPlace
  BY <1>0, <1>1, <1>3, WriteBothType DEF PriorityAddInPlace, TypeOK
<1>4. CASE PriorityAddCompressed
  BY <1>1, <1>4, CompressedType, WriteBothType DEF PriorityAddCompressed, TypeOK
<1>5. CASE PriorityAddFull
  BY <1>5, EndsType DEF PriorityAddFull, TypeOK
<1> QED
  BY <1>2, <1>3, <1>4, <1>5 DEF PriorityAdd

LEMMA ApiType == TypeOK /\ Api => TypeOK'
<1> SUFFICES ASSUME TypeOK, Api
             PROVE  TypeOK'
  OBVIOUS
<1> USE DEF durable, memory, history
<1>0. \A op \in Ops, p \in Offsets \cup {Spent}, next \in {"add", "ok", "fail"} :
        Request(op, p, next) => call' \in Calls
  BY DEF Request, Calls
<1>1. CASE Open
  BY <1>0, <1>1, TableFacts DEF Open, TypeOK, Ops
<1>2. ASSUME NEW p \in Offsets,
             Enable(p) \/ Disable(p) \/ ProgramSlot(p) \/ ProgramCallback(p)
      PROVE  TypeOK'
  <2>1. PICK op \in Ops, next \in {"add", "ok"}, step \in {"remove", "add"} :
          Begin(op, p, next, step)
    BY <1>2 DEF Enable, Disable, ProgramSlot, ProgramCallback, Ops
  <2>2. call' \in Calls
    BY <1>0, <2>1 DEF Begin
  <2>3. UNCHANGED <<committed, target, interrupted>> /\ trusted' \in BOOLEAN
    BY <1>2 DEF Enable, Disable, ProgramSlot, ProgramCallback, TypeOK
  <2> QED
    BY <2>1, <2>2, <2>3 DEF Begin, TypeOK
<1>3. ASSUME NEW op \in {"empty", "restore"}, NEW t \in Table, Replace(op, t)
      PROVE  TypeOK'
  <2>1. call' \in Calls
    BY <1>0, <1>3 DEF Replace, Ops
  <2>2. Good(t) \in BOOLEAN
    BY DEF Good
  <2> QED
    BY <1>3, <2>1, <2>2, WriteBothType DEF Replace, TypeOK
<1> QED
  BY <1>1, <1>2, <1>3, TableFacts DEF Api, CreateEmpty, Restore

LEMMA StopType == TypeOK /\ (Stop \/ PowerCycle) => TypeOK'
<1> SUFFICES ASSUME TypeOK, Stop \/ PowerCycle
             PROVE  TypeOK'
  OBVIOUS
<1>1. call' \in Calls
  BY DEF Stop, PowerCycle, Down, Request, Calls, Ops
<1>2. flash' \in [Copies -> Table]
  BY FlashStepType DEF Stop, PowerCycle, durable, TypeOK
<1>3. fw' \in {"ok", "cpb0", "both"}
  BY DEF Stop, PowerCycle, BootReports, durable, TypeOK
<1>4. interrupted' \in BOOLEAN
  BY DEF Stop, PowerCycle, Down, InFlight, TypeOK
<1> QED
  BY <1>1, <1>2, <1>3, <1>4, TableFacts DEF Stop, PowerCycle, Down, TypeOK

LEMMA NextType == TypeOK /\ [Next]_vars => TypeOK'
<1> SUFFICES ASSUME TypeOK, [Next]_vars
             PROVE  TypeOK'
  OBVIOUS
<1>1. CASE Step
  BY <1>1, LoadCpbType, WriteStepType, FailureType, PriorityType DEF Step
<1>2. CASE UNCHANGED vars
  BY <1>2 DEF vars, TypeOK
<1> QED
  BY <1>1, <1>2, ApiType, StopType DEF Next

\* The variables keep their types.
THEOREM TypeCorrect == Spec => []TypeOK
BY InitType, NextType, PTL DEF Spec

-----------------------------------------------------------------------------
(* What the flash operations leave, when they are done in the right order *)

LEMMA ProgramErased ==
  ASSUME NEW t \in Table
  PROVE  Program(ErasedTable, t) = t
<1>1. \A x \in Cells : Erased \cap t[x] = t[x]
  BY DEF Table, Word, Erased
<1> QED
  BY <1>1 DEF Program, ErasedTable, Table

LEMMA ProgramFewerBits ==
  ASSUME NEW old \in Table, NEW t \in Table, \A x \in Cells : t[x] \subseteq old[x]
  PROVE  Program(old, t) = t
<1>1. \A x \in Cells : old[x] \cap t[x] = t[x]
  OBVIOUS
<1> QED
  BY <1>1 DEF Program, Table

LEMMA HeaderInCells == Header \in Cells /\ Header \notin Slots /\ Slots \subseteq Cells
BY DEF Header, Cells, Slots

LEMMA MagicFacts ==
  ASSUME NEW t \in Table
  PROVE  /\ WithMagic(t)[Header] = Magic
         /\ t[Header] = Magic => WithMagic(t) = t
         /\ WithMagic(WithMagic(t)) = WithMagic(t)
         /\ WithMagic(WithoutMagic(t)) = WithMagic(t)
         /\ WithoutMagic(WithMagic(t)) = WithoutMagic(t)
         /\ ~ Good(WithoutMagic(t))
         /\ ~ Good(ErasedTable)
BY HeaderInCells DEF WithMagic, WithoutMagic, Table, Good, ErasedTable

\* Writing the magic number last completes the table.
LEMMA ProgramMagic ==
  ASSUME NEW t \in Table, t[Header] = Magic
  PROVE  Program(WithoutMagic(t), WithMagic(ErasedTable)) = t
<1>1. \A x \in Cells : WithoutMagic(t)[x] \cap WithMagic(ErasedTable)[x] = t[x]
  <2> TAKE x \in Cells
  <2>1. CASE x = Header
    BY <2>1 DEF WithoutMagic, WithMagic, ErasedTable, Table, Word, Erased
  <2>2. CASE x # Header
    BY <2>2 DEF WithoutMagic, WithMagic, ErasedTable, Table, Word, Erased
  <2> QED
    BY <2>1, <2>2
<1> QED
  BY <1>1 DEF Program, WithoutMagic, Table

-----------------------------------------------------------------------------
(* Updates keep a good table good *)

LEMMA SpendGood ==
  ASSUME NEW t \in Table, Good(t), NEW s \in Slots
  PROVE  /\ Good([t EXCEPT ![s] = Spent])
         /\ \A x \in Cells : [t EXCEPT ![s] = Spent][x] \subseteq t[x]
BY HeaderInCells DEF Good, Table, Spent

LEMMA AddGood ==
  ASSUME NEW t \in Table, Good(t), NEW s \in Slots, t[s] = Erased, NEW p \in Offsets
  PROVE  /\ Good([t EXCEPT ![s] = p])
         /\ \A x \in Cells : [t EXCEPT ![s] = p][x] \subseteq t[x]
<1>1. p \subseteq Erased
  BY DEF Word, Erased
<1> QED
  BY <1>1, HeaderInCells DEF Good, Table

LEMMA CompressedGood ==
  ASSUME NEW t \in Table, Good(t), NEW p \in Offsets
  PROVE  Good(Compressed(t, p))
<1>1. Compressed(t, p)[Header] = Magic
  BY HeaderInCells DEF Compressed, CompressedEntry, Good
<1>2. ASSUME NEW s \in Slots
      PROVE  Compressed(t, p)[s] \in Offsets \cup {Erased, Spent}
  <2>0. s \in Cells /\ s # Header
    BY HeaderInCells
  <2>1. CASE \E r \in LiveSlots(t) : Rank(t, r) = s
    <3>1. (CHOOSE r \in LiveSlots(t) : Rank(t, r) = s) \in LiveSlots(t)
      BY <2>1
    <3>2. \A r \in LiveSlots(t) : t[r] \in Offsets \cup {Erased, Spent}
      BY DEF LiveSlots, Good
    <3> QED
      BY <2>0, <2>1, <3>1, <3>2 DEF Compressed, CompressedEntry
  <2>2. CASE ~ \E r \in LiveSlots(t) : Rank(t, r) = s
    BY <2>0, <2>2 DEF Compressed, CompressedEntry
  <2> QED
    BY <2>1, <2>2
<1> QED
  BY <1>1, <1>2 DEF Good

-----------------------------------------------------------------------------
(* The invariant holds at the start *)

LEMMA EmptyGood == Good(EmptyTable)
BY HeaderInCells DEF Good, EmptyTable

LEMMA InitInvariant == Init => IInv
<1> SUFFICES ASSUME Init
             PROVE  IInv
  OBVIOUS
<1>1. TypeOK
  BY InitType
<1>2. GoodHistory /\ Recoverable
  BY EmptyGood DEF Init, GoodHistory, Recoverable, Copies
<1>3. Whole /\ Updating /\ WritingBack /\ WritingBackSafely /\ Repairing /\ Control
  BY DEF Init, Whole, Updating, WritingBack, WritingBackSafely, Repairing, Control,
         Idle, Rewriting
<1> QED
  BY <1>1, <1>2, <1>3 DEF IInv

-----------------------------------------------------------------------------
(* load_cpb *)

\* What two good copies, or the only good one, can be.
LEMMA Readable ==
  ASSUME IInv, trusted
  PROVE  /\ \A c \in Copies : Passes({}) = {c} => flash[c] \in {committed, target}
         /\ (Passes({}) = Copies /\ flash[0] = flash[1]) => flash[0] \in {committed, target}
<1>1. PICK s \in Copies : flash[s] \in {committed, target}
  BY DEF IInv, Recoverable
<1>2. Good(flash[s])
  BY <1>1 DEF IInv, GoodHistory
<1>3. (Passes({}) = Copies /\ flash[0] = flash[1]) => flash[0] \in {committed, target}
  BY <1>1 DEF Copies
<1>4. ASSUME NEW c \in Copies, Passes({}) = {c}
      PROVE  flash[c] \in {committed, target}
  <2>1. CASE s = c
    BY <1>1, <2>1
  <2>2. CASE s # c
    <3>1. s = 0 /\ Skip0 /\ c = 1 /\ Good(flash[1])
      BY <1>2, <1>4, <2>2 DEF Passes, Copies
    <3> QED
      BY <3>1 DEF Skip0, IInv, Recoverable
  <2> QED
    BY <2>1, <2>2
<1> QED
  BY <1>3, <1>4


\* A step that touches neither flash nor the history and ends outside a write: what
\* is left to show is that a caller is not served.
LEMMA Returned ==
  ASSUME IInv, TypeOK', Control', UNCHANGED <<flash, fw, committed, target>>,
         trusted' => trusted,
         pc' \in {"down", "check"} \/ (pc' = "idle" /\ (corrupted' \/ ~trusted'))
  PROVE  IInv'
<1>1. GoodHistory' /\ Recoverable'
  BY DEF IInv, GoodHistory, Recoverable, Good
<1>2. Whole' /\ Updating' /\ WritingBack' /\ WritingBackSafely' /\ Repairing'
  BY DEF Whole, Updating, WritingBack, WritingBackSafely, Repairing, Idle, Rewriting
<1> QED
  BY <1>1, <1>2 DEF IInv

LEMMA LoadRepairInvariant ==
  ASSUME IInv, TypeOK', NEW unread, LoadRepair(unread)
  PROVE  IInv'
<1> USE DEF durable
<1>1. PICK c \in Copies : /\ Passes(unread) = {c}
                          /\ cpb' = flash[c]
                          /\ Settle(flash[c])
                          /\ todo' = {Other(c)}
  BY DEF LoadRepair
<1>2. Good(flash[c]) /\ (c = 0 => ~Skip0)
  BY <1>1 DEF Passes
<1>3. flash[c] \in Table /\ committed' = flash[c] /\ target' = flash[c]
  BY <1>1 DEF IInv, TypeOK, Settle
<1>4. GoodHistory'
  BY <1>2, <1>3 DEF GoodHistory, Good
<1>5. Recoverable'
  <2>1. (trusted' /\ fw = "cpb0" /\ Good(flash[1])) => c = 1
    <3> SUFFICES ASSUME trusted', fw = "cpb0", Good(flash[1]), c = 0
                 PROVE  FALSE
      BY DEF Copies
    <3>1. unread = {} /\ 1 \in Copies
      BY DEF LoadRepair, Copies
    <3>2. 1 \in Passes(unread)
      BY <3>1 DEF Passes
    <3> QED
      BY <1>1, <3>2
  <2>2. flash' = flash /\ fw' = fw
    BY DEF LoadRepair
  <2>3. Good(flash[1])' <=> Good(flash[1])
    BY <2>2 DEF Good
  <2> QED
    BY <1>3, <2>1, <2>2, <2>3 DEF Recoverable
<1>6. Repairing'
  <2>1. WithMagic(cpb') = target'
    BY <1>1, <1>2, <1>3, MagicFacts DEF Good
  <2>2. Other(c) \in Copies /\ Other(Other(c)) = c /\ (Other(c) = 1 => c = 0)
    BY CopiesFacts DEF Copies, Other
  <2>3. (c = 0 /\ call.op = "open") => fw # "cpb0"
    BY <1>2 DEF Skip0, IInv, Control
  <2>4. pc' = "erase" /\ flash' = flash /\ fw' = fw /\ call' = call
    BY DEF LoadRepair
  <2> QED
    BY <1>1, <1>3, <2>1, <2>2, <2>3, <2>4 DEF Repairing, RewrittenCopy
<1>7. Whole' /\ Updating' /\ WritingBack' /\ WritingBackSafely' /\ Control'
  BY DEF LoadRepair, Whole, Updating, WritingBack, WritingBackSafely, Control, Idle,
         Rewriting, IInv
<1> QED
  BY <1>4, <1>5, <1>6, <1>7 DEF IInv

LEMMA LoadMatchedInvariant ==
  ASSUME IInv, TypeOK', LoadMatched
  PROVE  IInv'
<1> USE DEF durable
<1>1. /\ flash' = flash /\ fw' = fw /\ cpb' = flash[0]
      /\ committed' = flash[0] /\ target' = flash[0]
      /\ flash[0] = flash[1] /\ pc' \in {"idle", "add"}
  BY DEF LoadMatched, Settle, Proceed
<1>2. Good(flash[0])
  BY DEF LoadMatched, Passes, Copies
<1>3. GoodHistory' /\ Recoverable' /\ Whole'
  BY <1>1, <1>2 DEF GoodHistory, Recoverable, Whole, Good, Copies
<1>4. Control'
  BY DEF LoadMatched, Proceed, Control, IInv, TypeOK, Calls, Rewriting
<1>5. Updating' /\ WritingBack' /\ WritingBackSafely' /\ Repairing'
  BY <1>1 DEF Updating, WritingBack, WritingBackSafely, Repairing, Rewriting
<1> QED
  BY <1>3, <1>4, <1>5 DEF IInv

LEMMA LoadCpbInvariant == IInv /\ LoadCpb => IInv'
<1> SUFFICES ASSUME IInv, LoadCpb
             PROVE  IInv'
  OBVIOUS
<1>0. TypeOK'
  BY LoadCpbType DEF IInv
<1> USE DEF history, durable
<1>1. CASE LoadRefused
  <2>1. Control'
    BY <1>1 DEF LoadRefused, ReportCorrupted, Control, IInv, TypeOK, Calls, Rewriting
  <2> QED
    BY <1>0, <1>1, <2>1, Returned DEF LoadRefused, ReportCorrupted
<1>2. CASE LoadMatched
  BY <1>0, <1>2, LoadMatchedInvariant
<1>3. CASE LoadUnmatched
  <2>1. Control'
    BY <1>3 DEF LoadUnmatched, ReportCorrupted, Control, IInv, TypeOK, Calls, Rewriting
  <2> QED
    BY <1>0, <1>3, <2>1, Returned DEF LoadUnmatched, ReportCorrupted
<1>4. ASSUME NEW unread, LoadRepair(unread)
      PROVE  IInv'
  BY <1>0, <1>4, LoadRepairInvariant
<1>5. ASSUME NEW unread, LoadReadFails(unread)
      PROVE  IInv'
  <2>1. Control'
    BY <1>5 DEF LoadReadFails, Abort, Control, IInv, TypeOK, Calls, Rewriting
  <2> QED
    BY <1>0, <1>5, <2>1, Returned DEF LoadReadFails, Abort
<1>6. ASSUME NEW unread, LoadNone(unread)
      PROVE  IInv'
  <2>1. Control'
    BY <1>6 DEF LoadNone, ReportCorrupted, Control, IInv, TypeOK, Calls, Rewriting
  <2> QED
    BY <1>0, <1>6, <2>1, Returned DEF LoadNone, ReportCorrupted
<1> QED
  BY <1>1, <1>2, <1>3, <1>4, <1>5, <1>6 DEF LoadCpb


-----------------------------------------------------------------------------
(* Flash operations *)

\* While one copy is written the other one holds the old or the new table.
LEMMA OtherCopyIntact ==
  ASSUME IInv, trusted, InFlight
  PROVE  /\ flash[Other(Copy)] \in {committed, target}
         /\ Good(flash[Other(Copy)])
<1>1. flash[Other(Copy)] \in {committed, target}
  <2>1. CASE pc = "write"
    <3>1. CASE todo = Copies
      BY <2>1, <3>1, CopiesFacts DEF IInv, Updating, Copy
    <3>2. CASE todo # Copies
      BY <2>1, <3>2, CopiesFacts DEF IInv, Updating, Copy
    <3> QED
      BY <3>1, <3>2
  <2>2. CASE Rewriting /\ job = "writeback_cpb"
    <3>1. CASE todo = Copies
      BY <2>2, <3>1, CopiesFacts DEF IInv, WritingBackSafely, Copy
    <3>2. CASE todo # Copies
      BY <2>2, <3>2, CopiesFacts DEF IInv, WritingBack, Copy
    <3> QED
      BY <3>1, <3>2
  <2>3. CASE Rewriting /\ job = "load_cpb"
    <3>1. PICK c \in Copies : todo = {c} /\ flash[Other(c)] = committed
      BY <2>3 DEF IInv, Repairing
    <3>2. Copy = c
      BY <3>1, CopiesFacts DEF Copy
    <3> QED
      BY <3>1, <3>2
  <2> QED
    BY <2>1, <2>2, <2>3 DEF InFlight, Rewriting, IInv, Control
<1> QED
  BY <1>1 DEF IInv, GoodHistory

\* A flash operation, done or torn, that leaves the copy it writes bad, or the new
\* table, or is over when the firmware reported nothing about CPB0.
LEMMA StaysRecoverable ==
  ASSUME IInv, TypeOK', InFlight, trusted' => trusted,
         UNCHANGED <<fw, committed, target>>,
         flash' = [flash EXCEPT ![Copy] = flash'[Copy]],
         (trusted' /\ fw = "cpb0" /\ Copy = 1 /\ Good(flash'[1]))
            => flash'[1] \in {committed, target}
  PROVE  Recoverable'
<1> SUFFICES ASSUME trusted'
             PROVE  Recoverable'
  BY DEF Recoverable
<1>1. Copy \in Copies /\ Other(Copy) \in Copies /\ Other(Copy) # Copy
  BY CopiesFacts DEF Copy
<1>2. flash'[Other(Copy)] = flash[Other(Copy)]
  BY <1>1 DEF IInv, TypeOK
<1>3. flash'[Other(Copy)] \in {committed, target}
  BY <1>2, OtherCopyIntact
<1>4. (fw = "cpb0" /\ Good(flash'[1])) => flash'[1] \in {committed, target}
  <2>1. CASE Copy = 1
    BY <2>1
  <2>2. CASE Copy # 1
    BY <2>2, <1>1, <1>3 DEF Copies, Other
  <2> QED
    BY <2>1, <2>2
<1>5. Good(flash[1])' <=> Good(flash'[1])
  BY DEF Good
<1> QED
  BY <1>1, <1>3, <1>4, <1>5 DEF Recoverable

\* What is unchanged while the flash operations of a function are under way.
LEMMA HistoryKept ==
  ASSUME IInv, UNCHANGED <<committed, target, trusted>>
  PROVE  GoodHistory'
BY DEF IInv, GoodHistory, Good

LEMMA EraseCopyInvariant == IInv /\ EraseCopy => IInv'
<1> SUFFICES ASSUME IInv, EraseCopy
             PROVE  IInv'
  OBVIOUS
<1> USE DEF memory, history
<1>0. TypeOK'
  BY WriteStepType DEF IInv
<1>1. /\ pc = "erase" /\ pc' = "body"
      /\ UNCHANGED <<fw, cpb, corrupted, fixed, job, todo, call, committed, target,
                     trusted>>
  BY DEF EraseCopy
<1>2. Copy \in Copies /\ Copy' = Copy
  BY <1>1, CopiesFacts DEF Copy
<1>3. flash' = [flash EXCEPT ![Copy] = ErasedTable]
  BY <1>1, <1>2, EraseType DEF EraseCopy, Outcome, IInv, TypeOK
<1>4. /\ flash'[Copy] = ErasedTable
      /\ \A c \in Copies : c # Copy => flash'[c] = flash[c]
  BY <1>2, <1>3 DEF IInv, TypeOK
<1>5. GoodHistory'
  BY <1>1, HistoryKept
<1>6. Recoverable'
  <2>1. ~ Good(flash'[Copy])
    BY <1>4, MagicFacts, TableFacts
  <2> QED
    BY <1>0, <1>1, <1>3, <1>4, <2>1, StaysRecoverable DEF InFlight
<1>7. RewrittenCopy'
  BY <1>1, <1>2, <1>4 DEF RewrittenCopy
<1>8. WritingBack' /\ WritingBackSafely'
  <2> SUFFICES ASSUME job = "writeback_cpb", trusted \/ call.op \in {"empty", "restore"}
               PROVE  WritingBack' /\ WritingBackSafely'
    BY <1>1 DEF WritingBack, WritingBackSafely
  <2>1. /\ WithMagic(cpb) = target
        /\ todo # Copies => todo = {Other(First)} /\ flash[First] = target
        /\ (trusted /\ todo = Copies) => flash[Other(First)] = committed
    BY <1>1 DEF IInv, WritingBack, WritingBackSafely, Rewriting
  <2>2. todo # Copies => flash'[First] = target
    BY <1>4, <2>1, CopiesFacts DEF Copy
  <2>3. (trusted /\ todo = Copies) => flash'[Other(First)] = committed
    BY <1>4, <2>1, CopiesFacts DEF Copy
  <2> QED
    BY <1>1, <1>7, <2>1, <2>2, <2>3 DEF WritingBack, WritingBackSafely, WithMagic
<1>9. Repairing'
  <2> SUFFICES ASSUME job = "load_cpb", trusted
               PROVE  Repairing'
    BY <1>1 DEF Repairing
  <2>1. PICK c \in Copies : /\ todo = {c}
                            /\ flash[Other(c)] = committed
                            /\ (c = 1 /\ call.op = "open") => fw # "cpb0"
    BY <1>1 DEF IInv, Repairing, Rewriting
  <2>2. Copy = c /\ flash'[Other(c)] = committed
    BY <1>4, <2>1, CopiesFacts DEF Copy
  <2>3. WithMagic(cpb) = target /\ committed = target
    BY <1>1 DEF IInv, Repairing, Rewriting
  <2> QED
    BY <1>1, <1>7, <2>1, <2>2, <2>3 DEF Repairing, WithMagic
<1>10. Whole' /\ Updating' /\ Control'
  BY <1>1 DEF Whole, Updating, Control, Idle, Rewriting, IInv
<1> QED
  BY <1>0, <1>5, <1>6, <1>8, <1>9, <1>10 DEF IInv


\* The copy being rewritten, when the invariant says what it holds.
LEMMA WriteBodyResult ==
  ASSUME IInv, WriteBody, job \in {"writeback_cpb", "load_cpb"},
         trusted \/ (job = "writeback_cpb" /\ call.op \in {"empty", "restore"})
  PROVE  /\ WithMagic(cpb') = target
         /\ flash'[Copy] = WithoutMagic(target)
         /\ ~ Good(flash'[Copy])
<1>1. cpb \in Table /\ pc = "body" /\ Copy \in Copies
  BY CopiesFacts DEF WriteBody, IInv, TypeOK, Copy
<1>2. WithMagic(cpb) = target /\ flash[Copy] = ErasedTable
  BY <1>1 DEF IInv, WritingBack, Repairing, Rewriting, RewrittenCopy
<1>3. flash'[Copy] = WithoutMagic(cpb)
  <2>1. flash'[Copy] = Program(ErasedTable, WithoutMagic(cpb))
    BY <1>1, <1>2 DEF WriteBody, Outcome, Written, IInv, TypeOK
  <2> QED
    BY <1>1, <2>1, TableFacts, ProgramErased
<1>4. WithoutMagic(cpb) = WithoutMagic(target)
  BY <1>1, <1>2, MagicFacts
<1>5. WithMagic(cpb') = target
  BY <1>1, <1>2, MagicFacts DEF WriteBody
<1> QED
  BY <1>1, <1>3, <1>4, <1>5, MagicFacts

LEMMA WriteBodyInvariant == IInv /\ WriteBody => IInv'
<1> SUFFICES ASSUME IInv, WriteBody
             PROVE  IInv'
  OBVIOUS
<1> USE DEF history
<1>0. TypeOK'
  BY WriteStepType DEF IInv
<1>1. /\ pc = "body" /\ pc' = "magic"
      /\ UNCHANGED <<fw, corrupted, fixed, job, todo, call, committed, target, trusted>>
      /\ job \in {"writeback_cpb", "load_cpb"}
  BY DEF WriteBody, IInv, Control, Rewriting
<1>2. Copy \in Copies /\ Copy' = Copy
  BY <1>1, CopiesFacts DEF Copy
<1>3. flash' = [flash EXCEPT ![Copy] = flash'[Copy]]
  BY <1>2 DEF WriteBody, IInv, TypeOK
<1>4. \A c \in Copies : c # Copy => flash'[c] = flash[c]
  BY <1>2 DEF WriteBody, IInv, TypeOK
<1>5. GoodHistory'
  BY <1>1, HistoryKept
<1>6. Recoverable'
  <2>1. trusted => ~ Good(flash'[Copy])
    BY <1>1, WriteBodyResult
  <2> QED
    BY <1>0, <1>1, <1>3, <2>1, StaysRecoverable DEF InFlight
<1>7. WritingBack' /\ WritingBackSafely'
  <2> SUFFICES ASSUME job = "writeback_cpb", trusted \/ call.op \in {"empty", "restore"}
               PROVE  WritingBack' /\ WritingBackSafely'
    BY <1>1 DEF WritingBack, WritingBackSafely
  <2>1. /\ todo # Copies => todo = {Other(First)} /\ flash[First] = target
        /\ (trusted /\ todo = Copies) => flash[Other(First)] = committed
    BY <1>1 DEF IInv, WritingBack, WritingBackSafely, Rewriting
  <2>2. todo # Copies => flash'[First] = target
    BY <1>4, <2>1, CopiesFacts DEF Copy
  <2>3. (trusted /\ todo = Copies) => flash'[Other(First)] = committed
    BY <1>4, <2>1, CopiesFacts DEF Copy
  <2>4. WithMagic(cpb') = target /\ flash'[Copy] = WithoutMagic(target)
    BY <1>1, WriteBodyResult
  <2> QED
    BY <1>1, <1>2, <2>1, <2>2, <2>3, <2>4
       DEF WritingBack, WritingBackSafely, WithMagic, WithoutMagic, RewrittenCopy
<1>8. Repairing'
  <2> SUFFICES ASSUME job = "load_cpb", trusted
               PROVE  Repairing'
    BY <1>1 DEF Repairing
  <2>1. PICK c \in Copies : /\ todo = {c}
                            /\ flash[Other(c)] = committed
                            /\ (c = 1 /\ call.op = "open") => fw # "cpb0"
    BY <1>1 DEF IInv, Repairing, Rewriting
  <2>2. Copy = c /\ flash'[Other(c)] = committed
    BY <1>4, <2>1, CopiesFacts DEF Copy
  <2>3. WithMagic(cpb') = target /\ flash'[Copy] = WithoutMagic(target)
    BY <1>1, WriteBodyResult
  <2>4. committed = target
    BY <1>1 DEF IInv, Repairing, Rewriting
  <2> QED
    BY <1>1, <1>2, <2>1, <2>2, <2>3, <2>4
       DEF Repairing, WithMagic, WithoutMagic, RewrittenCopy
<1>9. Whole' /\ Updating' /\ Control'
  BY <1>1 DEF Whole, Updating, Control, Idle, Rewriting, IInv
<1> QED
  BY <1>0, <1>5, <1>6, <1>7, <1>8, <1>9 DEF IInv

\* The write of the magic number completes the copy.
LEMMA MagicResult ==
  ASSUME IInv, pc = "magic", flash' = [flash EXCEPT ![Copy] = Outcome(@)],
         job \in {"writeback_cpb", "load_cpb"},
         trusted \/ (job = "writeback_cpb" /\ call.op \in {"empty", "restore"})
  PROVE  /\ WithMagic(cpb) = target
         /\ flash'[Copy] = target
<1>1. cpb \in Table /\ target \in Table /\ Copy \in Copies
  BY CopiesFacts DEF IInv, TypeOK, Copy
<1>2. WithMagic(cpb) = target /\ flash[Copy] = WithoutMagic(target)
  BY <1>1 DEF IInv, WritingBack, Repairing, Rewriting, RewrittenCopy
<1>3. target[Header] = Magic
  BY <1>1, <1>2, MagicFacts
<1>4. flash'[Copy] = Program(WithoutMagic(target), WithMagic(ErasedTable))
  BY <1>1, <1>2 DEF Outcome, Written, IInv, TypeOK
<1> QED
  BY <1>1, <1>2, <1>3, <1>4, ProgramMagic

LEMMA WriteMagicInvariant == IInv /\ WriteMagic => IInv'
<1> SUFFICES ASSUME IInv, WriteMagic
             PROVE  IInv'
  OBVIOUS
<1> USE DEF history
<1>0. TypeOK'
  BY WriteStepType DEF IInv
<1>1. /\ pc = "magic" /\ pc' = "erase" /\ cpb' = WithMagic(cpb)
      /\ UNCHANGED <<fw, corrupted, fixed, job, call, committed, target, trusted>>
      /\ job \in {"writeback_cpb", "load_cpb"}
  BY DEF WriteMagic, IInv, Control, Rewriting
<1>2. /\ todo = Copies /\ Copy = First /\ todo' = {Other(First)}
      /\ Copy' = Other(First) /\ Other(First) # First /\ First \in Copies
  BY CopiesFacts DEF WriteMagic, Copy
<1>3. /\ flash' = [flash EXCEPT ![Copy] = flash'[Copy]]
      /\ flash'[Other(First)] = flash[Other(First)]
  BY <1>2, CopiesFacts DEF WriteMagic, IInv, TypeOK
<1>4. GoodHistory'
  BY <1>1, HistoryKept
<1>5. Recoverable'
  <2>1. trusted => flash'[Copy] = target
    BY <1>1, MagicResult DEF WriteMagic
  <2> QED
    BY <1>0, <1>1, <1>3, <2>1, StaysRecoverable DEF InFlight
<1>6. WritingBack' /\ WritingBackSafely'
  <2> SUFFICES ASSUME job = "writeback_cpb", trusted \/ call.op \in {"empty", "restore"}
               PROVE  WritingBack' /\ WritingBackSafely'
    BY <1>1 DEF WritingBack, WritingBackSafely
  <2>1. WithMagic(cpb) = target /\ flash'[First] = target
    BY <1>1, <1>2, MagicResult DEF WriteMagic
  <2>2. WithMagic(cpb') = target
    BY <1>1, <2>1, MagicFacts DEF IInv, TypeOK
  <2>3. trusted => flash'[Other(First)] = committed
    BY <1>1, <1>2, <1>3 DEF IInv, WritingBackSafely, Rewriting
  <2>4. todo' # Copies
    BY <1>2
  <2> QED
    BY <1>1, <1>2, <2>1, <2>2, <2>3, <2>4
       DEF WritingBack, WritingBackSafely, WithMagic, RewrittenCopy
<1>7. Repairing'
  <2>1. ~ (trusted /\ job = "load_cpb")
    BY <1>1, <1>2, CopiesFacts DEF IInv, Repairing, Rewriting
  <2> QED
    BY <1>1, <2>1 DEF Repairing
<1>8. Whole' /\ Updating' /\ Control'
  BY <1>1 DEF Whole, Updating, Control, Idle, Rewriting, IInv
<1> QED
  BY <1>0, <1>4, <1>5, <1>6, <1>7, <1>8 DEF IInv


LEMMA RepairEnds ==
  ASSUME IInv, EndRepair, trusted
  PROVE  /\ WithMagic(cpb) = target /\ committed = target
         /\ \A c \in Copies : flash'[c] = target
<1>1. /\ pc = "magic" /\ job = "load_cpb"
      /\ flash' = [flash EXCEPT ![Copy] = Outcome(@)]
  BY DEF EndRepair, LastMagic
<1>2. PICK c \in Copies : todo = {c} /\ flash[Other(c)] = committed
  BY <1>1 DEF IInv, Repairing, Rewriting
<1>3. Copy = c /\ Copies = {c, Other(c)} /\ Other(c) # c
  BY <1>2, CopiesFacts DEF Copy
<1>4. flash'[c] = target /\ WithMagic(cpb) = target /\ committed = target
  BY <1>1, <1>3, MagicResult DEF IInv, Repairing, Rewriting
<1>5. flash'[Other(c)] = committed
  BY <1>1, <1>2, <1>3 DEF IInv, TypeOK
<1> QED
  BY <1>3, <1>4, <1>5

LEMMA EndRepairInvariant == IInv /\ EndRepair => IInv'
<1> SUFFICES ASSUME IInv, EndRepair
             PROVE  IInv'
  OBVIOUS
<1>0. TypeOK'
  BY WriteStepType DEF IInv
<1>1. /\ pc = "magic" /\ job = "load_cpb" /\ pc' \in {"idle", "add"}
      /\ cpb' = WithMagic(cpb)
      /\ flash' = [flash EXCEPT ![Copy] = Outcome(@)]
      /\ UNCHANGED <<fw, committed, target, trusted>>
  BY DEF EndRepair, LastMagic, Proceed
<1>2. GoodHistory'
  BY <1>1, HistoryKept
<1>3. Whole' /\ Recoverable'
  <2> SUFFICES ASSUME trusted
               PROVE  Whole' /\ Recoverable'
    BY <1>1 DEF Whole, Recoverable
  <2>1. /\ WithMagic(cpb) = target /\ committed = target
        /\ \A c \in Copies : flash'[c] = target
    BY RepairEnds
  <2> QED
    BY <1>1, <2>1 DEF Whole, Recoverable, Copies
<1>4. Control'
  BY DEF EndRepair, LastMagic, Proceed, Control, IInv, TypeOK, Calls, Rewriting
<1>5. Updating' /\ WritingBack' /\ WritingBackSafely' /\ Repairing'
  BY <1>1 DEF Updating, WritingBack, WritingBackSafely, Repairing, Rewriting
<1> QED
  BY <1>0, <1>2, <1>3, <1>4, <1>5 DEF IInv

LEMMA WritebackEnds ==
  ASSUME IInv, EndWriteback, trusted \/ call.op \in {"empty", "restore"}
  PROVE  WithMagic(cpb) = target /\ \A c \in Copies : flash'[c] = target
<1>1. /\ pc = "magic" /\ job = "writeback_cpb" /\ todo # Copies
      /\ flash' = [flash EXCEPT ![Copy] = Outcome(@)]
  BY DEF EndWriteback, LastMagic
<1>2. todo = {Other(First)} /\ flash[First] = target
  BY <1>1 DEF IInv, WritingBack, Rewriting
<1>3. Copy = Other(First) /\ Copies = {First, Other(First)} /\ Other(First) # First
  BY <1>2, CopiesFacts DEF Copy
<1>4. WithMagic(cpb) = target /\ flash'[Other(First)] = target
  BY <1>1, <1>3, MagicResult
<1>5. flash'[First] = target
  BY <1>1, <1>2, <1>3 DEF IInv, TypeOK
<1> QED
  BY <1>3, <1>4, <1>5

LEMMA EndWritebackInvariant == IInv /\ EndWriteback => IInv'
<1> SUFFICES ASSUME IInv, EndWriteback
             PROVE  IInv'
  OBVIOUS
<1> USE DEF history
<1>0. TypeOK'
  BY WriteStepType DEF IInv
<1>1. /\ pc = "magic" /\ job = "writeback_cpb" /\ pc' \in {"idle", "check"}
      /\ cpb' = WithMagic(cpb) /\ todo # Copies
      /\ flash' = [flash EXCEPT ![Copy] = Outcome(@)]
      /\ target' = target /\ fw' = fw
  BY DEF EndWriteback, LastMagic, Settle
<1>2. Updating' /\ WritingBack' /\ WritingBackSafely' /\ Repairing'
  BY <1>1 DEF Updating, WritingBack, WritingBackSafely, Repairing, Rewriting
<1>3. (trusted \/ call.op \in {"empty", "restore"}) =>
        WithMagic(cpb) = target /\ \A c \in Copies : flash'[c] = target
  BY WritebackEnds
<1>4. CASE call.op \in {"empty", "restore"}
  <2>1. /\ committed' = target /\ trusted' = Good(target) /\ pc' = "idle"
        /\ call' = [call EXCEPT !.next = "ok"]
    BY <1>4 DEF EndWriteback, Settle
  <2>2. GoodHistory' /\ Recoverable' /\ Whole'
    BY <1>1, <1>3, <1>4, <2>1 DEF GoodHistory, Recoverable, Whole, Good, Copies
  <2>3. Control'
    BY <1>4, <2>1 DEF Control, IInv, TypeOK, Calls, Rewriting
  <2> QED
    BY <1>0, <1>2, <2>2, <2>3 DEF IInv
<1>5. CASE call.op \notin {"empty", "restore"}
  <2>1. pc' = "check" /\ UNCHANGED <<call, fixed, committed, trusted>>
    BY <1>5 DEF EndWriteback
  <2>2. GoodHistory' /\ Recoverable'
    BY <1>1, <1>3, <2>1, HistoryKept DEF Recoverable, Copies
  <2>3. Whole' /\ Control'
    BY <2>1 DEF Whole, Control, IInv, Idle, Rewriting
  <2> QED
    BY <1>0, <1>2, <2>2, <2>3 DEF IInv
<1> QED
  BY <1>4, <1>5

\* update_cpb writes the new table over the old one.
LEMMA UpdateWritten ==
  ASSUME IInv, UpdateCopy, trusted
  PROVE  /\ flash'[Copy] = target
         /\ \A c \in Copies : c # Copy => flash'[c] = flash[c]
<1>1. pc = "write" /\ flash' = [flash EXCEPT ![Copy] = Outcome(@)]
  BY DEF UpdateCopy
<1>2. Copy \in Copies
  BY CopiesFacts DEF Copy
<1>3. flash[Copy] = committed /\ target = cpb
  BY <1>1, <1>2, CopiesFacts DEF IInv, Updating, Copy
<1>4. flash'[Copy] = Program(committed, target)
  BY <1>1, <1>2, <1>3 DEF Outcome, Written, IInv, TypeOK
<1>5. \A x \in Cells : target[x] \subseteq committed[x]
  BY <1>1 DEF IInv, Updating
<1>6. flash'[Copy] = target
  BY <1>4, <1>5, ProgramFewerBits DEF IInv, TypeOK
<1> QED
  BY <1>1, <1>2, <1>6 DEF IInv, TypeOK

LEMMA UpdateCopyInvariant == IInv /\ UpdateCopy => IInv'
<1> SUFFICES ASSUME IInv, UpdateCopy
             PROVE  IInv'
  OBVIOUS
<1> USE DEF memory, history
<1>0. TypeOK'
  BY WriteStepType DEF IInv
<1>1. /\ pc = "write" /\ pc' = (IF todo = Copies THEN "write" ELSE "check")
      /\ flash' = [flash EXCEPT ![Copy] = Outcome(@)] /\ todo' = todo \ {Copy}
      /\ UNCHANGED <<fw, cpb, corrupted, fixed, job, call, committed, target, trusted>>
  BY DEF UpdateCopy
<1>2. Copy \in Copies
  BY CopiesFacts DEF Copy
<1>3. GoodHistory'
  BY <1>1, HistoryKept
<1>4. trusted => /\ flash'[Copy] = target
                 /\ \A c \in Copies : c # Copy => flash'[c] = flash[c]
  BY UpdateWritten
<1>5. Recoverable'
  <2>1. flash' = [flash EXCEPT ![Copy] = flash'[Copy]]
    BY <1>1, <1>2 DEF IInv, TypeOK
  <2> QED
    BY <1>0, <1>1, <1>4, <2>1, StaysRecoverable DEF InFlight
<1>6. Updating'
  <2> SUFFICES ASSUME trusted, todo = Copies
               PROVE  Updating'
    BY <1>1 DEF Updating
  <2>1. Copy = First /\ todo' = {Other(First)} /\ todo' # Copies
    BY <1>1, CopiesFacts DEF Copy
  <2>2. /\ target = cpb /\ \A x \in Cells : target[x] \subseteq committed[x]
        /\ flash[Other(First)] = committed
    BY <1>1, CopiesFacts DEF IInv, Updating
  <2>3. flash'[First] = target /\ flash'[Other(First)] = committed
    BY <1>4, <2>1, <2>2, CopiesFacts
  <2> QED
    BY <1>1, <2>1, <2>2, <2>3 DEF Updating
<1>7. /\ Whole' /\ Control' /\ WritingBack' /\ WritingBackSafely' /\ Repairing'
  BY <1>1 DEF Whole, Control, WritingBack, WritingBackSafely, Repairing, Idle,
              Rewriting, IInv
<1> QED
  BY <1>0, <1>3, <1>5, <1>6, <1>7 DEF IInv


-----------------------------------------------------------------------------
(* Errors *)

LEMMA UpdateFailsInvariant == IInv /\ UpdateFails => IInv'
<1> SUFFICES ASSUME IInv, UpdateFails
             PROVE  IInv'
  OBVIOUS
<1> USE DEF memory
<1>0. TypeOK'
  BY FailureType DEF IInv
<1>1. /\ pc = "write" /\ pc' = "check"
      /\ \E t \in TornOutcomes(flash[Copy]) : flash' = [flash EXCEPT ![Copy] = t]
      /\ call' = [call EXCEPT !.next = "fail"]
      /\ trusted' = (trusted /\ fw # "cpb0")
      /\ UNCHANGED <<fw, fixed, committed, target>>
  BY DEF UpdateFails
<1>2. GoodHistory'
  BY <1>1 DEF IInv, GoodHistory, Good
<1>3. Recoverable'
  <2>1. flash' = [flash EXCEPT ![Copy] = flash'[Copy]]
    <3>1. Copy \in Copies /\ flash = [c \in Copies |-> flash[c]]
      BY CopiesFacts DEF Copy, IInv, TypeOK
    <3>2. PICK t : flash' = [flash EXCEPT ![Copy] = t]
      BY <1>1
    <3> QED
      BY <3>1, <3>2
  <2> QED
    BY <1>0, <1>1, <2>1, StaysRecoverable DEF InFlight
<1>4. Control'
  BY <1>1 DEF Control, IInv, TypeOK, Calls, Rewriting
<1>5. /\ Whole' /\ Updating' /\ WritingBack' /\ WritingBackSafely' /\ Repairing'
  BY <1>1 DEF Whole, Updating, WritingBack, WritingBackSafely, Repairing, Idle, Rewriting
<1> QED
  BY <1>0, <1>2, <1>3, <1>4, <1>5 DEF IInv

\* Only librsu_init's repair may fail and leave a CPB to trust: then the library is
\* closed again.
LEMMA WriteFailsInvariant == IInv /\ WriteFails => IInv'
<1> SUFFICES ASSUME IInv, WriteFails
             PROVE  IInv'
  OBVIOUS
<1>0. TypeOK'
  BY FailureType DEF IInv
<1>1. /\ Rewriting /\ pc' = (IF call.op = "open" THEN "down" ELSE "idle")
      /\ \E t \in TornOutcomes(flash[Copy]) : flash' = [flash EXCEPT ![Copy] = t]
      /\ call' = [call EXCEPT !.next = "fail"]
      /\ trusted' = (trusted /\ call.op = "open")
      /\ UNCHANGED <<fw, fixed, committed, target>>
  BY DEF WriteFails, Abort, Rewriting
<1>2. GoodHistory'
  BY <1>1 DEF IInv, GoodHistory, Good
<1>3. Recoverable'
  <2>1. flash' = [flash EXCEPT ![Copy] = flash'[Copy]]
    <3>1. Copy \in Copies /\ flash = [c \in Copies |-> flash[c]]
      BY CopiesFacts DEF Copy, IInv, TypeOK
    <3>2. PICK t : flash' = [flash EXCEPT ![Copy] = t]
      BY <1>1
    <3> QED
      BY <3>1, <3>2
  <2>2. (trusted' /\ fw = "cpb0") => Copy # 1
    <3> SUFFICES ASSUME trusted', fw = "cpb0"
                 PROVE  Copy # 1
      OBVIOUS
    <3>1. job = "load_cpb"
      BY <1>1 DEF IInv, Control
    <3>2. PICK c \in Copies : todo = {c} /\ c # 1
      BY <1>1, <3>1 DEF IInv, Repairing
    <3> QED
      BY <3>2, CopiesFacts DEF Copy
  <2> QED
    BY <1>0, <1>1, <2>1, <2>2, StaysRecoverable DEF InFlight, Rewriting
<1>4. Control'
  BY <1>1 DEF Control, IInv, TypeOK, Calls, Rewriting
<1>5. Whole'
  BY <1>1 DEF Whole, Idle
<1>6. Updating' /\ WritingBack' /\ WritingBackSafely' /\ Repairing'
  BY <1>1 DEF Updating, WritingBack, WritingBackSafely, Repairing, Rewriting
<1> QED
  BY <1>0, <1>2, <1>3, <1>4, <1>5, <1>6 DEF IInv

-----------------------------------------------------------------------------
(* The updates of the table *)

\* priority_remove and priority_add start to write a good table over good copies.
LEMMA UpdateStarts ==
  ASSUME IInv, TypeOK', pc \in {"remove", "add"}, NEW t \in Table,
         WriteBoth(t, "update_cpb", "write"),
         trusted => Good(t) /\ \A x \in Cells : t[x] \subseteq cpb[x],
         UNCHANGED <<flash, fw, corrupted, fixed, call, committed, trusted>>
  PROVE  IInv'
<1>1. pc' = "write" /\ todo' = Copies /\ cpb' = t /\ target' = t
  BY DEF WriteBoth
<1>2. trusted => /\ \A c \in Copies : flash[c] = committed
                 /\ committed = cpb
  BY DEF IInv, Whole
<1>3. GoodHistory'
  BY <1>1 DEF IInv, GoodHistory, Good
<1>4. Recoverable'
  BY <1>2 DEF Recoverable, Copies
<1>5. Updating'
  BY <1>1, <1>2 DEF Updating
<1>6. Control'
  BY <1>1 DEF Control, IInv, Rewriting
<1>7. Whole' /\ WritingBack' /\ WritingBackSafely' /\ Repairing'
  BY <1>1 DEF Whole, WritingBack, WritingBackSafely, Repairing, Idle, Rewriting
<1> QED
  BY <1>3, <1>4, <1>5, <1>6, <1>7 DEF IInv

\* priority_add's compression and the replacements start to write a table back.
LEMMA WritebackStarts ==
  ASSUME IInv, TypeOK', NEW t \in Table,
         WriteBoth(t, "writeback_cpb", "erase"),
         (trusted' \/ call'.op \in {"empty", "restore"}) => t[Header] = Magic,
         trusted' => /\ trusted /\ Good(t)
                     /\ (Idle /\ ~corrupted) \/ pc \in {"remove", "add"},
         call'.op # "open", call'.next # "add" \/ call' = call,
         UNCHANGED <<flash, fw, fixed, committed>>
  PROVE  IInv'
<1>1. /\ pc' = "erase" /\ todo' = Copies /\ cpb' = t /\ target' = t
      /\ job' = "writeback_cpb"
  BY DEF WriteBoth
<1>2. trusted' => /\ \A c \in Copies : flash[c] = committed
                  /\ Good(committed)
  BY DEF IInv, Whole, GoodHistory
<1>3. GoodHistory'
  BY <1>1, <1>2 DEF GoodHistory, Good
<1>4. Recoverable'
  BY <1>2 DEF Recoverable, Copies
<1>5. WritingBack' /\ WritingBackSafely'
  <2>1. t[Header] = Magic => WithMagic(cpb') = target'
    BY <1>1, MagicFacts
  <2>2. Copy' = First
    BY <1>1, CopiesFacts DEF Copy
  <2> QED
    BY <1>1, <1>2, <2>1, <2>2, CopiesFacts
       DEF WritingBack, WritingBackSafely, RewrittenCopy, WithMagic
<1>6. Control'
  BY <1>1 DEF Control, IInv, Rewriting
<1>7. Whole' /\ Updating' /\ Repairing'
  BY <1>1 DEF Whole, Updating, Repairing, Idle
<1> QED
  BY <1>3, <1>4, <1>5, <1>6, <1>7 DEF IInv

LEMMA GoodInMemory ==
  ASSUME IInv, trusted, (Idle /\ ~corrupted) \/ pc \in {"remove", "add"}
  PROVE  Good(cpb)
BY DEF IInv, Whole, GoodHistory

LEMMA PriorityInvariant == IInv /\ (PriorityRemove \/ PriorityAdd) => IInv'
<1> SUFFICES ASSUME IInv, PriorityRemove \/ PriorityAdd
             PROVE  IInv'
  OBVIOUS
<1> USE DEF durable, memory, history
<1>0. TypeOK' /\ cpb \in Table /\ pc \in {"remove", "add"}
  BY PriorityType DEF IInv, PriorityRemove, PriorityAdd, PriorityAddInPlace,
     PriorityAddCompressed, PriorityAddFull, TypeOK
<1>1. trusted => Good(cpb)
  BY <1>0, GoodInMemory
<1>2. call.ptr \in Offsets
  BY <1>0 DEF IInv, Control
<1>3. CASE PriorityRemove /\ Enabled(cpb, call.ptr)
  <2> DEFINE s == Lowest({r \in Slots : cpb[r] = call.ptr})
             t == [cpb EXCEPT ![s] = Spent]
  <2>1. s \in Slots
    BY <1>3, LowestInSet DEF Enabled
  <2>2. t \in Table
    BY <1>0, <2>1 DEF Table, Word, Spent
  <2>3. trusted => Good(t) /\ \A x \in Cells : t[x] \subseteq cpb[x]
    BY <1>0, <1>1, <2>1, SpendGood
  <2>4. /\ WriteBoth(t, "update_cpb", "write")
        /\ UNCHANGED <<flash, fw, corrupted, fixed, call, committed, trusted>>
    BY <1>3 DEF PriorityRemove
  <2> HIDE DEF t
  <2> QED
    BY <1>0, <2>2, <2>3, <2>4, UpdateStarts
<1>4. CASE PriorityRemove /\ ~ Enabled(cpb, call.ptr)
  <2>1. pc' = "check" /\ UNCHANGED <<durable, memory, job, todo, call, history>>
    BY <1>4 DEF PriorityRemove
  <2>2. Control'
    BY <2>1 DEF Control, IInv, Rewriting
  <2> QED
    BY <1>0, <2>1, <2>2, Returned
<1>5. CASE PriorityAddInPlace
  <2> DEFINE s == Lowest(ErasedSlots(cpb))
             t == [cpb EXCEPT ![s] = call.ptr]
  <2>1. s \in ErasedSlots(cpb)
    <3>1. ErasedSlots(cpb) \in SUBSET Slots /\ ErasedSlots(cpb) # {}
      BY <1>5 DEF PriorityAddInPlace, ErasedSlots
    <3> QED
      BY <3>1, LowestInSet
  <2>2. s \in Slots /\ cpb[s] = Erased
    BY <2>1 DEF ErasedSlots
  <2>3. t \in Table
    BY <1>0, <1>2, <2>2 DEF Table
  <2>4. trusted => Good(t) /\ \A x \in Cells : t[x] \subseteq cpb[x]
    BY <1>0, <1>1, <1>2, <2>2, AddGood
  <2>5. /\ WriteBoth(t, "update_cpb", "write")
        /\ UNCHANGED <<flash, fw, corrupted, fixed, call, committed, trusted>>
    BY <1>5 DEF PriorityAddInPlace
  <2> HIDE DEF t
  <2> QED
    BY <1>0, <2>3, <2>4, <2>5, UpdateStarts
<1>6. CASE PriorityAddCompressed
  <2> DEFINE t == Compressed(cpb, call.ptr)
  <2>1. t \in Table
    BY <1>0, <1>2, CompressedType
  <2>2. trusted => Good(t)
    BY <1>0, <1>1, <1>2, CompressedGood
  <2>3. call.op \in {"enable", "disable", "program"}
    BY <1>0 DEF IInv, Control
  <2>4. /\ WriteBoth(t, "writeback_cpb", "erase")
        /\ UNCHANGED <<flash, fw, corrupted, fixed, call, committed, trusted>>
    BY <1>6 DEF PriorityAddCompressed
  <2>5. trusted => t[Header] = Magic
    BY <2>2 DEF Good
  <2> HIDE DEF t
  <2> QED
    BY <1>0, <2>1, <2>2, <2>3, <2>4, <2>5, WritebackStarts
<1>7. CASE PriorityAddFull
  <2>1. /\ pc' = "idle" /\ UNCHANGED <<durable, memory, job, todo, history>>
        /\ call' = [call EXCEPT !.next = "fail"]
    BY <1>0, <1>7 DEF PriorityAddFull, Abort, IInv, Control
  <2>2. Control'
    BY <2>1 DEF Control, IInv, TypeOK, Calls, Rewriting
  <2>3. GoodHistory' /\ Recoverable'
    BY <2>1 DEF IInv, GoodHistory, Recoverable, Good
  <2>4. Whole'
    BY <1>0, <2>1 DEF IInv, Whole
  <2>5. Updating' /\ WritingBack' /\ WritingBackSafely' /\ Repairing'
    BY <2>1 DEF Updating, WritingBack, WritingBackSafely, Repairing, Rewriting
  <2> QED
    BY <1>0, <2>2, <2>3, <2>4, <2>5 DEF IInv
<1> QED
  BY <1>3, <1>4, <1>5, <1>6, <1>7 DEF PriorityAdd


-----------------------------------------------------------------------------
(* Calls *)

\* A call that begins while the library serves, or on a table no one protects.
LEMMA CallBegins ==
  ASSUME IInv, TypeOK', Control', Idle, pc' \in {"remove", "add"},
         UNCHANGED <<flash, fw, cpb, committed, target>>,
         trusted' => trusted /\ ~corrupted
  PROVE  IInv'
<1>1. GoodHistory' /\ Recoverable'
  BY DEF IInv, GoodHistory, Recoverable, Good
<1>2. Whole'
  BY DEF IInv, Whole
<1>3. Updating' /\ WritingBack' /\ WritingBackSafely' /\ Repairing'
  BY DEF Updating, WritingBack, WritingBackSafely, Repairing, Rewriting
<1> QED
  BY <1>1, <1>2, <1>3 DEF IInv

LEMMA ReplaceInvariant ==
  ASSUME IInv, TypeOK', NEW op \in {"empty", "restore"}, NEW t \in Table,
         t[Header] = Magic, Replace(op, t)
  PROVE  IInv'
<1>1. /\ Idle /\ call'.op = op /\ call'.next = "ok"
      /\ WriteBoth(t, "writeback_cpb", "erase")
      /\ trusted' = (trusted /\ ~corrupted /\ Good(t))
      /\ UNCHANGED <<flash, fw, fixed, committed>>
  BY DEF Replace, Request, durable
<1> QED
  BY <1>1, WritebackStarts

LEMMA ApiInvariant == IInv /\ Api => IInv'
<1> SUFFICES ASSUME IInv, Api
             PROVE  IInv'
  OBVIOUS
<1> USE DEF durable, memory, history
<1>0. TypeOK'
  BY ApiType DEF IInv
<1>1. CASE Open
  <2>1. pc' = "check" /\ UNCHANGED <<flash, fw, committed, target, trusted>>
    BY <1>1 DEF Open
  <2>2. Control'
    BY <1>1 DEF Open, Request, Control, Rewriting
  <2> QED
    BY <1>0, <2>1, <2>2, Returned
<1>2. ASSUME NEW p \in Offsets, Enable(p) \/ Disable(p) \/ ProgramSlot(p)
      PROVE  IInv'
  <2>1. /\ Idle /\ ~corrupted /\ pc' \in {"remove", "add"}
        /\ UNCHANGED <<flash, fw, cpb, committed, target, trusted>>
    BY <1>2 DEF Enable, Disable, ProgramSlot, Begin
  <2>2. Control'
    BY <1>2 DEF Enable, Disable, ProgramSlot, Begin, Request, Control, Rewriting
  <2> QED
    BY <1>0, <2>1, <2>2, CallBegins
<1>3. ASSUME NEW p \in Offsets, ProgramCallback(p)
      PROVE  IInv'
  <2>1. Control'
    BY <1>3 DEF ProgramCallback, Begin, Request, Control, Rewriting
  <2> QED
    BY <1>0, <1>3, <2>1, CallBegins DEF ProgramCallback, Begin
<1>4. CASE CreateEmpty
  <2>1. EmptyTable \in Table /\ EmptyTable[Header] = Magic
    BY TableFacts, EmptyGood DEF Good
  <2> QED
    BY <1>0, <1>4, <2>1, ReplaceInvariant DEF CreateEmpty
<1>5. ASSUME NEW t \in Backups, Restore(t)
      PROVE  IInv'
  BY <1>0, <1>5, ReplaceInvariant DEF Restore
<1> QED
  BY <1>1, <1>2, <1>3, <1>4, <1>5 DEF Api

-----------------------------------------------------------------------------
(* Interruptions *)

LEMMA StopInvariant == IInv /\ Stop => IInv'
<1> SUFFICES ASSUME IInv, Stop
             PROVE  IInv'
  OBVIOUS
<1>0. TypeOK'
  BY StopType DEF IInv
<1>1. pc' = "down" /\ UNCHANGED <<flash, fw, committed, target, trusted>>
  BY DEF Stop, Down, durable
<1>2. Control'
  BY DEF Stop, Down, Request, Control, Rewriting
<1> QED
  BY <1>0, <1>1, <1>2, Returned

\* The board boots: the firmware rejects only copies that load_cpb rejects as well.
LEMMA PowerCycleInvariant == IInv /\ PowerCycle => IInv'
<1> SUFFICES ASSUME IInv, PowerCycle
             PROVE  IInv'
  OBVIOUS
<1>0. TypeOK'
  BY StopType DEF IInv
<1>1. pc' = "down" /\ UNCHANGED <<committed, target, trusted>>
  BY DEF PowerCycle, Down
<1>2. GoodHistory'
  BY <1>1, HistoryKept
<1>3. Recoverable'
  <2> SUFFICES ASSUME trusted
               PROVE  Recoverable'
    BY <1>1 DEF Recoverable
  <2>1. PICK c \in Copies : flash'[c] \in {committed, target}
    <3>1. CASE UNCHANGED flash
      BY <3>1 DEF IInv, Recoverable
    <3>2. CASE InFlight /\ \E t \in TornOutcomes(flash[Copy]) :
                              flash' = [flash EXCEPT ![Copy] = t]
      <4>1. Copy \in Copies /\ Other(Copy) \in Copies /\ Other(Copy) # Copy
        BY CopiesFacts DEF Copy
      <4>2. flash'[Other(Copy)] = flash[Other(Copy)]
        BY <3>2, <4>1 DEF IInv, TypeOK
      <4> QED
        BY <3>2, <4>1, <4>2, OtherCopyIntact
    <3> QED
      BY <3>1, <3>2 DEF PowerCycle
  <2>2. Good(flash'[c])
    BY <2>1 DEF IInv, GoodHistory
  <2>3. fw' = "cpb0" => ~ Good(flash'[0])
    BY DEF PowerCycle, BootReports
  <2>4. fw' = "cpb0" => c = 1
    BY <2>2, <2>3 DEF Copies
  <2> QED
    BY <1>1, <2>1, <2>4 DEF Recoverable
<1>4. Control'
  BY DEF PowerCycle, Down, Request, Control, Rewriting
<1>5. /\ Whole' /\ Updating' /\ WritingBack' /\ WritingBackSafely' /\ Repairing'
  BY <1>1 DEF Whole, Updating, WritingBack, WritingBackSafely, Repairing, Idle, Rewriting
<1> QED
  BY <1>0, <1>2, <1>3, <1>4, <1>5 DEF IInv

-----------------------------------------------------------------------------
(* The theorems *)

LEMMA NextInvariant == IInv /\ [Next]_vars => IInv'
<1> SUFFICES ASSUME IInv, [Next]_vars
             PROVE  IInv'
  OBVIOUS
<1>1. CASE Step
  BY <1>1, LoadCpbInvariant, EraseCopyInvariant, WriteBodyInvariant,
     WriteMagicInvariant, EndRepairInvariant, EndWritebackInvariant,
     UpdateCopyInvariant, UpdateFailsInvariant, WriteFailsInvariant, PriorityInvariant
     DEF Step
<1>2. CASE UNCHANGED vars
  <2>1. UNCHANGED <<flash, fw, cpb, corrupted, fixed, pc, job, todo, call, committed,
                    target, trusted>>
    BY <1>2 DEF vars
  <2>2. TypeOK'
    BY <1>2, NextType DEF IInv
  <2>3. GoodHistory' /\ Recoverable' /\ Whole' /\ Updating' /\ Control'
    BY <2>1 DEF IInv, GoodHistory, Recoverable, Whole, Updating, Control, Good, Idle,
                Rewriting
  <2>4. WritingBack' /\ WritingBackSafely' /\ Repairing'
    BY <2>1 DEF IInv, WritingBack, WritingBackSafely, Repairing, Rewriting,
                RewrittenCopy, WithMagic, WithoutMagic, Copy
  <2> QED
    BY <2>2, <2>3, <2>4 DEF IInv
<1> QED
  BY <1>1, <1>2, ApiInvariant, StopInvariant, PowerCycleInvariant DEF Next

\* The invariant of CpbInvariant holds: it is inductive.
THEOREM Invariance == Spec => []IInv
BY InitInvariant, NextInvariant, PTL DEF Spec

\* At every instant one copy in flash is intact and holds the table from before or
\* from after the update in progress, for any number of slots and any torn write.
THEOREM CopySurvives == Spec => []OneCopySurvives
<1>1. IInv => OneCopySurvives
  BY DEF IInv, GoodHistory, Recoverable, OneCopySurvives
<1> QED
  BY <1>1, Invariance, PTL

\* Between calls the table in memory is what both copies in flash hold.
THEOREM MemoryAgrees == Spec => []MemoryMatchesFlash
<1>1. IInv => MemoryMatchesFlash
  BY DEF IInv, GoodHistory, Whole, MemoryMatchesFlash
<1> QED
  BY <1>1, Invariance, PTL

\* Loading settles only on the table from before or after an interrupted update.
LEMMA SettleStep ==
  ASSUME IInv, [Next]_vars, trusted, trusted', committed' # committed
  PROVE  committed' = target
<1>1. CASE LoadMatched
  BY <1>1, Readable DEF LoadMatched, Settle
<1>2. ASSUME NEW unread, LoadRepair(unread)
      PROVE  committed' = target
  <2>1. unread = {}
    BY <1>2 DEF LoadRepair
  <2>2. PICK c \in Copies : Passes({}) = {c} /\ committed' = flash[c]
    BY <1>2, <2>1 DEF LoadRepair, Settle
  <2> QED
    BY <2>2, Readable
<1>3. CASE EndWriteback
  BY <1>3 DEF EndWriteback, Settle, history
<1>4. CASE /\ ~LoadMatched /\ ~EndWriteback
           /\ ~ \E unread \in Unreadable : LoadRepair(unread)
  <2>1. committed' = committed
    BY <1>4 DEF Next, Step, Api, LoadCpb, LoadRefused, LoadUnmatched, LoadReadFails,
       LoadNone, EraseCopy, WriteBody, WriteMagic, EndRepair, UpdateCopy, UpdateFails,
       WriteFails, PriorityRemove, PriorityAdd, PriorityAddInPlace,
       PriorityAddCompressed, PriorityAddFull, Open, Enable, Disable, ProgramSlot,
       ProgramCallback, CreateEmpty, Restore, Replace, Stop, PowerCycle, Down, history,
       vars
  <2> QED
    BY <2>1
<1> QED
  BY <1>1, <1>2, <1>3, <1>4

\* A table that survived an interruption is found again, or its update is.
THEOREM SettlesRight == Spec => SettlesOnOldOrNew
<1>1. IInv /\ [Next]_vars
        => [(trusted /\ trusted' /\ committed' # committed) => committed' = target]_vars
  BY SettleStep
<1> QED
  BY <1>1, Invariance, PTL DEF Spec, SettlesOnOldOrNew

-----------------------------------------------------------------------------
(* The library reports a corrupted pointer block only for a cause: a write that was
   cut short, or the firmware's report at the last boot. *)

\* load_cpb sets the flag on copies that differ or that both fail the checks.
LEMMA LoadCaused ==
  ASSUME IInv, Caused, LoadCpb
  PROVE  Caused'
<1> USE DEF durable, memory, history
<1>0. pc = "check" /\ flash' = flash /\ fw' = fw
  BY DEF LoadCpb, LoadRefused, LoadMatched, LoadUnmatched, LoadRepair, LoadReadFails,
     LoadNone
<1>1. (trusted /\ ~interrupted) => flash[0] = flash[1] /\ Good(flash[1])
  <2>1. (trusted /\ ~interrupted) => flash[0] = flash[1]
    BY <1>0 DEF Caused, InFlight
  <2>2. trusted => \E c \in Copies : Good(flash[c])
    BY DEF IInv, GoodHistory, Recoverable
  <2> QED
    BY <2>1, <2>2 DEF Copies
<1>2. trusted => ~corrupted
  BY <1>0 DEF Caused, Idle
<1>3. CASE LoadRefused
  BY <1>0, <1>1, <1>3 DEF LoadRefused, Refused, ReportCorrupted, Caused, Idle
<1>4. CASE LoadMatched
  BY <1>0, <1>2, <1>4 DEF LoadMatched, Caused, Idle
<1>5. CASE LoadUnmatched
  BY <1>0, <1>1, <1>5 DEF LoadUnmatched, ReportCorrupted, Caused, Idle
<1>6. ASSUME NEW unread, LoadRepair(unread)
      PROVE  Caused'
  BY <1>2, <1>6 DEF LoadRepair, Caused, InFlight
<1>7. ASSUME NEW unread, LoadReadFails(unread)
      PROVE  Caused'
  BY <1>7 DEF LoadReadFails, Caused
<1>8. ASSUME NEW unread, LoadNone(unread)
      PROVE  Caused'
  <2>1. (trusted' /\ ~interrupted) => FALSE
    <3> SUFFICES ASSUME trusted', ~interrupted
                 PROVE  FALSE
      OBVIOUS
    <3>1. unread = {} /\ trusted
      BY <1>8 DEF LoadNone
    <3>2. 1 \in Passes(unread)
      BY <1>1, <3>1 DEF Passes, Copies
    <3> QED
      BY <1>8, <3>2 DEF LoadNone
  <2> QED
    BY <1>8, <2>1 DEF LoadNone, ReportCorrupted, Caused, Idle
<1> QED
  BY <1>3, <1>4, <1>5, <1>6, <1>7, <1>8 DEF LoadCpb

\* A function that wrote both copies without an error leaves the same table in them.
LEMMA WriteCaused ==
  ASSUME IInv, Caused,
         \/ EraseCopy \/ WriteBody \/ WriteMagic \/ EndRepair \/ EndWriteback
         \/ UpdateCopy \/ UpdateFails \/ WriteFails
  PROVE  Caused'
<1> USE DEF memory, history
<1>1. InFlight /\ (trusted => ~corrupted)
  BY DEF EraseCopy, WriteBody, WriteMagic, EndRepair, EndWriteback, LastMagic,
     UpdateCopy, UpdateFails, WriteFails, Caused, Idle, InFlight
<1>2. CASE EraseCopy \/ WriteBody \/ WriteMagic
  BY <1>1, <1>2 DEF EraseCopy, WriteBody, WriteMagic, Caused, InFlight
<1>3. CASE EndRepair
  <2>1. trusted => flash'[0] = flash'[1]
    BY <1>3, RepairEnds DEF Copies
  <2> QED
    BY <1>1, <1>3, <2>1 DEF EndRepair, Caused
<1>4. CASE EndWriteback
  <2>1. (trusted \/ call.op \in {"empty", "restore"}) => flash'[0] = flash'[1]
    BY <1>4, WritebackEnds DEF Copies
  <2> QED
    BY <1>1, <1>4, <2>1 DEF EndWriteback, Caused
<1>5. CASE UpdateCopy
  <2>1. /\ pc = "write" /\ pc' = (IF todo = Copies THEN "write" ELSE "check")
        /\ UNCHANGED <<fw, corrupted, trusted, interrupted, target>>
    BY <1>5 DEF UpdateCopy
  <2>2. CASE todo = Copies
    BY <1>1, <2>1, <2>2 DEF Caused, InFlight
  <2>3. CASE todo # Copies
    <3>1. trusted => /\ Copy = Other(First) /\ flash[First] = target
                     /\ Copies = {First, Other(First)} /\ Other(First) # First
      BY <2>1, <2>3, CopiesFacts DEF IInv, Updating, Copy
    <3>2. trusted => \A c \in Copies : flash'[c] = target
      BY <1>5, <3>1, UpdateWritten
    <3> QED
      BY <1>1, <2>1, <3>2 DEF Caused, Copies
  <2> QED
    BY <2>2, <2>3
<1>6. CASE UpdateFails \/ WriteFails
  BY <1>1, <1>6 DEF UpdateFails, WriteFails, Caused
<1> QED
  BY <1>2, <1>3, <1>4, <1>5, <1>6

LEMMA CallCaused ==
  ASSUME IInv, Caused, PriorityRemove \/ PriorityAdd \/ Api
  PROVE  Caused'
<1> USE DEF durable, memory, history, InFlight, Idle
<1>1. CASE PriorityRemove \/ PriorityAdd
  BY <1>1 DEF PriorityRemove, PriorityAdd, PriorityAddInPlace, PriorityAddCompressed,
     PriorityAddFull, Abort, WriteBoth, Caused
<1>2. CASE Open
  BY <1>2 DEF Open, Caused
<1>3. ASSUME NEW p \in Offsets,
             Enable(p) \/ Disable(p) \/ ProgramSlot(p) \/ ProgramCallback(p)
      PROVE  Caused'
  BY <1>3 DEF Enable, Disable, ProgramSlot, ProgramCallback, Begin, Caused
<1>4. ASSUME NEW op, NEW t, Replace(op, t)
      PROVE  Caused'
  BY <1>4 DEF Replace, WriteBoth, Caused
<1> QED
  BY <1>1, <1>2, <1>3, <1>4 DEF Api, CreateEmpty, Restore

LEMMA StopCaused ==
  ASSUME IInv, Caused, Stop \/ PowerCycle
  PROVE  Caused'
BY DEF Stop, PowerCycle, Down, durable, Caused

LEMMA NextCaused == IInv /\ Caused /\ [Next]_vars => Caused'
<1> SUFFICES ASSUME IInv, Caused, [Next]_vars
             PROVE  Caused'
  OBVIOUS
<1>1. CASE UNCHANGED vars
  BY <1>1 DEF vars, Caused, Idle, InFlight
<1> QED
  BY <1>1, LoadCaused, WriteCaused, CallCaused, StopCaused DEF Next, Step

\* The library never calls the CPB corrupted without a cause.
THEOREM CorruptionCaused == Spec => []CorruptedHasCause
<1>1. Init => Caused
  BY DEF Init, Caused, Copies
<1>2. Caused => CorruptedHasCause
  BY DEF Caused, CorruptedHasCause
<1> QED
  BY <1>1, <1>2, NextCaused, Invariance, PTL DEF Spec
=============================================================================
