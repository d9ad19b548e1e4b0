----------------------------- MODULE SptSafety -----------------------------
(***************************************************************************)
(* Theorems about Spt, for every set of names and requested slots, every   *)
(* valid provisioned table, size of the table, set of backups, content of  *)
(* a half erased copy and set of I/O errors, with and without checksums:   *)
(* the variables keep their types, the invariant of SptInvariant is        *)
(* inductive, and what follows from it: one copy of the partition table    *)
(* survives any interruption, memory agrees with flash between calls,      *)
(* loading settles on the table from before or after the interrupted edit, *)
(* and callers' numbered list of slots changes one edit at a time.         *)
(***************************************************************************)
EXTENDS SptInvariant, SptImplements, TablesProofs

USE SlotNamesAssumption, MaxPartitionsAssumption, ProvisionedAssumption,
    RequestsAssumption, BackupsAssumption, ChecksumsAssumption,
    HalfErasedAssumption, IoErrorsAssumption

-----------------------------------------------------------------------------
(* Lemmas about copies *)

LEMMA CopiesFacts ==
  /\ \A c \in Copies : /\ Other(c) \in Copies /\ Other(c) # c
                       /\ Other(Other(c)) = c
                       /\ Copies = {c, Other(c)}
  /\ Copies \subseteq Critical /\ Critical \subseteq Reserved
BY DEF Copies, Other, Critical, Reserved

-----------------------------------------------------------------------------
(* Types *)

LEMMA ContentFacts ==
  /\ Blank \in Content /\ Lost \in Table
  /\ \A content \in Content :
       /\ content.magic \in BOOLEAN /\ content.sum \in BOOLEAN /\ content.table \in Table
       /\ \A b \in BOOLEAN : [content EXCEPT !.magic = b] \in Content
       /\ \A a, b \in BOOLEAN : [content EXCEPT !.magic = a, !.sum = b] \in Content
       /\ \A t \in Table : [content EXCEPT !.table = t] \in Content
  /\ \A t \in Table : [magic |-> TRUE, sum |-> TRUE, table |-> t] \in Content
<1>1. <<>> \in Table
  BY DEF Table
<1>2. \A content \in Content :
       /\ content.magic \in BOOLEAN /\ content.sum \in BOOLEAN /\ content.table \in Table
       /\ \A b \in BOOLEAN : [content EXCEPT !.magic = b] \in Content
       /\ \A a, b \in BOOLEAN : [content EXCEPT !.magic = a, !.sum = b] \in Content
       /\ \A t \in Table : [content EXCEPT !.table = t] \in Content
  BY DEF Content
<1> QED
  BY <1>1, <1>2 DEF Content, Blank, Lost

LEMMA OutcomeType ==
  ASSUME spt \in Content, NEW old \in Content
  PROVE  /\ Sum \in BOOLEAN
         /\ Outcome(old) \in Content
         /\ TornOutcomes(old) \subseteq Content
<1>1. Sum \in BOOLEAN
  BY ContentFacts DEF Sum
<1>2. [magic |-> FALSE, sum |-> Sum, table |-> spt.table] \in Content
  BY <1>1, ContentFacts DEF Content
<1>3. Outcome(old) \in Content
  BY <1>2, ContentFacts DEF Outcome
<1> QED
  BY <1>1, <1>3 DEF TornOutcomes

LEMMA InitType == Init => TypeOK
<1> SUFFICES ASSUME Init
             PROVE  TypeOK
  OBVIOUS
<1> QED
  BY ContentFacts DEF Init, TypeOK

LEMMA EndsType ==
  ASSUME TypeOK, \/ \E result \in {"ok", "fail"} : Return(result)
                 \/ Proceed
                 \/ ReportCorrupted
                 \/ Abort
  PROVE  /\ pc' \in {"idle", "down"}
         /\ call' \in [op : {"open", "create", "delete", "rename", "restore"},
                       result : {"none", "ok", "fail"}]
BY DEF TypeOK, Return, Proceed, ReportCorrupted, Abort

LEMMA LoadSptType == TypeOK /\ LoadSpt => TypeOK'
<1> SUFFICES ASSUME TypeOK, LoadSpt
             PROVE  TypeOK'
  OBVIOUS
<1> USE CopiesFacts, ContentFacts DEF history, Settle, Lose
<1>0. /\ "SPT0" \in Copies /\ "SPT1" \in Copies
      /\ \A c \in Copies : flash[c] \in Content
  BY DEF TypeOK, Copies
<1>1. CASE LoadMatched
  BY <1>0, <1>1, EndsType DEF LoadMatched, TypeOK
<1>2. CASE LoadUnmatched
  BY <1>0, <1>2, EndsType DEF LoadUnmatched, ReportCorrupted, TypeOK
<1>3. CASE LoadRepair
  <2>1. PICK c \in Copies : /\ spt' = flash[c]
                            /\ committed' = flash[c].table /\ target' = flash[c].table
                            /\ todo' = {Other(c)}
    BY <1>3 DEF LoadRepair
  <2>2. pc' = "erase" /\ job' = "load_spt"
        /\ UNCHANGED <<flash, corrupted, call, interrupted>>
    BY <1>3 DEF LoadRepair
  <2>3. spt' \in Content /\ committed' \in Table /\ target' \in Table
        /\ todo' \in SUBSET Copies
    BY <1>0, <2>1
  <2> QED
    BY <2>2, <2>3 DEF TypeOK
<1>4. CASE LoadNone
  BY <1>0, <1>4, EndsType DEF LoadNone, ReportCorrupted, TypeOK
<1>5. CASE LoadReadFails
  <2>1. spt' \in Content /\ committed' \in Table /\ target' \in Table
    <3>1. spt' \in {spt, flash["SPT0"], flash["SPT1"]}
      BY <1>5 DEF LoadReadFails
    <3>2. committed' \in {committed, target} /\ target' = target
      BY <1>5 DEF LoadReadFails
    <3>3. /\ flash["SPT0"] \in Content /\ flash["SPT1"] \in Content /\ spt \in Content
          /\ committed \in Table /\ target \in Table
      BY <1>0 DEF TypeOK
    <3> HIDE CopiesFacts, ContentFacts
    <3> QED
      BY <3>1, <3>2, <3>3
  <2>2. Abort /\ UNCHANGED <<flash, corrupted, job, todo, interrupted>>
    BY <1>5 DEF LoadReadFails
  <2>3. /\ pc' \in {"idle", "down"}
        /\ call' \in [op : {"open", "create", "delete", "rename", "restore"},
                      result : {"none", "ok", "fail"}]
    BY <2>2, EndsType
  <2> QED
    BY <2>1, <2>2, <2>3 DEF TypeOK
<1> QED
  BY <1>1, <1>2, <1>3, <1>4, <1>5 DEF LoadSpt

LEMMA FlashStepType ==
  TypeOK /\ (EraseCopy \/ WriteBody \/ WriteMagic \/ WriteFails) => TypeOK'
<1> SUFFICES ASSUME TypeOK, EraseCopy \/ WriteBody \/ WriteMagic \/ WriteFails
             PROVE  TypeOK'
  OBVIOUS
<1> USE ContentFacts, OutcomeType DEF memory, history
<1>1. \A c \in Copies : flash[c] \in Content
  BY DEF TypeOK
<1>2. CASE EraseCopy
  BY <1>1, <1>2 DEF EraseCopy, TypeOK
<1>3. CASE WriteBody
  BY <1>1, <1>3 DEF WriteBody, TypeOK
<1>4. CASE WriteMagic
  BY <1>1, <1>4 DEF WriteMagic, TypeOK
<1>5. CASE WriteFails
  <2>1. flash' \in [Copies -> Content]
    BY <1>1, <1>5 DEF WriteFails, TypeOK
  <2>2. spt' \in Content
    <3>1. spt \in Content /\ Sum \in BOOLEAN /\ FALSE \in BOOLEAN /\ TRUE \in BOOLEAN
      BY DEF TypeOK, Sum
    <3>2. spt' \in {spt, [spt EXCEPT !.magic = TRUE],
                   [spt EXCEPT !.magic = FALSE, !.sum = Sum]}
      BY <1>5 DEF WriteFails
    <3> QED
      BY <3>1, <3>2, ContentFacts
  <2>3. /\ pc' \in {"idle", "down"}
        /\ call' \in [op : {"open", "create", "delete", "rename", "restore"},
                      result : {"none", "ok", "fail"}]
    BY <1>5, EndsType DEF WriteFails
  <2>4. /\ todo' = {} /\ interrupted' = TRUE
        /\ UNCHANGED <<corrupted, job, committed, target>>
    BY <1>5 DEF WriteFails
  <2> QED
    BY <2>1, <2>2, <2>3, <2>4 DEF TypeOK
<1> QED
  BY <1>2, <1>3, <1>4, <1>5

LEMMA EndType ==
  TypeOK /\ (EndRepair \/ EndEdit \/ EndRestore \/ EndIncomplete) => TypeOK'
<1> SUFFICES ASSUME TypeOK, EndRepair \/ EndEdit \/ EndRestore \/ EndIncomplete
             PROVE  TypeOK'
  OBVIOUS
<1> USE ContentFacts DEF memory, history
<1>1. CASE EndRepair
  BY <1>1, EndsType DEF EndRepair, TypeOK
<1>2. CASE EndEdit
  BY <1>2 DEF EndEdit, TypeOK
<1>3. CASE EndRestore
  BY <1>3, EndsType DEF EndRestore, Settle, Lose, TypeOK
<1>4. CASE EndIncomplete
  BY <1>4, EndsType DEF EndIncomplete, TypeOK
<1> QED
  BY <1>1, <1>2, <1>3, <1>4

LEMMA WriteBackType ==
  ASSUME TypeOK, NEW op \in {"create", "delete", "rename", "restore"},
         NEW content \in Content, WriteBack(op, content),
         Begun(content.table) \/ Lose
  PROVE  TypeOK'
<1>1. content.table \in Table /\ Lost \in Table
  BY ContentFacts
<1>2. committed' \in Table /\ target' \in Table
  BY <1>1 DEF Begun, Lose, Settle, TypeOK
<1> QED
  BY <1>2 DEF WriteBack, TypeOK

\* The tables the edits write back.
LEMMA EditedTable ==
  ASSUME NEW t \in Table
  PROVE  /\ \A name \in SlotNames, request \in Requests :
              Append(t, NewSlot(name, request)) \in Table
         /\ \A n : \A x \in Slot2Part(t, n) : /\ x \in DOMAIN t /\ IsSlot(t[x])
                                             /\ Without(t, x) \in Table
         /\ \A n : \A x \in Slot2Part(t, n), name \in SlotNames :
              Renamed(t, x, name) \in Table
<1>1. \A name \in SlotNames, request \in Requests :
        Append(t, NewSlot(name, request)) \in Table
  BY NewSlotFacts, AppendedTable
<1>2. ASSUME NEW n, NEW x \in Slot2Part(t, n)
      PROVE  /\ x \in DOMAIN t /\ IsSlot(t[x])
             /\ Without(t, x) \in Table
             /\ \A name \in SlotNames : Renamed(t, x, name) \in Table
  <2>1. x \in DOMAIN t /\ IsSlot(t[x])
    BY DEF Slot2Part
  <2> QED
    BY <2>1, WithoutFacts, RenamedFacts
<1> QED
  BY <1>1, <1>2

LEMMA EditType ==
  ASSUME TypeOK, NEW op \in {"create", "delete", "rename"}, NEW t \in Table, Edit(op, t)
  PROVE  TypeOK'
<1>1. [spt EXCEPT !.table = t] \in Content /\ [spt EXCEPT !.table = t].table = t
  BY DEF TypeOK, Content
<1> QED
  BY <1>1, WriteBackType DEF Edit

LEMMA ApiType == TypeOK /\ Api => TypeOK'
<1> SUFFICES ASSUME TypeOK, Api
             PROVE  TypeOK'
  OBVIOUS
<1>0. spt.table \in Table
  BY ContentFacts DEF TypeOK
<1>1. CASE Open
  BY <1>1, ContentFacts DEF Open, history, TypeOK
<1>2. ASSUME NEW name \in SlotNames, NEW request \in Requests, Create(name, request)
      PROVE  TypeOK'
  BY <1>0, <1>2, EditedTable, EditType DEF Create
<1>3. ASSUME NEW n, Delete(n)
      PROVE  TypeOK'
  BY <1>0, <1>3, EditedTable, EditType DEF Delete
<1>4. ASSUME NEW n, NEW name \in SlotNames, Rename(n, name)
      PROVE  TypeOK'
  BY <1>0, <1>4, EditedTable, EditType DEF Rename
<1>5. ASSUME NEW t \in Backups, Restore(t)
      PROVE  TypeOK'
  <2> DEFINE content == [magic |-> TRUE, sum |-> TRUE, table |-> t]
  <2>1. content \in Content /\ content.table = t
    BY ContentFacts
  <2>2. WriteBack("restore", content) /\ (Begun(content.table) \/ Lose)
    BY <1>5, <2>1 DEF Restore
  <2> HIDE DEF content
  <2> QED
    BY <2>1, <2>2, WriteBackType
<1>6. ASSUME NEW t \in Backups, RestoreRefused(t)
      PROVE  TypeOK'
  BY <1>6, ContentFacts DEF RestoreRefused, Lose, Settle, TypeOK
<1> QED
  BY <1>1, <1>2, <1>3, <1>4, <1>5, <1>6 DEF Api

LEMMA DownType == TypeOK /\ (Stop \/ PowerFails) => TypeOK'
<1> SUFFICES ASSUME TypeOK, Stop \/ PowerFails
             PROVE  TypeOK'
  OBVIOUS
<1>1. flash' \in [Copies -> Content]
  <2>1. \A c \in Copies : TornOutcomes(flash[c]) \subseteq Content
    BY OutcomeType DEF TypeOK
  <2>2. CASE Stop
    BY <2>2 DEF Stop, TypeOK
  <2>3. CASE PowerFails
    <3>1. PICK content \in TornOutcomes(flash[Copy]) :
             flash' = [flash EXCEPT ![Copy] = content]
      BY <2>3 DEF PowerFails
    <3>2. Copy \in Copies => content \in Content
      BY <2>1, <3>1
    <3> QED
      BY <3>1, <3>2 DEF TypeOK
  <2> QED
    BY <2>2, <2>3
<1>2. Down
  BY DEF Stop, PowerFails
<1> QED
  BY <1>1, <1>2, ContentFacts DEF Down, TypeOK

LEMMA NextType == TypeOK /\ [Next]_vars => TypeOK'
<1> SUFFICES ASSUME TypeOK, [Next]_vars
             PROVE  TypeOK'
  OBVIOUS
<1>1. CASE UNCHANGED vars
  BY <1>1 DEF vars, TypeOK
<1> QED
  BY <1>1, LoadSptType, FlashStepType, EndType, ApiType, DownType DEF Next, Step

\* Every variable keeps its type; the tables that edits and restores make are
\* sequences of partitions.
THEOREM TypeCorrect == Spec => []TypeOK
BY InitType, NextType, PTL DEF Spec

USE DEF trusted

-----------------------------------------------------------------------------
(* Lemmas about tables and copies *)

LEMMA ValidTable ==
  ASSUME NEW t, CheckSpt(t)
  PROVE  t # Lost /\ \A c \in Copies : Named(t, c)
<1>1. \A c \in Copies : Named(t, c)
  BY CopiesFacts DEF CheckSpt
<1>2. "SPT0" \in Copies
  BY DEF Copies
<1> QED
  BY <1>1, <1>2 DEF Named, Lost

LEMMA ContentEquality ==
  ASSUME NEW a \in Content, NEW b \in Content,
         a.magic = b.magic, a.sum = b.sum, a.table = b.table
  PROVE  a = b
BY DEF Content

LEMMA HasMagic ==
  ASSUME NEW a \in Content, a.magic = TRUE
  PROVE  [a EXCEPT !.magic = TRUE] = a
<1>1. /\ [a EXCEPT !.magic = TRUE] \in Content
      /\ [a EXCEPT !.magic = TRUE].magic = TRUE
      /\ [a EXCEPT !.magic = TRUE].sum = a.sum
      /\ [a EXCEPT !.magic = TRUE].table = a.table
  BY DEF Content
<1> QED
  BY <1>1, ContentEquality

LEMMA IndexFacts ==
  ASSUME NEW t, NEW name, Named(t, name)
  PROVE  IndexOf(t, name) \in DOMAIN t /\ t[IndexOf(t, name)].name = name
BY DEF Named, IndexOf

\* The copy being written is one of those still to write.
LEMMA FirstInCopies ==
  ASSUME NEW t \in Table, NEW copies \in SUBSET Copies, copies # {},
         copies = Copies => \A c \in Copies : Named(t, c)
  PROVE  FirstOf(copies, t) \in copies
<1>1. CASE \E c \in Copies : copies = {c}
  BY <1>1 DEF FirstOf
<1>2. CASE copies = Copies
  <2> DEFINE i == IndexOf(t, "SPT0")
             j == IndexOf(t, "SPT1")
  <2>1. i \in Nat /\ j \in Nat /\ i # j
    BY <1>2, IndexFacts, TableFacts DEF Copies
  <2>2. CASE i < j
    BY <1>2, <2>2 DEF FirstOf, Copies
  <2>3. CASE j < i
    BY <1>2, <2>3 DEF FirstOf, Copies
  <2> QED
    BY <2>1, <2>2, <2>3
<1> QED
  BY <1>1, <1>2 DEF Copies

LEMMA CopyInTodo ==
  ASSUME IInv, Rewriting, todo # {}
  PROVE  Copy \in todo /\ Copy \in Copies
<1>1. spt.table \in Table /\ todo \in SUBSET Copies
  BY ContentFacts DEF IInv, TypeOK
<1>2. todo = Copies => \A c \in Copies : Named(spt.table, c)
  <2>1. CASE job = "load_spt"
    BY <2>1, CopiesFacts DEF IInv, Repairing, Copies
  <2>2. CASE job = "writeback_spt"
    BY <2>2 DEF IInv, Control
  <2> QED
    BY <2>1, <2>2 DEF IInv, Control
<1> QED
  BY <1>1, <1>2, FirstInCopies DEF Copy

LEMMA CopyStays ==
  ASSUME todo' = todo, spt'.table = spt.table
  PROVE  Copy' = Copy
BY DEF Copy

\* writeback_spt leaves a complete copy behind, and then it is good if the table is.
LEMMA CompleteFacts ==
  ASSUME IInv
  PROVE  /\ Complete \in Content
         /\ Complete.magic = TRUE /\ Complete.sum = spt.sum /\ Complete.table = spt.table
         /\ spt.magic = TRUE => Complete = spt
         /\ (CheckSpt(spt.table) /\ (Checksums => spt.sum)) => Passes(Complete)
<1>1. spt \in Content
  BY DEF IInv, TypeOK
<1>2. /\ Complete \in Content
      /\ Complete.magic = TRUE /\ Complete.sum = spt.sum /\ Complete.table = spt.table
  BY <1>1 DEF Complete, Content
<1>3. spt.magic = TRUE => Complete = spt
  BY <1>1, <1>2, ContentEquality
<1> QED
  BY <1>2, <1>3 DEF Passes

\* While one copy is written the other one is good and holds the old or the new table.
LEMMA OtherCopyIntact ==
  ASSUME IInv, trusted, Rewriting, todo # {}
  PROVE  /\ Passes(flash[Other(Copy)])
         /\ flash[Other(Copy)].table \in {committed, target}
<1>1. /\ Copy \in todo /\ Copy \in Copies
      /\ Other(Copy) \in Copies /\ Other(Copy) # Copy
  BY CopyInTodo, CopiesFacts
<1>2. CASE job = "load_spt"
  <2>1. PICK c \in Copies : todo \subseteq {c} /\ flash[Other(c)] = Complete
    BY <1>2 DEF IInv, Repairing
  <2>2. Copy = c
    BY <1>1, <2>1
  <2> QED
    BY <1>2, <2>1, <2>2, CompleteFacts DEF IInv, Repairing
<1>3. CASE job = "writeback_spt" /\ Other(Copy) \in todo
  BY <1>1, <1>3 DEF IInv, WritingBackSafely
<1>4. CASE job = "writeback_spt" /\ Other(Copy) \notin todo
  <2>1. spt.table = target /\ CheckSpt(target)
    BY <1>4 DEF IInv, WritingBackSafely, GoodHistory
  <2>2. flash[Other(Copy)] = Complete /\ (Checksums => spt.sum)
    BY <1>1, <1>4, <2>1, ValidTable DEF IInv, WritingBack
  <2> QED
    BY <2>1, <2>2, CompleteFacts
<1> QED
  BY <1>2, <1>3, <1>4 DEF IInv, Control

\* Both copies are complete when writeback_spt and load_spt's repair are through.
LEMMA BothComplete ==
  ASSUME IInv, pc = "erase", todo = {},
         \/ trusted
         \/ /\ job = "writeback_spt" /\ call.op = "restore"
            /\ \A c \in Copies : Named(spt.table, c)
  PROVE  /\ spt.magic = TRUE /\ Complete = spt
         /\ \A c \in Copies : flash[c] = spt
         /\ CheckSpt(spt.table) => Passes(spt)
         /\ trusted => spt.table = target /\ CheckSpt(spt.table)
<1>1. CASE job = "load_spt"
  <2>1. spt.magic = TRUE /\ Passes(Complete) /\ spt.table = target
    BY <1>1 DEF IInv, Repairing, Rewriting
  <2>2. PICK c \in Copies : flash[Other(c)] = Complete /\ flash[c] = Complete
    BY <1>1 DEF IInv, Repairing, Rewriting
  <2>3. \A d \in Copies : flash[d] = Complete
    BY <2>2, CopiesFacts
  <2> QED
    BY <2>1, <2>3, CompleteFacts DEF Passes
<1>2. CASE job = "writeback_spt"
  <2>1. trusted => spt.table = target /\ CheckSpt(target)
    BY <1>2 DEF IInv, WritingBackSafely, GoodHistory, Rewriting
  <2>2. \A c \in Copies : Named(spt.table, c)
    BY <2>1, <1>2, ValidTable
  <2>3. /\ spt.magic = TRUE
        /\ \A c \in Copies : flash[c] = Complete /\ (Checksums => spt.sum)
    BY <1>2, <2>2 DEF IInv, WritingBack, Rewriting
  <2>4. "SPT0" \in Copies
    BY DEF Copies
  <2> QED
    BY <2>1, <2>3, <2>4, CompleteFacts
<1> QED
  BY <1>1, <1>2 DEF IInv, Control, Rewriting

-----------------------------------------------------------------------------
(* The invariant holds at the start *)

LEMMA InitInvariant == Init => IInv
<1> SUFFICES ASSUME Init
             PROVE  IInv
  OBVIOUS
<1>1. TypeOK
  BY InitType
<1>2. CheckSpt(Provisioned) /\ Provisioned # Lost
  BY ProvisionedAssumption, ValidTable
<1>3. \A c \in Copies : Passes(flash[c]) /\ flash[c].table = Provisioned
  BY <1>2 DEF Init, Passes
<1>4. GoodHistory /\ Recoverable /\ Agreeing
  BY <1>2, <1>3 DEF Init, GoodHistory, Recoverable, Agreeing, Copies
<1>5. Whole /\ WritingBack /\ WritingBackSafely /\ Repairing /\ Control
  BY DEF Init, Whole, WritingBack, WritingBackSafely, Repairing, Control, Idle, Rewriting
<1> QED
  BY <1>1, <1>4, <1>5 DEF IInv

-----------------------------------------------------------------------------
(* Steps that write nothing *)

\* A step that leaves flash and the history alone and serves no caller.
LEMMA Quiet ==
  ASSUME IInv, TypeOK', Control', UNCHANGED <<flash, committed, target>>,
         ~ Rewriting',
         interrupted' = interrupted /\ (Rewriting => interrupted \/ ~trusted),
         \/ pc' = "down"
         \/ pc' = "check" /\ call'.op = "open"
         \/ pc' = "idle" /\ (corrupted' \/ interrupted' \/ ~trusted)
  PROVE  IInv'
<1>1. GoodHistory' /\ Recoverable' /\ Agreeing'
  BY DEF IInv, GoodHistory, Recoverable, Agreeing
<1>2. Whole' /\ WritingBack' /\ WritingBackSafely' /\ Repairing'
  BY DEF Whole, WritingBack, WritingBackSafely, Repairing, Idle, Rewriting
<1> QED
  BY <1>1, <1>2 DEF IInv

\* A step after which the copies protect nothing any more.
LEMMA Unprotected ==
  ASSUME IInv, TypeOK', Control', Lose, ~ Rewriting'
  PROVE  IInv'
<1>1. committed' = Lost /\ target' = Lost
  BY DEF Lose, Settle
<1>2. GoodHistory' /\ Recoverable' /\ Agreeing'
  BY <1>1 DEF GoodHistory, Recoverable, Agreeing, Lost
<1>3. Whole' /\ WritingBack' /\ WritingBackSafely' /\ Repairing'
  BY <1>1 DEF Whole, WritingBack, WritingBackSafely, Repairing, Rewriting, Lost
<1> QED
  BY <1>2, <1>3 DEF IInv

-----------------------------------------------------------------------------
(* load_spt *)

\* What the only good copy, or two that match, can be.
LEMMA Readable ==
  ASSUME IInv, trusted
  PROVE  /\ Passing # {}
         /\ \A c \in Copies : Passing = {c} => flash[c].table \in {committed, target}
         /\ (Passing = Copies /\ flash["SPT0"] = flash["SPT1"])
              => flash["SPT0"].table \in {committed, target}
<1>1. PICK c \in Copies : Passes(flash[c]) /\ flash[c].table \in {committed, target}
  BY DEF IInv, Recoverable
<1> QED
  BY <1>1 DEF Passing, Copies

LEMMA LoadMatchedInvariant == IInv /\ TypeOK' /\ LoadMatched => IInv'
<1> SUFFICES ASSUME IInv, TypeOK', LoadMatched
             PROVE  IInv'
  OBVIOUS
<1>1. /\ flash' = flash /\ flash["SPT0"] = flash["SPT1"] /\ spt' = flash["SPT0"]
      /\ committed' = flash["SPT0"].table /\ target' = flash["SPT0"].table
      /\ pc' = "idle" /\ corrupted' = corrupted /\ pc = "check"
  BY DEF LoadMatched, Settle, Proceed, Return
<1>2. Passes(flash["SPT0"]) /\ CheckSpt(flash["SPT0"].table)
  BY DEF LoadMatched, Passing, Copies, Passes
<1>3. flash["SPT0"].table # Lost
  BY <1>2, ValidTable
<1>4. GoodHistory' /\ Recoverable' /\ Agreeing' /\ Whole'
  BY <1>1, <1>2, <1>3 DEF GoodHistory, Recoverable, Agreeing, Whole, Copies
<1>5. WritingBack' /\ WritingBackSafely' /\ Repairing'
  BY <1>1 DEF WritingBack, WritingBackSafely, Repairing, Rewriting
<1>6. Control'
  BY <1>1 DEF IInv, Control, Rewriting, Idle
<1> QED
  BY <1>4, <1>5, <1>6 DEF IInv

LEMMA LoadRepairInvariant == IInv /\ TypeOK' /\ LoadRepair => IInv'
<1> SUFFICES ASSUME IInv, TypeOK', LoadRepair
             PROVE  IInv'
  OBVIOUS
<1>1. PICK c \in Copies : /\ Passing = {c}
                          /\ spt' = flash[c]
                          /\ committed' = flash[c].table /\ target' = flash[c].table
                          /\ todo' = {Other(c)}
  BY DEF LoadRepair, Settle
<1>2. /\ flash' = flash /\ pc' = "erase" /\ job' = "load_spt"
      /\ corrupted' = corrupted /\ pc = "check"
  BY DEF LoadRepair
<1>3. /\ Passes(flash[c]) /\ CheckSpt(flash[c].table) /\ flash[c].magic = TRUE
      /\ flash[c] \in Content
  BY <1>1 DEF Passing, Passes, IInv, TypeOK, Content
<1>4. flash[c].table # Lost
  BY <1>3, ValidTable
<1>5. Complete' = flash[c]
  <2>1. [flash[c] EXCEPT !.magic = TRUE] = flash[c]
    BY <1>3, HasMagic
  <2> QED
    BY <1>1, <2>1 DEF Complete
<1>6. GoodHistory' /\ Recoverable'
  BY <1>1, <1>2, <1>3, <1>4 DEF GoodHistory, Recoverable
<1>7. Agreeing' /\ Whole' /\ WritingBack' /\ WritingBackSafely'
  BY <1>2 DEF Agreeing, Whole, WritingBack, WritingBackSafely, Rewriting, Idle
<1>8. Repairing'
  <2>1. Other(c) \in Copies /\ Other(Other(c)) = c
    BY CopiesFacts
  <2> QED
    BY <1>1, <1>2, <1>3, <1>4, <1>5, <2>1 DEF Repairing, RewrittenCopy
<1>9. Control'
  BY <1>1, <1>2 DEF IInv, Control, Rewriting, Idle
<1> QED
  BY <1>6, <1>7, <1>8, <1>9 DEF IInv

LEMMA LoadUnmatchedInvariant == IInv /\ TypeOK' /\ LoadUnmatched => IInv'
<1> SUFFICES ASSUME IInv, TypeOK', LoadUnmatched
             PROVE  IInv'
  OBVIOUS
<1>1. /\ pc = "check" /\ pc' = "idle" /\ corrupted'
      /\ flash' = flash /\ interrupted' = interrupted
  BY DEF LoadUnmatched, ReportCorrupted, Return
<1>2. CASE flash["SPT0"] # flash["SPT1"] /\ UNCHANGED <<committed, target>>
  <2>1. trusted => interrupted
    BY <1>1, <1>2 DEF IInv, Agreeing, Rewriting
  <2>2. Control'
    BY <1>1, <1>2, <2>1 DEF IInv, Control, Rewriting, Idle
  <2> QED
    BY <1>1, <1>2, <2>2, Quiet DEF Rewriting
<1>3. CASE Lose
  <2>1. Control'
    BY <1>1, <1>3 DEF Control, Lose, Settle, Rewriting, Idle
  <2> QED
    BY <1>1, <1>3, <2>1, Unprotected DEF Rewriting
<1> QED
  BY <1>2, <1>3 DEF LoadUnmatched

LEMMA LoadNoneInvariant == IInv /\ TypeOK' /\ LoadNone => IInv'
<1> SUFFICES ASSUME IInv, TypeOK', LoadNone
             PROVE  IInv'
  OBVIOUS
<1>1. /\ pc = "check" /\ pc' = "idle" /\ corrupted'
      /\ UNCHANGED <<flash, committed, target, interrupted>>
  BY DEF LoadNone, ReportCorrupted, Return, history
<1>2. ~trusted
  BY Readable DEF LoadNone
<1>3. Control'
  BY <1>1, <1>2 DEF IInv, Control, Rewriting, Idle
<1> QED
  BY <1>1, <1>3, Quiet DEF Rewriting

LEMMA LoadReadFailsInvariant == IInv /\ TypeOK' /\ LoadReadFails => IInv'
<1> SUFFICES ASSUME IInv, TypeOK', LoadReadFails
             PROVE  IInv'
  OBVIOUS
<1>1. /\ pc = "check" /\ UNCHANGED <<flash, corrupted, interrupted>>
      /\ pc' = (IF call.op = "open" THEN "down" ELSE "idle")
      /\ ~corrupted
  BY DEF LoadReadFails, Abort, IInv, Control, Rewriting, Idle
<1>2. Control'
  BY <1>1 DEF IInv, Control, Rewriting, Idle
<1>3. CASE call.op = "open"
  <2>1. UNCHANGED <<committed, target>>
    BY <1>3 DEF LoadReadFails
  <2> QED
    BY <1>1, <1>2, <1>3, <2>1, Quiet DEF Rewriting
<1>4. CASE call.op # "open" /\ ~trusted
  <2>1. Lose
    BY <1>4 DEF LoadReadFails, IInv, GoodHistory, Lose, Settle
  <2> QED
    BY <1>1, <1>2, <2>1, Unprotected DEF Rewriting
<1>5. CASE call.op # "open" /\ trusted
  <2>1. /\ Passes(spt) /\ target = spt.table
        /\ \A c \in Copies : flash[c] = spt
    BY <1>1, <1>5 DEF IInv, Whole
  <2>2. spt' = spt
    BY <2>1 DEF LoadReadFails, Copies
  <2>3. committed' = target /\ target' = target
    BY <1>5 DEF LoadReadFails, Settle
  <2>4. CheckSpt(target) /\ target # Lost
    BY <1>5 DEF IInv, GoodHistory
  <2>5. GoodHistory' /\ Recoverable' /\ Agreeing' /\ Whole'
    BY <1>1, <1>5, <2>1, <2>2, <2>3, <2>4
       DEF GoodHistory, Recoverable, Agreeing, Whole, Copies
  <2>6. WritingBack' /\ WritingBackSafely' /\ Repairing'
    BY <1>1, <1>5 DEF WritingBack, WritingBackSafely, Repairing, Rewriting
  <2> QED
    BY <1>2, <2>5, <2>6 DEF IInv
<1> QED
  BY <1>3, <1>4, <1>5

LEMMA LoadSptInvariant == IInv /\ LoadSpt => IInv'
BY LoadSptType, LoadMatchedInvariant, LoadRepairInvariant, LoadUnmatchedInvariant,
   LoadNoneInvariant, LoadReadFailsInvariant DEF LoadSpt, IInv

-----------------------------------------------------------------------------
(* Flash operations *)

\* The copy that is not written stays as it is, so that the table can be found again.
LEMMA StaysRecoverable ==
  ASSUME IInv, Rewriting, todo # {}, UNCHANGED <<committed, target>>,
         NEW content, flash' = [flash EXCEPT ![Copy] = content]
  PROVE  /\ Recoverable' /\ GoodHistory'
         /\ \A c \in Copies : flash'[c] = IF c = Copy THEN content ELSE flash[c]
<1>1. \A c \in Copies : flash'[c] = IF c = Copy THEN content ELSE flash[c]
  BY DEF IInv, TypeOK
<1>2. Copy \in Copies /\ Other(Copy) \in Copies /\ Other(Copy) # Copy
  BY CopyInTodo, CopiesFacts
<1>3. Recoverable'
  BY <1>1, <1>2, OtherCopyIntact DEF Recoverable
<1>4. GoodHistory'
  BY DEF IInv, GoodHistory
<1> QED
  BY <1>1, <1>3, <1>4

LEMMA EraseCopyInvariant == IInv /\ TypeOK' /\ EraseCopy => IInv'
<1> SUFFICES ASSUME IInv, TypeOK', EraseCopy
             PROVE  IInv'
  OBVIOUS
<1>1. /\ pc = "erase" /\ todo # {} /\ Rewriting /\ pc' = "body" /\ Rewriting'
      /\ flash' = [flash EXCEPT ![Copy] = Blank]
      /\ UNCHANGED <<spt, corrupted, job, todo, call, committed, target, interrupted>>
  BY DEF EraseCopy, Rewriting, Outcome, memory, history
<1>2. /\ Recoverable' /\ GoodHistory'
      /\ \A c \in Copies : flash'[c] = IF c = Copy THEN Blank ELSE flash[c]
  BY <1>1, StaysRecoverable
<1>3. Copy \in todo /\ Copy \in Copies /\ Copy' = Copy /\ Complete' = Complete
  BY <1>1, CopyInTodo, CopyStays DEF Complete
<1>4. RewrittenCopy'
  BY <1>1, <1>2, <1>3 DEF RewrittenCopy
<1>5. Agreeing' /\ Whole'
  BY <1>1 DEF Agreeing, Whole, Idle
<1>6. WritingBack'
  BY <1>1, <1>2, <1>3, <1>4 DEF IInv, WritingBack
<1>7. WritingBackSafely'
  BY <1>1, <1>2, <1>3 DEF IInv, WritingBackSafely
<1>8. Repairing'
  <2> SUFFICES ASSUME job = "load_spt"
               PROVE  Repairing'
    BY <1>1 DEF Repairing
  <2>1. PICK c \in Copies : todo \subseteq {c} /\ flash[Other(c)] = Complete
    BY <1>1 DEF IInv, Repairing
  <2>2. Other(c) \in Copies /\ Other(c) # Copy
    BY <1>3, <2>1, CopiesFacts
  <2> QED
    BY <1>1, <1>2, <1>3, <1>4, <2>1, <2>2 DEF IInv, Repairing
<1>9. Control'
  BY <1>1 DEF IInv, Control, Idle
<1> QED
  BY <1>2, <1>5, <1>6, <1>7, <1>8, <1>9 DEF IInv

\* writeback_spt's checksum of a second copy is the one of the first.
LEMMA SumFacts ==
  ASSUME IInv, pc = "body"
  PROVE  /\ job = "load_spt" => Sum = spt.sum
         /\ job = "writeback_spt" /\ (trusted \/ call.op = "restore") =>
              /\ Checksums => Sum = TRUE
              /\ ~Checksums => Sum = spt.sum
BY ChecksumsAssumption DEF Sum, IInv, WritingBack, Rewriting

LEMMA WriteBodyInvariant == IInv /\ TypeOK' /\ WriteBody => IInv'
<1> SUFFICES ASSUME IInv, TypeOK', WriteBody
             PROVE  IInv'
  OBVIOUS
<1> DEFINE body == [magic |-> FALSE, sum |-> Sum, table |-> spt.table]
<1>1. /\ pc = "body" /\ todo # {} /\ Rewriting /\ pc' = "magic" /\ Rewriting'
      /\ flash' = [flash EXCEPT ![Copy] = body]
      /\ spt' = [spt EXCEPT !.magic = FALSE, !.sum = Sum]
      /\ UNCHANGED <<corrupted, job, todo, call, committed, target, interrupted>>
  BY DEF WriteBody, Rewriting, Outcome, history, IInv, Control
<1>2. /\ spt'.magic = FALSE /\ spt'.sum = Sum /\ spt'.table = spt.table
      /\ spt' \in Content /\ body = [spt' EXCEPT !.magic = FALSE]
  <2>1. /\ spt = [magic |-> spt.magic, sum |-> spt.sum, table |-> spt.table]
        /\ spt' \in Content
    BY DEF IInv, TypeOK, Content
  <2>2. spt' = body
    BY <1>1, <2>1
  <2>3. body.magic = FALSE /\ body.sum = Sum /\ body.table = spt.table
    OBVIOUS
  <2> HIDE DEF body
  <2>4. body \in Content
    BY <2>1, <2>2
  <2>5. body = [body EXCEPT !.magic = FALSE]
    BY <2>3, <2>4 DEF Content
  <2> QED
    BY <2>1, <2>2, <2>3, <2>5
<1> HIDE DEF body
<1>3. /\ Recoverable' /\ GoodHistory'
      /\ \A c \in Copies : flash'[c] = IF c = Copy THEN body ELSE flash[c]
  BY <1>1, StaysRecoverable
<1>4. Copy \in todo /\ Copy \in Copies /\ Copy' = Copy
  BY <1>1, <1>2, CopyInTodo, CopyStays
<1>5. RewrittenCopy'
  BY <1>1, <1>2, <1>3, <1>4 DEF RewrittenCopy
<1>6. Sum = spt.sum => Complete' = Complete
  <2>1. spt = [magic |-> spt.magic, sum |-> spt.sum, table |-> spt.table]
    BY DEF IInv, TypeOK, Content
  <2> QED
    BY <1>1, <2>1 DEF Complete
<1>7. Agreeing' /\ Whole'
  BY <1>1 DEF Agreeing, Whole, Idle
<1>8. WritingBack'
  <2> SUFFICES ASSUME job = "writeback_spt", trusted \/ call.op = "restore"
               PROVE  WritingBack'
    BY <1>1 DEF WritingBack
  <2>1. /\ Checksums => Sum = TRUE
        /\ ~Checksums => Sum = spt.sum
    BY <1>1, SumFacts
  <2>2. ASSUME NEW c \in Copies \ todo, Named(spt.table, c)
        PROVE  flash'[c] = Complete' /\ (Checksums => Sum)
    <3>1. flash[c] = Complete /\ (Checksums => spt.sum)
      BY <1>1, <2>2 DEF IInv, WritingBack
    <3>2. Sum = spt.sum
      BY <2>1, <3>1, ContentFacts DEF IInv, TypeOK
    <3> QED
      BY <1>3, <1>4, <1>6, <2>1, <3>1, <3>2
  <2> QED
    BY <1>1, <1>2, <1>5, <2>1, <2>2 DEF WritingBack
<1>9. WritingBackSafely'
  BY <1>1, <1>2, <1>3, <1>4 DEF IInv, WritingBackSafely
<1>10. Repairing'
  <2> SUFFICES ASSUME job = "load_spt"
               PROVE  Repairing'
    BY <1>1 DEF Repairing
  <2>1. PICK c \in Copies : todo \subseteq {c} /\ flash[Other(c)] = Complete
    BY <1>1 DEF IInv, Repairing
  <2>2. Other(c) \in Copies /\ Other(c) # Copy
    BY <1>4, <2>1, CopiesFacts
  <2>3. Complete' = Complete
    BY <1>1, <1>6, SumFacts
  <2>4. /\ trusted /\ committed = target /\ spt.table = target /\ Passes(Complete)
    BY <1>1 DEF IInv, Repairing
  <2> QED
    BY <1>1, <1>2, <1>3, <1>5, <2>1, <2>2, <2>3, <2>4 DEF Repairing
<1>11. Control'
  BY <1>1, <1>2 DEF IInv, Control, Idle
<1> QED
  BY <1>3, <1>7, <1>8, <1>9, <1>10, <1>11 DEF IInv

LEMMA WriteMagicInvariant == IInv /\ TypeOK' /\ WriteMagic => IInv'
<1> SUFFICES ASSUME IInv, TypeOK', WriteMagic
             PROVE  IInv'
  OBVIOUS
<1>1. /\ pc = "magic" /\ todo # {} /\ Rewriting /\ pc' = "erase" /\ Rewriting'
      /\ flash' = [flash EXCEPT ![Copy] = [flash[Copy] EXCEPT !.magic = TRUE]]
      /\ spt' = Complete /\ todo' = todo \ {Copy}
      /\ UNCHANGED <<corrupted, job, call, committed, target, interrupted>>
  BY DEF WriteMagic, Rewriting, Outcome, history, IInv, Control, Complete
<1>2. Copy \in todo /\ Copy \in Copies
  BY <1>1, CopyInTodo
<1>3. /\ spt'.magic = TRUE /\ spt'.sum = spt.sum /\ spt'.table = spt.table
      /\ Complete' = Complete
  BY <1>1, CompleteFacts, HasMagic DEF Complete
<1>4. /\ Recoverable' /\ GoodHistory'
      /\ \A c \in Copies : flash'[c] = IF c = Copy THEN [flash[Copy] EXCEPT !.magic = TRUE]
                                                   ELSE flash[c]
  BY <1>1, StaysRecoverable
<1>5. RewrittenCopy => flash'[Copy] = Complete
  <2>1. [[spt EXCEPT !.magic = FALSE] EXCEPT !.magic = TRUE] = Complete
    BY DEF Complete, IInv, TypeOK, Content
  <2> QED
    BY <1>1, <1>2, <1>4, <2>1 DEF RewrittenCopy
<1>6. Agreeing' /\ Whole'
  BY <1>1 DEF Agreeing, Whole, Idle
<1>7. WritingBack'
  <2> SUFFICES ASSUME job = "writeback_spt", trusted \/ call.op = "restore"
               PROVE  WritingBack'
    BY <1>1 DEF WritingBack
  <2>1. /\ RewrittenCopy /\ (Checksums => spt.sum)
        /\ \A c \in Copies \ todo :
             Named(spt.table, c) => flash[c] = Complete /\ (Checksums => spt.sum)
    BY <1>1 DEF IInv, WritingBack
  <2>2. ASSUME NEW c \in Copies \ todo', Named(spt.table, c)
        PROVE  flash'[c] = Complete' /\ (Checksums => spt.sum)
    BY <1>1, <1>3, <1>4, <1>5, <2>1, <2>2
  <2> QED
    BY <1>1, <1>3, <2>2 DEF WritingBack, RewrittenCopy
<1>8. WritingBackSafely'
  BY <1>1, <1>2, <1>3, <1>4 DEF IInv, WritingBackSafely
<1>9. Repairing'
  <2> SUFFICES ASSUME job = "load_spt"
               PROVE  Repairing'
    BY <1>1 DEF Repairing
  <2>1. PICK c \in Copies : todo \subseteq {c} /\ flash[Other(c)] = Complete
    BY <1>1 DEF IInv, Repairing
  <2>2. Other(c) \in Copies /\ Other(c) # Copy /\ Copy = c /\ todo' = {}
    BY <1>1, <1>2, <2>1, CopiesFacts
  <2>3. /\ trusted /\ committed = target /\ spt.table = target /\ Passes(Complete)
        /\ RewrittenCopy
    BY <1>1 DEF IInv, Repairing
  <2> QED
    BY <1>1, <1>3, <1>4, <1>5, <2>1, <2>2, <2>3 DEF Repairing, RewrittenCopy
<1>10. Control'
  BY <1>1, <1>3 DEF IInv, Control, Idle
<1> QED
  BY <1>4, <1>6, <1>7, <1>8, <1>9, <1>10 DEF IInv

LEMMA WriteFailsInvariant == IInv /\ TypeOK' /\ WriteFails => IInv'
<1> SUFFICES ASSUME IInv, TypeOK', WriteFails
             PROVE  IInv'
  OBVIOUS
<1>1. /\ Rewriting /\ todo # {} /\ todo' = {}
      /\ pc' = (IF call.op = "open" THEN "down" ELSE "idle")
      /\ interrupted' = TRUE
      /\ UNCHANGED <<corrupted, committed, target>>
      /\ \E content : flash' = [flash EXCEPT ![Copy] = content]
  BY DEF WriteFails, Abort, Rewriting, IInv, Control
<1>2. Recoverable' /\ GoodHistory'
  BY <1>1, StaysRecoverable
<1>3. Agreeing' /\ Whole' /\ WritingBack' /\ WritingBackSafely' /\ Repairing'
  BY <1>1 DEF Agreeing, Whole, WritingBack, WritingBackSafely, Repairing, Rewriting, Idle
<1>4. Control'
  BY <1>1 DEF IInv, Control, Rewriting, Idle
<1> QED
  BY <1>2, <1>3, <1>4 DEF IInv

-----------------------------------------------------------------------------
(* Ends of the functions that write *)

\* Both copies and memory hold a table that passes; a call returns, or loads it again.
LEMMA Rewritten ==
  ASSUME IInv, TypeOK', Control', ~ Rewriting', UNCHANGED <<flash, spt>>,
         Passes(spt), \A c \in Copies : flash[c] = spt,
         target' = spt.table,
         \/ pc' = "idle" /\ committed' = spt.table
         \/ pc' = "check" /\ committed' = committed /\ trusted
  PROVE  IInv'
<1>1. CheckSpt(spt.table) /\ spt.table # Lost
  BY ValidTable DEF Passes
<1>2. Agreeing' /\ Whole'
  BY DEF Agreeing, Whole, Idle, Copies
<1>3. GoodHistory' /\ Recoverable'
  BY <1>1 DEF IInv, GoodHistory, Recoverable, Copies
<1>4. WritingBack' /\ WritingBackSafely' /\ Repairing'
  BY DEF WritingBack, WritingBackSafely, Repairing, Rewriting
<1> QED
  BY <1>2, <1>3, <1>4 DEF IInv

LEMMA EndInvariant ==
  IInv /\ TypeOK' /\ (EndRepair \/ EndEdit \/ EndRestore \/ EndIncomplete) => IInv'
<1> SUFFICES ASSUME IInv, TypeOK', EndRepair \/ EndEdit \/ EndRestore \/ EndIncomplete
             PROVE  IInv'
  OBVIOUS
<1>0. pc = "erase" /\ todo = {} /\ Rewriting /\ UNCHANGED <<flash, spt, job, todo>>
  BY DEF EndRepair, EndEdit, EndRestore, EndIncomplete, Written, Rewriting, memory
<1>1. CASE EndRepair
  <2>1. /\ job = "load_spt" /\ pc' = "idle" /\ interrupted' = FALSE
        /\ UNCHANGED <<corrupted, committed, target>>
    BY <1>1 DEF EndRepair, Written, Proceed, Return, memory
  <2>2. trusted /\ committed = target
    BY <1>0, <2>1 DEF IInv, Repairing
  <2>3. /\ Passes(spt) /\ \A c \in Copies : flash[c] = spt
        /\ spt.table = target
    BY <1>0, <2>2, BothComplete
  <2>4. Control'
    BY <1>0, <2>1 DEF IInv, Control, Rewriting, Idle
  <2> QED
    BY <1>0, <2>1, <2>2, <2>3, <2>4, Rewritten DEF Rewriting
<1>2. CASE EndEdit
  <2>1. /\ job = "writeback_spt" /\ call.op # "restore" /\ pc' = "check"
        /\ UNCHANGED <<corrupted, call, committed, target, interrupted>>
    BY <1>2 DEF EndEdit, Written, memory, history
  <2>2. Control' /\ call.op # "open"
    BY <1>0, <2>1 DEF IInv, Control, Rewriting, Idle
  <2>3. CASE trusted
    <3>1. /\ Passes(spt) /\ \A c \in Copies : flash[c] = spt
          /\ spt.table = target
      BY <1>0, <2>3, BothComplete
    <3> QED
      BY <1>0, <2>1, <2>2, <2>3, <3>1, Rewritten DEF Rewriting
  <2>4. CASE ~trusted
    <3>1. Lose
      BY <2>1, <2>4 DEF Lose, Settle, IInv, GoodHistory
    <3> QED
      BY <2>1, <2>2, <3>1, Unprotected DEF Rewriting
  <2> QED
    BY <2>3, <2>4
<1>3. CASE EndRestore
  <2>1. /\ job = "writeback_spt" /\ call.op = "restore" /\ pc' = "idle"
        /\ \A c \in Copies : Named(spt.table, c)
        /\ corrupted' = FALSE /\ interrupted' = FALSE
    BY <1>3 DEF EndRestore, Written, Return
  <2>2. Control'
    BY <1>0, <2>1 DEF Control, Rewriting, Idle
  <2>3. CASE CheckSpt(spt.table)
    <3>1. Passes(spt) /\ \A c \in Copies : flash[c] = spt
      BY <1>0, <2>1, <2>3, BothComplete
    <3>2. committed' = spt.table /\ target' = spt.table
      BY <1>3, <2>3 DEF EndRestore, Settle
    <3> QED
      BY <1>0, <2>1, <2>2, <3>1, <3>2, Rewritten DEF Rewriting
  <2>4. CASE ~ CheckSpt(spt.table)
    BY <1>3, <2>1, <2>2, <2>4, Unprotected DEF EndRestore, Rewriting
  <2> QED
    BY <2>3, <2>4
<1>4. CASE EndIncomplete
  <2>1. /\ job = "writeback_spt" /\ pc' = "idle"
        /\ \E c \in Copies : ~ Named(spt.table, c)
        /\ UNCHANGED <<corrupted, committed, target, interrupted>>
    BY <1>4 DEF EndIncomplete, Written, Return, memory, history
  <2>2. ~trusted
    BY <1>0, <2>1, BothComplete, ValidTable
  <2>3. Control'
    BY <1>0, <2>1, <2>2 DEF IInv, Control, Rewriting, Idle
  <2>4. Lose
    BY <2>1, <2>2 DEF Lose, Settle, IInv, GoodHistory
  <2> QED
    BY <2>1, <2>3, <2>4, Unprotected DEF Rewriting
<1> QED
  BY <1>1, <1>2, <1>3, <1>4

-----------------------------------------------------------------------------
(* API calls *)

\* writeback_spt starts: with both copies whole and holding the table in use, or with
\* nothing to protect.
LEMMA WriteBackInvariant ==
  ASSUME IInv, TypeOK', Idle, NEW op \in {"create", "delete", "rename", "restore"},
         NEW content \in Content, (trusted' \/ op = "restore") => content.magic = TRUE,
         WriteBack(op, content), corrupted => op = "restore",
         \/ Begun(content.table) /\ (trusted' => CheckSpt(content.table))
         \/ Lose
  PROVE  IInv'
<1>1. /\ pc' = "erase" /\ Rewriting' /\ job' = "writeback_spt" /\ call'.op = op
      /\ spt' = content /\ todo' = {c \in Copies : Named(content.table, c)}
      /\ UNCHANGED <<flash, corrupted, interrupted>>
  BY DEF WriteBack, Rewriting
<1>2. ASSUME trusted'
      PROVE  /\ trusted /\ ~corrupted /\ ~interrupted
             /\ target' = content.table /\ committed' = committed
             /\ CheckSpt(content.table) /\ content.table # Lost
    BY <1>2, ValidTable DEF Begun, Lose, Settle
<1>3. trusted' => /\ committed = spt.table /\ CheckSpt(committed)
                  /\ \A c \in Copies : Passes(flash[c]) /\ flash[c].table = committed
  BY <1>2 DEF IInv, Whole, GoodHistory
<1>4. GoodHistory'
  <2>1. CASE trusted'
    BY <1>2, <1>3, <2>1 DEF GoodHistory
  <2>2. CASE ~trusted'
    BY <1>2, <2>2 DEF GoodHistory, Begun, Lose, Settle, IInv
  <2> QED
    BY <2>1, <2>2
<1>5. Recoverable'
  BY <1>1, <1>2, <1>3 DEF Recoverable, Copies
<1>6. Agreeing' /\ Whole' /\ Repairing'
  BY <1>1 DEF Agreeing, Whole, Repairing, Idle
<1>7. WritingBack'
  BY <1>1 DEF WritingBack, RewrittenCopy
<1>8. WritingBackSafely'
  BY <1>1, <1>2, <1>3 DEF WritingBackSafely
<1>9. Control'
  BY <1>1, <1>2 DEF Control, Idle
<1> QED
  BY <1>4, <1>5, <1>6, <1>7, <1>8, <1>9 DEF IInv

LEMMA EditInvariant ==
  ASSUME IInv, TypeOK', NEW op \in {"create", "delete", "rename"}, NEW t \in Table,
         Edit(op, t), CheckSpt(spt.table) => CheckSpt(t)
  PROVE  IInv'
<1> DEFINE content == [spt EXCEPT !.table = t]
<1>1. content \in Content /\ content.table = t /\ content.magic = spt.magic
  BY DEF IInv, TypeOK, Content
<1>2. Idle /\ ~corrupted /\ WriteBack(op, content) /\ Begun(content.table)
  BY <1>1 DEF Edit
<1> HIDE DEF content
<1>3. (trusted /\ ~interrupted) => Passes(spt)
  BY <1>2 DEF IInv, Whole
<1>4. trusted' => trusted /\ ~interrupted
  BY <1>2 DEF Begun, Lose, Settle
<1>5. trusted' => CheckSpt(content.table) /\ content.magic = TRUE
  BY <1>1, <1>3, <1>4, ContentFacts DEF Passes, IInv, TypeOK
<1> QED
  BY <1>1, <1>2, <1>5, WriteBackInvariant

LEMMA ApiInvariant == IInv /\ Api => IInv'
<1> SUFFICES ASSUME IInv, Api
             PROVE  IInv'
  OBVIOUS
<1>0. TypeOK' /\ spt.table \in Table
  BY ApiType, ContentFacts DEF IInv, TypeOK
<1>1. CASE Open
  <2>1. /\ pc = "down" /\ pc' = "check" /\ call'.op = "open" /\ corrupted' = FALSE
        /\ UNCHANGED <<flash, committed, target, interrupted>>
    BY <1>1 DEF Open, history
  <2>2. Control'
    BY <2>1 DEF Control, Rewriting
  <2> QED
    BY <1>0, <2>1, <2>2, Quiet DEF Rewriting
<1>2. ASSUME NEW name \in SlotNames, NEW request \in Requests, Create(name, request)
      PROVE  IInv'
  <2>1. Append(spt.table, NewSlot(name, request)) \in Table
    BY <1>0, EditedTable
  <2>2. CheckSpt(spt.table) => CheckSpt(Append(spt.table, NewSlot(name, request)))
    BY <1>0, <1>2, CreateKeepsValid, RequestsAssumption DEF Create
  <2> QED
    BY <1>0, <1>2, <2>1, <2>2, EditInvariant DEF Create
<1>3. ASSUME NEW n, Delete(n)
      PROVE  IInv'
  <2>1. PICK x \in Slot2Part(spt.table, n) : Edit("delete", Without(spt.table, x))
    BY <1>3 DEF Delete
  <2>2. x \in DOMAIN spt.table /\ IsSlot(spt.table[x])
    BY DEF Slot2Part
  <2>3. CheckSpt(spt.table) => CheckSpt(Without(spt.table, x))
    BY <1>0, <2>2, DeleteKeepsValid
  <2> QED
    BY <1>0, <2>1, <2>3, EditedTable, EditInvariant
<1>4. ASSUME NEW n, NEW name \in SlotNames, Rename(n, name)
      PROVE  IInv'
  <2>1. PICK x \in Slot2Part(spt.table, n) :
          ~ Named(spt.table, name) /\ Edit("rename", Renamed(spt.table, x, name))
    BY <1>4 DEF Rename
  <2>2. x \in DOMAIN spt.table /\ IsSlot(spt.table[x])
    BY DEF Slot2Part
  <2>3. CheckSpt(spt.table) => CheckSpt(Renamed(spt.table, x, name))
    BY <1>0, <2>1, <2>2, RenameKeepsValid
  <2> QED
    BY <1>0, <2>1, <2>3, EditedTable, EditInvariant
<1>5. ASSUME NEW t \in Backups, Restore(t)
      PROVE  IInv'
  <2> DEFINE content == [magic |-> TRUE, sum |-> TRUE, table |-> t]
  <2>1. content \in Content /\ content.table = t /\ content.magic = TRUE
    BY BackupsAssumption, ContentFacts
  <2>2. /\ Idle /\ WriteBack("restore", content)
        /\ (Begun(content.table) /\ CheckSpt(content.table)) \/ Lose
    BY <1>5, <2>1 DEF Restore
  <2> HIDE DEF content
  <2> QED
    BY <1>0, <2>1, <2>2, WriteBackInvariant
<1>6. ASSUME NEW t \in Backups, RestoreRefused(t)
      PROVE  IInv'
  <2>1. pc = "idle" /\ pc' = "idle" /\ UNCHANGED <<corrupted>> /\ Lose
    BY <1>6 DEF RestoreRefused, Idle
  <2>2. Control'
    BY <2>1 DEF Control, Rewriting, Idle, Lose, Settle
  <2> QED
    BY <1>0, <2>1, <2>2, Unprotected DEF Rewriting
<1> QED
  BY <1>1, <1>2, <1>3, <1>4, <1>5, <1>6 DEF Api

-----------------------------------------------------------------------------
(* The process or the board stops *)

LEMMA DownInvariant == IInv /\ (Stop \/ PowerFails) => IInv'
<1> SUFFICES ASSUME IInv, Stop \/ PowerFails
             PROVE  IInv'
  OBVIOUS
<1>0. TypeOK'
  BY DownType DEF IInv
<1>1. /\ pc' = "down" /\ corrupted' = FALSE
      /\ interrupted' = (interrupted \/ InFlight)
      /\ UNCHANGED <<committed, target>>
  BY DEF Stop, PowerFails, Down
<1>2. Control' /\ Whole' /\ WritingBack' /\ WritingBackSafely' /\ Repairing'
  BY <1>1 DEF Control, Whole, WritingBack, WritingBackSafely, Repairing, Rewriting, Idle
<1>3. CASE Stop
  <2>1. flash' = flash
    BY <1>3 DEF Stop
  <2>2. GoodHistory' /\ Recoverable'
    BY <1>1, <2>1 DEF IInv, GoodHistory, Recoverable
  <2>3. Agreeing'
    <3> SUFFICES ASSUME trusted, ~interrupted, ~InFlight
                 PROVE  flash["SPT0"] = flash["SPT1"] /\ Passes(flash["SPT0"])
      BY <1>1, <2>1 DEF Agreeing
    <3>1. CASE ~Rewriting
      BY <3>1 DEF IInv, Agreeing
    <3>2. CASE Rewriting
      <4>1. pc = "erase" /\ todo = {}
        BY <3>2 DEF Rewriting, InFlight, IInv, Control
      <4> QED
        BY <4>1, BothComplete DEF Copies
    <3> QED
      BY <3>1, <3>2
  <2> QED
    BY <1>0, <1>2, <2>2, <2>3 DEF IInv
<1>4. CASE PowerFails
  <2>1. /\ Rewriting /\ todo # {} /\ InFlight
        /\ \E content : flash' = [flash EXCEPT ![Copy] = content]
    BY <1>4 DEF PowerFails, InFlight, Rewriting
  <2>2. GoodHistory' /\ Recoverable'
    BY <1>1, <2>1, StaysRecoverable
  <2>3. Agreeing'
    BY <1>1, <2>1 DEF Agreeing
  <2> QED
    BY <1>0, <1>2, <2>2, <2>3 DEF IInv
<1> QED
  BY <1>3, <1>4

-----------------------------------------------------------------------------
(* Theorems *)

LEMMA NextInvariant == IInv /\ [Next]_vars => IInv'
<1> SUFFICES ASSUME IInv, [Next]_vars
             PROVE  IInv'
  OBVIOUS
<1>1. TypeOK'
  BY NextType DEF IInv
<1>2. CASE UNCHANGED vars
  <2>1. Copy' = Copy /\ Complete' = Complete
    BY <1>2, CopyStays DEF vars, Complete
  <2>2. GoodHistory' /\ Recoverable' /\ Agreeing' /\ Whole' /\ Control'
    BY <1>2 DEF vars, IInv, GoodHistory, Recoverable, Agreeing, Whole, Control,
                Rewriting, Idle
  <2>3. WritingBack' /\ WritingBackSafely' /\ Repairing'
    BY <1>2, <2>1 DEF vars, IInv, WritingBack, WritingBackSafely, Repairing,
                      RewrittenCopy, Rewriting
  <2> QED
    BY <1>1, <2>2, <2>3 DEF IInv
<1> QED
  BY <1>1, <1>2, LoadSptInvariant, EraseCopyInvariant, WriteBodyInvariant,
     WriteMagicInvariant, WriteFailsInvariant, EndInvariant, ApiInvariant,
     DownInvariant DEF Next, Step

\* At each step of the functions that write, memory, the copies and the history hold
\* what SptInvariant says.
THEOREM Invariance == Spec => []IInv
BY InitInvariant, NextInvariant, PTL DEF Spec

\* At every instant one copy passes every check of load_spt and holds the table from
\* before or after the edit in progress.
THEOREM CopySurvives == Spec => []OneCopySurvives
<1>1. IInv => OneCopySurvives
  BY DEF IInv, Recoverable, OneCopySurvives
<1> QED
  BY <1>1, Invariance, PTL

\* Between calls the table in memory is a valid one, and what both copies hold.
THEOREM MemoryAgrees == Spec => []MemoryMatchesFlash
<1>1. IInv => MemoryMatchesFlash
  BY DEF IInv, Whole, MemoryMatchesFlash
<1> QED
  BY <1>1, Invariance, PTL

\* The library calls the partition table corrupted only after a write that was cut
\* short.
THEOREM CorruptionCaused == Spec => []CorruptedHasCause
<1>1. IInv => CorruptedHasCause
  BY DEF IInv, Control, CorruptedHasCause
<1> QED
  BY <1>1, Invariance, PTL

LEMMA StepSettles ==
  ASSUME IInv, [Next]_vars, trusted
  PROVE  committed' \in {committed, target, Lost}
<1> USE DEF Settle, Lose, Begun, history
<1>1. CASE LoadSpt
  <2>1. CASE LoadMatched
    BY <2>1, Readable DEF LoadMatched
  <2>2. CASE LoadRepair
    BY <2>2, Readable DEF LoadRepair
  <2>3. CASE LoadUnmatched \/ LoadNone \/ LoadReadFails
    BY <2>3 DEF LoadUnmatched, LoadNone, LoadReadFails
  <2> QED
    BY <1>1, <2>1, <2>2, <2>3 DEF LoadSpt
<1>2. CASE EndRestore
  BY <1>2 DEF EndRestore, Written, Rewriting, IInv, WritingBackSafely
<1>3. CASE \/ EraseCopy \/ WriteBody \/ WriteMagic \/ WriteFails
           \/ EndRepair \/ EndEdit \/ EndIncomplete
  BY <1>3 DEF EraseCopy, WriteBody, WriteMagic, WriteFails, EndRepair, EndEdit,
              EndIncomplete
<1>4. CASE Api
  BY <1>4 DEF Api, Open, Create, Delete, Rename, Edit, Restore, RestoreRefused
<1>5. CASE Stop \/ PowerFails \/ UNCHANGED vars
  BY <1>5 DEF Stop, PowerFails, Down, vars
<1> QED
  BY <1>1, <1>2, <1>3, <1>4, <1>5 DEF Next, Step

\* Loading settles on the table from before or after an interrupted edit, and on no
\* third one.
THEOREM SettlesRight == Spec => SettlesOnOldOrNew
<1>1. IInv /\ [Next]_vars => [trusted => committed' \in {committed, target, Lost}]_vars
  BY StepSettles
<1> QED
  BY <1>1, Invariance, PTL DEF Spec, SettlesOnOldOrNew

-----------------------------------------------------------------------------
(* The list of slots that a table stands for *)

LEMMA ListIsSeq ==
  ASSUME NEW S, NEW n \in Nat, NEW f \in [1..n -> S]
  PROVE  f \in Seq(S) /\ Len(f) = n /\ DOMAIN f = 1..n
OBVIOUS

\* Slots are counted from one, without a gap; slot number n is in place n + 1.
LEMMA PlaceFacts ==
  ASSUME NEW t \in Table
  PROVE  LET n == Cardinality(SlotIndices(t))
         IN  /\ n \in Nat /\ IsFiniteSet(SlotIndices(t))
             /\ SlotIndices(t) \subseteq DOMAIN t /\ DOMAIN t = 1..Len(t) /\ Len(t) \in Nat
             /\ \A x \in SlotIndices(t) :
                  Place(t, x) \in 1..n /\ SlotNumber(t, x) = Place(t, x) - 1
             /\ \A x, y \in SlotIndices(t) : Place(t, x) = Place(t, y) => x = y
             /\ \A c \in 1..n : \E x \in SlotIndices(t) : Place(t, x) = c
<1> DEFINE L == SlotIndices(t)
           n == Cardinality(L)
<1>0. Len(t) \in Nat /\ DOMAIN t = 1..Len(t) /\ L \subseteq 1..Len(t)
  BY TableFacts DEF SlotIndices
<1>1. IsFiniteSet(L) /\ n \in Nat
  <2>1. IsFiniteSet(1..Len(t))
    BY <1>0, FS_Interval
  <2> HIDE DEF L
  <2> QED
    BY <1>0, <2>1, FS_Subset, FS_CardinalityType
<1>2. ASSUME NEW x \in L
      PROVE  Place(t, x) \in 1..n /\ SlotNumber(t, x) = Place(t, x) - 1
  <2> DEFINE S == {y \in L : y <= x}
  <2>1. S = Below(t, x) \cup {x} /\ x \notin Below(t, x)
    BY <1>0 DEF Below, SlotIndices
  <2>2. S \subseteq L
    OBVIOUS
  <2>3. IsFiniteSet(S) /\ Cardinality(S) \in Nat /\ Cardinality(S) <= n
    <3> HIDE DEF S, L
    <3> QED
      BY <1>1, <2>2, FS_Subset, FS_CardinalityType
  <2>4. IsFiniteSet(Below(t, x)) /\ Cardinality(Below(t, x)) \in Nat
    <3>1. Below(t, x) \subseteq S
      BY <2>1
    <3> QED
      BY <2>3, <3>1, FS_Subset, FS_CardinalityType
  <2>5. Cardinality(S) = Cardinality(Below(t, x)) + 1
    BY <2>1, <2>4, FS_AddElement
  <2>6. SlotNumber(t, x) = Cardinality(Below(t, x)) /\ Place(t, x) = Cardinality(S)
    BY DEF SlotNumber, Below, Place
  <2> QED
    BY <1>1, <2>3, <2>4, <2>5, <2>6
<1>3. ASSUME NEW x \in L, NEW y \in L, Place(t, x) = Place(t, y)
      PROVE  x = y
  <2>1. x \in Slot2Part(t, SlotNumber(t, x)) /\ y \in Slot2Part(t, SlotNumber(t, x))
    BY <1>2, <1>3 DEF Slot2Part, SlotIndices
  <2> QED
    BY <2>1, NumbersDiffer
<1>4. ASSUME NEW c \in 1..n
      PROVE  \E x \in L : Place(t, x) = c
  <2>1. c - 1 \in 0..(Cardinality({x \in DOMAIN t : IsSlot(t[x])}) - 1)
    BY <1>1 DEF SlotIndices
  <2>2. PICK x \in DOMAIN t : Slot2Part(t, c - 1) = {x}
    BY <2>1, NumberTaken
  <2>3. x \in L /\ SlotNumber(t, x) = c - 1
    BY <2>2 DEF Slot2Part, SlotIndices
  <2> QED
    BY <1>1, <1>2, <2>3
<1> QED
  BY <1>0, <1>1, <1>2, <1>3, <1>4

\* A list that has every slot in its place is the table's.
LEMMA IsSlotsOf ==
  ASSUME NEW t \in Table, NEW list,
         list = [i \in 1..Cardinality(SlotIndices(t)) |-> list[i]],
         \A x \in SlotIndices(t) : list[Place(t, x)] = t[x]
  PROVE  list = SlotsOf(t)
<1> SUFFICES ASSUME NEW i \in 1..Cardinality(SlotIndices(t))
             PROVE  list[i] = t[CHOOSE x \in SlotIndices(t) : Place(t, x) = i]
  BY DEF SlotsOf
<1>1. PICK x \in SlotIndices(t) : Place(t, x) = i
  BY PlaceFacts
<1>2. (CHOOSE y \in SlotIndices(t) : Place(t, y) = i) = x
  BY <1>1, PlaceFacts
<1> QED
  BY <1>1, <1>2

LEMMA SlotsFacts ==
  ASSUME NEW t \in Table
  PROVE  /\ SlotsOf(t) \in Seq(Partition) /\ Len(SlotsOf(t)) = Cardinality(SlotIndices(t))
         /\ DOMAIN SlotsOf(t) = 1..Cardinality(SlotIndices(t))
         /\ \A x \in SlotIndices(t) : SlotsOf(t)[Place(t, x)] = t[x]
         /\ \A i \in DOMAIN SlotsOf(t) :
              \E x \in SlotIndices(t) : Place(t, x) = i /\ SlotsOf(t)[i] = t[x]
<1>1. ASSUME NEW x \in SlotIndices(t)
      PROVE  SlotsOf(t)[Place(t, x)] = t[x]
  <2>1. (CHOOSE y \in SlotIndices(t) : Place(t, y) = Place(t, x)) = x
    BY PlaceFacts
  <2>2. Place(t, x) \in 1..Cardinality(SlotIndices(t))
    BY PlaceFacts
  <2> QED
    BY <2>1, <2>2 DEF SlotsOf
<1>2. PICK n \in Nat : n = Cardinality(SlotIndices(t))
  BY PlaceFacts
<1>3. SlotsOf(t) = [i \in 1..n |-> SlotsOf(t)[i]]
  BY <1>2 DEF SlotsOf
<1>4. ASSUME NEW i \in 1..n
      PROVE  \E x \in SlotIndices(t) : Place(t, x) = i /\ SlotsOf(t)[i] = t[x]
  BY <1>1, <1>2, PlaceFacts
<1>5. ASSUME NEW i \in 1..n
      PROVE  SlotsOf(t)[i] \in Partition
  <2>1. PICK x \in SlotIndices(t) : SlotsOf(t)[i] = t[x]
    BY <1>4
  <2> QED
    BY <2>1, TableFacts DEF SlotIndices
<1>6. SlotsOf(t) \in [1..n -> Partition]
  BY <1>3, <1>5
<1> HIDE DEF SlotsOf
<1> QED
  BY <1>1, <1>2, <1>4, <1>6, ListIsSeq

\* Slot number n of callers is entry n + 1 of the list.
LEMMA NumberIsPlace ==
  ASSUME NEW t \in Table, NEW n \in Nat, NEW x \in Slot2Part(t, n)
  PROVE  x \in SlotIndices(t) /\ Place(t, x) = n + 1 /\ n + 1 \in DOMAIN SlotsOf(t)
<1>1. x \in SlotIndices(t) /\ SlotNumber(t, x) = n
  BY DEF Slot2Part, SlotIndices
<1>2. PICK m \in Nat : m = Cardinality(SlotIndices(t))
  BY PlaceFacts
<1>3. Place(t, x) \in 1..m /\ n = Place(t, x) - 1
  BY <1>1, <1>2, PlaceFacts
<1> QED
  BY <1>1, <1>2, <1>3, SlotsFacts

\* What is in the list is in the table.
LEMMA NamedSlot ==
  ASSUME NEW t \in Table, NEW name, ~Named(t, name)
  PROVE  ~Named(SlotsOf(t), name)
<1> SUFFICES ASSUME NEW i \in DOMAIN SlotsOf(t), SlotsOf(t)[i].name = name
             PROVE  FALSE
  BY DEF Named
<1>1. PICK x \in SlotIndices(t) : SlotsOf(t)[i] = t[x]
  BY SlotsFacts
<1>2. x \in DOMAIN t
  BY DEF SlotIndices
<1> QED
  BY <1>1, <1>2 DEF Named

-----------------------------------------------------------------------------
(* What the edits do to the list *)

LEMMA AppendedSlots ==
  ASSUME NEW t \in Table, NEW p \in Partition, IsSlot(p)
  PROVE  SlotsOf(Append(t, p)) = Append(SlotsOf(t), p)
<1> DEFINE u == Append(t, p)
           list == SlotsOf(t)
           w == Append(list, p)
           L == SlotIndices(t)
<1>1. PICK n \in Nat, m \in Nat : n = Cardinality(L) /\ m = Len(t)
  BY PlaceFacts
<1>2. /\ IsFiniteSet(L) /\ L \subseteq 1..m /\ DOMAIN t = 1..m
      /\ \A x \in L : Place(t, x) \in 1..n
  BY <1>1, PlaceFacts
<1>3. /\ list \in Seq(Partition) /\ Len(list) = n
      /\ \A x \in L : list[Place(t, x)] = t[x]
  BY <1>1, SlotsFacts
<1>4. /\ u \in Table
      /\ \A x \in 1..m : u[x] = t[x]
      /\ u[m + 1] = p /\ DOMAIN u = 1..m \cup {m + 1}
  BY <1>1, <1>2, AppendedTable
<1> HIDE DEF u, list
<1>5. SlotIndices(u) = L \cup {m + 1} /\ m + 1 \notin L
  BY <1>1, <1>2, <1>4 DEF SlotIndices
<1>6. Cardinality(SlotIndices(u)) = n + 1
  <2> HIDE DEF L
  <2>1. Cardinality(L \cup {m + 1}) = Cardinality(L) + 1
    BY <1>2, <1>5, FS_AddElement
  <2> QED
    BY <1>1, <1>5, <2>1
<1>7. /\ w = [i \in 1..(n + 1) |-> w[i]] /\ w[n + 1] = p
      /\ \A i \in 1..n : w[i] = list[i]
  <2>1. w \in Seq(Partition) /\ Len(w) = n + 1
    BY <1>3
  <2>2. w[n + 1] = p /\ \A i \in 1..n : w[i] = list[i]
    BY <1>3
  <2>3. w = [i \in 1..(n + 1) |-> w[i]]
    <3> HIDE DEF w
    <3>1. w \in [1..Len(w) -> Partition]
      BY <2>1
    <3> QED
      BY <2>1, <3>1
  <2> QED
    BY <2>2, <2>3
<1> HIDE DEF w
<1>8. ASSUME NEW x \in L
      PROVE  w[Place(u, x)] = u[x]
  <2>1. {y \in SlotIndices(u) : y <= x} = {y \in L : y <= x}
    BY <1>1, <1>2, <1>5
  <2>2. Place(u, x) = Place(t, x)
    BY <2>1 DEF Place
  <2> QED
    BY <1>2, <1>3, <1>4, <1>7, <2>2
<1>9. w[Place(u, m + 1)] = u[m + 1]
  <2>1. \A y \in L \cup {m + 1} : y <= m + 1
    BY <1>1, <1>2
  <2>2. {y \in SlotIndices(u) : y <= m + 1} = SlotIndices(u)
    BY <1>5, <2>1
  <2>3. Place(u, m + 1) = n + 1
    BY <1>6, <2>2 DEF Place
  <2> QED
    BY <1>4, <1>7, <2>3
<1>10. w = SlotsOf(u)
  <2>1. \A x \in SlotIndices(u) : w[Place(u, x)] = u[x]
    BY <1>5, <1>8, <1>9
  <2>2. w = [i \in 1..Cardinality(SlotIndices(u)) |-> w[i]]
    BY <1>6, <1>7
  <2> QED
    BY <1>4, <2>1, <2>2, IsSlotsOf
<1> QED
  BY <1>10 DEF u, list, w

LEMMA RenamedSlots ==
  ASSUME NEW t \in Table, NEW x \in SlotIndices(t), NEW name \in SlotNames
  PROVE  SlotsOf(Renamed(t, x, name)) = Retitled(SlotsOf(t), Place(t, x), name)
<1> DEFINE u == Renamed(t, x, name)
           list == SlotsOf(t)
           w == Retitled(list, Place(t, x), name)
           L == SlotIndices(t)
<1>0. L \subseteq DOMAIN t /\ x \in DOMAIN t /\ IsSlot(t[x]) /\ t[x] \in Partition
  BY TableFacts DEF SlotIndices
<1>1. /\ u \in Table /\ DOMAIN u = DOMAIN t
      /\ \A y \in DOMAIN t : u[y] = IF y = x THEN [t[x] EXCEPT !.name = name] ELSE t[y]
  BY <1>0, RenamedFacts
<1> HIDE DEF u
<1>2. IsSlot([t[x] EXCEPT !.name = name])
  BY <1>0 DEF IsSlot, Partition
<1>3. SlotIndices(u) = L
  BY <1>0, <1>1, <1>2 DEF SlotIndices
<1>4. \A y \in L : Place(u, y) = Place(t, y)
  BY <1>3 DEF Place
<1>5. PICK n \in Nat : n = Cardinality(L)
  BY PlaceFacts
<1>6. /\ list \in Seq(Partition) /\ DOMAIN list = 1..n
      /\ \A y \in L : Place(t, y) \in 1..n /\ list[Place(t, y)] = t[y]
      /\ \A y \in L : Place(t, y) = Place(t, x) => y = x
  BY <1>5, SlotsFacts, PlaceFacts
<1> HIDE DEF list
<1>7. /\ w = [i \in 1..n |-> w[i]]
      /\ \A i \in 1..n : w[i] = IF i = Place(t, x) THEN [list[i] EXCEPT !.name = name]
                                                 ELSE list[i]
  BY <1>6 DEF Retitled
<1> HIDE DEF w, L
<1>8. ASSUME NEW y \in L
      PROVE  w[Place(u, y)] = u[y]
  <2>1. y \in DOMAIN t /\ x \in L
    BY <1>0 DEF L
  <2>2. CASE y = x
    BY <1>1, <1>4, <1>6, <1>7, <2>1, <2>2
  <2>3. CASE y # x
    BY <1>1, <1>4, <1>6, <1>7, <2>1, <2>3
  <2> QED
    BY <2>2, <2>3
<1>9. w = SlotsOf(u)
  <2>1. w = [i \in 1..Cardinality(SlotIndices(u)) |-> w[i]]
    BY <1>3, <1>5, <1>7
  <2>2. \A y \in SlotIndices(u) : w[Place(u, y)] = u[y]
    BY <1>3, <1>8
  <2>3. u \in Table
    BY <1>1
  <2> QED
    BY <2>1, <2>2, <2>3, IsSlotsOf
<1> QED
  BY <1>9 DEF u, w, list

\* Deleting an entry moves those behind it down.
LEMMA WithoutSlots ==
  ASSUME NEW t \in Table, NEW x \in SlotIndices(t)
  PROVE  SlotsOf(Without(t, x)) = Dropped(SlotsOf(t), Place(t, x))
<1> DEFINE u == Without(t, x)
           list == SlotsOf(t)
           w == Dropped(list, Place(t, x))
           L == SlotIndices(t)
           K == SlotIndices(u)
           From(y) == IF y < x THEN y ELSE y + 1
<1>1. PICK n \in Nat, m \in Nat : n = Cardinality(L) /\ m = Len(t)
  BY PlaceFacts
<1>2. /\ IsFiniteSet(L) /\ L \subseteq 1..m /\ DOMAIN t = 1..m
      /\ x \in L /\ x \in 1..m
      /\ \A y \in L : Place(t, y) \in 1..n
  BY <1>1, PlaceFacts
<1>3. /\ list \in Seq(Partition) /\ Len(list) = n
      /\ \A y \in L : list[Place(t, y)] = t[y]
  BY <1>1, SlotsFacts
<1>4. /\ u \in Table /\ Len(u) = m - 1 /\ DOMAIN u = 1..(m - 1)
      /\ \A y \in 1..(m - 1) : u[y] = t[From(y)]
  <2>1. u \in Table /\ Len(u) = m - 1
    BY <1>1, <1>2, WithoutFacts
  <2>2. DOMAIN u = 1..(m - 1) /\ \A y \in 1..(m - 1) : u[y] = t[From(y)]
    BY <1>1 DEF Without
  <2> QED
    BY <2>1, <2>2
<1> HIDE DEF u, list
<1>5. \A y \in K : /\ y \in 1..(m - 1) /\ From(y) \in L \ {x} /\ u[y] = t[From(y)]
  BY <1>1, <1>2, <1>4 DEF SlotIndices
<1>6. \A z \in L \ {x} : \E y \in K : From(y) = z
  <2> SUFFICES ASSUME NEW z \in L \ {x}
               PROVE  \E y \in K : From(y) = z
    OBVIOUS
  <2>1. PICK y \in 1..(m - 1) : From(y) = z
    <3>1. CASE z < x
      BY <1>1, <1>2, <3>1
    <3>2. CASE z > x
      <4>1. z - 1 \in 1..(m - 1) /\ From(z - 1) = z
        BY <1>1, <1>2, <3>2
      <4> QED
        BY <4>1
    <3> QED
      BY <1>2, <3>1, <3>2
  <2>2. y \in K
    BY <1>4, <2>1 DEF SlotIndices
  <2> QED
    BY <2>1, <2>2
<1>7. \A y, z \in K : (From(y) = From(z) => y = z) /\ (y <= z <=> From(y) <= From(z))
  BY <1>1, <1>2, <1>5
<1> HIDE DEF K, L, From
<1>8. IsFiniteSet(K)
  BY <1>4, PlaceFacts DEF K
\* The entries up to one of the table without x are those up to it of the old one.
<1>9. ASSUME NEW A \in SUBSET K, NEW B \in SUBSET (L \ {x}),
             \A y \in K : y \in A <=> From(y) \in B
      PROVE  Cardinality(A) = Cardinality(B)
  <2> DEFINE f == [y \in A |-> From(y)]
  <2>1. f \in [A -> B]
    BY <1>9
  <2>2. \A y, z \in A : f[y] = f[z] => y = z
    BY <1>7
  <2>3. \A b \in B : \E y \in A : f[y] = b
    BY <1>6, <1>9
  <2>4. ExistsBijection(A, B)
    <3>1. f \in Bijection(A, B)
      BY <2>1, <2>2, <2>3 DEF Bijection, Injection, Surjection, IsInjective
    <3> QED
      BY <3>1 DEF ExistsBijection
  <2>5. IsFiniteSet(A)
    BY <1>8, FS_Subset
  <2> QED
    BY <2>4, <2>5, FS_Bijection
<1>10. Cardinality(K) = n - 1
  <2>1. Cardinality(K) = Cardinality(L \ {x})
    BY <1>5, <1>9
  <2> QED
    BY <1>1, <1>2, <2>1, FS_RemoveElement
<1>11. /\ w = [i \in 1..(n - 1) |-> w[i]]
       /\ \A i \in 1..(n - 1) : w[i] = IF i < Place(t, x) THEN list[i] ELSE list[i + 1]
  BY <1>3 DEF Dropped
<1>12. ASSUME NEW y \in K
       PROVE  w[Place(u, y)] = u[y]
  <2> DEFINE z == From(y)
             B == {s \in L : s <= z}
             S == {s \in L : s <= x}
  <2>1. z \in L /\ z # x /\ u[y] = t[z] /\ z \in 1..m
    BY <1>2, <1>5
  <2>2. Place(u, y) = Cardinality(B \ {x})
    <3>1. {s \in K : s <= y} \in SUBSET K /\ B \ {x} \in SUBSET (L \ {x})
      OBVIOUS
    <3>2. \A s \in K : s \in {r \in K : r <= y} <=> From(s) \in B \ {x}
      BY <1>5, <1>7
    <3>3. Cardinality({s \in K : s <= y}) = Cardinality(B \ {x})
      BY <1>9, <3>1, <3>2
    <3> QED
      BY <3>3 DEF Place, K
  <2>3. Place(t, z) = Cardinality(B) /\ Place(t, x) = Cardinality(S)
    BY DEF Place, L
  <2> HIDE DEF z
  <2>4. IsFiniteSet(B) /\ IsFiniteSet(S)
    BY <1>2, FS_Subset
  <2>5. Cardinality(B \ {x}) = IF x \in B THEN Cardinality(B) - 1 ELSE Cardinality(B)
    BY <2>4, FS_RemoveElement
  <2>6. Place(t, z) \in 1..n /\ Place(t, x) \in 1..n /\ list[Place(t, z)] = t[z]
    BY <1>2, <1>3, <2>1
  <2>7. CASE z < x
    <3>1. x \notin B /\ x \in S /\ B \subseteq S
      <4>1. x <= x /\ ~(x <= z)
        BY <1>2, <2>1, <2>7
      <4>2. \A s \in L : s <= z => s <= x
        BY <1>2, <2>1, <2>7
      <4> QED
        BY <1>2, <4>1, <4>2
    <3>2. Cardinality(B) < Cardinality(S)
      <4>1. B # S
        BY <3>1
      <4> HIDE DEF B, S
      <4> QED
        BY <2>4, <3>1, <4>1, FS_Subset, FS_CardinalityType
    <3> HIDE DEF B, S, w
    <3>3. Place(t, z) < Place(t, x) /\ Place(t, z) \in 1..(n - 1)
      BY <2>3, <2>6, <3>2
    <3>4. Place(u, y) = Place(t, z)
      BY <2>2, <2>3, <2>5, <3>1
    <3> QED
      BY <1>11, <2>1, <2>6, <3>3, <3>4
  <2>8. CASE x < z
    <3>1. x \in B /\ z \in B /\ z \notin S /\ S \subseteq B
      <4>1. x <= z /\ z <= z /\ ~(z <= x)
        BY <1>2, <2>1, <2>8
      <4>2. \A s \in L : s <= x => s <= z
        BY <1>2, <2>1, <2>8
      <4> QED
        BY <1>2, <2>1, <4>1, <4>2
    <3>2. Cardinality(S) < Cardinality(B)
      <4>1. B # S
        BY <3>1
      <4> HIDE DEF B, S
      <4> QED
        BY <2>4, <3>1, <4>1, FS_Subset, FS_CardinalityType
    <3> HIDE DEF B, S, w
    <3>3. PICK j \in 1..(n - 1) : Place(t, z) = j + 1 /\ ~(j < Place(t, x))
      <4>1. PICK k \in Nat : k = Place(t, z) /\ k > Place(t, x) /\ k <= n
        BY <2>3, <2>6, <3>2
      <4>2. k - 1 \in 1..(n - 1) /\ k = (k - 1) + 1 /\ ~(k - 1 < Place(t, x))
        BY <2>6, <4>1
      <4> QED
        BY <4>1, <4>2
    <3>4. Place(u, y) = j
      BY <2>2, <2>3, <2>5, <3>1, <3>3
    <3> QED
      BY <1>11, <2>1, <2>6, <3>3, <3>4
  <2> QED
    BY <1>2, <2>1, <2>7, <2>8
<1> HIDE DEF w
<1>13. w = SlotsOf(u)
  <2>1. w = [i \in 1..Cardinality(SlotIndices(u)) |-> w[i]]
    BY <1>10, <1>11 DEF K
  <2>2. \A y \in SlotIndices(u) : w[Place(u, y)] = u[y]
    BY <1>12 DEF K
  <2> QED
    BY <1>4, <2>1, <2>2, IsSlotsOf
<1> QED
  BY <1>13 DEF u, w, list

\* The critical partitions are no slots.
LEMMA RoomLeft ==
  ASSUME NEW t \in Table, CheckSpt(t), Len(t) < MaxPartitions
  PROVE  Len(SlotsOf(t)) < Capacity
<1> DEFINE L == SlotIndices(t)
           x == [name \in Critical |-> CHOOSE y \in DOMAIN t : t[y].name = name]
           C == {x[name] : name \in Critical}
<1>1. \A name \in Critical : x[name] \in DOMAIN t /\ t[x[name]].name = name
  BY DEF CheckSpt, Named
<1>2. x \in Bijection(Critical, C)
  <2>1. \A a, b \in Critical : x[a] = x[b] => a = b
    BY <1>1
  <2> HIDE DEF x
  <2>2. x \in [Critical -> C]
    <3>1. x = [name \in Critical |-> x[name]]
      BY DEF x
    <3> QED
      BY <3>1
  <2> QED
    BY <2>1, <2>2 DEF Bijection, Injection, Surjection, IsInjective
<1>3. IsFiniteSet(Critical) /\ Cardinality(Critical) \in Nat
  <2>1. IsFiniteSet({} \cup {"SPT0"})
    BY FS_EmptySet, FS_AddElement
  <2>2. IsFiniteSet(({} \cup {"SPT0"}) \cup {"SPT1"})
    BY <2>1, FS_AddElement
  <2>3. IsFiniteSet((({} \cup {"SPT0"}) \cup {"SPT1"}) \cup {"CPB0"})
    BY <2>2, FS_AddElement
  <2>4. IsFiniteSet(((({} \cup {"SPT0"}) \cup {"SPT1"}) \cup {"CPB0"}) \cup {"CPB1"})
    BY <2>3, FS_AddElement
  <2>5. Critical = ((({} \cup {"SPT0"}) \cup {"SPT1"}) \cup {"CPB0"}) \cup {"CPB1"}
    BY DEF Critical
  <2> QED
    BY <2>4, <2>5, FS_CardinalityType
<1>4. IsFiniteSet(C) /\ Cardinality(C) = Cardinality(Critical)
  BY <1>2, <1>3, FS_Bijection DEF ExistsBijection
<1> HIDE DEF x
<1>5. L \cap C = {} /\ L \cup C \subseteq DOMAIN t
  BY <1>1 DEF SlotIndices, IsSlot, Reserved
<1> HIDE DEF C, L
<1>6. PICK m \in Nat, n \in Nat :
        /\ m = Len(t) /\ DOMAIN t = 1..m /\ n = Cardinality(L) /\ IsFiniteSet(L)
  BY PlaceFacts DEF L
<1>7. Cardinality(L \cup C) = Cardinality(L) + Cardinality(C)
  BY <1>4, <1>5, <1>6, FS_Union, FS_EmptySet, FS_CardinalityType
<1>8. Cardinality(L \cup C) <= m
  <2>1. IsFiniteSet(1..m) /\ Cardinality(1..m) = m
    <3>1. Cardinality(1..m) = IF 1 > m THEN 0 ELSE m - 1 + 1
      BY FS_Interval
    <3> QED
      BY <3>1, FS_Interval
  <2>2. L \cup C \in SUBSET (1..m)
    BY <1>5, <1>6
  <2>3. Cardinality(L \cup C) <= Cardinality(1..m)
    BY <2>1, <2>2, FS_Subset
  <2> QED
    BY <2>1, <2>3
<1>9. Len(SlotsOf(t)) = n
  BY <1>6, SlotsFacts DEF L
<1> QED
  BY <1>3, <1>4, <1>6, <1>7, <1>8, <1>9 DEF Capacity

-----------------------------------------------------------------------------
(* The steps of the list *)

ServingSpt == Idle /\ ~corrupted /\ ~interrupted
Within == pc \notin {"down", "idle"}

\* What the control state says about the list.
Mapped ==
  /\ ~trusted => /\ Mode = "unsafe" /\ ListValue = None /\ ListNext = None
                 /\ ListView = None
  /\ trusted => ListValue = SlotsOf(committed) /\ ListNext = SlotsOf(target)
  /\ trusted /\ pc = "down" => Mode = "off" /\ ListView = None
  /\ trusted /\ Within => Mode = "busy" /\ ListView = None
  /\ trusted /\ Idle /\ (corrupted \/ interrupted) => Mode = "refused" /\ ListView = None
  /\ trusted /\ ServingSpt => Mode = "serving" /\ ListView = SlotsOf(spt.table)

LEMMA MappedNow == Mapped
<1>1. CASE ~trusted
  BY <1>1 DEF Mapped, Mode, ListValue, ListNext, ListView
<1>2. CASE trusted
  <2>1. ListValue = SlotsOf(committed) /\ ListNext = SlotsOf(target)
    BY <1>2 DEF ListValue, ListNext
  <2>2. pc = "down" => Mode = "off"
    <3>1. pc = "down" => ~Idle
      BY DEF Idle
    <3> QED
      BY <1>2, <3>1 DEF Mode
  <2>3. Within => Mode = "busy"
    BY <1>2 DEF Mode, Within, Idle
  <2>4. Idle /\ (corrupted \/ interrupted) => Mode = "refused"
    BY <1>2 DEF Mode, Idle
  <2>5. ServingSpt => Mode = "serving"
    BY <1>2 DEF Mode, ServingSpt, Idle
  <2> QED
    BY <1>2, <2>1, <2>2, <2>3, <2>4, <2>5 DEF Mapped, ListView
<1> QED
  BY <1>1, <1>2

LEMMA MappedNext == Mapped'
BY MappedNow, PTL

\* Each kind of step, by what it does to the tables.
ListStep == [List!Next]_(List!vars)

LEMMA Stutters ==
  ASSUME Within /\ Within', UNCHANGED <<committed, target>>
  PROVE  ListStep
BY MappedNow, MappedNext DEF ListStep, Mapped, List!vars

LEMMA StaysLost ==
  ASSUME ~trusted, ~trusted'
  PROVE  ListStep
BY MappedNow, MappedNext DEF ListStep, Mapped, List!vars

LEMMA Loses ==
  ASSUME trusted, ~trusted', pc # "down"
  PROVE  ListStep
<1>1. Mode # "off"
  BY MappedNow DEF Mapped, Within, ServingSpt, Idle
<1>2. List!Lose
  BY <1>1, MappedNext DEF Mapped, List!Lose
<1> QED
  BY <1>2 DEF ListStep, List!Next

LEMMA Boots ==
  ASSUME pc = "down", Within', UNCHANGED <<committed, target>>
  PROVE  ListStep
<1>1. CASE trusted
  <2>1. List!Boot
    BY <1>1, MappedNow, MappedNext DEF Mapped, List!Boot
  <2> QED
    BY <2>1 DEF ListStep, List!Next, List!Boot
<1> QED
  BY <1>1, StaysLost

LEMMA Halts ==
  ASSUME trusted, pc' = "down", UNCHANGED <<committed, target>>
  PROVE  ListStep
<1>1. Mode # "unsafe"
  BY MappedNow DEF Mapped, Within, ServingSpt, Idle
<1>2. List!Halt
  BY MappedNow, MappedNext DEF Mapped, List!Halt
<1> QED
  BY <1>1, <1>2 DEF ListStep, List!Next

LEMMA Refuses ==
  ASSUME trusted, Within, Idle', corrupted' \/ interrupted',
         UNCHANGED <<committed, target>>
  PROVE  ListStep
<1>1. List!Refuse
  BY MappedNow, MappedNext DEF Mapped, List!Refuse
<1> QED
  BY <1>1 DEF ListStep, List!Next, List!Refuse

LEMMA Settles ==
  ASSUME trusted, trusted', Within, committed' \in {committed, target},
         target' = committed', Within' \/ (ServingSpt' /\ spt'.table = committed')
  PROVE  ListStep
<1>1. ListValue' \in {ListValue, ListNext} /\ ListNext' = ListValue'
  BY MappedNow, MappedNext DEF Mapped
<1>2. List!Settle
  BY <1>1, MappedNow, MappedNext DEF Mapped, List!Settle
<1> QED
  BY <1>2 DEF ListStep, List!Next, List!Settle

LEMMA FoundFacts ==
  ASSUME NEW t \in Table, CheckSpt(t)
  PROVE  FoundAgain(SlotsOf(t))
<1> SUFFICES ASSUME NEW i \in DOMAIN SlotsOf(t), NEW j \in DOMAIN SlotsOf(t), i # j
             PROVE  /\ SlotsOf(t)[i].name # SlotsOf(t)[j].name
                    /\ ~Overlap(SlotsOf(t)[i], SlotsOf(t)[j])
  BY DEF FoundAgain
<1>1. PICK x \in SlotIndices(t) : Place(t, x) = i /\ SlotsOf(t)[i] = t[x]
  BY SlotsFacts
<1>2. PICK y \in SlotIndices(t) : Place(t, y) = j /\ SlotsOf(t)[j] = t[y]
  BY SlotsFacts
<1>3. x # y /\ x \in DOMAIN t /\ y \in DOMAIN t
  BY <1>1, <1>2 DEF SlotIndices
<1> QED
  BY <1>1, <1>2, <1>3 DEF CheckSpt

LEMMA Recovers ==
  ASSUME ~trusted, trusted', target' = committed', committed' \in Table,
         CheckSpt(committed'), Within' \/ (ServingSpt' /\ spt'.table = committed')
  PROVE  ListStep
<1>1. FoundAgain(SlotsOf(committed'))
  BY FoundFacts
<1>2. List!Recover
  BY <1>1, MappedNow, MappedNext DEF Mapped, List!Recover
<1> QED
  BY <1>2 DEF ListStep, List!Next

LEMMA CallsList ==
  ASSUME trusted, trusted', ServingSpt, Within', committed' = committed,
         SlotsOf(target') \in ListEdits(SlotsOf(committed)) \cup ListReplacements
  PROVE  ListStep
<1>1. List!Call
  BY MappedNow, MappedNext DEF Mapped, List!Call
<1> QED
  BY <1>1 DEF ListStep, List!Next, List!Call

-----------------------------------------------------------------------------
(* Each step of the partition table is one of the list, or none *)

LEMMA NextReloading == IInv /\ Reloading /\ [Next]_vars => Reloading'
<1> SUFFICES ASSUME IInv, Reloading, [Next]_vars, trusted',
                    pc' = "check", call'.op # "open"
             PROVE  ~interrupted'
  BY DEF Reloading
<1>1. CASE UNCHANGED vars
  BY <1>1 DEF vars, Reloading
<1>2. CASE EndEdit
  BY <1>2 DEF EndEdit, Written, Rewriting, history, IInv, WritingBackSafely
<1>3. CASE LoadSpt
  BY <1>3 DEF LoadSpt, LoadMatched, LoadUnmatched, LoadRepair, LoadNone, LoadReadFails,
     Proceed, ReportCorrupted, Return, Abort
<1>4. CASE \/ EraseCopy \/ WriteBody \/ WriteMagic \/ EndRepair \/ EndRestore
           \/ EndIncomplete \/ WriteFails
  BY <1>4 DEF EraseCopy, WriteBody, WriteMagic, EndRepair, EndRestore, EndIncomplete,
     WriteFails, Proceed, Return, Abort
<1>5. CASE Open
  BY <1>5 DEF Open
<1>6. ASSUME NEW op, NEW content, WriteBack(op, content)
      PROVE  FALSE
  BY <1>6 DEF WriteBack
<1>7. CASE Api /\ ~Open
  BY <1>6, <1>7 DEF Api, Create, Delete, Rename, Edit, Restore, RestoreRefused, Idle
<1>8. CASE Stop \/ PowerFails
  BY <1>8 DEF Stop, PowerFails, Down
<1> QED
  BY <1>1, <1>2, <1>3, <1>4, <1>5, <1>7, <1>8 DEF Next, Step

LEMMA InitList == Init => List!Init
<1> SUFFICES ASSUME Init
             PROVE  List!Init
  OBVIOUS
<1>1. trusted /\ pc = "down" /\ committed = Provisioned /\ target = Provisioned
  BY ValidTable DEF Init
<1> QED
  BY <1>1, MappedNow DEF Mapped, List!Init

\* The table that a load or a restored table settles on.
LEMMA SettlesList ==
  ASSUME Within, NEW t \in Table, CheckSpt(t), trusted => t \in {committed, target},
         Settle(t), Within' \/ (ServingSpt' /\ spt'.table = t)
  PROVE  ListStep
<1>1. committed' = t /\ target' = t /\ trusted'
  BY ValidTable DEF Settle
<1>2. trusted => ListStep
  BY <1>1, Settles
<1>3. ~trusted => ListStep
  BY <1>1, Recovers
<1> QED
  BY <1>2, <1>3

LEMMA LoadList ==
  ASSUME IInv, Reloading, LoadSpt
  PROVE  ListStep
<1>0. pc = "check" /\ Within /\ ~corrupted
  BY DEF LoadSpt, LoadMatched, LoadUnmatched, LoadRepair, LoadNone, LoadReadFails, Within,
     IInv, Control, Idle, Rewriting
<1>1. \A c \in Copies : flash[c].table \in Table
  BY ContentFacts DEF IInv, TypeOK
<1>2. CASE LoadMatched
  <2> DEFINE t == flash["SPT0"].table
  <2>1. t \in Table /\ CheckSpt(t) /\ (trusted => t \in {committed, target})
    BY <1>1, <1>2, Readable DEF LoadMatched, Passing, Passes, Copies
  <2>2. Settle(t) /\ spt'.table = t /\ ServingSpt'
    BY <1>0, <1>2 DEF LoadMatched, Proceed, Return, ServingSpt, Idle
  <2> HIDE DEF t
  <2> QED
    BY <1>0, <2>1, <2>2, SettlesList
<1>3. CASE LoadRepair
  <2>1. PICK c \in Copies : Passing = {c} /\ Settle(flash[c].table)
    BY <1>3 DEF LoadRepair
  <2> DEFINE t == flash[c].table
  <2>2. t \in Table /\ CheckSpt(t) /\ (trusted => t \in {committed, target})
    BY <1>1, <2>1, Readable DEF Passing, Passes
  <2>3. Within'
    BY <1>3 DEF LoadRepair, Within
  <2> HIDE DEF t
  <2> QED
    BY <1>0, <2>1, <2>2, <2>3, SettlesList DEF t
<1>4. CASE LoadUnmatched \/ LoadNone
  <2>1. /\ UNCHANGED <<committed, target>> \/ ~trusted'
        /\ Idle' /\ corrupted'
    BY <1>4
    DEF LoadUnmatched, LoadNone, Lose, Settle, ReportCorrupted, Return, Idle, history
  <2> QED
    BY <1>0, <2>1, Refuses, StaysLost, Loses
<1>5. CASE LoadReadFails /\ call.op = "open"
  <2>1. pc' = "down" /\ UNCHANGED <<committed, target>>
    BY <1>5 DEF LoadReadFails, Abort
  <2> QED
    BY <2>1, Halts, StaysLost
<1>6. CASE LoadReadFails /\ call.op # "open"
  <2>1. /\ Idle' /\ committed' = target /\ target' = target
        /\ UNCHANGED <<corrupted, interrupted>>
        /\ spt' \in {spt, flash["SPT0"], flash["SPT1"]}
    BY <1>6 DEF LoadReadFails, Settle, Abort, Idle
  <2>2. CASE trusted
    <3>1. spt'.table = target
      BY <1>0, <1>6, <2>1, <2>2 DEF IInv, Whole, Copies
    <3>2. ServingSpt'
      BY <1>0, <1>6, <2>1, <2>2 DEF Reloading, ServingSpt, Idle
    <3>3. trusted'
      BY <2>1, <2>2 DEF IInv, GoodHistory
    <3> QED
      BY <1>0, <2>1, <2>2, <3>1, <3>2, <3>3, Settles
  <2>3. CASE ~trusted
    <3>1. ~trusted'
      BY <2>1, <2>3 DEF IInv, GoodHistory
    <3> QED
      BY <2>3, <3>1, StaysLost
  <2> QED
    BY <2>2, <2>3
<1> QED
  BY <1>2, <1>3, <1>4, <1>5, <1>6 DEF LoadSpt

LEMMA WriteList ==
  ASSUME IInv,
         \/ EraseCopy \/ WriteBody \/ WriteMagic \/ EndRepair \/ EndEdit \/ EndRestore
         \/ EndIncomplete \/ WriteFails
  PROVE  ListStep
<1> USE DEF history, memory
<1>0. pc \in {"erase", "body", "magic"} /\ Within /\ Rewriting
  BY DEF EraseCopy, WriteBody, WriteMagic, EndRepair, EndEdit, EndRestore, EndIncomplete,
     WriteFails, Written, Within, Rewriting
<1>1. CASE EraseCopy \/ WriteBody \/ WriteMagic \/ EndEdit
  <2>1. Within' /\ UNCHANGED <<committed, target>>
    BY <1>1 DEF EraseCopy, WriteBody, WriteMagic, EndEdit, Within
  <2> QED
    BY <1>0, <2>1, Stutters
<1>2. CASE EndRepair
  <2>1. job = "load_spt" /\ Idle' /\ UNCHANGED <<committed, target, corrupted, spt>>
        /\ interrupted' = FALSE
    BY <1>2 DEF EndRepair, Written, Proceed, Return, Idle
  <2>2. trusted /\ committed = target /\ spt.table = target /\ ~corrupted
    BY <1>0, <2>1 DEF IInv, Repairing, Control, Idle, Rewriting
  <2>3. ServingSpt'
    BY <2>1, <2>2 DEF ServingSpt, Idle
  <2> QED
    BY <1>0, <2>1, <2>2, <2>3, Settles
<1>3. CASE EndRestore
  <2>1. Idle' /\ corrupted' = FALSE /\ interrupted' = FALSE /\ spt' = spt
        /\ spt.table \in Table /\ job = "writeback_spt"
    BY <1>3, ContentFacts DEF EndRestore, Written, Return, Idle, IInv, TypeOK
  <2>2. CASE CheckSpt(spt.table)
    <3>1. Settle(spt.table)
      BY <1>3, <2>2 DEF EndRestore
    <3>2. trusted => spt.table = target
      BY <1>0, <2>1 DEF IInv, WritingBackSafely
    <3>3. ServingSpt' /\ spt'.table = spt.table
      BY <2>1 DEF ServingSpt, Idle
    <3> QED
      BY <1>0, <2>1, <2>2, <3>1, <3>2, <3>3, SettlesList
  <2>3. CASE ~CheckSpt(spt.table)
    <3>1. ~trusted'
      BY <1>3, <2>3 DEF EndRestore, Lose, Settle
    <3> QED
      BY <1>0, <3>1, Loses, StaysLost
  <2> QED
    BY <2>2, <2>3
<1>4. CASE EndIncomplete
  <2>1. ~trusted
    <3> SUFFICES ASSUME trusted
                 PROVE  FALSE
      OBVIOUS
    <3>1. job = "writeback_spt" /\ \E c \in Copies : ~Named(spt.table, c)
      BY <1>4 DEF EndIncomplete, Written
    <3>2. spt.table = target /\ CheckSpt(target)
      BY <1>0, <3>1 DEF IInv, WritingBackSafely, GoodHistory
    <3> QED
      BY <3>1, <3>2, ValidTable
  <2>2. UNCHANGED <<committed, target>>
    BY <1>4 DEF EndIncomplete
  <2> QED
    BY <2>1, <2>2, StaysLost
<1>5. CASE WriteFails
  <2>1. UNCHANGED <<committed, target>> /\ interrupted' = TRUE /\ (pc' = "down" \/ Idle')
    BY <1>5 DEF WriteFails, Abort, Idle
  <2> QED
    BY <1>0, <2>1, Halts, Refuses, StaysLost
<1> QED
  BY <1>1, <1>2, <1>3, <1>4, <1>5

\* An edit of the table that is an edit of its list.
LEMMA EditList ==
  ASSUME IInv, NEW op, NEW t \in Table, NEW content,
         WriteBack(op, content), Begun(t), Idle,
         trusted /\ ~corrupted /\ ~interrupted =>
           SlotsOf(t) \in ListEdits(SlotsOf(spt.table)) \cup ListReplacements
  PROVE  ListStep
<1>1. Within' /\ pc # "down"
  BY DEF WriteBack, Within, Idle
<1>2. CASE trusted /\ ~corrupted /\ ~interrupted
  <2>1. ServingSpt /\ committed' = committed /\ target' = t /\ committed = spt.table
    BY <1>2 DEF Begun, ServingSpt, IInv, Whole
  <2> QED
    BY <1>1, <1>2, <2>1, CallsList
<1>3. CASE ~(trusted /\ ~corrupted /\ ~interrupted)
  <2>1. ~trusted'
    BY <1>3 DEF Begun, Lose, Settle
  <2> QED
    BY <1>1, <2>1, Loses, StaysLost
<1> QED
  BY <1>2, <1>3

\* What the calls do to the numbered list.
LEMMA CreateSlots ==
  ASSUME NEW t \in Table, CheckSpt(t), NEW name \in SlotNames, NEW request \in Requests,
         ~Named(t, name), Len(t) < MaxPartitions,
         \A x \in DOMAIN t : ~Overlap(t[x], NewSlot(name, request))
  PROVE  SlotsOf(Append(t, NewSlot(name, request))) \in ListEdits(SlotsOf(t))
<1> DEFINE slot == NewSlot(name, request)
           list == SlotsOf(t)
<1>1. slot \in Partition /\ slot.name = name /\ IsSlot(slot)
  BY NewSlotFacts DEF NewSlot, IsSlot
<1>2. SlotsOf(Append(t, slot)) = Append(list, slot)
  BY <1>1, AppendedSlots
<1>3. Len(list) < Capacity /\ ~Named(list, slot.name)
  BY <1>1, RoomLeft, NamedSlot
<1>4. \A i \in DOMAIN list : ~Overlap(list[i], slot)
  <2> SUFFICES ASSUME NEW i \in DOMAIN list
               PROVE  ~Overlap(list[i], slot)
    OBVIOUS
  <2>1. PICK x \in SlotIndices(t) : list[i] = t[x]
    BY SlotsFacts
  <2> QED
    BY <2>1 DEF SlotIndices
<1>5. slot \in {NewSlot(m, r) : m \in SlotNames, r \in Requests}
  OBVIOUS
<1> HIDE DEF slot, list
<1> QED
  BY <1>2, <1>3, <1>4, <1>5 DEF ListEdits, slot, list

LEMMA DeleteSlots ==
  ASSUME NEW t \in Table, NEW n \in 0..MaxPartitions, NEW x \in Slot2Part(t, n)
  PROVE  /\ SlotsOf(Without(t, x)) = Dropped(SlotsOf(t), n + 1)
         /\ SlotsOf(Without(t, x)) \in ListEdits(SlotsOf(t))
<1>1. x \in SlotIndices(t) /\ Place(t, x) = n + 1 /\ n + 1 \in DOMAIN SlotsOf(t)
  BY NumberIsPlace
<1>2. SlotsOf(Without(t, x)) = Dropped(SlotsOf(t), n + 1)
  BY <1>1, WithoutSlots
<1> QED
  BY <1>1, <1>2 DEF ListEdits

LEMMA RenameSlots ==
  ASSUME NEW t \in Table, NEW n \in 0..MaxPartitions, NEW x \in Slot2Part(t, n),
         NEW name \in SlotNames, ~Named(t, name)
  PROVE  /\ SlotsOf(Renamed(t, x, name)) = Retitled(SlotsOf(t), n + 1, name)
         /\ SlotsOf(Renamed(t, x, name)) \in ListEdits(SlotsOf(t))
<1> DEFINE list == SlotsOf(t)
<1>1. x \in SlotIndices(t) /\ Place(t, x) = n + 1 /\ n + 1 \in DOMAIN list
  BY NumberIsPlace
<1>2. SlotsOf(Renamed(t, x, name)) = Retitled(list, n + 1, name)
  BY <1>1, RenamedSlots
<1>3. name \in {m \in SlotNames : ~Named(list, m)}
  BY NamedSlot
<1> HIDE DEF list
<1> QED
  BY <1>1, <1>2, <1>3 DEF ListEdits, list

LEMMA ApiList ==
  ASSUME IInv, Api
  PROVE  ListStep
<1>0. /\ spt.table \in Table
      /\ trusted /\ Idle /\ ~corrupted /\ ~interrupted => CheckSpt(spt.table)
  BY ContentFacts DEF IInv, TypeOK, Whole, Passes
<1>1. CASE Open
  BY <1>1, Boots DEF Open, Within, history
<1>2. ASSUME NEW name \in SlotNames, NEW request \in Requests, Create(name, request)
      PROVE  ListStep
  <2> DEFINE t == Append(spt.table, NewSlot(name, request))
  <2>1. t \in Table
    BY <1>0, EditedTable
  <2>2. /\ ~Named(spt.table, name) /\ Len(spt.table) < MaxPartitions
        /\ \A x \in DOMAIN spt.table : ~Overlap(spt.table[x], NewSlot(name, request))
        /\ Edit("create", t)
    BY <1>2 DEF Create
  <2>3. trusted /\ Idle /\ ~corrupted /\ ~interrupted =>
          SlotsOf(t) \in ListEdits(SlotsOf(spt.table))
    BY <1>0, <2>2, CreateSlots
  <2> HIDE DEF t
  <2> QED
    BY <2>1, <2>2, <2>3, EditList DEF Edit
<1>3. ASSUME NEW n \in 0..MaxPartitions, Delete(n)
      PROVE  ListStep
  <2>1. PICK x \in Slot2Part(spt.table, n) : Edit("delete", Without(spt.table, x))
    BY <1>3 DEF Delete
  <2>2. Without(spt.table, x) \in Table
    BY <1>0, EditedTable
  <2>3. SlotsOf(Without(spt.table, x)) \in ListEdits(SlotsOf(spt.table))
    BY <1>0, DeleteSlots
  <2> QED
    BY <2>1, <2>2, <2>3, EditList DEF Edit
<1>4. ASSUME NEW n \in 0..MaxPartitions, NEW name \in SlotNames, Rename(n, name)
      PROVE  ListStep
  <2>1. PICK x \in Slot2Part(spt.table, n) :
          ~Named(spt.table, name) /\ Edit("rename", Renamed(spt.table, x, name))
    BY <1>4 DEF Rename
  <2>2. Renamed(spt.table, x, name) \in Table
    BY <1>0, EditedTable
  <2>3. SlotsOf(Renamed(spt.table, x, name)) \in ListEdits(SlotsOf(spt.table))
    BY <1>0, <2>1, RenameSlots
  <2> QED
    BY <2>1, <2>2, <2>3, EditList DEF Edit
<1>5. ASSUME NEW t \in Backups, Restore(t), CheckSpt(t)
      PROVE  ListStep
  <2>1. PICK content : WriteBack("restore", content)
    BY <1>5 DEF Restore
  <2>2. Idle /\ Begun(t) /\ t \in Table /\ SlotsOf(t) \in ListReplacements
    BY <1>5 DEF Restore, ListReplacements
  <2> QED
    BY <2>1, <2>2, EditList
<1>6. ASSUME NEW t \in Backups, (Restore(t) /\ ~CheckSpt(t)) \/ RestoreRefused(t)
      PROVE  ListStep
  <2>1. ~trusted' /\ pc # "down"
    BY <1>6 DEF Restore, RestoreRefused, Lose, Settle, Idle
  <2> QED
    BY <2>1, Loses, StaysLost
<1> QED
  BY <1>1, <1>2, <1>3, <1>4, <1>5, <1>6 DEF Api

LEMMA NextList ==
  ASSUME IInv, Reloading, [Next]_vars
  PROVE  ListStep
<1>1. CASE UNCHANGED vars
  <2>1. UNCHANGED <<ListValue, ListNext, Mode, ListView>>
    BY <1>1 DEF vars, ListValue, ListNext, ListView, Mode, Idle
  <2> QED
    BY <2>1 DEF ListStep, List!vars
<1>2. CASE Stop \/ PowerFails
  <2>1. pc' = "down" /\ UNCHANGED <<committed, target>>
    BY <1>2 DEF Stop, PowerFails, Down
  <2> QED
    BY <2>1, Halts, StaysLost
<1> QED
  BY <1>1, <1>2, LoadList, WriteList, ApiList DEF Next, Step

\* The partition table implements the numbered list of slots: whatever is interrupted,
\* calls change it one edit at a time.
THEOREM KeepsSlotList == Spec => ImplementsSlotList
<1>1. Init => Reloading
  BY DEF Init, Reloading
<1>2. IInv /\ Reloading /\ [Next]_vars => [List!Next]_(List!vars)
  BY NextList DEF ListStep
<1> QED
  BY <1>1, <1>2, InitList, NextReloading, Invariance, PTL
     DEF Spec, ImplementsSlotList, List!Spec

\* rsu_slot_delete and rsu_slot_rename edit the slot whose number they were given.
THEOREM EditsTheSlot == Spec => EditsSlotAskedFor
<1> DEFINE A == \A n \in 0..MaxPartitions :
                  /\ Delete(n) => SlotsOf(spt'.table) = Dropped(SlotsOf(spt.table), n + 1)
                  /\ \A name \in SlotNames :
                       Rename(n, name) =>
                         SlotsOf(spt'.table) = Retitled(SlotsOf(spt.table), n + 1, name)
<1>1. ASSUME IInv
      PROVE  A
  <2>0. spt.table \in Table
    BY <1>1, ContentFacts DEF IInv, TypeOK
  <2>1. ASSUME NEW op, NEW t, Edit(op, t)
        PROVE  spt'.table = t
    <3>1. spt \in Content
      BY <1>1 DEF IInv, TypeOK
    <3>2. spt' = [spt EXCEPT !.table = t]
      BY <2>1 DEF Edit, WriteBack
    <3> QED
      BY <3>1, <3>2 DEF Content
  <2>2. ASSUME NEW n \in 0..MaxPartitions, Delete(n)
        PROVE  SlotsOf(spt'.table) = Dropped(SlotsOf(spt.table), n + 1)
    <3>1. PICK x \in Slot2Part(spt.table, n) : Edit("delete", Without(spt.table, x))
      BY <2>2 DEF Delete
    <3> QED
      BY <2>0, <2>1, <3>1, DeleteSlots
  <2>3. ASSUME NEW n \in 0..MaxPartitions, NEW name \in SlotNames, Rename(n, name)
        PROVE  SlotsOf(spt'.table) = Retitled(SlotsOf(spt.table), n + 1, name)
    <3>1. PICK x \in Slot2Part(spt.table, n) :
            ~Named(spt.table, name) /\ Edit("rename", Renamed(spt.table, x, name))
      BY <2>3 DEF Rename
    <3> QED
      BY <2>0, <2>1, <3>1, RenameSlots
  <2> QED
    BY <2>2, <2>3
<1>2. IInv => [A]_vars
  BY <1>1
<1> QED
  BY <1>2, Invariance, PTL DEF EditsSlotAskedFor
=============================================================================
