-------------------------- MODULE LifecycleProofs --------------------------
(***************************************************************************)
(* Theorems about Lifecycle, for every set of threads, configuration       *)
(* files, stages, retry counts and firmware version.                       *)
(***************************************************************************)
EXTENDS LifecycleInvariant, TLAPS

USE FilesAssumption, RetriesAssumption, NoneAssumption
USE DEF Setup, Teardown, Locked, Busy, Calling

-----------------------------------------------------------------------------
(* What the steps are given *)

LEMMA FileType ==
  ASSUME NEW file \in Files
  PROVE  /\ \A dev \in {RsuDevice, "wrong"} :
              Named(file.dev, dev) \in {RsuDevice, "wrong"}
         /\ \A dev \in {RootDevice, "other"} :
              Named(file.root, dev) \in {RootDevice, "other"}
         /\ file.protect \in Seq(Nat)
BY DEF ConfigFile, Named

LEMMA ProtectType ==
  ASSUME IInv, NEW t \in Threads, SetupCommon(t)
  PROVE  hal' \in [writeprotect : SUBSET Nat]
<1> DEFINE lines == File(t).protect
           protect == {lines[k] : k \in {j \in DOMAIN lines :
                                           \A i \in 1..j : lines[i] <= 31}}
<1>1. File(t) \in Files
  BY DEF IInv, CallFits, CallAt, SetupCommon, File
<1>2. protect \subseteq Nat
  BY <1>1, FileType
<1>3. hal \in [writeprotect : SUBSET Nat]
  BY DEF IInv, TypeOK, StagesFit, SetupCommon
<1>4. hal' = [hal EXCEPT !.writeprotect = protect]
  BY DEF SetupCommon
<1> HIDE DEF protect
<1> QED
  BY <1>2, <1>3, <1>4

LEMMA NotifiedType ==
  ASSUME TypeOK, NEW notice, notice.ignore \/ notice.stage \in Stages
  PROVE  Notified(notice) \in Firmware
<1> DEFINE errors == firmware.errors /\ ~notice.clear
<1>1. errors \in BOOLEAN
  OBVIOUS
<1>2. Notified(notice) =
        [firmware EXCEPT !.stage = IF notice.ignore THEN @ ELSE notice.stage,
                         !.errors = errors,
                         !.retries = IF notice.reset THEN 0 ELSE @]
  BY DEF Notified
<1> HIDE DEF errors
<1> QED
  BY <1>1, <1>2 DEF TypeOK, Firmware

LEMMA MessageType ==
  ASSUME IInv, NEW t \in Threads, Send(t) \/ Clear(t)
  PROVE  firmware' \in Firmware /\ seen' \in [Threads -> SUBSET Views]
<1>1. CASE Send(t) /\ call[t].op = "notify"
  <2>1. Masked(call[t].value).stage \in Stages
    BY <1>1 DEF IInv, CallFits, CallAt, Masked, Notice, Notices
  <2> QED
    BY <1>1, <2>1, NotifiedType DEF IInv, TypeOK, Send, Watched, View, Views, Firmware
<1>2. CASE Send(t) /\ call[t].op = "load"
  <2>1. /\ call[t].value \in {"slot", "factory"}
        /\ firmware' = [firmware EXCEPT !.image = call[t].value]
    BY <1>2 DEF IInv, CallFits, CallAt, Send
  <2>2. firmware' \in Firmware
    BY <2>1 DEF IInv, TypeOK, Firmware
  <2> QED
    BY <1>2, <2>2 DEF IInv, TypeOK, Send, Watched, View, Views, Firmware
<1>3. CASE Clear(t)
  <2>1. call[t].value.ignore
    BY <1>3 DEF IInv, CallFits, CallAt, Clear, Notice
  <2> QED
    BY <1>3, <2>1, NotifiedType DEF IInv, TypeOK, Clear, Watched, View, Views, Firmware
<1> QED
  BY <1>1, <1>2, <1>3 DEF Send

\* A step of one thread is another thread's business only through the library.
LEMMA OneCallMoves ==
  ASSUME IInv, NEW t \in Threads,
         \A u \in Threads \ {t} : pc'[u] = pc[u] /\ call'[u] = call[u],
         CallAt(pc[t], call[t]) => CallAt(pc'[t], call'[t])
  PROVE  CallFits'
BY DEF IInv, CallFits

-----------------------------------------------------------------------------
(* Steps of a call preserve the invariant *)

\* librsu_init goes on, stage by stage.
LEMMA SetupStays ==
  ASSUME IInv, NEW t \in Threads,
         InitClaims(t) \/ SetupHal(t) \/ SetupLog(t) \/ SetupMailbox(t)
           \/ SetupQspi(t) \/ SetupMisc(t) \/ SetupCommon(t) \/ OpenTables(t)
  PROVE  IInv'
<1> USE DEF library, Goes, Returns, ThreadUnchanged, NoCall, Named, File
<1>1. TypeOK'
  <2>1. CASE SetupLog(t)
    <3>1. logFile' \in BOOLEAN
      BY <2>1, Zenon DEF SetupLog, IInv, TypeOK
    <3>2. logType' \in {"stderr", "file"}
      BY <2>1 DEF SetupLog, IInv, TypeOK
    <3>3. UNCHANGED <<state, mutex, holder, hal, database, mailboxDev, miscDev, root,
                      devFile, firmware, call, status, seen>>
          /\ pc' = [pc EXCEPT ![t] = "mailbox"]
      BY <2>1 DEF SetupLog
    <3> QED
      BY <3>1, <3>2, <3>3 DEF IInv, TypeOK
  <2>2. CASE SetupMailbox(t) \/ SetupQspi(t) \/ SetupMisc(t)
    <3>1. File(t) \in Files
      BY <2>2 DEF IInv, CallFits, CallAt, SetupMailbox, SetupQspi, SetupMisc, File
    <3> HIDE DEF Named, File
    <3>2. /\ mailboxDev' \in {RsuDevice, "wrong"} /\ miscDev' \in {RsuDevice, "wrong"}
          /\ root' \in {RootDevice, "other"}
      BY <2>2, <3>1, FileType DEF IInv, TypeOK, SetupMailbox, SetupQspi, SetupMisc
    <3>3. /\ pc' \in [Threads -> {"idle"} \cup Busy \cup Calling]
          /\ devFile' \in {"closed", "open", "stale"}
          /\ UNCHANGED <<state, mutex, holder, hal, database, logType, logFile, call,
                         status, seen, firmware>>
      BY <2>2 DEF IInv, TypeOK, SetupMailbox, SetupQspi, SetupMisc
    <3> QED
      BY <3>2, <3>3 DEF IInv, TypeOK
  <2>3. CASE SetupCommon(t)
    <3>1. hal' \in [writeprotect : SUBSET Nat]
      BY <2>3, ProtectType
    <3>2. /\ UNCHANGED <<state, mutex, holder, database, logType, logFile, mailboxDev, miscDev,
                         root, devFile, firmware, call, status, seen>>
          /\ pc' = [pc EXCEPT ![t] = "tables"]
      BY <2>3 DEF SetupCommon
    <3> QED
      BY <3>1, <3>2 DEF IInv, TypeOK
  <2>4. CASE InitClaims(t)
    BY <2>4 DEF IInv, TypeOK, InitClaims, Operations
  <2>5. CASE SetupHal(t)
    BY <2>5 DEF IInv, TypeOK, SetupHal
  <2>6. CASE OpenTables(t)
    <3>1. /\ UNCHANGED <<mutex, holder, hal, logType, logFile, mailboxDev, miscDev, root,
                         devFile, firmware>>
          /\ state' = "initialized" /\ database' = "open"
      BY <2>6 DEF OpenTables
    <3>2. /\ pc' = [pc EXCEPT ![t] = "idle"] /\ call' = [call EXCEPT ![t] = NoCall]
          /\ status' = [status EXCEPT ![t] = None] /\ seen' = [seen EXCEPT ![t] = {}]
      BY <2>6 DEF OpenTables, Returns
    <3> QED
      BY <3>1, <3>2 DEF IInv, TypeOK, Operations
  <2> QED
    BY <2>1, <2>2, <2>3, <2>4, <2>5, <2>6
<1>2. MutexHeld'
  BY DEF IInv, TypeOK, MutexHeld, InitClaims, SetupHal, SetupLog, SetupMailbox,
     SetupQspi, SetupMisc, SetupCommon, OpenTables
<1>3. Alone'
  BY DEF IInv, TypeOK, Alone, StateFits, MutexHeld, InitClaims, SetupHal, SetupLog,
     SetupMailbox, SetupQspi, SetupMisc, SetupCommon, OpenTables
<1>4. StateFits'
  BY DEF IInv, TypeOK, StateFits, Alone, MutexHeld, InitClaims, SetupHal, SetupLog,
     SetupMailbox, SetupQspi, SetupMisc, SetupCommon, OpenTables
<1>5. CallFits'
  <2>1. CASE InitClaims(t)
    BY <2>1, OneCallMoves DEF IInv, TypeOK, CallAt, InitClaims
  <2>2. CASE SetupHal(t)
    BY <2>2, OneCallMoves DEF IInv, TypeOK, CallAt, SetupHal
  <2>3. CASE SetupLog(t)
    BY <2>3, OneCallMoves DEF IInv, TypeOK, CallAt, SetupLog
  <2>4. CASE SetupMailbox(t)
    BY <2>4, OneCallMoves DEF IInv, TypeOK, CallAt, SetupMailbox
  <2>5. CASE SetupQspi(t)
    BY <2>5, OneCallMoves DEF IInv, TypeOK, CallAt, SetupQspi
  <2>6. CASE SetupMisc(t)
    BY <2>6, OneCallMoves DEF IInv, TypeOK, CallAt, SetupMisc
  <2>7. CASE SetupCommon(t)
    BY <2>7, OneCallMoves DEF IInv, TypeOK, CallAt, SetupCommon
  <2>8. CASE OpenTables(t)
    BY <2>8, OneCallMoves DEF IInv, TypeOK, CallAt, OpenTables
  <2> QED
    BY <2>1, <2>2, <2>3, <2>4, <2>5, <2>6, <2>7, <2>8
<1>6. Down'
  BY DEF IInv, TypeOK, Down, StateFits, StagesFit, InitClaims, SetupHal, SetupLog,
     SetupMailbox, SetupQspi, SetupMisc, SetupCommon, OpenTables
<1>7. Up'
  BY DEF IInv, TypeOK, Up, StateFits, StagesFit, InitClaims, SetupHal, SetupLog,
     SetupMailbox, SetupQspi, SetupMisc, SetupCommon, OpenTables
<1>8. StagesFit'
  <2>1. CASE SetupCommon(t)
    <3>1. hal' # None
      BY <2>1, ProtectType
    <3> QED
      BY <2>1, <3>1 DEF IInv, TypeOK, StagesFit, Alone, SetupCommon
  <2>2. CASE InitClaims(t)
    BY <2>2 DEF IInv, TypeOK, StagesFit, Alone, Down, StateFits, Up, CallFits, CallAt,
       ConfigFile, InitClaims
  <2>3. CASE SetupHal(t)
    BY <2>3 DEF IInv, TypeOK, StagesFit, Alone, Down, StateFits, Up, CallFits, CallAt,
       ConfigFile, SetupHal
  <2>4. CASE SetupLog(t)
    BY <2>4 DEF IInv, TypeOK, StagesFit, Alone, Down, StateFits, Up, CallFits, CallAt,
       ConfigFile, SetupLog
  <2>5. CASE SetupMailbox(t)
    BY <2>5 DEF IInv, TypeOK, StagesFit, Alone, Down, StateFits, Up, CallFits, CallAt,
       ConfigFile, SetupMailbox
  <2>6. CASE SetupQspi(t)
    BY <2>6 DEF IInv, TypeOK, StagesFit, Alone, Down, StateFits, Up, CallFits, CallAt,
       ConfigFile, SetupQspi
  <2>7. CASE SetupMisc(t)
    BY <2>7 DEF IInv, TypeOK, StagesFit, Alone, Down, StateFits, Up, CallFits, CallAt,
       ConfigFile, SetupMisc
  <2>8. CASE OpenTables(t)
    BY <2>8 DEF IInv, TypeOK, StagesFit, Alone, Down, StateFits, Up, CallFits, CallAt,
       ConfigFile, OpenTables
  <2> QED
    BY <2>1, <2>2, <2>3, <2>4, <2>5, <2>6, <2>7, <2>8
<1>9. ReadingFits'
  BY DEF IInv, TypeOK, ReadingFits, View, Views, MutexHeld, InitClaims, SetupHal,
     SetupLog, SetupMailbox, SetupQspi, SetupMisc, SetupCommon, OpenTables
<1> QED
  BY <1>1, <1>2, <1>3, <1>4, <1>5, <1>6, <1>7, <1>8, <1>9 DEF IInv

\* A stage of librsu_init fails.
LEMMA FailingStays ==
  ASSUME IInv, NEW t \in Threads,
         StageFails(t) \/ MailboxFails(t) \/ QspiFails(t) \/ MiscFails(t)
           \/ OpenTablesFails(t)
  PROVE  IInv'
<1> USE DEF library, Goes, Returns, ThreadUnchanged, NoCall, TerminateAll, Named,
          File
<1>1. TypeOK'
  <2>1. CASE QspiFails(t)
    <3>1. File(t) \in Files
      BY <2>1 DEF IInv, CallFits, CallAt, QspiFails, File
    <3> HIDE DEF Named, File
    <3> QED
      BY <2>1, <3>1, FileType DEF IInv, TypeOK, QspiFails
  <2>2. CASE StageFails(t) \/ MailboxFails(t) \/ MiscFails(t) \/ OpenTablesFails(t)
    BY <2>2 DEF IInv, TypeOK, StageFails, MailboxFails, MiscFails, OpenTablesFails,
       Operations
  <2> QED
    BY <2>1, <2>2
<1>2. MutexHeld'
  BY DEF IInv, TypeOK, MutexHeld, StageFails, MailboxFails, QspiFails, MiscFails,
     OpenTablesFails
<1>3. Alone'
  BY DEF IInv, TypeOK, Alone, StateFits, MutexHeld, StageFails, MailboxFails,
     QspiFails, MiscFails, OpenTablesFails
<1>4. StateFits'
  BY DEF IInv, TypeOK, StateFits, Alone, MutexHeld, StageFails, MailboxFails,
     QspiFails, MiscFails, OpenTablesFails
<1>5. CallFits'
  <2>1. CASE StageFails(t)
    BY <2>1, OneCallMoves DEF IInv, TypeOK, CallAt, StageFails
  <2>2. CASE MailboxFails(t)
    BY <2>2, OneCallMoves DEF IInv, TypeOK, CallAt, MailboxFails
  <2>3. CASE QspiFails(t)
    BY <2>3, OneCallMoves DEF IInv, TypeOK, CallAt, QspiFails
  <2>4. CASE MiscFails(t)
    BY <2>4, OneCallMoves DEF IInv, TypeOK, CallAt, MiscFails
  <2>5. CASE OpenTablesFails(t)
    BY <2>5, OneCallMoves DEF IInv, TypeOK, CallAt, OpenTablesFails
  <2> QED
    BY <2>1, <2>2, <2>3, <2>4, <2>5
<1>6. Down'
  BY DEF IInv, TypeOK, Down, StateFits, StagesFit, StageFails, MailboxFails, QspiFails,
     MiscFails, OpenTablesFails
<1>7. Up'
  BY DEF IInv, TypeOK, Up, StateFits, StagesFit, StageFails, MailboxFails, QspiFails,
     MiscFails, OpenTablesFails
<1>8. StagesFit'
  BY DEF IInv, TypeOK, StagesFit, Alone, Down, StateFits, Up, CallFits, CallAt, ConfigFile,
     StageFails, MailboxFails, QspiFails, MiscFails, OpenTablesFails
<1>9. ReadingFits'
  BY DEF IInv, TypeOK, ReadingFits, View, Views, MutexHeld, StageFails, MailboxFails,
     QspiFails, MiscFails, OpenTablesFails
<1> QED
  BY <1>1, <1>2, <1>3, <1>4, <1>5, <1>6, <1>7, <1>8, <1>9 DEF IInv

\* librsu_exit, and the end of a librsu_init that fails.
LEMMA ExitStays ==
  ASSUME IInv, NEW t \in Threads,
         ExitClaims(t) \/ ExitCloses(t) \/ Undo(t) \/ UndoDies(t)
  PROVE  IInv'
<1> USE DEF library, Goes, Returns, ThreadUnchanged, NoCall, TerminateAll, Started,
          LogLost, File
<1>1. TypeOK'
  <2>1. CASE Undo(t)
    <3>1. logFile' \in BOOLEAN
      BY <2>1, Zenon DEF Undo
    <3>2. /\ hal' = None /\ state' = "un_initialized"
          /\ pc' = [pc EXCEPT ![t] = "idle"] /\ call' = [call EXCEPT ![t] = NoCall]
          /\ status' = [status EXCEPT ![t] = None] /\ seen' = [seen EXCEPT ![t] = {}]
          /\ UNCHANGED <<mutex, holder, database, logType, mailboxDev, miscDev, root,
                         devFile, firmware>>
      BY <2>1 DEF Undo
    <3> QED
      BY <3>1, <3>2 DEF IInv, TypeOK, Operations
  <2>2. CASE ExitClaims(t) \/ ExitCloses(t)
    BY <2>2 DEF IInv, TypeOK, ExitClaims, ExitCloses
  <2>3. CASE UndoDies(t)
    <3>1. logFile' \in BOOLEAN
      BY <2>3, Zenon DEF UndoDies
    <3> QED
      BY <2>3, <3>1 DEF IInv, TypeOK, UndoDies, Operations
  <2> QED
    BY <2>1, <2>2, <2>3
<1>2. MutexHeld'
  BY DEF IInv, TypeOK, MutexHeld, ExitClaims, ExitCloses, Undo, UndoDies
<1>3. Alone'
  BY DEF IInv, TypeOK, Alone, StateFits, MutexHeld, ExitClaims, ExitCloses, Undo,
     UndoDies
<1>4. StateFits'
  BY DEF IInv, TypeOK, StateFits, Alone, MutexHeld, ExitClaims, ExitCloses, Undo,
     UndoDies
<1>5. CallFits'
  <2>1. CASE ExitClaims(t)
    BY <2>1, OneCallMoves DEF IInv, TypeOK, CallAt, ExitClaims
  <2>2. CASE ExitCloses(t)
    BY <2>2, OneCallMoves DEF IInv, TypeOK, CallAt, ExitCloses
  <2>3. CASE Undo(t)
    BY <2>3, OneCallMoves DEF IInv, TypeOK, CallAt, Undo
  <2>4. CASE UndoDies(t)
    BY <2>4 DEF CallFits, CallAt, UndoDies
  <2> QED
    BY <2>1, <2>2, <2>3, <2>4
<1>6. Down'
  BY DEF IInv, TypeOK, Down, StateFits, StagesFit, ExitClaims, ExitCloses, Undo,
     UndoDies
<1>7. Up'
  BY DEF IInv, TypeOK, Up, StateFits, StagesFit, ExitClaims, ExitCloses, Undo,
     UndoDies
<1>8. StagesFit'
  BY DEF IInv, TypeOK, StagesFit, Alone, Down, StateFits, Up, CallFits, CallAt, ConfigFile,
     ExitClaims, ExitCloses, Undo, UndoDies
<1>9. ReadingFits'
  BY DEF IInv, TypeOK, ReadingFits, View, Views, MutexHeld, ExitClaims, ExitCloses,
     Undo, UndoDies
<1> QED
  BY <1>1, <1>2, <1>3, <1>4, <1>5, <1>6, <1>7, <1>8, <1>9 DEF IInv

\* Calls, from the mutex to their return.
LEMMA SectionsStay ==
  ASSUME IInv, NEW t \in Threads,
         Lock(t) \/ CallFails(t) \/ Work(t) \/ Send(t) \/ StatusReturns(t)
           \/ UseStatus(t) \/ LockAgain(t) \/ Clear(t) \/ ReadErrors(t)
           \/ ReadRetries(t)
  PROVE  IInv'
<1> USE DEF library, Goes, Returns, ThreadUnchanged, NoCall, Unlocks, Watched, File
<1>1. TypeOK'
  <2>1. CASE Send(t) \/ Clear(t)
    <3>1. firmware' \in Firmware /\ seen' \in [Threads -> SUBSET Views]
      BY <2>1, MessageType
    <3>2. /\ holder' = None
          /\ pc' = [pc EXCEPT ![t] = "idle"] /\ call' = [call EXCEPT ![t] = NoCall]
          /\ UNCHANGED <<library, status>>
      BY <2>1 DEF Send, Clear
    <3> QED
      BY <3>1, <3>2 DEF IInv, TypeOK, Operations
  <2>2. CASE ReadErrors(t)
    <3>1. View(firmware) \in Views
          /\ [errors |-> firmware.errors, retries |-> 0] \in Views
      BY DEF IInv, TypeOK, Firmware, View, Views
    <3> QED
      BY <2>2, <3>1 DEF IInv, TypeOK, ReadErrors
  <2>3. CASE ReadRetries(t)
    <3>1. status[t] \in Views /\ firmware.retries \in Nat
      BY <2>3 DEF IInv, TypeOK, Firmware, ReadRetries, ReadingFits
    <3>2. [status[t] EXCEPT !.retries =
             IF Features = {"acmf", "dcmf"} THEN firmware.retries ELSE 0] \in Views
      BY <3>1 DEF Views
    <3> QED
      BY <2>3, <3>2 DEF IInv, TypeOK, ReadRetries
  <2>4. CASE Lock(t) \/ CallFails(t) \/ Work(t) \/ StatusReturns(t) \/ UseStatus(t)
             \/ LockAgain(t)
    BY <2>4 DEF IInv, TypeOK, Lock, CallFails, Work, StatusReturns, UseStatus, LockAgain,
       Operations
  <2> QED
    BY <2>1, <2>2, <2>3, <2>4
<1>2. MutexHeld'
  BY DEF IInv, TypeOK, MutexHeld, Lock, CallFails, Work, Send, StatusReturns,
     UseStatus, LockAgain, Clear, ReadErrors, ReadRetries
<1>3. Alone'
  BY DEF IInv, TypeOK, Alone, StateFits, MutexHeld, Lock, CallFails, Work, Send,
     StatusReturns, UseStatus, LockAgain, Clear, ReadErrors, ReadRetries
<1>4. StateFits'
  BY DEF IInv, TypeOK, StateFits, Alone, MutexHeld, Lock, CallFails, Work, Send,
     StatusReturns, UseStatus, LockAgain, Clear, ReadErrors, ReadRetries
<1>5. CallFits'
  <2>1. CASE Lock(t)
    BY <2>1, OneCallMoves DEF IInv, TypeOK, CallAt, Lock
  <2>2. CASE CallFails(t)
    BY <2>2, OneCallMoves DEF IInv, TypeOK, CallAt, CallFails
  <2>3. CASE Work(t)
    BY <2>3, OneCallMoves DEF IInv, TypeOK, CallAt, Work
  <2>4. CASE Send(t)
    BY <2>4, OneCallMoves DEF IInv, TypeOK, CallAt, Send
  <2>5. CASE StatusReturns(t)
    BY <2>5, OneCallMoves DEF IInv, TypeOK, CallAt, StatusReturns
  <2>6. CASE UseStatus(t)
    BY <2>6, OneCallMoves DEF IInv, TypeOK, CallAt, UseStatus
  <2>7. CASE LockAgain(t)
    BY <2>7, OneCallMoves DEF IInv, TypeOK, CallAt, LockAgain
  <2>8. CASE Clear(t)
    BY <2>8, OneCallMoves DEF IInv, TypeOK, CallAt, Clear
  <2>9. CASE ReadErrors(t)
    BY <2>9, OneCallMoves DEF IInv, TypeOK, CallAt, ReadErrors
  <2>10. CASE ReadRetries(t)
    BY <2>10, OneCallMoves DEF IInv, TypeOK, CallAt, ReadRetries
  <2> QED
    BY <2>1, <2>2, <2>3, <2>4, <2>5, <2>6, <2>7, <2>8, <2>9, <2>10
<1>6. Down'
  BY DEF IInv, TypeOK, Down, StateFits, StagesFit, Lock, CallFails, Work, Send,
     StatusReturns, UseStatus, LockAgain, Clear, ReadErrors, ReadRetries
<1>7. Up'
  BY DEF IInv, TypeOK, Up, StateFits, StagesFit, Lock, CallFails, Work, Send,
     StatusReturns, UseStatus, LockAgain, Clear, ReadErrors, ReadRetries
<1>8. StagesFit'
  <2>1. CASE Lock(t)
    BY <2>1 DEF IInv, TypeOK, StagesFit, Alone, Lock
  <2>2. CASE CallFails(t)
    BY <2>2 DEF IInv, TypeOK, StagesFit, Alone, CallFails
  <2>3. CASE Work(t)
    BY <2>3 DEF IInv, TypeOK, StagesFit, Alone, Work
  <2>4. CASE Send(t)
    BY <2>4 DEF IInv, TypeOK, StagesFit, Alone, Send
  <2>5. CASE StatusReturns(t)
    BY <2>5 DEF IInv, TypeOK, StagesFit, Alone, StatusReturns
  <2>6. CASE UseStatus(t)
    BY <2>6 DEF IInv, TypeOK, StagesFit, Alone, UseStatus
  <2>7. CASE LockAgain(t)
    BY <2>7 DEF IInv, TypeOK, StagesFit, Alone, LockAgain
  <2>8. CASE Clear(t)
    BY <2>8 DEF IInv, TypeOK, StagesFit, Alone, Clear
  <2>9. CASE ReadErrors(t)
    BY <2>9 DEF IInv, TypeOK, StagesFit, Alone, ReadErrors
  <2>10. CASE ReadRetries(t)
    BY <2>10 DEF IInv, TypeOK, StagesFit, Alone, ReadRetries
  <2> QED
    BY <2>1, <2>2, <2>3, <2>4, <2>5, <2>6, <2>7, <2>8, <2>9, <2>10
<1>9. ReadingFits'
  <2>1. CASE Lock(t)
    BY <2>1 DEF IInv, TypeOK, ReadingFits, View, Views, MutexHeld, Lock
  <2>2. CASE CallFails(t)
    BY <2>2 DEF IInv, TypeOK, ReadingFits, View, Views, MutexHeld, CallFails
  <2>3. CASE Work(t)
    BY <2>3 DEF IInv, TypeOK, ReadingFits, View, Views, MutexHeld, Work
  <2>4. CASE Send(t)
    BY <2>4 DEF IInv, TypeOK, ReadingFits, View, Views, MutexHeld, Send
  <2>5. CASE StatusReturns(t)
    BY <2>5 DEF IInv, TypeOK, ReadingFits, View, Views, MutexHeld, StatusReturns
  <2>6. CASE UseStatus(t)
    BY <2>6 DEF IInv, TypeOK, ReadingFits, View, Views, MutexHeld, UseStatus
  <2>7. CASE LockAgain(t)
    BY <2>7 DEF IInv, TypeOK, ReadingFits, View, Views, MutexHeld, LockAgain
  <2>8. CASE Clear(t)
    BY <2>8 DEF IInv, TypeOK, ReadingFits, View, Views, MutexHeld, Clear
  <2>9. CASE ReadErrors(t)
    <3> DEFINE read == [errors |-> firmware.errors, retries |-> 0]
    <3>1. read \in Views /\ read.errors = firmware.errors
      BY DEF IInv, TypeOK, Firmware, Views
    <3>2. /\ pc' = [pc EXCEPT ![t] = "reading"] /\ status' = [status EXCEPT ![t] = read]
          /\ seen' = [seen EXCEPT ![t] = {View(firmware)}] /\ firmware' = firmware
      BY <2>9 DEF ReadErrors
    <3>3. View(firmware)' = View(firmware)
      BY <3>2 DEF View
    <3> HIDE DEF read, View
    <3> QED
      BY <3>1, <3>2, <3>3 DEF IInv, TypeOK, ReadingFits
  <2>10. CASE ReadRetries(t)
    BY <2>10 DEF IInv, TypeOK, ReadingFits, View, Views, MutexHeld, ReadRetries
  <2> QED
    BY <2>1, <2>2, <2>3, <2>4, <2>5, <2>6, <2>7, <2>8, <2>9, <2>10
<1> QED
  BY <1>1, <1>2, <1>3, <1>4, <1>5, <1>6, <1>7, <1>8, <1>9 DEF IInv

-----------------------------------------------------------------------------
(* Calls begin, and the board boots *)

LEMMA BeginStays ==
  ASSUME IInv, NEW t \in Threads,
         NEW op \in {"notify", "status", "clear", "reset", "load", "work"}, NEW value,
         op = "notify" => value \in Notices,
         op = "clear" => value = Notice(TRUE, TRUE, FALSE, None),
         op = "reset" => value = Notice(TRUE, FALSE, TRUE, None),
         op = "load" => value \in {"slot", "factory"},
         Call(t, op, value)
  PROVE  IInv'
<1> USE DEF Call, Begins, Goes, library
<1>1. TypeOK'
  BY DEF IInv, TypeOK, Operations
<1>2. MutexHeld'
  BY DEF IInv, TypeOK, MutexHeld
<1>3. Alone'
  <2>1. \A u \in Threads : pc[u] \notin Busy
    BY DEF IInv, TypeOK, StateFits, CallFits, CallAt
  <2> QED
    BY <2>1 DEF IInv, TypeOK, Alone
<1>4. StateFits'
  BY DEF IInv, TypeOK, StateFits
<1>5. CallFits'
  <2>1. CallAt("lock", [op |-> op, file |-> None, value |-> value])
    BY DEF CallAt
  <2>2. /\ pc'[t] = "lock" /\ call'[t] = [op |-> op, file |-> None, value |-> value]
        /\ \A u \in Threads \ {t} : pc'[u] = pc[u] /\ call'[u] = call[u]
    BY DEF IInv, TypeOK
  <2> QED
    BY <2>1, <2>2, OneCallMoves
<1>6. Down' /\ Up'
  BY DEF IInv, Down, Up
<1>7. StagesFit'
  BY DEF IInv, TypeOK, StagesFit, File
<1>8. ReadingFits'
  BY DEF IInv, TypeOK, ReadingFits
<1> QED
  BY <1>1, <1>2, <1>3, <1>4, <1>5, <1>6, <1>7, <1>8 DEF IInv

LEMMA InitBeginStays ==
  ASSUME IInv, NEW t \in Threads, NEW file \in Files, InitBegins(t, file)
  PROVE  IInv'
<1> USE DEF InitBegins, Begins, Goes, library
<1>1. TypeOK'
  BY DEF IInv, TypeOK, Operations
<1>2. MutexHeld'
  BY DEF IInv, TypeOK, MutexHeld
<1>3. Alone'
  BY DEF IInv, TypeOK, Alone, StateFits
<1>4. StateFits'
  BY DEF IInv, TypeOK, StateFits
<1>5. CallFits'
  BY OneCallMoves DEF IInv, TypeOK, CallAt
<1>6. Down' /\ Up'
  BY DEF IInv, Down, Up
<1>7. StagesFit'
  BY DEF IInv, TypeOK, StagesFit, File
<1>8. ReadingFits'
  BY DEF IInv, TypeOK, ReadingFits
<1> QED
  BY <1>1, <1>2, <1>3, <1>4, <1>5, <1>6, <1>7, <1>8 DEF IInv

LEMMA ExitBeginStays ==
  ASSUME IInv, NEW t \in Threads, ExitBegins(t)
  PROVE  IInv'
<1> USE DEF ExitBegins, Begins, Goes, library
<1>1. TypeOK'
  BY DEF IInv, TypeOK, Operations
<1>2. MutexHeld'
  BY DEF IInv, TypeOK, MutexHeld
<1>3. Alone'
  BY DEF IInv, TypeOK, Alone, Inside
<1>4. StateFits'
  BY DEF IInv, TypeOK, StateFits
<1>5. CallFits'
  BY OneCallMoves DEF IInv, TypeOK, CallAt
<1>6. Down' /\ Up'
  BY DEF IInv, Down, Up
<1>7. StagesFit'
  BY DEF IInv, TypeOK, StagesFit, File
<1>8. ReadingFits'
  BY DEF IInv, TypeOK, ReadingFits
<1> QED
  BY <1>1, <1>2, <1>3, <1>4, <1>5, <1>6, <1>7, <1>8 DEF IInv

LEMMA ApiStays ==
  ASSUME IInv, NEW t \in Threads, Api(t)
  PROVE  IInv'
<1>1. ASSUME NEW file \in Files, InitBegins(t, file)
      PROVE  IInv'
  BY <1>1, InitBeginStays
<1>2. CASE ExitBegins(t)
  BY <1>2, ExitBeginStays
<1>3. ASSUME NEW notice \in Notices, Notify(t, notice)
      PROVE  IInv'
  BY <1>3, BeginStays DEF Notify
<1>4. CASE StatusLog(t)
  BY <1>4, BeginStays DEF StatusLog
<1>5. CASE ClearErrorStatus(t)
  BY <1>5, BeginStays DEF ClearErrorStatus
<1>6. CASE ResetRetryCounter(t)
  BY <1>6, BeginStays DEF ResetRetryCounter
<1>7. CASE LoadAfterReboot(t) \/ LoadFactoryAfterReboot(t)
  BY <1>7, BeginStays DEF LoadAfterReboot, LoadFactoryAfterReboot
<1>8. CASE RunningFactory(t) \/ DcmfVersion(t) \/ MaxRetry(t) \/ DcmfStatus(t)
  BY <1>8, BeginStays DEF RunningFactory, DcmfVersion, MaxRetry, DcmfStatus
<1> QED
  BY <1>1, <1>2, <1>3, <1>4, <1>5, <1>6, <1>7, <1>8 DEF Api

LEMMA BootStays ==
  ASSUME IInv, Boot
  PROVE  IInv'
<1> USE DEF Boot, Started, NoCall
<1>1. TypeOK'
  <2>1. firmware' \in Firmware
    BY DEF Firmware
  <2>2. logFile' \in BOOLEAN
    BY Zenon
  <2> QED
    BY <2>1, <2>2 DEF TypeOK, Operations
<1>2. MutexHeld' /\ Alone' /\ StateFits'
  BY DEF MutexHeld, Alone, StateFits
<1>3. CallFits'
  BY DEF CallFits, CallAt
<1>4. Down' /\ Up' /\ StagesFit' /\ ReadingFits'
  BY DEF Down, Up, StagesFit, ReadingFits
<1> QED
  BY <1>1, <1>2, <1>3, <1>4 DEF IInv

LEMMA InitHolds == Init => IInv
<1> SUFFICES ASSUME Init
             PROVE  IInv
  OBVIOUS
<1> USE DEF Init, NoCall
<1>1. TypeOK
  <2>1. firmware \in Firmware
    BY DEF Firmware
  <2>2. logFile \in BOOLEAN
    BY Zenon
  <2> QED
    BY <2>1, <2>2 DEF TypeOK, Operations
<1>2. MutexHeld /\ Alone /\ StateFits
  BY DEF MutexHeld, Alone, StateFits
<1>3. CallFits
  BY DEF CallFits, CallAt
<1>4. Down /\ Up /\ StagesFit /\ ReadingFits
  BY DEF Down, Up, StagesFit, ReadingFits
<1> QED
  BY <1>1, <1>2, <1>3, <1>4 DEF IInv

LEMMA StutterStays ==
  ASSUME IInv, UNCHANGED vars
  PROVE  IInv'
<1> USE DEF vars, library
<1>1. TypeOK' /\ MutexHeld' /\ Alone'
  BY DEF IInv, TypeOK, MutexHeld, Alone
<1>2. StateFits' /\ CallFits'
  BY DEF IInv, StateFits, CallFits
<1>3. Down' /\ Up' /\ StagesFit'
  BY DEF IInv, Down, Up, StagesFit, File
<1>4. ReadingFits'
  BY DEF IInv, ReadingFits
<1> QED
  BY <1>1, <1>2, <1>3, <1>4 DEF IInv

LEMMA StepOfStays ==
  ASSUME IInv, NEW t \in Threads, StepOf(t)
  PROVE  IInv'
BY SetupStays, FailingStays, ExitStays, SectionsStay DEF StepOf

-----------------------------------------------------------------------------
(* Theorems *)

\* The invariant holds in every reachable state.
THEOREM Invariance == Spec => []IInv
<1>1. IInv /\ [Next]_vars => IInv'
  BY StepOfStays, ApiStays, BootStays, StutterStays DEF Next
<1> QED
  BY InitHolds, <1>1, PTL DEF Spec

\* Every variable of the library, of its threads and of the firmware has its type.
THEOREM TypeCorrect == Spec => []TypeOK
<1>1. IInv => TypeOK
  BY DEF IInv
<1> QED
  BY Invariance, <1>1, PTL

\* Whatever the threads do, one that holds the mutex is alone with a library that is
\* set up: librsu_init, librsu_exit and all other calls keep out.
THEOREM SectionsSafe == Spec => []SectionsAreSafe
<1>1. IInv => SectionsAreSafe
  BY DEF IInv, TypeOK, SectionsAreSafe, MutexHeld, Alone, StateFits, Up
<1> QED
  BY Invariance, <1>1, PTL

\* librsu_exit and a librsu_init that fails anywhere leave nothing behind.
THEOREM NothingLeft == Spec => []NothingLeftBehind
<1>1. IInv => NothingLeftBehind
  BY DEF IInv, TypeOK, NothingLeftBehind, MutexHeld, Down, Inside
<1> QED
  BY Invariance, <1>1, PTL

\* The mailbox and the DCMF calls of an initialized library use one device.
THEOREM DevicesConsistent == Spec => []DevicesAreConsistent
<1>1. IInv => DevicesAreConsistent
  BY DEF IInv, DevicesAreConsistent, Up
<1> QED
  BY Invariance, <1>1, PTL

\* The status that rsu_status_log returns was the firmware's at one instant.
THEOREM StatusSnapshot == Spec => []StatusIsSnapshot
<1>1. IInv => StatusIsSnapshot
  BY DEF IInv, ReadingFits, StatusIsSnapshot
<1> QED
  BY Invariance, <1>1, PTL

\* The stage, the error and the retry count change only by the call that is for it.
THEOREM ChangesOwned == Spec => CallsChangeTheirOwn
<1> DEFINE Owned ==
      /\ firmware'.stage # firmware.stage =>
           \E t \in Threads : call[t].op = "notify" /\ holder = t
      /\ firmware'.errors # firmware.errors =>
           \E t \in Threads : call[t].op = "clear" /\ holder = t
      /\ firmware'.retries # firmware.retries =>
           \E t \in Threads : call[t].op = "reset" /\ holder = t
<1>1. ASSUME IInv, NEW t \in Threads, Send(t)
      PROVE  Owned
  <2>1. holder = t
    BY <1>1 DEF IInv, MutexHeld, Send
  <2>2. CASE call[t].op = "notify"
    <3>1. firmware' = Notified(Masked(call[t].value))
      BY <1>1, <2>2 DEF Send
    <3>2. firmware'.errors = firmware.errors /\ firmware'.retries = firmware.retries
      BY <1>1, <3>1 DEF IInv, TypeOK, Firmware, Notified, Masked, Notice
    <3> QED
      BY <2>1, <2>2, <3>2
  <2>3. CASE call[t].op = "load"
    BY <1>1, <2>3 DEF IInv, TypeOK, Firmware, Send
  <2> QED
    BY <1>1, <2>2, <2>3 DEF Send
<1>2. ASSUME IInv, NEW t \in Threads, Clear(t)
      PROVE  Owned
  <2>1. holder = t
    BY <1>2 DEF IInv, MutexHeld, Clear
  <2>2. CASE call[t].op = "clear"
    <3>1. firmware' = Notified(Notice(TRUE, TRUE, FALSE, None))
      BY <1>2, <2>2 DEF IInv, CallFits, CallAt, Clear
    <3>2. firmware'.stage = firmware.stage /\ firmware'.retries = firmware.retries
      BY <1>2, <3>1 DEF IInv, TypeOK, Firmware, Notified, Notice
    <3> QED
      BY <2>1, <2>2, <3>2
  <2>3. CASE call[t].op = "reset"
    <3>1. firmware' = Notified(Notice(TRUE, FALSE, TRUE, None))
      BY <1>2, <2>3 DEF IInv, CallFits, CallAt, Clear
    <3>2. firmware'.stage = firmware.stage /\ firmware'.errors = firmware.errors
      BY <1>2, <3>1 DEF IInv, TypeOK, Firmware, Notified, Notice
    <3> QED
      BY <2>1, <2>3, <3>2
  <2> QED
    BY <1>2, <2>2, <2>3 DEF IInv, CallFits, CallAt, Clear
<1>3. ASSUME NEW t \in Threads, StepOf(t), ~Send(t), ~Clear(t)
      PROVE  UNCHANGED firmware
  BY <1>3 DEF StepOf, InitClaims, SetupHal, SetupLog, SetupMailbox, SetupQspi, SetupMisc,
     SetupCommon, OpenTables, StageFails, MailboxFails, QspiFails, MiscFails,
     OpenTablesFails, ExitClaims, ExitCloses, Undo, UndoDies, Lock, CallFails, Work,
     ReadErrors, ReadRetries, StatusReturns, UseStatus, LockAgain
<1>4. ASSUME NEW t \in Threads, Api(t)
      PROVE  UNCHANGED firmware
  BY <1>4 DEF Api, InitBegins, ExitBegins, Notify, StatusLog, ClearErrorStatus,
     ResetRetryCounter, LoadAfterReboot, LoadFactoryAfterReboot, RunningFactory,
     DcmfVersion, MaxRetry, DcmfStatus, Call, Begins
<1>5. UNCHANGED firmware => Owned
  OBVIOUS
<1>6. IInv /\ [Next]_vars => [Boot \/ Owned]_vars
  <2> HIDE DEF Owned
  <2> QED
    BY <1>1, <1>2, <1>3, <1>4, <1>5 DEF Next
<1> QED
  BY Invariance, <1>6, PTL DEF Spec, CallsChangeTheirOwn
=============================================================================
