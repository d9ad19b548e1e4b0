----------------------------- MODULE Lifecycle -----------------------------
(***************************************************************************)
(* The library between librsu_init and librsu_exit: its state and mutex,   *)
(* what librsu_cfg_parse sets up and tears down, and the threads that call *)
(* it, down to the messages to the firmware.                               *)
(*                                                                         *)
(* Abstractions.                                                           *)
(*  - The configuration file is what its lines say: where the log goes,    *)
(*    the RSU device, the root device, the slots to protect.               *)
(*  - Memory is allocated or not; a failing stage of librsu_cfg_parse is   *)
(*    one step with all it undoes, but for the log and the hal, which the  *)
(*    next step undoes.                                                    *)
(*  - Calls that work on the tables are one step under the mutex; the      *)
(*    other modules are about that step.  Any call may fail its checks.    *)
(*  - A message has a stage and two flags for the bits above it.  The      *)
(*    firmware's status is whether it reports an error, and a retry count; *)
(*    both change when the board boots and by messages of this process.    *)
(*                                                                         *)
(* The library leaves to its callers, and the model takes for granted:     *)
(* librsu_init and librsu_exit are not called while one of them runs, and  *)
(* librsu_exit not while any call does.  Calls during librsu_init are free.*)
(***************************************************************************)
EXTENDS Naturals, Sequences, FiniteSets

CONSTANTS
  Threads,
  Files,          \* the configuration files librsu_init may be given
  RsuDevice,      \* DEFAULT_RSU_DEV, where the firmware's attributes are
  RootDevice,     \* DEVICE, the flash that is opened when no other is
  Stages,         \* what callers report by rsu_notify
  Retries,        \* the retry counts the firmware may have
  Features,       \* the firmware's own version: "acmf", "dcmf" and both
  None

ConfigFile == [log : {"none", "off", "stderr", "file"}, dev : {None, RsuDevice, "wrong"},
               root : {None, RootDevice, "other"}, protect : Seq(Nat)]

ASSUME FilesAssumption == Files \subseteq ConfigFile
ASSUME RetriesAssumption == Retries \subseteq Nat /\ 0 \in Retries
ASSUME FeaturesAssumption == Features \subseteq {"acmf", "dcmf"}
ASSUME NoneAssumption ==
  /\ None \notin {RsuDevice, RootDevice, "wrong", "other"} \cup Threads
  /\ None \notin [writeprotect : SUBSET Nat]

VARIABLES
  state,        \* ctx.state
  mutex,        \* ctx.mutex: "raw", "ready" or "destroyed"
  holder,       \* the thread that has it locked
  hal,          \* the structure librsu_cfg_parse allocates, or None
  database,     \* plat_database: "null", "open", or "freed" and not null
  logType,      \* rsu_log_type
  logFile,      \* RSU_log_file is open
  mailboxDev,   \* rsu_dev_local of the mailbox functions
  miscDev,      \* rsu_dev_local of the DCMF functions
  root,         \* qspi_file
  devFile,      \* dev_file: "closed", "open", or "stale" and closed
  pc,           \* where each thread is
  call,         \* what each thread has called
  status,       \* what each thread has read of the status so far
  firmware,     \* the firmware's stage, error, retry count and next image
  seen          \* history: the statuses there were since each thread began to read

library == <<state, mutex, hal, database, logType, logFile, mailboxDev, miscDev, root,
             devFile>>
vars == <<library, holder, pc, call, status, firmware, seen>>

-----------------------------------------------------------------------------
(* Threads *)

Setup == {"hal", "log", "mailbox", "qspi", "misc", "common", "tables"}
Teardown == {"exit", "close", "undo"}
Locked == {"locked", "reading", "clearing"}

Inside(u) == pc[u] # "idle"
Goes(t, stage) == pc' = [pc EXCEPT ![t] = stage]
NoCall == [op |-> "none", file |-> None, value |-> None]

Returns(t) ==
  /\ Goes(t, "idle")
  /\ call' = [call EXCEPT ![t] = NoCall]
  /\ status' = [status EXCEPT ![t] = None]
  /\ seen' = [seen EXCEPT ![t] = {}]

Begins(t, op, file, value, stage) ==
  /\ pc[t] = "idle"
  /\ Goes(t, stage)
  /\ call' = [call EXCEPT ![t] = [op |-> op, file |-> file, value |-> value]]
  /\ UNCHANGED <<library, holder, status, firmware, seen>>

ThreadUnchanged == UNCHANGED <<call, status, seen>>

-----------------------------------------------------------------------------
(* librsu_init *)

\* Two calls may both find the library not initialized; callers see to it that they
\* do not.
InitBegins(t, file) ==
  /\ \A u \in Threads : pc[u] \notin Setup \cup Teardown \cup {"init"}
  /\ state = "un_initialized"
  /\ Begins(t, "init", file, None, "init")

\* Mutant of InitClaims: the library is open to callers from here.
InitClaimsEarly(t) ==
  /\ pc[t] = "init"
  /\ state' = "initialized" /\ mutex' = "ready"
  /\ Goes(t, "hal")
  /\ UNCHANGED <<holder, hal, database, logType, logFile, mailboxDev, miscDev, root,
                 devFile, firmware>>
  /\ ThreadUnchanged

InitClaims(t) ==
  /\ pc[t] = "init"
  /\ state' = "in_progress" /\ mutex' = "ready"
  /\ Goes(t, "hal")
  /\ UNCHANGED <<holder, hal, database, logType, logFile, mailboxDev, miscDev, root,
                 devFile, firmware>>
  /\ ThreadUnchanged

File(t) == call[t].file

SetupHal(t) ==
  /\ pc[t] = "hal"
  /\ hal' = [writeprotect |-> {}]
  /\ Goes(t, "log")
  /\ UNCHANGED <<state, mutex, holder, database, logType, logFile, mailboxDev, miscDev,
                 root, devFile, firmware>>
  /\ ThreadUnchanged

\* RSU_logging_init.  Only a line that names an output sets the type.
SetupLog(t) ==
  /\ pc[t] = "log"
  /\ \/ /\ File(t).log \in {"none", "off"}
        /\ UNCHANGED <<logType, logFile>>
     \/ /\ File(t).log = "stderr"
        /\ logType' = "stderr" /\ UNCHANGED logFile
     \/ /\ File(t).log = "file"
        /\ logType' = "file" /\ logFile' = TRUE
  /\ Goes(t, "mailbox")
  /\ UNCHANGED <<state, mutex, holder, hal, database, mailboxDev, miscDev, root, devFile,
                 firmware>>
  /\ ThreadUnchanged

Named(device, default) == IF device = None THEN default ELSE device

\* plat_mbox_init.
SetupMailbox(t) ==
  /\ pc[t] = "mailbox"
  /\ mailboxDev' = Named(File(t).dev, mailboxDev)
  /\ Goes(t, "qspi")
  /\ UNCHANGED <<state, mutex, holder, hal, database, logType, logFile, miscDev, root,
                 devFile, firmware>>
  /\ ThreadUnchanged

\* plat_qspi_init: the device named, or the default one when that cannot be opened.
SetupQspi(t) ==
  /\ pc[t] = "qspi"
  /\ root' \in {Named(File(t).root, root), RootDevice}
  /\ devFile' = "open"
  /\ Goes(t, "misc")
  /\ UNCHANGED <<state, mutex, holder, hal, database, logType, logFile, mailboxDev,
                 miscDev, firmware>>
  /\ ThreadUnchanged

\* plat_rsu_misc_init.
SetupMisc(t) ==
  /\ pc[t] = "misc"
  /\ miscDev' = Named(File(t).dev, miscDev)
  /\ Goes(t, "common")
  /\ UNCHANGED <<state, mutex, holder, hal, database, logType, logFile, mailboxDev, root,
                 devFile, firmware>>
  /\ ThreadUnchanged

\* The file cannot be opened again, or memory is short: nothing of the stage is done.
StageFails(t) ==
  /\ pc[t] \in {"hal", "log"}
  /\ hal' = None
  /\ state' = "un_initialized"
  /\ Returns(t)
  /\ UNCHANGED <<mutex, holder, database, logType, logFile, mailboxDev, miscDev, root,
                 devFile, firmware>>

MailboxFails(t) ==
  /\ pc[t] = "mailbox"
  /\ Goes(t, "undo")
  /\ UNCHANGED <<library, holder, firmware>>
  /\ ThreadUnchanged

\* Neither device opens, or what opened is no MTD device: its number stays in dev_file.
QspiFails(t) ==
  /\ pc[t] = "qspi"
  /\ mailboxDev' = RsuDevice
  /\ root' \in {Named(File(t).root, root), RootDevice}
  /\ devFile' \in {"closed", "stale"}
  /\ Goes(t, "undo")
  /\ UNCHANGED <<state, mutex, holder, hal, database, logType, logFile, miscDev, firmware>>
  /\ ThreadUnchanged

\* Mutant of MiscFails: the flash stays open.
MiscFailsOpen(t) ==
  /\ pc[t] = "misc"
  /\ mailboxDev' = RsuDevice
  /\ Goes(t, "undo")
  /\ UNCHANGED <<state, mutex, holder, hal, database, logType, logFile, miscDev, root,
                 devFile, firmware>>
  /\ ThreadUnchanged

MiscFails(t) ==
  /\ pc[t] = "misc"
  /\ mailboxDev' = RsuDevice /\ devFile' = "closed"
  /\ Goes(t, "undo")
  /\ UNCHANGED <<state, mutex, holder, hal, database, logType, logFile, miscDev, root,
                 firmware>>
  /\ ThreadUnchanged

\* librsu_common_cfg_parse stops at a line it cannot take, and librsu_cfg_parse goes on.
SetupCommon(t) ==
  /\ pc[t] = "common"
  /\ LET lines == File(t).protect
     IN  hal' = [hal EXCEPT !.writeprotect =
                   {lines[k] : k \in {j \in DOMAIN lines : \A i \in 1..j : lines[i] <= 31}}]
  /\ Goes(t, "tables")
  /\ UNCHANGED <<state, mutex, holder, database, logType, logFile, mailboxDev, miscDev,
                 root, devFile, firmware>>
  /\ ThreadUnchanged

\* rsu_qspi_open.
OpenTables(t) ==
  /\ pc[t] = "tables"
  /\ database = "null" /\ mailboxDev = RsuDevice
  /\ database' = "open" /\ state' = "initialized"
  /\ Returns(t)
  /\ UNCHANGED <<mutex, holder, hal, logType, logFile, mailboxDev, miscDev, root, devFile,
                 firmware>>

\* Mutant of TerminateAll: the DCMF calls keep their device.
TerminateButMisc ==
  mailboxDev' = RsuDevice /\ devFile' = "closed" /\ UNCHANGED miscDev

\* librsu_cfg_reset, up to RSU_logging_exit.
TerminateAll ==
  mailboxDev' = RsuDevice /\ miscDev' = RsuDevice /\ devFile' = "closed"

\* The first errors free the database and do not say so.
OpenTablesFails(t) ==
  /\ pc[t] = "tables"
  /\ database' \in IF database = "null" THEN {"null", "freed"} ELSE {database}
  /\ TerminateAll
  /\ Goes(t, "undo")
  /\ UNCHANGED <<state, mutex, holder, hal, logType, logFile, root, firmware>>
  /\ ThreadUnchanged

-----------------------------------------------------------------------------
(* librsu_exit, and the end of a librsu_init that fails *)

ExitBegins(t) ==
  /\ \A u \in Threads : ~Inside(u)
  /\ state = "initialized"
  /\ Begins(t, "exit", None, None, "exit")

ExitClaims(t) ==
  /\ pc[t] = "exit"
  /\ state' = "in_progress" /\ mutex' = "destroyed"
  /\ Goes(t, "close")
  /\ UNCHANGED <<holder, hal, database, logType, logFile, mailboxDev, miscDev, root,
                 devFile, firmware>>
  /\ ThreadUnchanged

ExitCloses(t) ==
  /\ pc[t] = "close"
  /\ database' = "null"
  /\ TerminateAll
  /\ Goes(t, "undo")
  /\ UNCHANGED <<state, mutex, holder, hal, logType, logFile, root, firmware>>
  /\ ThreadUnchanged

\* The log goes to a file that is not open any more.
LogLost == logType = "file" /\ ~logFile

\* RSU_logging_exit, free the hal, and return.
Undo(t) ==
  /\ pc[t] = "undo"
  /\ ~LogLost
  /\ logFile' = FALSE
  /\ hal' = None
  /\ state' = "un_initialized"
  /\ Returns(t)
  /\ UNCHANGED <<mutex, holder, database, logType, mailboxDev, miscDev, root, devFile,
                 firmware>>

\* A process as it starts.
Started ==
  /\ state' = "un_initialized" /\ mutex' = "raw" /\ holder' = None
  /\ hal' = None /\ database' = "null"
  /\ logType' = "stderr" /\ logFile' = FALSE
  /\ mailboxDev' = RsuDevice /\ miscDev' = RsuDevice
  /\ root' = RootDevice /\ devFile' = "closed"
  /\ pc' = [t \in Threads |-> "idle"]
  /\ call' = [t \in Threads |-> NoCall]
  /\ status' = [t \in Threads |-> None]
  /\ seen' = [t \in Threads |-> {}]

\* fclose of a null pointer: the process dies.
UndoDies(t) ==
  /\ pc[t] = "undo"
  /\ LogLost
  /\ Started
  /\ UNCHANGED firmware

-----------------------------------------------------------------------------
(* Messages to the firmware *)

Notice(ignore, clear, reset, stage) ==
  [ignore |-> ignore, clear |-> clear, reset |-> reset, stage |-> stage]
Notices == [ignore : BOOLEAN, clear : BOOLEAN, reset : BOOLEAN, stage : Stages]

\* Mutant of Masked: the value goes out as it is.
NotMasked(notice) == notice

\* rsu_notify keeps the low 16 bits.
Masked(notice) == Notice(FALSE, FALSE, FALSE, notice.stage)

\* What the firmware does with a message.
Notified(notice) ==
  [firmware EXCEPT !.stage = IF notice.ignore THEN @ ELSE notice.stage,
                   !.errors = @ /\ ~notice.clear,
                   !.retries = IF notice.reset THEN 0 ELSE @]

View(f) == [errors |-> f.errors, retries |-> f.retries]
Watched == seen' = [t \in Threads |->
                      IF seen[t] = {} THEN {} ELSE seen[t] \cup {View(firmware')}]

-----------------------------------------------------------------------------
(* Calls.  Each looks at ctx.state first; nobody calls while librsu_exit runs. *)

Call(t, op, value) ==
  /\ \A u \in Threads : pc[u] \notin Teardown \/ call[u].op = "init"
  /\ state = "initialized"
  /\ Begins(t, op, None, value, "lock")

Notify(t, notice) == Call(t, "notify", notice)
StatusLog(t) == Call(t, "status", None)
ClearErrorStatus(t) == Call(t, "clear", Notice(TRUE, TRUE, FALSE, None))
ResetRetryCounter(t) == Call(t, "reset", Notice(TRUE, FALSE, TRUE, None))
LoadAfterReboot(t) == Call(t, "load", "slot")
LoadFactoryAfterReboot(t) == Call(t, "load", "factory")
RunningFactory(t) == Call(t, "work", None)
DcmfVersion(t) == Call(t, "work", None)
MaxRetry(t) == Call(t, "work", None)
DcmfStatus(t) == Call(t, "work", None)

Lock(t) ==
  /\ pc[t] = "lock"
  /\ holder = None
  /\ holder' = t
  /\ Goes(t, "locked")
  /\ UNCHANGED <<library, firmware>>
  /\ ThreadUnchanged

Unlocks(t) == holder' = None /\ Returns(t)

\* Mutant of CallFails: an error path forgets the mutex.
CallFailsLocked(t) ==
  /\ pc[t] \in Locked
  /\ Returns(t)
  /\ UNCHANGED <<library, holder, firmware>>

\* A check fails, or an attribute cannot be read or written.
CallFails(t) ==
  /\ pc[t] \in Locked
  /\ Unlocks(t)
  /\ UNCHANGED <<library, firmware>>

\* Slot calls, and those that only read the DCMF's attributes.
Work(t) ==
  /\ pc[t] = "locked" /\ call[t].op = "work"
  /\ Unlocks(t)
  /\ UNCHANGED <<library, firmware>>

\* The message of rsu_notify, and the address of the next image.
Send(t) ==
  /\ pc[t] = "locked"
  /\ \/ /\ call[t].op = "notify"
        /\ firmware' = Notified(Masked(call[t].value))
     \/ /\ call[t].op = "load"
        /\ firmware' = [firmware EXCEPT !.image = call[t].value]
  /\ holder' = None
  /\ Goes(t, "idle")
  /\ call' = [call EXCEPT ![t] = NoCall]
  /\ Watched
  /\ UNCHANGED <<library, status>>

\* rsu_status_log, also as the other two begin with it: one attribute after another.
ReadErrors(t) ==
  /\ pc[t] = "locked" /\ call[t].op \in {"status", "clear", "reset"}
  /\ mailboxDev = RsuDevice
  /\ status' = [status EXCEPT ![t] = [errors |-> firmware.errors, retries |-> 0]]
  /\ seen' = [seen EXCEPT ![t] = {View(firmware)}]
  /\ Goes(t, "reading")
  /\ UNCHANGED <<library, holder, call, firmware>>

\* Mutant of ReadRetries: the mutex is free in between.
ReadRetriesUnlocked(t) ==
  /\ pc[t] = "reading"
  /\ IF holder = t THEN holder' = None /\ UNCHANGED <<status, pc>>
     ELSE /\ status' = [status EXCEPT ![t].retries = firmware.retries]
          /\ Goes(t, "read")
          /\ UNCHANGED holder
  /\ UNCHANGED <<library, call, firmware, seen>>

\* The retry counter is zero when the firmware is too old to have one.
ReadRetries(t) ==
  /\ pc[t] = "reading"
  /\ status' = [status EXCEPT ![t].retries =
                  IF Features = {"acmf", "dcmf"} THEN firmware.retries ELSE 0]
  /\ holder' = None
  /\ Goes(t, "read")
  /\ UNCHANGED <<library, call, firmware, seen>>

\* What a call needs the firmware to be able to do.
Needs(op) ==
  CASE op = "status" -> {} [] op = "clear" -> {"acmf"} [] op = "reset" -> {"acmf", "dcmf"}

StatusReturns(t) ==
  /\ pc[t] = "read"
  /\ call[t].op = "status" \/ ~(Needs(call[t].op) \subseteq Features)
  /\ Returns(t)
  /\ UNCHANGED <<library, holder, firmware>>

\* rsu_clear_error_status and rsu_reset_retry_counter lock again for their message.
UseStatus(t) ==
  /\ pc[t] = "read"
  /\ call[t].op # "status" /\ Needs(call[t].op) \subseteq Features
  /\ Goes(t, "relock")
  /\ status' = [status EXCEPT ![t] = None]
  /\ seen' = [seen EXCEPT ![t] = {}]
  /\ UNCHANGED <<library, holder, call, firmware>>

LockAgain(t) ==
  /\ pc[t] = "relock"
  /\ holder = None
  /\ holder' = t
  /\ Goes(t, "clearing")
  /\ UNCHANGED <<library, firmware>>
  /\ ThreadUnchanged

Clear(t) ==
  /\ pc[t] = "clearing"
  /\ firmware' = Notified(call[t].value)
  /\ holder' = None
  /\ Goes(t, "idle")
  /\ call' = [call EXCEPT ![t] = NoCall]
  /\ Watched
  /\ UNCHANGED <<library, status>>

-----------------------------------------------------------------------------
(* Environment *)

\* The board boots, and the process starts.
Boot ==
  /\ Started
  /\ firmware' \in [stage : Stages, errors : BOOLEAN, retries : Retries, image : {None}]

-----------------------------------------------------------------------------
(* Specification *)

Init ==
  /\ state = "un_initialized" /\ mutex = "raw" /\ holder = None
  /\ hal = None /\ database = "null"
  /\ logType = "stderr" /\ logFile = FALSE
  /\ mailboxDev = RsuDevice /\ miscDev = RsuDevice
  /\ root = RootDevice /\ devFile = "closed"
  /\ pc = [t \in Threads |-> "idle"]
  /\ call = [t \in Threads |-> NoCall]
  /\ status = [t \in Threads |-> None]
  /\ seen = [t \in Threads |-> {}]
  /\ firmware \in [stage : Stages, errors : BOOLEAN, retries : Retries, image : {None}]

StepOf(t) ==
  \/ InitClaims(t) \/ SetupHal(t) \/ SetupLog(t) \/ SetupMailbox(t) \/ SetupQspi(t)
  \/ SetupMisc(t) \/ SetupCommon(t) \/ OpenTables(t)
  \/ StageFails(t) \/ MailboxFails(t) \/ QspiFails(t) \/ MiscFails(t)
  \/ OpenTablesFails(t)
  \/ ExitClaims(t) \/ ExitCloses(t) \/ Undo(t) \/ UndoDies(t)
  \/ Lock(t) \/ CallFails(t) \/ Work(t) \/ Send(t) \/ ReadErrors(t) \/ ReadRetries(t)
  \/ StatusReturns(t) \/ UseStatus(t) \/ LockAgain(t) \/ Clear(t)

Api(t) ==
  \/ \E file \in Files : InitBegins(t, file)
  \/ ExitBegins(t)
  \/ \E notice \in Notices : Notify(t, notice)
  \/ StatusLog(t) \/ ClearErrorStatus(t) \/ ResetRetryCounter(t)
  \/ LoadAfterReboot(t) \/ LoadFactoryAfterReboot(t)
  \/ RunningFactory(t) \/ DcmfVersion(t) \/ MaxRetry(t) \/ DcmfStatus(t)

Next == (\E t \in Threads : StepOf(t) \/ Api(t)) \/ Boot

Spec == Init /\ [][Next]_vars

\* A thread that can take a step of its call takes it in the end.
FairSpec == Spec /\ \A t \in Threads : WF_vars(StepOf(t))

-----------------------------------------------------------------------------
(* Properties *)

\* A thread that holds the mutex is alone with a library that is completely set up: a
\* call made during librsu_init comes back before it touches anything, and one that
\* came in during its life ends in it.
SectionsAreSafe ==
  \A t \in Threads : pc[t] \in Locked =>
    /\ holder = t
    /\ \A u \in Threads \ {t} : pc[u] \notin Locked \cup Setup \cup Teardown
    /\ mutex = "ready" /\ state = "initialized"
    /\ hal # None /\ database = "open" /\ devFile = "open"

\* A librsu_init that fails at any stage, like librsu_exit, leaves nothing allocated,
\* open or locked behind.
NothingLeftBehind ==
  (state = "un_initialized" /\ \A t \in Threads : ~Inside(t)) =>
    /\ hal = None /\ database # "open" /\ holder = None
    /\ devFile # "open" /\ ~logFile

\* The devices in use are those of the file given to the librsu_init that succeeded, not
\* of a file that an earlier one was given; the mailbox and the DCMF calls agree.
DevicesAreConsistent ==
  state = "initialized" => mailboxDev = RsuDevice /\ miscDev = mailboxDev

\* What a caller is told of the firmware's status was its status at one instant, although
\* it is read attribute by attribute while other threads send messages.
StatusIsSnapshot ==
  \A t \in Threads : pc[t] = "read" => status[t] \in seen[t]
                                       \/ Features # {"acmf", "dcmf"}

\* A stage, an error and a retry count change only by the call that is for it: no value
\* passed to rsu_notify clears an error, and clearing one leaves the stage alone.
CallsChangeTheirOwn ==
  [][ \/ Boot
      \/ /\ firmware'.stage # firmware.stage =>
              \E t \in Threads : call[t].op = "notify" /\ holder = t
         /\ firmware'.errors # firmware.errors =>
              \E t \in Threads : call[t].op = "clear" /\ holder = t
         /\ firmware'.retries # firmware.retries =>
              \E t \in Threads : call[t].op = "reset" /\ holder = t ]_vars

\* Whoever holds the mutex releases it, and librsu_init and librsu_exit end.
SectionsEnd ==
  \A t \in Threads :
    pc[t] \in Locked \cup Setup \cup Teardown ~>
      (holder # t /\ pc[t] \notin Locked \cup Setup \cup Teardown)

\* librsu_exit does not leave the log going to a file that it has closed.
LogReleased ==
  [][\A t \in Threads : (call[t].op = "exit" /\ call'[t].op = "none") => ~LogLost']_vars
=============================================================================
