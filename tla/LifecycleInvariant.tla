------------------------- MODULE LifecycleInvariant -------------------------
(***************************************************************************)
(* The inductive invariant behind Lifecycle's safety properties: who can   *)
(* be in the library at which of its states, what librsu_cfg_parse has     *)
(* set up at each of its stages, and what a thread has read of the         *)
(* firmware's status.                                                      *)
(***************************************************************************)
EXTENDS Lifecycle

Busy == {"init"} \cup Setup \cup Teardown
Calling == {"lock", "read", "relock"} \cup Locked

Operations ==
  {"none", "init", "exit", "notify", "status", "clear", "reset", "load", "work"}
Views == [errors : BOOLEAN, retries : Nat]
Firmware ==
  [stage : Stages, errors : BOOLEAN, retries : Retries, image : {None, "slot", "factory"}]

TypeOK ==
  /\ state \in {"un_initialized", "in_progress", "initialized"}
  /\ mutex \in {"raw", "ready", "destroyed"}
  /\ holder \in Threads \cup {None}
  /\ hal \in {None} \cup [writeprotect : SUBSET Nat]
  /\ database \in {"null", "open", "freed"}
  /\ logType \in {"stderr", "file"} /\ logFile \in BOOLEAN
  /\ mailboxDev \in {RsuDevice, "wrong"} /\ miscDev \in {RsuDevice, "wrong"}
  /\ root \in {RootDevice, "other"}
  /\ devFile \in {"closed", "open", "stale"}
  /\ pc \in [Threads -> {"idle"} \cup Busy \cup Calling]
  /\ call = [t \in Threads |-> call[t]]
  /\ \A t \in Threads : call[t].op \in Operations /\ call[t].file \in Files \cup {None}
  /\ status \in [Threads -> Views \cup {None}]
  /\ seen \in [Threads -> SUBSET Views]
  /\ firmware \in Firmware

\* The mutex is held by the thread that is in a section, and by no other.
MutexHeld == \A t \in Threads : holder = t <=> pc[t] \in Locked

\* librsu_init and librsu_exit have the library to themselves.
Alone ==
  \A t, u \in Threads : (pc[t] \in Busy /\ t # u) => pc[u] = "idle"

\* What the library's state says of a thread that is in it.
StateFits ==
  \A t \in Threads :
    /\ pc[t] = "init" => state = "un_initialized"
    /\ pc[t] \in Setup \cup {"close", "undo"} => state = "in_progress"
    /\ pc[t] \in Setup => mutex = "ready"
    /\ pc[t] \in {"exit"} \cup Calling => state = "initialized"

\* What a thread does is what it has called.
CallAt(stage, c) ==
  /\ stage = "idle" => c = NoCall
  /\ stage \in {"init"} \cup Setup => c.op = "init" /\ c.file \in Files
  /\ stage \in {"exit", "close"} => c.op = "exit"
  /\ stage \in Calling => c.op \in {"notify", "status", "clear", "reset", "load", "work"}
  /\ stage \in {"reading", "read"} => c.op \in {"status", "clear", "reset"}
  /\ stage \in {"relock", "clearing"} => c.op \in {"clear", "reset"}
  /\ c.op = "notify" => c.value \in Notices
  /\ c.op = "clear" => c.value = Notice(TRUE, TRUE, FALSE, None)
  /\ c.op = "reset" => c.value = Notice(TRUE, FALSE, TRUE, None)
  /\ c.op = "load" => c.value \in {"slot", "factory"}

CallFits == \A t \in Threads : CallAt(pc[t], call[t])

\* Nothing is set up in a library that is not initialized, all of it in one that is.
Down ==
  state = "un_initialized" =>
    /\ hal = None /\ database # "open" /\ devFile # "open" /\ ~logFile
    /\ mailboxDev = RsuDevice /\ miscDev = RsuDevice
Up ==
  state = "initialized" =>
    /\ mutex = "ready"
    /\ hal # None /\ database = "open" /\ devFile = "open"
    /\ mailboxDev = RsuDevice /\ miscDev = RsuDevice

\* In between, each stage finds what the ones before it have left.
StagesFit ==
  \A t \in Threads :
    /\ pc[t] \in Setup \cup {"undo"} => database # "open"
    /\ pc[t] \in {"hal", "log", "mailbox", "qspi", "undo"} => devFile # "open"
    /\ pc[t] \in {"misc", "common", "tables"} => devFile = "open"
    /\ pc[t] \in {"hal", "log"} => ~logFile
    /\ pc[t] \in Setup \ {"hal"} => hal # None
    /\ pc[t] \in {"hal", "log", "mailbox", "undo"} =>
         mailboxDev = RsuDevice /\ miscDev = RsuDevice
    /\ pc[t] \in {"qspi", "misc"} =>
         mailboxDev = Named(File(t).dev, RsuDevice) /\ miscDev = RsuDevice
    /\ pc[t] \in {"common", "tables"} => miscDev = mailboxDev

\* A thread in the middle of reading has what the firmware says now, one that has
\* finished what it said at some time since it began.
ReadingFits ==
  \A t \in Threads :
    /\ pc[t] \in {"reading", "read"} => status[t] \in Views
    /\ pc[t] = "reading" =>
         View(firmware) \in seen[t] /\ status[t].errors = firmware.errors
    /\ pc[t] = "read" => status[t] \in seen[t] \/ Features # {"acmf", "dcmf"}

IInv ==
  /\ TypeOK
  /\ MutexHeld /\ Alone /\ StateFits /\ CallFits
  /\ Down /\ Up /\ StagesFit
  /\ ReadingFits
=============================================================================
