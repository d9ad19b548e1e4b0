---------------------------- MODULE SptInvariant ----------------------------
(***************************************************************************)
(* The inductive invariant behind Spt's safety properties: what memory,    *)
(* the two copies and the history variables hold at each step of the       *)
(* functions that write the partition table.                               *)
(***************************************************************************)
EXTENDS Spt

Rewriting == pc \in {"erase", "body", "magic"}

\* What memory is written as, once a copy is complete.
Complete == [spt EXCEPT !.magic = TRUE]

\* The copy being rewritten: erased, then everything but the magic number.
RewrittenCopy ==
  /\ pc = "body" => flash[Copy] = Blank
  /\ pc = "magic" => flash[Copy] = [spt EXCEPT !.magic = FALSE]

\* The tables a load may settle on are valid ones.
GoodHistory ==
  /\ committed = Lost <=> target = Lost
  /\ trusted => CheckSpt(committed) /\ CheckSpt(target)

\* One copy is intact and holds the old or the new table.
Recoverable ==
  trusted => \E c \in Copies : /\ Passes(flash[c])
                               /\ flash[c].table \in {committed, target}

\* Nothing was cut short: the copies agree, except while they are rewritten.
Agreeing ==
  (trusted /\ ~interrupted /\ ~Rewriting) =>
    flash["SPT0"] = flash["SPT1"] /\ Passes(flash["SPT0"])

\* Between calls, and when an edit has been written and is loaded again, memory is
\* what both copies hold.
Whole ==
  /\ (trusted /\ Idle /\ ~corrupted /\ ~interrupted) =>
       /\ Passes(spt) /\ \A c \in Copies : flash[c] = spt
       /\ committed = spt.table /\ target = spt.table
  /\ (trusted /\ pc = "check" /\ call.op # "open") =>
       /\ Passes(spt) /\ \A c \in Copies : flash[c] = spt
       /\ target = spt.table

\* Memory has the magic number but while the magic number is all that is missing in
\* flash, so that the checksum is calculated over the right one.
WritingBack ==
  (Rewriting /\ job = "writeback_spt" /\ (trusted \/ call.op = "restore")) =>
    /\ spt.magic = (pc # "magic")
    /\ pc = "magic" => (Checksums => spt.sum)
    /\ \A c \in Copies \ todo :
         Named(spt.table, c) => flash[c] = Complete /\ (Checksums => spt.sum)
    /\ RewrittenCopy

\* writeback_spt when there is a table to protect: a copy that was not reached yet
\* holds the old one.
WritingBackSafely ==
  (trusted /\ Rewriting /\ job = "writeback_spt") =>
    /\ spt.table = target /\ ~interrupted
    /\ \A c \in todo : (c # Copy \/ pc = "erase") =>
         Passes(flash[c]) /\ flash[c].table = committed

\* load_spt's repair of one copy from the other.
Repairing ==
  (Rewriting /\ job = "load_spt") =>
    /\ trusted /\ committed = target /\ spt.table = target
    /\ spt.magic = (pc # "magic")
    /\ Passes(Complete)
    /\ \E c \in Copies : /\ todo \subseteq {c}
                         /\ flash[Other(c)] = Complete
                         /\ todo = {} => flash[c] = Complete
    /\ RewrittenCopy

\* What the control state says about the call.
Control ==
  /\ Rewriting => job \in {"writeback_spt", "load_spt"}
  /\ pc \in {"body", "magic"} => todo # {}
  /\ (Rewriting /\ job = "writeback_spt") =>
       /\ call.op # "open"
       /\ \A c \in todo : Named(spt.table, c)
  /\ corrupted => Idle \/ (Rewriting /\ job = "writeback_spt" /\ call.op = "restore")
  /\ (trusted /\ corrupted) => Idle /\ interrupted

IInv ==
  /\ TypeOK /\ GoodHistory /\ Recoverable /\ Agreeing /\ Whole
  /\ WritingBack /\ WritingBackSafely /\ Repairing /\ Control

\* A call that loads the SPT again after its edit found it whole when it started.
Reloading == (trusted /\ pc = "check" /\ call.op # "open") => ~interrupted
=============================================================================
