---------------------------- MODULE CpbInvariant ----------------------------
(***************************************************************************)
(* The inductive invariant behind Cpb's safety properties: what memory,    *)
(* the two copies and the history variables hold at each step of the       *)
(* functions that write the pointer block, and what becomes of the list of *)
(* slots on the way.                                                       *)
(***************************************************************************)
EXTENDS Cpb

Rewriting == pc \in {"erase", "body", "magic"}

\* The copy being rewritten: erased, then everything but the magic number.
RewrittenCopy ==
  /\ pc = "body" => flash[Copy] = ErasedTable
  /\ pc = "magic" => flash[Copy] = WithoutMagic(target)

\* The tables a load may settle on are good ones.
GoodHistory == trusted => Good(committed) /\ Good(target)

\* One copy holds the old or the new table; a stale report on CPB0 never makes the
\* library take anything else from CPB1.
Recoverable ==
  trusted =>
    /\ \E c \in Copies : flash[c] \in {committed, target}
    /\ (fw = "cpb0" /\ Good(flash[1])) => flash[1] \in {committed, target}

\* Between calls and before an update the CPB is whole and memory agrees.
Whole ==
  (trusted /\ ((Idle /\ ~corrupted) \/ pc \in {"remove", "add"})) =>
    /\ \A c \in Copies : flash[c] = cpb
    /\ committed = cpb /\ target = cpb

\* update_cpb: clears bits only; the first copy first.
Updating ==
  (trusted /\ pc = "write") =>
    /\ target = cpb
    /\ \A x \in Cells : target[x] \subseteq committed[x]
    /\ todo = Copies => \A c \in Copies : flash[c] = committed
    /\ todo # Copies => /\ todo = {Other(First)}
                        /\ flash[First] = target
                        /\ flash[Other(First)] = committed

\* writeback_cpb, also over a CPB that was lost.
WritingBack ==
  (Rewriting /\ job = "writeback_cpb" /\ (trusted \/ call.op \in {"empty", "restore"})) =>
    /\ WithMagic(cpb) = target
    /\ todo # Copies => todo = {Other(First)} /\ flash[First] = target
    /\ RewrittenCopy

\* writeback_cpb when there is a table to protect.
WritingBackSafely ==
  (trusted /\ Rewriting /\ job = "writeback_cpb") =>
    /\ todo = Copies => flash[Other(First)] = committed
    /\ pc = "erase" => flash[Copy] = committed

\* load_cpb's repair of one copy from the other.
Repairing ==
  (trusted /\ Rewriting /\ job = "load_cpb") =>
    /\ WithMagic(cpb) = target /\ committed = target
    /\ \E c \in Copies : /\ todo = {c}
                         /\ flash[Other(c)] = committed
                         /\ (c = 1 /\ call.op = "open") => fw # "cpb0"
    /\ RewrittenCopy

\* What the control state says about the call.
Control ==
  /\ call.op = "open" => ~fixed
  /\ call.next = "add" => call.op = "enable" /\ call.ptr \in Offsets
  /\ pc \in {"remove", "add"} => call.ptr \in Offsets
  /\ pc \in {"remove", "add", "write"} => call.op \in {"enable", "disable", "program"}
  /\ Rewriting => job \in {"writeback_cpb", "load_cpb"}
  /\ (Rewriting /\ job = "writeback_cpb") => call.op # "open"

IInv ==
  /\ TypeOK /\ GoodHistory /\ Recoverable /\ Whole /\ Updating
  /\ WritingBack /\ WritingBackSafely /\ Repairing /\ Control

\* Why a CPB is called corrupted: an update that was not interrupted leaves the same
\* table in both copies, and only a call that found a reason sets the flag.
Caused ==
  trusted =>
    /\ corrupted => Idle /\ (interrupted \/ fw # "ok")
    /\ (~interrupted /\ ~InFlight) => flash[0] = flash[1]

-----------------------------------------------------------------------------
(* The list *)

\* No pointer is in the list twice, and no erased entry is below a written one.
WellFormed(t) ==
  \A s, r \in Slots :
    s < r => /\ Live(t[s]) => t[s] # t[r]
             /\ t[s] = Erased => t[r] = Erased

\* What rsu_save_cpb_* saves of lists that are; rsu_restore_cpb_* takes any file.
WellFormedBackups == \A b \in Backups : Good(b) => WellFormed(b)

Writing == InFlight \/ pc = "check"
Replacing == Rewriting /\ job = "writeback_cpb" /\ call.op \in {"empty", "restore"}

\* Every table that a load may settle on has a well-formed list.
ListHistory ==
  /\ trusted => WellFormed(committed) /\ WellFormed(target)
  /\ (Replacing /\ Good(target)) => WellFormed(target)

\* rsu_create_empty_cpb and rsu_restore_cpb_* install what they were asked for.
ReplacedBy == Replacing => target \in {EmptyTable} \cup Backups

\* rsu_slot_enable removes first and adds second; while it is on its way from one to
\* the other, or to its return, neither copy holds anything but what it wrote.
EnablePlan ==
  /\ (pc = "remove" /\ call.op = "enable") => call.next = "add"
  /\ pc = "add" => call.next = "ok"
  /\ (trusted /\ call.op = "enable" /\ call.next # "fail") =>
       /\ pc = "check" => \A c \in Copies : flash[c] = target
       /\ ~corrupted

\* A pointer that is going to be added is not in the list.
AddedOnce ==
  /\ (trusted /\ pc = "add") => ~Enabled(cpb, call.ptr)
  /\ (trusted /\ Writing /\ call.next = "add") => ~Enabled(target, call.ptr)

\* One that rsu_slot_enable has added comes first.
AddedFirst ==
  (trusted /\ call.op = "enable" /\ call.next = "ok" /\ (Writing \/ Idle)) =>
    Priority(target, call.ptr) = 1

ListInv == ListHistory /\ EnablePlan /\ AddedOnce /\ AddedFirst
=============================================================================
