-------------------------- MODULE SlotsImplements --------------------------
(***************************************************************************)
(* The partition table at the grain of Slots, one update per step, keeps   *)
(* the promise that SptImplements shows at the grain of one flash          *)
(* operation: across whole calls, which also work on data and pointers, it *)
(* is a durable value that changes one edit at a time.                     *)
(***************************************************************************)
EXTENDS SlotsInvariant

CONSTANT None    \* no table at all

ASSUME NoneAssumption == None \notin Table

VARIABLE target  \* history: the table that the update in progress, or the one that a
                 \* crash cut short, installs; the one in flash when there is none;
                 \* None when flash and memory have parted, or flash holds a bad table

\* What rsu_slot_create, _delete and _rename may make of a table.
TableEdits(t) ==
  {Append(t, slot) : slot \in
     {s \in {NewSlot(name, request) : name \in SlotNames, request \in Requests} :
        /\ Len(t) < MaxPartitions /\ ~Named(t, s.name)
        /\ \A x \in DOMAIN t : ~Overlap(t[x], s)}} \cup
  {Without(t, x) : x \in {y \in DOMAIN t : IsSlot(t[y])}} \cup
  {Renamed(t, x, name) : x \in {y \in DOMAIN t : IsSlot(t[y])},
                         name \in {m \in SlotNames : ~Named(t, m)}}

Installing == At("edit") \/ At("replace")

\* An update fails and the library goes on, a table is installed that check_spt would
\* refuse, or one is written over a table that was refused.
Lost ==
  \/ Installing /\ up' /\ (sptTorn' \/ ~CheckSpt(table'))
  \/ sptCorrupted' /\ todo' # <<>>
  \/ target = None /\ (sptTorn' \/ ~CheckSpt(table'))

Track ==
  target' = IF Lost THEN None
            ELSE IF Installing' THEN call'.table
            ELSE IF sptTorn' THEN target
            ELSE table'

TrackedInit == Init /\ target = Provisioned

TrackedSpec == TrackedInit /\ [][Next /\ Track]_<<vars, target>>

Mode ==
  CASE target = None                            -> "unsafe"
    [] target # None /\ ~up                     -> "off"
    [] target # None /\ up /\ todo # <<>>       -> "busy"
    [] target # None /\ Idle /\ sptCorrupted    -> "refused"
    [] target # None /\ Idle /\ ~sptCorrupted   -> "serving"

Value == IF target = None THEN None ELSE table
View == IF Mode = "serving" THEN spt ELSE None

Durably == INSTANCE Durable WITH
  Initial <- Provisioned,
  Edits <- TableEdits,
  Replacements <- SptBackups,
  Found <- CheckSpt,
  value <- Value,
  next <- target,
  mode <- Mode,
  view <- View

\* Whatever calls and crashes come in between, the partition table changes by one edit a
\* caller asked for, or by a replacement, or not at all; after a crash in the middle of
\* an update the library finds the table before or after it, or refuses to serve.
\* Callers are never shown a table that flash does not hold.
ImplementsTable == Durably!Spec

-----------------------------------------------------------------------------
(* What the refinement rests on *)

\* As long as the target is known, the table in flash passes check_spt and is the target
\* unless an update is under way; a torn table is never in use; and what the next update
\* of a call installs is an edit of the table in memory.
TrackInv ==
  /\ target = None => sptTorn \/ ~CheckSpt(table)
  /\ target # None =>
       /\ CheckSpt(table)
       /\ ~sptTorn => target = IF Installing THEN call.table ELSE table
       /\ sptTorn => ~up \/ Pending("load_spt") \/ sptCorrupted
       /\ sptCorrupted => todo = <<>>
  /\ sptCorrupted => /\ sptTorn \/ ~CheckSpt(table)
                     /\ ~Pending("edit") /\ ~Pending("load_spt")
  /\ Pending("edit") => call.table \in TableEdits(spt)
  /\ Pending("replace") => At("replace")
=============================================================================
