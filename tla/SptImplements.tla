--------------------------- MODULE SptImplements ---------------------------
(***************************************************************************)
(* The partition table implements a durable, numbered list of slots: slot  *)
(* n of the API is entry n + 1 of the list.                                *)
(***************************************************************************)
EXTENDS Spt

\* The slots of a table, each in its place.
SlotIndices(t) == {x \in DOMAIN t : IsSlot(t[x])}
Place(t, x) == Cardinality({y \in SlotIndices(t) : y <= x})
SlotsOf(t) ==
  [k \in 1..Cardinality(SlotIndices(t)) |->
     t[CHOOSE x \in SlotIndices(t) : Place(t, x) = k]]

\* A table has room for its slots beside the partitions that check_spt asks for.
Capacity == MaxPartitions - Cardinality(Critical)

Dropped(list, i) ==
  [k \in 1..(Len(list) - 1) |-> IF k < i THEN list[k] ELSE list[k + 1]]
Retitled(list, i, name) == [list EXCEPT ![i].name = name]

\* Create puts a slot that overlaps no other one, under a name no other one has, at
\* the end; delete closes the gap; rename keeps the place.
ListEdits(list) ==
  {Append(list, slot) : slot \in
     {s \in {NewSlot(name, r) : name \in SlotNames, r \in Requests} :
        Len(list) < Capacity /\ ~Named(list, s.name)
        /\ \A i \in DOMAIN list : ~Overlap(list[i], s)}} \cup
  {Dropped(list, i) : i \in DOMAIN list} \cup
  {Retitled(list, i, name) :
     i \in DOMAIN list, name \in {m \in SlotNames : ~Named(list, m)}}

CONSTANT None    \* no list at all

Mode ==
  CASE ~trusted                 -> "unsafe"
    [] trusted /\ pc = "down"   -> "off"
    [] trusted /\ Idle          -> IF corrupted \/ interrupted THEN "refused"
                                                            ELSE "serving"
    [] OTHER                    -> "busy"

\* A load never settles on slots that overlap or share a name.
FoundAgain(list) ==
  \A i, j \in DOMAIN list :
    i # j => list[i].name # list[j].name /\ ~Overlap(list[i], list[j])

ListReplacements == {SlotsOf(b) : b \in {t \in Backups : CheckSpt(t)}}

ListValue == IF trusted THEN SlotsOf(committed) ELSE None
ListNext == IF trusted THEN SlotsOf(target) ELSE None
ListView == IF Mode = "serving" THEN SlotsOf(spt.table) ELSE None

List == INSTANCE Durable WITH
  Initial <- SlotsOf(Provisioned),
  Edits <- ListEdits,
  Replacements <- ListReplacements,
  Found <- FoundAgain,
  value <- ListValue,
  next <- ListNext,
  mode <- Mode,
  view <- ListView

\* Through crashes in the middle of any flash operation and the repairs after them,
\* rsu_slot_create, _delete and _rename change the numbered list of slots by exactly
\* the edit they were asked for, on the slot that had the number, or not at all.
ImplementsSlotList == List!Spec

\* A slot number means the same slot to callers, who see slots only, as to the
\* partition table, where other partitions lie between them: rsu_slot_delete(n) and
\* rsu_slot_rename(n, ...) edit entry n + 1 of the list and nothing else.
EditsSlotAskedFor ==
  [][\A n \in 0..MaxPartitions :
       /\ Delete(n) => SlotsOf(spt'.table) = Dropped(SlotsOf(spt.table), n + 1)
       /\ \A name \in SlotNames :
            Rename(n, name) =>
              SlotsOf(spt'.table) = Retitled(SlotsOf(spt.table), n + 1, name)
    ]_vars
=============================================================================
