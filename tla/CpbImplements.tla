--------------------------- MODULE CpbImplements ---------------------------
(***************************************************************************)
(* The pointer block implements the boot order, a durable list of slots:   *)
(* each table stands for the list of its live entries from the end, highest*)
(* priority first, the firmware's order.                                   *)
(***************************************************************************)
EXTENDS Cpb, Sequences

\* The place of a live entry, counted from the end as priority_get does.
Place(t, s) == Cardinality({r \in LiveSlots(t) : r >= s})
ListOf(t) ==
  [i \in 1..Cardinality(LiveSlots(t)) |->
     t[CHOOSE s \in LiveSlots(t) : Place(t, s) = i]]

Holds(list, p) == \E i \in DOMAIN list : list[i] = p
Headed(p, list) == <<p>> \o list
Without(list, k) ==
  [i \in 1..(Len(list) - 1) |-> IF i < k THEN list[i] ELSE list[i + 1]]

\* An edit removes one entry, or puts a slot that is not in the list at its head.
\* A full list is never shortened to make room.
ListEdits(list) ==
  {Without(list, k) : k \in DOMAIN list} \cup
  {Headed(p, list) : p \in {q \in Offsets : ~Holds(list, q) /\ Len(list) < NSlots}}

CONSTANT None    \* no list at all

Mode ==
  CASE ~trusted                 -> "unsafe"
    [] trusted /\ pc = "down"   -> "off"
    [] trusted /\ Idle          -> IF corrupted THEN "refused" ELSE "serving"
    [] OTHER                    -> "busy"

ListReplacements == {<<>>} \cup {ListOf(b) : b \in Backups}

\* Once lost, the boot order comes back only by rsu_create_empty_cpb or rsu_restore_cpb.
FoundAgain(list) == list \in ListReplacements

OrderValue == IF trusted THEN ListOf(committed) ELSE None
OrderNext == IF trusted THEN ListOf(target) ELSE None
OrderView == IF Mode = "serving" THEN ListOf(cpb) ELSE None

Order == INSTANCE Durable WITH
  Initial <- <<>>,
  Edits <- ListEdits,
  Replacements <- ListReplacements,
  Found <- FoundAgain,
  value <- OrderValue,
  next <- OrderNext,
  mode <- Mode,
  view <- OrderView

\* Through crashes in the middle of any flash operation, compression and repair,
\* rsu_slot_enable, _disable, _program and the CPB calls change the boot order one
\* edit at a time, and callers are never shown a list that is neither the one
\* before nor the one after an interrupted edit.
ImplementsBootOrder == Order!Spec
=============================================================================
