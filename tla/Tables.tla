------------------------------- MODULE Tables -------------------------------
(***************************************************************************)
(* The sub-partition table as a value: what check_spt accepts, how slots   *)
(* are numbered, and what partition_rename, partition_delete and           *)
(* partition_create make of a table.                                       *)
(*                                                                         *)
(* Abstractions.                                                           *)
(*  - A table is the sequence of its partitions; partition[x] is entry     *)
(*    x + 1.  Names are told apart whole.                                  *)
(*  - Slots lie inside the flash: offset + length does not wrap.           *)
(***************************************************************************)
EXTENDS Naturals, Sequences, FiniteSets

CONSTANTS
  SlotNames,      \* the names callers give to slots
  MaxPartitions   \* SPT_MAX_PARTITIONS

Critical == {"SPT0", "SPT1", "CPB0", "CPB1"}
Reserved == Critical \cup {"SPT", "CPB", "BOOT_INFO", "FACTORY_IMAGE"}

Partition == [name : Reserved \cup SlotNames, offset : Nat, length : Nat,
              flags : SUBSET {"reserved", "readonly"}]
Table == Seq(Partition)

ASSUME SlotNamesAssumption == SlotNames \cap Reserved = {}
ASSUME MaxPartitionsAssumption == MaxPartitions \in Nat

Named(t, name) == \E x \in DOMAIN t : t[x].name = name
Overlap(p, q) == p.offset < q.offset + q.length /\ p.offset + p.length > q.offset

\* The checks of check_spt and load_spt0_offset on a table.
CheckSpt(t) ==
  /\ Len(t) <= MaxPartitions
  /\ \A x, y \in DOMAIN t :
       x # y => t[x].name # t[y].name /\ ~Overlap(t[x], t[y])
  /\ \A name \in Critical : Named(t, name)

IsSlot(p) == p.flags = {} /\ p.name \notin Reserved
SlotNumber(t, x) == Cardinality({y \in 1..(x - 1) : IsSlot(t[y])})

\* librsu_misc_slot2part: the partition that is slot n, if there is one.
Slot2Part(t, n) == {x \in DOMAIN t : IsSlot(t[x]) /\ SlotNumber(t, x) = n}

Renamed(t, x, name) == [t EXCEPT ![x].name = name]

\* Mutant of Without: the loop starts one too far.
WithoutNext(t, x) == [y \in 1..(Len(t) - 1) |-> IF y <= x THEN t[y] ELSE t[y + 1]]

\* partition_delete moves the partitions behind x down.
Without(t, x) == [y \in 1..(Len(t) - 1) |-> IF y < x THEN t[y] ELSE t[y + 1]]

NewSlot(name, request) ==
  [name |-> name, offset |-> request.offset, length |-> request.length, flags |-> {}]
=============================================================================
