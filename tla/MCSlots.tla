------------------------------ MODULE MCSlots ------------------------------
(* Constants of the Slots run. *)
EXTENDS SlotsImplements

Entry(name, offset, length) ==
  [name |-> name, offset |-> offset, length |-> length, flags |-> {}]
Tables4 == <<Entry("SPT0", 0, 1), Entry("SPT1", 1, 1), Entry("CPB0", 2, 1),
             Entry("CPB1", 3, 1)>>

\* Two slots, with a reserved name between them.
TwoSlots ==
  Tables4 \o <<Entry("A", 5, 1), Entry("FACTORY_IMAGE", 4, 1), Entry("B", 6, 2)>>

\* The second slot holds a bitstream, and a pointer leads there.
ShippedB == <<6>>

\* The place of the first slot, and one behind the second one that overlaps it.
SlotRequests == {[offset |-> 5, length |-> 1], [offset |-> 7, length |-> 1]}

\* A table without A, and one whose slots overlap.
Backups == {Tables4 \o <<Entry("B", 6, 2)>>,
            Tables4 \o <<Entry("A", 6, 2), Entry("B", 5, 2)>>}

\* Pointers to both slots, and to nowhere.
PointerBackups == {<<6, 5>>, <<7>>}
=============================================================================
