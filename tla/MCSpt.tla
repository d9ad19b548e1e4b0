------------------------------- MODULE MCSpt -------------------------------
(* Constants of the Spt runs. *)
EXTENDS SptImplements, SptInvariant

Entry(name, offset, length) ==
  [name |-> name, offset |-> offset, length |-> length, flags |-> {}]
Fixed == <<Entry("SPT0", 0, 1), Entry("SPT1", 1, 1), Entry("CPB0", 2, 1),
           Entry("CPB1", 3, 1), [Entry("BOOT_INFO", 4, 1) EXCEPT
             !.flags = {"reserved"}]>>

\* A board with one slot.
OneSlot == Append(Fixed, Entry("A", 5, 2))

\* SPT1 and a slot before SPT0.
SlotFirst == <<Entry("A", 5, 2), Fixed[2], Fixed[1], Fixed[3], Fixed[4]>>

\* The provisioned slot's place, one behind it, one that overlaps both, and an empty
\* one at the border.
SlotRequests ==
  {[offset |-> 5, length |-> 2], [offset |-> 7, length |-> 1],
   [offset |-> 6, length |-> 2], [offset |-> 7, length |-> 0]}

\* An image saved from a board with another slot, one with overlapping partitions,
\* and two that lack SPT1 and SPT0.
GoodAndBadBackups ==
  {Append(Fixed, Entry("B", 7, 1)),
   Append(Append(Fixed, Entry("A", 5, 2)), Entry("B", 6, 2)),
   SubSeq(Fixed, 1, 1) \o SubSeq(Fixed, 3, 5),
   SubSeq(Fixed, 2, 5)}

\* An image saved from a board without slots.
NoSlotsBackup == {SubSeq(Fixed, 1, 4)}
TwoRequests == {[offset |-> 6, length |-> 2], [offset |-> 7, length |-> 1]}

\* Half erased copies: one with another slot that passes every check where there are
\* no checksums, one whose table is gone.
HalfErasedCopies ==
  {[magic |-> TRUE, sum |-> FALSE, table |-> Append(Fixed, Entry("B", 7, 1))],
   [magic |-> TRUE, sum |-> FALSE, table |-> <<>>]}
=============================================================================
