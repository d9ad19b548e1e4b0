------------------------------- MODULE MCCpb -------------------------------
(* Constants of the Cpb runs. *)
EXTENDS CpbImplements, CpbInvariant

\* Offsets that differ in one bit: a torn write of one of them can read as the other.
NestedOffsets == {{1}, {1, 2}}
\* Offsets that clear each other's bits: one written over the other is spent.
DisjointOffsets == {{1}, {2}}
MagicWord == {2}

TableOf(first) ==
  [c \in 0..NSlots |-> IF c = 0 THEN MagicWord ELSE IF c = 1 THEN first ELSE Bits]

\* A saved image that enables the slot at {1}, and one whose pointer is the offset of
\* a partition that is not in the SPT any more.
GoodAndStaleBackup == {TableOf({1}), TableOf({3})}

\* Half erased copies that pass every check, one that fails the pointer check, one
\* that fails the magic number check.
HalfErasedTables ==
  {[c \in 0..NSlots |-> IF c = 0 THEN MagicWord ELSE w] : w \in Offsets \cup {{}, {3}}}
    \cup {[c \in 0..NSlots |-> {}]}

\* One that passes every check and one that fails the magic number check.
TwoHalfErased ==
  {[c \in 0..NSlots |-> IF c = 0 THEN w ELSE {1}] : w \in {MagicWord, {}}}

\* Bound: once the copies no longer protect the table (no property constrains the
\* CPB then), flash operations are done completely or not at all, and report no
\* further error, until a replacement is installed.
BoundedFaults ==
  (~trusted /\ InFlight) =>
    /\ flash' \in {flash, [flash EXCEPT ![Copy] = Outcome(@)]}
    /\ ~(UpdateFails \/ WriteFails)
=============================================================================
