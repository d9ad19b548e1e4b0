----------------------------- MODULE MCProgram -----------------------------
(* Constants of the Program runs: bitstreams for a slot of a few blocks at 8. *)
EXTENDS Program

CONSTANTS Code, Data

Plain(body) == [magic |-> FALSE, body |-> body]
Cmf(body) == [magic |-> TRUE, body |-> body]
Block2(front, ptrs) == <<front, [ptrs |-> ptrs, crc |-> Crc(front, ptrs)]>>

\* Two sections, the second one at block 2, which says the same.
TwoSections(ptrs) ==
  Block2(Cmf(Code), <<0, 0>>) \o Block2(Plain(Data), ptrs) \o
  Block2(Cmf(Data), <<0, 0>>) \o Block2(Plain(Code), ptrs)

\* Bitstreams to be relocated, absolute, ending with half a signature block, of half
\* a block, larger than the slot, empty.
Images ==
  {TwoSections(<<2, 0>>), TwoSections(<<10, 0>>), SubSeq(TwoSections(<<2, 0>>), 1, 7),
   <<Cmf(Data)>>, TwoSections(<<2, 0>>) \o <<Plain(Data)>>, <<>>}

\* Absolute images for this slot, for a higher and for a lower one.
AbsoluteImages ==
  {TwoSections(<<10, 0>>), TwoSections(<<14, 0>>), TwoSections(<<6, 0>>)}

\* The walk block by block finds the signature blocks of every image of four blocks,
\* sections anywhere, for this slot or absolute, as long as the list has room.
AllImages ==
  LET ptrs == {0, 2, 3, 10} \X {0, 1, 2, 3, 11}
  IN  {Block2(Plain(Code), <<0, 0>>) \o Block2(Plain(Code), p) \o
       Block2(Plain(Code), q) \o Block2(Plain(Code), <<2, 0>>) : p, q \in ptrs}
Marked(image, cmfs) ==
  [i \in DOMAIN image |->
     IF i \in {2 * k + 1 : k \in cmfs} THEN Cmf(Code) ELSE image[i]]
ASSUME WalkFindsSignatures ==
  \A image \in AllImages, cmfs \in SUBSET (0..3) :
    LET marked == Marked(image, cmfs)
    IN  FewSections(marked) => Walked(marked) = Signatures(marked)
=============================================================================
