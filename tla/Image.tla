------------------------------- MODULE Image -------------------------------
(***************************************************************************)
(* libRSU_image.c: how the bitstream that goes into a slot is walked and   *)
(* relocated, block by block, and what the result should be, said of the   *)
(* whole bitstream at once.                                                *)
(*                                                                         *)
(* Abstractions.                                                           *)
(*  - A block of IMAGE_BLOCK_SZ bytes is two halves: the front holds the   *)
(*    magic number, the tail the section pointers and the CRC, which       *)
(*    covers the front and the pointers.  Data is the body of a front.     *)
(*  - Offsets, sizes and pointers count blocks.  Pointers are below 2^63,  *)
(*    so that they subtract as integers; one that falls inside a block     *)
(*    never equals an offset and is left out.                              *)
(***************************************************************************)
EXTENDS Integers, Sequences, FiniteSets

CONSTANTS
  Base,         \* info->offset, where the slot begins in flash
  Size,         \* info->size
  MaxSections   \* MAX_SECTIONS

ASSUME SlotAssumption == Base \in Nat /\ Size \in Nat
ASSUME MaxSectionsAssumption == MaxSections \in Nat \ {0}

\* A CRC stands for what it was computed over.
Crc(front, ptrs) == <<front, ptrs>>

\* Where a pointer points to, from the beginning of the slot.
Target(absolute, ptr) == IF absolute THEN ptr - Base ELSE ptr

PointersBeyond(ptrs, limit) == {x \in DOMAIN ptrs : ptrs[x] > limit}

-----------------------------------------------------------------------------
(* The state machine: struct rsu_image_state *)

\* librsu_image_block_init
ImageInit ==
  [offset |-> -1, type |-> "regular", sections |-> {0}, absolute |-> FALSE]

\* add_section; nobody looks at its result when the list is full.
AddSection(sections, section) ==
  IF Cardinality(sections) < MaxSections THEN sections \cup {section} ELSE sections

\* sig_block_process: an absolute image shows at its second block; the pointers that
\* are set join the list one after the other.
SigBlockProcess(state, ptrs) ==
  LET absolute == \/ state.absolute
                  \/ state.offset = 1 /\ PointersBeyond(ptrs, Size) # {}
      after[x \in 0..Len(ptrs)] ==
        IF x = 0 THEN state.sections
        ELSE IF ptrs[x] = 0 THEN after[x - 1]
        ELSE AddSection(after[x - 1], Target(absolute, ptrs[x]))
  IN  [state EXCEPT !.absolute = absolute, !.sections = after[Len(ptrs)]]

\* The next block's offset, and its type by what came before it.
Enter(state) ==
  LET offset == state.offset + 1
  IN  [state EXCEPT !.offset = offset,
                    !.type = IF offset \in state.sections THEN "section" ELSE @]

\* What librsu_image_block_process makes of the state at a block.
BlockProcess(state, block) ==
  LET here == Enter(state)
  IN  CASE here.type = "section" ->
             [here EXCEPT !.type = IF block.front.magic THEN "signature" ELSE "regular"]
        [] here.type = "signature" ->
             [SigBlockProcess(here, block.tail.ptrs) EXCEPT !.type = "regular"]
        [] OTHER -> here

IsSignature(state) == Enter(state).type = "signature"

\* Pointers move with the slot, and the CRC is computed again.
Relocate(block) ==
  LET ptrs == [x \in DOMAIN block.tail.ptrs |->
                 IF block.tail.ptrs[x] = 0 THEN 0 ELSE block.tail.ptrs[x] + Base]
  IN  [block EXCEPT !.tail = [ptrs |-> ptrs, crc |-> Crc(block.front, ptrs)]]

\* What a signature block is to be in flash.
SigBlockExpected(absolute, block) == IF absolute THEN block ELSE Relocate(block)

\* sig_block_adjust's checks, after sig_block_process has seen the block.
SigBlockAccepted(absolute, block) ==
  /\ block.tail.crc = Crc(block.front, block.tail.ptrs)
  /\ \A x \in DOMAIN block.tail.ptrs :
       block.tail.ptrs[x] # 0 => Target(absolute, block.tail.ptrs[x]) <= Size

-----------------------------------------------------------------------------
(* The whole bitstream, a sequence of halves; block k is at offset k *)

Blocks(stream) == Len(stream) \div 2
FrontOf(stream, k) == stream[2 * k + 1]
TailOf(stream, k) == stream[2 * k + 2]
BlockOf(stream, k) == [front |-> FrontOf(stream, k), tail |-> TailOf(stream, k)]

\* What a caller may have: fronts and tails in turn.
IsBitstream(stream) ==
  /\ stream \in Seq({stream[x] : x \in DOMAIN stream})
  /\ \A k \in 0..(Blocks(stream) - 1) :
       FrontOf(stream, k).magic \in BOOLEAN /\ TailOf(stream, k).ptrs \in Seq(Nat)

IsAbsolute(stream) ==
  /\ Blocks(stream) > 1
  /\ FrontOf(stream, 0).magic
  /\ PointersBeyond(TailOf(stream, 1).ptrs, Size) # {}

Pointed(stream, k) ==
  {Target(IsAbsolute(stream), ptr) :
     ptr \in {TailOf(stream, k).ptrs[x] : x \in DOMAIN TailOf(stream, k).ptrs} \ {0}}

\* A section begins at the beginning, and where a signature block in front points to.
Begins(stream, signs, k) ==
  k = 0 \/ \E j \in 1..(k - 1) : signs[j] /\ k \in Pointed(stream, j)

\* A signature block follows the CMF block that begins a section.
Signatures(stream) ==
  LET signs[k \in 0..(Blocks(stream) - 1)] ==
        /\ k > 0 /\ FrontOf(stream, k - 1).magic
        /\ Begins(stream, signs, k - 1) /\ ~Begins(stream, signs, k)
  IN  {k \in 0..(Blocks(stream) - 1) : signs[k]}

\* The states the state machine goes through, each before the block of its number,
\* and the blocks that it takes for signature blocks.
States(stream) ==
  LET states[k \in 0..Blocks(stream)] ==
        IF k = 0 THEN ImageInit
        ELSE BlockProcess(states[k - 1], BlockOf(stream, k - 1))
  IN  states
Walked(stream) ==
  {k \in 0..(Blocks(stream) - 1) : IsSignature(States(stream)[k])}

\* The list of sections is long enough.
FewSections(stream) ==
  Cardinality({0} \cup UNION {Pointed(stream, k) : k \in Signatures(stream)})
    <= MaxSections

\* What a slot holds that was programmed with stream.
Relocated(stream) ==
  [i \in DOMAIN stream |->
     LET k == (i - 1) \div 2
     IN  IF i = 2 * k + 2 /\ k \in Signatures(stream)
         THEN SigBlockExpected(IsAbsolute(stream), BlockOf(stream, k)).tail
         ELSE stream[i]]
=============================================================================
