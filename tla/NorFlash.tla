------------------------------ MODULE NorFlash ------------------------------
(***************************************************************************)
(* The QSPI NOR flash as librsu sees it through qspi.read/write/erase.     *)
(*                                                                         *)
(* A word (a header or one 64 bit table entry) is the set of its bits that *)
(* read as one.  Erasing sets every bit; programming can only clear bits,  *)
(* so writing over old contents leaves the bitwise AND, the intersection.  *)
(* A block is a function from cells to words.                              *)
(*                                                                         *)
(* Abstractions: the width of a word is the size of Bits; a read returns   *)
(* what the block holds; wear, bit rot and ECC are left out.               *)
(***************************************************************************)

CONSTANT Bits      \* the bit positions of one word

Word == SUBSET Bits

\* ERASED_ENTRY: all ones, what an erased cell reads.
Erased == Bits

\* SPENT_ENTRY: all zeros, a cell that no write can change any more.
Spent == {}

\* Writing blk over old, to the end.
Program(old, blk) == [c \in DOMAIN old |-> old[c] \cap blk[c]]

\* Writing blk over old when power fails, or the driver reports an error, on the
\* way: any part of the bits that blk clears has been cleared, from none to all.
TornProgram(old, blk) ==
  LET toClear == {e \in (DOMAIN old) \X Bits : e[2] \in old[e[1]] \ blk[e[1]]}
  IN  {[c \in DOMAIN old |-> {b \in old[c] : <<c, b>> \notin done}] :
         done \in SUBSET toClear}

\* Erasing old, to the end.
Erase(old) == [c \in DOMAIN old |-> Erased]
=============================================================================
