-------------------------- MODULE ProgramInvariant --------------------------
(***************************************************************************)
(* What holds at every step of programming, verifying and erasing a slot,  *)
(* strong enough to be inductive: where in the bitstream the loop is, what *)
(* the buffer and the state machine hold there, and what is in flash       *)
(* behind it.  Flash is compared with what the state machine makes of the  *)
(* bitstream, not with Relocated; that the two are the same is a matter of *)
(* the bitstream alone.                                                    *)
(***************************************************************************)
EXTENDS Program

\* Half x of a bitstream, as the state machine leaves it in flash.
Walk(data, x) ==
  LET k == (x - 1) \div 2
  IN  IF x = 2 * k + 2 /\ k \in Walked(data)
      THEN SigBlockExpected(States(data)[k + 1].absolute, BlockOf(data, k)).tail
      ELSE data[x]
Expected(x) == IF call.raw THEN stream[x] ELSE Walk(stream, x)

Busy == pc \in {"fill", "write", "readback"}

\* A slot that a call writes to is not listed, one that is verified against a
\* bitstream to be relocated is.
CallInv ==
  /\ Idle \/ Busy \/ pc = "erase"
  /\ pc = "erase" => call.op = "erase" /\ ~listed
  /\ Busy => /\ call.op \in {"program", "verify"} /\ call.raw \in BOOLEAN
             /\ call.source \in {"buf", "file", "callback"}
             /\ call.op = "program" => ~listed
             /\ call.op = "verify" => pc = "fill" /\ (call.raw \/ listed)
  /\ ~Idle => call.result = "none"
  /\ Idle => /\ offset = 0 /\ cnt = 0 /\ done = FALSE /\ state = ImageInit
             /\ buf = NoBlock /\ call.op = "none"

\* The loop is between two blocks of the bitstream; only the last block may be half a
\* block, and only a file may end early.
PlaceInv ==
  Busy =>
    /\ stream \in Streams /\ offset \in Nat /\ cnt \in 0..2 /\ done \in BOOLEAN
    /\ offset + cnt <= Len(stream) /\ offset <= 2 * Size
    /\ offset % 2 = 0 \/ (done /\ cnt = 0 /\ pc = "fill")
    /\ pc # "fill" => cnt > 0 /\ (done \/ cnt = 2)
    /\ pc = "readback" => Fits
    /\ (done /\ call.source # "file") => offset + cnt = Len(stream)

\* The buffer holds the halves of the current block, as they came or as they go into
\* flash.
BufferInv ==
  Busy =>
    /\ buf = [front |-> buf.front, tail |-> buf.tail]
    /\ cnt > 0 => buf.front = stream[offset + 1]
    /\ cnt = 2 => buf.tail = IF pc = "fill" THEN stream[offset + 2] ELSE Expected(offset + 2)

\* The state machine has seen the blocks in front, and the one about to be written.
StateInv ==
  (Busy /\ ~call.raw /\ offset % 2 = 0) =>
    /\ pc = "fill" => state = States(stream)[offset \div 2]
    /\ (pc # "fill" /\ cnt = 2) => state = States(stream)[offset \div 2 + 1]

\* What is behind the loop is in flash.
BehindInv == Busy => \A x \in 1..offset : flash[x - 1] = Expected(x)

\* What a slot was listed with is in flash.
SlotInv ==
  /\ flash = [p \in Pages |-> flash[p]]
  /\ listed \in BOOLEAN
  /\ (listed /\ content # Nothing) =>
       /\ IsBitstream(content) /\ Len(content) <= 2 * Size
       /\ \A x \in DOMAIN content : flash[x - 1] = Walk(content, x)

IInv == CallInv /\ PlaceInv /\ BufferInv /\ StateInv /\ BehindInv /\ SlotInv
=============================================================================
