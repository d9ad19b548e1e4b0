------------------------------ MODULE Program ------------------------------
(***************************************************************************)
(* Programming, verifying and erasing a slot: libRSU_cb.c's data sources   *)
(* and its two loops over the blocks of a bitstream, and the libRSU.c      *)
(* calls that start them, at the grain of one block or one access to       *)
(* flash per step.                                                         *)
(*                                                                         *)
(* Abstractions.                                                           *)
(*  - There is one slot.  Its number is right, it is not write protected,  *)
(*    and the SPT and the CPB are not corrupted; that the CPB holds the    *)
(*    slot's pointer is the variable listed (see Cpb for how it does).     *)
(*  - Data comes in halves of a block (see Image).  A half of a block in   *)
(*    flash is Blank when erased, a half of a bitstream, or Garbled.       *)
(*  - A call that fails its first checks changes nothing and has no        *)
(*    action.  Callbacks keep to their contract, and files do not change   *)
(*    while they are read.                                                 *)
(***************************************************************************)
EXTENDS Image

CONSTANTS
  Streams,    \* the bitstreams callers have, sequences of halves
  Blank,      \* what an erased half reads as
  Garbled,    \* what is left where a write was cut short or met older data
  Nothing,    \* no bitstream; what malloc leaves in the first buffer
  IoErrors,   \* the operations that may report an error
  MaxFaults   \* bound on the accesses to flash cut short between two erasures

Pages == 0..(2 * Size - 1)

ASSUME StreamsAssumption == \A data \in Streams : IsBitstream(data)
ASSUME NothingAssumption == Nothing \notin Streams
ASSUME MaxFaultsAssumption == MaxFaults \in Nat
ASSUME IoErrorsAssumption ==
  IoErrors \subseteq {"file", "callback", "read", "write", "erase", "priority"}

VARIABLES
  flash,    \* the halves of the slot's blocks
  listed,   \* the CPB holds the slot's pointer
  pc,       \* what the library does next
  call,     \* the API call and its result so far
  stream,   \* the caller's data
  offset,   \* the halves that went into flash, or were verified
  cnt,      \* the halves of the current block the source has filled
  done,     \* the source said that there is no more
  state,    \* struct rsu_image_state
  buf,      \* the current block, from the source
  vbuf,     \* the current block, from flash
  content,  \* history: the data the slot was listed with, Nothing if not known
  faults    \* the accesses to flash cut short since the last erasure

loop == <<stream, offset, cnt, done, state, buf, vbuf>>
vars == <<flash, listed, pc, call, loop, content, faults>>

-----------------------------------------------------------------------------
(* Flash *)

\* Programming only clears bits: other data is in the way, what a write of the same
\* data has left is not.
Programmed(old, new) ==
  IF old \in {Blank, new} THEN {new}
  ELSE IF old = Garbled THEN {new, Garbled} ELSE {Garbled}

\* The outcomes of writing the current block; torn, when it is cut short on the way
\* from the front to the back.
Written ==
  {[flash EXCEPT ![offset] = front, ![offset + 1] = tail] :
     front \in Programmed(flash[offset], buf.front),
     tail \in IF cnt = 2 THEN Programmed(flash[offset + 1], buf.tail)
              ELSE {flash[offset + 1]}}
Torn ==
  {flash} \cup {[flash EXCEPT ![offset] = front] : front \in {buf.front, Garbled}}
  \cup IF cnt = 1 THEN {}
       ELSE {[flash EXCEPT ![offset] = buf.front, ![offset + 1] = tail] :
               tail \in {buf.tail, Garbled}}

CutShort == faults < MaxFaults /\ faults' = faults + 1

Erased == [p \in Pages |-> Blank]
HalfErased ==
  {[p \in Pages |-> IF p < 2 * k THEN Blank ELSE IF p = 2 * k THEN half ELSE flash[p]] :
     k \in 0..(Size - 1), half \in {Blank, Garbled}}

-----------------------------------------------------------------------------
(* Beginning and end of a call *)

Idle == pc = "idle"
NoCall == [op |-> "none", raw |-> FALSE, source |-> "none", result |-> "none"]
NoBlock == [front |-> Nothing, tail |-> Nothing]
Reset ==
  /\ stream' = <<>> /\ offset' = 0 /\ cnt' = 0 /\ done' = FALSE
  /\ state' = ImageInit /\ buf' = NoBlock /\ vbuf' = NoBlock

Return(result) ==
  /\ pc' = "idle"
  /\ call' = [NoCall EXCEPT !.result = result]
  /\ Reset

\* The two loops start alike: librsu_cb_buf_init or librsu_cb_file_init, then
\* librsu_image_block_init and two buffers that malloc has not cleared.
Start(op, raw, source, data) ==
  /\ Idle
  /\ pc' = "fill"
  /\ call' = [op |-> op, raw |-> raw, source |-> source, result |-> "none"]
  /\ stream' = data
  /\ UNCHANGED <<flash, listed, offset, cnt, done, state, buf, vbuf, content, faults>>

\* librsu_cb_program_common refuses a slot in use, raw or not.
Program(raw, source, data) == ~listed /\ Start("program", raw, source, data)

\* librsu_cb_verify_common wants a slot in use, unless raw.
Verify(raw, source, data) == (raw \/ listed) /\ Start("verify", raw, source, data)

\* librsu_cb_buf_init takes no empty buffer.
ProgramBuf(data) == data # <<>> /\ Program(FALSE, "buf", data)
ProgramBufRaw(data) == data # <<>> /\ Program(TRUE, "buf", data)
ProgramFile(data) == Program(FALSE, "file", data)
ProgramFileRaw(data) == Program(TRUE, "file", data)
ProgramCallback(data) == Program(FALSE, "callback", data)
ProgramCallbackRaw(data) == Program(TRUE, "callback", data)
VerifyBuf(data) == data # <<>> /\ Verify(FALSE, "buf", data)
VerifyBufRaw(data) == data # <<>> /\ Verify(TRUE, "buf", data)
VerifyFile(data) == Verify(FALSE, "file", data)
VerifyFileRaw(data) == Verify(TRUE, "file", data)
VerifyCallback(data) == Verify(FALSE, "callback", data)
VerifyCallbackRaw(data) == Verify(TRUE, "callback", data)

-----------------------------------------------------------------------------
(* The data sources *)

Left == Len(stream) - offset - cnt
Least(a, b) == IF a < b THEN a ELSE b

\* librsu_cb_buf copies what is wanted, or what is left.
BufChunks == {Least(2 - cnt, Left)}

\* librsu_cb_file: fread returns less when reading fails, and never an error.
FileChunks ==
  IF "file" \in IoErrors THEN 0..Least(2 - cnt, Left) ELSE BufChunks

\* A callback may give less than it is asked for, and 0 only at the end.
CallbackChunks == IF Left = 0 THEN {0} ELSE 1..Least(2 - cnt, Left)

Chunks == CASE call.source = "buf" -> BufChunks
            [] call.source = "file" -> FileChunks
            [] call.source = "callback" -> CallbackChunks

-----------------------------------------------------------------------------
(* librsu_cb_program_common and librsu_cb_verify_common *)

Reading == pc = "fill" /\ ~done /\ cnt < 2
Filled == pc = "fill" /\ (done \/ cnt = 2)
Programming == call.op = "program"

\* Mutants of Fill: less than was asked for counts as the end; the end goes unnoticed.
FillLast ==
  /\ Reading
  /\ \E c \in Chunks :
       /\ done' = (c < 2 - cnt)
       /\ cnt' = cnt + c
       /\ buf' = [front |-> IF cnt + c > 0 THEN stream[offset + 1] ELSE buf.front,
                  tail |-> IF cnt + c = 2 THEN stream[offset + 2] ELSE buf.tail]
  /\ UNCHANGED <<flash, listed, pc, call, stream, offset, state, vbuf, content, faults>>
FillForEver ==
  /\ Reading
  /\ \E c \in Chunks :
       /\ cnt' = cnt + c
       /\ buf' = [front |-> IF cnt + c > 0 THEN stream[offset + 1] ELSE buf.front,
                  tail |-> IF cnt + c = 2 THEN stream[offset + 2] ELSE buf.tail]
  /\ UNCHANGED <<flash, listed, pc, call, stream, offset, state, vbuf, content, faults,
                 done>>

Fill ==
  /\ Reading
  /\ \E c \in Chunks :
       /\ done' = (c = 0)
       /\ cnt' = cnt + c
       /\ buf' = [front |-> IF cnt + c > 0 THEN stream[offset + 1] ELSE buf.front,
                  tail |-> IF cnt + c = 2 THEN stream[offset + 2] ELSE buf.tail]
  /\ UNCHANGED <<flash, listed, pc, call, stream, offset, state, vbuf, content, faults>>

\* The callback fails: what is in flash stays there, and is not listed.
FillFails ==
  /\ Reading /\ call.source = "callback" /\ "callback" \in IoErrors
  /\ Return("ECALLBACK")
  /\ UNCHANGED <<flash, listed, content, faults>>

\* What librsu_image_block_process makes of a block on its way to flash.
NextState == IF call.raw THEN state ELSE BlockProcess(state, buf)
IsSigned == ~call.raw /\ IsSignature(state)

ProcessBlock ==
  /\ Filled /\ cnt > 0 /\ Programming
  /\ IsSigned => SigBlockAccepted(NextState.absolute, buf)
  /\ state' = NextState
  /\ buf' = IF IsSigned THEN SigBlockExpected(NextState.absolute, buf) ELSE buf
  /\ pc' = "write"
  /\ UNCHANGED <<flash, listed, call, stream, offset, cnt, done, vbuf, content, faults>>

RejectBlock ==
  /\ Filled /\ cnt > 0 /\ Programming
  /\ IsSigned /\ ~SigBlockAccepted(NextState.absolute, buf)
  /\ Return("EPROGRAM")
  /\ UNCHANGED <<flash, listed, content, faults>>

Fits == offset + cnt <= 2 * Size

WriteBlock ==
  /\ pc = "write" /\ Fits
  /\ flash' \in Written
  /\ pc' = "readback"
  /\ UNCHANGED <<listed, call, loop, content, faults>>

WriteFails ==
  /\ pc = "write"
  /\ \/ ~Fits /\ Return("ESIZE") /\ UNCHANGED <<flash, faults>>
     \/ /\ "write" \in IoErrors /\ Fits /\ CutShort
        /\ flash' \in Torn
        /\ Return("ELOWLEVEL")
  /\ UNCHANGED <<listed, content>>

\* The first cnt halves of the block in flash are those of the block expected.
SameAs(block) ==
  /\ flash[offset] = block.front
  /\ cnt = 2 => flash[offset + 1] = block.tail

NextBlock == pc' = "fill" /\ offset' = offset + cnt /\ cnt' = 0

\* Mutant of ReadBack: only the front is compared.
ReadBackFront ==
  /\ pc = "readback" /\ flash[offset] = buf.front
  /\ NextBlock
  /\ UNCHANGED <<flash, listed, call, stream, done, state, buf, vbuf, content, faults>>

ReadBack ==
  /\ pc = "readback" /\ SameAs(buf)
  /\ NextBlock
  /\ UNCHANGED <<flash, listed, call, stream, done, state, buf, vbuf, content, faults>>

ReadBackFails ==
  /\ pc = "readback"
  /\ \/ ~SameAs(buf) /\ Return("ECMP")
     \/ "read" \in IoErrors /\ Return("ELOWLEVEL")
  /\ UNCHANGED <<flash, listed, content, faults>>

\* The slot enters the CPB when all its data is in flash.
List ==
  /\ Filled /\ cnt = 0 /\ Programming /\ ~call.raw
  /\ \/ listed' = TRUE /\ Return("ok")
     \/ "priority" \in IoErrors /\ listed' \in BOOLEAN /\ Return("ELOWLEVEL")
  /\ content' = IF listed' THEN SubSeq(stream, 1, offset) ELSE Nothing
  /\ UNCHANGED <<flash, faults>>

\* Nothing is left to do after the last block.
Finish ==
  /\ Filled /\ cnt = 0
  /\ Programming => call.raw
  /\ Return("ok")
  /\ UNCHANGED <<flash, listed, content, faults>>

\* What the second buffer holds when the block has been read.  A block that ends with
\* its front has the tail of the block before, in both buffers; if there is none, what
\* malloc left in the two is the same or not.
Seen ==
  {[front |-> flash[offset], tail |-> tail] :
     tail \in IF cnt = 2 THEN {flash[offset + 1]}
              ELSE IF offset > 0 THEN {vbuf.tail} ELSE {Nothing, Garbled}}

\* Mutant of Equal: the signature block is compared as it came from the source.
EqualUnrelocated(seen) == IF call.raw THEN SameAs(buf) ELSE seen = buf

\* librsu_image_block_process compares whole blocks; a raw one as far as it goes.
Equal(seen) ==
  IF call.raw THEN SameAs(buf)
  ELSE seen = IF IsSigned THEN SigBlockExpected(NextState.absolute, buf) ELSE buf

VerifyBlock ==
  /\ Filled /\ cnt > 0 /\ ~Programming /\ Fits
  /\ \E seen \in Seen : Equal(seen) /\ vbuf' = seen
  /\ state' = NextState
  /\ NextBlock
  /\ UNCHANGED <<flash, listed, call, stream, done, buf, content, faults>>

\* Data beyond the slot cannot be read.
VerifyFails ==
  /\ Filled /\ cnt > 0 /\ ~Programming
  /\ \/ Fits /\ (\E seen \in Seen : ~Equal(seen)) /\ Return("ECMP")
     \/ (~Fits \/ "read" \in IoErrors) /\ Return("ELOWLEVEL")
  /\ UNCHANGED <<flash, listed, content, faults>>

-----------------------------------------------------------------------------
(* Slots leave the CPB, and come back *)

\* A call that is over in one step.
Returned(result) ==
  /\ call' = [NoCall EXCEPT !.result = result]
  /\ UNCHANGED <<pc, loop>>

\* Mutant of Erase: data goes first.
EraseDataFirst ==
  /\ Idle
  /\ call' = [NoCall EXCEPT !.op = "erase"]
  /\ pc' = "erase"
  /\ UNCHANGED <<flash, listed, loop, content, faults>>

\* rsu_slot_erase: the pointer goes first, then the data.
Erase ==
  /\ Idle
  /\ listed' = FALSE /\ content' = Nothing
  /\ call' = [NoCall EXCEPT !.op = "erase"]
  /\ pc' = "erase"
  /\ UNCHANGED <<flash, loop, faults>>

EraseData ==
  /\ pc = "erase"
  /\ \/ flash' = Erased /\ Return("ok") /\ faults' = 0
     \/ "erase" \in IoErrors /\ CutShort /\ flash' \in HalfErased /\ Return("ELOWLEVEL")
  /\ UNCHANGED <<listed, content>>

Disable ==
  /\ Idle
  /\ listed' = FALSE /\ content' = Nothing
  /\ Returned("ok")
  /\ UNCHANGED <<flash, faults>>

\* rsu_slot_enable lists a slot whatever is in it.
Enable ==
  /\ Idle
  /\ listed' = TRUE
  /\ content' = IF listed THEN content ELSE Nothing
  /\ Returned("ok")
  /\ UNCHANGED <<flash, faults>>

\* rsu_slot_erase, rsu_slot_disable or rsu_slot_enable cannot write the CPB: the
\* pointer is gone or still there.
RemoveFails ==
  /\ Idle /\ "priority" \in IoErrors
  /\ listed' \in {listed, FALSE}
  /\ content' = IF listed' THEN content ELSE Nothing
  /\ Returned("ELOWLEVEL")
  /\ UNCHANGED <<flash, faults>>

\* The process dies or power fails, and the library is opened again.
Crash ==
  /\ ~Idle
  /\ \/ UNCHANGED <<flash, faults>>
     \/ pc = "write" /\ Fits /\ CutShort /\ flash' \in Torn
     \/ pc = "erase" /\ CutShort /\ flash' \in HalfErased
  /\ pc' = "idle" /\ call' = NoCall
  /\ Reset
  /\ UNCHANGED <<listed, content>>

-----------------------------------------------------------------------------
(* Specification *)

Init ==
  /\ flash = Erased /\ listed = FALSE
  /\ pc = "idle" /\ call = NoCall
  /\ stream = <<>> /\ offset = 0 /\ cnt = 0 /\ done = FALSE
  /\ state = ImageInit /\ buf = NoBlock /\ vbuf = NoBlock
  /\ content = Nothing /\ faults = 0

Step ==
  \/ Fill \/ FillFails
  \/ ProcessBlock \/ RejectBlock
  \/ WriteBlock \/ WriteFails \/ ReadBack \/ ReadBackFails
  \/ List \/ Finish
  \/ VerifyBlock \/ VerifyFails
  \/ EraseData

Api ==
  \/ \E data \in Streams :
       \/ ProgramBuf(data) \/ ProgramFile(data) \/ ProgramCallback(data)
       \/ ProgramBufRaw(data) \/ ProgramFileRaw(data) \/ ProgramCallbackRaw(data)
       \/ VerifyBuf(data) \/ VerifyFile(data) \/ VerifyCallback(data)
       \/ VerifyBufRaw(data) \/ VerifyFileRaw(data) \/ VerifyCallbackRaw(data)
  \/ Erase \/ Disable \/ Enable \/ RemoveFails

Next == Step \/ Api \/ Crash

Spec == Init /\ [][Next]_vars

\* The thread in a call keeps running, and callbacks come to an end.
FairSpec == Spec /\ WF_vars(Step)

-----------------------------------------------------------------------------
(* Properties *)

Holds(data) == \A x \in DOMAIN data : flash[x - 1] = data[x]

\* A listed slot that a program call listed holds the caller's bitstream relocated to
\* the slot, every signature block of it, whatever the source was, however its data
\* came in pieces, and whatever was cut short or left behind in flash before.
ListedIsRelocated ==
  (listed /\ content # Nothing) =>
    Len(content) <= 2 * Size /\ (FewSections(content) => Holds(Relocated(content)))

\* A call that reports success went through all the data of a buffer or a callback,
\* and flash holds what it should, relocated or raw; only a file may have ended early.
SuccessMeansMatch ==
  [][(call.op \in {"program", "verify"} /\ ~Idle /\ call'.result = "ok") =>
       LET given == SubSeq(stream, 1, offset)
       IN  /\ call.source # "file" => given = stream
           /\ call.raw => Holds(given)
           /\ (~call.raw /\ FewSections(given)) => Holds(Relocated(given))]_vars

\* Verifying a slot against the bitstream it was programmed with never finds a
\* difference, as long as the data is made of whole blocks.
VerifyAcceptsProgrammed ==
  [][(call.op = "verify" /\ ~call.raw /\ stream = content /\ cnt # 1) =>
       call'.result # "ECMP"]_vars

\* While a slot is in the boot list its data does not change: not by raw calls, not
\* by a call that was cut short, not by the erasure of the slot.
ListedDataStable == [][listed /\ listed' => UNCHANGED flash]_vars

\* Every call returns.
CallsReturn == ~Idle ~> Idle

-----------------------------------------------------------------------------
(* What a comment says, and the code does not do *)

\* The comment above sig_block_adjust: "This function checks that the section pointers
\* are consistent"; what it refuses is "A pointer not within the slot".
PointersInSlot ==
  (listed /\ content # Nothing /\ FewSections(content)) =>
    \A k \in Signatures(content) : \A target \in Pointed(content, k) : target \in 0..Size
=============================================================================
