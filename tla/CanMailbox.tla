------------------------------ MODULE CanMailbox ------------------------------
(***************************************************************************)
(* CAN::transmit against the FlexCAN controller.  The driver writes the    *)
(* payload into message buffer 0 byte by byte and then its word 0, whose   *)
(* code hands the buffer over.  The controller copies the sixteen data     *)
(* words when it gets to them and sends the copy when the bus is free.     *)
(* Nothing in the code keeps the two apart (can.rs:132).                   *)
(***************************************************************************)
EXTENDS Integers

CONSTANT PayloadLength \* bytes of every payload

MAX_MSG_LENGTH == 64
DataWords == 2 .. 17

ASSUME MailboxAssumption == PayloadLength \in Nat

VARIABLES
  calls,     \* calls of transmit so far: the number of the payload
  pc,        \* "idle", "payload"
  i,         \* bytes of the payload written
  data,      \* the data words of buffer 0, four bytes each
  code,      \* the code in word 0: "inactive", "transmit"
  iflag,     \* the buffer's interrupt flag
  tx,        \* the controller: "none", "copying"
  copied,    \* data words copied
  frame,     \* its copy
  activated, \* word 0 was written since the copy began
  bus        \* the last frame on the bus

driver == <<calls, pc, i, data>>
controller == <<tx, copied, frame, bus>>
vars == <<driver, controller, code, iflag, activated>>

\* Byte k of payload p; before the first there are the zeros of CAN::init.
PayloadByte(p, k) == IF p = 0 THEN <<0, 0>> ELSE <<p, k>>
Zero == PayloadByte(0, 0)

ZeroWords == [w \in DataWords |-> [b \in 0 .. 3 |-> Zero]]

Init ==
  /\ calls = 0
  /\ pc = "idle"
  /\ i = 0
  /\ data = ZeroWords
  /\ code = "inactive"
  /\ iflag = FALSE
  /\ tx = "none"
  /\ copied = 0
  /\ frame = ZeroWords
  /\ activated = FALSE
  /\ bus = ZeroWords

-----------------------------------------------------------------------------
(* CAN::transmit.                                                           *)

\* Bytes of the payload that go into the frame.
Length == IF PayloadLength < MAX_MSG_LENGTH THEN PayloadLength ELSE MAX_MSG_LENGTH

Copying == tx = "copying" /\ copied + 2 \in DataWords

\* Clear the flag; the identifier in word 1 is the same in every frame.  Calls are a
\* period apart: the sixteen words of a copy do not take from one call to the end of
\* the next.
transmit ==
  /\ pc = "idle"
  /\ Copying => ~activated
  /\ calls' = calls + 1
  /\ i' = 0
  /\ iflag' = FALSE
  /\ pc' = "payload"
  /\ UNCHANGED <<data, code, activated, controller>>

\* Mutant: one byte too many.
write_payload_byte_past ==
  /\ pc = "payload" /\ i <= Length
  /\ data' = [data EXCEPT ![2 + (i \div 4)] = [@ EXCEPT ![i % 4] = PayloadByte(calls, i)]]
  /\ i' = i + 1
  /\ UNCHANGED <<calls, pc, code, iflag, activated, controller>>

\* Mutant: word and byte number swapped.
write_payload_byte_swapped ==
  /\ pc = "payload" /\ i < Length
  /\ data' = [data EXCEPT ![2 + (i % 4)] = [@ EXCEPT ![(i \div 4) % 4] = PayloadByte(calls, i)]]
  /\ i' = i + 1
  /\ UNCHANGED <<calls, pc, code, iflag, activated, controller>>

write_payload_byte ==
  /\ pc = "payload" /\ i < Length
  /\ data' = [data EXCEPT ![2 + (i \div 4)] = [@ EXCEPT ![i % 4] = PayloadByte(calls, i)]]
  /\ i' = i + 1
  /\ UNCHANGED <<calls, pc, code, iflag, activated, controller>>

\* Mutant: the last byte is left for the next frame.
send_frame_early ==
  /\ pc = "payload" /\ i + 1 >= Length
  /\ code' = "transmit"
  /\ activated' = TRUE
  /\ pc' = "idle"
  /\ UNCHANGED <<calls, i, data, iflag, controller>>

\* Word 0: code 0xC.
send_frame ==
  /\ pc = "payload" /\ i = Length
  /\ code' = "transmit"
  /\ activated' = TRUE
  /\ pc' = "idle"
  /\ UNCHANGED <<calls, i, data, iflag, controller>>

CPU == write_payload_byte \/ send_frame

-----------------------------------------------------------------------------
(* The controller.                                                          *)

BeginCopy ==
  /\ tx = "none" /\ code = "transmit"
  /\ tx' = "copying" /\ copied' = 0 /\ activated' = FALSE
  /\ UNCHANGED <<driver, code, iflag, frame, bus>>

CopyWord ==
  /\ Copying
  /\ frame' = [frame EXCEPT ![copied + 2] = data[copied + 2]]
  /\ copied' = copied + 1
  /\ UNCHANGED <<driver, code, iflag, tx, activated, bus>>

\* The frame has been sent: the flag goes up and the buffer becomes inactive.  If the
\* driver has activated it again meanwhile, it may keep the new code or lose it.
FrameSent ==
  /\ tx = "copying" /\ ~Copying
  /\ bus' = frame
  /\ tx' = "none"
  /\ iflag' = TRUE
  /\ \/ code' = "inactive"
     \/ activated /\ UNCHANGED code
  /\ UNCHANGED <<driver, copied, frame, activated>>

Controller == BeginCopy \/ CopyWord \/ FrameSent

Next == transmit \/ CPU \/ Controller

Spec == Init /\ [][Next]_vars

\* The CPU runs transmit to its end; the bus is free again some time.
FairSpec == Spec /\ WF_vars(CPU) /\ WF_vars(Controller)

-----------------------------------------------------------------------------
(* Properties.                                                              *)

Words == [DataWords -> [0 .. 3 -> Nat \X Nat]]

TypeOK ==
  /\ calls \in Nat
  /\ pc \in {"idle", "payload"}
  /\ i \in 0 .. Length
  /\ data \in Words /\ frame \in Words /\ bus \in Words
  /\ code \in {"inactive", "transmit"}
  /\ iflag \in BOOLEAN /\ activated \in BOOLEAN
  /\ tx \in {"none", "copying"}
  /\ copied \in 0 .. 16

\* The data words that hold payload p in the documented layout: its bytes in order,
\* then zeros.
Place(w, b) == 4 * (w - 2) + b
ByteOf(p, w, b) ==
  IF Place(w, b) < Length THEN PayloadByte(p, Place(w, b)) ELSE Zero
Whole(p) == [w \in DataWords |-> [b \in 0 .. 3 |-> ByteOf(p, w, b)]]

\* Every byte of f is the byte of payload p for its place, or that of the one before.
Splice(f, p) ==
  \A w \in DataWords, b \in 0 .. 3 :
    f[w][b] = ByteOf(p, w, b) \/ (p > 0 /\ f[w][b] = ByteOf(p - 1, w, b))

\* Whatever the controller and the driver do to each other, a frame on the bus holds
\* bytes of two successive payloads at most, each at its place, and zeros after them
\* (main.rs:22-26, "frame[48..64]: unused, always 0").
AdjacentPayloads == \E p \in 0 .. calls : Splice(bus, p)

\* A frame on the bus is one payload, in the layout that main.rs:16-26 documents.
FramesWhole == \E p \in 0 .. calls : bus = Whole(p)

\* The inductive invariant: the buffer is the payload of this call as far as it has got,
\* over that of the call before; a copy under way has met one call at most.
DataInv ==
  /\ pc = "payload" => calls > 0
  /\ \A w \in DataWords, b \in 0 .. 3 :
       data[w][b] = IF pc = "payload" /\ Place(w, b) >= i THEN ByteOf(calls - 1, w, b)
                                                         ELSE ByteOf(calls, w, b)
CopyInv ==
  Copying =>
    /\ ~(activated /\ pc = "payload")
    /\ \A w \in 2 .. copied + 1, b \in 0 .. 3 :
         \/ frame[w][b] = ByteOf(calls, w, b)
         \/ (activated \/ pc = "payload") /\ frame[w][b] = ByteOf(calls - 1, w, b)
FrameInv ==
  tx = "copying" /\ ~Copying => \E p \in 0 .. calls : Splice(frame, p)
MailboxInv ==
  /\ TypeOK /\ DataInv /\ CopyInv /\ FrameInv /\ AdjacentPayloads
  /\ activated => calls > 0
=============================================================================
