--------------------------- MODULE CanMailbox_proof ---------------------------
(* Proofs about CanMailbox, for every length of payload and any number of calls. *)
EXTENDS MCCanMailbox, TLAPS

Bytes == 0 .. 3

\* The place of a byte in the frame and its place in the buffer name each other.
LEMMA WordAndByte ==
  ASSUME NEW w \in DataWords, NEW b \in Bytes, NEW k \in Nat
  PROVE  Place(w, b) = k <=> w = 2 + (k \div 4) /\ b = k % 4
<1> DEFINE h == 4 * (w - 2)
<1>1. /\ w \in Nat /\ w - 2 \in Nat /\ h \in Nat /\ h % 4 = 0 /\ h \div 4 = w - 2
      /\ Place(w, b) = h + b
  BY DEF DataWords, Place
<1> HIDE DEF h
<1>2. (h + b) \div 4 = h \div 4 /\ (h + b) % 4 = b
  BY <1>1 DEF Bytes
<1>3. Place(w, b) = k => w = 2 + (k \div 4) /\ b = k % 4
  BY <1>1, <1>2
<1>4. ASSUME w = 2 + (k \div 4), b = k % 4
      PROVE  Place(w, b) = k
  <2>1. h + b \in Nat /\ (h + b) \div 4 = k \div 4 /\ (h + b) % 4 = k % 4
    BY <1>1, <1>2, <1>4 DEF Bytes
  <2>2. \A m \in Nat : m \div 4 = k \div 4 /\ m % 4 = k % 4 => m = k
    OBVIOUS
  <2> QED
    BY <1>1, <2>1, <2>2
<1> QED
  BY <1>3, <1>4

LEMMA LengthFacts == Length \in 0 .. 64 /\ 0 \in 0 .. Length
<1>1. Length \in 0 .. 64
  BY MailboxAssumption DEF Length, MAX_MSG_LENGTH
<1> QED
  BY <1>1

LEMMA ByteOfType ==
  ASSUME NEW p \in Nat, NEW w \in DataWords, NEW b \in Bytes
  PROVE  ByteOf(p, w, b) \in Nat \X Nat
<1>1. Place(w, b) \in Nat
  BY DEF Place, DataWords, Bytes
<1> QED
  BY <1>1 DEF ByteOf, PayloadByte, Zero

-----------------------------------------------------------------------------

LEMMA InitMailboxInv == Init => MailboxInv
<1> SUFFICES ASSUME Init PROVE MailboxInv
  OBVIOUS
<1>1. ZeroWords \in Words
  BY DEF ZeroWords, Words, Zero, PayloadByte
<1>2. TypeOK
  <2>1. data \in Words /\ frame \in Words /\ bus \in Words
    BY <1>1 DEF Init
  <2>2. calls \in Nat /\ i \in 0 .. Length /\ copied \in 0 .. 16
    BY LengthFacts DEF Init
  <2> QED
    BY <2>1, <2>2 DEF Init, TypeOK
<1>3. \A w \in DataWords, b \in Bytes : ZeroWords[w][b] = ByteOf(0, w, b)
  BY DEF ZeroWords, ByteOf, Zero, PayloadByte, Bytes
<1>4. DataInv /\ AdjacentPayloads
  BY <1>3 DEF Init, DataInv, AdjacentPayloads, Splice, Bytes
<1> QED
  BY <1>2, <1>4 DEF Init, MailboxInv, CopyInv, FrameInv, Copying

LEMMA BeginKeepsMailboxInv ==
  ASSUME MailboxInv, transmit
  PROVE  MailboxInv'
<1>1. /\ pc = "idle" /\ pc' = "payload" /\ calls \in Nat /\ calls' = calls + 1 /\ i' = 0
      /\ UNCHANGED <<data, code, activated, tx, copied, frame, bus>> /\ iflag' = FALSE
      /\ (Copying => ~activated)
  BY DEF transmit, controller, MailboxInv, TypeOK
<1>2. TypeOK'
  <2>1. calls' \in Nat
    BY <1>1
  <2>2. i' \in 0 .. Length /\ iflag' \in BOOLEAN
    BY <1>1, LengthFacts, Zenon
  <2> QED
    BY <1>1, <2>1, <2>2 DEF MailboxInv, TypeOK
<1>3. DataInv'
  <2>1. \A w \in DataWords, b \in Bytes : data[w][b] = ByteOf(calls, w, b)
    BY <1>1 DEF MailboxInv, DataInv, Bytes
  <2>2. \A w \in DataWords, b \in Bytes : Place(w, b) >= 0
    BY DEF Place, DataWords, Bytes
  <2>3. calls' > 0 /\ calls' - 1 = calls
    BY <1>1
  <2> QED
    BY <1>1, <2>1, <2>2, <2>3 DEF DataInv, Bytes, ByteOf, Place
<1>4. CopyInv'
  <2>1. CASE Copying
    <3>1. ~activated /\ \A w \in 2 .. copied + 1, b \in Bytes : frame[w][b] = ByteOf(calls, w, b)
      BY <1>1, <2>1 DEF MailboxInv, CopyInv, Bytes
    <3>2. calls' - 1 = calls
      BY <1>1
    <3> QED
      BY <1>1, <3>1, <3>2 DEF CopyInv, Copying, ByteOf, Place, Bytes
  <2>2. CASE ~Copying
    BY <1>1, <2>2 DEF CopyInv, Copying
  <2> QED
    BY <2>1, <2>2
<1>5. FrameInv'
  BY <1>1 DEF MailboxInv, FrameInv, Copying, Splice, ByteOf, Place
<1>6. AdjacentPayloads'
  BY <1>1 DEF MailboxInv, AdjacentPayloads, Splice, ByteOf, Place
<1>7. activated' => calls' > 0
  BY <1>1
<1> QED
  BY <1>2, <1>3, <1>4, <1>5, <1>6, <1>7 DEF MailboxInv

LEMMA WriteKeepsMailboxInv ==
  ASSUME MailboxInv, write_payload_byte
  PROVE  MailboxInv'
<1> DEFINE n == 2 + (i \div 4)
           v == PayloadByte(calls, i)
           old == data[n]
<1>1. /\ pc = "payload" /\ i < Length /\ i \in Nat /\ calls \in Nat /\ calls > 0
      /\ data' = [data EXCEPT ![n] = [old EXCEPT ![i % 4] = v]]
      /\ i' = i + 1
      /\ UNCHANGED <<calls, pc, code, iflag, activated, tx, copied, frame, bus>>
  BY DEF write_payload_byte, controller, MailboxInv, TypeOK, DataInv
<1>2. i \in 0 .. 63 /\ i' \in 0 .. Length
  BY <1>1, LengthFacts
<1>3. n \in DataWords /\ i % 4 \in Bytes
  BY <1>2 DEF DataWords, Bytes
<1>4. v \in Nat \X Nat /\ data \in Words
  BY <1>1 DEF PayloadByte, MailboxInv, TypeOK
<1> HIDE DEF n, v
<1>5. old \in [0 .. 3 -> Nat \X Nat]
  BY <1>3, <1>4 DEF Words
<1>6. [old EXCEPT ![i % 4] = v] \in [0 .. 3 -> Nat \X Nat]
  BY <1>4, <1>5
<1>7. data' \in Words
  BY <1>1, <1>4, <1>6 DEF Words
<1>8. TypeOK'
  BY <1>1, <1>2, <1>7 DEF MailboxInv, TypeOK
<1>9. \A w \in DataWords, b \in Bytes :
        data'[w][b] = IF Place(w, b) = i THEN v ELSE data[w][b]
  <2> SUFFICES ASSUME NEW w \in DataWords, NEW b \in Bytes
               PROVE  data'[w][b] = IF Place(w, b) = i THEN v ELSE data[w][b]
    OBVIOUS
  <2>1. Place(w, b) = i <=> w = n /\ b = i % 4
    BY <1>1, WordAndByte DEF n
  <2>2. CASE w = n
    <3>1. data'[w] = [old EXCEPT ![i % 4] = v]
      BY <1>1, <1>4, <2>2 DEF Words
    <3> QED
      BY <1>5, <2>1, <2>2, <3>1 DEF Bytes
  <2>3. CASE w # n
    BY <1>1, <1>4, <2>1, <2>3 DEF Words
  <2> QED
    BY <2>2, <2>3
<1>10. DataInv'
  <2> SUFFICES ASSUME NEW w \in DataWords, NEW b \in Bytes
               PROVE  data'[w][b] = IF Place(w, b) >= i + 1 THEN ByteOf(calls - 1, w, b)
                                                            ELSE ByteOf(calls, w, b)
    BY <1>1 DEF DataInv, Bytes, ByteOf, Place
  <2>1. Place(w, b) \in Int
    BY DEF Place, DataWords, Bytes
  <2>2. data[w][b] = IF Place(w, b) >= i THEN ByteOf(calls - 1, w, b) ELSE ByteOf(calls, w, b)
    BY <1>1 DEF MailboxInv, DataInv, Bytes
  <2>3. CASE Place(w, b) = i
    BY <1>1, <1>9, <2>3 DEF ByteOf, v
  <2>4. CASE Place(w, b) # i
    BY <1>1, <1>9, <2>1, <2>2, <2>4
  <2> QED
    BY <2>3, <2>4
<1>11. CopyInv' /\ FrameInv' /\ AdjacentPayloads' /\ (activated' => calls' > 0)
  BY <1>1 DEF MailboxInv, CopyInv, FrameInv, AdjacentPayloads, Copying, Splice, ByteOf, Place
<1> QED
  BY <1>8, <1>10, <1>11 DEF MailboxInv

LEMMA SendKeepsMailboxInv ==
  ASSUME MailboxInv, send_frame
  PROVE  MailboxInv'
<1>1. /\ pc = "payload" /\ pc' = "idle" /\ i = Length /\ calls \in Nat /\ calls > 0
      /\ activated' = TRUE /\ code' = "transmit"
      /\ UNCHANGED <<calls, i, data, iflag, tx, copied, frame, bus>>
  BY DEF send_frame, controller, MailboxInv, TypeOK, DataInv
<1>2. TypeOK'
  BY <1>1 DEF MailboxInv, TypeOK
<1>3. DataInv'
  <2> SUFFICES ASSUME NEW w \in DataWords, NEW b \in Bytes
               PROVE  data[w][b] = ByteOf(calls, w, b)
    BY <1>1 DEF DataInv, Bytes, ByteOf, Place
  <2>1. data[w][b] = IF Place(w, b) >= Length THEN ByteOf(calls - 1, w, b)
                                              ELSE ByteOf(calls, w, b)
    BY <1>1 DEF MailboxInv, DataInv, Bytes
  <2>2. Place(w, b) \in Int /\ Length \in Int
    BY LengthFacts DEF Place, DataWords, Bytes
  <2>3. Place(w, b) >= Length => ByteOf(calls - 1, w, b) = ByteOf(calls, w, b)
    BY <2>2 DEF ByteOf
  <2> QED
    BY <2>1, <2>3
<1>4. CopyInv'
  BY <1>1 DEF MailboxInv, CopyInv, Copying, ByteOf, Place
<1>5. FrameInv'
  BY <1>1 DEF MailboxInv, FrameInv, Copying, Splice, ByteOf, Place
<1>6. AdjacentPayloads'
  BY <1>1 DEF MailboxInv, AdjacentPayloads, Splice, ByteOf, Place
<1> QED
  BY <1>1, <1>2, <1>3, <1>4, <1>5, <1>6 DEF MailboxInv

-----------------------------------------------------------------------------

LEMMA BeginCopyKeepsMailboxInv ==
  ASSUME MailboxInv, BeginCopy
  PROVE  MailboxInv'
<1>1. /\ tx' = "copying" /\ copied' = 0 /\ activated' = FALSE
      /\ UNCHANGED <<calls, pc, i, data, code, iflag, frame, bus>>
  BY DEF BeginCopy, driver
<1>2. TypeOK'
  <2>1. copied' \in 0 .. 16
    BY <1>1
  <2> QED
    BY <1>1, <2>1 DEF MailboxInv, TypeOK
<1>5. DataInv'
  BY <1>1 DEF MailboxInv, DataInv, ByteOf, Place
<1>6. AdjacentPayloads'
  BY <1>1 DEF MailboxInv, AdjacentPayloads, Splice, ByteOf, Place
<1>3. Copying' /\ 2 .. copied' + 1 = {}
  BY <1>1 DEF Copying, DataWords
<1>4. CopyInv' /\ FrameInv'
  BY <1>1, <1>3 DEF CopyInv, FrameInv
<1> QED
  BY <1>1, <1>2, <1>4, <1>5, <1>6 DEF MailboxInv

LEMMA CopyWordKeepsMailboxInv ==
  ASSUME MailboxInv, CopyWord
  PROVE  MailboxInv'
<1> DEFINE n == copied + 2
<1>1. /\ tx = "copying" /\ Copying /\ n \in DataWords /\ copied \in 0 .. 15 /\ calls \in Nat
      /\ frame' = [frame EXCEPT ![n] = data[n]] /\ copied' = copied + 1
      /\ UNCHANGED <<calls, pc, i, data, code, iflag, activated, tx, bus>>
      /\ data \in Words /\ frame \in Words
  BY DEF CopyWord, Copying, driver, MailboxInv, TypeOK, DataWords
<1>2. TypeOK'
  BY <1>1 DEF MailboxInv, TypeOK, Words
<1>3. DataInv' /\ AdjacentPayloads' /\ (activated' => calls' > 0)
  BY <1>1 DEF MailboxInv, DataInv, AdjacentPayloads, Splice, ByteOf, Place
<1>4. ~(activated /\ pc = "payload")
  BY <1>1 DEF MailboxInv, CopyInv
<1>5. \A w \in 2 .. copied + 2, b \in Bytes :
        \/ frame'[w][b] = ByteOf(calls, w, b)
        \/ (activated \/ pc = "payload") /\ frame'[w][b] = ByteOf(calls - 1, w, b)
  <2> SUFFICES ASSUME NEW w \in 2 .. copied + 2, NEW b \in Bytes
               PROVE  \/ frame'[w][b] = ByteOf(calls, w, b)
                      \/ /\ activated \/ pc = "payload"
                         /\ frame'[w][b] = ByteOf(calls - 1, w, b)
    OBVIOUS
  <2>1. w \in DataWords
    BY <1>1 DEF DataWords
  <2>2. CASE w = n
    <3>1. frame'[w] = data[w]
      BY <1>1, <2>2 DEF Words
    <3> QED
      BY <2>1, <3>1 DEF MailboxInv, DataInv, Bytes
  <2>3. CASE w # n
    <3>1. frame'[w] = frame[w]
      BY <1>1, <2>1, <2>3 DEF Words
    <3>2. w \in 2 .. copied + 1
      BY <1>1, <2>3
    <3> QED
      BY <1>1, <3>1, <3>2 DEF MailboxInv, CopyInv, Bytes
  <2> QED
    BY <2>2, <2>3
<1>6. CopyInv'
  <2>1. copied' + 1 = copied + 2
    BY <1>1
  <2> QED
    BY <1>1, <1>4, <1>5, <2>1 DEF CopyInv, Bytes, ByteOf, Place
<1>7. FrameInv'
  <2> SUFFICES ASSUME ~Copying' PROVE Splice(frame', calls)
    BY <1>1 DEF FrameInv, Splice, ByteOf, Place
  <2>1. 2 .. copied + 2 = DataWords
    BY <1>1 DEF Copying, DataWords
  <2>2. activated \/ pc = "payload" => calls > 0
    BY DEF MailboxInv, DataInv
  <2> QED
    BY <1>5, <2>1, <2>2 DEF Splice, Bytes
<1> QED
  BY <1>2, <1>3, <1>6, <1>7 DEF MailboxInv

LEMMA FrameSentKeepsMailboxInv ==
  ASSUME MailboxInv, FrameSent
  PROVE  MailboxInv'
<1>1. /\ tx = "copying" /\ ~Copying /\ tx' = "none" /\ bus' = frame /\ iflag' = TRUE
      /\ code' \in {"inactive", "transmit"}
      /\ UNCHANGED <<calls, pc, i, data, copied, frame, activated>>
  BY DEF FrameSent, driver, MailboxInv, TypeOK
<1>2. TypeOK'
  BY <1>1 DEF MailboxInv, TypeOK
<1>3. DataInv' /\ (activated' => calls' > 0)
  BY <1>1 DEF MailboxInv, DataInv, ByteOf, Place
<1>4. CopyInv' /\ FrameInv'
  BY <1>1 DEF CopyInv, FrameInv, Copying
<1>5. AdjacentPayloads'
  BY <1>1 DEF MailboxInv, FrameInv, AdjacentPayloads, Splice, ByteOf, Place
<1> QED
  BY <1>2, <1>3, <1>4, <1>5 DEF MailboxInv

-----------------------------------------------------------------------------

LEMMA NextKeepsMailboxInv == MailboxInv /\ [Next]_vars => MailboxInv'
<1> SUFFICES ASSUME MailboxInv, [Next]_vars PROVE MailboxInv'
  OBVIOUS
<1>1. CASE transmit \/ CPU
  BY <1>1, BeginKeepsMailboxInv, WriteKeepsMailboxInv, SendKeepsMailboxInv DEF CPU
<1>2. CASE Controller
  BY <1>2, BeginCopyKeepsMailboxInv, CopyWordKeepsMailboxInv, FrameSentKeepsMailboxInv
     DEF Controller
<1>3. CASE UNCHANGED vars
  <2>1. UNCHANGED <<calls, pc, i, data, code, iflag, tx, copied, frame, activated, bus>>
    BY <1>3 DEF vars, driver, controller
  <2> QED
    BY <2>1 DEF MailboxInv, TypeOK, DataInv, CopyInv, FrameInv, AdjacentPayloads, Copying,
                Splice, ByteOf, Place
<1> QED
  BY <1>1, <1>2, <1>3 DEF Next

\* Whatever the driver and the controller do to each other and for every length of
\* payload, a frame on the bus holds bytes of two successive payloads at most, each at
\* its place, and zeros after them.
THEOREM AlwaysAdjacentPayloads == Spec => [](TypeOK /\ AdjacentPayloads)
<1>1. MailboxInv => TypeOK /\ AdjacentPayloads
  BY DEF MailboxInv
<1> QED
  BY <1>1, InitMailboxInv, NextKeepsMailboxInv, PTL DEF Spec

\* What the buffer, the frame under way and the frames sent hold at every step of the
\* driver and of the controller (can.rs:110-134).
THEOREM AlwaysMailboxInv == Spec => [](TypeOK /\ MailboxInv)
<1>1. MailboxInv => TypeOK /\ MailboxInv
  BY DEF MailboxInv
<1> QED
  BY <1>1, InitMailboxInv, NextKeepsMailboxInv, PTL DEF Spec

\* What the driver and the controller hold stays of its type (can.rs:110-134).
THEOREM AlwaysTypeOK == Spec => []TypeOK
<1>1. MailboxInv => TypeOK
  BY DEF MailboxInv
<1> QED
  BY <1>1, InitMailboxInv, NextKeepsMailboxInv, PTL DEF Spec
-----------------------------------------------------------------------------
(* On a bus that has sent a frame before the next call transmit is a channel.  *)

\* A payload is in the buffer or on its way.
Unsent == pc = "payload" \/ code = "transmit" \/ tx = "copying"

PromptInv ==
  Prompt =>
    /\ Unsent => calls > 0 /\ bus = Whole(calls - 1)
    /\ ~Unsent => bus = Whole(calls)
    /\ pc = "payload" => code = "inactive" /\ tx = "none"
    /\ tx = "copying" =>
         /\ code = "transmit" /\ ~activated
         /\ \A w \in 2 .. copied + 1, b \in Bytes : frame[w][b] = ByteOf(calls, w, b)

\* A step of the bounded program is a step of the mailbox.
LEMMA MCStep == [MCNext]_everything => [Next]_vars
BY DEF MCNext, everything, Next

LEMMA WholeAgain == calls' = calls => Whole(calls)' = Whole(calls)
BY DEF Whole, ByteOf, Place

\* A frame is whole when each of its bytes is in its place.
LEMMA WholeByBytes ==
  ASSUME NEW f \in Words, NEW p \in Nat,
         \A w \in DataWords, b \in Bytes : f[w][b] = ByteOf(p, w, b)
  PROVE  f = Whole(p)
<1>1. ASSUME NEW w \in DataWords PROVE f[w] = [b \in 0 .. 3 |-> ByteOf(p, w, b)]
  <2>1. f[w] \in [0 .. 3 -> Nat \X Nat]
    BY DEF Words
  <2> QED
    BY <2>1 DEF Bytes
<1> QED
  BY <1>1 DEF Whole, Words

\* Two successive payloads that are not empty differ.
LEMMA WholesDiffer ==
  ASSUME PayloadLength > 0, NEW p \in Nat
  PROVE  Whole(p + 1) # Whole(p)
<1>1. Length > 0 /\ 2 \in DataWords /\ Place(2, 0) = 0
  BY MailboxAssumption DEF Length, MAX_MSG_LENGTH, DataWords, Place
<1>2. Whole(p + 1)[2][0] = ByteOf(p + 1, 2, 0) /\ Whole(p)[2][0] = ByteOf(p, 2, 0)
  BY <1>1 DEF Whole
<1>3. ByteOf(p + 1, 2, 0) = <<p + 1, 0>> /\ ByteOf(p, 2, 0) = <<p, 0>>
  BY <1>1 DEF ByteOf, PayloadByte
<1> QED
  BY <1>2, <1>3

LEMMA PromptInvInit == ASSUME Init PROVE PromptInv
<1>1. bus \in Words /\ calls \in Nat
  BY InitMailboxInv DEF MailboxInv, TypeOK
<1>2. \A w \in DataWords, b \in Bytes : bus[w][b] = ByteOf(0, w, b)
  BY DEF Init, ZeroWords, ByteOf, Zero, PayloadByte, Bytes
<1>3. bus = Whole(0)
  BY <1>1, <1>2, WholeByBytes
<1> QED
  BY <1>3 DEF Init, PromptInv, Unsent

\* When nothing is left to send, the next call begins.
LEMMA TransmitKeepsPromptInv ==
  ASSUME MailboxInv, PromptInv, transmit, bus_kind' = bus_kind,
         Prompt => code = "inactive" /\ tx = "none"
  PROVE  PromptInv'
<1>1. /\ pc = "idle" /\ pc' = "payload" /\ calls \in Nat /\ calls' = calls + 1
      /\ UNCHANGED <<code, activated, tx, copied, frame, bus>>
  BY DEF transmit, controller, MailboxInv, TypeOK
<1>2. calls' - 1 = calls /\ calls' > 0
  BY <1>1
<1>3. Prompt => bus = Whole(calls)
  BY <1>1 DEF PromptInv, Unsent
<1>4. Whole(calls' - 1) = Whole(calls)
  BY <1>2
<1>5. Whole(calls - 1)' = Whole(calls' - 1)
  BY DEF Whole, ByteOf, Place
<1> QED
  BY <1>1, <1>2, <1>3, <1>4, <1>5 DEF PromptInv, Unsent, Prompt

LEMMA OthersKeepPromptInv ==
  ASSUME MailboxInv, PromptInv, bus_kind' = bus_kind, CPU \/ Controller \/ UNCHANGED vars
  PROVE  PromptInv'
<1> SUFFICES ASSUME Prompt
             PROVE  /\ Unsent' => calls' > 0 /\ bus' = Whole(calls - 1)'
                    /\ ~Unsent' => bus' = Whole(calls)'
                    /\ pc' = "payload" => code' = "inactive" /\ tx' = "none"
                    /\ tx' = "copying" =>
                         /\ code' = "transmit" /\ ~activated'
                         /\ \A w \in 2 .. copied' + 1, b \in Bytes :
                              frame'[w][b] = ByteOf(calls, w, b)
  <2>1. calls' = calls
    BY DEF CPU, write_payload_byte, send_frame, Controller, BeginCopy, CopyWord, FrameSent,
           controller, driver, vars
  <2>2. \A w, b : ByteOf(calls, w, b)' = ByteOf(calls, w, b)
    BY <2>1 DEF ByteOf, Place
  <2> QED
    BY <2>1, <2>2 DEF PromptInv, Prompt
<1>1. /\ Unsent => calls > 0 /\ bus = Whole(calls - 1)
      /\ ~Unsent => bus = Whole(calls)
      /\ pc = "payload" => code = "inactive" /\ tx = "none"
      /\ tx = "copying" =>
           /\ code = "transmit" /\ ~activated
           /\ \A w \in 2 .. copied + 1, b \in Bytes : frame[w][b] = ByteOf(calls, w, b)
  BY DEF PromptInv
<1>2. TypeOK /\ DataInv
  BY DEF MailboxInv
<1>3. calls' = calls
  BY DEF CPU, write_payload_byte, send_frame, Controller, BeginCopy, CopyWord, FrameSent,
         controller, driver, vars
<1>4. Whole(calls)' = Whole(calls) /\ Whole(calls - 1)' = Whole(calls - 1)
  BY <1>3 DEF Whole, ByteOf, Place
<1>5. CASE write_payload_byte \/ UNCHANGED vars
  BY <1>1, <1>4, <1>5 DEF write_payload_byte, vars, driver, controller, Unsent
<1>6. CASE send_frame
  BY <1>1, <1>4, <1>6 DEF send_frame, controller, Unsent
<1>7. CASE BeginCopy
  <2>1. 2 .. copied' + 1 = {}
    BY <1>7 DEF BeginCopy
  <2> QED
    BY <1>1, <1>4, <1>7, <2>1 DEF BeginCopy, driver, Unsent
<1>8. CASE CopyWord
  <2>1. /\ tx = "copying" /\ copied + 2 \in DataWords /\ copied \in 0 .. 15
        /\ frame' = [frame EXCEPT ![copied + 2] = data[copied + 2]] /\ copied' = copied + 1
        /\ UNCHANGED <<calls, pc, code, tx, activated, bus>>
    BY <1>2, <1>8 DEF CopyWord, Copying, driver, TypeOK, DataWords
  <2>2. ASSUME NEW w \in 2 .. copied' + 1, NEW b \in Bytes
        PROVE  frame'[w][b] = ByteOf(calls, w, b)
    <3>1. w \in DataWords /\ frame \in Words
      BY <1>2, <2>1 DEF TypeOK, DataWords
    <3>2. CASE w = copied + 2
      <4>1. frame'[w] = data[w]
        BY <2>1, <3>1, <3>2 DEF Words
      <4>2. pc # "payload"
        BY <1>1, <2>1
      <4> QED
        BY <1>2, <3>1, <4>1, <4>2 DEF DataInv, Bytes
    <3>3. CASE w # copied + 2
      <4>1. frame'[w] = frame[w]
        BY <2>1, <3>1, <3>3 DEF Words
      <4>2. w \in 2 .. copied + 1
        BY <2>1, <3>3
      <4> QED
        BY <1>1, <2>1, <4>1, <4>2
    <3> QED
      BY <3>2, <3>3
  <2> QED
    BY <1>1, <1>4, <2>1, <2>2 DEF Unsent
<1>9. CASE FrameSent
  <2>1. /\ tx = "copying" /\ ~Copying /\ bus' = frame /\ tx' = "none" /\ code' = "inactive"
        /\ pc' = pc
    BY <1>1, <1>9 DEF FrameSent, driver
  <2>2. 2 .. copied + 1 = DataWords
    BY <1>2, <2>1 DEF Copying, DataWords, TypeOK
  <2>3. \A w \in DataWords, b \in Bytes : frame[w][b] = ByteOf(calls, w, b)
    BY <1>1, <2>1, <2>2
  <2>4. frame \in Words /\ calls \in Nat
    BY <1>2 DEF TypeOK
  <2>5. frame = Whole(calls)
    BY <2>3, <2>4, WholeByBytes
  <2>6. pc # "payload" /\ pc \in {"idle", "payload"}
    BY <1>1, <1>2, <2>1 DEF TypeOK
  <2> QED
    BY <1>4, <2>1, <2>5, <2>6 DEF Unsent
<1> QED
  BY <1>5, <1>6, <1>7, <1>8, <1>9 DEF CPU, Controller


\* Where the channel is, from a frame f on the bus after n calls.
Delivered(prompt, f, n) ==
  CASE ~prompt -> 0
    [] prompt /\ f = Whole(n) -> n
    [] prompt /\ f # Whole(n) /\ f = Whole(n - 1) -> n - 1
    [] OTHER -> -1

LEMMA DeliveredFacts ==
  ASSUME PayloadLength > 0, NEW prompt \in BOOLEAN, NEW f, NEW n \in Nat
  PROVE  /\ ~prompt => Delivered(prompt, f, n) = 0
         /\ prompt /\ f = Whole(n) => Delivered(prompt, f, n) = n
         /\ prompt /\ n > 0 /\ f = Whole(n - 1) => Delivered(prompt, f, n) = n - 1
<1>1. n > 0 => Whole(n) # Whole(n - 1)
  <2>1. n > 0 => n - 1 \in Nat /\ (n - 1) + 1 = n
    OBVIOUS
  <2> QED
    BY <2>1, WholesDiffer
<1> QED
  BY <1>1 DEF Delivered

\* Transmit hands over, the end of a frame delivers; all else goes unseen.
LEMMA StepCrosses ==
  ASSUME PayloadLength > 0, MailboxInv, PromptInv, MailboxInv', PromptInv', [MCNext]_everything
  PROVE  [Channel!Next]_(Channel!channel)
<1> DEFINE accepted == IF Prompt THEN calls ELSE 0
           delivered == Delivered(Prompt, bus, calls)
           left == IF Prompt /\ Unsent THEN 1 ELSE 0
<1>1. Prompt \in BOOLEAN /\ Prompt' = Prompt /\ calls \in Nat /\ calls' \in Nat
  BY DEF MCNext, everything, Prompt, MailboxInv, TypeOK
<1>2. delivered = accepted - left
  <2>1. PromptInv
    OBVIOUS
  <2> QED
    BY <1>1, <2>1, DeliveredFacts DEF PromptInv
<1>3. delivered' = Delivered(Prompt', bus', calls')
  BY DEF Delivered, Whole, ByteOf, Place
<1>4. delivered' = accepted' - left'
  <2>1. /\ Prompt' /\ Unsent' => calls' > 0 /\ bus' = Whole(calls' - 1)
        /\ Prompt' /\ ~Unsent' => bus' = Whole(calls')
    BY DEF PromptInv, Whole, ByteOf, Place
  <2> HIDE DEF delivered
  <2> QED
    BY <1>1, <1>3, <2>1, DeliveredFacts
<1>5. /\ Channel!Transmit <=> /\ accepted = delivered /\ accepted' = accepted + 1
                              /\ delivered' = delivered
      /\ Channel!Deliver <=> /\ delivered < accepted /\ delivered' = delivered + 1
                             /\ accepted' = accepted
      /\ UNCHANGED Channel!channel <=> accepted' = accepted /\ delivered' = delivered
  BY DEF Channel!Transmit, Channel!Deliver, Channel!channel, Delivered
<1> HIDE DEF delivered
<1>6. CASE Prompt /\ transmit
  <2>1. ~Unsent /\ Unsent' /\ calls' = calls + 1
    BY <1>1, <1>6 DEF MCNext, everything, transmit, Unsent, CPU, write_payload_byte, send_frame,
       Controller, BeginCopy, CopyWord, FrameSent, controller, driver, vars
  <2> QED
    BY <1>1, <1>2, <1>4, <1>5, <1>6, <2>1 DEF Channel!Next
<1>7. CASE Prompt /\ FrameSent
  <2>1. /\ tx = "copying" /\ tx' = "none" /\ UNCHANGED <<calls, pc>>
    BY <1>7 DEF FrameSent, driver
  <2>2. code' = "inactive" /\ pc # "payload"
    BY <1>7 DEF PromptInv, FrameSent
  <2>3. Unsent /\ ~Unsent'
    BY <2>1, <2>2 DEF Unsent
  <2> QED
    BY <1>1, <1>2, <1>4, <1>5, <1>7, <2>1, <2>3 DEF Channel!Next
<1>8. CASE Prompt /\ (CPU \/ BeginCopy \/ CopyWord \/ UNCHANGED vars)
  <2>1. calls' = calls /\ Unsent' = Unsent
    BY <1>8 DEF CPU, write_payload_byte, send_frame, BeginCopy, CopyWord, controller, driver,
       vars, Unsent
  <2> QED
    BY <1>1, <1>2, <1>4, <1>5, <2>1
<1>9. CASE ~Prompt
  BY <1>1, <1>2, <1>4, <1>5, <1>9
<1> QED
  BY <1>6, <1>7, <1>8, <1>9 DEF MCNext, everything, Controller

LEMMA AlwaysPromptInv == MCSpec => [](MailboxInv /\ PromptInv)
<1> DEFINE I == MailboxInv /\ PromptInv
<1>1. MCInit => I
  BY InitMailboxInv, PromptInvInit DEF MCInit
<1>2. I /\ [MCNext]_everything => I'
  <2> SUFFICES ASSUME I, [MCNext]_everything PROVE I'
    OBVIOUS
  <2>1. MailboxInv'
    BY MCStep, NextKeepsMailboxInv
  <2>2. bus_kind' = bus_kind
    BY DEF MCNext, everything
  <2>3. PromptInv'
    BY <2>2, TransmitKeepsPromptInv, OthersKeepPromptInv DEF MCNext, everything
  <2> QED
    BY <2>1, <2>3
<1> HIDE DEF I
<1>3. MCSpec => []I
  BY <1>1, <1>2, PTL DEF MCSpec
<1> QED
  BY <1>3 DEF I

\* On a bus that has sent each frame before the next call, and for every payload that is
\* not empty (main.rs:227, forty-eight bytes), transmit is the channel main.rs takes it for:
\* every payload crosses the bus whole, once and in order (can.rs:110-135).  The steps of
\* ChannelSpec.
THEOREM PromptBusIsChannel ==
  ASSUME PayloadLength > 0
  PROVE  MCSpec => Channel!Init /\ [][Channel!Next]_(Channel!channel)
<1> DEFINE I == MailboxInv /\ PromptInv
<1>1. MCInit => Channel!Init
  <2> SUFFICES ASSUME MCInit PROVE Channel!Init
    OBVIOUS
  <2>1. PromptInv /\ calls = 0 /\ ~Unsent
    BY PromptInvInit DEF MCInit, Init, Unsent
  <2>2. Prompt => bus = Whole(calls)
    BY <2>1 DEF PromptInv
  <2> QED
    BY <2>1, <2>2 DEF Channel!Init
<1>2. I /\ I' /\ [MCNext]_everything => [Channel!Next]_(Channel!channel)
  BY StepCrosses
<1>3. MCSpec => []I
  BY AlwaysPromptInv
<1> HIDE DEF I
<1> QED
  BY <1>1, <1>2, <1>3, PTL DEF MCSpec

\* A frame is one payload in the layout of main.rs:16-26 as long as the bus has sent each
\* before the next call: that nothing in transmit keeps its writes and the controller's copy
\* apart (can.rs:132) shows on a slower bus only, where the run torn refutes FramesWhole.
THEOREM PromptFramesWhole == MCSpec => [](Prompt => FramesWhole)
<1>1. MailboxInv /\ PromptInv => (Prompt => FramesWhole)
  <2> SUFFICES ASSUME MailboxInv, PromptInv, Prompt PROVE FramesWhole
    OBVIOUS
  <2>1. calls \in Nat
    BY DEF MailboxInv, TypeOK
  <2> QED
    BY <2>1 DEF PromptInv, FramesWhole
<1> QED
  BY <1>1, AlwaysPromptInv, PTL

-----------------------------------------------------------------------------
(* On any bus, torn frames and all.                                            *)

\* The number of the payload that byte b of word w of f is from.
Of(f, w, b) == f[w][b][1]

\* No byte on the bus is of an earlier payload than the byte seen in its place before: a
\* frame may be torn between two payloads, and a payload may never cross the bus whole, but
\* nothing is sent again after what came later (can.rs:116-134).
BytesNeverGoBack ==
  [][\A w \in DataWords, b \in Bytes : Of(bus, w, b) <= Of(bus', w, b)]_vars

\* Byte by byte the bus is behind the copy, the copy behind the buffer, that behind the calls.
OrderInv ==
  \A w \in DataWords, b \in Bytes :
    /\ Of(bus, w, b) <= Of(frame, w, b)
    /\ Of(frame, w, b) <= Of(data, w, b)
    /\ Of(data, w, b) <= calls

LEMMA OfNat ==
  ASSUME TypeOK, NEW w \in DataWords, NEW b \in Bytes
  PROVE  /\ Of(bus, w, b) \in Nat /\ Of(frame, w, b) \in Nat /\ Of(data, w, b) \in Nat
         /\ calls \in Nat
BY DEF TypeOK, Words, Of, Bytes

LEMMA OrderInvInit == Init => OrderInv
BY DEF Init, OrderInv, Of, ZeroWords, Zero, PayloadByte, Bytes

\* A byte written is of the payload of this call.
LEMMA WriteKeepsOrder ==
  ASSUME TypeOK, OrderInv, write_payload_byte
  PROVE  OrderInv'
<1>1. /\ data' = [data EXCEPT ![2 + (i \div 4)] = [@ EXCEPT ![i % 4] = PayloadByte(calls, i)]]
      /\ UNCHANGED <<bus, frame, calls>>
  BY DEF write_payload_byte, controller
<1>2. data \in Words /\ calls \in Nat
  BY DEF TypeOK
<1> SUFFICES ASSUME NEW w \in DataWords, NEW b \in Bytes
             PROVE  /\ Of(bus, w, b)' <= Of(frame, w, b)'
                    /\ Of(frame, w, b)' <= Of(data, w, b)'
                    /\ Of(data, w, b)' <= calls'
  BY DEF OrderInv
<1>3. /\ Of(bus, w, b) <= Of(frame, w, b) /\ Of(frame, w, b) <= Of(data, w, b)
      /\ Of(data, w, b) <= calls
  BY DEF OrderInv
<1>4. Of(bus, w, b)' = Of(bus, w, b) /\ Of(frame, w, b)' = Of(frame, w, b)
  BY <1>1 DEF Of
<1>5. data'[w][b] = data[w][b] \/ data'[w][b] = PayloadByte(calls, i)
  BY <1>1, <1>2 DEF Words, Bytes
<1>6. calls = 0 => PayloadByte(calls, i)[1] = 0
  BY DEF PayloadByte
<1>7. PayloadByte(calls, i)[1] = calls
  BY <1>6 DEF PayloadByte
<1>8. Of(data, w, b)' \in {Of(data, w, b), calls}
  BY <1>5, <1>7 DEF Of
<1> QED
  BY <1>1, <1>3, <1>4, <1>8, OfNat

\* A word copied is taken over as it is, and a frame sent, too.
LEMMA OthersKeepOrder ==
  ASSUME TypeOK, OrderInv, transmit \/ send_frame \/ Controller \/ UNCHANGED vars
  PROVE  OrderInv'
<1>1. calls \in Nat /\ calls' \in Nat /\ calls <= calls' /\ data' = data
  BY DEF transmit, send_frame, Controller, BeginCopy, CopyWord, FrameSent, TypeOK, driver, vars
<1>2. \/ UNCHANGED <<bus, frame>>
      \/ bus' = bus /\ frame' = [frame EXCEPT ![copied + 2] = data[copied + 2]]
      \/ frame' = frame /\ bus' = frame
  BY DEF transmit, send_frame, Controller, BeginCopy, CopyWord, FrameSent, controller, vars
<1> SUFFICES ASSUME NEW w \in DataWords, NEW b \in Bytes
             PROVE  /\ Of(bus, w, b)' <= Of(frame, w, b)'
                    /\ Of(frame, w, b)' <= Of(data, w, b)'
                    /\ Of(data, w, b)' <= calls'
  BY DEF OrderInv
<1>3. /\ Of(bus, w, b) <= Of(frame, w, b) /\ Of(frame, w, b) <= Of(data, w, b)
      /\ Of(data, w, b) <= calls
  BY DEF OrderInv
<1>4. frame \in Words
  BY DEF TypeOK
<1>5. Of(frame, w, b)' \in {Of(frame, w, b), Of(data, w, b)}
  BY <1>2, <1>4 DEF Of, Words
<1>6. \/ Of(bus, w, b)' = Of(bus, w, b)
      \/ Of(bus, w, b)' = Of(frame, w, b) /\ Of(frame, w, b)' = Of(frame, w, b)
  BY <1>2 DEF Of
<1>7. Of(data, w, b)' = Of(data, w, b)
  BY <1>1 DEF Of
<1> QED
  BY <1>1, <1>3, <1>5, <1>6, <1>7, OfNat

\* Whatever the timing of the bus and the length of the payload, the receiver never reads a
\* byte that is older than the one it had before in its place.
THEOREM AlwaysForward == Spec => BytesNeverGoBack
<1> DEFINE I == MailboxInv /\ OrderInv
           Forward == \A w \in DataWords, b \in Bytes : Of(bus, w, b) <= Of(bus', w, b)
<1>1. Init => I
  BY InitMailboxInv, OrderInvInit
<1>2. I /\ [Next]_vars => I'
  <2> SUFFICES ASSUME I, [Next]_vars PROVE I'
    OBVIOUS
  <2>1. MailboxInv' /\ TypeOK
    BY NextKeepsMailboxInv DEF MailboxInv
  <2> QED
    BY <2>1, WriteKeepsOrder, OthersKeepOrder DEF Next, CPU
<1>3. I /\ [Next]_vars => [Forward]_vars
  <2> SUFFICES ASSUME I, Next PROVE Forward
    OBVIOUS
  <2>1. bus' \in {bus, frame} /\ TypeOK
    BY DEF Next, transmit, CPU, write_payload_byte, send_frame, Controller, BeginCopy, CopyWord,
       FrameSent, controller, MailboxInv
  <2> QED
    BY <2>1, OfNat DEF OrderInv
<1> HIDE DEF I, Forward
<1>4. Spec => [][Forward]_vars
  BY <1>1, <1>2, <1>3, PTL DEF Spec
<1> QED
  BY <1>4 DEF BytesNeverGoBack, Forward
=============================================================================
