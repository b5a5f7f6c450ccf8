---------------------------- MODULE CsecPram_proof ----------------------------
(* Proofs about CsecPram, for every set of bytes, buffers and lengths and every *)
(* content of PRAM.                                                             *)
EXTENDS CsecPram, SequenceTheorems, TLAPS

LoopState ==
  /\ TypeOK /\ InPages
  /\ LoopInv /\ WrittenSoFar /\ ReadSoFar /\ OnlyItsBytes

Pram == [0 .. WORDS - 1 -> [0 .. 3 -> Byte]]

-----------------------------------------------------------------------------
(* Words and bytes.                                                             *)

\* A byte number is a word number and a place in that word.
LEMMA ByteNumbers ==
  ASSUME NEW k \in Bytes
  PROVE  k \div 4 \in 0 .. WORDS - 1 /\ k % 4 \in 0 .. 3
  BY DEF Bytes, WORDS

LEMMA SameByte ==
  ASSUME NEW k \in Nat, NEW j \in Nat, k \div 4 = j \div 4, k % 4 = j % 4
  PROVE  k = j
  OBVIOUS

LEMMA SumOfMultiples ==
  ASSUME NEW a \in Nat, NEW b \in Nat, a % 4 = 0, b % 4 = 0
  PROVE  (a + b) % 4 = 0
  OBVIOUS

LEMMA PlaceInBuffer ==
  ASSUME NEW o \in Nat, NEW j \in Nat, NEW k \in Nat, k \in o + j .. o + j + 3
  PROVE  k - (o + j) \in 0 .. 3 /\ j + 1 + (k - (o + j)) = k - o + 1
  OBVIOUS

\* The four bytes of the word that starts at byte h.
LEMMA WordOfBytes ==
  ASSUME NEW k \in Nat, NEW h \in Nat, h % 4 = 0
  PROVE  /\ k \div 4 = h \div 4 <=> k \in h .. h + 3
         /\ k \in h .. h + 3 => k % 4 = k - h
<1>1. k \div 4 = h \div 4 => k \in h .. h + 3
  OBVIOUS
<1>2. k \in h .. h + 3 => k \div 4 = h \div 4 /\ k % 4 = k - h
  OBVIOUS
<1> QED
  BY <1>1, <1>2

LEMMA ByteIsByte ==
  ASSUME NEW w \in Pram, NEW k \in Bytes
  PROVE  ByteAt(w, k) \in Byte
  BY ByteNumbers DEF ByteAt, Pram

\* Writing a word changes its four bytes and no other.
LEMMA WordWrite ==
  ASSUME NEW w \in Pram, NEW n \in 0 .. WORDS - 1, NEW v \in [0 .. 3 -> Byte]
  PROVE  /\ [w EXCEPT ![n] = v] \in Pram
         /\ \A k \in Bytes :
              ByteAt([w EXCEPT ![n] = v], k) = IF k \div 4 = n THEN v[k % 4] ELSE ByteAt(w, k)
<1>1. [w EXCEPT ![n] = v] \in Pram
  BY DEF Pram
<1>2. ASSUME NEW k \in Bytes
      PROVE  ByteAt([w EXCEPT ![n] = v], k) = IF k \div 4 = n THEN v[k % 4] ELSE ByteAt(w, k)
  BY ByteNumbers DEF ByteAt, Pram
<1> QED
  BY <1>1, <1>2

-----------------------------------------------------------------------------
(* The loop invariant.                                                          *)

LEMMA LoopStateInit == Init => LoopState
<1> SUFFICES ASSUME Init PROVE LoopState
  OBVIOUS
<1>1. word \in Pram /\ before = word
  BY PramAssumption DEF Init, Pram
<1>2. TypeOK
  BY <1>1 DEF Init, TypeOK, Pram, Kinds
<1> QED
  BY <1>1, <1>2 DEF Init, LoopState, InPages, LoopInv, WrittenSoFar, ReadSoFar, OnlyItsBytes

LEMMA BeginCopy ==
  ASSUME LoopState,
         \/ \E offset \in PageOffsets, b \in Buffers :
              Fits(offset, Len(b)) /\ write_command_bytes(offset, b)
         \/ \E offset \in PageOffsets, len \in Lengths :
              Fits(offset, len) /\ read_command_bytes(offset, len)
  PROVE  LoopState'
<1>1. word' = word /\ before' = word /\ i' = 0 /\ word \in Pram
  BY DEF write_command_bytes, read_command_bytes, Begin, LoopState, TypeOK, Pram
<1>2. PICK offset \in PageOffsets, len \in Nat :
        /\ Fits(offset, len) /\ acc' = [kind |-> acc'.kind, offset |-> offset, len |-> len]
        /\ buf' \in Seq(Byte) /\ Len(buf') = len
        /\ \/ acc'.kind = "write" /\ pc' = "write"
           \/ acc'.kind = "read" /\ pc' = "read"
  <2>1. CASE \E offset \in PageOffsets, b \in Buffers :
               Fits(offset, Len(b)) /\ write_command_bytes(offset, b)
    <3>1. PICK offset \in PageOffsets, b \in Buffers :
            Fits(offset, Len(b)) /\ write_command_bytes(offset, b)
      BY <2>1
    <3>2. b \in Seq(Byte) /\ Len(b) \in Nat
      BY PramAssumption
    <3> QED
      BY <3>1, <3>2 DEF write_command_bytes, Begin
  <2>2. CASE \E offset \in PageOffsets, len \in Lengths :
               Fits(offset, len) /\ read_command_bytes(offset, len)
    <3>1. PICK offset \in PageOffsets, len \in Lengths :
            Fits(offset, len) /\ read_command_bytes(offset, len)
      BY <2>2
    <3>2. len \in Nat /\ 0 \in Byte
      BY PramAssumption
    <3>3. [k \in 1 .. len |-> 0] \in Seq(Byte) /\ Len([k \in 1 .. len |-> 0]) = len
      BY <3>2
    <3> QED
      BY <3>1, <3>2, <3>3 DEF read_command_bytes, Begin
  <2> QED
    BY <2>1, <2>2
<1>3. offset \in Nat /\ offset % 4 = 0
  BY DEF PageOffsets, MAX_PAGES
<1>4. TypeOK'
  BY <1>1, <1>2, <1>3 DEF TypeOK, Pram, Kinds
<1>5. InPages' /\ LoopInv' /\ OnlyItsBytes'
  BY <1>1, <1>2, <1>3 DEF InPages, LoopInv, OnlyItsBytes, AtLeastFour, Fits
<1>6. acc' = [kind |-> acc'.kind, offset |-> offset, len |-> len] /\ acc'.offset = offset
  BY <1>2
<1>7. WrittenSoFar' /\ ReadSoFar'
  BY <1>1, <1>3, <1>6 DEF WrittenSoFar, ReadSoFar
<1> QED
  BY <1>4, <1>5, <1>7 DEF LoopState

\* What a loop knows of the place it has reached.
LEMMA LoopFacts ==
  ASSUME LoopState, pc \in {"write", "read"}
  PROVE  /\ word \in Pram /\ before \in Pram
         /\ acc.kind = pc /\ acc.offset \in Nat /\ acc.len \in Nat /\ i \in Nat
         /\ acc.offset % 4 = 0 /\ acc.offset + acc.len <= 128
         /\ i <= acc.len /\ Len(buf) = acc.len /\ buf \in Seq(Byte)
         /\ AtLeastFour => /\ Here \div 4 \in 0 .. WORDS - 1 /\ Here % 4 = 0
                           /\ Here + 3 \in Bytes /\ i % 4 = 0
         /\ i < acc.len => /\ Here \div 4 \in 0 .. WORDS - 1 /\ Here % 4 \in 0 .. 3
                           /\ Here \in Bytes
<1>1. /\ word \in Pram /\ before \in Pram /\ acc.kind = pc
      /\ acc.offset \in Nat /\ acc.len \in Nat /\ i \in Nat /\ buf \in Seq(Byte)
  BY DEF LoopState, TypeOK, LoopInv, Pram
<1>2. /\ acc.offset % 4 = 0 /\ Fits(acc.offset, acc.len)
      /\ Len(buf) = acc.len /\ i <= acc.len
      /\ AtLeastFour => i % 4 = 0
  BY <1>1 DEF LoopState, LoopInv
<1>3. acc.offset + acc.len <= 128
  BY <1>2 DEF Fits, WORDS
<1>4. Here \in Nat /\ Here = acc.offset + i
  BY <1>1 DEF Here
<1>5. ASSUME AtLeastFour
      PROVE  Here < 125 /\ Here % 4 = 0
  <2>1. i + 3 < acc.len
    BY <1>5 DEF AtLeastFour
  <2>2. Here < 125
    BY <1>1, <1>3, <1>4, <2>1
  <2>3. Here % 4 = 0
    BY <1>1, <1>2, <1>4, <1>5, SumOfMultiples
  <2> QED
    BY <2>2, <2>3
<1>6. i < acc.len => Here < 128
  BY <1>1, <1>3, <1>4
<1>7. AtLeastFour => i < acc.len
  BY <1>1 DEF AtLeastFour
<1>8. Here < 128 => Here \div 4 \in 0 .. WORDS - 1 /\ Here % 4 \in 0 .. 3 /\ Here \in Bytes
  BY <1>4, ByteNumbers DEF Bytes, WORDS
<1>9. Here < 125 => Here + 3 \in Bytes
  BY <1>4 DEF Bytes, WORDS
<1> QED
  BY <1>1, <1>2, <1>3, <1>4, <1>5, <1>6, <1>7, <1>8, <1>9

\* A step of a writing loop that adds n bytes.
LEMMA WriteKeepsLoopState ==
  ASSUME LoopState, pc = "write", NEW n \in {1, 4}, i + n <= acc.len,
         (i + n) + 3 < acc.len => (i + n) % 4 = 0,
         word' \in Pram, i' = i + n, UNCHANGED <<before, acc, buf, pc>>,
         \A k \in Bytes : ByteAt(word', k) = IF k \in Here .. Here + n - 1
                                               THEN buf[k - acc.offset + 1]
                                               ELSE ByteAt(word, k)
  PROVE  LoopState'
<1>1. /\ word \in Pram /\ before \in Pram /\ acc.kind = "write"
      /\ acc.offset \in Nat /\ acc.len \in Nat /\ i \in Nat
  BY LoopFacts
<1>2. TypeOK'
  BY <1>1 DEF LoopState, TypeOK, Pram
<1>3. InPages' /\ LoopInv' /\ ReadSoFar'
  BY <1>1 DEF LoopState, InPages, LoopInv, ReadSoFar, AtLeastFour, Fits
<1>4. WrittenSoFar'
  <2> SUFFICES ASSUME NEW k \in Bytes
               PROVE  ByteAt(word', k) = IF k \in acc.offset .. acc.offset + i + n - 1
                                           THEN buf[k - acc.offset + 1] ELSE ByteAt(before, k)
    BY <1>1 DEF WrittenSoFar
  <2>1. ByteAt(word, k) = IF k \in acc.offset .. acc.offset + i - 1
                            THEN buf[k - acc.offset + 1] ELSE ByteAt(before, k)
    BY <1>1 DEF LoopState, WrittenSoFar
  <2>2. k \in acc.offset .. acc.offset + i + n - 1
          <=> k \in acc.offset .. acc.offset + i - 1 \/ k \in Here .. Here + n - 1
    BY <1>1 DEF Here, Bytes
  <2> QED
    BY <2>1, <2>2
<1>5. OnlyItsBytes'
  <2> SUFFICES ASSUME NEW k \in Bytes, ByteAt(word', k) # ByteAt(before, k)
               PROVE  k \in acc.offset .. acc.offset + acc.len - 1
    BY <1>1 DEF OnlyItsBytes, Writes, Span
  <2>1. k \in Here .. Here + n - 1 \/ ByteAt(word, k) # ByteAt(before, k)
    OBVIOUS
  <2>2. ByteAt(word, k) # ByteAt(before, k) => k \in acc.offset .. acc.offset + acc.len - 1
    BY DEF LoopState, OnlyItsBytes, Span
  <2>3. k \in Here .. Here + n - 1 => k \in acc.offset .. acc.offset + acc.len - 1
    BY <1>1 DEF Here, Bytes
  <2> QED
    BY <2>1, <2>2, <2>3
<1> QED
  BY <1>2, <1>3, <1>4, <1>5 DEF LoopState

LEMMA WriteWordKeepsLoopState ==
  ASSUME LoopState, write_word
  PROVE  LoopState'
<1>1. pc = "write" /\ AtLeastFour
  BY DEF write_word
<1>2. /\ word \in Pram /\ acc.offset \in Nat /\ acc.len \in Nat /\ i \in Nat
      /\ Here \div 4 \in 0 .. WORDS - 1 /\ Here % 4 = 0 /\ i % 4 = 0 /\ i + 3 < acc.len
      /\ buf \in Seq(Byte) /\ Len(buf) = acc.len
  BY <1>1, LoopFacts DEF AtLeastFour
<1> DEFINE v == [b \in 0 .. 3 |-> buf[i + 1 + b]]
<1>3. /\ word' = [word EXCEPT ![Here \div 4] = v] /\ i' = i + 4
      /\ UNCHANGED <<before, acc, buf, pc>>
  BY <1>2 DEF write_word, InPram
<1>4. v \in [0 .. 3 -> Byte]
  BY <1>2
<1>5. \A b \in 0 .. 3 : v[b] = buf[i + 1 + b]
  OBVIOUS
<1> HIDE DEF v
<1>6. /\ word' \in Pram
      /\ \A k \in Bytes :
           ByteAt(word', k) = IF k \div 4 = Here \div 4 THEN v[k % 4] ELSE ByteAt(word, k)
  BY <1>2, <1>3, <1>4, WordWrite
<1>7. \A k \in Bytes : ByteAt(word', k) = IF k \in Here .. Here + 4 - 1
                                            THEN buf[k - acc.offset + 1] ELSE ByteAt(word, k)
  <2> SUFFICES ASSUME NEW k \in Bytes
               PROVE  ByteAt(word', k) = IF k \in Here .. Here + 4 - 1
                                           THEN buf[k - acc.offset + 1] ELSE ByteAt(word, k)
    OBVIOUS
  <2>1. Here \in Nat /\ Here = acc.offset + i /\ k \in Nat
    BY <1>2 DEF Here, Bytes, WORDS
  <2>2. /\ k \div 4 = Here \div 4 <=> k \in Here .. Here + 3
        /\ k \in Here .. Here + 3 => k % 4 = k - Here
    BY <1>2, <2>1, WordOfBytes
  <2>3. ASSUME k \in Here .. Here + 3
        PROVE  k - Here \in 0 .. 3 /\ i + 1 + (k - Here) = k - acc.offset + 1
    BY <1>2, <2>1, <2>3, PlaceInBuffer
  <2>4. Here + 4 - 1 = Here + 3
    BY <2>1
  <2>5. CASE k \in Here .. Here + 3
    <3>1. ByteAt(word', k) = v[k - Here]
      BY <1>6, <2>2, <2>5
    <3>2. v[k - Here] = buf[k - acc.offset + 1]
      BY <1>5, <2>3, <2>5
    <3> QED
      BY <2>4, <2>5, <3>1, <3>2
  <2>6. CASE k \notin Here .. Here + 3
    BY <1>6, <2>2, <2>4, <2>6
  <2> QED
    BY <2>5, <2>6
<1>8. (i + 4) % 4 = 0 /\ i + 4 <= acc.len
  BY <1>2
<1> QED
  BY <1>1, <1>3, <1>6, <1>7, <1>8, WriteKeepsLoopState

LEMMA WriteByteKeepsLoopState ==
  ASSUME LoopState, write_command_byte
  PROVE  LoopState'
<1>1. pc = "write" /\ ~AtLeastFour /\ i < acc.len
  BY DEF write_command_byte
<1>2. /\ word \in Pram /\ acc.offset \in Nat /\ acc.len \in Nat /\ i \in Nat
      /\ Here \div 4 \in 0 .. WORDS - 1 /\ Here % 4 \in 0 .. 3 /\ Here \in Bytes
      /\ buf \in Seq(Byte) /\ Len(buf) = acc.len
  BY <1>1, LoopFacts
<1> DEFINE v == [word[Here \div 4] EXCEPT ![Here % 4] = buf[i + 1]]
<1>3. /\ word' = [word EXCEPT ![Here \div 4] = v] /\ i' = i + 1
      /\ UNCHANGED <<before, acc, buf, pc>>
  BY <1>2 DEF write_command_byte, InPram
<1>4. word[Here \div 4] \in [0 .. 3 -> Byte] /\ buf[i + 1] \in Byte
  BY <1>1, <1>2 DEF Pram
<1>5. /\ v \in [0 .. 3 -> Byte]
      /\ \A b \in 0 .. 3 : v[b] = IF b = Here % 4 THEN buf[i + 1] ELSE word[Here \div 4][b]
  BY <1>2, <1>4
<1> HIDE DEF v
<1>6. /\ word' \in Pram
      /\ \A k \in Bytes :
           ByteAt(word', k) = IF k \div 4 = Here \div 4 THEN v[k % 4] ELSE ByteAt(word, k)
  BY <1>2, <1>3, <1>5, WordWrite
<1>7. \A k \in Bytes : ByteAt(word', k) = IF k \in Here .. Here + 1 - 1
                                            THEN buf[k - acc.offset + 1] ELSE ByteAt(word, k)
  <2> SUFFICES ASSUME NEW k \in Bytes
               PROVE  ByteAt(word', k) = IF k \in Here .. Here + 1 - 1
                                           THEN buf[k - acc.offset + 1] ELSE ByteAt(word, k)
    OBVIOUS
  <2>1. Here \in Nat /\ Here = acc.offset + i /\ k \in Nat
    BY <1>2 DEF Here, Bytes, WORDS
  <2>2. /\ k \in Here .. Here + 1 - 1 <=> k = Here
        /\ k = Here => k - acc.offset + 1 = i + 1
    BY <1>2, <2>1
  <2>3. k % 4 \in 0 .. 3
    BY ByteNumbers
  <2>5. CASE k = Here
    BY <1>5, <1>6, <2>2, <2>3, <2>5
  <2>6. CASE k # Here /\ k \div 4 = Here \div 4
    <3>1. k % 4 # Here % 4
      BY <2>1, <2>6, SameByte
    <3> QED
      BY <1>5, <1>6, <2>2, <2>3, <2>6, <3>1 DEF ByteAt
  <2>7. CASE k # Here /\ k \div 4 # Here \div 4
    BY <1>6, <2>2, <2>7
  <2> QED
    BY <2>5, <2>6, <2>7
<1>8. i + 1 <= acc.len /\ ~((i + 1) + 3 < acc.len)
  BY <1>1, <1>2 DEF AtLeastFour
<1> QED
  BY <1>1, <1>3, <1>6, <1>7, <1>8, WriteKeepsLoopState

LEMMA ReadKeepsLoopState ==
  ASSUME LoopState, pc = "read", NEW n \in {1, 4}, i + n <= acc.len,
         (i + n) + 3 < acc.len => (i + n) % 4 = 0,
         buf' \in Seq(Byte), Len(buf') = Len(buf), i' = i + n,
         UNCHANGED <<word, before, acc, pc>>,
         \A k \in 1 .. i : buf'[k] = buf[k],
         \A k \in i + 1 .. i + n : buf'[k] = ByteAt(word, acc.offset + k - 1)
  PROVE  LoopState'
<1>1. /\ word \in Pram /\ before \in Pram /\ acc.kind = "read"
      /\ acc.offset \in Nat /\ acc.len \in Nat /\ i \in Nat
  BY LoopFacts
<1>2. TypeOK'
  BY <1>1 DEF LoopState, TypeOK, Pram
<1>3. InPages' /\ LoopInv' /\ WrittenSoFar' /\ OnlyItsBytes'
  BY <1>1 DEF LoopState, InPages, LoopInv, WrittenSoFar, OnlyItsBytes, AtLeastFour, Fits
<1>4. word = before /\ \A k \in 1 .. i : buf[k] = ByteAt(word, acc.offset + k - 1)
  BY <1>1 DEF LoopState, ReadSoFar
<1>5. \A k \in 1 .. i + n : k \in 1 .. i \/ k \in i + 1 .. i + n
  BY <1>1
<1>6. ReadSoFar'
  BY <1>1, <1>4, <1>5 DEF ReadSoFar
<1> QED
  BY <1>2, <1>3, <1>6 DEF LoopState

LEMMA ReadWordKeepsLoopState ==
  ASSUME LoopState, read_word
  PROVE  LoopState'
<1>1. pc = "read" /\ AtLeastFour
  BY DEF read_word
<1>2. /\ word \in Pram /\ acc.offset \in Nat /\ acc.len \in Nat /\ i \in Nat
      /\ Here \div 4 \in 0 .. WORDS - 1 /\ Here % 4 = 0 /\ i % 4 = 0 /\ i + 3 < acc.len
      /\ buf \in Seq(Byte) /\ Len(buf) = acc.len /\ Here + 3 \in Bytes
  BY <1>1, LoopFacts DEF AtLeastFour
<1>2a. acc.offset \in Nat /\ i \in Nat /\ Here \in Nat
  <2>1. acc.offset \in Nat /\ i \in Nat
    BY <1>2
  <2> QED
    BY <2>1 DEF Here
<1> DEFINE n == Len(buf)
           w == word[Here \div 4]
           copy == [k \in 1 .. n |-> IF k \in i + 1 .. i + 4 THEN w[k - i - 1] ELSE buf[k]]
<1>3. buf' = copy /\ i' = i + 4 /\ UNCHANGED <<word, before, acc, pc>>
  BY <1>2 DEF read_word, InPram
<1>4. w \in [0 .. 3 -> Byte] /\ n \in Nat
  BY <1>2 DEF Pram
<1>5. \A k \in 1 .. n : buf[k] \in Byte
  BY <1>2
<1>6. \A b \in 0 .. 3 : w[b] = ByteAt(word, acc.offset + i + b)
  <2> SUFFICES ASSUME NEW b \in 0 .. 3 PROVE w[b] = ByteAt(word, acc.offset + i + b)
    OBVIOUS
  <2>0. acc.offset + i + b = Here + b
    BY DEF Here
  <2>1. Here \in Nat /\ Here + b \in Nat
    BY <1>2a
  <2>2. Here + b \in Here .. Here + 3
    BY <2>1
  <2>3. (Here + b) \div 4 = Here \div 4 /\ (Here + b) % 4 = (Here + b) - Here
    BY <1>2, <2>1, <2>2, WordOfBytes
  <2>4. (Here + b) - Here = b
    BY <2>1
  <2> QED
    BY <2>0, <2>3, <2>4 DEF ByteAt
<1> HIDE DEF w, n
<1>7. \A k \in i + 1 .. i + 4 : k \in 1 .. n /\ k - i - 1 \in 0 .. 3
  BY <1>2 DEF n
<1>8. copy \in Seq(Byte) /\ Len(copy) = n
  <2>1. \A k \in 1 .. n : copy[k] \in Byte
    BY <1>4, <1>5, <1>7
  <2> HIDE DEF copy
  <2>2. copy = [k \in 1 .. n |-> copy[k]]
    BY DEF copy
  <2> QED
    BY <1>4, <2>1, <2>2
<1>9. \A k \in 1 .. i : copy[k] = buf[k]
  BY <1>2 DEF n
<1>10. ASSUME NEW k \in i + 1 .. i + 4
       PROVE  copy[k] = ByteAt(word, acc.offset + k - 1)
  <2>1. copy[k] = w[k - i - 1]
    BY <1>7
  <2>2. w[k - i - 1] = ByteAt(word, acc.offset + i + (k - i - 1))
    <3> DEFINE j == k - i - 1
    <3>1. j \in 0 .. 3
      BY <1>7
    <3> HIDE DEF j
    <3>2. w[j] = ByteAt(word, acc.offset + i + j)
      BY <1>6, <3>1
    <3> QED
      BY <3>2 DEF j
  <2>3. acc.offset + i + (k - i - 1) = acc.offset + k - 1
    BY <1>2a
  <2> QED
    BY <2>1, <2>2, <2>3
<1>11. (i + 4) % 4 = 0 /\ i + 4 <= acc.len
  BY <1>2
<1> HIDE DEF copy
<1> QED
  BY <1>1, <1>3, <1>8, <1>9, <1>10, <1>11, ReadKeepsLoopState DEF n

LEMMA ReadByteKeepsLoopState ==
  ASSUME LoopState, read_command_byte
  PROVE  LoopState'
<1>1. pc = "read" /\ ~AtLeastFour /\ i < acc.len
  BY DEF read_command_byte
<1>2. /\ word \in Pram /\ acc.offset \in Nat /\ acc.len \in Nat /\ i \in Nat
      /\ Here \div 4 \in 0 .. WORDS - 1 /\ Here % 4 \in 0 .. 3 /\ Here \in Bytes
      /\ buf \in Seq(Byte) /\ Len(buf) = acc.len
  BY <1>1, LoopFacts
<1>3. /\ buf' = [buf EXCEPT ![i + 1] = word[Here \div 4][Here % 4]] /\ i' = i + 1
      /\ UNCHANGED <<word, before, acc, pc>>
  BY <1>2 DEF read_command_byte, InPram
<1>4. word[Here \div 4][Here % 4] = ByteAt(word, Here) /\ ByteAt(word, Here) \in Byte
  BY <1>2, ByteIsByte DEF ByteAt
<1>5. i + 1 \in 1 .. Len(buf)
  BY <1>1, <1>2
<1>6. buf' \in Seq(Byte) /\ Len(buf') = Len(buf)
  BY <1>2, <1>3, <1>4, <1>5
<1>7. \A k \in 1 .. i : buf'[k] = buf[k]
  BY <1>1, <1>2, <1>3
<1>8. \A k \in i + 1 .. i + 1 : buf'[k] = ByteAt(word, acc.offset + k - 1)
  <2>1. \A k \in i + 1 .. i + 1 : k = i + 1 /\ acc.offset + k - 1 = Here
    BY <1>2 DEF Here
  <2>2. buf'[i + 1] = ByteAt(word, Here)
    BY <1>2, <1>3, <1>4, <1>5
  <2> QED
    BY <2>1, <2>2
<1>9. i + 1 <= acc.len /\ ~((i + 1) + 3 < acc.len)
  BY <1>1, <1>2 DEF AtLeastFour
<1> QED
  BY <1>1, <1>3, <1>6, <1>7, <1>8, <1>9, ReadKeepsLoopState

-----------------------------------------------------------------------------
(* Halfwords.                                                                   *)

LEMMA PutHalfFacts ==
  ASSUME NEW w \in Pram, NEW offset \in {8, 12, 14}, NEW h \in [1 .. 2 -> Byte]
  PROVE  /\ PutHalf(w, offset, h) \in Pram
         /\ \A k \in Bytes :
              k \notin {offset, offset + 1} => ByteAt(PutHalf(w, offset, h), k) = ByteAt(w, k)
         /\ offset = 14 => /\ ByteAt(PutHalf(w, offset, h), offset) = h[1]
                           /\ ByteAt(PutHalf(w, offset, h), offset + 1) = h[2]
         /\ offset # 14 => /\ ByteAt(PutHalf(w, offset, h), offset) = 0
                           /\ ByteAt(PutHalf(w, offset, h), offset + 1) = 0
<1>0. /\ offset \div 4 = IF offset = 8 THEN 2 ELSE 3
      /\ offset % 4 = IF offset = 14 THEN 2 ELSE 0
      /\ (offset + 1) \div 4 = IF offset = 8 THEN 2 ELSE 3
      /\ (offset + 1) % 4 = IF offset = 14 THEN 3 ELSE 1
  OBVIOUS
<1> DEFINE n == IF offset = 8 THEN 2 ELSE 3
           v == IF offset = 14 THEN [w[n] EXCEPT ![2] = h[1], ![3] = h[2]]
                               ELSE [w[n] EXCEPT ![0] = 0, ![1] = 0]
<1>1. n \in 0 .. WORDS - 1 /\ w[n] \in [0 .. 3 -> Byte] /\ 0 \in Byte
  BY PramAssumption DEF Pram, WORDS
<1>2. PutHalf(w, offset, h) = [w EXCEPT ![n] = v]
  <2>1. CASE offset = 14
    BY <1>0, <2>1 DEF PutHalf
  <2>2. CASE offset = 8
    BY <1>0, <2>2 DEF PutHalf
  <2>3. CASE offset = 12
    BY <1>0, <2>3 DEF PutHalf
  <2> QED
    BY <2>1, <2>2, <2>3
<1>3. v \in [0 .. 3 -> Byte]
  BY <1>1
<1>4. /\ offset = 14 => v[2] = h[1] /\ v[3] = h[2] /\ v[0] = w[n][0] /\ v[1] = w[n][1]
      /\ offset # 14 => v[0] = 0 /\ v[1] = 0 /\ v[2] = w[n][2] /\ v[3] = w[n][3]
  BY <1>1
<1> HIDE DEF v, n
<1>5. /\ PutHalf(w, offset, h) \in Pram
      /\ \A k \in Bytes :
           ByteAt(PutHalf(w, offset, h), k) = IF k \div 4 = n THEN v[k % 4] ELSE ByteAt(w, k)
  <2>1. /\ [w EXCEPT ![n] = v] \in Pram
        /\ \A k \in Bytes :
             ByteAt([w EXCEPT ![n] = v], k) = IF k \div 4 = n THEN v[k % 4] ELSE ByteAt(w, k)
    BY <1>1, <1>3, WordWrite
  <2> QED
    BY ONLY <1>2, <2>1
<1>6. offset \in Bytes /\ offset + 1 \in Bytes
  BY DEF Bytes, WORDS
<1>7. ASSUME NEW k \in Bytes, k \notin {offset, offset + 1}, k \div 4 = n
      PROVE  v[k % 4] = w[n][k % 4]
  <2>1. k \in Nat
    BY DEF Bytes, WORDS
  <2>2. k % 4 # offset % 4 /\ k % 4 # (offset + 1) % 4
    BY <1>0, <1>7, <2>1, SameByte DEF n
  <2>3. k % 4 \in {0, 1, 2, 3}
    BY <2>1
  <2> QED
    BY <1>0, <1>4, <2>2, <2>3
<1>8. ASSUME NEW k \in Bytes, k \notin {offset, offset + 1}
      PROVE  ByteAt(PutHalf(w, offset, h), k) = ByteAt(w, k)
  <2>1. CASE k \div 4 = n
    BY <1>5, <1>7, <1>8, <2>1 DEF ByteAt
  <2>2. CASE k \div 4 # n
    BY <1>5, <2>2
  <2> QED
    BY <2>1, <2>2
<1>9. /\ ByteAt(PutHalf(w, offset, h), offset) = v[offset % 4]
      /\ ByteAt(PutHalf(w, offset, h), offset + 1) = v[(offset + 1) % 4]
  BY <1>0, <1>5, <1>6 DEF n
<1> QED
  BY <1>0, <1>4, <1>5, <1>8, <1>9

LEMMA HalfwordIsSeq ==
  ASSUME NEW h \in [1 .. 2 -> Byte]
  PROVE  h \in Seq(Byte) /\ Len(h) = 2
<1>1. h = [k \in 1 .. 2 |-> h[k]] /\ \A k \in 1 .. 2 : h[k] \in Byte
  OBVIOUS
<1>2. [k \in 1 .. 2 |-> h[k]] \in Seq(Byte) /\ Len([k \in 1 .. 2 |-> h[k]]) = 2
  BY <1>1
<1> QED
  BY <1>1, <1>2

LEMMA HalvesKeepLoopState ==
  ASSUME LoopState,
         \/ \E h \in Halfword :
              \E offset \in {PAGE_LENGTH_OFFSET, MAC_LENGTH_OFFSET} :
                write_command_halfword_at(offset, h)
         \/ \E upper, lower \in Halfword :
              write_command_words_at(MAC_MESSAGE_LENGTH_OFFSET, upper, lower)
         \/ \E offset \in {ERROR_BITS_OFFSET, 20} : read_command_halfword(offset)
  PROVE  LoopState'
<1>1. /\ pc = "idle" /\ pc' = "idle" /\ before' = word /\ word \in Pram
      /\ i \in Nat
  BY DEF write_command_halfword_at, write_command_words_at, read_command_halfword, Begin,
         LoopState, TypeOK, Pram
<1>2. \A h \in Halfword : h \in [1 .. 2 -> Byte] /\ h \in Seq(Byte)
  BY PramAssumption, HalfwordIsSeq
<1> DEFINE Kept ==
      /\ word' \in Pram /\ buf' \in Seq(Byte) /\ i' \in Nat
      /\ acc'.kind \in {"halfword", "words", "read_halfword"}
      /\ acc' \in [kind : Kinds, offset : Nat, len : Nat]
      /\ \A k \in Bytes : ByteAt(word', k) # ByteAt(word, k) =>
           acc'.kind \in Writes /\ k \in acc'.offset .. acc'.offset + acc'.len - 1
<1>3. Kept
  <2>1. ASSUME NEW h \in Halfword, NEW offset \in {8, 14}, write_command_halfword_at(offset, h)
        PROVE  Kept
    <3>1. /\ word' = PutHalf(word, offset, h) /\ buf' = h /\ i' = 0
          /\ acc' = [kind |-> "halfword", offset |-> offset, len |-> 2]
      BY <2>1 DEF write_command_halfword_at, Begin
    <3>2. offset .. offset + 2 - 1 = {offset, offset + 1}
      OBVIOUS
    <3>3. h \in [1 .. 2 -> Byte] /\ h \in Seq(Byte) /\ offset \in {8, 12, 14}
      BY <1>2
    <3>4. /\ word' \in Pram
          /\ \A k \in Bytes : k \notin {offset, offset + 1} => ByteAt(word', k) = ByteAt(word, k)
      BY <1>1, <3>1, <3>3, PutHalfFacts
    <3>5. acc'.kind = "halfword" /\ acc'.offset = offset /\ acc'.len = 2
          /\ acc' \in [kind : Kinds, offset : Nat, len : Nat] /\ acc'.kind \in Writes
      BY <3>1 DEF Kinds, Writes
    <3> QED
      BY <3>1, <3>2, <3>3, <3>4, <3>5
  <2>2. ASSUME NEW upper \in Halfword, NEW lower \in Halfword,
               write_command_words_at(12, upper, lower)
        PROVE  Kept
    <3>1. /\ word' = PutHalf(PutHalf(word, 12, upper), 14, lower)
          /\ buf' = upper \o lower /\ i' = 0
          /\ acc' = [kind |-> "words", offset |-> 12, len |-> 4]
      BY <2>2 DEF write_command_words_at, Begin
    <3>2. PutHalf(word, 12, upper) \in Pram
      BY <1>1, <1>2, PutHalfFacts
    <3>3. word' \in Pram
      BY <1>2, <3>1, <3>2, PutHalfFacts
    <3>4. \A k \in Bytes : k \notin {12, 13, 14, 15} => ByteAt(word', k) = ByteAt(word, k)
      BY <1>1, <1>2, <3>1, <3>2, PutHalfFacts
    <3>5. buf' \in Seq(Byte)
      BY <1>2, <3>1
    <3>6. acc'.kind = "words" /\ acc'.offset = 12 /\ acc'.len = 4
          /\ acc' \in [kind : Kinds, offset : Nat, len : Nat] /\ acc'.kind \in Writes
      BY <3>1 DEF Kinds, Writes
    <3>7. 12 .. 12 + 4 - 1 = {12, 13, 14, 15}
      OBVIOUS
    <3>8. i' \in Nat
      BY <3>1
    <3> QED
      BY ONLY <3>3, <3>4, <3>5, <3>6, <3>7, <3>8
  <2>3. ASSUME NEW offset \in {4, 20}, read_command_halfword(offset)
        PROVE  Kept
    <3>1. /\ word' = word /\ i' = 2
          /\ acc' = [kind |-> "read_halfword", offset |-> offset, len |-> 2]
          /\ buf' = <<word[offset \div 4][0], word[offset \div 4][1]>>
      BY <2>3 DEF read_command_halfword, Begin
    <3>2. word[offset \div 4] \in [0 .. 3 -> Byte]
      BY <1>1 DEF Pram, WORDS
    <3> QED
      BY <1>1, <3>1, <3>2 DEF Kinds
  <2> QED
    BY <2>1, <2>2, <2>3 DEF PAGE_LENGTH_OFFSET, MAC_LENGTH_OFFSET, MAC_MESSAGE_LENGTH_OFFSET,
                            ERROR_BITS_OFFSET
<1>4. TypeOK'
  BY <1>1, <1>3 DEF TypeOK, Pram
<1>5. InPages' /\ LoopInv' /\ WrittenSoFar' /\ ReadSoFar'
  BY <1>1, <1>3 DEF InPages, LoopInv, WrittenSoFar, ReadSoFar
<1>6. OnlyItsBytes'
  BY <1>1, <1>3 DEF OnlyItsBytes, Span
<1> QED
  BY <1>4, <1>5, <1>6 DEF LoopState

-----------------------------------------------------------------------------
(* The theorems.                                                                *)

LEMMA StillLoopState ==
  ASSUME LoopState, UNCHANGED <<word, before, acc, buf, i>>,
         pc' = pc \/ (pc \in {"write", "read"} /\ pc' = "idle")
  PROVE  LoopState'
  BY DEF LoopState, TypeOK, InPages, LoopInv, WrittenSoFar, ReadSoFar, OnlyItsBytes,
         AtLeastFour, Fits

LEMMA AlwaysLoopState == Spec => []LoopState
<1>1. Init => LoopState
  BY LoopStateInit
<1>2. LoopState /\ [Next]_vars => LoopState'
  <2> SUFFICES ASSUME LoopState, [Next]_vars PROVE LoopState'
    OBVIOUS
  <2>1. CASE Access
    BY <2>1, BeginCopy, HalvesKeepLoopState DEF Access
  <2>2. CASE Copy
    BY <2>2, WriteWordKeepsLoopState, WriteByteKeepsLoopState, ReadWordKeepsLoopState,
       ReadByteKeepsLoopState, StillLoopState DEF Copy, finish_copy
  <2>3. CASE Halted \/ UNCHANGED vars
    BY <2>3, StillLoopState DEF Halted, vars
  <2> QED
    BY <2>1, <2>2, <2>3 DEF Next
<1> QED
  BY <1>1, <1>2, PTL DEF Spec

\* No access leaves PRAM, and none changes a byte that is not its own.
THEOREM AccessesStayInPlace == Spec => [](TypeOK /\ InPages /\ OnlyItsBytes)
<1>1. LoopState => TypeOK /\ InPages /\ OnlyItsBytes
  BY DEF LoopState
<1> QED
  BY <1>1, AlwaysLoopState, PTL

\* Buffers, PRAM and the place of each loop keep their types (csec.rs:596-664).
THEOREM AlwaysTypeOK == Spec => []TypeOK
<1>1. LoopState => TypeOK
  BY DEF LoopState
<1> QED
  BY <1>1, AlwaysLoopState, PTL

\* No access of the driver reaches past the pages its caller owns, or the fields
\* (csec.rs:619, "ensure we don't write past available pages").
THEOREM AlwaysInPages == Spec => []InPages
<1>1. TypeOK /\ InPages /\ OnlyItsBytes => InPages
  OBVIOUS
<1> QED
  BY <1>1, AccessesStayInPlace, PTL

-----------------------------------------------------------------------------
(* How far a copy has still to go.                                              *)

InLoop == pc \in {"write", "read"}

\* Bytes to copy, and the end.
CopyWork == IF InLoop THEN acc.len - i + 1 ELSE 0

\* No copy takes more turns than its buffer has bytes.
WorkBounded == CopyWork \in 0 .. acc.len + 1

\* Each turn of the word loop and of the byte loop after it copies what no turn before has,
\* and one of the two goes on until the buffer is through, whatever its length modulo four
\* (csec.rs:600-613, 622-633).
CopiesShrink == [][InLoop => CopyWork' < CopyWork]_vars

LEMMA WorkFacts == LoopState => WorkBounded
<1> SUFFICES ASSUME LoopState PROVE WorkBounded
  OBVIOUS
<1>1. i \in Nat /\ acc.len \in Nat
  BY DEF LoopState, TypeOK
<1>2. InLoop => i <= acc.len
  BY DEF LoopState, LoopInv, InLoop
<1> QED
  BY <1>1, <1>2 DEF WorkBounded, CopyWork

LEMMA StepShrinks ==
  ASSUME LoopState, InLoop, Next
  PROVE  CopyWork' < CopyWork
<1>1. i \in Nat /\ acc.len \in Nat /\ i <= acc.len
  BY DEF LoopState, TypeOK, LoopInv, InLoop
<1>2. CopyWork = acc.len - i + 1
  BY DEF CopyWork
<1>3. Copy
  BY DEF Next, Access, Halted, write_command_bytes, read_command_bytes, write_command_halfword_at,
     write_command_words_at, read_command_halfword, Begin, InLoop
<1>4. \/ acc' = acc /\ i' > i /\ i' \in Nat
      \/ pc' \in {"idle", "panicked"}
  BY <1>1, <1>3 DEF Copy, write_word, write_command_byte, read_word, read_command_byte,
     finish_copy, Unreachable
<1> QED
  BY <1>1, <1>2, <1>4 DEF CopyWork, InLoop

\* For every buffer: a copy is over after as many turns as it has bytes, at most, and the one
\* that finds it done.  What CopiesEnd adds is that the CPU makes them.
THEOREM CopiesComeNearer == Spec => []WorkBounded /\ CopiesShrink
<1> DEFINE Shrinks == InLoop => CopyWork' < CopyWork
<1>1. LoopState /\ [Next]_vars => [Shrinks]_vars
  BY StepShrinks
<1> HIDE DEF Shrinks
<1>2. Spec => []WorkBounded /\ [][Shrinks]_vars
  BY <1>1, WorkFacts, AlwaysLoopState, PTL DEF Spec
<1> QED
  BY <1>2 DEF CopiesShrink, Shrinks

-----------------------------------------------------------------------------
(* What the callers take the accesses for.                                      *)

EightBits == \A b \in Byte : b \in Nat /\ b < 256

\* Copies begin at a page; a copy that is over is WindowOps already.
PlaceInv == acc.kind \in {"write", "read"} => acc.offset \in PageOffsets

WindowInv == LoopState /\ PlaceInv /\ WindowOps

\* A byte of a page of the buffer, and where it goes.
LEMMA ByteOfPage ==
  ASSUME NEW f \in 1 .. MAX_PAGES, NEW m \in Nat, NEW n \in 1 .. MAX_PAGES,
         NEW b \in 1 .. PAGE_SIZE_IN_BYTES
  PROVE  /\ 16 * n + b - 1 \in Bytes
         /\ n \in f .. f + m - 1 <=> 16 * n + b - 1 \in 16 * f .. 16 * f + 16 * m - 1
         /\ (16 * n + b - 1) - 16 * f + 1 = 16 * ((n - f + 1) - 1) + b
BY DEF Bytes, WORDS, MAX_PAGES, PAGE_SIZE_IN_BYTES

\* The length of a buffer of whole pages.
LEMMA WholeLength ==
  ASSUME NEW n \in Nat, n % PAGE_SIZE_IN_BYTES = 0
  PROVE  n \div PAGE_SIZE_IN_BYTES \in Nat /\ n = 16 * (n \div PAGE_SIZE_IN_BYTES)
BY DEF PAGE_SIZE_IN_BYTES

LEMMA PageOffset ==
  ASSUME NEW o \in PageOffsets
  PROVE  o \div PAGE_SIZE_IN_BYTES \in 1 .. MAX_PAGES /\ o = 16 * (o \div PAGE_SIZE_IN_BYTES)
BY DEF PageOffsets, PAGE_SIZE_IN_BYTES, MAX_PAGES

\* A finished write of whole pages.
LEMMA PagesWritten ==
  ASSUME LoopState, PlaceInv, acc.kind = "write", WholePages, i = acc.len
  PROVE  PageView(word) = WritePages(PageView(before), FirstPage, PagesIn(buf))
<1> DEFINE f == FirstPage
           m == acc.len \div PAGE_SIZE_IN_BYTES
<1>1. acc.len \in Nat /\ Len(buf) = acc.len
  BY DEF LoopState, TypeOK, LoopInv
<1>2. f \in 1 .. MAX_PAGES /\ acc.offset = 16 * f
  BY PageOffset DEF PlaceInv, FirstPage
<1>3. m \in Nat /\ acc.len = 16 * m
  BY <1>1, WholeLength DEF WholePages
<1>4. Len(PagesIn(buf)) = m
  BY <1>1, <1>3 DEF PagesIn
<1> HIDE DEF f, m
<1>5. ASSUME NEW n \in 1 .. MAX_PAGES, NEW b \in 1 .. PAGE_SIZE_IN_BYTES
      PROVE  ByteAt(word, 16 * n + b - 1) =
               IF n \in f .. f + m - 1 THEN buf[16 * ((n - f + 1) - 1) + b]
                                       ELSE ByteAt(before, 16 * n + b - 1)
  <2>1. ByteAt(word, 16 * n + b - 1) =
          IF 16 * n + b - 1 \in acc.offset .. acc.offset + i - 1
            THEN buf[(16 * n + b - 1) - acc.offset + 1] ELSE ByteAt(before, 16 * n + b - 1)
    BY <1>2, <1>3, ByteOfPage DEF LoopState, WrittenSoFar
  <2> QED
    BY <2>1, <1>2, <1>3, ByteOfPage
<1>6. ASSUME NEW n \in 1 .. MAX_PAGES
      PROVE  PageView(word)[n] = IF n \in f .. f + m - 1 THEN PagesIn(buf)[n - f + 1]
                                                         ELSE PageView(before)[n]
  <2>1. PageView(word)[n] = [b \in 1 .. PAGE_SIZE_IN_BYTES |-> ByteAt(word, 16 * n + b - 1)]
    BY DEF PageView, PAGE_SIZE_IN_BYTES
  <2>2. CASE n \in f .. f + m - 1
    <3>1. n - f + 1 \in 1 .. Len(buf) \div PAGE_SIZE_IN_BYTES
      BY <1>1, <1>2, <1>3, <2>2 DEF m, MAX_PAGES
    <3>2. PagesIn(buf)[n - f + 1] =
            [b \in 1 .. PAGE_SIZE_IN_BYTES |-> buf[16 * ((n - f + 1) - 1) + b]]
      BY <3>1 DEF PagesIn, PAGE_SIZE_IN_BYTES
    <3> QED
      BY <1>5, <2>1, <2>2, <3>2
  <2>3. CASE n \notin f .. f + m - 1
    <3>1. PageView(before)[n] =
            [b \in 1 .. PAGE_SIZE_IN_BYTES |-> ByteAt(before, 16 * n + b - 1)]
      BY DEF PageView, PAGE_SIZE_IN_BYTES
    <3> QED
      BY <1>5, <2>1, <2>3, <3>1
  <2> QED
    BY <2>2, <2>3
<1>7. PageView(word) = [n \in 1 .. MAX_PAGES |-> PageView(word)[n]]
  BY DEF PageView
<1> QED
  BY <1>4, <1>6, <1>7 DEF WritePages, f

\* A finished read of whole pages.
LEMMA PagesRead ==
  ASSUME LoopState, PlaceInv, acc.kind = "read", WholePages, i = acc.len
  PROVE  \A n \in 1 .. Len(PagesIn(buf)) : PagesIn(buf)[n] = PageView(word)[FirstPage + n - 1]
<1> DEFINE f == FirstPage
           m == acc.len \div PAGE_SIZE_IN_BYTES
<1>1. acc.len \in Nat /\ Len(buf) = acc.len /\ acc.offset + acc.len <= 128
  BY DEF LoopState, TypeOK, LoopInv, Fits, WORDS
<1>2. f \in 1 .. MAX_PAGES /\ acc.offset = 16 * f
  BY PageOffset DEF PlaceInv, FirstPage
<1>3. m \in Nat /\ acc.len = 16 * m
  BY <1>1, WholeLength DEF WholePages
<1>4. Len(PagesIn(buf)) = m
  BY <1>1, <1>3 DEF PagesIn
<1> SUFFICES ASSUME NEW n \in 1 .. m PROVE PagesIn(buf)[n] = PageView(word)[f + n - 1]
  BY <1>4
<1>5. PagesIn(buf)[n] = [b \in 1 .. PAGE_SIZE_IN_BYTES |-> buf[16 * (n - 1) + b]]
  BY <1>1 DEF PagesIn, PAGE_SIZE_IN_BYTES
<1> HIDE DEF f, m
<1>6. f + n - 1 \in 1 .. MAX_PAGES
  BY <1>1, <1>2, <1>3 DEF MAX_PAGES
<1>7. PageView(word)[f + n - 1] =
        [b \in 1 .. PAGE_SIZE_IN_BYTES |-> ByteAt(word, 16 * (f + n - 1) + b - 1)]
  BY <1>6 DEF PageView, PAGE_SIZE_IN_BYTES
<1>8. ASSUME NEW b \in 1 .. PAGE_SIZE_IN_BYTES
      PROVE  buf[16 * (n - 1) + b] = ByteAt(word, 16 * (f + n - 1) + b - 1)
  <2>1. 16 * (n - 1) + b \in 1 .. i
    BY <1>3 DEF PAGE_SIZE_IN_BYTES
  <2>2. acc.offset + (16 * (n - 1) + b) - 1 = 16 * (f + n - 1) + b - 1
    BY <1>2, <1>3 DEF PAGE_SIZE_IN_BYTES, MAX_PAGES
  <2> QED
    BY <2>1, <2>2 DEF LoopState, ReadSoFar
<1> QED
  BY <1>5, <1>7, <1>8

\* A halfword call on the fields.
LEMMA HalfwordOfFields ==
  ASSUME NEW w \in Pram, NEW offset \in {8, 12, 14}, NEW h \in [1 .. 2 -> Byte]
  PROVE  FieldView(PutHalf(w, offset, h)) = write_command_halfword(FieldView(w), offset, Value(h))
<1> DEFINE p == PutHalf(w, offset, h)
<1>1. FieldOffsets = {4, 8, 12, 14}
  BY DEF FieldOffsets, ERROR_BITS_OFFSET, MAC_LENGTH_OFFSET, MAC_MESSAGE_LENGTH_OFFSET,
         PAGE_LENGTH_OFFSET
<1>2. /\ \A k \in Bytes : k \notin {offset, offset + 1} => ByteAt(p, k) = ByteAt(w, k)
      /\ offset = 14 => ByteAt(p, 14) = h[1] /\ ByteAt(p, 14 + 1) = h[2]
      /\ offset # 14 => ByteAt(p, offset) = 0 /\ ByteAt(p, offset + 1) = 0
  BY PutHalfFacts
<1> HIDE DEF p
<1>3. ASSUME NEW o \in {4, 8, 12, 14}, o # offset
      PROVE  ByteAt(p, o) = ByteAt(w, o) /\ ByteAt(p, o + 1) = ByteAt(w, o + 1)
  BY <1>2, <1>3 DEF Bytes, WORDS
<1>4. Value(<<ByteAt(p, offset), ByteAt(p, offset + 1)>>) =
        IF offset % 4 = 2 THEN Value(h) ELSE 0
  <2>1. CASE offset = 14
    BY <1>2, <2>1 DEF Value
  <2>2. CASE offset # 14
    BY <1>2, <2>2 DEF Value
  <2> QED
    BY <2>1, <2>2
<1>5. ASSUME NEW o \in {4, 8, 12, 14}
      PROVE  Value(<<ByteAt(p, o), ByteAt(p, o + 1)>>) =
               IF o = offset THEN (IF offset % 4 = 2 THEN Value(h) ELSE 0)
               ELSE Value(<<ByteAt(w, o), ByteAt(w, o + 1)>>)
  BY <1>3, <1>4
<1>6. FieldView(p) = write_command_halfword(FieldView(w), offset, Value(h))
  BY <1>1, <1>5 DEF FieldView, write_command_halfword
<1> QED
  BY <1>6 DEF p

LEMMA TwoHalves ==
  ASSUME NEW u \in Nat, u < 65536, NEW l \in Nat, l < 65536
  PROVE  ((65536 * u + l) \div 65536) % 65536 = u /\ (65536 * u + l) % 65536 = l
<1>1. (65536 * u + l) \div 65536 = u /\ (65536 * u + l) % 65536 = l
  OBVIOUS
<1>2. u % 65536 = u
  OBVIOUS
<1> QED
  BY <1>1, <1>2

\* A word call, as two halfword calls.
LEMMA WordOfFields ==
  ASSUME EightBits, NEW w \in Pram, NEW upper \in [1 .. 2 -> Byte], NEW lower \in [1 .. 2 -> Byte]
  PROVE  FieldView(PutHalf(PutHalf(w, 12, upper), 14, lower)) =
           write_command_words(FieldView(w), 12, HALFWORD * Value(upper) + Value(lower))
<1> DEFINE u == Value(upper)
           l == Value(lower)
<1>1. u \in Nat /\ u < 65536 /\ l \in Nat /\ l < 65536
  <2>1. \A k \in 1 .. 2 : upper[k] \in Nat /\ upper[k] < 256 /\ lower[k] \in Nat /\ lower[k] < 256
    BY DEF EightBits
  <2>2. /\ upper[1] \in Nat /\ upper[1] < 256 /\ upper[2] \in Nat /\ upper[2] < 256
        /\ lower[1] \in Nat /\ lower[1] < 256 /\ lower[2] \in Nat /\ lower[2] < 256
    BY <2>1
  <2> QED
    BY ONLY <2>2 DEF Value
<1> HIDE DEF u, l
<1>2. /\ ((HALFWORD * u + l) \div HALFWORD) % HALFWORD = u
      /\ (HALFWORD * u + l) % HALFWORD = l
  BY <1>1, TwoHalves DEF HALFWORD
<1>3. /\ PutHalf(w, 12, upper) \in Pram
      /\ FieldView(PutHalf(w, 12, upper)) = write_command_halfword(FieldView(w), 12, u)
  BY PutHalfFacts, HalfwordOfFields DEF u
<1>4. FieldView(PutHalf(PutHalf(w, 12, upper), 14, lower)) =
        write_command_halfword(FieldView(PutHalf(w, 12, upper)), 14, l)
  BY <1>3, HalfwordOfFields DEF l
<1>5. write_command_words(FieldView(w), 12, HALFWORD * u + l) =
        write_command_halfword(write_command_halfword(FieldView(w), 12, u), 14, l)
  BY <1>2 DEF write_command_words
<1> QED
  BY <1>3, <1>4, <1>5 DEF u, l

\* A finished copy of any length has every byte in its place.
LEMMA EveryByteCopied ==
  ASSUME LoopState, acc.kind \in {"write", "read"}, i = acc.len
  PROVE  \A k \in 1 .. acc.len : ByteAt(word, acc.offset + k - 1) = buf[k]
<1>1. acc.offset \in Nat /\ acc.len \in Nat /\ acc.offset + acc.len <= 4 * WORDS
  BY DEF LoopState, TypeOK, LoopInv, Fits
<1>2. SUFFICES ASSUME NEW k \in 1 .. acc.len
               PROVE  ByteAt(word, acc.offset + k - 1) = buf[k]
  OBVIOUS
<1>3. /\ acc.offset + k - 1 \in Bytes
      /\ acc.offset + k - 1 \in acc.offset .. acc.offset + i - 1
      /\ (acc.offset + k - 1) - acc.offset + 1 = k
  BY <1>1, <1>2 DEF Bytes, WORDS
<1>4. CASE acc.kind = "write"
  BY <1>3, <1>4 DEF LoopState, WrittenSoFar
<1>5. CASE acc.kind = "read"
  BY <1>2, <1>5 DEF LoopState, ReadSoFar
<1> QED
  BY <1>4, <1>5

\* The calls on fields are over at once.
LEMMA FieldsKeepWindowInv ==
  ASSUME EightBits, WindowInv, LoopState',
         \/ \E h \in Halfword :
              \E offset \in {PAGE_LENGTH_OFFSET, MAC_LENGTH_OFFSET} :
                write_command_halfword_at(offset, h)
         \/ \E upper, lower \in Halfword :
              write_command_words_at(MAC_MESSAGE_LENGTH_OFFSET, upper, lower)
         \/ \E offset \in {ERROR_BITS_OFFSET, 20} : read_command_halfword(offset)
  PROVE  WindowInv'
<1>1. word \in Pram /\ Halfword \subseteq [1 .. 2 -> Byte]
  BY PramAssumption DEF WindowInv, LoopState, TypeOK, Pram
<1>2. ASSUME NEW h \in Halfword, NEW offset \in {14, 8}, write_command_halfword_at(offset, h)
      PROVE  PlaceInv' /\ WindowOps'
  <2>1. /\ acc' = [kind |-> "halfword", offset |-> offset, len |-> 2] /\ before' = word
        /\ word' = PutHalf(word, offset, h) /\ buf' = h
    BY <1>2 DEF write_command_halfword_at, Begin
  <2>2. FieldView(word') = write_command_halfword(FieldView(before'), offset, Value(h))
    BY <1>1, <2>1, HalfwordOfFields
  <2> QED
    BY <2>1, <2>2 DEF PlaceInv, WindowOps
<1>3. ASSUME NEW upper \in Halfword, NEW lower \in Halfword,
             write_command_words_at(12, upper, lower)
      PROVE  PlaceInv' /\ WindowOps'
  <2>1. /\ acc' = [kind |-> "words", offset |-> 12, len |-> 4] /\ before' = word
        /\ word' = PutHalf(PutHalf(word, 12, upper), 14, lower) /\ buf' = upper \o lower
    BY <1>3 DEF write_command_words_at, Begin
  <2>2. upper \in Seq(Byte) /\ lower \in Seq(Byte) /\ Len(upper) = 2 /\ Len(lower) = 2
    BY <1>1, HalfwordIsSeq
  <2>3. /\ upper \o lower \in Seq(Byte) /\ Len(upper \o lower) = 4
        /\ \A k \in 1 .. 4 : (upper \o lower)[k] = IF k <= 2 THEN upper[k] ELSE lower[k - 2]
    <3>1. /\ upper \o lower \in Seq(Byte) /\ Len(upper \o lower) = Len(upper) + Len(lower)
          /\ \A k \in 1 .. Len(upper) + Len(lower) :
               (upper \o lower)[k] = IF k <= Len(upper) THEN upper[k] ELSE lower[k - Len(upper)]
      BY <2>2, ConcatProperties
    <3>2. Len(upper) + Len(lower) = 4
      BY <2>2
    <3> QED
      BY <2>2, <3>1, <3>2
  <2>4. /\ Value(SubSeq(upper \o lower, 1, 2)) = Value(upper)
        /\ Value(SubSeq(upper \o lower, 3, 4)) = Value(lower)
    <3> DEFINE c == upper \o lower
    <3>1. /\ c[1] = upper[1] /\ c[2] = upper[2] /\ c[3] = lower[1] /\ c[4] = lower[2]
          /\ \A k \in 1 .. 4 : c[k] \in Byte
      BY <2>2, <2>3
    <3> HIDE DEF c
    <3>2. /\ \A k \in 1 .. 2 : SubSeq(c, 1, 2)[k] = c[1 + k - 1]
          /\ \A k \in 1 .. 2 : SubSeq(c, 3, 4)[k] = c[3 + k - 1]
      <4>1. \A k \in 1 .. 2 - 1 + 1 : SubSeq(c, 1, 2)[k] = c[1 + k - 1]
        BY <3>1, SubSeqProperties
      <4>2. \A k \in 1 .. 4 - 3 + 1 : SubSeq(c, 3, 4)[k] = c[3 + k - 1]
        BY <3>1, SubSeqProperties
      <4> QED
        BY <4>1, <4>2
    <3>3. /\ SubSeq(c, 1, 2)[1] = upper[1] /\ SubSeq(c, 1, 2)[2] = upper[2]
          /\ SubSeq(c, 3, 4)[1] = lower[1] /\ SubSeq(c, 3, 4)[2] = lower[2]
      BY <3>1, <3>2
    <3> QED
      BY <3>3 DEF Value, c
  <2>5. FieldView(word') =
          write_command_words(FieldView(before'), 12, HALFWORD * Value(upper) + Value(lower))
    BY <1>1, <2>1, WordOfFields
  <2> QED
    BY <2>1, <2>4, <2>5 DEF PlaceInv, WindowOps
<1>4. ASSUME NEW offset \in {4, 20}, read_command_halfword(offset)
      PROVE  PlaceInv' /\ WindowOps'
  <2>1. /\ acc' = [kind |-> "read_halfword", offset |-> offset, len |-> 2] /\ word' = word
        /\ buf' = <<word[offset \div 4][0], word[offset \div 4][1]>>
    BY <1>4 DEF read_command_halfword, Begin
  <2>2. offset \in FieldOffsets => Value(buf') = FieldView(word')[offset]
    <3>1. offset \in FieldOffsets => offset = 4
      BY DEF FieldOffsets, ERROR_BITS_OFFSET, MAC_LENGTH_OFFSET, MAC_MESSAGE_LENGTH_OFFSET,
             PAGE_LENGTH_OFFSET
    <3>2. offset = 4 => buf' = <<ByteAt(word', 4), ByteAt(word', 4 + 1)>>
      BY <2>1 DEF ByteAt
    <3> QED
      BY <3>1, <3>2 DEF FieldView
  <2> QED
    BY <2>1, <2>2 DEF PlaceInv, WindowOps
<1> QED
  BY <1>2, <1>3, <1>4 DEF WindowInv, PAGE_LENGTH_OFFSET, MAC_LENGTH_OFFSET,
     MAC_MESSAGE_LENGTH_OFFSET, ERROR_BITS_OFFSET

\* A copy is WindowOps when it ends, and says nothing before.
LEMMA CopiesKeepWindowInv ==
  ASSUME WindowInv, LoopState',
         \/ \E offset \in PageOffsets, b \in Buffers :
              Fits(offset, Len(b)) /\ write_command_bytes(offset, b)
         \/ \E offset \in PageOffsets, len \in Lengths :
              Fits(offset, len) /\ read_command_bytes(offset, len)
         \/ Copy
  PROVE  WindowInv'
<1>1. CASE \/ \E offset \in PageOffsets, b \in Buffers :
                Fits(offset, Len(b)) /\ write_command_bytes(offset, b)
           \/ \E offset \in PageOffsets, len \in Lengths :
                Fits(offset, len) /\ read_command_bytes(offset, len)
  <2>1. acc'.offset \in PageOffsets /\ pc' \in {"write", "read"}
    BY <1>1 DEF write_command_bytes, read_command_bytes, Begin
  <2> QED
    BY <2>1 DEF WindowInv, PlaceInv, WindowOps
<1>2. CASE write_word \/ write_command_byte \/ read_word \/ read_command_byte
  <2>1. pc' # "idle" /\ acc' = acc
    BY <1>2 DEF write_word, write_command_byte, read_word, read_command_byte, Unreachable
  <2> QED
    BY <2>1 DEF WindowInv, PlaceInv, WindowOps
<1>3. CASE finish_copy
  <2>1. i = acc.len /\ acc.kind \in {"write", "read"} /\ UNCHANGED <<word, before, acc, buf, i>>
    BY <1>3 DEF finish_copy, WindowInv, LoopState, LoopInv, TypeOK
  <2>2. acc.kind = "write" /\ WholePages =>
          PageView(word) = WritePages(PageView(before), FirstPage, PagesIn(buf))
    BY <2>1, PagesWritten DEF WindowInv
  <2>3. acc.kind = "read" /\ WholePages =>
          \A n \in 1 .. Len(PagesIn(buf)) : PagesIn(buf)[n] = PageView(word)[FirstPage + n - 1]
    BY <2>1, PagesRead DEF WindowInv
  <2>4. \A k \in 1 .. acc.len : ByteAt(word, acc.offset + k - 1) = buf[k]
    BY <2>1, EveryByteCopied DEF WindowInv
  <2> QED
    BY <2>1, <2>2, <2>3, <2>4 DEF WindowInv, PlaceInv, WindowOps, WholePages, FirstPage
<1> QED
  BY <1>1, <1>2, <1>3 DEF Copy

\* A copy of any length has every byte in its place; on whole pages and on the fields,
\* the loops over words and bytes are the operators that
\* CSEc uses for them, wherever the pages are and whatever PRAM held (csec.rs:551-563,
\* :581-633).
THEOREM AlwaysWindowOps == ASSUME EightBits PROVE Spec => []WindowOps
<1>1. Init => WindowInv
  BY LoopStateInit DEF Init, WindowInv, PlaceInv, WindowOps
<1>2. WindowInv /\ LoopState' /\ [Next]_vars => WindowInv'
  <2> SUFFICES ASSUME WindowInv, LoopState', [Next]_vars PROVE WindowInv'
    OBVIOUS
  <2>1. CASE Access
    BY <2>1, FieldsKeepWindowInv, CopiesKeepWindowInv DEF Access
  <2>2. CASE Copy
    BY <2>2, CopiesKeepWindowInv
  <2>3. CASE Halted \/ UNCHANGED vars
    BY <2>3 DEF Halted, vars, WindowInv, PlaceInv, WindowOps, WholePages, FirstPage
  <2> QED
    BY <2>1, <2>2, <2>3 DEF Next
<1>3. WindowInv => WindowOps
  BY DEF WindowInv
<1> QED
  BY <1>1, <1>2, <1>3, AlwaysLoopState, PTL DEF Spec
=============================================================================
