------------------------------- MODULE CsecPram -------------------------------
(***************************************************************************)
(* The accesses of csec.rs to CSE_PRAM: thirty-two 32-bit words behind     *)
(* loops that copy bytes, four at a time and then one at a time, and       *)
(* read-modify-write halfwords.  One action is one word of PRAM accessed   *)
(* by a loop, or one halfword call.  The calls are those the rest of       *)
(* csec.rs makes, with the offsets and lengths it makes them with.         *)
(***************************************************************************)
EXTENDS CsecWindow

CONSTANTS
  Byte,      \* contents of a byte
  Halfword,  \* pairs of bytes, big-endian
  Buffers,   \* the buffers written, sequences of bytes
  Lengths,   \* the lengths of buffers read
  Contents   \* what PRAM may hold at the start

WORDS == 32
Bytes == 0 .. 4 * WORDS - 1

ASSUME PramAssumption ==
  /\ 0 \in Byte
  /\ Halfword \subseteq [1 .. 2 -> Byte]
  /\ Buffers \subseteq Seq(Byte)
  /\ Lengths \subseteq Nat
  /\ Contents \subseteq [0 .. WORDS - 1 -> [0 .. 3 -> Byte]]

VARIABLES
  word,    \* PRAM: word number -> its four bytes, in big-endian order
  before,  \* PRAM when the current or last call was made
  acc,     \* that call: its kind, its offset and its length
  buf,     \* the buffer it writes from or reads into
  i,       \* bytes copied so far
  pc       \* "idle", "write", "read", "panicked"

vars == <<word, before, acc, buf, i, pc>>

Init ==
  /\ word \in Contents
  /\ before = word
  /\ acc = [kind |-> "none", offset |-> 0, len |-> 0]
  /\ buf = <<>>
  /\ i = 0
  /\ pc = "idle"

\* Byte k of PRAM.
ByteAt(w, k) == w[k \div 4][k % 4]

InPram(n) == n \in 0 .. WORDS - 1

Begin(kind, offset, len) ==
  /\ pc = "idle"
  /\ acc' = [kind |-> kind, offset |-> offset, len |-> len]
  /\ before' = word
  /\ i' = 0

\* A word number beyond the last is unreachable!(): a panic.
Unreachable ==
  /\ pc' = "panicked"
  /\ UNCHANGED <<word, before, acc, buf, i>>

-----------------------------------------------------------------------------
(* Copying bytes.                                                           *)

write_command_bytes(offset, b) ==
  /\ Begin("write", offset, Len(b))
  /\ buf' = b
  /\ pc' = "write"
  /\ UNCHANGED word

read_command_bytes(offset, len) ==
  /\ Begin("read", offset, len)
  /\ buf' = [k \in 1 .. len |-> 0]
  /\ pc' = "read"
  /\ UNCHANGED word

\* Mutant: the offset is taken for a word number.
Here_in_words == 4 * acc.offset + i
Here == acc.offset + i
AtLeastFour == i + 3 < acc.len

write_word ==
  /\ pc = "write" /\ AtLeastFour
  /\ IF InPram(Here \div 4)
       THEN /\ word' = [word EXCEPT ![Here \div 4] = [b \in 0 .. 3 |-> buf[i + 1 + b]]]
            /\ i' = i + 4
            /\ UNCHANGED <<before, acc, buf, pc>>
       ELSE Unreachable

\* Mutant: the tail overwrites the rest of its word.
write_command_byte_whole ==
  /\ pc = "write" /\ ~AtLeastFour /\ i < acc.len
  /\ IF InPram(Here \div 4)
       THEN /\ word' = [word EXCEPT ![Here \div 4] =
                          [b \in 0 .. 3 |-> IF b = Here % 4 THEN buf[i + 1] ELSE 0]]
            /\ i' = i + 1
            /\ UNCHANGED <<before, acc, buf, pc>>
       ELSE Unreachable

write_command_byte ==
  /\ pc = "write" /\ ~AtLeastFour /\ i < acc.len
  /\ IF InPram(Here \div 4)
       THEN /\ word' = [word EXCEPT ![Here \div 4] = [@ EXCEPT ![Here % 4] = buf[i + 1]]]
            /\ i' = i + 1
            /\ UNCHANGED <<before, acc, buf, pc>>
       ELSE Unreachable

read_word ==
  /\ pc = "read" /\ AtLeastFour
  /\ IF InPram(Here \div 4)
       THEN /\ buf' = [k \in 1 .. Len(buf) |->
                         IF k \in i + 1 .. i + 4 THEN word[Here \div 4][k - i - 1]
                                                 ELSE buf[k]]
            /\ i' = i + 4
            /\ UNCHANGED <<word, before, acc, pc>>
       ELSE Unreachable

\* Mutant: the tail loop does not count.
read_command_byte_stuck ==
  /\ pc = "read" /\ ~AtLeastFour /\ i < acc.len
  /\ buf' = [buf EXCEPT ![i + 1] = word[Here \div 4][Here % 4]]
  /\ UNCHANGED <<word, before, acc, i, pc>>

read_command_byte ==
  /\ pc = "read" /\ ~AtLeastFour /\ i < acc.len
  /\ IF InPram(Here \div 4)
       THEN /\ buf' = [buf EXCEPT ![i + 1] = word[Here \div 4][Here % 4]]
            /\ i' = i + 1
            /\ UNCHANGED <<word, before, acc, pc>>
       ELSE Unreachable

\* Mutant: a copy has no loop for its tail.
finish_copy_early ==
  /\ pc \in {"write", "read"} /\ ~AtLeastFour
  /\ pc' = "idle"
  /\ UNCHANGED <<word, before, acc, buf, i>>

finish_copy ==
  /\ pc \in {"write", "read"} /\ i >= acc.len
  /\ pc' = "idle"
  /\ UNCHANGED <<word, before, acc, buf, i>>

-----------------------------------------------------------------------------
(* Halfwords.                                                               *)

\* Mutant: no mask on the way to a byte.
PutHalf_unmasked(w, offset, h) ==
  [w EXCEPT ![offset \div 4] =
     IF offset % 4 >= 2 THEN [@ EXCEPT ![2] = h[1], ![3] = 256 * h[1] + h[2]]
                        ELSE [@ EXCEPT ![0] = 0, ![1] = 0]]

\* The upper branch shifts by LOWER_HALF_SHIFT: what is left under
\* UPPER_HALF_MASK is 0.
PutHalf(w, offset, h) ==
  [w EXCEPT ![offset \div 4] =
     IF offset % 4 >= 2 THEN [@ EXCEPT ![2] = h[1], ![3] = h[2]]
                        ELSE [@ EXCEPT ![0] = 0, ![1] = 0]]

write_command_halfword_at(offset, h) ==
  /\ Begin("halfword", offset, 2)
  /\ word' = PutHalf(word, offset, h)
  /\ buf' = h
  /\ UNCHANGED pc

\* A word, given as its upper and its lower half.
write_command_words_at(offset, upper, lower) ==
  /\ Begin("words", offset, 4)
  /\ word' = PutHalf(PutHalf(word, offset, upper), offset + 2, lower)
  /\ buf' = upper \o lower
  /\ UNCHANGED pc

read_command_halfword(offset) ==
  /\ Begin("read_halfword", offset, 2)
  /\ buf' = IF offset % 4 >= 2 THEN <<word[offset \div 4][2], word[offset \div 4][3]>>
                               ELSE <<word[offset \div 4][0], word[offset \div 4][1]>>
  /\ i' = 2
  /\ UNCHANGED <<word, pc>>

-----------------------------------------------------------------------------

PageOffsets == {16 * n : n \in 1 .. MAX_PAGES}
Fits(offset, len) == offset + len <= 4 * WORDS

Access ==
  \/ \E offset \in PageOffsets, b \in Buffers :
       Fits(offset, Len(b)) /\ write_command_bytes(offset, b)
  \/ \E offset \in PageOffsets, len \in Lengths :
       Fits(offset, len) /\ read_command_bytes(offset, len)
  \/ \E h \in Halfword :
       \E offset \in {PAGE_LENGTH_OFFSET, MAC_LENGTH_OFFSET} :
         write_command_halfword_at(offset, h)
  \/ \E upper, lower \in Halfword :
       write_command_words_at(MAC_MESSAGE_LENGTH_OFFSET, upper, lower)
  \/ \E offset \in {ERROR_BITS_OFFSET, 20} : read_command_halfword(offset)

Copy ==
  \/ write_word \/ write_command_byte \/ read_word \/ read_command_byte \/ finish_copy

Halted == pc = "panicked" /\ UNCHANGED vars

Next == Access \/ Copy \/ Halted

Spec == Init /\ [][Next]_vars
FairSpec == Spec /\ WF_vars(Copy)

-----------------------------------------------------------------------------
(* Properties.                                                              *)

Kinds == {"none", "write", "read", "halfword", "words", "read_halfword"}

TypeOK ==
  /\ word \in [0 .. WORDS - 1 -> [0 .. 3 -> Byte]]
  /\ before \in [0 .. WORDS - 1 -> [0 .. 3 -> Byte]]
  /\ acc \in [kind : Kinds, offset : Nat, len : Nat]
  /\ buf \in Seq(Byte)
  /\ i \in Nat
  /\ pc \in {"idle", "write", "read", "panicked"}

\* No access of the driver goes past the last word of PRAM, where read_pram and
\* write_pram reach unreachable!() ("ensure we don't write past available pages",
\* csec.rs:597, 619).
InPages == pc # "panicked"

Span(a) == a.offset .. a.offset + a.len - 1
Writes == {"write", "halfword", "words"}

\* An access changes no byte but its own, at no point of its loop: the words it
\* writes only in part keep their other bytes, a read changes nothing
\* (csec.rs:551-563, 581-592).
OnlyItsBytes ==
  \A k \in Bytes :
    ByteAt(word, k) # ByteAt(before, k) => acc.kind \in Writes /\ k \in Span(acc)

PageView(w) ==
  [n \in 1 .. MAX_PAGES |-> [b \in 1 .. PAGE_SIZE_IN_BYTES |->
     ByteAt(w, PAGE_SIZE_IN_BYTES * n + b - 1)]]
PagesIn(b) ==
  [n \in 1 .. Len(b) \div PAGE_SIZE_IN_BYTES |-> [k \in 1 .. PAGE_SIZE_IN_BYTES |->
     b[PAGE_SIZE_IN_BYTES * (n - 1) + k]]]
Value(h) == 256 * h[1] + h[2]
FieldView(w) == [o \in FieldOffsets |-> Value(<<ByteAt(w, o), ByteAt(w, o + 1)>>)]

FirstPage == acc.offset \div PAGE_SIZE_IN_BYTES
WholePages == acc.len % PAGE_SIZE_IN_BYTES = 0

\* What CSEc takes these accesses for: a copy of any length has every byte in its place,
\* those of the tail included (csec.rs:608-613, :630-633); a write of whole pages is
\* WritePages, a read of whole pages returns those pages, a halfword or word call is the
\* operator of CsecWindow on the fields, and a halfword read is the field.
WindowOps ==
  pc = "idle" =>
    /\ acc.kind \in {"write", "read"} =>
         \A k \in 1 .. acc.len : ByteAt(word, acc.offset + k - 1) = buf[k]
    /\ acc.kind = "write" /\ WholePages =>
         PageView(word) = WritePages(PageView(before), FirstPage, PagesIn(buf))
    /\ acc.kind = "read" /\ WholePages =>
         \A n \in 1 .. Len(PagesIn(buf)) : PagesIn(buf)[n] = PageView(word)[FirstPage + n - 1]
    /\ acc.kind = "halfword" =>
         FieldView(word) = write_command_halfword(FieldView(before), acc.offset, Value(buf))
    /\ acc.kind = "words" =>
         FieldView(word) =
           write_command_words(FieldView(before), acc.offset,
                               HALFWORD * Value(SubSeq(buf, 1, 2)) + Value(SubSeq(buf, 3, 4)))
    /\ acc.kind = "read_halfword" /\ acc.offset \in FieldOffsets =>
         Value(buf) = FieldView(word)[acc.offset]

\* Every copy ends, whatever its length modulo four (csec.rs:600-613, 622-633).
CopiesEnd == pc # "idle" ~> pc = "idle"

\* The inductive invariant: how far the loop is, and that i stays on the boundary of
\* a word while four bytes are left.
WrittenSoFar ==
  acc.kind = "write" =>
    \A k \in Bytes :
      ByteAt(word, k) = IF k \in acc.offset .. acc.offset + i - 1
                          THEN buf[k - acc.offset + 1] ELSE ByteAt(before, k)
ReadSoFar ==
  acc.kind = "read" =>
    word = before /\ \A k \in 1 .. i : buf[k] = ByteAt(word, acc.offset + k - 1)
LoopInv ==
  /\ pc = "write" => acc.kind = "write"
  /\ pc = "read" => acc.kind = "read"
  /\ acc.kind \in {"write", "read"} =>
       /\ acc.offset % 4 = 0 /\ Fits(acc.offset, acc.len)
       /\ Len(buf) = acc.len /\ i <= acc.len
       /\ AtLeastFour => i % 4 = 0
=============================================================================
