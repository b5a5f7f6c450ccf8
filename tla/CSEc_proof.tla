------------------------------ MODULE CSEc_proof ------------------------------
(* Proofs about CSEc, for every set of calls whose lengths fit the halfword     *)
(* they are written to, messages of any contents, and any engine.               *)
EXTENDS CsecClient, TLAPS, SequenceTheorems

ShortCalls == \A c \in Calls : Short(c)

-----------------------------------------------------------------------------
(* Sequences and lengths.                                                       *)

LEMMA PrefixIsSeq ==
  ASSUME NEW S, NEW s \in Seq(S), NEW p \in Nat, p <= Len(s)
  PROVE  SubSeq(s, 1, p) \in Seq(S) /\ Len(SubSeq(s, 1, p)) = p
  OBVIOUS

\* The first p elements followed by the next n are the first p + n.
LEMMA SubSeqConcat ==
  ASSUME NEW S, NEW s \in Seq(S), NEW p \in Nat, NEW n \in Nat, p + n <= Len(s)
  PROVE  SubSeq(s, 1, p) \o [i \in 1 .. n |-> s[p + i]] = SubSeq(s, 1, p + n)
<1> DEFINE a == SubSeq(s, 1, p)
           b == [i \in 1 .. n |-> s[p + i]]
           c == SubSeq(s, 1, p + n)
<1>1. a \in Seq(S) /\ Len(a) = p /\ \A i \in 1 .. p : a[i] = s[i]
  OBVIOUS
<1>2. b \in Seq(S) /\ Len(b) = n /\ \A i \in 1 .. n : b[i] = s[p + i]
  OBVIOUS
<1>3. c \in Seq(S) /\ Len(c) = p + n /\ \A i \in 1 .. p + n : c[i] = s[i]
  OBVIOUS
<1> HIDE DEF a, b, c
<1>4. /\ a \o b \in Seq(S) /\ Len(a \o b) = p + n
      /\ \A i \in 1 .. p + n : (a \o b)[i] = IF i <= p THEN a[i] ELSE b[i - p]
  BY <1>1, <1>2, ConcatProperties
<1>5. ASSUME NEW i \in 1 .. p + n PROVE (a \o b)[i] = c[i]
  <2>1. CASE i <= p
    <3>1. i \in 1 .. p
      BY <2>1
    <3> QED
      BY <1>1, <1>3, <1>4, <2>1, <3>1
  <2>2. CASE ~(i <= p)
    <3>1. i - p \in 1 .. n /\ p + (i - p) = i
      BY <2>2
    <3> QED
      BY <1>2, <1>3, <1>4, <2>2, <3>1
  <2> QED
    BY <2>1, <2>2
<1>6. a \o b = c
  BY <1>3, <1>4, <1>5, SeqEqual
<1> QED
  BY <1>6 DEF a, b, c

\* A prefix of a prefix is a prefix.
LEMMA SubSeqSubSeq ==
  ASSUME NEW S, NEW s \in Seq(S), NEW p \in Nat, NEW q \in Nat, q <= p, p <= Len(s)
  PROVE  SubSeq(SubSeq(s, 1, p), 1, q) = SubSeq(s, 1, q)
<1> DEFINE a == SubSeq(s, 1, p)
<1>1. a \in Seq(S) /\ Len(a) = p /\ \A i \in 1 .. p : a[i] = s[i]
  OBVIOUS
<1> HIDE DEF a
<1>2. SubSeq(a, 1, q) \in Seq(S) /\ Len(SubSeq(a, 1, q)) = q
      /\ \A i \in 1 .. q : SubSeq(a, 1, q)[i] = s[i]
  BY <1>1
<1>3. SubSeq(s, 1, q) \in Seq(S) /\ Len(SubSeq(s, 1, q)) = q
      /\ \A i \in 1 .. q : SubSeq(s, 1, q)[i] = s[i]
  OBVIOUS
<1>4. SubSeq(a, 1, q) = SubSeq(s, 1, q)
  BY <1>2, <1>3
<1> QED
  BY <1>4 DEF a

\* A length in bits announces as many pages as the length in bytes fills.
LEMMA BitsToPages ==
  ASSUME NEW b \in Nat
  PROVE  /\ (8 * b + 127) \div 128 = PagesOf(b)
         /\ (8 * b) \div 8 = b
         /\ PagesOf(b) \in Nat
         /\ PagesOf(b) <= 8 * b
         /\ b % 16 = 0 => 16 * PagesOf(b) = b
         /\ b > 0 => PagesOf(b) > 0
  BY DEF PagesOf, PAGE_SIZE_IN_BYTES

-----------------------------------------------------------------------------
(* A round as the driver sees it, and as the engine sees it.                    *)

LEMMA HalfwordNat == HALFWORD \in Nat /\ HALFWORD > 2048
  BY DEF HALFWORD

\* What is known of the call in progress.
LEMMA CallFacts ==
  ASSUME Inductive, ShortCalls
  PROVE  /\ call \in Calls /\ call.op \in Commands /\ call.arg \in Page
         /\ call.msg.bytes \in Nat /\ call.room \in Nat
         /\ call.msg.page \in Seq(Page)
         /\ Len(call.msg.page) = PagesOf(call.msg.bytes)
         /\ Len(call.msg.page) \in Nat
         /\ 8 * call.msg.bytes < HALFWORD
  BY CallsAssumption DEF Inductive, TypeOK, ShortCalls, Short, IsMessage

\* The pages of a round lie within the input and within PRAM.
LEMMA RoundFacts ==
  ASSUME Inductive, ShortCalls, Busy
  PROVE  /\ PageOffset \in {1, 2}
         /\ RoundPages \in 0 .. MAX_PAGES + 1 - PageOffset
         /\ Remaining \in Nat
         /\ Remaining = Len(call.msg.page) - pos
         /\ RoundPages <= Remaining
         /\ RoundPages < Remaining => RoundPages = MAX_PAGES + 1 - PageOffset
         /\ pos \in Nat
         /\ pos + RoundPages \in Nat
         /\ pos + RoundPages <= Len(call.msg.page)
         /\ RoundInput \in Seq(Page)
         /\ Len(RoundInput) = RoundPages
         /\ \A i \in 1 .. RoundPages : RoundInput[i] = call.msg.page[pos + i]
<1> USE CallFacts
<1>1. pos \in Nat /\ pos <= Len(call.msg.page)
  BY DEF Inductive, TypeOK, CallInv
<1>2. PageOffset \in {1, 2}
  BY DEF PageOffset
<1>3. /\ RoundPages \in 0 .. MAX_PAGES + 1 - PageOffset
      /\ Remaining \in Nat
      /\ Remaining = Len(call.msg.page) - pos
      /\ RoundPages <= Remaining
      /\ RoundPages < Remaining => RoundPages = MAX_PAGES + 1 - PageOffset
      /\ pos + RoundPages <= Len(call.msg.page)
  BY <1>1, <1>2 DEF RoundPages, Remaining, AvailPages, MAX_PAGES
<1>4. /\ RoundInput \in Seq(Page)
      /\ Len(RoundInput) = RoundPages
      /\ \A i \in 1 .. RoundPages : RoundInput[i] = call.msg.page[pos + i]
  <2>1. \A i \in pos + 1 .. pos + RoundPages : call.msg.page[i] \in Page
    BY <1>1, <1>2, <1>3 DEF MAX_PAGES
  <2> DEFINE m == pos + 1
             n == pos + RoundPages
             p == call.msg.page
  <2>2. m \in Int /\ n \in Int /\ RoundPages \in Nat /\ n - m + 1 = RoundPages
    BY <1>1, <1>2, <1>3 DEF MAX_PAGES
  <2>3. \A i \in m .. n : p[i] \in Page
    BY <2>1
  <2>4. \A i \in 1 .. RoundPages : m + i - 1 = pos + i
    BY <1>1, <2>2
  <2>5. RoundInput = SubSeq(p, m, n)
    BY DEF RoundInput
  <2> HIDE DEF m, n, p
  <2>6. /\ SubSeq(p, m, n) \in Seq(Page)
        /\ Len(SubSeq(p, m, n)) = IF m <= n THEN n - m + 1 ELSE 0
        /\ \A i \in 1 .. n - m + 1 : SubSeq(p, m, n)[i] = p[m + i - 1]
    BY ONLY <2>2, <2>3, SubSeqProperties
  <2>7. Len(SubSeq(p, m, n)) = RoundPages
    BY <2>2, <2>6
  <2>8. \A i \in 1 .. RoundPages : SubSeq(p, m, n)[i] = p[pos + i]
    BY <2>2, <2>4, <2>6
  <2> QED
    BY <2>5, <2>6, <2>7, <2>8 DEF p
<1> QED
  BY <1>1, <1>2, <1>3, <1>4 DEF MAX_PAGES

\* What the engine takes is well-typed whatever it was sent.
LEMMA WindowTypes ==
  ASSUME TypeOK
  PROVE  /\ Base \in {1, 2}
         /\ Chain \in [cmd : Commands, iv : Page, fed : Seq(Page), left : Nat,
                       bits : Nat, open : BOOLEAN]
         /\ Take \in 0 .. MAX_PAGES + 1 - Base
         /\ Take <= Chain.left
         /\ Fed \in Seq(Page)
         /\ Len(Fed) = Len(Chain.fed) + Take
<1>0. /\ command \in [cmd : Commands, seq : {"First", "Subsequent"}]
      /\ field \in [FieldOffsets -> 0 .. HALFWORD - 1]
      /\ pram \in [1 .. MAX_PAGES -> Page]
      /\ job \in [cmd : Commands, iv : Page, fed : Seq(Page), left : Nat,
                  bits : Nat, open : BOOLEAN]
  BY DEF TypeOK, DeviceTypeOK
<1>1. Base \in {1, 2}
  BY DEF Base
<1>2. MessageBits \in Nat /\ Announced \in Nat
  <2>1. field[MAC_MESSAGE_LENGTH_OFFSET] \in Nat /\ field[PAGE_LENGTH_OFFSET] \in Nat
    BY <1>0, HalfwordNat DEF FieldOffsets
  <2>2. MessageBits \in Nat
    BY <2>1, HalfwordNat DEF MessageBits
  <2>3. (MessageBits + 127) \div 128 \in Nat
    BY <2>2
  <2> QED
    BY <2>1, <2>2, <2>3 DEF Announced
<1>3. Chain \in [cmd : Commands, iv : Page, fed : Seq(Page), left : Nat,
                 bits : Nat, open : BOOLEAN]
  BY <1>0, <1>2 DEF Chain, MAX_PAGES
<1>4. Take \in 0 .. MAX_PAGES + 1 - Base /\ Take <= Chain.left
  BY <1>1, <1>3 DEF Take, MAX_PAGES
<1>5. /\ [i \in 1 .. Take |-> pram[Base + i - 1]] \in Seq(Page)
      /\ Len([i \in 1 .. Take |-> pram[Base + i - 1]]) = Take
  <2>1. \A i \in 1 .. Take : pram[Base + i - 1] \in Page
    BY <1>0, <1>1, <1>4 DEF MAX_PAGES
  <2> QED
    BY <1>1, <1>4, <2>1 DEF MAX_PAGES
<1>6. Fed \in Seq(Page) /\ Len(Fed) = Len(Chain.fed) + Take
  <2> DEFINE window == [i \in 1 .. Take |-> pram[Base + i - 1]]
             sent == Chain.fed
  <2>1. sent \in Seq(Page) /\ window \in Seq(Page) /\ Len(window) = Take
    BY <1>3, <1>5
  <2>2. Fed = sent \o window
    BY DEF Fed
  <2> HIDE DEF window, sent
  <2>3. sent \o window \in Seq(Page) /\ Len(sent \o window) = Len(sent) + Len(window)
    BY <2>1, ConcatProperties
  <2>4. Fed \in Seq(Page) /\ Len(Fed) = Len(sent) + Take
    BY <2>1, <2>2, <2>3
  <2> QED
    BY <2>4 DEF sent
<1> QED
  BY <1>1, <1>3, <1>4, <1>6

LEMMA ModHalfword ==
  ASSUME NEW x \in Nat, x < HALFWORD
  PROVE  x % HALFWORD = x /\ (x \div HALFWORD) % HALFWORD = 0
  BY DEF HALFWORD

\* In a round of a CBC or MAC call the engine takes what the driver put there.  The
\* one exception is an empty CBC input: the length field says one page, and the
\* engine takes whatever page 2 holds.
LEMMA WindowIsRound ==
  ASSUME Inductive, ShortCalls, ~ccif, call.op \in Cbc \cup Mac
  PROVE  /\ Base = PageOffset
         /\ Chain.cmd = call.op
         /\ Chain.fed = SubSeq(call.msg.page, 1, pos)
         /\ Len(Chain.fed) = pos
         /\ call.op \in Cbc => Chain.iv = call.arg
         /\ call.op \in Mac => Chain.bits = 8 * call.msg.bytes
         /\ call.op \in Mac \/ Len(call.msg.page) > 0 =>
              /\ Chain.left = Remaining
              /\ Take = RoundPages
              /\ Fed = SubSeq(call.msg.page, 1, pos + RoundPages)
<1> USE CallFacts
<1>1. Busy /\ pc = "wait"
  BY DEF Inductive, StartedInv, Busy
<1>2. TypeOK
  BY DEF Inductive
<1>3. /\ command = [cmd |-> call.op, seq |-> sequence]
      /\ sequence = "Subsequent" => EngineAt(pos)
      /\ sequence = "First" /\ call.op \in Cbc => pram[1] = call.arg
      /\ \A i \in 1 .. RoundPages : pram[PageOffset + i - 1] = call.msg.page[pos + i]
      /\ sequence = "First" => pos = 0
      /\ FieldsAnnounce
      /\ sequence \in {"First", "Subsequent"}
  BY <1>1, <1>2 DEF Inductive, StartedInv, CallInv, TypeOK
<1>4. Base = PageOffset
  BY <1>3 DEF Base, PageOffset, IsFirst
<1>5. SubSeq(call.msg.page, 1, pos) \in Seq(Page) /\ Len(SubSeq(call.msg.page, 1, pos)) = pos
  <2> DEFINE p == call.msg.page
  <2>1. p \in Seq(Page) /\ pos \in Nat /\ pos <= Len(p)
    BY <1>1 DEF Inductive, TypeOK, CallInv
  <2> HIDE DEF p
  <2>2. SubSeq(p, 1, pos) \in Seq(Page) /\ Len(SubSeq(p, 1, pos)) = pos
    BY ONLY <2>1, PrefixIsSeq
  <2> QED
    BY ONLY <2>2 DEF p
<1>6. /\ Chain.cmd = call.op
      /\ Chain.fed = SubSeq(call.msg.page, 1, pos)
      /\ call.op \in Cbc => Chain.iv = call.arg
      /\ call.op \in Mac => Chain.bits = 8 * call.msg.bytes
      /\ call.op \in Mac \/ Len(call.msg.page) > 0 => Chain.left = Remaining
  <2>1. CASE sequence = "First"
    <3>1. Chain = [cmd |-> call.op, iv |-> pram[1], fed |-> <<>>,
                   left |-> Announced, bits |-> MessageBits, open |-> TRUE]
      BY <1>3, <2>1 DEF Chain, IsFirst
    <3>2. SubSeq(call.msg.page, 1, pos) = <<>>
      BY <1>3, <1>5, <2>1
    <3>3. call.op \in Mac => call.op \notin Cbc
      BY DEF Mac, Cbc
    <3>4. call.op \in Mac => Announced = Len(call.msg.page)
      BY <1>3, <3>3, BitsToPages DEF Announced, FieldsAnnounce
    <3>5. call.op \in Cbc /\ Len(call.msg.page) > 0 => Announced = Len(call.msg.page)
      BY <1>3 DEF Announced, FieldsAnnounce, AtLeastOne
    <3>6. Remaining = Len(call.msg.page)
      BY <1>1, <1>3, <2>1, RoundFacts
    <3> QED
      BY <1>3, <2>1, <3>1, <3>2, <3>4, <3>5, <3>6 DEF FieldsAnnounce
  <2>2. CASE sequence = "Subsequent"
    <3>1. Chain = job
      BY <1>3, <2>2 DEF Chain, IsFirst
    <3> QED
      BY <1>1, <1>3, <2>2, <3>1, RoundFacts DEF EngineAt
  <2> QED
    BY <1>3, <2>1, <2>2
<1>7. ASSUME call.op \in Mac \/ Len(call.msg.page) > 0
      PROVE  Take = RoundPages /\ Fed = SubSeq(call.msg.page, 1, pos + RoundPages)
  <2>1. Take = RoundPages
    <3>1. Chain.left = Remaining /\ Remaining \in Nat
      BY <1>1, <1>6, <1>7, RoundFacts
    <3>2. PageOffset \in {1, 2}
      BY DEF PageOffset
    <3> QED
      BY <1>4, <3>1, <3>2 DEF Take, RoundPages, AvailPages, MAX_PAGES
  <2>2. [i \in 1 .. Take |-> pram[Base + i - 1]]
          = [i \in 1 .. RoundPages |-> call.msg.page[pos + i]]
    BY <1>3, <1>4, <2>1
  <2>3. SubSeq(call.msg.page, 1, pos) \o [i \in 1 .. RoundPages |-> call.msg.page[pos + i]]
          = SubSeq(call.msg.page, 1, pos + RoundPages)
    <3>1. pos \in Nat /\ RoundPages \in Nat /\ pos + RoundPages <= Len(call.msg.page)
      BY <1>1, RoundFacts DEF MAX_PAGES
    <3>2. call.msg.page \in Seq(Page)
      OBVIOUS
    <3> HIDE CallFacts
    <3> QED
      BY <3>1, <3>2, SubSeqConcat
  <2> QED
    BY <1>6, <2>1, <2>2, <2>3 DEF Fed
<1> QED
  BY <1>4, <1>5, <1>6, <1>7

-----------------------------------------------------------------------------
(* The invariant is inductive: the initial states.                              *)

LEMMA InductiveInit == Init => Inductive
<1> SUFFICES ASSUME Init PROVE Inductive
  OBVIOUS
<1> USE DEF Init, DeviceInit
<1>1. call \in Calls
  BY CallsAssumption
<1>2. VerifyPass \in Page
  BY DeviceAssumption
<1>3. DeviceTypeOK
  <2>1. "InitRng" \in Commands
    BY DEF Commands
  <2>2. <<>> \in Seq(Page)
    OBVIOUS
  <2>3. field \in [FieldOffsets -> 0 .. HALFWORD - 1]
    BY HalfwordNat
  <2>4. job \in [cmd : Commands, iv : Page, fed : Seq(Page), left : Nat,
                 bits : Nat, open : BOOLEAN]
    BY <1>2, <2>1, <2>2
  <2>5. pram \in [1 .. MAX_PAGES -> Page]
    BY <1>2
  <2> QED
    BY <2>1, <2>3, <2>4, <2>5 DEF DeviceTypeOK
<1>4. TypeOK
  <2>1. result \in [status : 0 .. HALFWORD - 1, value : Seq(Page)]
    BY HalfwordNat DEF NoResult, Returned
  <2>2. output \in Seq(Page)
    OBVIOUS
  <2> QED
    BY <1>1, <1>3, <2>1, <2>2 DEF TypeOK
<1>5. CallInv /\ RoundInv /\ StartedInv /\ FinishedInv /\ StatusInv
  BY DEF CallInv, RoundInv, StartedInv, FinishedInv, StatusInv, Busy
<1>6. UpperFieldsInv
  BY DEF UpperFieldsInv, FieldOffsets
<1>7. OutputIsPrefix
  <2>1. OutputUpTo(0) /\ 0 \in 0 .. Len(output)
    BY DEF OutputUpTo
  <2> QED
    BY <2>1 DEF OutputIsPrefix
<1> QED
  BY <1>4, <1>5, <1>6, <1>7 DEF Inductive

-----------------------------------------------------------------------------
(* The invariant is inductive: a call begins.                                   *)

\* What every accepted call leaves behind.
LEMMA StartTypes ==
  ASSUME Inductive, NEW c \in Calls, Start(c)
  PROVE  /\ call' = c /\ call' \in Calls
         /\ output' \in Seq(Page)
         /\ Len(output') = PagesOf(c.room)
         /\ \A i \in 1 .. PagesOf(c.room) : output'[i] = Blank
         /\ result' \in [status : 0 .. HALFWORD - 1, value : Seq(Page)]
<1>1. PagesOf(c.room) \in Nat /\ Blank \in Page
  BY CallsAssumption, BitsToPages
<1>2. [i \in 1 .. PagesOf(c.room) |-> Blank] \in Seq(Page)
  BY <1>1
<1> QED
  BY <1>1, <1>2, HalfwordNat DEF Start, NoResult, Returned

\* A begun call keeps the invariant if its set-up leaves the fields and pages typed,
\* the upper fields zero, and what the call announces in place.
LEMMA StartKeepsInductive ==
  ASSUME Inductive, ShortCalls, NEW c \in Calls, Start(c),
         pc' \in {"round", "panicked"},
         field' \in [FieldOffsets -> 0 .. HALFWORD - 1],
         pram' \in [1 .. MAX_PAGES -> Page],
         UpperFieldsInv',
         pc' = "round" =>
           /\ CbcAccepts(c) \/ c.op \notin Cbc
           /\ c.op = "VerifyMac" => c.msg.bytes > 0
           /\ FieldsAnnounce'
           /\ c.op \in Cbc \cup {"LoadPlainKey"} => pram'[1] = c.arg
  PROVE  Inductive'
<1>1. TypeOK'
  BY StartTypes DEF Inductive, TypeOK, DeviceTypeOK, Start
<1>2. pc' # "wait" /\ ccif' /\ ~mac_written' /\ pos' = 0 /\ sequence' = "First" /\ call' = c
  BY DEF Start, Inductive, StartedInv
<1>3. OutputUpTo(0)'
  BY StartTypes DEF OutputUpTo
<1>4. CallInv'
  <2>1. ASSUME c.op \in Cbc, CbcAccepts(c)
        PROVE  Len(output') = Len(c.msg.page)
    BY <2>1, CallsAssumption, StartTypes DEF CbcAccepts, IsMessage
  <2>2. Len(c.msg.page) \in Nat
    BY CallsAssumption DEF IsMessage
  <2> QED
    BY <1>2, <1>3, <2>1, <2>2 DEF CallInv, Busy, CbcAccepts
<1>5. RoundInv'
  BY <1>2 DEF RoundInv
<1>6. StartedInv' /\ FinishedInv' /\ StatusInv'
  BY <1>2 DEF StartedInv, FinishedInv, StatusInv
<1>7. OutputIsPrefix'
  <2>1. 0 \in 0 .. Len(output')
    BY StartTypes
  <2> QED
    BY <1>3, <2>1 DEF OutputIsPrefix
<1> QED
  BY <1>1, <1>4, <1>5, <1>6, <1>7 DEF Inductive

\* The four fields are four, and only the lower halfwords can be written.
LEMMA Offsets ==
  /\ MAC_LENGTH_OFFSET = 8 /\ MAC_MESSAGE_LENGTH_OFFSET = 12
  /\ PAGE_LENGTH_OFFSET = 14 /\ ERROR_BITS_OFFSET = 4
  /\ FieldOffsets = {4, 8, 12, 14}
  /\ 8 % 4 # 2 /\ 12 % 4 # 2 /\ 14 % 4 = 2
  BY DEF FieldOffsets, MAC_LENGTH_OFFSET, MAC_MESSAGE_LENGTH_OFFSET, PAGE_LENGTH_OFFSET,
         ERROR_BITS_OFFSET

\* Writing a field that ends a word stores it; writing one that begins a word
\* stores zero.
LEMMA FieldWrites ==
  ASSUME NEW f \in [FieldOffsets -> 0 .. HALFWORD - 1],
         f[MAC_LENGTH_OFFSET] = 0, f[MAC_MESSAGE_LENGTH_OFFSET] = 0,
         NEW x \in 0 .. HALFWORD - 1, NEW w \in Nat, w < HALFWORD
  PROVE  /\ LET g == write_command_halfword(f, PAGE_LENGTH_OFFSET, x)
            IN  /\ g \in [FieldOffsets -> 0 .. HALFWORD - 1]
                /\ g[MAC_LENGTH_OFFSET] = 0 /\ g[MAC_MESSAGE_LENGTH_OFFSET] = 0
                /\ g[PAGE_LENGTH_OFFSET] = x
         /\ LET g == write_command_words(f, MAC_MESSAGE_LENGTH_OFFSET, w)
            IN  /\ g \in [FieldOffsets -> 0 .. HALFWORD - 1]
                /\ g[MAC_LENGTH_OFFSET] = 0 /\ g[MAC_MESSAGE_LENGTH_OFFSET] = 0
                /\ g[PAGE_LENGTH_OFFSET] = w
         /\ write_command_halfword(f, MAC_LENGTH_OFFSET, x) = f
<1>1. 0 \in 0 .. HALFWORD - 1 /\ w \in 0 .. HALFWORD - 1
  BY HalfwordNat
<1>2. w % HALFWORD = w /\ (w \div HALFWORD) % HALFWORD = 0
  BY ModHalfword
<1>3. write_command_halfword(f, 14, x) = [f EXCEPT ![14] = x]
  BY Offsets DEF write_command_halfword
<1>4. write_command_halfword(f, 8, x) = [f EXCEPT ![8] = 0]
  BY Offsets DEF write_command_halfword
<1>5. write_command_words(f, 12, w) = [[f EXCEPT ![12] = 0] EXCEPT ![14] = w]
  <2>1. 12 + 2 = 14
    OBVIOUS
  <2> QED
    BY <1>2, <2>1, Offsets DEF write_command_words, write_command_halfword
<1>6. f \in [{4, 8, 12, 14} -> 0 .. HALFWORD - 1] /\ f[8] = 0 /\ f[12] = 0
  BY Offsets
<1>7. [f EXCEPT ![8] = 0] = f
  BY <1>6
<1> QED
  BY <1>1, <1>3, <1>4, <1>5, <1>6, <1>7, Offsets

\* A page written to page 1 is there, and the pages stay pages.
LEMMA WriteFirstPage ==
  ASSUME NEW p \in [1 .. MAX_PAGES -> Page], NEW x \in Page
  PROVE  /\ WritePages(p, 1, <<x>>) \in [1 .. MAX_PAGES -> Page]
         /\ WritePages(p, 1, <<x>>)[1] = x
  BY DEF WritePages, MAX_PAGES

LEMMA CallKeepsInductive ==
  ASSUME Inductive, ShortCalls, NEW c \in Calls, Call(c)
  PROVE  Inductive'
<1>1. /\ c.op \in Commands /\ c.arg \in Page /\ c.msg.bytes \in Nat
      /\ Len(c.msg.page) = PagesOf(c.msg.bytes)
      /\ 8 * c.msg.bytes \in Nat /\ 8 * c.msg.bytes < HALFWORD
  BY CallsAssumption DEF ShortCalls, Short, IsMessage
<1>2. /\ field \in [FieldOffsets -> 0 .. HALFWORD - 1]
      /\ pram \in [1 .. MAX_PAGES -> Page]
      /\ field[MAC_LENGTH_OFFSET] = 0 /\ field[MAC_MESSAGE_LENGTH_OFFSET] = 0
  BY DEF Inductive, TypeOK, DeviceTypeOK, UpperFieldsInv
<1>3. /\ WritePages(pram, 1, <<c.arg>>) \in [1 .. MAX_PAGES -> Page]
      /\ WritePages(pram, 1, <<c.arg>>)[1] = c.arg
  BY <1>1, <1>2, WriteFirstPage
<1>4. ASSUME NEW op \in Commands, op \in {"InitRng", "Rng", "LoadPlainKey"}
      PROVE  op \notin Cbc /\ op \notin Mac
  BY <1>4 DEF Cbc, Mac
<1>5. CASE init_rng(c) \/ generate_rnd(c)
  <2>1. /\ c.op \in {"InitRng", "Rng"} /\ Start(c) /\ pc' = "round"
        /\ UNCHANGED <<field, pram>> /\ call' = c
    BY <1>5 DEF init_rng, generate_rnd, Start
  <2>2. FieldsAnnounce' /\ UpperFieldsInv'
    BY <1>1, <1>2, <1>4, <2>1 DEF FieldsAnnounce, UpperFieldsInv
  <2> QED
    BY <1>1, <1>2, <1>4, <2>1, <2>2, StartKeepsInductive
<1>6. CASE load_plainkey(c)
  <2>1. /\ c.op = "LoadPlainKey" /\ Start(c) /\ pc' = "round"
        /\ pram' = WritePages(pram, 1, <<c.arg>>) /\ UNCHANGED field /\ call' = c
    BY <1>6 DEF load_plainkey, Start
  <2>2. FieldsAnnounce' /\ UpperFieldsInv'
    BY <1>1, <1>2, <1>4, <2>1 DEF FieldsAnnounce, UpperFieldsInv
  <2> QED
    BY <1>1, <1>2, <1>3, <1>4, <2>1, <2>2, StartKeepsInductive
<1>7. ASSUME StartPanics(c)
      PROVE  Inductive'
  <2>1. Start(c) /\ pc' = "panicked" /\ UNCHANGED <<field, pram>>
    BY <1>7 DEF StartPanics
  <2>2. UpperFieldsInv'
    BY <1>2, <2>1 DEF UpperFieldsInv
  <2> QED
    BY <1>2, <2>1, <2>2, StartKeepsInductive
<1>8. CASE handle_cbc(c)
  <2>1. CASE ~CbcAccepts(c)
    BY <1>7, <1>8, <2>1 DEF handle_cbc
  <2>2. CASE CbcAccepts(c)
    <3> DEFINE n == Len(c.msg.page)
    <3>1. /\ c.op \in Cbc /\ Start(c) /\ pc' = "round" /\ call' = c
          /\ pram' = WritePages(pram, 1, <<c.arg>>)
          /\ field' = write_command_halfword(field, PAGE_LENGTH_OFFSET,
                                             AtLeastOne(n % HALFWORD))
      BY <1>8, <2>2 DEF handle_cbc, Start
    <3>2. n \in Nat /\ n < HALFWORD
      <4>1. n = PagesOf(c.msg.bytes) /\ PagesOf(c.msg.bytes) \in Nat
            /\ PagesOf(c.msg.bytes) <= 8 * c.msg.bytes
        BY <1>1, BitsToPages
      <4>2. HALFWORD \in Nat
        BY HalfwordNat
      <4> QED
        BY <1>1, <4>1, <4>2
    <3>3. n % HALFWORD = n /\ AtLeastOne(n) \in 0 .. HALFWORD - 1
      <4>1. n % HALFWORD = n
        BY <3>2, ModHalfword
      <4>2. AtLeastOne(n) \in 0 .. HALFWORD - 1
        BY <3>2, HalfwordNat DEF AtLeastOne
      <4> QED
        BY <4>1, <4>2
    <3>4. /\ field' \in [FieldOffsets -> 0 .. HALFWORD - 1]
          /\ field'[MAC_LENGTH_OFFSET] = 0 /\ field'[MAC_MESSAGE_LENGTH_OFFSET] = 0
          /\ field'[PAGE_LENGTH_OFFSET] = AtLeastOne(n)
      BY <1>1, <1>2, <3>1, <3>3, FieldWrites
    <3>5. c.op \notin Mac /\ c.op # "VerifyMac"
      BY <3>1 DEF Cbc, Mac
    <3>6. FieldsAnnounce' /\ UpperFieldsInv'
      BY <3>1, <3>4, <3>5 DEF FieldsAnnounce, UpperFieldsInv
    <3> QED
      BY <1>3, <2>2, <3>1, <3>4, <3>5, <3>6, StartKeepsInductive
  <2> QED
    BY <2>1, <2>2
<1>9. ASSUME c.op \in Mac
      PROVE  /\ MessageLengthField(c) \in [FieldOffsets -> 0 .. HALFWORD - 1]
             /\ MessageLengthField(c)[MAC_LENGTH_OFFSET] = 0
             /\ MessageLengthField(c)[MAC_MESSAGE_LENGTH_OFFSET] = 0
             /\ MessageLengthField(c)[PAGE_LENGTH_OFFSET] = 8 * c.msg.bytes
             /\ c.op \notin Cbc \cup {"LoadPlainKey"}
  <2>1. c.op \notin Cbc \cup {"LoadPlainKey"}
    BY <1>9 DEF Cbc, Mac
  <2>2. 0 \in 0 .. HALFWORD - 1
    BY HalfwordNat
  <2> QED
    BY <1>1, <1>2, <2>1, <2>2, FieldWrites DEF MessageLengthField
<1>10. ASSUME c.op \in Mac, field' = MessageLengthField(c), call' = c
       PROVE  FieldsAnnounce' /\ UpperFieldsInv'
  <2>1. MessageBits' = HALFWORD * 0 + 8 * c.msg.bytes
    BY <1>9, <1>10 DEF MessageBits
  <2>2. MessageBits' = 8 * c.msg.bytes
    BY <1>1, <2>1, HalfwordNat
  <2> QED
    BY <1>9, <1>10, <2>2 DEF FieldsAnnounce, UpperFieldsInv
<1>11. CASE generate_mac(c)
  <2>1. /\ c.op = "GenerateMac" /\ Start(c) /\ pc' = "round" /\ call' = c
        /\ field' = MessageLengthField(c) /\ UNCHANGED pram
    BY <1>11 DEF generate_mac, Start
  <2>2. c.op \in Mac
    BY <2>1 DEF Mac
  <2> QED
    BY <1>2, <1>9, <1>10, <2>1, <2>2, StartKeepsInductive
<1>12. CASE verify_mac(c)
  <2>1. CASE c.msg.bytes = 0
    BY <1>7, <1>12, <2>1 DEF verify_mac
  <2>2. CASE c.msg.bytes > 0
    <3>1. /\ c.op = "VerifyMac" /\ Start(c) /\ pc' = "round" /\ call' = c
          /\ field' = write_command_halfword(MessageLengthField(c), MAC_LENGTH_OFFSET,
                                             8 * PAGE_SIZE_IN_BYTES)
          /\ UNCHANGED pram
      BY <1>12, <2>2 DEF verify_mac, Start
    <3>2. c.op \in Mac
      BY <3>1 DEF Mac
    <3>3. 8 * PAGE_SIZE_IN_BYTES \in 0 .. HALFWORD - 1
      BY HalfwordNat DEF PAGE_SIZE_IN_BYTES
    <3>4. field' = MessageLengthField(c)
      BY <1>9, <3>1, <3>2, <3>3, FieldWrites, HalfwordNat
    <3> QED
      BY <1>2, <1>9, <1>10, <2>2, <3>1, <3>2, <3>4, StartKeepsInductive
  <2> QED
    BY <1>12, <2>1, <2>2 DEF verify_mac
<1> QED
  BY <1>5, <1>6, <1>8, <1>11, <1>12 DEF Call

-----------------------------------------------------------------------------
(* The invariant is inductive: a round is written and the engine started.       *)

LEMMA WritePagesFacts ==
  ASSUME NEW p \in [1 .. MAX_PAGES -> Page], NEW s \in Seq(Page), NEW first \in Nat,
         first >= 1
  PROVE  /\ WritePages(p, first, s) \in [1 .. MAX_PAGES -> Page]
         /\ \A i \in 1 .. Len(s) : first + i - 1 <= MAX_PAGES =>
              WritePages(p, first, s)[first + i - 1] = s[i]
         /\ \A n \in 1 .. MAX_PAGES : n < first \/ n > first + Len(s) - 1 =>
              WritePages(p, first, s)[n] = p[n]
<1>1. Len(s) \in Nat /\ \A i \in 1 .. Len(s) : s[i] \in Page
  OBVIOUS
<1>2. \A n \in first .. first + Len(s) - 1 : n - first + 1 \in 1 .. Len(s)
  BY <1>1
<1>3. WritePages(p, first, s) \in [1 .. MAX_PAGES -> Page]
  BY <1>1, <1>2 DEF WritePages, MAX_PAGES
<1>4. ASSUME NEW i \in 1 .. Len(s), first + i - 1 <= MAX_PAGES
      PROVE  WritePages(p, first, s)[first + i - 1] = s[i]
  <2>1. first + i - 1 \in 1 .. MAX_PAGES /\ first + i - 1 \in first .. first + Len(s) - 1
    BY <1>1, <1>4 DEF MAX_PAGES
  <2>2. (first + i - 1) - first + 1 = i
    BY <1>1
  <2> QED
    BY <2>1, <2>2 DEF WritePages
<1>5. ASSUME NEW n \in 1 .. MAX_PAGES, n < first \/ n > first + Len(s) - 1
      PROVE  WritePages(p, first, s)[n] = p[n]
  <2>1. n \notin first .. first + Len(s) - 1
    BY <1>1, <1>5 DEF MAX_PAGES
  <2> QED
    BY <2>1 DEF WritePages
<1> QED
  BY <1>3, <1>4, <1>5

\* What a round leaves alone, and what is left to show of it.
LEMMA RoundKeepsInductive ==
  ASSUME Inductive, ShortCalls, Round(Commands),
         pram' \in [1 .. MAX_PAGES -> Page], mac_written' \in BOOLEAN, depth' \in Nat,
         sequence = "First" /\ call.op \in Cbc \cup {"LoadPlainKey"} => pram'[1] = call.arg,
         call.op \in Cbc \cup Mac =>
           \A i \in 1 .. RoundPages : pram'[PageOffset + i - 1] = call.msg.page[pos + i],
         call.op = "VerifyMac" =>
           /\ mac_written' <=> next_page < MAX_PAGES
           /\ mac_written' => pram'[next_page] = call.arg
  PROVE  Inductive'
<1>1. /\ pc = "round" /\ pc' = "wait" /\ ccif' = FALSE
      /\ command' = [cmd |-> call.op, seq |-> sequence]
      /\ UNCHANGED <<field, ramKey, seeded, job, call, pos, sequence, output, result>>
  BY DEF Round, write_command_header
<1>2. TypeOK /\ CallInv /\ UpperFieldsInv /\ RoundInv /\ OutputIsPrefix
  BY DEF Inductive
<1>3. TypeOK'
  BY <1>1, <1>2, CallFacts DEF TypeOK, DeviceTypeOK
<1>4. /\ RoundPages' = RoundPages /\ PageOffset' = PageOffset /\ next_page' = next_page
      /\ EngineAt(pos)' <=> EngineAt(pos)
      /\ FieldsAnnounce' <=> FieldsAnnounce
      /\ \A n : OutputUpTo(n)' <=> OutputUpTo(n)
  BY <1>1 DEF RoundPages, PageOffset, Remaining, AvailPages, next_page, EngineAt,
              FieldsAnnounce, MessageBits, OutputUpTo, CbcPage
<1>5. CallInv'
  BY <1>1, <1>2, <1>4 DEF CallInv, Busy, CbcAccepts
<1>6. UpperFieldsInv' /\ RoundInv' /\ FinishedInv' /\ StatusInv'
  BY <1>1, <1>2 DEF UpperFieldsInv, RoundInv, FinishedInv, StatusInv
<1>7. StartedInv'
  BY <1>1, <1>2, <1>4 DEF StartedInv, RoundInv
<1>8. OutputIsPrefix'
  BY <1>1, <1>2, <1>4 DEF OutputIsPrefix
<1> QED
  BY <1>3, <1>5, <1>6, <1>7, <1>8 DEF Inductive

LEMMA RoundsKeepInductive ==
  ASSUME Inductive, ShortCalls,
         single_round \/ process_blocks \/ process_blocks_verify
  PROVE  Inductive'
<1> USE CallFacts
<1>1. /\ pram \in [1 .. MAX_PAGES -> Page] /\ depth \in Nat /\ mac_written \in BOOLEAN
      /\ sequence \in {"First", "Subsequent"}
  BY DEF Inductive, TypeOK, DeviceTypeOK
<1>2. pc = "round" /\ Busy /\ Round(Commands)
  BY DEF single_round, process_blocks, process_blocks_verify, Round, Busy
<1>3. /\ call.op = "VerifyMac" => ~mac_written
      /\ sequence = "First" /\ call.op \in Cbc \cup {"LoadPlainKey"} => pram[1] = call.arg
  BY <1>2 DEF Inductive, RoundInv
<1>4. /\ PageOffset \in {1, 2}
      /\ RoundPages \in 0 .. MAX_PAGES + 1 - PageOffset
      /\ RoundInput \in Seq(Page) /\ Len(RoundInput) = RoundPages
      /\ \A i \in 1 .. RoundPages : RoundInput[i] = call.msg.page[pos + i]
  BY <1>2, RoundFacts
<1>5. CASE single_round
  <2>1. /\ call.op \in {"InitRng", "Rng", "LoadPlainKey"}
        /\ UNCHANGED <<pram, mac_written, depth>>
    BY <1>5 DEF single_round, Round
  <2>2. call.op \notin Cbc \cup Mac
    BY <2>1 DEF Cbc, Mac
  <2> QED
    BY <1>1, <1>2, <1>3, <2>1, <2>2, RoundKeepsInductive DEF Mac
<1>6. ASSUME NEW first \in {1, 2}, first = PageOffset
      PROVE  LET w == WritePages(pram, first, RoundInput)
             IN  /\ w \in [1 .. MAX_PAGES -> Page]
                 /\ \A i \in 1 .. RoundPages : w[first + i - 1] = call.msg.page[pos + i]
                 /\ first = 2 => w[1] = pram[1]
                 /\ \A n \in 1 .. MAX_PAGES : n > first + RoundPages - 1 => w[n] = pram[n]
  <2>1. first \in Nat /\ first >= 1 /\ RoundPages \in Nat
    BY <1>4 DEF MAX_PAGES
  <2>2. \A i \in 1 .. RoundPages : first + i - 1 <= MAX_PAGES
    BY <1>4, <1>6, <2>1 DEF MAX_PAGES
  <2>3. 1 \in 1 .. MAX_PAGES
    BY DEF MAX_PAGES
  <2> DEFINE w == WritePages(pram, first, RoundInput)
  <2>4. /\ w \in [1 .. MAX_PAGES -> Page]
        /\ \A i \in 1 .. Len(RoundInput) : first + i - 1 <= MAX_PAGES =>
             w[first + i - 1] = RoundInput[i]
        /\ \A n \in 1 .. MAX_PAGES : n < first \/ n > first + Len(RoundInput) - 1 =>
             w[n] = pram[n]
    BY <1>1, <1>4, <2>1, WritePagesFacts
  <2> HIDE DEF w
  <2>5. \A i \in 1 .. RoundPages : w[first + i - 1] = call.msg.page[pos + i]
    BY <1>4, <2>2, <2>4
  <2>6. first = 2 => w[1] = pram[1]
    BY <2>3, <2>4
  <2>7. \A n \in 1 .. MAX_PAGES : n > first + RoundPages - 1 => w[n] = pram[n]
    BY <1>4, <2>4
  <2> QED
    BY <2>4, <2>5, <2>6, <2>7 DEF w
<1>7. CASE process_blocks
  <2>1. /\ call.op \in Cbc \cup {"GenerateMac"}
        /\ pram' = WritePages(pram, PageOffset, RoundInput)
        /\ depth' = depth + 1 /\ UNCHANGED mac_written
    BY <1>7 DEF process_blocks, Round
  <2>2. call.op # "VerifyMac" /\ call.op # "LoadPlainKey"
    BY <2>1 DEF Cbc
  <2>3. sequence = "First" /\ call.op \in Cbc => PageOffset = 2
    BY DEF PageOffset
  <2> QED
    BY <1>1, <1>2, <1>3, <1>4, <1>6, <2>1, <2>2, <2>3, RoundKeepsInductive
<1>8. CASE process_blocks_verify
  <2> DEFINE w == WritePages(pram, 1, RoundInput)
  <2>1. /\ call.op = "VerifyMac"
        /\ pram' = IF AppendsMac THEN WritePages(w, next_page, <<call.arg>>) ELSE w
        /\ mac_written' = (mac_written \/ AppendsMac)
        /\ depth' = depth + 1
    BY <1>8 DEF process_blocks_verify, Round
  <2>2. call.op \notin Cbc \cup {"LoadPlainKey"} /\ PageOffset = 1
    BY <2>1 DEF Cbc, PageOffset
  <2>3. /\ w \in [1 .. MAX_PAGES -> Page]
        /\ \A i \in 1 .. RoundPages : w[i] = call.msg.page[pos + i]
    BY <1>6, <2>2
  <2>4. next_page \in Nat /\ next_page = 1 + RoundPages /\ next_page >= 1
    BY <1>4 DEF next_page, MAX_PAGES
  <2>5. AppendsMac <=> next_page < MAX_PAGES
    BY <1>3, <2>1 DEF AppendsMac
  <2> HIDE DEF w
  <2>6. CASE ~AppendsMac
    BY <1>1, <1>2, <1>3, <2>1, <2>2, <2>3, <2>5, <2>6, RoundKeepsInductive
  <2>7. CASE AppendsMac
    <3>1. /\ pram' \in [1 .. MAX_PAGES -> Page]
          /\ \A i \in 1 .. Len(<<call.arg>>) : next_page + i - 1 <= MAX_PAGES =>
               pram'[next_page + i - 1] = <<call.arg>>[i]
          /\ \A n \in 1 .. MAX_PAGES : n < next_page => pram'[n] = w[n]
      <4>1. <<call.arg>> \in Seq(Page)
        OBVIOUS
      <4>2. pram' = WritePages(w, next_page, <<call.arg>>)
        BY <2>1, <2>7
      <4> DEFINE v == WritePages(w, next_page, <<call.arg>>)
      <4>3. /\ v \in [1 .. MAX_PAGES -> Page]
            /\ \A i \in 1 .. Len(<<call.arg>>) : next_page + i - 1 <= MAX_PAGES =>
                 v[next_page + i - 1] = <<call.arg>>[i]
            /\ \A n \in 1 .. MAX_PAGES :
                 n < next_page \/ n > next_page + Len(<<call.arg>>) - 1 => v[n] = w[n]
        BY <2>3, <2>4, <4>1, WritePagesFacts
      <4> QED
        BY <4>2, <4>3
    <3>2. pram'[next_page] = call.arg
      <4>1. next_page + 1 - 1 = next_page /\ next_page <= MAX_PAGES
        BY <2>4, <2>5, <2>7 DEF MAX_PAGES
      <4>2. Len(<<call.arg>>) = 1 /\ <<call.arg>>[1] = call.arg /\ 1 \in 1 .. 1
        OBVIOUS
      <4> QED
        BY <3>1, <4>1, <4>2
    <3>3. \A i \in 1 .. RoundPages : pram'[i] = call.msg.page[pos + i]
      <4>1. RoundPages \in Nat /\ RoundPages < next_page /\ next_page < MAX_PAGES
        BY <1>4, <2>4, <2>5, <2>7 DEF MAX_PAGES
      <4>2. \A i \in 1 .. RoundPages : i \in 1 .. MAX_PAGES /\ i < next_page
        BY <2>4, <4>1 DEF MAX_PAGES
      <4> QED
        BY <2>3, <3>1, <4>2
    <3>4. \A i \in 1 .. RoundPages : pram'[PageOffset + i - 1] = call.msg.page[pos + i]
      BY <1>4, <2>2, <3>3
    <3>5. mac_written' \in BOOLEAN /\ depth' \in Nat /\ (mac_written' <=> next_page < MAX_PAGES)
      <4>1. mac_written' = TRUE
        BY <2>1, <2>7
      <4>2. depth' \in Nat
        BY <1>1, <2>1
      <4> QED
        BY <2>5, <2>7, <4>1, <4>2
    <3> QED
      BY <1>2, <2>1, <2>2, <2>5, <2>7, <3>1, <3>2, <3>4, <3>5, RoundKeepsInductive
  <2> QED
    BY <2>6, <2>7
<1> QED
  BY <1>5, <1>7, <1>8

-----------------------------------------------------------------------------
(* The invariant is inductive: the driver collects the result of a round.       *)

LEMMA ReturnKeepsInductive ==
  ASSUME Inductive, Collect, NEW status \in 0 .. HALFWORD - 1, NEW value \in Seq(Page),
         Return(status, value), output' \in Seq(Page), OutputIsPrefix'
  PROVE  Inductive'
<1>1. /\ pc' = "idle" /\ ccif /\ result' = [status |-> status, value |-> value] /\ depth' = 0
      /\ UNCHANGED <<device, call, pos, sequence, mac_written>>
  BY DEF Return, Collect, Returned
<1>2. TypeOK'
  BY <1>1 DEF Inductive, TypeOK, DeviceTypeOK, device
<1>3. CallInv' /\ RoundInv' /\ StartedInv' /\ FinishedInv' /\ StatusInv'
  BY <1>1 DEF CallInv, Busy, RoundInv, StartedInv, FinishedInv, StatusInv, device
<1>4. UpperFieldsInv'
  BY <1>1 DEF Inductive, UpperFieldsInv, device
<1> QED
  BY <1>2, <1>3, <1>4 DEF Inductive

LEMMA RecurseKeepsInductive ==
  ASSUME Inductive, ShortCalls, Collect, Recurse, call.op \in Cbc \cup Mac,
         EngineAt(pos + RoundPages),
         output' \in Seq(Page), Len(output') = Len(output),
         call.op \in Cbc =>
           \A i \in 1 .. Len(output) :
             output'[i] = IF i <= pos + RoundPages THEN CbcPage(i) ELSE Blank,
         call.op = "VerifyMac" => ~mac_written
  PROVE  Inductive'
<1> USE CallFacts
<1>1. /\ pc = "wait" /\ pc' = "round" /\ ccif
      /\ pos' = pos + RoundPages /\ sequence' = "Subsequent"
      /\ UNCHANGED <<device, call, mac_written, depth, result>>
  BY DEF Recurse, Collect
<1>2. TypeOK /\ CallInv /\ UpperFieldsInv
  BY DEF Inductive
<1>3. Busy /\ pos' \in Nat /\ pos' <= Len(call.msg.page)
  <2>1. Busy
    BY <1>1 DEF Busy
  <2> QED
    BY <1>1, <2>1, RoundFacts
<1>4. TypeOK'
  BY <1>1, <1>2, <1>3 DEF TypeOK, DeviceTypeOK, device
<1>5. call.op \in Cbc => OutputUpTo(pos)' /\ pos' \in 0 .. Len(output')
  <2>1. call.op \in Cbc => OutputUpTo(pos)'
    BY <1>1 DEF OutputUpTo, CbcPage, device
  <2>2. call.op \in Cbc => Len(output) = Len(call.msg.page)
    BY <1>2, <1>3 DEF CallInv
  <2> QED
    BY <1>1, <1>3, <2>1, <2>2
<1>6. CallInv'
  BY <1>1, <1>2, <1>3, <1>5 DEF CallInv, Busy, CbcAccepts, FieldsAnnounce, MessageBits, device
<1>7. RoundInv'
  BY <1>1 DEF RoundInv, EngineAt, device
<1>8. StartedInv' /\ FinishedInv' /\ StatusInv' /\ UpperFieldsInv'
  BY <1>1, <1>2 DEF StartedInv, FinishedInv, StatusInv, UpperFieldsInv, device
<1>9. OutputIsPrefix'
  BY <1>1, <1>5 DEF OutputIsPrefix
<1> QED
  BY <1>4, <1>6, <1>7, <1>8, <1>9 DEF Inductive

LEMMA KnownResultsFit == KnownResults \subseteq 0 .. HALFWORD - 1 /\ NoError \in KnownResults
  BY HalfwordNat DEF KnownResults, NoError

LEMMA CollectKeepsInductive ==
  ASSUME Inductive, ShortCalls,
         \/ UnknownStatus \/ ReturnError \/ ReturnUnit \/ ReturnRnd
         \/ CollectCbc \/ CollectGenerateMac \/ CollectVerifyMac
  PROVE  Inductive'
<1> USE CallFacts
<1>1. /\ Collect /\ pc = "wait" /\ ccif /\ Busy
      /\ UNCHANGED <<device, call>>
  BY DEF UnknownStatus, ReturnError, ReturnUnit, ReturnRnd, CollectCbc, CollectGenerateMac,
         CollectVerifyMac, Succeeded, Collect, Busy
<1>2. /\ TypeOK /\ CallInv /\ FinishedInv /\ OutputIsPrefix
      /\ output \in Seq(Page) /\ Len(output) \in Nat
      /\ pram \in [1 .. MAX_PAGES -> Page] /\ 1 \in 1 .. MAX_PAGES /\ 2 \in 1 .. MAX_PAGES
  BY DEF Inductive, TypeOK, DeviceTypeOK, MAX_PAGES
<1>3. NoError \in 0 .. HALFWORD - 1
  BY KnownResultsFit
<1>4. ASSUME UNCHANGED output, pc' # "panicked"
      PROVE  OutputIsPrefix'
  <2>1. \A n : OutputUpTo(n)' <=> OutputUpTo(n)
    BY <1>1, <1>4 DEF OutputUpTo, CbcPage, device
  <2> QED
    BY <1>1, <1>2, <1>4, <2>1 DEF OutputIsPrefix
<1>5. CASE UnknownStatus
  <2>1. /\ pc' = "panicked"
        /\ UNCHANGED <<device, call, pos, sequence, mac_written, depth, output, result>>
    BY <1>1, <1>5 DEF UnknownStatus
  <2>2. TypeOK'
    BY <1>2, <2>1 DEF TypeOK, DeviceTypeOK, device
  <2>3. CallInv' /\ RoundInv' /\ StartedInv' /\ FinishedInv' /\ StatusInv' /\ OutputIsPrefix'
    BY <1>1, <2>1 DEF CallInv, Busy, RoundInv, StartedInv, FinishedInv, StatusInv,
                      OutputIsPrefix, device
  <2>4. UpperFieldsInv'
    BY <2>1 DEF Inductive, UpperFieldsInv, device
  <2> QED
    BY <2>2, <2>3, <2>4 DEF Inductive
<1>6. CASE ReturnError
  <2>1. Return(Status, <<>>) /\ UNCHANGED output /\ pc' = "idle"
        /\ Status \in 0 .. HALFWORD - 1 /\ <<>> \in Seq(Page)
    BY <1>6, KnownResultsFit DEF ReturnError, Return
  <2> QED
    BY <1>1, <1>2, <1>4, <2>1, ReturnKeepsInductive
<1>7. CASE ReturnUnit
  <2>1. Return(NoError, <<>>) /\ UNCHANGED output /\ pc' = "idle" /\ <<>> \in Seq(Page)
    BY <1>7 DEF ReturnUnit, Return
  <2> QED
    BY <1>1, <1>2, <1>3, <1>4, <2>1, ReturnKeepsInductive
<1>8. CASE ReturnRnd
  <2>1. Return(NoError, <<pram[1]>>) /\ UNCHANGED output /\ pc' = "idle"
        /\ <<pram[1]>> \in Seq(Page)
    BY <1>2, <1>8 DEF ReturnRnd, Return
  <2> QED
    BY <1>1, <1>2, <1>3, <1>4, <2>1, ReturnKeepsInductive
<1>9. CASE CollectCbc
  <2> DEFINE m == pos + RoundPages
  <2>1. /\ call.op \in Cbc /\ Status = NoError /\ output' = ReadOutput
        /\ IF Remaining > RoundPages THEN Recurse ELSE Return(NoError, output')
    BY <1>9 DEF CollectCbc, Succeeded
  <2>2. /\ PageOffset \in {1, 2} /\ RoundPages \in 0 .. MAX_PAGES + 1 - PageOffset
        /\ pos \in Nat /\ m \in Nat /\ m <= Len(call.msg.page) /\ Remaining \in Nat
    BY <1>1, RoundFacts
  <2>3. Len(output) = Len(call.msg.page) /\ OutputUpTo(pos)
    BY <1>1, <1>2, <2>1 DEF CallInv
  <2>4. \A i \in 1 .. RoundPages : pram[PageOffset + i - 1] = CbcPage(pos + i)
    BY <1>1, <1>2, <2>1 DEF FinishedInv
  <2>5. \A i \in pos + 1 .. m : PageOffset + i - pos - 1 \in 1 .. MAX_PAGES
    <3>1. RoundPages \in Nat /\ RoundPages <= 8 - PageOffset /\ MAX_PAGES = 7
      BY ONLY <2>2 DEF MAX_PAGES
    <3>2. ASSUME NEW i \in pos + 1 .. pos + RoundPages
          PROVE  PageOffset + i - pos - 1 \in 1 .. 7
      <4>1. CASE PageOffset = 1
        BY ONLY <2>2, <3>1, <4>1
      <4>2. CASE PageOffset = 2
        BY ONLY <2>2, <3>1, <4>2
      <4> QED
        BY ONLY <2>2, <4>1, <4>2
    <3> QED
      BY <3>1, <3>2
  <2>6. output' \in Seq(Page) /\ Len(output') = Len(output)
    <3> DEFINE n == Len(output)
    <3>1. n \in Nat /\ \A i \in 1 .. n : output[i] \in Page
      BY <1>2
    <3>2. \A i \in 1 .. n : ReadOutput[i] \in Page
      BY <1>2, <2>5, <3>1 DEF ReadOutput
    <3>3. ReadOutput = [i \in 1 .. n |-> ReadOutput[i]]
      BY DEF ReadOutput
    <3> HIDE DEF n
    <3>4. ReadOutput \in Seq(Page) /\ Len(ReadOutput) = n
      BY <3>1, <3>2, <3>3
    <3> QED
      BY <2>1, <3>4 DEF n
  <2>7. ASSUME NEW i \in 1 .. Len(output)
        PROVE  output'[i] = IF i <= m THEN CbcPage(i) ELSE Blank
    <3>1. CASE i \in pos + 1 .. m
      <4>1. i - pos \in 1 .. RoundPages /\ pos + (i - pos) = i
            /\ PageOffset + (i - pos) - 1 = PageOffset + i - pos - 1 /\ i <= m
        BY <2>2, <3>1 DEF MAX_PAGES
      <4>2. output'[i] = pram[PageOffset + i - pos - 1]
        BY <2>1, <3>1 DEF ReadOutput
      <4> QED
        BY <2>4, <4>1, <4>2
    <3>2. CASE i \notin pos + 1 .. m
      <4>1. output'[i] = output[i]
        BY <2>1, <3>2 DEF ReadOutput
      <4>2. i <= m <=> i <= pos
        BY <2>2, <3>2 DEF MAX_PAGES
      <4> QED
        BY <2>3, <4>1, <4>2 DEF OutputUpTo
    <3> QED
      BY <3>1, <3>2
  <2>8. CASE Remaining > RoundPages
    <3>1. EngineAt(m)
      BY <1>1, <1>2, <2>1, <2>8 DEF FinishedInv
    <3>2. call.op # "VerifyMac"
      BY <2>1 DEF Cbc
    <3> QED
      BY <1>1, <2>1, <2>6, <2>7, <2>8, <3>1, <3>2, RecurseKeepsInductive
  <2>9. CASE ~(Remaining > RoundPages)
    <3>1. Return(NoError, output')
      BY <2>1, <2>9
    <3>2. OutputIsPrefix'
      <4>1. \A i \in 1 .. Len(output') : output'[i] = IF i <= m THEN CbcPage(i)' ELSE Blank
        BY <1>1, <2>6, <2>7 DEF CbcPage, device
      <4>2. m \in 0 .. Len(output')
        BY <1>2, <2>2, <2>3, <2>6
      <4>3. \E n \in 0 .. Len(output') : \A i \in 1 .. Len(output') :
              output'[i] = IF i <= n THEN CbcPage(i)' ELSE Blank
        BY <4>1, <4>2
      <4> QED
        BY <4>3 DEF OutputIsPrefix, OutputUpTo
    <3> QED
      BY <1>1, <1>3, <2>6, <3>1, <3>2, ReturnKeepsInductive
  <2> QED
    BY <2>8, <2>9
<1>10. CASE CollectGenerateMac
  <2>1. /\ call.op = "GenerateMac" /\ Status = NoError /\ UNCHANGED output
        /\ IF Remaining > RoundPages THEN Recurse ELSE Return(NoError, <<pram[2]>>)
    BY <1>10 DEF CollectGenerateMac, Succeeded
  <2>2. call.op \notin Cbc /\ call.op \in Mac
    BY <2>1 DEF Cbc, Mac
  <2>3. CASE Remaining > RoundPages
    <3>1. EngineAt(pos + RoundPages)
      BY <1>1, <1>2, <2>1, <2>3 DEF FinishedInv
    <3> QED
      BY <1>1, <1>2, <2>1, <2>2, <2>3, <3>1, RecurseKeepsInductive
  <2>4. CASE ~(Remaining > RoundPages)
    <3>1. Return(NoError, <<pram[2]>>) /\ pc' = "idle" /\ <<pram[2]>> \in Seq(Page)
      BY <1>2, <2>1, <2>4 DEF Return
    <3> QED
      BY <1>1, <1>2, <1>3, <1>4, <2>1, <3>1, ReturnKeepsInductive
  <2> QED
    BY <2>3, <2>4
<1>11. CASE CollectVerifyMac
  <2> DEFINE v == <<IF pram[1] = VerifyPass THEN VerifyPass ELSE VerifyFail>>
  <2>1. /\ call.op = "VerifyMac" /\ Status = NoError /\ UNCHANGED output
        /\ IF ~mac_written THEN Recurse ELSE Return(NoError, v)
    BY <1>11 DEF CollectVerifyMac, Succeeded
  <2>2. call.op \notin Cbc /\ call.op \in Mac
    BY <2>1 DEF Cbc, Mac
  <2>3. CASE ~mac_written
    <3>1. EngineAt(pos + RoundPages)
      BY <1>1, <1>2, <2>1, <2>3 DEF FinishedInv
    <3> QED
      BY <1>1, <1>2, <2>1, <2>2, <2>3, <3>1, RecurseKeepsInductive
  <2>4. CASE mac_written
    <3>1. Return(NoError, v) /\ pc' = "idle" /\ v \in Seq(Page)
      BY <2>1, <2>4, DeviceAssumption DEF Return
    <3> QED
      BY <1>1, <1>2, <1>3, <1>4, <2>1, <3>1, ReturnKeepsInductive
  <2> QED
    BY <2>3, <2>4
<1> QED
  BY <1>5, <1>6, <1>7, <1>8, <1>9, <1>10, <1>11

-----------------------------------------------------------------------------
(* The invariant is inductive: the engine works.                                *)

LEMMA FinishKeepsInductive ==
  ASSUME Inductive, ShortCalls, ~ccif, UNCHANGED driver,
         NEW status \in 0 .. HALFWORD - 1, Finish(status),
         pram' \in [1 .. MAX_PAGES -> Page],
         ramKey' \in Page \cup {NoKey},
         call.op \in Cbc => ramKey' = ramKey,
         seeded' \in BOOLEAN,
         job' \in [cmd : Commands, iv : Page, fed : Seq(Page), left : Nat,
                   bits : Nat, open : BOOLEAN],
         FinishedInv', StatusInv'
  PROVE  Inductive'
<1>1. /\ pc = "wait" /\ pc' = "wait" /\ ccif' = TRUE /\ UNCHANGED command
      /\ UNCHANGED <<call, pos, sequence, mac_written, depth, output, result>>
      /\ field' = [field EXCEPT ![ERROR_BITS_OFFSET] = status]
  BY DEF Inductive, StartedInv, Finish, driver
<1>2. TypeOK /\ CallInv /\ UpperFieldsInv /\ OutputIsPrefix
  BY DEF Inductive
<1>3. /\ field' \in [FieldOffsets -> 0 .. HALFWORD - 1]
      /\ field'[MAC_LENGTH_OFFSET] = field[MAC_LENGTH_OFFSET]
      /\ field'[MAC_MESSAGE_LENGTH_OFFSET] = field[MAC_MESSAGE_LENGTH_OFFSET]
      /\ field'[PAGE_LENGTH_OFFSET] = field[PAGE_LENGTH_OFFSET]
  <2>1. field \in [FieldOffsets -> 0 .. HALFWORD - 1]
    BY <1>2 DEF TypeOK, DeviceTypeOK
  <2> QED
    BY <1>1, <2>1, Offsets
<1>4. TypeOK'
  BY <1>1, <1>2, <1>3 DEF TypeOK, DeviceTypeOK
<1>5. call.op \in Cbc => \A n : OutputUpTo(n)' <=> OutputUpTo(n)
  BY <1>1 DEF OutputUpTo, CbcPage
<1>6. CallInv'
  BY <1>1, <1>2, <1>3, <1>5 DEF CallInv, Busy, CbcAccepts, FieldsAnnounce, MessageBits
<1>7. UpperFieldsInv' /\ RoundInv' /\ StartedInv'
  BY <1>1, <1>2, <1>3 DEF UpperFieldsInv, RoundInv, StartedInv
<1>8. OutputIsPrefix'
  BY <1>1, <1>2, <1>5 DEF OutputIsPrefix
<1> QED
  BY <1>4, <1>6, <1>7, <1>8 DEF Inductive

\* The facts of a started round every engine step needs.
LEMMA StartedFacts ==
  ASSUME Inductive, ShortCalls, ~ccif
  PROVE  /\ pc = "wait" /\ Busy /\ TypeOK
         /\ command.cmd = call.op /\ command.seq = sequence
         /\ InSequence
         /\ pram \in [1 .. MAX_PAGES -> Page] /\ ramKey \in Page \cup {NoKey}
         /\ seeded \in BOOLEAN
         /\ job \in [cmd : Commands, iv : Page, fed : Seq(Page), left : Nat,
                     bits : Nat, open : BOOLEAN]
         /\ field \in [FieldOffsets -> 0 .. HALFWORD - 1]
<1>1. /\ TypeOK /\ pc = "wait" /\ command = [cmd |-> call.op, seq |-> sequence]
      /\ sequence = "Subsequent" => EngineAt(pos)
  BY DEF Inductive, StartedInv
<1>2. InSequence
  BY <1>1 DEF InSequence, IsFirst, EngineAt, TypeOK
<1> QED
  BY <1>1, <1>2 DEF Busy, TypeOK, DeviceTypeOK

LEMMA StatusWritten ==
  ASSUME NEW status, field \in [FieldOffsets -> 0 .. HALFWORD - 1], Finish(status)
  PROVE  Status' = status /\ ccif' = TRUE
  BY Offsets DEF Finish, Status

LEMMA FailKeepsInductive ==
  ASSUME Inductive, ShortCalls, Refuse \/ Fault, UNCHANGED driver
  PROVE  Inductive'
<1>1. ~ccif
  BY DEF Refuse, Fault
<1>2. PICK status : /\ Fail(status)
                    /\ \/ status \in Faults
                       \/ status = KeyEmpty /\ call.op \in Cbc \cup Mac /\ ramKey = NoKey
                       \/ status = RngSeed /\ call.op = "Rng" /\ ~seeded
  BY <1>1, StartedFacts DEF Refuse, Fault, NeedsKey
<1>3. status \in 0 .. HALFWORD - 1 /\ status # NoError
  <2>1. KeyEmpty \in 0 .. HALFWORD - 1 /\ RngSeed \in 0 .. HALFWORD - 1
    BY HalfwordNat DEF KeyEmpty, RngSeed
  <2>2. KeyEmpty # NoError /\ RngSeed # NoError
    BY DEF KeyEmpty, RngSeed, NoError
  <2>3. \A f \in Faults : f \in 0 .. HALFWORD - 1 /\ f # NoError
    BY DeviceAssumption
  <2> QED
    BY <1>2, <2>1, <2>2, <2>3
<1>4. /\ Finish(status) /\ UNCHANGED <<pram, ramKey, seeded>>
      /\ job' \in [cmd : Commands, iv : Page, fed : Seq(Page), left : Nat,
                   bits : Nat, open : BOOLEAN]
  BY <1>1, <1>2, StartedFacts DEF Fail
<1>5. Status' = status /\ UNCHANGED call
  BY <1>1, <1>4, StartedFacts, StatusWritten DEF driver
<1>6. FinishedInv' /\ StatusInv'
  BY <1>2, <1>3, <1>4, <1>5 DEF FinishedInv, StatusInv
<1> QED
  BY <1>1, <1>3, <1>4, <1>6, StartedFacts, FinishKeepsInductive

LEMMA SimpleExecKeepsInductive ==
  ASSUME Inductive, ShortCalls, ExecInitRng \/ ExecRng \/ ExecLoadPlainKey,
         UNCHANGED driver
  PROVE  Inductive'
<1>1. ~ccif /\ command.cmd \in {"InitRng", "Rng", "LoadPlainKey"} /\ Finish(NoError)
      /\ UNCHANGED job
  BY DEF ExecInitRng, ExecRng, ExecLoadPlainKey
<1>2. /\ call' = call /\ call.op = command.cmd /\ call.op \notin Cbc \cup Mac
      /\ call.op # "VerifyMac" /\ call.op # "GenerateMac"
  BY <1>1, StartedFacts DEF driver, Cbc, Mac
<1>3. Status' = NoError /\ NoError \in 0 .. HALFWORD - 1
  BY <1>1, StartedFacts, StatusWritten, KnownResultsFit
<1>4. StatusInv'
  BY <1>3 DEF StatusInv
<1>5. call.op = "LoadPlainKey" => pram[1] = call.arg
  <2>1. call.op = "LoadPlainKey" => sequence = "First"
    BY <1>1, <1>2, StartedFacts DEF Inductive, CallInv, TypeOK
  <2> QED
    BY <1>1, <2>1 DEF Inductive, StartedInv
<1>6. /\ pram' \in [1 .. MAX_PAGES -> Page] /\ ramKey' \in Page \cup {NoKey}
      /\ seeded' \in BOOLEAN
      /\ call.op \in {"InitRng", "Rng"} => seeded'
      /\ call.op = "Rng" => pram'[1] \in RandomPage
      /\ call.op = "LoadPlainKey" => ramKey' = call.arg
  <2>1. 1 \in 1 .. MAX_PAGES /\ RandomPage \subseteq Page
    BY DeviceAssumption DEF MAX_PAGES
  <2>2. CASE ExecInitRng
    BY <1>1, <1>2, <2>2, StartedFacts DEF ExecInitRng
  <2>3. CASE ExecRng
    <3>1. PICK p \in RandomPage : pram' = [pram EXCEPT ![1] = p]
      BY <2>3 DEF ExecRng
    <3> QED
      BY <1>1, <1>2, <2>1, <2>3, <3>1, StartedFacts DEF ExecRng
  <2>4. CASE ExecLoadPlainKey
    BY <1>1, <1>2, <1>5, <2>1, <2>4, StartedFacts DEF ExecLoadPlainKey
  <2> QED
    BY <2>2, <2>3, <2>4
<1>7. FinishedInv'
  BY <1>2, <1>6 DEF FinishedInv
<1>8. job' \in [cmd : Commands, iv : Page, fed : Seq(Page), left : Nat,
                bits : Nat, open : BOOLEAN]
  BY <1>1, StartedFacts
<1> QED
  BY <1>1, <1>2, <1>3, <1>4, <1>6, <1>7, <1>8, FinishKeepsInductive

\* After a successful round of a CBC or MAC call the engine holds everything up to
\* the end of the round.
LEMMA EngineAdvances ==
  ASSUME Inductive, ShortCalls, ~ccif, UNCHANGED driver,
         call.op \in Mac \/ (call.op \in Cbc /\ Len(call.msg.page) > 0),
         job'.cmd = Chain.cmd, job'.iv = Chain.iv, job'.bits = Chain.bits,
         job'.fed = Fed, job'.left = Chain.left - Take, job'.open
  PROVE  EngineAt(pos + RoundPages)'
<1>1. Busy /\ UNCHANGED <<call, pos, sequence>>
  BY StartedFacts DEF driver
<1>2. RoundPages' = RoundPages
  BY <1>1 DEF RoundPages, Remaining, AvailPages, PageOffset
<1>3. /\ pos \in Nat /\ RoundPages \in Nat /\ Remaining = Len(call.msg.page) - pos
      /\ Len(call.msg.page) \in Nat
  BY <1>1, RoundFacts, CallFacts DEF MAX_PAGES
<1>4. /\ job'.cmd = call.op
      /\ job'.fed = SubSeq(call.msg.page, 1, pos + RoundPages)
      /\ job'.left = Len(call.msg.page) - (pos + RoundPages)
      /\ call.op \in Cbc => job'.iv = call.arg
      /\ call.op \in Mac => job'.bits = 8 * call.msg.bytes
  BY <1>3, WindowIsRound
<1> QED
  BY <1>1, <1>2, <1>4 DEF EngineAt

LEMMA JobTypes ==
  ASSUME TypeOK, NEW b \in BOOLEAN,
         job' = [Chain EXCEPT !.fed = Fed, !.left = @ - Take, !.open = b]
  PROVE  /\ job' \in [cmd : Commands, iv : Page, fed : Seq(Page), left : Nat,
                      bits : Nat, open : BOOLEAN]
         /\ job'.cmd = Chain.cmd /\ job'.iv = Chain.iv /\ job'.bits = Chain.bits
         /\ job'.fed = Fed /\ job'.left = Chain.left - Take /\ job'.open = b
<1>1. /\ Chain \in [cmd : Commands, iv : Page, fed : Seq(Page), left : Nat,
                    bits : Nat, open : BOOLEAN]
      /\ Fed \in Seq(Page) /\ Chain.left - Take \in Nat
  BY WindowTypes DEF MAX_PAGES
<1> HIDE DEF Chain
<1> QED
  BY <1>1

\* The same, for an operation that stays open until it has taken its last page.
LEMMA JobUntilTaken ==
  ASSUME TypeOK,
         job' = [Chain EXCEPT !.fed = Fed, !.left = @ - Take, !.open = Take < Chain.left]
  PROVE  /\ job' \in [cmd : Commands, iv : Page, fed : Seq(Page), left : Nat,
                      bits : Nat, open : BOOLEAN]
         /\ job'.cmd = Chain.cmd /\ job'.iv = Chain.iv /\ job'.bits = Chain.bits
         /\ job'.fed = Fed /\ job'.left = Chain.left - Take
         /\ job'.open <=> Take < Chain.left
<1> DEFINE more == Take < Chain.left
<1>1. more \in BOOLEAN /\ (more <=> Take < Chain.left)
  OBVIOUS
<1>2. job' = [Chain EXCEPT !.fed = Fed, !.left = @ - Take, !.open = more]
  OBVIOUS
<1> HIDE DEF more
<1>3. /\ job' \in [cmd : Commands, iv : Page, fed : Seq(Page), left : Nat,
                   bits : Nat, open : BOOLEAN]
      /\ job'.cmd = Chain.cmd /\ job'.iv = Chain.iv /\ job'.bits = Chain.bits
      /\ job'.fed = Fed /\ job'.left = Chain.left - Take /\ job'.open = more
  BY ONLY TypeOK, <1>1, <1>2, JobTypes
<1> QED
  BY <1>1, <1>3

LEMMA CbcKeepsInductive ==
  ASSUME Inductive, ShortCalls, EngineMakesPages, ExecCbc, UNCHANGED driver
  PROVE  Inductive'
<1>1. /\ ~ccif /\ call.op \in Cbc /\ command.cmd = call.op /\ ramKey # NoKey
      /\ Finish(NoError) /\ UNCHANGED <<ramKey, seeded>>
      /\ job' = [Chain EXCEPT !.fed = Fed, !.left = @ - Take, !.open = Take < Chain.left]
  BY StartedFacts DEF ExecCbc, ReadyFor
<1>2. call.op \notin Mac /\ call.op \notin {"InitRng", "Rng", "LoadPlainKey"}
  BY <1>1 DEF Cbc, Mac
<1>3. /\ Busy /\ TypeOK /\ pram \in [1 .. MAX_PAGES -> Page] /\ ramKey \in Page
      /\ pos \in Nat /\ UNCHANGED <<call, pos, sequence, mac_written, output>>
  BY <1>1, StartedFacts DEF driver, TypeOK
<1>4. Status' = NoError /\ NoError \in 0 .. HALFWORD - 1
  BY <1>1, StartedFacts, StatusWritten, KnownResultsFit
<1>5. StatusInv'
  BY <1>4 DEF StatusInv
<1>6. /\ RoundPages' = RoundPages /\ PageOffset' = PageOffset /\ Remaining' = Remaining
      /\ \A i : CbcPage(i)' = CbcPage(i)
  BY <1>1, <1>3 DEF RoundPages, Remaining, AvailPages, PageOffset, CbcPage
<1>7. \A p \in 1 .. MAX_PAGES :
        pram'[p] = IF p \in Base .. Base + Take - 1
                     THEN Cipher(ramKey, command.cmd, Chain.iv,
                                 SubSeq(Fed, 1, Len(Chain.fed) + p - Base + 1))
                     ELSE pram[p]
  BY DEF ExecCbc
<1>8. pram' \in [1 .. MAX_PAGES -> Page]
  <2>1. /\ Base \in {1, 2} /\ Take \in 0 .. MAX_PAGES + 1 - Base
        /\ Fed \in Seq(Page) /\ Len(Fed) = Len(Chain.fed) + Take
        /\ Chain.iv \in Page /\ Len(Chain.fed) \in Nat
    BY <1>3, WindowTypes
  <2>2. ASSUME NEW p \in Base .. Base + Take - 1
        PROVE  SubSeq(Fed, 1, Len(Chain.fed) + p - Base + 1) \in Seq(Page)
    <3> DEFINE n == Len(Chain.fed) + p - Base + 1
    <3>1. n \in Nat /\ n <= Len(Fed)
      BY <2>1 DEF MAX_PAGES
    <3> HIDE DEF n
    <3>2. SubSeq(Fed, 1, n) \in Seq(Page)
      BY <2>1, <3>1
    <3> QED
      BY <3>2 DEF n
  <2>3. \A p \in 1 .. MAX_PAGES : p \in Base .. Base + Take - 1 =>
          Cipher(ramKey, command.cmd, Chain.iv,
                 SubSeq(Fed, 1, Len(Chain.fed) + p - Base + 1)) \in Page
    BY <1>1, <1>3, <2>1, <2>2 DEF EngineMakesPages
  <2> QED
    BY <1>3, <2>3 DEF ExecCbc
<1>11. /\ job' \in [cmd : Commands, iv : Page, fed : Seq(Page), left : Nat,
                     bits : Nat, open : BOOLEAN]
       /\ job'.cmd = Chain.cmd /\ job'.iv = Chain.iv /\ job'.bits = Chain.bits
       /\ job'.fed = Fed /\ job'.left = Chain.left - Take
       /\ job'.open <=> Take < Chain.left
  BY <1>1, <1>3, JobUntilTaken
<1>9. CASE Len(call.msg.page) = 0
  <2>1. RoundPages = 0 /\ Remaining = 0
    BY <1>3, <1>9, RoundFacts, CallFacts DEF MAX_PAGES
  <2>2. FinishedInv'
    BY <1>1, <1>2, <1>3, <1>6, <2>1 DEF FinishedInv, Mac
  <2> QED
    BY <1>1, <1>3, <1>4, <1>5, <1>8, <1>11, <2>2, StartedFacts, FinishKeepsInductive
<1>10. CASE Len(call.msg.page) > 0
  <2>1. /\ Base = PageOffset /\ Take = RoundPages /\ Chain.left = Remaining
        /\ Fed = SubSeq(call.msg.page, 1, pos + RoundPages)
        /\ Len(Chain.fed) = pos /\ Chain.iv = call.arg
    BY <1>1, <1>10, WindowIsRound
  <2>2. /\ PageOffset \in {1, 2} /\ RoundPages \in 0 .. MAX_PAGES + 1 - PageOffset
        /\ Remaining \in Nat /\ pos + RoundPages \in Nat
        /\ pos + RoundPages <= Len(call.msg.page) /\ call.msg.page \in Seq(Page)
    BY <1>3, RoundFacts, CallFacts
  <2>3. ASSUME NEW i \in 1 .. RoundPages
        PROVE  pram'[PageOffset + i - 1] = CbcPage(pos + i)
    <3> DEFINE p == PageOffset + i - 1
    <3>0. /\ pos \in Nat /\ i \in Nat /\ i >= 1 /\ i <= RoundPages /\ RoundPages \in Nat
          /\ PageOffset \in {1, 2} /\ RoundPages <= MAX_PAGES + 1 - PageOffset
      BY <1>3, <2>2 DEF MAX_PAGES
    <3>1. /\ p \in 1 .. MAX_PAGES /\ p \in Base .. Base + Take - 1
          /\ Len(Chain.fed) + p - Base + 1 = pos + i
          /\ pos + i \in Nat /\ pos + i <= pos + RoundPages
      BY <2>1, <3>0 DEF MAX_PAGES
    <3>2. pram'[p] = Cipher(ramKey, call.op, call.arg, SubSeq(Fed, 1, pos + i))
      BY <1>1, <1>7, <2>1, <3>1
    <3>3. SubSeq(Fed, 1, pos + i) = SubSeq(call.msg.page, 1, pos + i)
      BY <2>1, <2>2, <3>1, SubSeqSubSeq
    <3> QED
      BY <3>2, <3>3 DEF CbcPage
  <2>4. ASSUME Remaining > RoundPages
        PROVE  EngineAt(pos + RoundPages)'
    <3>1. Take < Chain.left
      BY <2>1, <2>2, <2>4 DEF MAX_PAGES
    <3> QED
      BY <1>1, <1>3, <1>10, <1>11, <3>1, EngineAdvances
  <2>5. FinishedInv'
    BY <1>1, <1>2, <1>3, <1>6, <2>3, <2>4 DEF FinishedInv, Mac
  <2> QED
    BY <1>1, <1>3, <1>4, <1>5, <1>8, <1>11, <2>5, StartedFacts, FinishKeepsInductive
<1> QED
  BY <1>9, <1>10, CallFacts

LEMMA GenerateMacKeepsInductive ==
  ASSUME Inductive, ShortCalls, EngineMakesPages, ExecGenerateMac, UNCHANGED driver
  PROVE  Inductive'
<1>1. /\ ~ccif /\ call.op = "GenerateMac" /\ ramKey # NoKey
      /\ Finish(NoError) /\ UNCHANGED <<ramKey, seeded>>
      /\ job' = [Chain EXCEPT !.fed = Fed, !.left = @ - Take, !.open = Take < Chain.left]
  BY StartedFacts DEF ExecGenerateMac, ReadyFor
<1>2. call.op \in Mac /\ call.op \notin Cbc
      /\ call.op \notin {"InitRng", "Rng", "LoadPlainKey", "VerifyMac"}
  BY <1>1 DEF Cbc, Mac
<1>3. /\ Busy /\ TypeOK /\ pram \in [1 .. MAX_PAGES -> Page] /\ ramKey \in Page
      /\ UNCHANGED <<call, pos, sequence, mac_written, output>>
  BY <1>1, StartedFacts DEF driver
<1>4. Status' = NoError /\ NoError \in 0 .. HALFWORD - 1
  BY <1>1, StartedFacts, StatusWritten, KnownResultsFit
<1>5. StatusInv'
  BY <1>4 DEF StatusInv
<1>6. /\ RoundPages' = RoundPages /\ Remaining' = Remaining
      /\ (pos + RoundPages)' = pos + RoundPages
  BY <1>3 DEF RoundPages, Remaining, AvailPages, PageOffset
<1>7. /\ job' \in [cmd : Commands, iv : Page, fed : Seq(Page), left : Nat,
                   bits : Nat, open : BOOLEAN]
      /\ job'.cmd = Chain.cmd /\ job'.iv = Chain.iv /\ job'.bits = Chain.bits
      /\ job'.fed = Fed /\ job'.left = Chain.left - Take
      /\ job'.open <=> Take < Chain.left
  BY <1>1, <1>3, JobUntilTaken
<1>8. /\ Take = RoundPages /\ Chain.left = Remaining
      /\ Fed = SubSeq(call.msg.page, 1, pos + RoundPages)
      /\ Chain.bits = 8 * call.msg.bytes
  BY <1>1, <1>2, WindowIsRound
<1>9. /\ RoundPages \in Nat /\ Remaining = Len(call.msg.page) - pos /\ pos \in Nat
      /\ RoundPages <= Remaining /\ Len(call.msg.page) \in Nat
      /\ call.msg.page \in Seq(Page) /\ call.msg.bytes \in Nat
  BY <1>3, RoundFacts, CallFacts DEF MAX_PAGES
<1>10. /\ Fed \in Seq(Page) /\ Chain.bits \div 8 = call.msg.bytes
  BY <1>3, <1>8, <1>9, WindowTypes, BitsToPages
<1>11. Cmac(ramKey, Fed, Chain.bits \div 8) \in Page
  BY <1>3, <1>9, <1>10 DEF EngineMakesPages
<1>12. pram' \in [1 .. MAX_PAGES -> Page]
  BY <1>3, <1>11 DEF ExecGenerateMac
<1>13. Remaining > RoundPages => EngineAt(pos + RoundPages)'
  BY <1>1, <1>2, <1>7, <1>8, <1>9, EngineAdvances
<1>14. Remaining <= RoundPages =>
         pram'[2] = Cmac(ramKey, call.msg.page, call.msg.bytes)
  <2>1. SUFFICES ASSUME Remaining <= RoundPages
                 PROVE  pram'[2] = Cmac(ramKey, call.msg.page, call.msg.bytes)
    OBVIOUS
  <2>2. Take = Chain.left /\ pos + RoundPages = Len(call.msg.page)
    BY <1>8, <1>9, <2>1
  <2>3. SubSeq(call.msg.page, 1, Len(call.msg.page)) = call.msg.page
    BY <1>9
  <2>4. Fed = call.msg.page
    BY <1>8, <2>2, <2>3
  <2>5. pram' = [pram EXCEPT ![2] = Cmac(ramKey, Fed, Chain.bits \div 8)]
    BY <2>2 DEF ExecGenerateMac
  <2>6. 2 \in 1 .. MAX_PAGES
    BY DEF MAX_PAGES
  <2> QED
    BY <1>3, <1>10, <2>4, <2>5, <2>6
<1>15. FinishedInv'
  BY <1>1, <1>2, <1>3, <1>6, <1>13, <1>14 DEF FinishedInv
<1> QED
  BY <1>1, <1>2, <1>3, <1>4, <1>5, <1>7, <1>12, <1>15, StartedFacts, FinishKeepsInductive

\* The expected MAC went along with this round exactly when the driver put it there.
LEMMA MacIsPresent ==
  ASSUME Inductive, ShortCalls, ~ccif, call.op = "VerifyMac"
  PROVE  /\ MacPresent <=> mac_written
         /\ mac_written => /\ Remaining = RoundPages
                           /\ 1 + Take = next_page /\ next_page \in 1 .. MAX_PAGES
                           /\ pram[1 + Take] = call.arg
<1>1. call.op \in Mac /\ call.op \notin Cbc
  BY DEF Cbc, Mac
<1>2. /\ mac_written <=> next_page < MAX_PAGES
      /\ mac_written => pram[next_page] = call.arg
      /\ Busy
  BY StartedFacts DEF Inductive, StartedInv
<1>3. Take = RoundPages /\ Chain.left = Remaining
  BY <1>1, WindowIsRound
<1>4. /\ RoundPages \in Nat /\ Remaining \in Nat /\ RoundPages <= Remaining
      /\ RoundPages < Remaining => RoundPages = MAX_PAGES
  <2>1. PageOffset = 1
    BY <1>1 DEF PageOffset
  <2> QED
    BY <1>2, <2>1, RoundFacts DEF MAX_PAGES
<1>5. MacPresent <=> next_page < MAX_PAGES
  BY <1>3, <1>4 DEF MacPresent, next_page, MAX_PAGES
<1>6. next_page < MAX_PAGES => /\ Remaining = RoundPages /\ 1 + Take = next_page
                               /\ next_page \in 1 .. MAX_PAGES
  BY <1>3, <1>4 DEF next_page, MAX_PAGES
<1> QED
  BY <1>2, <1>5, <1>6

LEMMA VerifyMacKeepsInductive ==
  ASSUME Inductive, ShortCalls, EngineMakesPages, ExecVerifyMac, UNCHANGED driver
  PROVE  Inductive'
<1>1. /\ ~ccif /\ call.op = "VerifyMac" /\ ramKey # NoKey
      /\ Finish(NoError) /\ UNCHANGED <<ramKey, seeded>>
      /\ job' = [Chain EXCEPT !.fed = Fed, !.left = @ - Take, !.open = ~MacPresent]
  BY StartedFacts DEF ExecVerifyMac, ReadyFor
<1>2. call.op \in Mac /\ call.op \notin Cbc
      /\ call.op \notin {"InitRng", "Rng", "LoadPlainKey", "GenerateMac"}
  BY <1>1 DEF Cbc, Mac
<1>3. /\ Busy /\ TypeOK /\ pram \in [1 .. MAX_PAGES -> Page] /\ ramKey \in Page
      /\ UNCHANGED <<call, pos, sequence, mac_written, output>>
  BY <1>1, StartedFacts DEF driver
<1>4. Status' = NoError /\ NoError \in 0 .. HALFWORD - 1
  BY <1>1, StartedFacts, StatusWritten, KnownResultsFit
<1>5. StatusInv'
  BY <1>4 DEF StatusInv
<1>6. /\ RoundPages' = RoundPages /\ Remaining' = Remaining
      /\ (pos + RoundPages)' = pos + RoundPages
  BY <1>3 DEF RoundPages, Remaining, AvailPages, PageOffset
<1>7. /\ job' \in [cmd : Commands, iv : Page, fed : Seq(Page), left : Nat,
                   bits : Nat, open : BOOLEAN]
      /\ job'.cmd = Chain.cmd /\ job'.iv = Chain.iv /\ job'.bits = Chain.bits
      /\ job'.fed = Fed /\ job'.left = Chain.left - Take
      /\ job'.open <=> ~MacPresent
  <2> DEFINE more == ~MacPresent
  <2>1. more \in BOOLEAN /\ (more <=> ~MacPresent)
    BY DEF MacPresent
  <2>2. job' = [Chain EXCEPT !.fed = Fed, !.left = @ - Take, !.open = more]
    BY <1>1
  <2> HIDE DEF more
  <2>3. /\ job' \in [cmd : Commands, iv : Page, fed : Seq(Page), left : Nat,
                     bits : Nat, open : BOOLEAN]
        /\ job'.cmd = Chain.cmd /\ job'.iv = Chain.iv /\ job'.bits = Chain.bits
        /\ job'.fed = Fed /\ job'.left = Chain.left - Take /\ job'.open = more
    <3>1. TypeOK
      BY <1>3
    <3> QED
      BY ONLY <2>1, <2>2, <3>1, JobTypes
  <2> QED
    BY <2>1, <2>3
<1>8. /\ Take = RoundPages /\ Fed = SubSeq(call.msg.page, 1, pos + RoundPages)
      /\ Chain.bits = 8 * call.msg.bytes
  BY <1>1, <1>2, WindowIsRound
<1>9. /\ RoundPages \in Nat /\ Remaining = Len(call.msg.page) - pos /\ pos \in Nat
      /\ Len(call.msg.page) \in Nat /\ call.msg.page \in Seq(Page)
      /\ call.msg.bytes \in Nat /\ Chain.bits \div 8 = call.msg.bytes
  <2>1. call.msg.bytes \in Nat /\ call.msg.page \in Seq(Page) /\ Len(call.msg.page) \in Nat
    BY CallFacts
  <2>2. Chain.bits \div 8 = call.msg.bytes
    BY <1>8, <2>1, BitsToPages
  <2>3. RoundPages \in Nat /\ Remaining = Len(call.msg.page) - pos /\ pos \in Nat
    BY <1>3, RoundFacts DEF MAX_PAGES
  <2> QED
    BY <2>1, <2>2, <2>3
<1>10. 1 \in 1 .. MAX_PAGES /\ VerifyPass \in Page /\ VerifyFail \in Page
       /\ VerifyPass # VerifyFail
  BY DeviceAssumption DEF MAX_PAGES
<1>11. pram' \in [1 .. MAX_PAGES -> Page]
  BY <1>3, <1>10 DEF ExecVerifyMac
<1>12. ~mac_written => EngineAt(pos + RoundPages)'
  BY <1>1, <1>2, <1>7, MacIsPresent, EngineAdvances
<1>13. mac_written =>
         pram'[1] = IF call.arg = Cmac(ramKey, call.msg.page, call.msg.bytes)
                      THEN VerifyPass ELSE VerifyFail
  <2>1. SUFFICES ASSUME mac_written
                 PROVE  pram'[1] = IF call.arg = Cmac(ramKey, call.msg.page, call.msg.bytes)
                                     THEN VerifyPass ELSE VerifyFail
    OBVIOUS
  <2>2. MacPresent /\ Remaining = RoundPages /\ pram[1 + Take] = call.arg
    BY <1>1, <2>1, MacIsPresent
  <2>3. pos + RoundPages = Len(call.msg.page)
    BY <1>9, <2>2
  <2>4. Fed = call.msg.page
    BY <1>8, <1>9, <2>3
  <2>5. field[MAC_LENGTH_OFFSET] = 0
    BY DEF Inductive, UpperFieldsInv
  <2>6. PICK verified \in {VerifyPass, VerifyFail} :
          /\ verified = VerifyPass
               <=> pram[1 + Take] = Cmac(ramKey, Fed, Chain.bits \div 8)
          /\ pram' = [pram EXCEPT ![1] = verified]
    BY <2>2, <2>5 DEF ExecVerifyMac
  <2> QED
    BY <1>3, <1>9, <1>10, <2>2, <2>4, <2>6
<1>14. FinishedInv'
  BY <1>1, <1>2, <1>3, <1>6, <1>12, <1>13 DEF FinishedInv
<1> QED
  BY <1>1, <1>2, <1>3, <1>4, <1>5, <1>7, <1>11, <1>14, StartedFacts, FinishKeepsInductive

-----------------------------------------------------------------------------
(* The theorems.                                                                *)

LEMMA StutterKeepsInductive ==
  ASSUME Inductive, UNCHANGED vars
  PROVE  Inductive'
<1>1. UNCHANGED <<command, field, pram, ccif, ramKey, seeded, job,
                  pc, call, pos, sequence, mac_written, depth, output, result>>
  BY DEF vars, device, driver
<1>2. TypeOK'
  BY <1>1 DEF Inductive, TypeOK, DeviceTypeOK
<1>3. CallInv' /\ OutputIsPrefix'
  BY <1>1 DEF Inductive, CallInv, OutputIsPrefix, Busy, CbcAccepts, OutputUpTo, CbcPage,
              FieldsAnnounce, MessageBits
<1>4. UpperFieldsInv' /\ RoundInv' /\ StatusInv'
  BY <1>1 DEF Inductive, UpperFieldsInv, RoundInv, StatusInv, EngineAt, Status
<1>5. StartedInv'
  BY <1>1 DEF Inductive, StartedInv, EngineAt, RoundPages, Remaining, AvailPages,
              PageOffset, next_page
<1>6. FinishedInv'
  BY <1>1 DEF Inductive, FinishedInv, EngineAt, RoundPages, Remaining, AvailPages,
              PageOffset, CbcPage, Status
<1> QED
  BY <1>2, <1>3, <1>4, <1>5, <1>6 DEF Inductive

LEMMA NextKeepsInductive ==
  ASSUME Inductive, ShortCalls, EngineMakesPages, [Next]_vars
  PROVE  Inductive'
<1>1. CASE \E c \in Calls : Call(c)
  BY <1>1, CallKeepsInductive
<1>2. CASE single_round \/ process_blocks \/ process_blocks_verify
  BY <1>2, RoundsKeepInductive
<1>3. CASE \/ UnknownStatus \/ ReturnError \/ ReturnUnit \/ ReturnRnd
           \/ CollectCbc \/ CollectGenerateMac \/ CollectVerifyMac
  BY <1>3, CollectKeepsInductive
<1>4. CASE Engine
  <2>1. UNCHANGED driver
    BY <1>4 DEF Engine
  <2>2. CASE Refuse \/ Fault
    BY <2>1, <2>2, FailKeepsInductive
  <2>3. CASE ExecInitRng \/ ExecRng \/ ExecLoadPlainKey
    BY <2>1, <2>3, SimpleExecKeepsInductive
  <2>4. CASE ExecCbc
    BY <2>1, <2>4, CbcKeepsInductive
  <2>5. CASE ExecGenerateMac
    BY <2>1, <2>5, GenerateMacKeepsInductive
  <2>6. CASE ExecVerifyMac
    BY <2>1, <2>6, VerifyMacKeepsInductive
  <2> QED
    BY <1>4, <2>2, <2>3, <2>4, <2>5, <2>6 DEF Engine, DeviceStep
<1>5. CASE Halted \/ UNCHANGED vars
  BY <1>5, StutterKeepsInductive DEF Halted
<1> QED
  BY <1>1, <1>2, <1>3, <1>4, <1>5 DEF Next, DriverStep

\* Whatever the calls, their lengths (below 2^16 bits), their contents, the engine's
\* functions and its faults: driver and engine stay in step, call by call.
THEOREM AlwaysInductive ==
  ASSUME ShortCalls, EngineMakesPages
  PROVE  Spec => []Inductive
<1>1. Init => Inductive
  BY InductiveInit
<1>2. Inductive /\ [Next]_vars => Inductive'
  BY NextKeepsInductive
<1> QED
  BY <1>1, <1>2, PTL DEF Spec

\* No field of PRAM, buffer or result ever holds what its type in csec.rs does not.
THEOREM AlwaysTypeOK ==
  ASSUME ShortCalls, EngineMakesPages
  PROVE  Spec => []TypeOK
<1>1. Inductive => TypeOK
  BY DEF Inductive
<1> QED
  BY <1>1, AlwaysInductive, PTL

\* Between two rounds the engine is where the driver is.
THEOREM AlwaysInStep ==
  ASSUME ShortCalls, EngineMakesPages
  PROVE  Spec => []InStep
<1>1. Inductive => InStep
  BY DEF Inductive, InStep, RoundInv, CallInv, TypeOK, Busy
<1> QED
  BY <1>1, AlwaysInductive, PTL

\* The caller's buffer holds results up to some page and its old contents after it.
THEOREM AlwaysOutputIsPrefix ==
  ASSUME ShortCalls, EngineMakesPages
  PROVE  Spec => []OutputIsPrefix
<1>1. Inductive => OutputIsPrefix
  BY DEF Inductive
<1> QED
  BY <1>1, AlwaysInductive, PTL

\* When the engine is started for a MAC its length field says how long the message is, in
\* bits, for every message whose bits fit the lower halfword (csec.rs:338, 374, 653): that
\* is all LengthAnnounced wants, and without it the run mac_length refutes it.
THEOREM ShortLengthsAnnounced ==
  ASSUME ShortCalls, EngineMakesPages
  PROVE  Spec => []LengthAnnounced
<1>1. Inductive => LengthAnnounced
  BY DEF Inductive, CallInv, FieldsAnnounce, Busy, LengthAnnounced
<1> QED
  BY <1>1, AlwaysInductive, PTL

-----------------------------------------------------------------------------
(* The depth of the recursion.                                                *)

\* Rounds of the call under way that have ended.
Rounds == IF pc = "wait" THEN depth - 1 ELSE depth

\* Each of them took seven pages of the input, but for the first of CBC, which took six,
\* and for the one before the round of a MAC that found no room, which may have.
StackInv ==
  /\ StackBounded
  /\ Busy /\ call.op \in Cbc \cup Mac =>
       /\ MAX_PAGES * Rounds <= pos + 1
       /\ call.op \in Mac /\ Remaining > 0 => MAX_PAGES * Rounds <= pos
       /\ sequence = "First" => Rounds = 0
  /\ pc = "wait" /\ call.op = "VerifyMac" /\ ~mac_written => RoundPages >= MAX_PAGES - 1

LEMMA StackInvInit == Init => StackInv
<1> SUFFICES ASSUME Init PROVE StackInv
  OBVIOUS
<1>1. call \in Calls /\ Len(call.msg.page) \in Nat
  BY InductiveInit, CallsAssumption DEF Inductive, TypeOK, IsMessage
<1> QED
  BY <1>1 DEF Init, StackInv, StackBounded, Busy, MAX_PAGES

LEMMA CallKeepsStackInv ==
  ASSUME Inductive, NEW c \in Calls, Call(c)
  PROVE  StackInv'
<1>1. Start(c) /\ pc' \in {"round", "panicked"}
  BY DEF Call, init_rng, generate_rnd, load_plainkey, handle_cbc, generate_mac, verify_mac,
         StartPanics
<1>2. call' = c /\ pos' = 0 /\ depth' = 0 /\ sequence' = "First"
  BY <1>1 DEF Start
<1>3. Len(c.msg.page) \in Nat
  BY CallsAssumption DEF IsMessage
<1>4. StackBounded'
  BY <1>2, <1>3 DEF StackBounded, MAX_PAGES
<1>5. Rounds' = 0
  BY <1>1, <1>2 DEF Rounds
<1> QED
  BY <1>1, <1>2, <1>4, <1>5 DEF StackInv, MAX_PAGES

LEMMA RoundKeepsStackInv ==
  ASSUME Inductive, ShortCalls, StackInv,
         single_round \/ process_blocks \/ process_blocks_verify
  PROVE  StackInv'
<1>1. /\ pc = "round" /\ pc' = "wait" /\ Busy
      /\ UNCHANGED <<call, pos, sequence>>
  BY DEF single_round, process_blocks, process_blocks_verify, Round, Busy
<1>2. depth \in Nat /\ pos \in Nat /\ pos <= Len(call.msg.page) /\ Len(call.msg.page) \in Nat
  BY <1>1, CallFacts DEF Inductive, TypeOK, CallInv
<1>3. UNCHANGED <<RoundPages, Remaining>>
  BY <1>1 DEF RoundPages, Remaining, AvailPages, PageOffset
<1>4. CASE single_round
  <2>1. depth' = depth /\ call.op \notin Cbc \cup Mac /\ call.op # "VerifyMac"
    BY <1>4 DEF single_round, Round, Cbc, Mac
  <2> QED
    BY <1>1, <2>1 DEF StackInv, StackBounded
<1>5. CASE process_blocks \/ process_blocks_verify
  <2>1. depth' = depth + 1 /\ call.op \in Cbc \cup Mac
    BY <1>5 DEF process_blocks, process_blocks_verify, Round, Mac
  <2>2. Rounds' = Rounds /\ Rounds = depth
    BY <1>1, <1>2, <2>1 DEF Rounds
  <2>3. MAX_PAGES * depth <= pos + 1
    BY <1>1, <2>1, <2>2 DEF StackInv
  <2>4. StackBounded'
    BY <1>1, <1>2, <2>1, <2>3 DEF StackBounded, MAX_PAGES
  <2>5. call.op = "VerifyMac" /\ ~mac_written' => RoundPages >= MAX_PAGES - 1
    <3>1. CASE process_blocks
      BY <3>1 DEF process_blocks, Round, Cbc
    <3>2. CASE process_blocks_verify
      <4>1. ~mac_written' => ~AppendsMac /\ ~mac_written
        BY <3>2 DEF process_blocks_verify
      <4>2. RoundPages \in Nat
        BY <1>1, RoundFacts DEF MAX_PAGES
      <4> QED
        BY <4>1, <4>2 DEF AppendsMac, next_page, MAX_PAGES
    <3> QED
      BY <1>5, <3>1, <3>2
  <2>6. /\ MAX_PAGES * Rounds' <= pos' + 1
        /\ call'.op \in Mac /\ Remaining' > 0 => MAX_PAGES * Rounds' <= pos'
        /\ sequence' = "First" => Rounds' = 0
    BY <1>1, <1>3, <2>1, <2>2 DEF StackInv
  <2> QED
    BY <1>1, <1>3, <2>4, <2>5, <2>6 DEF StackInv
<1> QED
  BY <1>4, <1>5

LEMMA RecurseKeepsStackInv ==
  ASSUME Inductive, ShortCalls, StackInv, pc = "wait", UNCHANGED call, Recurse,
         call.op \in Cbc \cup Mac,
         \/ Remaining > RoundPages
         \/ call.op = "VerifyMac" /\ ~mac_written
  PROVE  StackInv'
<1>1. /\ pc' = "round" /\ pos' = pos + RoundPages /\ depth' = depth
      /\ sequence' = "Subsequent"
  BY DEF Recurse
<1>2. depth \in Nat /\ Busy
  BY DEF Inductive, TypeOK, Busy
<1>3. /\ pos \in Nat /\ RoundPages \in Nat /\ Remaining \in Nat
      /\ Remaining = Len(call.msg.page) - pos /\ Len(call.msg.page) \in Nat
      /\ RoundPages <= Remaining
      /\ PageOffset \in {1, 2}
      /\ RoundPages \in 0 .. MAX_PAGES + 1 - PageOffset
      /\ RoundPages < Remaining => RoundPages = MAX_PAGES + 1 - PageOffset
  BY <1>2, CallFacts, RoundFacts DEF MAX_PAGES
<1>4. /\ MAX_PAGES * (depth - 1) <= pos + 1
      /\ call.op \in Mac /\ Remaining > 0 => MAX_PAGES * (depth - 1) <= pos
      /\ sequence = "First" => depth - 1 = 0
  BY <1>2 DEF StackInv, Rounds
<1>5. Remaining' = Remaining - RoundPages
  BY <1>1, <1>3 DEF Remaining
<1>6. call.op = "VerifyMac" /\ ~mac_written => RoundPages >= MAX_PAGES - 1
  BY DEF StackInv
<1>7. /\ MAX_PAGES * depth <= pos + RoundPages + 1
      /\ call.op \in Mac /\ Remaining - RoundPages > 0 => MAX_PAGES * depth <= pos + RoundPages
  <2>1. CASE call.op \in Mac
    <3>1. PageOffset = 1
      BY <2>1 DEF PageOffset, Cbc, Mac
    <3>2. RoundPages >= 6
      BY <1>3, <1>6, <3>1 DEF MAX_PAGES
    <3>3. 7 * (depth - 1) <= pos
      BY <1>3, <1>4, <2>1, <3>2 DEF MAX_PAGES
    <3> QED
      BY <1>2, <1>3, <3>1, <3>2, <3>3 DEF MAX_PAGES
  <2>2. CASE call.op \in Cbc
    <3>1. call.op \notin Mac /\ RoundPages = MAX_PAGES + 1 - PageOffset
      BY <1>3, <2>2 DEF Cbc, Mac
    <3>2. CASE sequence = "First"
      BY <1>2, <1>3, <1>4, <2>2, <3>1, <3>2 DEF PageOffset, MAX_PAGES
    <3>3. CASE sequence # "First"
      BY <1>2, <1>3, <1>4, <2>2, <3>1, <3>3 DEF PageOffset, MAX_PAGES
    <3> QED
      BY <3>2, <3>3
  <2> QED
    BY <2>1, <2>2
<1>8. Rounds' = depth
  BY <1>1 DEF Rounds
<1>9. StackBounded'
  BY <1>1 DEF StackInv, StackBounded
<1> QED
  BY <1>1, <1>5, <1>7, <1>8, <1>9 DEF StackInv

LEMMA CollectKeepsStackInv ==
  ASSUME Inductive, ShortCalls, StackInv,
         \/ UnknownStatus \/ ReturnError \/ ReturnUnit \/ ReturnRnd
         \/ CollectCbc \/ CollectGenerateMac \/ CollectVerifyMac
  PROVE  StackInv'
<1>1. pc = "wait" /\ call' = call
  BY DEF UnknownStatus, ReturnError, ReturnUnit, ReturnRnd, CollectCbc, CollectGenerateMac,
         CollectVerifyMac, Succeeded, Collect
<1>2. ASSUME NEW status, NEW value, Return(status, value)
      PROVE  StackInv'
  <2>1. pc' = "idle" /\ depth' = 0 /\ Len(call.msg.page) \in Nat
    BY <1>2, CallFacts DEF Return
  <2> QED
    BY <1>1, <2>1 DEF StackInv, StackBounded, Busy, MAX_PAGES
<1>3. CASE UnknownStatus
  <2>1. pc' = "panicked" /\ depth' = depth
    BY <1>3 DEF UnknownStatus
  <2> QED
    BY <1>1, <2>1 DEF StackInv, StackBounded, Busy
<1>4. CASE ReturnError \/ ReturnUnit \/ ReturnRnd
  BY <1>2, <1>4 DEF ReturnError, ReturnUnit, ReturnRnd
<1>5. CASE CollectCbc
  <2>1. call.op \in Cbc
    BY <1>5 DEF CollectCbc, Succeeded
  <2>2. CASE Remaining > RoundPages
    BY <1>1, <1>5, <2>1, <2>2, RecurseKeepsStackInv DEF CollectCbc
  <2>3. CASE ~(Remaining > RoundPages)
    BY <1>2, <1>5, <2>3 DEF CollectCbc
  <2> QED
    BY <2>2, <2>3
<1>6. CASE CollectGenerateMac
  <2>1. call.op \in Mac
    BY <1>6 DEF CollectGenerateMac, Succeeded, Mac
  <2>2. CASE Remaining > RoundPages
    BY <1>1, <1>6, <2>1, <2>2, RecurseKeepsStackInv DEF CollectGenerateMac
  <2>3. CASE ~(Remaining > RoundPages)
    BY <1>2, <1>6, <2>3 DEF CollectGenerateMac
  <2> QED
    BY <2>2, <2>3
<1>7. CASE CollectVerifyMac
  <2>1. call.op = "VerifyMac" /\ call.op \in Mac
    BY <1>7 DEF CollectVerifyMac, Succeeded, Mac
  <2>2. CASE ~mac_written
    BY <1>1, <1>7, <2>1, <2>2, RecurseKeepsStackInv DEF CollectVerifyMac
  <2>3. CASE mac_written
    BY <1>2, <1>7, <2>3 DEF CollectVerifyMac
  <2> QED
    BY <2>2, <2>3
<1> QED
  BY <1>3, <1>4, <1>5, <1>6, <1>7

LEMMA AlwaysStackInv ==
  ASSUME ShortCalls, EngineMakesPages
  PROVE  Spec => [](Inductive /\ StackInv)
<1>1. Init => Inductive /\ StackInv
  BY InductiveInit, StackInvInit
<1>2. Inductive /\ StackInv /\ [Next]_vars => Inductive' /\ StackInv'
  <2> SUFFICES ASSUME Inductive, StackInv, [Next]_vars PROVE Inductive' /\ StackInv'
    OBVIOUS
  <2>1. CASE \E c \in Calls : Call(c)
    BY <2>1, CallKeepsStackInv, NextKeepsInductive
  <2>2. CASE single_round \/ process_blocks \/ process_blocks_verify
    BY <2>2, RoundKeepsStackInv, NextKeepsInductive
  <2>3. CASE \/ UnknownStatus \/ ReturnError \/ ReturnUnit \/ ReturnRnd
             \/ CollectCbc \/ CollectGenerateMac \/ CollectVerifyMac
    BY <2>3, CollectKeepsStackInv, NextKeepsInductive
  <2>4. CASE Engine \/ Halted \/ UNCHANGED vars
    <3>1. UNCHANGED driver
      BY <2>4 DEF Engine, Halted, vars
    <3>2. UNCHANGED <<pc, call, pos, sequence, mac_written, depth>>
      BY <3>1 DEF driver
    <3> QED
      BY <3>2, NextKeepsInductive DEF StackInv, StackBounded, Busy, Rounds, Remaining,
         RoundPages, AvailPages, PageOffset
  <2> QED
    BY <2>1, <2>2, <2>3, <2>4 DEF Next, DriverStep
<1> QED
  BY <1>1, <1>2, PTL DEF Spec

\* For every call: one frame of process_blocks per seven pages of its input, and at most
\* one more, whatever the engine answers (csec.rs:355, 408, 474).
THEOREM AlwaysStackBounded ==
  ASSUME ShortCalls, EngineMakesPages
  PROVE  Spec => []StackBounded
<1>1. StackInv => StackBounded
  BY DEF StackInv
<1> QED
  BY <1>1, AlwaysStackInv, PTL

-----------------------------------------------------------------------------
(* How far a call has still to go.  Liveness needs the fairness of CPU and engine, *)
(* but that no round is for nothing needs none.                                    *)

\* Three steps for each page that is left, and those of the round under way: the header,
\* the engine, the result.
CallWork ==
  CASE pc = "round"          -> 3 * Remaining + 3
    [] pc = "wait" /\ ~ccif  -> 3 * Remaining + 2
    [] pc = "wait" /\ ccif   -> 3 * Remaining + 1
    [] OTHER                 -> 0

\* Every step made during a call, of the CPU or the engine, brings its end nearer: a
\* recursion of process_blocks always consumes a page, also when verify_mac goes round again
\* only to place the MAC, and no round is ever made twice (csec.rs:408, 440, 474).
CallsShrink == [][Busy => CallWork' < CallWork]_vars

\* No call, of whatever length, has more than that before it, and none less than nothing.
WorkBounded == CallWork \in 0 .. 3 * Len(call.msg.page) + 3

\* What is left of a call, in numbers.
LEMMA WorkFacts ==
  ASSUME Inductive, ShortCalls
  PROVE  /\ Busy => Remaining \in Nat /\ RoundPages \in Nat /\ RoundPages <= Remaining
         /\ WorkBounded
<1>1. pc \in {"idle", "round", "wait", "panicked"} /\ ccif \in BOOLEAN
  BY DEF Inductive, TypeOK, DeviceTypeOK
<1>2. Busy => Remaining \in Nat /\ RoundPages \in Nat /\ RoundPages <= Remaining
  BY CallFacts, RoundFacts DEF MAX_PAGES
<1>3. Len(call.msg.page) \in Nat /\ (Busy => Remaining <= Len(call.msg.page))
  BY CallFacts DEF Remaining, Inductive, TypeOK
<1>4. PICK n \in Nat : n = Len(call.msg.page)
  BY <1>3
<1>5. CASE Busy
  <2>1. PICK r \in 0 .. n : r = Remaining
    BY <1>2, <1>3, <1>4, <1>5
  <2>2. CallWork \in {3 * r + 3, 3 * r + 2, 3 * r + 1}
    BY <1>1, <1>5, <2>1 DEF CallWork, Busy
  <2> QED
    BY <1>2, <1>4, <2>1, <2>2 DEF WorkBounded
<1>6. CASE ~Busy
  <2>1. CallWork = 0
    BY <1>6 DEF CallWork, Busy
  <2> QED
    BY <1>2, <1>4, <1>6, <2>1 DEF WorkBounded
<1> QED
  BY <1>5, <1>6

\* A recursion has at least the page that made it necessary behind it.
LEMMA RecurseShrinks ==
  ASSUME Inductive, ShortCalls, StackInv, pc = "wait", ccif, UNCHANGED call, Recurse,
         call.op \in Cbc \cup Mac,
         \/ Remaining > RoundPages
         \/ call.op = "VerifyMac" /\ ~mac_written
  PROVE  CallWork' < CallWork
<1>1. pc' = "round" /\ pos' = pos + RoundPages /\ pos \in Nat /\ Len(call.msg.page) \in Nat
  BY CallFacts DEF Recurse, Inductive, TypeOK
<1>2. /\ Remaining \in Nat /\ RoundPages \in Nat
      /\ PageOffset \in {1, 2}
      /\ RoundPages < Remaining => RoundPages = MAX_PAGES + 1 - PageOffset
  BY CallFacts, RoundFacts DEF MAX_PAGES, Busy
<1>3. RoundPages >= 1
  BY <1>2 DEF StackInv, MAX_PAGES
<1>4. Remaining' = Remaining - RoundPages
  BY <1>1, <1>2 DEF Remaining
<1>5. CallWork = 3 * Remaining + 1 /\ CallWork' = 3 * Remaining' + 3
  BY <1>1 DEF CallWork
<1> QED
  BY <1>2, <1>3, <1>4, <1>5

LEMMA StepShrinks ==
  ASSUME Inductive, ShortCalls, StackInv, Busy, Next
  PROVE  CallWork' < CallWork
<1>1. Remaining \in Nat
  BY WorkFacts
<1>2. CASE single_round \/ process_blocks \/ process_blocks_verify
  <2>1. /\ pc = "round" /\ pc' = "wait" /\ ~ccif' /\ Remaining' = Remaining
    BY <1>2 DEF single_round, process_blocks, process_blocks_verify, Round, write_command_header,
       Remaining
  <2> QED
    BY <1>1, <2>1 DEF CallWork
<1>3. CASE Engine
  <2>1. ~ccif /\ ccif' /\ UNCHANGED driver
    BY <1>3 DEF Engine, DeviceStep, Refuse, Fault, Fail, Finish, ExecInitRng, ExecRng,
       ExecLoadPlainKey, ReadyFor, ExecCbc, ExecGenerateMac, ExecVerifyMac
  <2>2. pc = "wait" /\ pc' = pc /\ Remaining' = Remaining
    BY <2>1 DEF Inductive, StartedInv, driver, Remaining
  <2> QED
    BY <1>1, <2>1, <2>2 DEF CallWork
<1>4. ASSUME pc = "wait", ccif, pc' \in {"idle", "panicked"}
      PROVE  CallWork' < CallWork
  BY <1>1, <1>4 DEF CallWork
<1>5. CASE UnknownStatus \/ ReturnError \/ ReturnUnit \/ ReturnRnd
  BY <1>4, <1>5 DEF UnknownStatus, ReturnError, ReturnUnit, ReturnRnd, Succeeded, Collect, Return
<1>6. CASE CollectCbc \/ CollectGenerateMac \/ CollectVerifyMac
  <2>1. pc = "wait" /\ ccif /\ call' = call /\ call.op \in Cbc \cup Mac
    BY <1>6 DEF CollectCbc, CollectGenerateMac, CollectVerifyMac, Succeeded, Collect, Mac
  <2>2. \/ /\ Recurse
           /\ Remaining > RoundPages \/ (call.op = "VerifyMac" /\ ~mac_written)
        \/ \E status, value : Return(status, value)
    BY <1>6 DEF CollectCbc, CollectGenerateMac, CollectVerifyMac, Succeeded
  <2> QED
    BY <1>4, <2>1, <2>2, RecurseShrinks DEF Return
<1>7. CASE \E c \in Calls : Call(c)
  <2>1. pc = "idle"
    BY <1>7 DEF Call, init_rng, generate_rnd, load_plainkey, handle_cbc, generate_mac, verify_mac,
       StartPanics, Start
  <2> QED
    BY <2>1 DEF Busy
<1>8. CASE Halted
  BY <1>8 DEF Halted, Busy
<1> QED
  BY <1>2, <1>3, <1>5, <1>6, <1>7, <1>8 DEF Next, DriverStep

\* For every input: the end of a call is at most three steps for each of its pages and three
\* more away, and every step the CPU or the engine takes is one of them.  What CallsReturn
\* adds is that they take it.
THEOREM CallsComeNearer ==
  ASSUME ShortCalls, EngineMakesPages
  PROVE  Spec => []WorkBounded /\ CallsShrink
<1> DEFINE I == Inductive /\ StackInv
           Shrinks == Busy => CallWork' < CallWork
<1>1. I => WorkBounded
  BY WorkFacts
<1>2. I /\ [Next]_vars => [Shrinks]_vars
  BY StepShrinks
<1>3. Spec => []I
  BY AlwaysStackInv
<1> HIDE DEF I, Shrinks
<1>4. Spec => []WorkBounded /\ [][Shrinks]_vars
  BY <1>1, <1>2, <1>3, PTL DEF Spec
<1> QED
  BY <1>4 DEF CallsShrink, Shrinks

-----------------------------------------------------------------------------
(* The driver and the engine together give CryptoService: every step is one of  *)
(* its steps, or none.                                                          *)

LEMMA ServiceInit == Init => Service!Init
BY CallsAssumption DEF Init, DeviceInit, Service!Init, NoResult, Returned

\* The first statements of a call accept it, or panic on it.
LEMMA CallAccepts ==
  ASSUME NEW c \in Calls, Call(c)
  PROVE  Service!Accept
<1> USE DEF Service!Accept, Service!Legal, Service!CbcOps, Start, StartPanics, NoResult, Returned,
            CbcAccepts, PAGE_SIZE_IN_BYTES, Cbc
<1>1. CASE init_rng(c) \/ generate_rnd(c) \/ load_plainkey(c)
  BY <1>1 DEF init_rng, generate_rnd, load_plainkey
<1>2. CASE handle_cbc(c)
  BY <1>2 DEF handle_cbc
<1>3. CASE generate_mac(c) \/ verify_mac(c)
  BY <1>3 DEF generate_mac, verify_mac
<1> QED
  BY <1>1, <1>2, <1>3 DEF Call

\* A round, the recursion and an engine at work on pages go unseen.
LEMMA RoundsUnseen ==
  ASSUME Busy, Busy', UNCHANGED <<call, result, ramKey, seeded>>
  PROVE  UNCHANGED Service!service
BY DEF Busy, Service!service

LEMMA RoundStutters ==
  ASSUME single_round \/ process_blocks \/ process_blocks_verify
  PROVE  UNCHANGED Service!service
<1>1. Busy /\ Busy' /\ UNCHANGED <<call, result, ramKey, seeded>>
  BY DEF single_round, process_blocks, process_blocks_verify, Round, Busy
<1> QED
  BY <1>1, RoundsUnseen

\* The engine installs the key of the call, or seeds the generator.
LEMMA EngineServes ==
  ASSUME Inductive, Engine
  PROVE  [Service!Next]_(Service!service)
<1>1. ~ccif /\ UNCHANGED <<pc, call, result>>
  BY DEF Engine, driver, DeviceStep, Refuse, Fault, ExecInitRng, ExecRng, ExecLoadPlainKey,
         ReadyFor, ExecCbc, ExecGenerateMac, ExecVerifyMac
<1>2. pc = "wait" /\ command.cmd = call.op
  BY <1>1 DEF Inductive, StartedInv
<1>3. CASE ExecInitRng
  <2>1. Service!Seed
    BY <1>1, <1>2, <1>3 DEF ExecInitRng, Service!Seed
  <2> QED
    BY <2>1 DEF Service!Next
<1>4. CASE ExecLoadPlainKey
  <2>1. sequence = "First"
    BY <1>2, <1>4
    DEF ExecLoadPlainKey, Inductive, CallInv, TypeOK, Busy, Cbc, Mac
  <2>2. ramKey' = call.arg
    BY <1>1, <1>2, <1>4, <2>1 DEF ExecLoadPlainKey, Inductive, StartedInv
  <2>3. Service!Install
    BY <1>1, <1>2, <1>4, <2>2 DEF ExecLoadPlainKey, Service!Install
  <2> QED
    BY <2>3 DEF Service!Next
<1>5. CASE UNCHANGED <<ramKey, seeded>>
  BY <1>1, <1>2, <1>5, RoundsUnseen DEF Busy
<1> QED
  BY <1>3, <1>4, <1>5
  DEF Engine, DeviceStep, Refuse, Fault, Fail, ExecRng, ExecCbc, ExecGenerateMac, ExecVerifyMac

\* What a driver that has collected an Ok returns.
LEMMA ReturnsOk ==
  ASSUME NEW v, Collect, Return(NoError, v), Service!Enabling(call),
         v \in Service!Values(call, ramKey)
  PROVE  Service!AnswerOk
BY DEF Collect, Return, Returned, NoError, device, Service!AnswerOk, Service!NoError

\* An error returned is one the engine has reason to report; a status that no
\* CommandResult stands for is a fault of its own.
LEMMA ErrorsExplained ==
  ASSUME Inductive, Collect, Status # NoError
  PROVE  /\ Status \in KnownResults => Status \in Service!Errors(call)
         /\ Status \notin KnownResults =>
              Faults \ (Service!KnownErrors \cup {Service!NoError}) # {}
<1>1. \/ Status \in Faults
      \/ Status = KeyEmpty /\ call.op \in Cbc \cup Mac /\ ramKey = NoKey
      \/ Status = RngSeed /\ call.op = "Rng" /\ ~seeded
  BY DEF Inductive, StatusInv, Collect
<1> QED
  BY <1>1
  DEF KnownResults, NoError, KeyEmpty, RngSeed, Cbc, Mac, Service!Errors, Service!KnownErrors,
      Service!KeyEmpty, Service!RngSeed, Service!NoError, Service!CbcOps, Service!MacOps

\* After the last round the caller's buffer holds the whole result.
LEMMA LastRoundCompletes ==
  ASSUME Inductive, ShortCalls, CollectCbc, Remaining <= RoundPages
  PROVE  output' = Service!CbcResult(ramKey, call)
<1>1. pc = "wait" /\ ccif /\ Status = NoError /\ call.op \in Cbc /\ Busy /\ output' = ReadOutput
  BY DEF CollectCbc, Succeeded, Collect, Busy
<1>2. /\ Len(output) = Len(call.msg.page) /\ OutputUpTo(pos)
      /\ \A n \in 1 .. RoundPages : pram[PageOffset + n - 1] = CbcPage(pos + n)
  BY <1>1 DEF Inductive, CallInv, FinishedInv
<1>3. /\ pos \in Nat /\ RoundPages \in Nat /\ pos + RoundPages = Len(call.msg.page)
      /\ PageOffset \in {1, 2}
  BY <1>1, RoundFacts, CallFacts DEF MAX_PAGES
<1>4. ASSUME NEW n \in 1 .. Len(output)
      PROVE  (IF n \in pos + 1 .. pos + RoundPages THEN pram[PageOffset + n - pos - 1]
                                                  ELSE output[n]) = CbcPage(n)
  <2>1. CASE n <= pos
    BY <1>2, <1>3, <2>1 DEF OutputUpTo
  <2>2. CASE n > pos
    <3>1. n - pos \in 1 .. RoundPages /\ pos + (n - pos) = n
      BY <1>2, <1>3, <2>2
    <3>2. pram[PageOffset + (n - pos) - 1] = CbcPage(n)
      BY <1>2, <3>1
    <3>3. PageOffset + (n - pos) - 1 = PageOffset + n - pos - 1
      BY <1>3
    <3> QED
      BY <1>2, <1>3, <2>2, <3>2, <3>3
  <2> QED
    BY <1>3, <2>1, <2>2
<1>5. ReadOutput = [n \in 1 .. Len(output) |-> CbcPage(n)]
  BY <1>4 DEF ReadOutput
<1> QED
  BY <1>1, <1>2, <1>5 DEF CbcPage, Service!CbcResult

\* The driver looks at the status and returns, or runs the next round.
LEMMA CollectServes ==
  ASSUME Inductive, ShortCalls,
         \/ UnknownStatus \/ ReturnError \/ ReturnUnit \/ ReturnRnd
         \/ CollectCbc \/ CollectGenerateMac \/ CollectVerifyMac
  PROVE  [Service!Next]_(Service!service)
<1> USE DEF Service!Next
<1>1. /\ pc = "wait" /\ ccif /\ Busy /\ Collect
      /\ UNCHANGED <<call, ramKey, seeded>>
  BY DEF UnknownStatus, ReturnError, ReturnUnit, ReturnRnd, CollectCbc, CollectGenerateMac,
         CollectVerifyMac, Succeeded, Collect, Busy, device
<1>2. CASE Recurse
  BY <1>1, <1>2, RoundsUnseen DEF Recurse, Busy
<1>3. CASE UnknownStatus
  <2>1. Faults \ (Service!KnownErrors \cup {Service!NoError}) # {}
    BY <1>1, <1>3, ErrorsExplained DEF UnknownStatus, KnownResults, NoError
  <2>2. Service!Halt
    BY <1>1, <1>3, <2>1 DEF UnknownStatus, Service!Halt
  <2> QED
    BY <2>2
<1>4. CASE ReturnError
  <2>1. Status \in Service!Errors(call)
    BY <1>1, <1>4, ErrorsExplained DEF ReturnError
  <2>2. Service!AnswerError
    BY <1>1, <1>4, <2>1 DEF ReturnError, Return, Returned, Service!AnswerError
  <2> QED
    BY <2>2
<1> DEFINE Known == /\ call.op \in {"InitRng", "Rng"} => seeded
                    /\ call.op = "LoadPlainKey" => ramKey = call.arg
                    /\ call.op \in Cbc \cup Mac => ramKey # NoKey
<1>5. Status = NoError => Known
  BY <1>1 DEF Inductive, FinishedInv
<1>6. Known => Service!Enabling(call)
  BY DEF Service!Enabling, Service!CbcOps, Service!MacOps, Cbc, Mac
<1> HIDE DEF Known
<1>7. CASE ReturnUnit
  <2>1. <<>> \in Service!Values(call, ramKey) /\ Return(NoError, <<>>) /\ Status = NoError
    BY <1>7 DEF ReturnUnit, Succeeded, Service!Values, Service!CbcOps
  <2> QED
    BY <1>1, <1>5, <1>6, <2>1, ReturnsOk
<1>8. CASE ReturnRnd
  <2>1. call.op = "Rng" /\ pram[1] \in RandomPage
    BY <1>1, <1>8 DEF ReturnRnd, Succeeded, Inductive, FinishedInv
  <2>2. <<pram[1]>> \in Service!Values(call, ramKey)
    BY <2>1 DEF Service!Values, Service!CbcOps
  <2>3. Return(NoError, <<pram[1]>>) /\ Status = NoError
    BY <1>8 DEF ReturnRnd, Succeeded
  <2> QED
    BY <1>1, <1>5, <1>6, <2>2, <2>3, ReturnsOk
<1>9. CASE CollectCbc /\ ~Recurse
  <2>1. ~(Remaining > RoundPages) /\ Return(NoError, output') /\ Status = NoError
        /\ call.op \in Cbc
    BY <1>9 DEF CollectCbc, Succeeded
  <2>2. Remaining <= RoundPages
    BY <1>1, <2>1, RoundFacts DEF MAX_PAGES
  <2>3. output' \in Service!Values(call, ramKey)
    BY <1>9, <2>1, <2>2, LastRoundCompletes DEF Service!Values, Service!CbcOps, Cbc
  <2> QED
    BY <1>1, <1>5, <1>6, <2>1, <2>3, ReturnsOk
<1>10. CASE CollectGenerateMac /\ ~Recurse
  <2>1. ~(Remaining > RoundPages) /\ Return(NoError, <<pram[2]>>) /\ Status = NoError
        /\ call.op = "GenerateMac"
    BY <1>10 DEF CollectGenerateMac, Succeeded
  <2>2. Remaining <= RoundPages
    BY <1>1, <2>1, RoundFacts DEF MAX_PAGES
  <2>3. pram[2] = Cmac(ramKey, call.msg.page, call.msg.bytes)
    BY <1>1, <2>1, <2>2 DEF Inductive, FinishedInv
  <2>4. <<pram[2]>> \in Service!Values(call, ramKey)
    BY <2>1, <2>3 DEF Service!Values, Service!CbcOps, Service!MacOf
  <2> QED
    BY <1>1, <1>5, <1>6, <2>1, <2>4, ReturnsOk
<1>11. CASE CollectVerifyMac /\ ~Recurse
  <2> DEFINE verified == IF pram[1] = VerifyPass THEN VerifyPass ELSE VerifyFail
  <2>1. mac_written /\ Return(NoError, <<verified>>) /\ Status = NoError /\ call.op = "VerifyMac"
    BY <1>11 DEF CollectVerifyMac, Succeeded
  <2>2. pram[1] = IF call.arg = Cmac(ramKey, call.msg.page, call.msg.bytes)
                    THEN VerifyPass ELSE VerifyFail
    BY <1>1, <2>1 DEF Inductive, FinishedInv
  <2>3. verified = IF call.arg = Cmac(ramKey, call.msg.page, call.msg.bytes)
                    THEN VerifyPass ELSE VerifyFail
    BY <2>2, DeviceAssumption
  <2> HIDE DEF verified
  <2>4. <<verified>> \in Service!Values(call, ramKey)
    BY <2>1, <2>3 DEF Service!Values, Service!CbcOps, Service!MacOf
  <2> QED
    BY <1>1, <1>5, <1>6, <2>1, <2>4, ReturnsOk
<1> QED
  BY <1>2, <1>3, <1>4, <1>7, <1>8, <1>9, <1>10, <1>11

LEMMA StepServes ==
  ASSUME Inductive, ShortCalls, [Next]_vars
  PROVE  [Service!Next]_(Service!service)
<1>1. ASSUME NEW c \in Calls, Call(c) PROVE Service!Next
  BY <1>1, CallAccepts DEF Service!Next
<1>2. CASE DriverStep
  BY <1>2, RoundStutters, CollectServes DEF DriverStep
<1>3. CASE Engine
  BY <1>3, EngineServes
<1>4. CASE UNCHANGED vars
  BY <1>4 DEF vars, device, driver, Service!service
<1> QED
  BY <1>1, <1>2, <1>3, <1>4 DEF Next, Halted

\* Calls, rounds, fields, CCIF and the recursion of process_blocks together are the service
\* their callers take csec.rs for: one call at a time, answered with the AES function of its
\* arguments under the key loaded last, or with an error the peripheral has reason to report
\* (csec.rs:307-476, :518).
THEOREM DriverIsService ==
  ASSUME ShortCalls, EngineMakesPages
  PROVE  Spec => ServiceSpec
<1>1. Inductive /\ [Next]_vars => [Service!Next]_(Service!service)
  BY StepServes
<1> QED
  BY <1>1, ServiceInit, AlwaysInductive, PTL DEF Spec, ServiceSpec, Service!Spec
-----------------------------------------------------------------------------
(* The integration test, on what the service promises: it goes through its seven *)
(* calls, whatever its lengths, and stops only on a fault of the engine.         *)

Messages == {m \in [page : Seq(Page), bytes : Nat] : IsMessage(m)}

\* The client may make any call whose length fits.
CallsComplete ==
  \A c \in [op : Commands, msg : Messages, arg : Page, room : Nat] : Short(c) => c \in Calls

\* The test's lengths: the buffers are as long as the message, which is a number of pages;
\* the message authenticated is not empty.
MatchingPrograms ==
  /\ PlainKey \in Page /\ ZeroPage \in Page
  /\ \A p \in Programs :
       /\ p.plaintext \in Messages /\ p.mac_text \in Messages
       /\ p.size = p.plaintext.bytes /\ p.size % 16 = 0
       /\ 8 * p.size < HALFWORD
       /\ p.mac_text.bytes > 0 /\ 8 * p.mac_text.bytes < HALFWORD

Encrypted(k, iv, s) == [i \in 1 .. Len(s) |-> Cipher(k, "EncCbc", iv, SubSeq(s, 1, i))]
Decrypted(k, iv, s) == [i \in 1 .. Len(s) |-> Cipher(k, "DecCbc", iv, SubSeq(s, 1, i))]

\* AES undoes what it has done.
DecryptsBack ==
  \A k, iv \in Page, s \in Seq(Page) : Decrypted(k, iv, Encrypted(k, iv, s)) = s

\* What the calls made so far have returned, and left in the engine.
ValuesInv ==
  /\ values \in Seq(Seq(Page)) /\ Len(values) <= ProgramLength
  /\ Len(values) >= 1 => seeded
  /\ Len(values) >= 2 => values[2][1] \in Page
  /\ Len(values) >= 3 => ramKey = PlainKey
  /\ Len(values) >= 4 => values[4] = Encrypted(PlainKey, values[2][1], program.plaintext.page)
  /\ Len(values) >= 5 => values[5] = program.plaintext.page
  /\ Len(values) >= 6 =>
       values[6] = <<Cmac(PlainKey, program.mac_text.page, program.mac_text.bytes)>>
  /\ Len(values) >= 7 => values[7] = <<VerifyPass>>

NextCall == ProgramCall(program, values, Len(values) + 1)

\* A call of the program is answered as the service answers it, or with a fault.
AnsweredOrFault ==
  IF result.status = NoError
    THEN Service!Enabling(call) /\ result.value \in Service!Values(call, ramKey)
    ELSE Status \in Faults

CallingInv ==
  IF calling
    THEN /\ Len(values) < ProgramLength /\ call = NextCall
         /\ pc = "idle" => AnsweredOrFault
         /\ pc = "panicked" => Status \in Faults
    ELSE pc = "idle"

OutcomeInv ==
  /\ outcome \in {"none", "led", "panicked"}
  /\ outcome = "panicked" => Status \in Faults
  /\ outcome # "none" => pc = "idle" /\ (calling \/ Len(values) = ProgramLength)

ProgramInv ==
  /\ Inductive /\ program \in Programs /\ calling \in BOOLEAN
  /\ ValuesInv /\ CallingInv /\ OutcomeInv

LEMMA PlainIs ==
  ASSUME NEW op, NEW arg
  PROVE  /\ Plain(op, arg).op = op /\ Plain(op, arg).arg = arg
         /\ Plain(op, arg) \in [op : {op}, msg : Messages, arg : {arg}, room : {0}]
         /\ 8 * Plain(op, arg).msg.bytes < HALFWORD
<1>1. PagesOf(0) = 0
  BY DEF PagesOf, PAGE_SIZE_IN_BYTES
<1>2. [page |-> <<>>, bytes |-> 0] \in Messages
  <2>1. <<>> \in Seq(Page) /\ Len(<<>>) = 0
    OBVIOUS
  <2> QED
    BY <1>1, <2>1 DEF Messages, IsMessage
<1> QED
  BY <1>2, HalfwordNat DEF Plain

LEMMA EncryptedType ==
  ASSUME EngineMakesPages, NEW k \in Page, NEW iv \in Page, NEW s \in Seq(Page)
  PROVE  Encrypted(k, iv, s) \in Seq(Page) /\ Len(Encrypted(k, iv, s)) = Len(s)
<1>1. ASSUME NEW i \in 1 .. Len(s) PROVE Cipher(k, "EncCbc", iv, SubSeq(s, 1, i)) \in Page
  <2>1. SubSeq(s, 1, i) \in Seq(Page)
    BY <1>1, PrefixIsSeq
  <2> QED
    BY <2>1 DEF EngineMakesPages, Cbc
<1> QED
  BY <1>1 DEF Encrypted

\* The call of each place in the program.
LEMMA NextCallIs ==
  ASSUME ValuesInv
  PROVE  /\ Len(values) = 0 => NextCall = Plain("InitRng", ZeroPage)
         /\ Len(values) = 1 => NextCall = Plain("Rng", ZeroPage)
         /\ Len(values) = 2 => NextCall = Plain("LoadPlainKey", PlainKey)
         /\ Len(values) = 3 => NextCall = [op |-> "EncCbc", msg |-> program.plaintext,
                                           arg |-> values[2][1], room |-> program.size]
         /\ Len(values) = 4 => NextCall =
              [op |-> "DecCbc", msg |-> [page |-> values[4], bytes |-> program.size],
               arg |-> values[2][1], room |-> program.size]
         /\ Len(values) = 5 => NextCall = [Plain("GenerateMac", ZeroPage)
                                             EXCEPT !.msg = program.mac_text]
         /\ Len(values) = 6 => NextCall = [Plain("VerifyMac", values[6][1])
                                             EXCEPT !.msg = program.mac_text]
<1> DEFINE P(n) == ProgramCall(program, values, n)
<1>1. /\ P(1) = Plain("InitRng", ZeroPage)
      /\ P(2) = Plain("Rng", ZeroPage)
      /\ P(3) = Plain("LoadPlainKey", PlainKey)
  BY DEF ProgramCall
<1>2. P(4) = [op |-> "EncCbc", msg |-> program.plaintext, arg |-> values[2][1],
              room |-> program.size]
  BY DEF ProgramCall
<1>3. P(5) = [op |-> "DecCbc", msg |-> [page |-> values[4], bytes |-> program.size],
              arg |-> values[2][1], room |-> program.size]
  BY DEF ProgramCall
<1>4. P(6) = [Plain("GenerateMac", ZeroPage) EXCEPT !.msg = program.mac_text]
  BY DEF ProgramCall
<1>5. P(7) = [Plain("VerifyMac", values[6][1]) EXCEPT !.msg = program.mac_text]
  BY DEF ProgramCall
<1>6. PICK n \in Nat : n = Len(values)
  BY DEF ValuesInv
<1>7. NextCall = P(n + 1)
  BY <1>6 DEF NextCall
<1>8. \A m \in Nat : n = m => NextCall = P(m + 1)
  BY <1>7
<1> HIDE DEF P
<1>9. /\ n = 0 => NextCall = P(1)
      /\ n = 1 => NextCall = P(2)
      /\ n = 2 => NextCall = P(3)
      /\ n = 3 => NextCall = P(4)
      /\ n = 4 => NextCall = P(5)
      /\ n = 5 => NextCall = P(6)
      /\ n = 6 => NextCall = P(7)
  BY <1>8
<1> QED
  BY <1>1, <1>2, <1>3, <1>4, <1>5, <1>6, <1>9

\* The calls of a program that has come so far: none is refused, and the key and the
\* generator are used after they have been set up.
LEMMA NextCallFits ==
  ASSUME MatchingPrograms, program \in Programs, ValuesInv, EngineMakesPages,
         Len(values) < ProgramLength
  PROVE  /\ NextCall \in [op : Commands, msg : Messages, arg : Page, room : Nat]
         /\ Short(NextCall)
         /\ NextCall.op \in Cbc => NextCall.room = NextCall.msg.bytes /\ NextCall.room % 16 = 0
         /\ NextCall.op = "VerifyMac" => NextCall.msg.bytes > 0
         /\ NextCall.op = "LoadPlainKey" => Len(values) = 2
         /\ NextCall.op = "Rng" => Len(values) = 1
         /\ NextCall.op \in Cbc \cup Mac => Len(values) >= 3
<1>1. PICK n \in Nat : n = Len(values)
  BY DEF ValuesInv
<1>2. n \in 0 .. 6
  <2>1. n < 7
    BY ONLY <1>1, Len(values) < ProgramLength DEF ProgramLength
  <2> QED
    BY <2>1
<1>3. PICK plain, text \in Messages : plain = program.plaintext /\ text = program.mac_text
  BY DEF MatchingPrograms
<1>4. PICK size \in Nat : size = program.size
  BY <1>3 DEF MatchingPrograms, Messages
<1>5. /\ size = plain.bytes /\ size % 16 = 0 /\ 8 * size < HALFWORD
      /\ text.bytes > 0 /\ 8 * text.bytes < HALFWORD
  BY <1>3, <1>4 DEF MatchingPrograms
<1>6. PlainKey \in Page /\ ZeroPage \in Page
  BY DEF MatchingPrograms
<1> DEFINE Fits(c) ==
      /\ c \in [op : Commands, msg : Messages, arg : Page, room : Nat] /\ Short(c)
      /\ c.op \in Cbc => c.room = c.msg.bytes /\ c.room % 16 = 0
      /\ c.op = "VerifyMac" => c.msg.bytes > 0
      /\ c.op = "LoadPlainKey" => n = 2
      /\ c.op = "Rng" => n = 1
      /\ c.op \in Cbc \cup Mac => n >= 3
<1> SUFFICES Fits(NextCall)
  BY <1>1
<1>7. ASSUME NEW op \in Commands \ (Cbc \cup Mac), NEW arg \in Page,
             op = "LoadPlainKey" => n = 2, op = "Rng" => n = 1
      PROVE  Fits(Plain(op, arg))
  BY <1>7, PlainIs DEF Cbc, Mac, Short
<1>8. ASSUME NEW op \in Mac, NEW arg \in Page, n >= 3
      PROVE  Fits([Plain(op, arg) EXCEPT !.msg = text])
  BY <1>5, <1>8 DEF Plain, Commands, Cbc, Mac, Short
<1>9. ASSUME NEW op \in Cbc, NEW m \in Messages, NEW arg \in Page, n >= 3, m.bytes = size
      PROVE  Fits([op |-> op, msg |-> m, arg |-> arg, room |-> size])
  BY <1>5, <1>9 DEF Commands, Cbc, Mac, Short
<1> HIDE DEF Fits
<1>10. CASE n = 0
  BY <1>1, <1>6, <1>7, <1>10, NextCallIs DEF Commands, Cbc, Mac
<1>11. CASE n = 1
  BY <1>1, <1>6, <1>7, <1>11, NextCallIs DEF Commands, Cbc, Mac
<1>12. CASE n = 2
  BY <1>1, <1>6, <1>7, <1>12, NextCallIs DEF Commands, Cbc, Mac
<1>13. ASSUME n >= 3 PROVE values[2][1] \in Page
  BY <1>1, <1>13 DEF ValuesInv
<1>14. CASE n = 3
  BY <1>1, <1>3, <1>4, <1>5, <1>9, <1>13, <1>14, NextCallIs DEF Cbc
<1>15. CASE n = 4
  <2>1. plain.page \in Seq(Page) /\ Len(plain.page) = PagesOf(size)
    BY <1>5 DEF Messages, IsMessage
  <2>2. values[4] = Encrypted(PlainKey, values[2][1], plain.page)
    BY <1>1, <1>3, <1>15 DEF ValuesInv
  <2> DEFINE iv == values[2][1]
  <2>3. iv \in Page
    BY <1>13, <1>15
  <2> HIDE DEF iv
  <2>4. Encrypted(PlainKey, iv, plain.page) \in Seq(Page)
        /\ Len(Encrypted(PlainKey, iv, plain.page)) = PagesOf(size)
    BY <1>6, <2>1, <2>3, EncryptedType
  <2>5. values[4] \in Seq(Page) /\ Len(values[4]) = PagesOf(size)
    BY <2>2, <2>4 DEF iv
  <2>6. [page |-> values[4], bytes |-> size] \in Messages
    BY <2>5 DEF Messages, IsMessage
  <2> QED
    BY <1>1, <1>4, <1>9, <1>13, <1>15, <2>6, NextCallIs DEF Cbc
<1>16. CASE n = 5
  BY <1>1, <1>3, <1>6, <1>8, <1>16, NextCallIs DEF Mac
<1>17. CASE n = 6
  <2>1. text.page \in Seq(Page) /\ text.bytes \in Nat
    BY DEF Messages, IsMessage
  <2>2. values[6] = <<Cmac(PlainKey, text.page, text.bytes)>>
    BY <1>1, <1>3, <1>17 DEF ValuesInv
  <2>3. values[6][1] \in Page
    BY <1>6, <2>1, <2>2 DEF EngineMakesPages
  <2> QED
    BY <1>1, <1>3, <1>8, <1>17, <2>3, NextCallIs DEF Mac
<1> QED
  BY <1>2, <1>10, <1>11, <1>12, <1>14, <1>15, <1>16, <1>17

\* A call that comes back comes back right, or with a fault; a program that is stopped in
\* a call is stopped by one.
LEMMA CallAnswered ==
  ASSUME Inductive, ShortCalls, DriverStep, pc' \in {"idle", "panicked"},
         call.op = "Rng" => seeded,
         call.op \in Cbc \cup Mac => ramKey # NoKey
  PROVE  /\ pc' = "idle" => AnsweredOrFault'
         /\ pc' = "panicked" => Status' \in Faults
<1> USE DEF Collect
<1>1. /\ \/ UnknownStatus \/ ReturnError \/ ReturnUnit \/ ReturnRnd
         \/ CollectCbc \/ CollectGenerateMac \/ CollectVerifyMac
      /\ Collect /\ pc = "wait"
  BY DEF DriverStep, single_round, process_blocks, process_blocks_verify, Round, UnknownStatus,
         ReturnError, ReturnUnit, ReturnRnd, CollectCbc, CollectGenerateMac, CollectVerifyMac,
         Succeeded
<1>2. UNCHANGED <<call, ramKey, seeded, field>> /\ Status' = Status
  BY <1>1 DEF device, Status
<1>3. Status # NoError => Status \in Faults
  BY <1>1, <1>2 DEF Inductive, StatusInv
<1>4. CASE UnknownStatus
  <2>1. Status # NoError /\ pc' = "panicked"
    BY <1>4 DEF UnknownStatus, KnownResults, NoError
  <2> QED
    BY <1>2, <1>3, <2>1
<1>5. CASE ReturnError
  <2>1. Status # NoError /\ pc' = "idle" /\ result'.status # NoError
    BY <1>5 DEF ReturnError, Return, Returned
  <2> QED
    BY <1>2, <1>3, <2>1 DEF AnsweredOrFault
<1>6. CASE \/ ReturnUnit \/ ReturnRnd \/ CollectCbc \/ CollectGenerateMac \/ CollectVerifyMac
  <2>1. [Service!Next]_(Service!service)
    BY <1>6, CollectServes
  <2>2. pc' = "idle" /\ result'.status = NoError
    BY <1>6 DEF ReturnUnit, ReturnRnd, CollectCbc, CollectGenerateMac, CollectVerifyMac, Return,
                Returned, Recurse
  <2>3. ~UNCHANGED Service!service
    BY <1>1, <2>2 DEF Service!service
  <2>4. Service!AnswerOk \/ Service!AnswerError
    BY <1>1, <2>1, <2>2, <2>3
    DEF Service!Next, Service!Accept, Service!Install, Service!Seed, Service!Halt
  <2>5. ~Service!AnswerError
    BY <2>2, DeviceAssumption
    DEF Service!AnswerError, Service!Errors, NoError, Service!KeyEmpty, Service!RngSeed
  <2>6. Service!Enabling(call) /\ result'.value \in Service!Values(call, ramKey)
    BY <2>4, <2>5 DEF Service!AnswerOk
  <2> QED
    BY <1>2, <2>2, <2>6 DEF AnsweredOrFault, Service!Enabling, Service!Values, Service!CbcResult, Service!MacOf
<1> QED
  BY <1>1, <1>4, <1>5, <1>6

\* What call n + 1 of the program adds to what is known.
ValueAdded(n, v) ==
  /\ n = 0 => seeded
  /\ n = 1 => v[1] \in Page
  /\ n = 2 => ramKey = PlainKey
  /\ n = 3 => v = Encrypted(PlainKey, values[2][1], program.plaintext.page)
  /\ n = 4 => v = program.plaintext.page
  /\ n = 5 => v = <<Cmac(PlainKey, program.mac_text.page, program.mac_text.bytes)>>
  /\ n = 6 => v = <<VerifyPass>>

LEMMA AnswerAdds ==
  ASSUME MatchingPrograms, DecryptsBack, program \in Programs, ValuesInv,
         Len(values) < ProgramLength, call = NextCall,
         Service!Enabling(call), NEW v \in Service!Values(call, ramKey)
  PROVE  ValueAdded(Len(values), v)
<1> USE DEF Service!Values, Service!CbcOps
<1>1. PICK n \in Nat : n = Len(values)
  BY DEF ValuesInv
<1>2. n \in 0 .. 6
  <2>1. n < 7
    BY ONLY <1>1, Len(values) < ProgramLength DEF ProgramLength
  <2> QED
    BY <2>1
<1>3. CASE n = 0
  <2>1. call.op = "InitRng"
    BY <1>1, <1>3, NextCallIs, PlainIs
  <2> QED
    BY <1>3, <1>1, <2>1 DEF ValueAdded, Service!Enabling
<1>4. CASE n = 1
  <2>1. call.op = "Rng"
    BY <1>1, <1>4, NextCallIs, PlainIs
  <2> QED
    BY <1>1, <1>4, <2>1, DeviceAssumption DEF ValueAdded
<1>5. CASE n = 2
  <2>1. call.op = "LoadPlainKey" /\ call.arg = PlainKey
    BY <1>1, <1>5, NextCallIs, PlainIs
  <2> QED
    BY <1>1, <1>5, <2>1 DEF ValueAdded, Service!Enabling
<1>6. n >= 3 => ramKey = PlainKey /\ values[2][1] \in Page
  BY <1>1 DEF ValuesInv
<1>7. CASE n = 3
  <2>1. /\ call.op = "EncCbc" /\ call.arg = values[2][1]
        /\ call.msg.page = program.plaintext.page
    BY <1>1, <1>7, NextCallIs
  <2> QED
    BY <1>1, <1>6, <1>7, <2>1 DEF ValueAdded, Service!CbcResult, Encrypted
<1>8. CASE n = 4
  <2>1. /\ call.op = "DecCbc" /\ call.arg = values[2][1] /\ call.msg.page = values[4]
    BY <1>1, <1>8, NextCallIs
  <2>2. v = Decrypted(PlainKey, values[2][1], values[4])
    BY <1>6, <1>8, <2>1 DEF Service!CbcResult, Decrypted
  <2>3. values[4] = Encrypted(PlainKey, values[2][1], program.plaintext.page)
    BY <1>1, <1>8 DEF ValuesInv
  <2>4. program.plaintext.page \in Seq(Page) /\ PlainKey \in Page
    BY DEF MatchingPrograms, Messages, IsMessage
  <2>5. v = program.plaintext.page
    BY <1>6, <1>8, <2>2, <2>3, <2>4 DEF DecryptsBack
  <2> QED
    BY <1>1, <1>8, <2>5 DEF ValueAdded
<1>9. CASE n = 5
  <2>1. call.op = "GenerateMac" /\ call.msg = program.mac_text
    BY <1>1, <1>9, NextCallIs DEF Plain
  <2> QED
    BY <1>1, <1>6, <1>9, <2>1 DEF ValueAdded, Service!MacOf
<1>10. CASE n = 6
  <2>1. call.op = "VerifyMac" /\ call.msg = program.mac_text /\ call.arg = values[6][1]
    BY <1>1, <1>10, NextCallIs DEF Plain
  <2>2. values[6] = <<Cmac(PlainKey, program.mac_text.page, program.mac_text.bytes)>>
    BY <1>1, <1>10 DEF ValuesInv
  <2>3. call.arg = Service!MacOf(ramKey, call)
    BY <1>6, <1>10, <2>1, <2>2 DEF Service!MacOf
  <2> QED
    BY <1>1, <1>10, <2>1, <2>3 DEF ValueAdded
<1> QED
  BY <1>2, <1>3, <1>4, <1>5, <1>7, <1>8, <1>9, <1>10

LEMMA UnwrapKeeps ==
  ASSUME ProgramInv, MatchingPrograms, DecryptsBack, Unwrap
  PROVE  ProgramInv'
<1> USE DEF vars, device, driver
<1>1. /\ calling /\ pc = "idle" /\ outcome = "none"
      /\ UNCHANGED <<device, driver, program>>
  BY DEF Unwrap
<1>2. Inductive'
  BY <1>1, StutterKeepsInductive DEF ProgramInv
<1>3. /\ Len(values) < ProgramLength /\ call = NextCall /\ AnsweredOrFault /\ ValuesInv
      /\ program \in Programs /\ Status' = Status
  BY <1>1 DEF ProgramInv, CallingInv, Status
<1>4. CASE result.status # NoError
  <2>1. outcome' = "panicked" /\ UNCHANGED <<values, calling>>
    BY <1>4 DEF Unwrap
  <2>2. UNCHANGED <<NextCall, ValuesInv, AnsweredOrFault>>
    BY <1>1, <1>3, <2>1 DEF AnsweredOrFault, Service!Enabling, Service!Values, Service!CbcResult, Service!MacOf,
                      NextCall, ValuesInv
  <2> QED
    BY <1>1, <1>2, <1>3, <1>4, <2>1, <2>2 DEF ProgramInv, CallingInv, OutcomeInv, AnsweredOrFault
<1>5. CASE result.status = NoError
  <2>1. values' = Append(values, result.value) /\ calling' = FALSE /\ UNCHANGED outcome
    BY <1>5 DEF Unwrap
  <2>2. ValueAdded(Len(values), result.value)
    BY <1>3, <1>5, AnswerAdds DEF AnsweredOrFault
  <2>3. result.value \in Seq(Page) /\ values \in Seq(Seq(Page))
    BY <1>3 DEF ProgramInv, Inductive, TypeOK, ValuesInv
  <2>4. PICK n \in Nat : n = Len(values)
    BY <2>3
  <2>5. /\ values' \in Seq(Seq(Page)) /\ Len(values') = n + 1
        /\ values'[n + 1] = result.value
        /\ \A i \in 1 .. n : values'[i] = values[i]
    BY <2>1, <2>3, <2>4
  <2>6. n + 1 <= ProgramLength
    BY <1>3, <2>4 DEF ProgramLength
  <2>7. n \in 0 .. 6
    BY <2>6 DEF ProgramLength
  <2>8. /\ n >= 1 => seeded
        /\ n >= 2 => values[2][1] \in Page
        /\ n >= 3 => ramKey = PlainKey
        /\ n >= 4 => values[4] = Encrypted(PlainKey, values[2][1], program.plaintext.page)
        /\ n >= 5 => values[5] = program.plaintext.page
        /\ n >= 6 =>
             values[6] = <<Cmac(PlainKey, program.mac_text.page, program.mac_text.bytes)>>
    BY <1>3, <2>4 DEF ValuesInv
  <2>9. /\ n >= 2 => values'[2] = values[2]
        /\ n >= 4 => values'[4] = values[4]
        /\ n >= 5 => values'[5] = values[5]
        /\ n >= 6 => values'[6] = values[6]
    BY <2>5
  <2>10. /\ n = 1 => values'[2] = result.value
         /\ n = 3 => values'[4] = result.value
         /\ n = 4 => values'[5] = result.value
         /\ n = 5 => values'[6] = result.value
         /\ n = 6 => values'[7] = result.value
    BY <2>5
  <2>11. /\ n = 0 => seeded
         /\ n = 1 => result.value[1] \in Page
         /\ n = 2 => ramKey = PlainKey
         /\ n = 3 => result.value = Encrypted(PlainKey, values[2][1], program.plaintext.page)
         /\ n = 4 => result.value = program.plaintext.page
         /\ n = 5 => result.value =
                       <<Cmac(PlainKey, program.mac_text.page, program.mac_text.bytes)>>
         /\ n = 6 => result.value = <<VerifyPass>>
    BY <2>2, <2>4 DEF ValueAdded
  <2>12. /\ n + 1 >= 1 => seeded
         /\ n + 1 >= 3 => ramKey = PlainKey
    BY <2>7, <2>8, <2>11
  <2>13. n + 1 >= 2 => values'[2][1] \in Page
    <3>1. CASE n = 1
      BY <2>10, <2>11, <3>1
    <3> QED
      BY <2>7, <2>8, <2>9, <3>1
  <2>14. n + 1 >= 4 => values'[4] = Encrypted(PlainKey, values'[2][1], program.plaintext.page)
    <3>1. CASE n = 3
      BY <2>9, <2>10, <2>11, <3>1
    <3> QED
      BY <2>7, <2>8, <2>9, <3>1
  <2>15. /\ n + 1 >= 5 => values'[5] = program.plaintext.page
         /\ n + 1 >= 6 => values'[6] =
              <<Cmac(PlainKey, program.mac_text.page, program.mac_text.bytes)>>
         /\ n + 1 >= 7 => values'[7] = <<VerifyPass>>
    BY <2>7, <2>8, <2>9, <2>10, <2>11
  <2>16. ValuesInv'
    BY <1>1, <2>5, <2>6, <2>12, <2>13, <2>14, <2>15 DEF ValuesInv, Encrypted
  <2> QED
    BY <1>1, <1>2, <1>3, <2>1, <2>16 DEF ProgramInv, CallingInv, OutcomeInv
<1> QED
  BY <1>4, <1>5

LEMMA ProgramStarts ==
  ASSUME ClientInit
  PROVE  ProgramInv
<1>1. Inductive /\ pc = "idle"
  BY InductiveInit DEF ClientInit, Init
<1>2. values \in Seq(Seq(Page)) /\ Len(values) = 0
  BY DEF ClientInit
<1>3. ValuesInv
  BY <1>2 DEF ValuesInv, ProgramLength
<1> QED
  BY <1>1, <1>2, <1>3 DEF ClientInit, ProgramInv, CallingInv, OutcomeInv

\* A call of the program is one the client may make, and is not refused.
LEMMA MakeCallKeeps ==
  ASSUME ProgramInv, ShortCalls, EngineMakesPages, CallsComplete, MatchingPrograms, MakeCall
  PROVE  ProgramInv'
<1>1. /\ ~calling /\ Len(values) < ProgramLength /\ Call(NextCall) /\ calling'
      /\ UNCHANGED <<program, values, outcome>>
  BY DEF MakeCall, NextCall
<1>2. ValuesInv /\ program \in Programs /\ pc = "idle" /\ Inductive /\ OutcomeInv
  BY <1>1 DEF ProgramInv, CallingInv
<1> DEFINE c == NextCall
<1>3. /\ c \in [op : Commands, msg : Messages, arg : Page, room : Nat] /\ Short(c)
      /\ c.op \in Cbc => c.room = c.msg.bytes /\ c.room % 16 = 0
      /\ c.op = "VerifyMac" => c.msg.bytes > 0
  BY <1>1, <1>2, NextCallFits
<1>4. c \in Calls
  BY <1>3 DEF CallsComplete
<1> HIDE DEF c
<1>5. Inductive'
  BY <1>1, <1>2, <1>4, NextKeepsInductive DEF Next, c
<1>6. pc' = "round" /\ call' = c /\ UNCHANGED <<ramKey, seeded>>
  BY <1>1, <1>3
  DEF c, Call, init_rng, generate_rnd, load_plainkey, handle_cbc, generate_mac, verify_mac, Start,
      StartPanics, CbcAccepts, PAGE_SIZE_IN_BYTES
<1>7. NextCall' = c
  BY <1>1 DEF NextCall, c
<1>8. ValuesInv'
  BY <1>1, <1>2, <1>6 DEF ValuesInv
<1>9. outcome' = "none"
  BY <1>1, <1>2 DEF OutcomeInv
<1> QED
  BY <1>1, <1>2, <1>5, <1>6, <1>7, <1>8, <1>9 DEF ProgramInv, CallingInv, OutcomeInv

\* The driver runs the call in progress, and answers it.
LEMMA DriverKeeps ==
  ASSUME ProgramInv, ShortCalls, EngineMakesPages, MatchingPrograms, DriverStep,
         UNCHANGED client
  PROVE  ProgramInv'
<1>1. pc \in {"round", "wait"} /\ UNCHANGED <<call, ramKey, seeded, program, values, calling, outcome>>
  BY DEF DriverStep, single_round, process_blocks, process_blocks_verify, Round, UnknownStatus,
         ReturnError, ReturnUnit, ReturnRnd, CollectCbc, CollectGenerateMac, CollectVerifyMac,
         Succeeded, Collect, device, client
<1>2. /\ Inductive /\ Inductive' /\ ValuesInv /\ program \in Programs
      /\ calling /\ Len(values) < ProgramLength /\ call = NextCall /\ outcome = "none"
  BY <1>1, NextKeepsInductive DEF ProgramInv, CallingInv, OutcomeInv, Next
<1>3. /\ call.op = "Rng" => Len(values) = 1
      /\ call.op \in Cbc \cup Mac => Len(values) >= 3
  BY <1>2, NextCallFits
<1>4. /\ call.op = "Rng" => seeded
      /\ call.op \in Cbc \cup Mac => ramKey # NoKey
  <2>1. PICK n \in Nat : n = Len(values)
    BY <1>2 DEF ValuesInv
  <2>2. /\ n >= 1 => seeded
        /\ n >= 3 => ramKey = PlainKey
    BY <1>2, <2>1 DEF ValuesInv
  <2>3. PlainKey # NoKey
    BY DeviceAssumption DEF MatchingPrograms
  <2> QED
    BY <1>3, <2>1, <2>2, <2>3
<1>5. ValuesInv'
  BY <1>1, <1>2 DEF ValuesInv
<1>6. NextCall' = NextCall
  BY <1>1 DEF NextCall
<1>7. /\ pc' = "idle" => AnsweredOrFault'
      /\ pc' = "panicked" => Status' \in Faults
  BY <1>2, <1>4, CallAnswered
<1> QED
  BY <1>1, <1>2, <1>5, <1>6, <1>7 DEF ProgramInv, CallingInv, OutcomeInv

\* The engine changes its key and its seed in the calls that are for that.
LEMMA EngineChanges ==
  ASSUME Inductive, Engine
  PROVE  /\ pc = "wait" /\ UNCHANGED driver
         /\ seeded => seeded'
         /\ ramKey' = ramKey \/ call.op = "LoadPlainKey"
<1>1. ~ccif /\ UNCHANGED driver
  BY DEF Engine, DeviceStep, Refuse, Fault, ExecInitRng, ExecRng, ExecLoadPlainKey,
         ReadyFor, ExecCbc, ExecGenerateMac, ExecVerifyMac
<1>2. pc = "wait" /\ command.cmd = call.op
  BY <1>1 DEF Inductive, StartedInv
<1>3. (seeded => seeded') /\ (ramKey' = ramKey \/ command.cmd = "LoadPlainKey")
  BY DEF Engine, DeviceStep, Refuse, Fault, Fail, ExecInitRng, ExecRng, ExecLoadPlainKey, ExecCbc,
         ExecGenerateMac, ExecVerifyMac
<1> QED
  BY <1>1, <1>2, <1>3

LEMMA EngineKeeps ==
  ASSUME ProgramInv, ShortCalls, EngineMakesPages, MatchingPrograms, Engine, UNCHANGED client
  PROVE  ProgramInv'
<1>1. /\ Inductive /\ Inductive' /\ pc = "wait" /\ UNCHANGED <<driver, client>>
      /\ seeded => seeded'
      /\ ramKey' = ramKey \/ call.op = "LoadPlainKey"
  BY NextKeepsInductive, EngineChanges DEF ProgramInv, Next
<1>2. UNCHANGED <<pc, call, program, values, calling, outcome>>
  BY <1>1 DEF driver, client
<1>3. /\ ValuesInv /\ program \in Programs
      /\ calling /\ Len(values) < ProgramLength /\ call = NextCall /\ outcome = "none"
  BY <1>1 DEF ProgramInv, CallingInv, OutcomeInv
<1>4. PICK n \in Nat : n = Len(values)
  BY <1>3 DEF ValuesInv
<1>5. n >= 3 => ramKey' = ramKey
  BY <1>1, <1>3, <1>4, NextCallFits
<1>6. ValuesInv'
  BY <1>1, <1>2, <1>3, <1>4, <1>5 DEF ValuesInv
<1>7. NextCall' = NextCall
  BY <1>2 DEF NextCall
<1> QED
  BY <1>1, <1>2, <1>3, <1>6, <1>7 DEF ProgramInv, CallingInv, OutcomeInv

\* Both assertions hold.
LEMMA ConcludeKeeps ==
  ASSUME ProgramInv, Conclude
  PROVE  ProgramInv'
<1>1. /\ Len(values) = ProgramLength /\ outcome = "none" /\ UNCHANGED <<vars, program, values, calling>>
      /\ ValuesInv /\ Inductive
  BY DEF Conclude, ProgramInv
<1>2. values[7] = <<VerifyPass>> /\ values[5] = program.plaintext.page
  BY <1>1 DEF ValuesInv, ProgramLength
<1>3. outcome' = "led"
  BY <1>2 DEF Conclude
<1>4. ~calling /\ pc = "idle"
  BY <1>1 DEF ProgramInv, CallingInv, ProgramLength
<1>5. UNCHANGED <<pc, call, ramKey, seeded>>
  BY <1>1 DEF vars, device, driver
<1>6. ValuesInv'
  BY <1>1, <1>5 DEF ValuesInv
<1> QED
  BY <1>1, <1>3, <1>4, <1>5, <1>6, StutterKeepsInductive DEF ProgramInv, CallingInv, OutcomeInv

LEMMA ProgramStutters ==
  ASSUME ProgramInv, UNCHANGED all
  PROVE  ProgramInv'
<1>1. Inductive' /\ UNCHANGED <<pc, call, ramKey, seeded, field, result, program, values, calling, outcome>>
  BY StutterKeepsInductive DEF ProgramInv, all, client, vars, device, driver
<1>2. UNCHANGED <<ValuesInv, NextCall, AnsweredOrFault, Status>>
  BY <1>1 DEF ValuesInv, NextCall, AnsweredOrFault, Status, Service!Enabling, Service!Values,
              Service!CbcResult, Service!MacOf
<1> QED
  BY <1>1, <1>2 DEF ProgramInv, CallingInv, OutcomeInv

LEMMA AlwaysProgramInv ==
  ASSUME ShortCalls, EngineMakesPages, DecryptsBack, CallsComplete, MatchingPrograms
  PROVE  ClientSpec => []ProgramInv
<1>1. ProgramInv /\ [ClientNext]_all => ProgramInv'
  <2> SUFFICES ASSUME ProgramInv, [ClientNext]_all PROVE ProgramInv'
    OBVIOUS
  <2>1. CASE Halted /\ UNCHANGED client
    BY <2>1, ProgramStutters DEF Halted, all
  <2> QED
    BY <2>1, MakeCallKeeps, UnwrapKeeps, ConcludeKeeps, DriverKeeps, EngineKeeps,
       ProgramStutters DEF ClientNext, LoopForever
<1> QED
  BY <1>1, ProgramStarts, PTL DEF ClientSpec

\* The integration test, for every message whose length fits the fields, every key and
\* every engine that decrypts what it has encrypted: each call is accepted and answered,
\* the assertions hold, and what stops it is a fault the engine reports of its own accord
\* (examples/csec.rs:50-59).
THEOREM ProgramsStopOnFaultOnly ==
  ASSUME ShortCalls, EngineMakesPages, DecryptsBack, CallsComplete, MatchingPrograms
  PROVE  ClientSpec => []PanicsOnFaultOnly
<1>1. ProgramInv => PanicsOnFaultOnly
  BY DEF ProgramInv, CallingInv, OutcomeInv, PanicsOnFaultOnly
<1> QED
  BY <1>1, AlwaysProgramInv, PTL

\* The usage section of csec.rs (lines 40-62) is right but for its lengths: with buffers as
\* long as the plaintext, and that in whole pages, the same program never panics on an engine
\* without faults, for any plaintext, text to authenticate, key and draw of the generator.
\* MatchingPrograms is what the documented program fails: it has 16 bytes and buffers of 20.
THEOREM MatchingProgramsRun ==
  ASSUME ShortCalls, EngineMakesPages, DecryptsBack, CallsComplete, MatchingPrograms,
         Faults = {}
  PROVE  ClientSpec => []UsageRuns
<1>1. ProgramInv => UsageRuns
  BY DEF ProgramInv, CallingInv, OutcomeInv, UsageRuns
<1> QED
  BY <1>1, AlwaysProgramInv, PTL
-----------------------------------------------------------------------------
(* The programs are clients of the driver, and how far they have still to go. *)

\* Making the next call, having its answer unwrapped, and the assertions at the end.
ProgramStage ==
  IF outcome # "none" THEN 0
  ELSE 2 * (ProgramLength - Len(values)) + (IF calling THEN 0 ELSE 1)

\* Every step brings the LED, or the panic, nearer: it is the program's own, or one that
\* brings the return of its call nearer (examples/csec.rs:42-61).
Nearer == ProgramStage' < ProgramStage \/ (ProgramStage' = ProgramStage /\ CallWork' < CallWork)
ProgramsShrink == [][Nearer]_all

\* The program makes only calls the driver's client may make.
LEMMA ProgramCalls ==
  ASSUME ProgramInv, ShortCalls, EngineMakesPages, CallsComplete, MatchingPrograms, MakeCall
  PROVE  \E c \in Calls : Call(c)
<1>1. ~calling /\ Len(values) < ProgramLength /\ Call(NextCall)
  BY DEF MakeCall, NextCall
<1>2. ValuesInv /\ program \in Programs
  BY DEF ProgramInv
<1>3. /\ NextCall \in [op : Commands, msg : Messages, arg : Page, room : Nat] /\ Short(NextCall)
  BY <1>1, <1>2, NextCallFits
<1>4. NextCall \in Calls
  BY <1>3 DEF CallsComplete
<1> QED
  BY <1>1, <1>4

LEMMA ProgramNearer ==
  ASSUME ProgramInv, StackInv, ShortCalls, EngineMakesPages, CallsComplete, MatchingPrograms,
         ClientNext, ~UNCHANGED all
  PROVE  Nearer
<1>1. PICK n \in Nat : n = Len(values) /\ n <= 7
  BY DEF ProgramInv, ValuesInv, ProgramLength
<1>2. ProgramStage = IF outcome # "none" THEN 0 ELSE 2 * (7 - n) + (IF calling THEN 0 ELSE 1)
  BY <1>1 DEF ProgramStage, ProgramLength
<1>3. CASE MakeCall
  <2>1. ~calling /\ calling' /\ n < 7 /\ values' = values /\ outcome' = outcome
    BY <1>1, <1>3 DEF MakeCall, ProgramLength
  <2>2. outcome = "none"
    <3>1. n # 7
      BY <2>1
    <3>2. Len(values) # ProgramLength
      BY <1>1, <3>1 DEF ProgramLength
    <3> QED
      BY <2>1, <3>2 DEF ProgramInv, OutcomeInv
  <2>3. ProgramStage' = 2 * (7 - n)
    BY <1>1, <2>1, <2>2 DEF ProgramStage, ProgramLength
  <2> QED
    BY <1>1, <1>2, <2>1, <2>2, <2>3 DEF Nearer
<1>4. CASE Unwrap
  <2>1. calling /\ outcome = "none" /\ n < 7
    BY <1>1, <1>4 DEF Unwrap, ProgramInv, CallingInv, ProgramLength
  <2>2. ProgramStage = 2 * (7 - n)
    BY <1>1, <1>2, <2>1
  <2>3. CASE outcome' = "panicked"
    BY <1>1, <2>1, <2>2, <2>3 DEF Nearer, ProgramStage
  <2>4. CASE values' = Append(values, result.value) /\ ~calling' /\ outcome' = outcome
    <3>1. Len(values') = n + 1
      BY <1>1, <2>4 DEF ProgramInv, ValuesInv
    <3>2. ProgramStage' = 2 * (7 - (n + 1)) + 1
      BY <2>1, <2>4, <3>1 DEF ProgramStage, ProgramLength
    <3> QED
      BY <1>1, <2>1, <2>2, <3>2 DEF Nearer
  <2> QED
    BY <1>4, <2>3, <2>4 DEF Unwrap
<1>5. CASE Conclude
  <2>1. n = 7 /\ outcome = "none" /\ outcome' # "none"
    BY <1>1, <1>5 DEF Conclude, ProgramLength
  <2>2. ~calling
    BY <1>1, <2>1 DEF ProgramInv, CallingInv, ProgramLength
  <2>3. ProgramStage = 1 /\ ProgramStage' = 0
    BY <1>2, <2>1, <2>2 DEF ProgramStage
  <2> QED
    BY <2>3 DEF Nearer
<1>6. CASE (DriverStep \/ Engine) /\ UNCHANGED client
  <2>1. Busy
    <3>1. CASE DriverStep
      BY <3>1 DEF DriverStep, single_round, process_blocks, process_blocks_verify, Round,
         UnknownStatus, ReturnError, ReturnUnit, ReturnRnd, CollectCbc, CollectGenerateMac,
         CollectVerifyMac, Succeeded, Collect, Busy
    <3>2. CASE Engine
      BY <3>2, EngineChanges DEF Busy, ProgramInv
    <3> QED
      BY <1>6, <3>1, <3>2
  <2>2. CallWork' < CallWork
    BY <1>6, <2>1, StepShrinks DEF ProgramInv, Next
  <2>3. ProgramStage' = ProgramStage
    BY <1>6 DEF ProgramStage, client
  <2> QED
    BY <2>2, <2>3 DEF Nearer
<1>7. CASE LoopForever \/ (Halted /\ UNCHANGED client)
  BY <1>7 DEF LoopForever, Halted, all
<1> QED
  BY <1>3, <1>4, <1>5, <1>6, <1>7 DEF ClientNext

\* The integration test is a client of the driver, so that what holds of every client holds
\* of it; and every step it, the driver or the engine takes brings the LED or a panic nearer.
\* What ProgramsReachLed adds is that they take it.
THEOREM ProgramsComeNearer ==
  ASSUME ShortCalls, EngineMakesPages, DecryptsBack, CallsComplete, MatchingPrograms
  PROVE  ClientSpec => Spec /\ ProgramsShrink
<1>1. ClientInit => Init
  BY DEF ClientInit
<1>2. ProgramInv /\ [ClientNext]_all => [Next]_vars
  <2> SUFFICES ASSUME ProgramInv, [ClientNext]_all PROVE [Next]_vars
    OBVIOUS
  <2>1. CASE MakeCall
    BY <2>1, ProgramCalls DEF Next
  <2>2. CASE Unwrap \/ Conclude \/ LoopForever \/ UNCHANGED all
    BY <2>2 DEF Unwrap, Conclude, LoopForever, all
  <2> QED
    BY <2>1, <2>2 DEF ClientNext, Next
<1>3. ClientSpec => []ProgramInv
  BY AlwaysProgramInv
<1>4. ClientSpec => Spec
  BY <1>1, <1>2, <1>3, PTL DEF ClientSpec, Spec
<1>5. ClientSpec => []StackInv
  <2>1. Spec => []StackInv
    BY AlwaysStackInv, PTL
  <2> QED
    BY <1>4, <2>1
<1>6. ProgramInv /\ StackInv /\ [ClientNext]_all => [Nearer]_all
  BY ProgramNearer
<1> HIDE DEF Nearer
<1>7. ClientSpec => [][Nearer]_all
  BY <1>3, <1>5, <1>6, PTL DEF ClientSpec
<1> QED
  BY <1>4, <1>7 DEF ProgramsShrink
=============================================================================
