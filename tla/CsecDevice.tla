------------------------------ MODULE CsecDevice ------------------------------
(***************************************************************************)
(* The CSEc peripheral: the CSE_PRAM window that csec.rs reads and writes, *)
(* the CCIF flag of FTFC.FSTAT, and the security engine behind them.       *)
(*                                                                         *)
(* PRAM is 32 words.  Words 1 to 3 are modelled by the halfwords that      *)
(* csec.rs addresses in them, words 4 to 31 as the seven 16-byte pages     *)
(* 1 .. MAX_PAGES.  A page is one opaque value: the byte and word          *)
(* accesses underneath are the subject of CsecPram.                        *)
(*                                                                         *)
(* The engine is not part of the repository: its behaviour is what the     *)
(* driver and its C original rely on.  Cipher(k, cmd, iv, s) is the page   *)
(* that CBC mode produces for the last page of s, Cmac(k, s, b) is the     *)
(* CMAC of the first b bytes of the pages s.                               *)
(***************************************************************************)
EXTENDS CsecWindow

CONSTANTS
  Page,               \* contents of a 16-byte page
  RandomPage,         \* the pages Rng may produce
  Cipher(_, _, _, _), \* AES-128 in CBC mode, one page of it
  Cmac(_, _, _),      \* AES-128 CMAC
  VerifyPass,         \* page 1 with verification bits (bytes 20, 21) zero
  VerifyFail,         \* page 1 with verification bits that are not zero
  NoKey,              \* the RAM key slot is empty
  Faults              \* status values the engine may report of its own accord

NoError == 1
SequenceError == 2
KeyEmpty == 16
RngSeed == 256
\* The status values CommandResult::from_u16 knows; it panics on any other.
KnownResults == {1, 2, 4, 8, 16, 32, 64, 128, 256, 512, 1024, 2048}

Cbc == {"EncCbc", "DecCbc"}
Mac == {"GenerateMac", "VerifyMac"}
Commands == {"InitRng", "Rng", "LoadPlainKey"} \cup Cbc \cup Mac

ASSUME DeviceAssumption ==
  /\ {VerifyPass, VerifyFail} \subseteq Page
  /\ RandomPage \subseteq Page
  /\ VerifyPass # VerifyFail
  /\ NoKey \notin Page
  /\ Faults \subseteq (0 .. HALFWORD - 1) \ {NoError}

VARIABLES
  command,  \* word 0: the header last written, which started the engine
  field,    \* the halfwords of words 1 to 3, by byte offset
  pram,     \* pages 1 .. MAX_PAGES
  ccif,     \* TRUE while the engine is idle
  ramKey,   \* the key in the RAM key slot
  seeded,   \* InitRng has succeeded
  job       \* what the engine keeps between the calls of one operation

device == <<command, field, pram, ccif, ramKey, seeded, job>>

DeviceTypeOK ==
  /\ command \in [cmd : Commands, seq : {"First", "Subsequent"}]
  /\ field \in [FieldOffsets -> 0 .. HALFWORD - 1]
  /\ pram \in [1 .. MAX_PAGES -> Page]
  /\ ccif \in BOOLEAN
  /\ ramKey \in Page \cup {NoKey}
  /\ seeded \in BOOLEAN
  /\ job \in [cmd : Commands, iv : Page, fed : Seq(Page), left : Nat,
              bits : Nat, open : BOOLEAN]

DeviceInit ==
  /\ command = [cmd |-> "InitRng", seq |-> "First"]
  /\ field = [o \in FieldOffsets |-> 0]
  /\ pram = [p \in 1 .. MAX_PAGES |-> VerifyPass]
  /\ ccif = TRUE
  /\ ramKey = NoKey
  /\ seeded = FALSE
  /\ job = [cmd |-> "InitRng", iv |-> VerifyPass, fed |-> <<>>, left |-> 0,
            bits |-> 0, open |-> FALSE]

-----------------------------------------------------------------------------
(* One call of a command: what the engine takes from PRAM.                  *)

IsFirst == command.seq = "First"

MessageBits ==
  HALFWORD * field[MAC_MESSAGE_LENGTH_OFFSET] + field[PAGE_LENGTH_OFFSET]

\* Pages of data the fields announce for the whole operation.
Announced ==
  IF command.cmd \in Cbc THEN field[PAGE_LENGTH_OFFSET]
                         ELSE (MessageBits + 127) \div 128

\* The operation this call belongs to: a new one, or the one left open.
Chain ==
  IF IsFirst
    THEN [cmd |-> command.cmd, iv |-> pram[1], fed |-> <<>>,
          left |-> Announced, bits |-> MessageBits, open |-> TRUE]
    ELSE job

\* The first call of a CBC operation has the initialization vector on page 1.
Base == IF IsFirst /\ command.cmd \in Cbc THEN 2 ELSE 1

Take ==
  IF Chain.left <= MAX_PAGES + 1 - Base THEN Chain.left ELSE MAX_PAGES + 1 - Base

Fed == Chain.fed \o [i \in 1 .. Take |-> pram[Base + i - 1]]

\* The expected MAC is on the page after the data, unless that is the last page
\* or beyond: then it is on page 1 of one more call, which brings no data.
MacPresent == Take = Chain.left /\ 1 + Take < MAX_PAGES

NeedsKey == command.cmd \in Cbc \cup Mac

InSequence == IsFirst \/ (job.open /\ job.cmd = command.cmd)

-----------------------------------------------------------------------------

\* The engine stops: it writes the status halfword and raises CCIF.
Finish(status) ==
  /\ field' = [field EXCEPT ![ERROR_BITS_OFFSET] = status]
  /\ ccif' = TRUE
  /\ UNCHANGED command

\* An error ends the operation in progress and leaves the pages as they were.
Fail(status) ==
  /\ Finish(status)
  /\ job' = [job EXCEPT !.open = FALSE]
  /\ UNCHANGED <<pram, ramKey, seeded>>

Refuse ==
  /\ ~ccif
  /\ \/ ~InSequence /\ Fail(SequenceError)
     \/ NeedsKey /\ ramKey = NoKey /\ Fail(KeyEmpty)
     \/ command.cmd = "Rng" /\ ~seeded /\ Fail(RngSeed)

Fault ==
  /\ ~ccif
  /\ \E status \in Faults : Fail(status)

ExecInitRng ==
  /\ ~ccif /\ command.cmd = "InitRng"
  /\ seeded' = TRUE
  /\ Finish(NoError)
  /\ UNCHANGED <<pram, ramKey, job>>

ExecRng ==
  /\ ~ccif /\ command.cmd = "Rng" /\ seeded
  /\ \E p \in RandomPage : pram' = [pram EXCEPT ![1] = p]
  /\ Finish(NoError)
  /\ UNCHANGED <<ramKey, seeded, job>>

ExecLoadPlainKey ==
  /\ ~ccif /\ command.cmd = "LoadPlainKey"
  /\ ramKey' = pram[1]
  /\ Finish(NoError)
  /\ UNCHANGED <<pram, seeded, job>>

ReadyFor(cmds) ==
  ~ccif /\ command.cmd \in cmds /\ InSequence /\ ramKey # NoKey

ExecCbc ==
  /\ ReadyFor(Cbc)
  /\ pram' = [p \in 1 .. MAX_PAGES |->
                IF p \in Base .. Base + Take - 1
                  THEN Cipher(ramKey, command.cmd, Chain.iv,
                              SubSeq(Fed, 1, Len(Chain.fed) + p - Base + 1))
                  ELSE pram[p]]
  /\ job' = [Chain EXCEPT !.fed = Fed, !.left = @ - Take, !.open = Take < Chain.left]
  /\ Finish(NoError)
  /\ UNCHANGED <<ramKey, seeded>>

ExecGenerateMac ==
  /\ ReadyFor({"GenerateMac"})
  /\ pram' = IF Take = Chain.left
               THEN [pram EXCEPT ![2] = Cmac(ramKey, Fed, Chain.bits \div 8)]
               ELSE pram
  /\ job' = [Chain EXCEPT !.fed = Fed, !.left = @ - Take, !.open = Take < Chain.left]
  /\ Finish(NoError)
  /\ UNCHANGED <<ramKey, seeded>>

\* MAC_LENGTH 0 compares the whole MAC; a shorter comparison may succeed on a
\* MAC that differs later.
ExecVerifyMac ==
  /\ ReadyFor({"VerifyMac"})
  /\ \/ /\ MacPresent
        /\ \E verified \in {VerifyPass, VerifyFail} :
             /\ field[MAC_LENGTH_OFFSET] \in {0, 128} =>
                  (verified = VerifyPass
                     <=> pram[1 + Take] = Cmac(ramKey, Fed, Chain.bits \div 8))
             /\ pram' = [pram EXCEPT ![1] = verified]
     \/ ~MacPresent /\ UNCHANGED pram
  /\ job' = [Chain EXCEPT !.fed = Fed, !.left = @ - Take, !.open = ~MacPresent]
  /\ Finish(NoError)
  /\ UNCHANGED <<ramKey, seeded>>

DeviceStep ==
  \/ Refuse \/ Fault
  \/ ExecInitRng \/ ExecRng \/ ExecLoadPlainKey
  \/ ExecCbc \/ ExecGenerateMac \/ ExecVerifyMac
=============================================================================
