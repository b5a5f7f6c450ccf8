--------------------------------- MODULE CSEc ---------------------------------
(***************************************************************************)
(* The driver of csec.rs.  A client makes one call at a time; the call     *)
(* writes its set-up fields, then runs rounds (process_blocks): write the  *)
(* pages of this round, write the command header, spin on CCIF, check the  *)
(* status, read the result and recurse on what is left of the input.       *)
(* Between the header and CCIF the peripheral (CsecDevice) works.          *)
(***************************************************************************)
EXTENDS CsecDevice

CONSTANTS
  Calls,  \* the calls the client may make
  Blank   \* what the caller's output buffer holds before the call

VARIABLES
  pc,          \* "idle", "round", "wait" (spinning on CCIF), "panicked"
  call,        \* the call in progress, or the last one (any, before the first)
  pos,         \* pages of the input consumed by earlier rounds
  sequence,    \* Sequence of the round being processed
  mac_written, \* verify_mac has placed the expected MAC
  depth,       \* frames of process_blocks on the stack
  output,      \* the caller's buffer, page by page
  result       \* what the last call returned

driver == <<pc, call, pos, sequence, mac_written, depth, output, result>>
vars == <<device, driver>>

\* A client buffer: its length in bytes and the pages those bytes fill, the last
\* one perhaps in part.
IsMessage(m) ==
  /\ m.bytes \in Nat
  /\ m.page \in Seq(Page)
  /\ Len(m.page) = PagesOf(m.bytes)

\* arg is the key, the initialization vector or the expected MAC; room is the
\* length in bytes of the output slice.
ASSUME CallsAssumption ==
  /\ Calls # {}
  /\ Blank \in Page
  /\ \A c \in Calls :
       /\ c.op \in Commands
       /\ IsMessage(c.msg)
       /\ c.arg \in Page
       /\ c.room \in Nat

\* Lengths that fit the halfword the driver writes them to.
Short(c) == 8 * c.msg.bytes < HALFWORD

\* The engine makes pages of pages.  TLC cannot enumerate Seq(Page): the proofs
\* take this as a hypothesis, and the symbolic engine of MCCSEc has it by its form.
EngineMakesPages ==
  \A k \in Page, s \in Seq(Page) :
    /\ \A cmd \in Cbc, iv \in Page : Cipher(k, cmd, iv, s) \in Page
    /\ \A b \in Nat : Cmac(k, s, b) \in Page

\* A returned value: Ok when status is NoError.
Returned(status, value) == [status |-> status, value |-> value]
NoResult == Returned(0, <<>>)

TypeOK ==
  /\ DeviceTypeOK
  /\ pc \in {"idle", "round", "wait", "panicked"}
  /\ call \in Calls
  /\ pos \in Nat
  /\ sequence \in {"First", "Subsequent"}
  /\ mac_written \in BOOLEAN
  /\ depth \in Nat
  /\ output \in Seq(Page)
  /\ result \in [status : 0 .. HALFWORD - 1, value : Seq(Page)]

Init ==
  /\ DeviceInit
  /\ pc = "idle"
  /\ call = CHOOSE c \in Calls : TRUE
  /\ pos = 0
  /\ sequence = "First"
  /\ mac_written = FALSE
  /\ depth = 0
  /\ output = <<>>
  /\ result = NoResult

-----------------------------------------------------------------------------
(* Helpers of the driver.                                                   *)

write_command_header(cmd, callseq) ==
  /\ command' = [cmd |-> cmd, seq |-> callseq]
  /\ ccif' = FALSE

\* Pages of input the current round takes.
PageOffset == IF call.op \in Cbc /\ sequence = "First" THEN 2 ELSE 1
AvailPages == MAX_PAGES + 1 - PageOffset
Remaining == Len(call.msg.page) - pos
\* Mutant: a page at a time.
RoundPages_single == IF Remaining = 0 THEN 0 ELSE 1
RoundPages == IF Remaining <= AvailPages THEN Remaining ELSE AvailPages
RoundInput == SubSeq(call.msg.page, pos + 1, pos + RoundPages)

\* The page verify_mac puts the expected MAC on, if it is below MAX_PAGES.
next_page == 1 + RoundPages
\* Mutant: the MAC may go on the last page.
AppendsMac_last_page == ~mac_written /\ next_page <= MAX_PAGES
AppendsMac == ~mac_written /\ next_page < MAX_PAGES

-----------------------------------------------------------------------------
(* The public functions, up to their first round.                           *)

Start(c) ==
  /\ pc = "idle"
  /\ call' = c
  /\ pos' = 0
  /\ sequence' = "First"
  /\ mac_written' = FALSE
  /\ depth' = 0
  /\ output' = [i \in 1 .. PagesOf(c.room) |-> Blank]
  /\ result' = NoResult
  /\ UNCHANGED <<command, ccif, ramKey, seeded, job>>

\* An assertion of the call fails: the panic handler takes over for good.
StartPanics(c) == Start(c) /\ pc' = "panicked" /\ UNCHANGED <<field, pram>>

init_rng(c) ==
  /\ c.op = "InitRng"
  /\ Start(c) /\ pc' = "round" /\ UNCHANGED <<field, pram>>

generate_rnd(c) ==
  /\ c.op = "Rng"
  /\ Start(c) /\ pc' = "round" /\ UNCHANGED <<field, pram>>

load_plainkey(c) ==
  /\ c.op = "LoadPlainKey"
  /\ Start(c) /\ pc' = "round"
  /\ pram' = WritePages(pram, 1, <<c.arg>>)
  /\ UNCHANGED field

\* The third assertion of handle_cbc, on the length, holds for every input.
CbcAccepts(c) == c.room = c.msg.bytes /\ c.room % PAGE_SIZE_IN_BYTES = 0

AtLeastOne(n) == IF n = 0 THEN 1 ELSE n

handle_cbc(c) ==
  /\ c.op \in Cbc
  /\ \/ /\ CbcAccepts(c)
        /\ Start(c) /\ pc' = "round"
        /\ pram' = WritePages(pram, 1, <<c.arg>>)
        /\ field' = write_command_halfword(field, PAGE_LENGTH_OFFSET,
                      AtLeastOne(Len(c.msg.page) % HALFWORD))
     \/ ~CbcAccepts(c) /\ StartPanics(c)

\* How long the message is, in bits.
MessageLengthField(c) ==
  write_command_words(field, MAC_MESSAGE_LENGTH_OFFSET, 8 * c.msg.bytes)

generate_mac(c) ==
  /\ c.op = "GenerateMac"
  /\ Start(c) /\ pc' = "round"
  /\ field' = MessageLengthField(c)
  /\ UNCHANGED pram

verify_mac(c) ==
  /\ c.op = "VerifyMac"
  /\ \/ /\ c.msg.bytes > 0
        /\ Start(c) /\ pc' = "round"
        /\ field' = write_command_halfword(MessageLengthField(c), MAC_LENGTH_OFFSET,
                                           8 * PAGE_SIZE_IN_BYTES)
        /\ UNCHANGED pram
     \/ c.msg.bytes = 0 /\ StartPanics(c)

Call(c) ==
  \/ init_rng(c) \/ generate_rnd(c) \/ load_plainkey(c)
  \/ handle_cbc(c) \/ generate_mac(c) \/ verify_mac(c)

-----------------------------------------------------------------------------
(* One round: the pages and the header that starts the engine.              *)

Round(cmds) ==
  /\ pc = "round"
  /\ call.op \in cmds
  /\ pc' = "wait"
  /\ write_command_header(call.op, sequence)
  /\ UNCHANGED <<field, ramKey, seeded, job, call, pos, sequence, output, result>>

single_round ==
  /\ Round({"InitRng", "Rng", "LoadPlainKey"})
  /\ UNCHANGED <<pram, mac_written, depth>>

process_blocks ==
  /\ Round(Cbc \cup {"GenerateMac"})
  /\ pram' = WritePages(pram, PageOffset, RoundInput)
  /\ depth' = depth + 1
  /\ UNCHANGED mac_written

process_blocks_verify ==
  /\ Round({"VerifyMac"})
  /\ pram' = LET p == WritePages(pram, 1, RoundInput)
             IN  IF AppendsMac THEN WritePages(p, next_page, <<call.arg>>) ELSE p
  /\ mac_written' = (mac_written \/ AppendsMac)
  /\ depth' = depth + 1

-----------------------------------------------------------------------------
(* CCIF is up again: the status, the result, the next round.                *)

Status == field[ERROR_BITS_OFFSET]

Collect ==
  /\ pc = "wait"
  /\ ccif
  /\ UNCHANGED <<device, call>>

Return(status, value) ==
  /\ pc' = "idle"
  /\ depth' = 0
  /\ result' = Returned(status, value)
  /\ UNCHANGED <<pos, sequence, mac_written>>

\* Mutant: the next round is announced as a first one again.
Recurse_first ==
  /\ pc' = "round"
  /\ pos' = pos + RoundPages
  /\ UNCHANGED <<sequence, mac_written, depth, result>>

Recurse ==
  /\ pc' = "round"
  /\ pos' = pos + RoundPages
  /\ sequence' = "Subsequent"
  /\ UNCHANGED <<mac_written, depth, result>>

\* CommandResult::from_u16 of a value that is not a single known bit.
UnknownStatus ==
  /\ Collect
  /\ Status \notin KnownResults
  /\ pc' = "panicked"
  /\ UNCHANGED <<pos, sequence, mac_written, depth, output, result>>

\* Mutant: a failed round is tried again.
ReturnError_retries ==
  /\ Collect
  /\ Status \in KnownResults \ {NoError}
  /\ pc' = "round"
  /\ UNCHANGED <<pos, sequence, mac_written, depth, output, result>>

ReturnError ==
  /\ Collect
  /\ Status \in KnownResults \ {NoError}
  /\ Return(Status, <<>>)
  /\ UNCHANGED output

Succeeded(cmds) == Collect /\ Status = NoError /\ call.op \in cmds

ReturnUnit ==
  /\ Succeeded({"InitRng", "LoadPlainKey"})
  /\ Return(NoError, <<>>)
  /\ UNCHANGED output

ReturnRnd ==
  /\ Succeeded({"Rng"})
  /\ Return(NoError, <<pram[1]>>)
  /\ UNCHANGED output

\* Mutant: the result is read from page 1 in every round.
ReadOutput_page_one ==
  [i \in 1 .. Len(output) |->
     IF i \in pos + 1 .. pos + RoundPages THEN pram[i - pos] ELSE output[i]]

\* read_command_bytes into this round's part of the output slice.
ReadOutput ==
  [i \in 1 .. Len(output) |->
     IF i \in pos + 1 .. pos + RoundPages THEN pram[PageOffset + i - pos - 1]
                                          ELSE output[i]]

CollectCbc ==
  /\ Succeeded(Cbc)
  /\ output' = ReadOutput
  /\ IF Remaining > RoundPages THEN Recurse ELSE Return(NoError, output')

CollectGenerateMac ==
  /\ Succeeded({"GenerateMac"})
  /\ IF Remaining > RoundPages THEN Recurse ELSE Return(NoError, <<pram[2]>>)
  /\ UNCHANGED output

\* The verification bits read in a round before the last are dropped.
CollectVerifyMac ==
  /\ Succeeded({"VerifyMac"})
  /\ IF ~mac_written
       THEN Recurse
       ELSE Return(NoError, <<IF pram[1] = VerifyPass THEN VerifyPass ELSE VerifyFail>>)
  /\ UNCHANGED output

DriverStep ==
  \/ single_round \/ process_blocks \/ process_blocks_verify
  \/ UnknownStatus \/ ReturnError \/ ReturnUnit \/ ReturnRnd
  \/ CollectCbc \/ CollectGenerateMac \/ CollectVerifyMac

\* panic_halt loops for ever.
Halted == pc = "panicked" /\ UNCHANGED vars

Engine == DeviceStep /\ UNCHANGED driver

Next ==
  \/ \E c \in Calls : Call(c)
  \/ DriverStep
  \/ Engine
  \/ Halted

Spec == Init /\ [][Next]_vars

\* The CPU runs the driver's next statement; the engine finishes what it started.
FairSpec == Spec /\ WF_vars(DriverStep) /\ WF_vars(Engine)

-----------------------------------------------------------------------------
(* Properties.                                                              *)

Busy == pc \in {"round", "wait"}

\* The engine holds the first p pages of the input, in order, under the caller's
\* initialization vector, and expects exactly the rest.
EngineAt(p) ==
  /\ job.open
  /\ job.cmd = call.op
  /\ job.fed = SubSeq(call.msg.page, 1, p)
  /\ job.left = Len(call.msg.page) - p
  /\ call.op \in Cbc => job.iv = call.arg
  /\ call.op \in Mac => job.bits = 8 * call.msg.bytes

\* The fields announce the whole input.
FieldsAnnounce ==
  /\ call.op \in Cbc => field[PAGE_LENGTH_OFFSET] = AtLeastOne(Len(call.msg.page))
  /\ call.op \in Mac => MessageBits = 8 * call.msg.bytes

\* Between two rounds the engine and the driver are at the same place of the same
\* operation: before the first the fields the engine will read announce the whole
\* input, before a later one the engine is where the driver is (process_blocks
\* against the lengths written before it, csec.rs:339, 375, 440).
InStep ==
  pc = "round" /\ call.op \in Cbc \cup Mac =>
    IF sequence = "First"
      THEN pos = 0 /\ FieldsAnnounce /\ (call.op \in Cbc => pram[1] = call.arg)
      ELSE EngineAt(pos)

CbcPage(i) == Cipher(ramKey, call.op, call.arg, SubSeq(call.msg.page, 1, i))

\* The first n pages of the caller's buffer are results, the others untouched.
OutputUpTo(n) ==
  \A i \in 1 .. Len(output) : output[i] = IF i <= n THEN CbcPage(i) ELSE Blank

\* The caller's buffer always holds the right pages up to some point and its own
\* old contents after it: no stale page of PRAM is ever copied out, also when a
\* round fails half-way (the ? before read_command_bytes, csec.rs:469-470).
OutputIsPrefix ==
  pc # "panicked" /\ call.op \in Cbc => \E n \in 0 .. Len(output) : OutputUpTo(n)

\* The recursion of process_blocks stays within one frame per seven pages, two at
\* most above the least possible, so the stack a call needs follows from the
\* length of its input alone (csec.rs:355, 408, 474).
StackBounded == MAX_PAGES * (depth - 1) <= Len(call.msg.page) + 1

\* Refinement: calls, rounds, fields and CCIF together give CryptoService.
Service == INSTANCE CryptoService WITH
  phase <- CASE pc = "idle" -> "free" [] pc = "panicked" -> "halted" [] OTHER -> "pending",
  answer <- result,
  key <- ramKey

ServiceSpec == Service!Spec

\* Every call returns or panics: no `while ccif clear` spins for ever, no recursion
\* of process_blocks fails to end (csec.rs:518).
CallsReturn == pc \in {"round", "wait"} ~> pc \in {"idle", "panicked"}

\* "Write how long our message is (in bits)" (csec.rs:338, 374): when the engine is
\* started for a MAC, the length field says so.
LengthAnnounced ==
  pc = "wait" /\ call.op \in Mac => MessageBits = 8 * call.msg.bytes

-----------------------------------------------------------------------------
(* The inductive invariant behind InStep, OutputIsPrefix and ServiceSpec: what *)
(* holds at each point of a call.                                              *)

\* A call under way was accepted, and its set-up fields stay as written.
CallInv ==
  Busy =>
    /\ CbcAccepts(call) \/ call.op \notin Cbc
    /\ call.op = "VerifyMac" => call.msg.bytes > 0
    /\ call.op \in Cbc => Len(output) = Len(call.msg.page) /\ OutputUpTo(pos)
    /\ FieldsAnnounce
    /\ pos <= Len(call.msg.page)
    /\ sequence = "First" => pos = 0
    /\ sequence = "Subsequent" => call.op \in Cbc \cup Mac

\* write_command_halfword leaves the upper halfwords zero.
UpperFieldsInv == field[MAC_LENGTH_OFFSET] = 0 /\ field[MAC_MESSAGE_LENGTH_OFFSET] = 0

\* Before a round.
RoundInv ==
  pc = "round" =>
    /\ call.op = "VerifyMac" => ~mac_written
    /\ sequence = "Subsequent" => EngineAt(pos)
    /\ sequence = "First" /\ call.op \in Cbc \cup {"LoadPlainKey"} => pram[1] = call.arg

\* The engine is about to work on this round's pages.
StartedInv ==
  ~ccif =>
    /\ pc = "wait"
    /\ command = [cmd |-> call.op, seq |-> sequence]
    /\ sequence = "Subsequent" => EngineAt(pos)
    /\ sequence = "First" /\ call.op \in Cbc \cup {"LoadPlainKey"} => pram[1] = call.arg
    /\ call.op \in Cbc \cup Mac =>
         \A i \in 1 .. RoundPages : pram[PageOffset + i - 1] = call.msg.page[pos + i]
    /\ call.op = "VerifyMac" =>
         /\ mac_written <=> next_page < MAX_PAGES
         /\ mac_written => pram[next_page] = call.arg

\* The engine has finished this round.
FinishedInv ==
  pc = "wait" /\ ccif /\ Status = NoError =>
    /\ call.op \in {"InitRng", "Rng"} => seeded
    /\ call.op = "Rng" => pram[1] \in RandomPage
    /\ call.op = "LoadPlainKey" => ramKey = call.arg
    /\ call.op \in Cbc \cup Mac => ramKey # NoKey
    /\ call.op \in Cbc =>
         \A i \in 1 .. RoundPages : pram[PageOffset + i - 1] = CbcPage(pos + i)
    /\ call.op \in Cbc \cup {"GenerateMac"} /\ Remaining > RoundPages =>
         EngineAt(pos + RoundPages)
    /\ call.op = "GenerateMac" /\ Remaining <= RoundPages =>
         pram[2] = Cmac(ramKey, call.msg.page, call.msg.bytes)
    /\ call.op = "VerifyMac" /\ ~mac_written => EngineAt(pos + RoundPages)
    /\ call.op = "VerifyMac" /\ mac_written =>
         pram[1] = IF call.arg = Cmac(ramKey, call.msg.page, call.msg.bytes)
                     THEN VerifyPass ELSE VerifyFail

\* An error the engine reports is one it has reason to report.
StatusInv ==
  pc = "wait" /\ ccif /\ Status # NoError =>
    \/ Status \in Faults
    \/ Status = KeyEmpty /\ call.op \in Cbc \cup Mac /\ ramKey = NoKey
    \/ Status = RngSeed /\ call.op = "Rng" /\ ~seeded

\* All of it.
Inductive ==
  /\ TypeOK
  /\ CallInv /\ UpperFieldsInv /\ RoundInv /\ StartedInv /\ FinishedInv /\ StatusInv
  /\ OutputIsPrefix
=============================================================================
