------------------------------ MODULE CsecClient ------------------------------
(***************************************************************************)
(* The programs that exercise csec.rs: examples/csec.rs, the integration   *)
(* test, and the usage section of the module's documentation.  Both make   *)
(* the same calls; they differ in the lengths of their buffers.  Every     *)
(* result is unwrapped: an Err panics.                                     *)
(***************************************************************************)
EXTENDS CSEc

CONSTANTS
  Programs,   \* [plaintext, mac_text, size]: the message encrypted, the message
              \* authenticated, the bytes of enctext and dectext
  PlainKey,
  ZeroPage    \* the contents of a buffer before the call that fills it

VARIABLES
  program, \* the program that runs, one of Programs
  values,  \* what the calls returned, in order
  calling, \* a call is outstanding
  outcome  \* "none" yet, "led": the green LED is lit, "panicked" in the program itself

client == <<program, values, calling, outcome>>
all == <<vars, client>>

ProgramLength == 7

Plain(op, arg) ==
  [op |-> op, msg |-> [page |-> <<>>, bytes |-> 0], arg |-> arg, room |-> 0]

\* Call n of program p; later ones use what earlier ones returned.
ProgramCall(p, returned, n) ==
  CASE n = 1 -> Plain("InitRng", ZeroPage)
    [] n = 2 -> Plain("Rng", ZeroPage)
    [] n = 3 -> Plain("LoadPlainKey", PlainKey)
    [] n = 4 -> [op |-> "EncCbc", msg |-> p.plaintext, arg |-> returned[2][1],
                 room |-> p.size]
    [] n = 5 -> [op |-> "DecCbc", msg |-> [page |-> returned[4], bytes |-> p.size],
                 arg |-> returned[2][1], room |-> p.size]
    [] n = 6 -> [Plain("GenerateMac", ZeroPage) EXCEPT !.msg = p.mac_text]
    [] n = 7 -> [Plain("VerifyMac", returned[6][1]) EXCEPT !.msg = p.mac_text]

ClientInit ==
  /\ Init
  /\ program \in Programs
  /\ values = <<>>
  /\ calling = FALSE
  /\ outcome = "none"

MakeCall ==
  /\ ~calling
  /\ Len(values) < ProgramLength
  /\ Call(ProgramCall(program, values, Len(values) + 1))
  /\ calling' = TRUE
  /\ UNCHANGED <<program, values, outcome>>

Unwrap ==
  /\ calling /\ pc = "idle" /\ outcome = "none"
  /\ IF result.status = NoError
       THEN values' = Append(values, result.value) /\ calling' = FALSE /\ UNCHANGED outcome
       ELSE outcome' = "panicked" /\ UNCHANGED <<values, calling>>
  /\ UNCHANGED <<vars, program>>

\* assert!(verify_mac(..)) and assert!(plaintext == dectext), then the LED.
Conclude ==
  /\ Len(values) = ProgramLength /\ outcome = "none"
  /\ outcome' = IF values[7] = <<VerifyPass>> /\ values[5] = program.plaintext.page
                  THEN "led" ELSE "panicked"
  /\ UNCHANGED <<vars, program, values, calling>>

\* loop {} at the end of main, or in panic_halt.
LoopForever == outcome # "none" /\ UNCHANGED all

ClientNext ==
  \/ MakeCall \/ Unwrap \/ Conclude \/ LoopForever
  \/ (DriverStep \/ Engine \/ Halted) /\ UNCHANGED client

ClientSpec == ClientInit /\ [][ClientNext]_all

-----------------------------------------------------------------------------

\* The program reaches the LED unless the engine reports a fault of its own: what
\* encrypt_cbc wrote decrypt_cbc restores, and what generate_mac returned verify_mac
\* accepts, through all their rounds (examples/csec.rs:43-55).
ReachesLed ==
  <>(outcome = "led" \/ ("panicked" \in {pc, outcome} /\ Status \in Faults))

\* No unwrap and no assertion of the program fails, nor one of the driver it calls, unless
\* the engine has just reported a fault of its own (examples/csec.rs:50-59).
PanicsOnFaultOnly ==
  outcome = "panicked" \/ (calling /\ pc = "panicked") => Status \in Faults

\* On an engine without faults the documented program does not panic
\* (csec.rs:40-62, "## Usage").
UsageRuns == "panicked" \notin {pc, outcome}
=============================================================================
