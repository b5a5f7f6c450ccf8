----------------------------- MODULE CryptoService -----------------------------
(***************************************************************************)
(* What csec.rs promises its callers: a call, one at a time, is answered   *)
(* with the AES function of its arguments under the key loaded last, or    *)
(* with an error the peripheral has reason to report.  Nothing here speaks *)
(* of pages of PRAM, rounds, Sequence or CCIF.                             *)
(***************************************************************************)
EXTENDS Integers, Sequences

CONSTANTS Page, RandomPage, Cipher(_, _, _, _), Cmac(_, _, _),
          VerifyPass, VerifyFail, NoKey, Faults, Calls

VARIABLES
  phase,   \* "free", "pending", "halted"
  call,    \* the pending or last call
  answer,  \* what the last call returned
  key,     \* the RAM key
  seeded   \* the random number generator may be used

service == <<phase, call, answer, key, seeded>>

NoError == 1
KeyEmpty == 16
RngSeed == 256
KnownErrors == {2, 4, 8, 16, 32, 64, 128, 256, 512, 1024, 2048}

CbcOps == {"EncCbc", "DecCbc"}
MacOps == {"GenerateMac", "VerifyMac"}

\* Calls the functions of csec.rs accept; the others panic.
Legal(c) ==
  /\ c.op \in CbcOps => c.room = c.msg.bytes /\ c.room % 16 = 0
  /\ c.op = "VerifyMac" => c.msg.bytes > 0

CbcResult(k, c) ==
  [i \in 1 .. Len(c.msg.page) |-> Cipher(k, c.op, c.arg, SubSeq(c.msg.page, 1, i))]

MacOf(k, c) == Cmac(k, c.msg.page, c.msg.bytes)

\* The values an Ok answer to c may carry.
Values(c, k) ==
  CASE c.op \in {"InitRng", "LoadPlainKey"} -> {<<>>}
    [] c.op = "Rng"         -> {<<p>> : p \in RandomPage}
    [] c.op \in CbcOps      -> {CbcResult(k, c)}
    [] c.op = "GenerateMac" -> {<<MacOf(k, c)>>}
    [] c.op = "VerifyMac"   -> {<<IF c.arg = MacOf(k, c) THEN VerifyPass ELSE VerifyFail>>}

\* What must have happened for an Ok answer.
Enabling(c) ==
  /\ c.op = "LoadPlainKey" => key = c.arg
  /\ c.op \in {"InitRng", "Rng"} => seeded
  /\ c.op \in CbcOps \cup MacOps => key # NoKey

Errors(c) ==
  (Faults \cap KnownErrors)
    \cup (IF c.op \in CbcOps \cup MacOps /\ key = NoKey THEN {KeyEmpty} ELSE {})
    \cup (IF c.op = "Rng" /\ ~seeded THEN {RngSeed} ELSE {})

Init ==
  /\ phase = "free"
  /\ call \in Calls
  /\ answer = [status |-> 0, value |-> <<>>]
  /\ key = NoKey
  /\ seeded = FALSE

Accept ==
  /\ phase = "free"
  /\ call' \in Calls
  /\ phase' = IF Legal(call') THEN "pending" ELSE "halted"
  /\ answer' = [status |-> 0, value |-> <<>>]
  /\ UNCHANGED <<key, seeded>>

Install ==
  /\ phase = "pending"
  /\ call.op = "LoadPlainKey"
  /\ key' = call.arg
  /\ UNCHANGED <<phase, call, answer, seeded>>

Seed ==
  /\ phase = "pending"
  /\ call.op = "InitRng"
  /\ seeded' = TRUE
  /\ UNCHANGED <<phase, call, answer, key>>

AnswerOk ==
  /\ phase = "pending"
  /\ Enabling(call)
  /\ \E v \in Values(call, key) : answer' = [status |-> NoError, value |-> v]
  /\ phase' = "free"
  /\ UNCHANGED <<call, key, seeded>>

AnswerError ==
  /\ phase = "pending"
  /\ \E e \in Errors(call) : answer' = [status |-> e, value |-> <<>>]
  /\ phase' = "free"
  /\ UNCHANGED <<call, key, seeded>>

\* A status word csec.rs does not know makes it panic.
Halt ==
  /\ phase = "pending"
  /\ Faults \ (KnownErrors \cup {NoError}) # {}
  /\ phase' = "halted"
  /\ UNCHANGED <<call, answer, key, seeded>>

Next == Accept \/ Install \/ Seed \/ AnswerOk \/ AnswerError \/ Halt

Spec == Init /\ [][Next]_service
=============================================================================
