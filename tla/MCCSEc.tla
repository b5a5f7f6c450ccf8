-------------------------------- MODULE MCCSEc --------------------------------
(* CSEc with symbolic pages: page i of message "m" is <<"m", i>>, and the      *)
(* results of the engine are the terms that name their arguments.  The client  *)
(* is free to make any call, or runs one of the programs of CsecClient.        *)
EXTENDS CsecClient

CONSTANTS
  Clients,    \* kinds of client, of "free" and "program"
  CbcPages,   \* lengths of CBC inputs, in pages
  MacBytes,   \* lengths of MAC inputs, in bytes
  MaxPages,   \* no CBC input is longer
  Sizes,      \* lengths of plaintext and buffers that agree, as in the test
  MaxCalls    \* calls the free client makes; 0 means without end

VARIABLES
  who,  \* the client that runs
  made  \* calls the free client has made

everything == <<all, who, made>>

Iv == <<"iv", 1>>
Rnd == <<"rnd", 1>>
Key == <<"key", 1>>

IsPrefixOf(name, s) == \A i \in 1 .. Len(s) : s[i] = <<name, i>>

\* Encryptions of anything but the first pages of "m" are one page: the
\* properties only tell them from the right ones.
MCCipher(k, cmd, iv, s) ==
  IF iv \notin {Iv, Rnd} \/ Len(s) \notin 1 .. MaxPages THEN <<"garbage", 0>>
  ELSE IF IsPrefixOf("m", s) THEN <<cmd, k, iv, Len(s)>>
  ELSE IF cmd = "DecCbc" /\ \A i \in 1 .. Len(s) : s[i] = <<"EncCbc", k, iv, i>>
    THEN <<"m", Len(s)>>
  ELSE <<"garbage", 0>>
MCCmac(k, s, b) ==
  IF Len(s) = PagesOf(b) /\ IsPrefixOf("m", s) THEN <<"cmac", k, b>> ELSE <<"garbage", 1>>

Message(name, bytes) ==
  [page |-> [i \in 1 .. PagesOf(bytes) |-> <<name, i>>], bytes |-> bytes]
NoMessage == Message("none", 0)
Random == {Rnd}

MCPass == <<"zero", 0>>
MCFail == <<"bits", 0>>
MCBlank == <<"blank", 0>>
MCNoKey == <<"nokey", 0>>

Single(op, arg) == [op |-> op, msg |-> NoMessage, arg |-> arg, room |-> 0]
CbcCall(op, n) == [op |-> op, msg |-> Message("m", 16 * n), arg |-> Iv, room |-> 16 * n]
MacCall(op, bytes, arg) == [op |-> op, msg |-> Message("m", bytes), arg |-> arg, room |-> 0]

KeyCalls == {Single("LoadPlainKey", Key)}
RngCalls == {Single("InitRng", Iv), Single("Rng", Iv)}
CbcCalls == {CbcCall("EncCbc", n) : n \in CbcPages} \cup {CbcCall("DecCbc", 8)}
MacCalls ==
  {MacCall("GenerateMac", b, Iv) : b \in MacBytes}
  \cup {MacCall("VerifyMac", b, MCCmac(Key, Message("m", b).page, b)) : b \in MacBytes \ {0}}
  \cup {MacCall("VerifyMac", b, <<"bogus", 1>>) : b \in MacBytes}
\* Calls the assertions refuse.
BadCalls ==
  {[CbcCall("EncCbc", 1) EXCEPT !.room = 32],
   [CbcCall("DecCbc", 1) EXCEPT !.room = 17, !.msg = Message("m", 17)]}
FreeCalls == KeyCalls \cup RngCalls \cup CbcCalls \cup MacCalls \cup BadCalls

MCPrograms ==
  {[plaintext |-> Message("m", n), mac_text |-> Message("m", n), size |-> n] : n \in Sizes}

\* What the calls of a program return on an engine without faults.
Returns(p) ==
  <<<<>>, <<Rnd>>, <<>>,
    [i \in 1 .. PagesOf(p.size) |-> <<"EncCbc", Key, Rnd, i>>], p.plaintext.page,
    <<<<"cmac", Key, p.mac_text.bytes>>>>>>
ProgramCalls == {ProgramCall(p, Returns(p), n) : p \in MCPrograms, n \in 1 .. ProgramLength}

MCCalls == FreeCalls \cup ProgramCalls

MCPage ==
  UNION {{c.arg} \cup {c.msg.page[i] : i \in 1 .. Len(c.msg.page)} : c \in MCCalls}
    \cup {<<cmd, Key, iv, n>> : cmd \in Cbc, iv \in {Iv, Rnd}, n \in 1 .. MaxPages}
    \cup {<<"cmac", Key, b>> : b \in MacBytes \cup Sizes}
    \cup {<<"garbage", 0>>, <<"garbage", 1>>, MCPass, MCFail, MCBlank}
    \cup Random

Begins == pc = "idle" /\ pc' # "idle"

FreeNext ==
  /\ who = "free"
  /\ \/ /\ Next
        /\ Begins => call' \in FreeCalls /\ (MaxCalls > 0 => made < MaxCalls)
        /\ made' = IF Begins /\ MaxCalls > 0 THEN made + 1 ELSE made
     \* the client is done
     \/ MaxCalls > 0 /\ made = MaxCalls /\ pc = "idle" /\ UNCHANGED <<vars, made>>
  /\ UNCHANGED client

MCInit ==
  /\ ClientInit
  /\ who \in Clients
  /\ who = "free" => program = CHOOSE p \in Programs : TRUE
  /\ made = 0

MCNext ==
  /\ FreeNext \/ (who = "program" /\ ClientNext /\ UNCHANGED made)
  /\ UNCHANGED who

MCSpec ==
  /\ MCInit /\ [][MCNext]_everything
  /\ WF_everything(who = "program" /\ (MakeCall \/ Unwrap \/ Conclude) /\ UNCHANGED <<who, made>>)
  /\ WF_everything(DriverStep /\ UNCHANGED <<client, who, made>>)
  /\ WF_everything(Engine /\ UNCHANGED <<client, who, made>>)

\* The programs light the LED on the board: ReachesLed, for the client that runs one.
ProgramsReachLed == who = "program" => ReachesLed
=============================================================================
