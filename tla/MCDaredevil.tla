------------------------------ MODULE MCDaredevil ------------------------------
(* Daredevil with a symbolic engine and a bound on the polls.                 *)
EXTENDS Daredevil

CONSTANTS MaxPolls, Draws

MCConverted(t) == IF t < 0 THEN 4095 ELSE (t * 259) % 4096

MCPlainKey == <<"key", 1>>
MCZeroPage == <<"data", [b \in 0 .. 15 |-> 0]>>
MCRandomPage == {"rnd"} \X Draws
MCDataPage(bytes) == <<"data", bytes>>
MCBytesOf(page) == IF page[1] = "data" THEN page[2] ELSE [b \in 0 .. 15 |-> 255]

DataPages == {"data"} \X [0 .. 15 -> 0 .. 255]
EncPages == {"enc"} \X MCRandomPage \X DataPages
MacPages == {"mac"} \X (MCRandomPage \cup {MCZeroPage}) \X (EncPages \cup {MCZeroPage})
MCPage == {MCPlainKey, MCZeroPage, <<"bad", 0>>} \cup MCRandomPage
            \cup DataPages \cup EncPages \cup MacPages

MCCipher(k, op, iv, s) ==
  CASE k # MCPlainKey -> <<"bad", 0>>
    [] op = "EncCbc" -> <<"enc", iv, s[1]>>
    [] op = "DecCbc" -> IF s[1][1] = "enc" /\ s[1][2] = iv THEN s[1][3] ELSE <<"bad", 0>>
MCCmac(k, s, bytes) == <<"mac", s[1], s[2]>>

MCCalls ==
  LET Ops(ops, pages, bytes, args, room) ==
        [op : ops, msg : [page : pages, bytes : {bytes}], arg : args, room : {room}]
  IN  Ops({"InitRng", "LoadPlainKey", "Rng"}, {<<>>}, 0, {MCZeroPage, MCPlainKey}, 0)
        \cup Ops({"EncCbc"}, [{1} -> DataPages], 16, MCRandomPage, 16)
        \cup Ops({"GenerateMac"}, [{1, 2} -> MCPage], 32, {MCZeroPage}, 0)
MCNoKey == <<"nokey", 0>>
MCPass == <<"pass", 0>>
MCFail == <<"fail", 0>>

MCNext ==
  \/ poll < MaxPolls /\ poll_sensor
  \/ Program \/ Deliver \/ Answer \/ Convert \/ Stay
  \* no more polls
  \/ poll = MaxPolls /\ at = "idle" /\ delivered = accepted /\ UNCHANGED vars

MCSpec ==
  /\ Init /\ [][MCNext]_vars
  /\ WF_vars(poll < MaxPolls /\ poll_sensor)
  /\ WF_vars(Program) /\ WF_vars(Deliver) /\ WF_vars(Answer) /\ WF_vars(Convert)

\* What goes over the bus is the readings of one poll after the other, each in a frame
\* that its receiver verifies and decrypts by the recipe of main.rs:28-39; nothing but
\* an error of the engine ends it, and it ends it for good (main.rs:217-249).
Feed == INSTANCE SensorFeed WITH
  Readings <- ReadingsOf, NoReadings <- Rejected, Fallible <- Faults # {},
  MaxFrames <- MaxPolls,
  frames <- delivered,
  readings <- IF delivered = 0 THEN Rejected ELSE Received(bus),
  alive <- ~Halted

FeedSpec == Feed!Spec
=============================================================================
