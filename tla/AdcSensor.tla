------------------------------ MODULE AdcSensor ------------------------------
(***************************************************************************)
(* ADC::read against the converter.  Time is counted in ticks, one for     *)
(* each access of the CPU to a register and SleepTicks for the pause       *)
(* between two sensors; a conversion takes MinTicks to MaxTicks.           *)
(***************************************************************************)
EXTENDS Integers

CONSTANTS
  MinTicks, MaxTicks, \* what a conversion takes
  SleepTicks          \* what utils::sleep(10) takes

\* A conversion (5 us) outlasts the two accesses after its trigger, and ends within the
\* thousand iterations of the pause.
ASSUME TimingAssumption ==
  /\ MinTicks \in Nat /\ MaxTicks \in Nat /\ SleepTicks \in Nat
  /\ 2 <= MinTicks /\ MinTicks <= MaxTicks /\ MaxTicks <= SleepTicks

CHANNEL_COUNT == 4
Slots == 0 .. CHANNEL_COUNT - 1
CHANNELS == [s \in Slots |-> CASE s = 0 -> 15 [] s = 1 -> 14 [] s = 2 -> 13 [] s = 3 -> 9]

VARIABLES
  poll,    \* calls of read so far
  pc,      \* "idle", "select", "trigger", "wait", "result", "sleep"
  i,       \* the sensor being read
  slept,   \* ticks of the pause gone
  values,  \* sensor_values
  sc1a,    \* the sample being converted, None
  age,     \* ticks since its trigger
  coco,    \* SC1A.COCO
  ra       \* RA: the last sample converted

cpu == <<poll, pc, i, slept, values>>
adc == <<sc1a, age, coco, ra>>
vars == <<cpu, adc>>

\* A sample is the number of its trigger, counted over all polls.
Trigger(p, s) == CHANNEL_COUNT * (p - 1) + s + 1
Reset == 0    \* what RA holds before the first
Dummy == -1   \* of channel 0
None == -2

Init ==
  /\ poll = 0
  /\ pc = "idle"
  /\ i = 0
  /\ slept = 0
  /\ values = [s \in Slots |-> Reset]
  /\ sc1a = None
  /\ age = 0
  /\ coco = FALSE
  /\ ra = Reset

-----------------------------------------------------------------------------
(* The converter.                                                           *)

Converting == sc1a # None

\* A tick passes while a register is left alone.
Tick ==
  IF Converting THEN age < MaxTicks /\ age' = age + 1 /\ UNCHANGED <<sc1a, ra>>
                ELSE UNCHANGED <<sc1a, age, ra>>

\* A write to SC1A clears COCO, aborts the conversion in progress and starts one.
Start(sample) ==
  /\ Converting => age < MaxTicks
  /\ sc1a' = sample /\ age' = 0 /\ coco' = FALSE /\ UNCHANGED ra

Complete ==
  /\ Converting /\ age >= MinTicks
  /\ ra' = sc1a /\ coco' = TRUE
  /\ sc1a' = None
  /\ UNCHANGED <<cpu, age>>

-----------------------------------------------------------------------------
(* ADC::read, and read_adc inside it.                                       *)

read ==
  /\ pc = "idle"
  /\ poll' = poll + 1
  /\ pc' = "select" /\ i' = 0
  /\ values' = [s \in Slots |-> Reset]
  /\ UNCHANGED <<slept, adc>>

\* sc1a.modify(adch = 0) starts a conversion, too.
select ==
  /\ pc = "select"
  /\ Start(Dummy)
  /\ pc' = "trigger"
  /\ UNCHANGED <<poll, i, slept, values>>

trigger ==
  /\ pc = "trigger"
  /\ Start(Trigger(poll, i))
  /\ pc' = "wait"
  /\ UNCHANGED <<poll, i, slept, values>>

\* Mutant: waits for COCO, but writes SC1A in each turn of the loop.
wait_retriggering ==
  /\ pc = "wait"
  /\ IF coco THEN pc' = "result" /\ Tick /\ UNCHANGED coco
             ELSE pc' = "wait" /\ Start(Trigger(poll, i))
  /\ UNCHANGED <<poll, i, slept, values>>

\* "wait for conversion": the loop runs while COCO is set.
wait ==
  /\ pc = "wait"
  /\ pc' = IF coco THEN "wait" ELSE "result"
  /\ Tick
  /\ UNCHANGED <<poll, i, slept, values, coco>>

\* Reading RA clears COCO.
result ==
  /\ pc = "result"
  /\ values' = [values EXCEPT ![i] = ra]
  /\ pc' = "sleep" /\ slept' = 0
  /\ Tick /\ coco' = FALSE
  /\ UNCHANGED <<poll, i>>

sleep ==
  /\ pc = "sleep" /\ slept < SleepTicks
  /\ slept' = slept + 1
  /\ Tick
  /\ UNCHANGED <<poll, pc, i, values, coco>>

\* Mutant: no pause.
next_sensor_at_once ==
  /\ pc = "sleep"
  /\ i' = i + 1
  /\ pc' = IF i' < CHANNEL_COUNT THEN "select" ELSE "idle"
  /\ UNCHANGED <<poll, slept, values, adc>>

\* Mutant: one sensor too many.
next_sensor_past ==
  /\ pc = "sleep" /\ slept = SleepTicks
  /\ i' = i + 1
  /\ pc' = IF i' <= CHANNEL_COUNT THEN "select" ELSE "idle"
  /\ UNCHANGED <<poll, slept, values, adc>>

next_sensor ==
  /\ pc = "sleep" /\ slept = SleepTicks
  /\ i' = i + 1
  /\ pc' = IF i' < CHANNEL_COUNT THEN "select" ELSE "idle"
  /\ UNCHANGED <<poll, slept, values, adc>>

CPU == select \/ trigger \/ wait \/ result \/ sleep \/ next_sensor

Next == read \/ CPU \/ Complete

Spec == Init /\ [][Next]_vars

\* The CPU runs read to its end, a conversion ends.
FairSpec == Spec /\ WF_vars(CPU) /\ WF_vars(Complete)

-----------------------------------------------------------------------------
(* Properties.                                                              *)

Samples == Nat \union {Dummy}

TypeOK ==
  /\ poll \in Nat
  /\ pc \in {"idle", "select", "trigger", "wait", "result", "sleep"}
  /\ i \in 0 .. CHANNEL_COUNT
  /\ pc # "idle" => i \in Slots /\ poll > 0
  /\ slept \in 0 .. SleepTicks
  /\ values \in [Slots -> Samples]
  /\ sc1a \in Samples \union {None}
  /\ age \in 0 .. MaxTicks
  /\ coco \in BOOLEAN
  /\ ra \in Samples

\* The readings of a poll are the last four samples triggered before its own last one,
\* in order: read_adc (adc.rs:59) loses no sample, returns none twice, and never one of
\* channel 0, which it triggers on the way.
ReadingsInOrder ==
  \A s \in Slots : s < i => values[s] = Trigger(poll, s) - 1

\* A reading is of its own channel ("Reads a single ADC channel", adc.rs:58).
ChannelOf(sample) == IF sample \in {Reset, Dummy} THEN 0 ELSE CHANNELS[(sample - 1) % CHANNEL_COUNT]
OwnChannel ==
  \A s \in Slots : s < i => ChannelOf(values[s]) = CHANNELS[s]

\* read returns: the wait for COCO and the pauses end.
ReadsEnd == pc # "idle" ~> pc = "idle"

\* The inductive invariant: RA is one trigger behind the CPU until the pause.
Before == Trigger(poll, i) - 1
ConverterInv ==
  /\ pc = "idle" => ra = CHANNEL_COUNT * poll /\ ~Converting
  /\ pc = "select" => ra = Before /\ ~Converting
  /\ pc = "trigger" => ra = Before /\ sc1a = Dummy /\ age = 0
  /\ pc = "wait" => ra = Before /\ sc1a = Trigger(poll, i) /\ age = 0 /\ ~coco
  /\ pc = "result" => ra = Before /\ sc1a = Trigger(poll, i) /\ age = 1 /\ ~coco
  /\ pc = "sleep" =>
       \/ ra = Before /\ sc1a = Trigger(poll, i) /\ age = slept + 2
       \/ ra = Trigger(poll, i) /\ ~Converting
ReadInv ==
  /\ pc = "idle" => i = IF poll = 0 THEN 0 ELSE CHANNEL_COUNT
  /\ pc = "sleep" => values[i] = Before
AdcInv == TypeOK /\ ConverterInv /\ ReadInv /\ ReadingsInOrder
=============================================================================
