--------------------------- MODULE AdcSensor_proof ---------------------------
(* Proofs about AdcSensor, for every timing within TimingAssumption.          *)
EXTENDS AdcSensor, TLAPS

LEMMA NumberFacts ==
  ASSUME NEW p \in Nat \ {0}, NEW s \in Slots
  PROVE  /\ Trigger(p, s) \in Nat \ {0} /\ Trigger(p, s) - 1 \in Nat
         /\ Trigger(p, s) # None /\ Trigger(p, s) # Dummy
  BY DEF Trigger, Slots, CHANNEL_COUNT, None, Dummy

LEMMA NextTrigger ==
  /\ \A p \in Nat : CHANNEL_COUNT * p = Trigger(p + 1, 0) - 1
  /\ \A p \in Nat, s \in Slots : Trigger(p, s) = Trigger(p, s + 1) - 1
  /\ \A p \in Nat : CHANNEL_COUNT * p = Trigger(p, CHANNEL_COUNT - 1)
  /\ \A s \in Slots : s + 1 < CHANNEL_COUNT \/ s = CHANNEL_COUNT - 1
  BY DEF Trigger, CHANNEL_COUNT, Slots

LEMMA InitAdcInv == Init => AdcInv
<1> SUFFICES ASSUME Init PROVE AdcInv
  OBVIOUS
<1>1. TypeOK
  <2>1. 0 \in 0 .. SleepTicks /\ 0 \in 0 .. MaxTicks /\ 0 \in 0 .. CHANNEL_COUNT
    BY TimingAssumption DEF CHANNEL_COUNT
  <2>2. Reset \in Samples
    BY DEF Reset, Samples
  <2> QED
    BY <2>1, <2>2 DEF Init, TypeOK
<1>2. ConverterInv /\ ReadInv
  BY DEF Init, ConverterInv, ReadInv, Converting, Reset, CHANNEL_COUNT
<1>3. ReadingsInOrder
  BY DEF Init, ReadingsInOrder, Slots, CHANNEL_COUNT
<1> QED
  BY <1>1, <1>2, <1>3 DEF AdcInv

-----------------------------------------------------------------------------

LEMMA ReadKeepsAdcInv ==
  ASSUME AdcInv, read
  PROVE  AdcInv'
<1>1. /\ pc = "idle" /\ pc' = "select" /\ i' = 0 /\ poll \in Nat /\ poll' = poll + 1
      /\ values' = [s \in Slots |-> Reset]
      /\ UNCHANGED <<slept, sc1a, age, coco, ra>>
  BY DEF read, adc, AdcInv, TypeOK
<1>2. 0 \in Slots /\ 0 \in 0 .. CHANNEL_COUNT /\ poll' \in Nat /\ poll' > 0
  BY <1>1 DEF Slots, CHANNEL_COUNT
<1>3. values' \in [Slots -> Samples]
  BY <1>1 DEF Samples, Reset
<1>4. TypeOK'
  BY <1>1, <1>2, <1>3 DEF AdcInv, TypeOK
<1>5. ra = CHANNEL_COUNT * poll /\ ~Converting
  BY <1>1 DEF AdcInv, ConverterInv
<1>6. ConverterInv' /\ ReadInv'
  BY <1>1, <1>5, NextTrigger DEF ConverterInv, ReadInv, Before, Converting
<1>7. ReadingsInOrder'
  BY <1>1 DEF ReadingsInOrder, Slots, CHANNEL_COUNT
<1> QED
  BY <1>4, <1>6, <1>7 DEF AdcInv

LEMMA SelectKeepsAdcInv ==
  ASSUME AdcInv, select
  PROVE  AdcInv'
<1>1. /\ pc = "select" /\ pc' = "trigger" /\ sc1a' = Dummy /\ age' = 0 /\ coco' = FALSE
      /\ UNCHANGED <<ra, poll, i, slept, values>>
  BY DEF select, Start
<1>2. 0 \in 0 .. MaxTicks /\ Dummy \in Samples
  BY TimingAssumption DEF Samples
<1>3. TypeOK'
  BY <1>1, <1>2 DEF AdcInv, TypeOK
<1>4. ConverterInv' /\ ReadInv' /\ ReadingsInOrder'
  BY <1>1 DEF AdcInv, ConverterInv, ReadInv, ReadingsInOrder, Before
<1> QED
  BY <1>3, <1>4 DEF AdcInv

LEMMA TriggerKeepsAdcInv ==
  ASSUME AdcInv, trigger
  PROVE  AdcInv'
<1>1. /\ pc = "trigger" /\ pc' = "wait" /\ sc1a' = Trigger(poll, i) /\ age' = 0 /\ coco' = FALSE
      /\ UNCHANGED <<ra, poll, i, slept, values>>
  BY DEF trigger, Start
<1>2. i \in Slots /\ poll \in Nat \ {0}
  BY <1>1 DEF AdcInv, TypeOK
<1>3. sc1a' \in Samples /\ 0 \in 0 .. MaxTicks
  BY <1>1, <1>2, NumberFacts, TimingAssumption DEF Samples
<1>4. TypeOK'
  BY <1>1, <1>3 DEF AdcInv, TypeOK
<1>5. ConverterInv' /\ ReadInv' /\ ReadingsInOrder'
  BY <1>1 DEF AdcInv, ConverterInv, ReadInv, ReadingsInOrder, Before
<1> QED
  BY <1>4, <1>5 DEF AdcInv

LEMMA WaitKeepsAdcInv ==
  ASSUME AdcInv, wait
  PROVE  AdcInv'
<1>1. /\ pc = "wait" /\ ~coco /\ age = 0 /\ sc1a = Trigger(poll, i) /\ ra = Before
      /\ i \in Slots /\ poll \in Nat \ {0}
  BY DEF wait, AdcInv, ConverterInv, TypeOK
<1>2. Converting
  BY <1>1, NumberFacts DEF Converting
<1>3. pc' = "result" /\ age' = age + 1 /\ UNCHANGED <<sc1a, ra, poll, i, slept, values, coco>>
  BY <1>1, <1>2 DEF wait, Tick
<1>4. age' = 1 /\ age' \in 0 .. MaxTicks
  BY <1>1, <1>3, TimingAssumption
<1>5. TypeOK'
  BY <1>1, <1>3, <1>4 DEF AdcInv, TypeOK
<1>6. ConverterInv' /\ ReadInv' /\ ReadingsInOrder'
  BY <1>1, <1>3, <1>4 DEF AdcInv, ConverterInv, ReadInv, ReadingsInOrder, Before
<1> QED
  BY <1>5, <1>6 DEF AdcInv

LEMMA ResultKeepsAdcInv ==
  ASSUME AdcInv, result
  PROVE  AdcInv'
<1>1. /\ pc = "result" /\ age = 1 /\ sc1a = Trigger(poll, i) /\ ra = Before
      /\ i \in Slots /\ poll \in Nat \ {0} /\ values \in [Slots -> Samples]
  BY DEF result, AdcInv, ConverterInv, TypeOK
<1>2. Converting
  BY <1>1, NumberFacts DEF Converting
<1>3. /\ values' = [values EXCEPT ![i] = ra] /\ pc' = "sleep" /\ slept' = 0 /\ coco' = FALSE
      /\ age' = age + 1 /\ UNCHANGED <<sc1a, ra, poll, i>>
  BY <1>2 DEF result, Tick
<1>4. ra \in Samples /\ values' \in [Slots -> Samples]
  BY <1>1, <1>3 DEF AdcInv, TypeOK
<1>5. age' = slept' + 2 /\ age' \in 0 .. MaxTicks /\ slept' \in 0 .. SleepTicks
  BY <1>1, <1>3, TimingAssumption
<1>6. TypeOK'
  BY <1>1, <1>3, <1>4, <1>5 DEF AdcInv, TypeOK
<1>7. ConverterInv'
  BY <1>1, <1>3, <1>5 DEF ConverterInv, Before
<1>8. ReadInv'
  BY <1>1, <1>3 DEF ReadInv, Before
<1>9. ReadingsInOrder'
  <2> SUFFICES ASSUME NEW s \in Slots, s < i
               PROVE  values'[s] = Trigger(poll, s) - 1
    BY <1>3 DEF ReadingsInOrder
  <2>1. s # i /\ i \in Int
    BY <1>1 DEF Slots, CHANNEL_COUNT
  <2> QED
    BY <1>1, <1>3, <2>1 DEF AdcInv, ReadingsInOrder
<1> QED
  BY <1>6, <1>7, <1>8, <1>9 DEF AdcInv

LEMMA SleepKeepsAdcInv ==
  ASSUME AdcInv, sleep
  PROVE  AdcInv'
<1>1. /\ pc = "sleep" /\ slept < SleepTicks /\ slept \in Nat /\ slept' = slept + 1
      /\ UNCHANGED <<poll, pc, i, values, coco, sc1a, ra>>
      /\ i \in Slots /\ poll \in Nat \ {0}
  BY DEF sleep, Tick, AdcInv, TypeOK
<1>2. slept' \in 0 .. SleepTicks
  BY <1>1, TimingAssumption
<1>3. CASE Converting
  <2>1. age' = age + 1 /\ age < MaxTicks /\ age \in Nat
    BY <1>3 DEF sleep, Tick, AdcInv, TypeOK
  <2>2. age' \in 0 .. MaxTicks
    BY <2>1, TimingAssumption
  <2>3. TypeOK'
    BY <1>1, <1>2, <2>2 DEF AdcInv, TypeOK
  <2>4. ra = Before /\ sc1a = Trigger(poll, i) /\ age = slept + 2
    BY <1>1, <1>3 DEF AdcInv, ConverterInv
  <2>5. ConverterInv'
    BY <1>1, <2>1, <2>4 DEF ConverterInv, Before
  <2>6. ReadInv' /\ ReadingsInOrder'
    BY <1>1 DEF AdcInv, ReadInv, ReadingsInOrder, Before
  <2> QED
    BY <2>3, <2>5, <2>6 DEF AdcInv
<1>4. CASE ~Converting
  <2>1. age' = age
    BY <1>4 DEF sleep, Tick
  <2>2. TypeOK'
    BY <1>1, <1>2, <2>1 DEF AdcInv, TypeOK
  <2>3. sc1a # Trigger(poll, i)
    BY <1>1, <1>4, NumberFacts DEF Converting
  <2>4. ConverterInv'
    BY <1>1, <1>4, <2>3 DEF AdcInv, ConverterInv, Before, Converting
  <2>5. ReadInv' /\ ReadingsInOrder'
    BY <1>1 DEF AdcInv, ReadInv, ReadingsInOrder, Before
  <2> QED
    BY <2>2, <2>4, <2>5 DEF AdcInv
<1> QED
  BY <1>3, <1>4

LEMMA NextSensorKeepsAdcInv ==
  ASSUME AdcInv, next_sensor
  PROVE  AdcInv'
<1>1. /\ pc = "sleep" /\ slept = SleepTicks /\ i' = i + 1 /\ i \in Slots /\ poll \in Nat \ {0}
      /\ pc' = IF i + 1 < CHANNEL_COUNT THEN "select" ELSE "idle"
      /\ UNCHANGED <<poll, slept, values, sc1a, age, coco, ra>>
      /\ age \in Nat /\ age <= MaxTicks
  BY DEF next_sensor, adc, AdcInv, TypeOK
<1>2. age # slept + 2
  BY <1>1, TimingAssumption
<1>3. ra = Trigger(poll, i) /\ ~Converting /\ values[i] = Before
  BY <1>1, <1>2 DEF AdcInv, ConverterInv, ReadInv
<1>4. /\ i + 1 \in 0 .. CHANNEL_COUNT
      /\ i + 1 < CHANNEL_COUNT => i + 1 \in Slots
      /\ ~(i + 1 < CHANNEL_COUNT) => i + 1 = CHANNEL_COUNT /\ i = CHANNEL_COUNT - 1
      /\ \A s \in Slots : s < i + 1 => s < i \/ s = i
  BY <1>1 DEF Slots, CHANNEL_COUNT
<1>5. TypeOK'
  BY <1>1, <1>4 DEF AdcInv, TypeOK
<1>6. ReadingsInOrder'
  BY <1>1, <1>3, <1>4 DEF AdcInv, ReadingsInOrder, Before
<1>7. CASE i + 1 < CHANNEL_COUNT
  <2>1. pc' = "select" /\ ra = Trigger(poll, i + 1) - 1
    BY <1>1, <1>3, <1>7, NextTrigger
  <2>2. ConverterInv' /\ ReadInv'
    BY <1>1, <1>3, <2>1 DEF ConverterInv, ReadInv, Before, Converting
  <2> QED
    BY <1>5, <1>6, <2>2 DEF AdcInv
<1>8. CASE ~(i + 1 < CHANNEL_COUNT)
  <2>1. pc' = "idle" /\ i' = CHANNEL_COUNT /\ poll # 0
    BY <1>1, <1>4, <1>8
  <2>2. ra = CHANNEL_COUNT * poll
    BY <1>1, <1>3, <1>4, <1>8, NextTrigger
  <2>3. ConverterInv' /\ ReadInv'
    BY <1>1, <1>3, <2>1, <2>2 DEF ConverterInv, ReadInv, Converting
  <2> QED
    BY <1>5, <1>6, <2>3 DEF AdcInv
<1> QED
  BY <1>7, <1>8

LEMMA CompleteKeepsAdcInv ==
  ASSUME AdcInv, Complete
  PROVE  AdcInv'
<1>1. /\ Converting /\ age >= MinTicks /\ ra' = sc1a /\ coco' = TRUE /\ sc1a' = None
      /\ UNCHANGED <<poll, pc, i, slept, values, age>>
  BY DEF Complete, cpu
<1>2. age # 0 /\ age # 1
  BY <1>1, TimingAssumption
<1>3. pc = "sleep"
  BY <1>1, <1>2 DEF AdcInv, ConverterInv, TypeOK
<1>4. sc1a = Trigger(poll, i)
  BY <1>1, <1>3 DEF AdcInv, ConverterInv
<1>5. sc1a \in Samples
  BY <1>1 DEF AdcInv, TypeOK, Converting
<1>6. TypeOK'
  BY <1>1, <1>5 DEF AdcInv, TypeOK
<1>7. ConverterInv' /\ ReadInv' /\ ReadingsInOrder'
  BY <1>1, <1>3, <1>4 DEF AdcInv, ConverterInv, ReadInv, ReadingsInOrder, Before, Converting
<1> QED
  BY <1>6, <1>7 DEF AdcInv

-----------------------------------------------------------------------------

LEMMA NextKeepsAdcInv == AdcInv /\ [Next]_vars => AdcInv'
<1> SUFFICES ASSUME AdcInv, [Next]_vars PROVE AdcInv'
  OBVIOUS
<1>1. CASE read \/ Complete
  BY <1>1, ReadKeepsAdcInv, CompleteKeepsAdcInv
<1>2. CASE CPU
  BY <1>2, SelectKeepsAdcInv, TriggerKeepsAdcInv, WaitKeepsAdcInv, ResultKeepsAdcInv,
     SleepKeepsAdcInv, NextSensorKeepsAdcInv DEF CPU
<1>3. CASE UNCHANGED vars
  <2>1. UNCHANGED <<poll, pc, i, slept, values, sc1a, age, coco, ra>>
    BY <1>3 DEF vars, cpu, adc
  <2> QED
    BY <2>1 DEF AdcInv, TypeOK, ConverterInv, ReadInv, ReadingsInOrder, Before, Converting
<1> QED
  BY <1>1, <1>2, <1>3 DEF Next

\* However long a conversion takes within TimingAssumption and over any number of polls,
\* read_adc loses no sample, returns none twice and never one of channel 0.
THEOREM AlwaysReadingsInOrder == Spec => [](TypeOK /\ ReadingsInOrder)
<1>1. AdcInv => TypeOK /\ ReadingsInOrder
  BY DEF AdcInv
<1> QED
  BY <1>1, InitAdcInv, NextKeepsAdcInv, PTL DEF Spec

\* The types, the converter's timing and the place of ADC::read between its accesses stay
\* as TLC finds them (adc.rs:44-68), for every timing TimingAssumption admits.
THEOREM AlwaysAdcInv == Spec => [](TypeOK /\ AdcInv)
<1>1. AdcInv => TypeOK /\ AdcInv
  BY DEF AdcInv
<1> QED
  BY <1>1, InitAdcInv, NextKeepsAdcInv, PTL DEF Spec

\* What the driver and the converter hold stays of its type (adc.rs:44-68).
THEOREM AlwaysTypeOK == Spec => []TypeOK
<1>1. AdcInv => TypeOK
  BY DEF AdcInv
<1> QED
  BY <1>1, InitAdcInv, NextKeepsAdcInv, PTL DEF Spec

-----------------------------------------------------------------------------
(* The channels of the readings.                                              *)

\* read_adc does not read "a single ADC channel" (adc.rs:58), at no timing the hardware
\* admits: the first reading of every poll is of another channel than its own, so OwnChannel,
\* which the run channel refutes, holds at no point of the program where it says anything.
THEOREM NeverOwnChannel == Spec => [](i > 0 => ~OwnChannel)
<1>1. AdcInv => (i > 0 => ~OwnChannel)
  <2> SUFFICES ASSUME AdcInv, i > 0 PROVE ~OwnChannel
    OBVIOUS
  <2>1. 0 \in Slots /\ 0 < i /\ poll \in Nat
    BY DEF AdcInv, TypeOK, Slots, CHANNEL_COUNT
  <2>2. values[0] = Trigger(poll, 0) - 1
    BY <2>1 DEF AdcInv, ReadingsInOrder
  <2>3. poll > 0
    BY <2>1 DEF AdcInv, TypeOK, ReadInv
  <2>4. values[0] = 4 * (poll - 1)
    BY <2>1, <2>2 DEF Trigger, CHANNEL_COUNT
  <2>5. CHANNELS[0] = 15 /\ CHANNELS[3] = 9
    BY DEF CHANNELS, Slots, CHANNEL_COUNT
  <2>6. (4 * (poll - 1) - 1) % 4 = 3
    BY <2>1
  <2>7. ChannelOf(values[0]) \in {0, 9}
    BY <2>1, <2>3, <2>4, <2>5, <2>6 DEF ChannelOf, CHANNEL_COUNT
  <2> QED
    BY <2>1, <2>5, <2>7 DEF OwnChannel
<1> QED
  BY <1>1, InitAdcInv, NextKeepsAdcInv, PTL DEF Spec

-----------------------------------------------------------------------------
(* How far a read has still to go.                                            *)

\* The steps of the CPU for a sensor, and those it has made for this one.
SensorTicks == SleepTicks + 5
Done ==
  CASE pc = "select"  -> 0
    [] pc = "trigger" -> 1
    [] pc = "wait"    -> 2
    [] pc = "result"  -> 3
    [] pc = "sleep"   -> slept + 4
    [] OTHER          -> 0

\* Each may start a conversion, whose end is a step of its own.
ReadWork ==
  IF pc = "idle" THEN 0
  ELSE 2 * (SensorTicks * (CHANNEL_COUNT - i) - Done) + (IF Converting THEN 1 ELSE 0)

\* No read, at any timing, takes more than that.
WorkBounded == ReadWork \in 0 .. 2 * SensorTicks * CHANNEL_COUNT

\* Every step made during a read, of the CPU or the converter, brings its end nearer: the
\* loop that waits for COCO, whose condition is the wrong way round, never turns
\* (adc.rs:65), and no conversion is repeated (adc.rs:44-68).
ReadsShrink == [][pc # "idle" => ReadWork' < ReadWork]_vars

LEMMA WorkFacts == AdcInv => WorkBounded
<1> SUFFICES ASSUME AdcInv PROVE WorkBounded
  OBVIOUS
<1>1. SleepTicks \in Nat /\ i \in 0 .. 4 /\ slept \in 0 .. SleepTicks /\ Converting \in BOOLEAN
  BY TimingAssumption DEF AdcInv, TypeOK, CHANNEL_COUNT, Converting
<1>2. CASE pc = "idle"
  BY <1>1, <1>2 DEF WorkBounded, ReadWork, SensorTicks, CHANNEL_COUNT
<1>3. CASE pc # "idle"
  <2>1. i \in 0 .. 3
    BY <1>3 DEF AdcInv, TypeOK, Slots, CHANNEL_COUNT
  <2>2. PICK d \in 0 .. SleepTicks + 4 : d = Done
    BY <1>1 DEF Done
  <2>3. PICK c \in {0, 1} : c = IF Converting THEN 1 ELSE 0
    BY <1>1
  <2>4. c = 1 => d > 0 \/ i > 0
    BY <1>1, <1>3, <2>1, <2>2, <2>3 DEF AdcInv, TypeOK, ConverterInv, Done, Converting
  <2>5. ReadWork = 2 * ((SleepTicks + 5) * (4 - i) - d) + c
    BY <1>3, <2>2, <2>3 DEF ReadWork, SensorTicks, CHANNEL_COUNT
  <2>6. (SleepTicks + 5) * (4 - i) \in {SleepTicks + 5, 2 * SleepTicks + 10, 3 * SleepTicks + 15,
                                        4 * SleepTicks + 20}
        /\ (i > 0 => (SleepTicks + 5) * (4 - i) <= 3 * SleepTicks + 15)
    BY <1>1, <2>1
  <2>7. ReadWork \in 0 .. 8 * SleepTicks + 40
    BY <1>1, <2>2, <2>3, <2>4, <2>5, <2>6
  <2> QED
    BY <1>1, <2>7 DEF WorkBounded, SensorTicks, CHANNEL_COUNT
<1> QED
  BY <1>2, <1>3

LEMMA StepShrinks ==
  ASSUME AdcInv, pc # "idle", Next
  PROVE  ReadWork' < ReadWork
<1>1. /\ SleepTicks \in Nat /\ i \in 0 .. 3 /\ slept \in 0 .. SleepTicks
      /\ pc \in {"select", "trigger", "wait", "result", "sleep"}
  BY TimingAssumption DEF AdcInv, TypeOK, Slots, CHANNEL_COUNT
<1> DEFINE c == IF Converting THEN 1 ELSE 0
           d == IF Converting' THEN 1 ELSE 0
           n == (SleepTicks + 5) * (4 - i)
<1>2. c \in {0, 1} /\ d \in {0, 1}
  OBVIOUS
<1>3. n \in Nat /\ n >= SleepTicks + 5 /\ (SleepTicks + 5) * (4 - (i + 1)) = n - (SleepTicks + 5)
  BY <1>1
<1>4. ReadWork = 2 * (n - Done) + c
  BY DEF ReadWork, SensorTicks, CHANNEL_COUNT
<1>5. ASSUME i' = i, pc' # "idle" PROVE ReadWork' = 2 * (n - Done') + d
  BY <1>5 DEF ReadWork, SensorTicks, CHANNEL_COUNT
<1> HIDE DEF c, d, n
<1>6. CASE select \/ trigger \/ wait \/ result \/ sleep
  <2>1. i' = i /\ pc' # "idle"
    BY <1>6 DEF select, trigger, wait, result, sleep
  <2>2. Done \in Nat /\ Done' = Done + 1
    <3>1. pc = "wait" => ~coco
      BY DEF AdcInv, ConverterInv
    <3> QED
      BY <1>1, <1>6, <3>1 DEF select, trigger, wait, result, sleep, Done
  <2> QED
    BY <1>2, <1>3, <1>4, <1>5, <2>1, <2>2
<1>7. CASE next_sensor
  <2>1. Done = SleepTicks + 4 /\ i' = i + 1 /\ pc' \in {"select", "idle"} /\ Converting' = Converting
    BY <1>7 DEF next_sensor, Done, adc, Converting
  <2>2. pc' = "idle" => ReadWork' = 0
    BY DEF ReadWork
  <2>3. pc' = "select" => ReadWork' = 2 * (n - (SleepTicks + 5)) + d
    <3>1. pc' = "select" => Done' = 0
      BY DEF Done
    <3>2. pc' = "select" => ReadWork' = 2 * ((SleepTicks + 5) * (4 - (i + 1)) - Done') + d
      BY <2>1 DEF ReadWork, SensorTicks, CHANNEL_COUNT, d
    <3> QED
      BY <1>1, <1>3, <3>1, <3>2
  <2>4. d = c
    BY <2>1 DEF c, d
  <2> QED
    BY <1>1, <1>2, <1>3, <1>4, <2>1, <2>2, <2>3, <2>4
<1>8. CASE Complete
  <2>1. i' = i /\ pc' = pc /\ Done' = Done /\ c = 1 /\ d = 0
    BY <1>8 DEF Complete, cpu, Done, Converting, c, d
  <2>2. Done \in Nat
    BY <1>1 DEF Done
  <2> QED
    BY <1>3, <1>4, <1>5, <2>1, <2>2
<1>9. CASE read
  BY <1>9 DEF read
<1> QED
  BY <1>6, <1>7, <1>8, <1>9 DEF Next, CPU

\* A read is over after so many steps of the CPU and the converter, whatever the conversions
\* take: what ReadsEnd adds is that they are made.
THEOREM ReadsComeNearer == Spec => []WorkBounded /\ ReadsShrink
<1> DEFINE Shrinks == pc # "idle" => ReadWork' < ReadWork
<1>1. AdcInv /\ [Next]_vars => [Shrinks]_vars
  BY StepShrinks
<1> HIDE DEF Shrinks
<1>2. Spec => []WorkBounded /\ [][Shrinks]_vars
  BY <1>1, WorkFacts, InitAdcInv, NextKeepsAdcInv, PTL DEF Spec
<1> QED
  BY <1>2 DEF ReadsShrink, Shrinks
=============================================================================
