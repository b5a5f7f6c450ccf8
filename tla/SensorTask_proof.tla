--------------------------- MODULE SensorTask_proof ---------------------------
(* Proofs about SensorTask, for every clock and period within ClockAssumption. *)
EXTENDS SensorTask, TLAPS

Inv == TypeOK /\ ArmedInTime /\ ScheduleNeverFails

-----------------------------------------------------------------------------
(* Arithmetic of the wrapping clock.                                        *)

LEMMA LaterIsInstant ==
  ASSUME NEW t \in Instants, NEW n \in 0 .. HALF
  PROVE  Later(t, n) \in Instants
  BY ClockAssumption DEF Later, Instants, CYCLES

\* A tick brings an instant one nearer.
LEMMA TickAgrees ==
  ASSUME TypeOK, NEW t \in Instants, Agrees(t), lag < MaxLag,
         now' = Later(now, 1), lag' = lag + 1
  PROVE  t # None /\ (LET u == IF t >= now' THEN t - now' ELSE t - now' + CYCLES
                      IN  u = IF lag' <= 0 THEN -lag' ELSE CYCLES - lag')
<1>1. /\ now \in Int /\ t \in Int /\ HALF \in Int /\ lag \in Int /\ PERIOD \in Int /\ MaxLag \in Int
      /\ now >= 0 /\ now < 2 * HALF /\ t >= 0 /\ t < 2 * HALF
      /\ lag >= -PERIOD /\ PERIOD < HALF /\ lag < MaxLag /\ MaxLag < HALF
  BY ClockAssumption DEF TypeOK, Instants, CYCLES
<1>2. now' = IF now + 1 < 2 * HALF THEN now + 1 ELSE now + 1 - 2 * HALF
  BY DEF Later, CYCLES
<1>3. (IF t >= now THEN t - now ELSE t - now + 2 * HALF)
        = IF lag <= 0 THEN -lag ELSE 2 * HALF - lag
  BY DEF Agrees, Until, CYCLES
<1>4. t # None
  BY <1>1 DEF None
<1> QED
  BY <1>1, <1>2, <1>3, <1>4 DEF CYCLES

\* The instant PERIOD after one that agrees with lag agrees with lag - PERIOD.
LEMMA PeriodAgrees ==
  ASSUME TypeOK, NEW t \in Instants, Agrees(t), lag >= 0
  PROVE  LET s == Later(t, PERIOD)
             u == IF s >= now THEN s - now ELSE s - now + CYCLES
         IN  /\ s \in Instants
             /\ s # None
             /\ u = IF lag - PERIOD <= 0 THEN -(lag - PERIOD) ELSE CYCLES - (lag - PERIOD)
<1>1. /\ now \in Int /\ t \in Int /\ HALF \in Int /\ lag \in Int /\ PERIOD \in Int
      /\ now >= 0 /\ now < 2 * HALF /\ t >= 0 /\ t < 2 * HALF
      /\ lag >= 0 /\ PERIOD < HALF /\ PERIOD > 0 /\ lag < HALF
  BY ClockAssumption DEF TypeOK, Instants, CYCLES
<1>3. (IF t >= now THEN t - now ELSE t - now + 2 * HALF)
        = IF lag <= 0 THEN -lag ELSE 2 * HALF - lag
  BY DEF Agrees, Until, CYCLES
<1>4. Later(t, PERIOD) = IF t + PERIOD < 2 * HALF THEN t + PERIOD ELSE t + PERIOD - 2 * HALF
  BY DEF Later, CYCLES
<1>5. Later(t, PERIOD) \in Instants
  BY <1>1, LaterIsInstant
<1>6. Later(t, PERIOD) # None
  BY <1>5 DEF Instants, None
<1> QED
  BY <1>1, <1>3, <1>4, <1>5, <1>6 DEF CYCLES

\* What is due has a lag that is not negative.
LEMMA DueIffLate ==
  ASSUME TypeOK, NEW t \in Instants, Agrees(t)
  PROVE  /\ Due(t) <=> lag >= 0
         /\ ~Due(t) => Until(t) = -lag
<1>1. /\ HALF \in Int /\ lag \in Int /\ PERIOD \in Int
      /\ lag >= -PERIOD /\ PERIOD < HALF /\ lag < HALF
  BY ClockAssumption DEF TypeOK
<1>2. Until(t) = IF lag <= 0 THEN -lag ELSE 2 * HALF - lag
  BY DEF Agrees, CYCLES
<1> HIDE DEF Until
<1> QED
  BY <1>1, <1>2 DEF Due

-----------------------------------------------------------------------------

LEMMA InitInvariant == Init => Inv
<1> SUFFICES ASSUME Init PROVE Inv
  OBVIOUS
<1>1. 0 \in 0 .. MAX_RELOAD /\ -PERIOD \in -PERIOD .. MaxLag
  BY ClockAssumption
<1>2. TypeOK
  BY <1>1 DEF Init, TypeOK, Instants
<1>3. ArmedInTime
  BY DEF Init, ArmedInTime, InitInv, ThreadInv, PollInv
<1>4. ScheduleNeverFails
  BY DEF Init, ScheduleNeverFails
<1> QED
  BY <1>2, <1>3, <1>4 DEF Inv

LEMMA InitActionKeepsInv ==
  ASSUME Inv, init
  PROVE  Inv'
<1>1. /\ cpu = "init" /\ slot /\ lag = -PERIOD /\ ready = None
      /\ slot' = FALSE /\ queue' = Later(now, PERIOD) /\ cpu' = "thread"
      /\ pending' = pending \cup {"SysTick"}
      /\ UNCHANGED <<now, ready, scheduled, systick, lag>>
  BY DEF init, ScheduleAndReturn, Inv, ArmedInTime, InitInv
<1>2. now \in Instants /\ PERIOD \in 0 .. HALF
  BY ClockAssumption DEF Inv, TypeOK
<1>3. queue' \in Instants
  BY <1>1, <1>2, LaterIsInstant
<1>4. TypeOK'
  <2>1. pending' \in SUBSET {"SysTick", "DMA0"}
    BY <1>1 DEF Inv, TypeOK
  <2> QED
    BY <1>1, <1>3, <2>1 DEF Inv, TypeOK, Instants
<1>5. Agrees(queue)'
  <2>1. queue' # None
    BY <1>3 DEF Instants, None
  <2>2. /\ now \in Int /\ HALF \in Int /\ PERIOD \in Int
        /\ now >= 0 /\ now < 2 * HALF /\ PERIOD < HALF /\ PERIOD > 0
    BY <1>2, ClockAssumption DEF Instants, CYCLES
  <2>3. queue' = IF now + PERIOD < 2 * HALF THEN now + PERIOD ELSE now + PERIOD - 2 * HALF
    BY <1>1 DEF Later, CYCLES
  <2>4. (IF queue' >= now THEN queue' - now ELSE queue' - now + 2 * HALF) = PERIOD
    BY <2>2, <2>3
  <2>5. lag' = -PERIOD /\ lag' <= 0 /\ now' = now /\ -lag' = PERIOD
    BY <1>1, <2>2
  <2> QED
    BY <2>1, <2>4, <2>5 DEF Agrees, Until, CYCLES
<1>6. ArmedInTime'
  <2>1. InitInv' /\ PollInv'
    BY <1>1 DEF InitInv, PollInv
  <2>2. queue' # None
    BY <1>5 DEF Agrees
  <2>3. ThreadInv'
    BY <1>1, <1>5, <2>2 DEF ThreadInv
  <2> QED
    BY <2>1, <2>3 DEF ArmedInTime
<1>7. ScheduleNeverFails'
  BY <1>1 DEF ScheduleNeverFails
<1> QED
  BY <1>4, <1>6, <1>7 DEF Inv

LEMMA UnwrapFailsKeepsInv ==
  ASSUME Inv, unwrap_fails
  PROVE  Inv'
<1>1. /\ Fallible /\ cpu' = "halted"
      /\ UNCHANGED <<now, slot, queue, ready, scheduled, systick, pending, lag>>
  BY DEF unwrap_fails
<1>2. TypeOK'
  BY <1>1 DEF Inv, TypeOK, Instants
<1>3. ArmedInTime'
  BY <1>1 DEF ArmedInTime, InitInv, ThreadInv, PollInv
<1>4. ScheduleNeverFails'
  BY <1>1 DEF ScheduleNeverFails
<1> QED
  BY <1>2, <1>3, <1>4 DEF Inv

LEMMA IdleKeepsInv ==
  ASSUME Inv, idle
  PROVE  Inv'
<1>1. /\ cpu = "thread" /\ pending' = pending \cup {"DMA0"}
      /\ UNCHANGED <<cpu, now, slot, queue, ready, scheduled, systick, lag>>
  BY DEF idle
<1>2. TypeOK'
  <2>1. pending' \in SUBSET {"SysTick", "DMA0"}
    BY <1>1 DEF Inv, TypeOK
  <2> QED
    BY <1>1, <2>1 DEF Inv, TypeOK, Instants
<1>3. "SysTick" \in pending' <=> "SysTick" \in pending
  BY <1>1
<1>4. ArmedInTime'
  BY <1>1, <1>3 DEF Inv, ArmedInTime, InitInv, ThreadInv, PollInv, Agrees, Until
<1>5. ScheduleNeverFails'
  BY <1>1 DEF Inv, ScheduleNeverFails
<1> QED
  BY <1>2, <1>4, <1>5 DEF Inv

LEMMA PollKeepsInv ==
  ASSUME Inv, poll_sensor
  PROVE  Inv'
<1>1. /\ cpu = "poll" /\ slot /\ ready = None /\ systick = 0 /\ Agrees(scheduled) /\ lag >= 0
      /\ slot' = FALSE /\ queue' = Later(scheduled, PERIOD) /\ cpu' = "thread"
      /\ pending' = pending \cup {"SysTick"} /\ lag' = lag - PERIOD
      /\ UNCHANGED <<now, ready, scheduled, systick>>
  BY DEF poll_sensor, ScheduleAndReturn, Inv, ArmedInTime, PollInv
<1>2. scheduled \in Instants
  BY <1>1 DEF Inv, TypeOK, Agrees
<1>3. /\ queue' \in Instants /\ queue' # None
      /\ (IF queue' >= now THEN queue' - now ELSE queue' - now + CYCLES)
           = IF lag - PERIOD <= 0 THEN -(lag - PERIOD) ELSE CYCLES - (lag - PERIOD)
  BY <1>1, <1>2, PeriodAgrees DEF Inv
<1>4. TypeOK'
  <2>1. pending' \in SUBSET {"SysTick", "DMA0"}
    BY <1>1 DEF Inv, TypeOK
  <2>2. lag' \in -PERIOD .. MaxLag
    BY <1>1, ClockAssumption DEF Inv, TypeOK
  <2> QED
    BY <1>1, <1>3, <2>1, <2>2 DEF Inv, TypeOK, Instants
<1>5. Agrees(queue)'
  BY <1>1, <1>3 DEF Agrees, Until
<1>6. ArmedInTime'
  <2>1. InitInv' /\ PollInv'
    BY <1>1 DEF InitInv, PollInv
  <2>2. ThreadInv'
    BY <1>1, <1>3, <1>5 DEF ThreadInv
  <2> QED
    BY <2>1, <2>2 DEF ArmedInTime
<1>7. ScheduleNeverFails'
  BY <1>1 DEF ScheduleNeverFails
<1> QED
  BY <1>4, <1>6, <1>7 DEF Inv

LEMMA TickKeepsInv ==
  ASSUME Inv, Tick
  PROVE  Inv'
<1>1. /\ now' = Later(now, 1) /\ lag' = lag + 1
      /\ systick' = IF systick > 0 THEN systick - 1 ELSE 0
      /\ pending' = IF systick = 1 THEN pending \cup {"SysTick"} ELSE pending
      /\ UNCHANGED <<cpu, slot, queue, ready, scheduled>>
      /\ \/ cpu = "thread" /\ Quiet
         \/ cpu = "poll" /\ lag < MaxLag
  BY DEF Tick
<1>2. cpu = "thread" => queue # None /\ systick > 0 /\ systick + lag <= 0
  BY <1>1 DEF Quiet, Inv, ArmedInTime, ThreadInv, Agrees
<1>3. lag < MaxLag
  <2>1. /\ systick \in Int /\ lag \in Int /\ MaxLag \in Int /\ MaxLag >= 0
    BY ClockAssumption DEF Inv, TypeOK
  <2> QED
    BY <1>1, <1>2, <2>1
<1>4. now' \in Instants
  <2>1. now \in Instants /\ 1 \in 0 .. HALF
    BY ClockAssumption DEF Inv, TypeOK
  <2> QED
    BY <1>1, <2>1, LaterIsInstant
<1>5. TypeOK'
  <2>1. lag' \in -PERIOD .. MaxLag
    BY <1>1, <1>3, ClockAssumption DEF Inv, TypeOK
  <2>2. systick' \in 0 .. MAX_RELOAD
    BY <1>1, ClockAssumption DEF Inv, TypeOK
  <2>3. pending' \in SUBSET {"SysTick", "DMA0"}
    BY <1>1 DEF Inv, TypeOK
  <2> QED
    BY <1>1, <1>4, <2>1, <2>2, <2>3 DEF Inv, TypeOK, Instants
<1>6. ASSUME NEW t \in Instants, Agrees(t)
      PROVE  t # None /\ (IF t >= now' THEN t - now' ELSE t - now' + CYCLES)
                            = IF lag' <= 0 THEN -lag' ELSE CYCLES - lag'
  BY <1>1, <1>3, <1>6, TickAgrees DEF Inv
<1>7. ArmedInTime'
  <2>1. CASE cpu = "thread"
    <3>1. /\ ~slot /\ ready = None /\ Agrees(queue) /\ queue \in Instants
          /\ systick > 0 /\ systick + lag <= 0
      BY <1>2, <2>1 DEF Inv, ArmedInTime, ThreadInv, TypeOK
    <3>2. Agrees(queue)'
      BY <1>1, <1>6, <3>1 DEF Agrees, Until
    <3>3. "SysTick" \in pending' \/ (systick' > 0 /\ systick' + lag' <= 0)
      BY <1>1, <3>1 DEF Inv, TypeOK
    <3>4. ThreadInv'
      BY <1>1, <2>1, <3>1, <3>2, <3>3 DEF ThreadInv, Agrees
    <3> QED
      BY <1>1, <2>1, <3>4 DEF ArmedInTime, InitInv, PollInv
  <2>2. CASE cpu = "poll"
    <3>1. /\ slot /\ queue = None /\ ready = None /\ systick = 0 /\ "SysTick" \notin pending
          /\ Agrees(scheduled) /\ lag >= 0 /\ scheduled \in Instants
      BY <2>2 DEF Inv, ArmedInTime, PollInv, TypeOK, Agrees
    <3>2. Agrees(scheduled)'
      BY <1>1, <1>6, <3>1 DEF Agrees, Until
    <3>3. systick' = 0 /\ pending' = pending
      BY <1>1, <3>1
    <3>4. lag' >= 0
      BY <1>1, <3>1 DEF Inv, TypeOK
    <3>5. PollInv'
      BY <1>1, <3>1, <3>2, <3>3, <3>4 DEF PollInv
    <3> QED
      BY <1>1, <2>2, <3>5 DEF ArmedInTime, InitInv, ThreadInv
  <2> QED
    BY <1>1, <2>1, <2>2
<1>8. ScheduleNeverFails'
  BY <1>1 DEF Inv, ScheduleNeverFails
<1> QED
  BY <1>5, <1>7, <1>8 DEF Inv

LEMMA SysTickKeepsInv ==
  ASSUME Inv, SysTick
  PROVE  Inv'
<1>1. /\ cpu = "thread" /\ "SysTick" \in pending /\ ~slot
      /\ UNCHANGED <<cpu, now, slot, scheduled, lag>>
  BY DEF SysTick, Inv, ArmedInTime, ThreadInv
<1>2. queue # None /\ ready = None /\ Agrees(queue) /\ queue \in Instants
  BY <1>1 DEF Inv, ArmedInTime, ThreadInv, TypeOK
<1>3. CASE ~Due(queue)
  <2>1. /\ systick' = AtMost(Until(queue), MAX_RELOAD)
        /\ pending' = pending \ {"SysTick"} /\ UNCHANGED <<queue, ready>>
    BY <1>2, <1>3 DEF SysTick
  <2>2. Until(queue) = -lag /\ ~(lag >= 0)
    BY <1>2, <1>3, DueIffLate DEF Inv
  <2>3. /\ systick' \in 0 .. MAX_RELOAD /\ systick' > 0 /\ systick' + lag <= 0
    <3>1. lag \in Int /\ MAX_RELOAD \in Int /\ MAX_RELOAD > 0
      BY ClockAssumption DEF Inv, TypeOK
    <3>2. systick' = IF -lag <= MAX_RELOAD THEN -lag ELSE MAX_RELOAD
      BY <2>1, <2>2 DEF AtMost
    <3> QED
      BY <2>2, <3>1, <3>2
  <2>4. TypeOK'
    <3>1. pending' \in SUBSET {"SysTick", "DMA0"}
      BY <2>1 DEF Inv, TypeOK
    <3> QED
      BY <1>1, <2>1, <2>3, <3>1 DEF Inv, TypeOK, Instants
  <2>5. Agrees(queue)'
    BY <1>1, <1>2, <2>1 DEF Agrees, Until
  <2>6. ThreadInv'
    BY <1>1, <1>2, <2>1, <2>3, <2>5 DEF ThreadInv
  <2>7. ArmedInTime' /\ ScheduleNeverFails'
    BY <1>1, <2>6 DEF ArmedInTime, InitInv, PollInv, ScheduleNeverFails
  <2> QED
    BY <2>4, <2>7 DEF Inv
<1>4. CASE Due(queue)
  <2>1. /\ systick' = 0 /\ ready' = queue /\ queue' = None
        /\ pending' = (pending \ {"SysTick"}) \cup {"DMA0"}
    BY <1>2, <1>4 DEF SysTick
  <2>2. lag >= 0
    BY <1>2, <1>4, DueIffLate DEF Inv
  <2>3. TypeOK'
    <3>1. pending' \in SUBSET {"SysTick", "DMA0"}
      BY <2>1 DEF Inv, TypeOK
    <3>2. 0 \in 0 .. MAX_RELOAD
      BY ClockAssumption
    <3> QED
      BY <1>1, <1>2, <2>1, <3>1, <3>2 DEF Inv, TypeOK, Instants
  <2>4. Agrees(ready)'
    BY <1>1, <1>2, <2>1 DEF Agrees, Until
  <2>5. "SysTick" \notin pending'
    BY <2>1
  <2>6. ThreadInv'
    BY <1>1, <2>1, <2>2, <2>4, <2>5 DEF ThreadInv
  <2>7. ArmedInTime' /\ ScheduleNeverFails'
    BY <1>1, <2>6 DEF ArmedInTime, InitInv, PollInv, ScheduleNeverFails
  <2> QED
    BY <2>3, <2>7 DEF Inv
<1> QED
  BY <1>3, <1>4

LEMMA DispatchKeepsInv ==
  ASSUME Inv, dispatch
  PROVE  Inv'
<1>1. /\ cpu = "thread" /\ pending' = pending \ {"DMA0"}
      /\ UNCHANGED <<now, queue, systick, lag>>
  BY DEF dispatch
<1>2. pending' \in SUBSET {"SysTick", "DMA0"} /\ ("SysTick" \in pending' <=> "SysTick" \in pending)
  BY <1>1 DEF Inv, TypeOK
<1>3. CASE ready # None
  <2>1. cpu' = "poll" /\ scheduled' = ready /\ ready' = None /\ slot' = TRUE
    BY <1>3 DEF dispatch
  <2>2. /\ queue = None /\ Agrees(ready) /\ lag >= 0 /\ systick = 0 /\ "SysTick" \notin pending
    BY <1>1, <1>3 DEF Inv, ArmedInTime, ThreadInv
  <2>3. TypeOK'
    BY <1>1, <1>2, <2>1 DEF Inv, TypeOK, Instants
  <2>4. Agrees(scheduled)'
    BY <1>1, <2>1, <2>2 DEF Agrees, Until
  <2>5. PollInv'
    BY <1>1, <1>2, <2>1, <2>2, <2>4 DEF PollInv
  <2>6. ArmedInTime' /\ ScheduleNeverFails'
    BY <2>1, <2>5 DEF ArmedInTime, InitInv, ThreadInv, ScheduleNeverFails
  <2> QED
    BY <2>3, <2>6 DEF Inv
<1>4. CASE ready = None
  <2>1. UNCHANGED <<cpu, scheduled, ready, slot>>
    BY <1>4 DEF dispatch
  <2>2. TypeOK'
    BY <1>1, <1>2, <2>1 DEF Inv, TypeOK, Instants
  <2>3. ArmedInTime'
    BY <1>1, <1>2, <2>1 DEF Inv, ArmedInTime, InitInv, ThreadInv, PollInv, Agrees, Until
  <2>4. ScheduleNeverFails'
    BY <2>1 DEF Inv, ScheduleNeverFails
  <2> QED
    BY <2>2, <2>3, <2>4 DEF Inv
<1> QED
  BY <1>3, <1>4

LEMMA UnchangedKeepsInv ==
  ASSUME Inv, UNCHANGED vars
  PROVE  Inv'
<1>1. UNCHANGED <<cpu, now, slot, queue, ready, scheduled, systick, pending, lag>>
  BY DEF vars
<1>2. TypeOK' /\ ScheduleNeverFails'
  BY <1>1 DEF Inv, TypeOK, Instants, ScheduleNeverFails
<1>3. ArmedInTime'
  BY <1>1 DEF Inv, ArmedInTime, InitInv, ThreadInv, PollInv, Agrees, Until
<1> QED
  BY <1>2, <1>3 DEF Inv

LEMMA NextKeepsInv == Inv /\ [Next]_vars => Inv'
<1> SUFFICES ASSUME Inv, [Next]_vars PROVE Inv'
  OBVIOUS
<1> QED
  BY InitActionKeepsInv, UnwrapFailsKeepsInv, IdleKeepsInv, PollKeepsInv, TickKeepsInv,
     SysTickKeepsInv, DispatchKeepsInv, UnchangedKeepsInv DEF Next, Halted

LEMMA InvAlways == Spec => []Inv
  BY InitInvariant, NextKeepsInv, PTL DEF Spec

-----------------------------------------------------------------------------

\* In every reachable state of the program the poll to come has its instant, its place in
\* the framework's queues and a timer that goes off in time (main.rs:198-200, :248).
THEOREM AlwaysArmed == Spec => [](TypeOK /\ ArmedInTime)
<1>1. Inv => TypeOK /\ ArmedInTime
  BY DEF Inv
<1> QED
  BY <1>1, InvAlways, PTL

\* Clock, queue, timer and task keep their types (main.rs:139-253).
THEOREM AlwaysTypeOK == Spec => []TypeOK
<1>1. Inv => TypeOK
  BY DEF Inv
<1> QED
  BY <1>1, InvAlways, PTL

\* No unwrap of schedule (main.rs:200, :248) ever halts the program.
THEOREM ScheduleSucceeds == Spec => []ScheduleNeverFails
<1>1. Inv => ScheduleNeverFails
  BY DEF Inv
<1> QED
  BY <1>1, InvAlways, PTL

LEMMA InitRefines == Init => Periodic!Init
  BY DEF Init, Periodic!Init

LEMMA StepRefines == Inv /\ Inv' /\ [Next]_vars => [Periodic!Next]_Periodic!task
<1> SUFFICES ASSUME Inv, [Next]_vars PROVE [Periodic!Next]_Periodic!task
  OBVIOUS
<1>1. CASE init
  <2>1. cpu = "init" /\ cpu' = "thread" /\ lag' = lag
    BY <1>1 DEF init, ScheduleAndReturn, Inv, ArmedInTime, InitInv
  <2> QED
    BY <2>1 DEF Periodic!Next, Periodic!Start
<1>2. CASE unwrap_fails
  BY <1>2 DEF unwrap_fails, Periodic!Next, Periodic!Fail
<1>3. CASE idle
  BY <1>3 DEF idle, Periodic!task
<1>4. CASE poll_sensor
  <2>1. cpu = "poll" /\ cpu' = "thread" /\ lag' = lag - PERIOD
    BY <1>4 DEF poll_sensor, ScheduleAndReturn, Inv, ArmedInTime, PollInv
  <2> QED
    BY <2>1 DEF Periodic!Next, Periodic!End
<1>5. CASE Tick
  <2>1. lag' = lag + 1 /\ cpu' = cpu
    BY <1>5 DEF Tick
  <2>2. CASE cpu = "thread" /\ Quiet
    <3>1. systick > 0 /\ systick + lag <= 0
      BY <2>2 DEF Quiet, Inv, ArmedInTime, ThreadInv, Agrees
    <3>2. lag < 0
      BY <3>1 DEF Inv, TypeOK
    <3> QED
      BY <2>1, <2>2, <3>2 DEF Periodic!Next, Periodic!Tick
  <2>3. CASE cpu = "poll" /\ lag < MaxLag
    BY <2>1, <2>3 DEF Periodic!Next, Periodic!Tick
  <2> QED
    BY <1>5, <2>2, <2>3 DEF Tick
<1>6. CASE SysTick
  BY <1>6 DEF SysTick, Periodic!task
<1>7. CASE dispatch
  <2>1. CASE ready # None
    <3>1. cpu = "thread" /\ cpu' = "poll" /\ lag' = lag /\ lag >= 0
      BY <1>7, <2>1 DEF dispatch, Inv, ArmedInTime, ThreadInv
    <3> QED
      BY <3>1 DEF Periodic!Next, Periodic!Begin
  <2>2. CASE ready = None
    BY <1>7, <2>2 DEF dispatch, Periodic!task
  <2> QED
    BY <2>1, <2>2
<1>8. CASE UNCHANGED vars
  BY <1>8 DEF vars, Periodic!task
<1> QED
  BY <1>1, <1>2, <1>3, <1>4, <1>5, <1>6, <1>7, <1>8 DEF Next, Halted

\* The polls implement the periodic task: its safety part, for every clock and period
\* (main.rs:198-200, :248).
THEOREM PollsArePeriodic == Spec => Periodic!Init /\ [][Periodic!Next]_Periodic!task
  BY InitRefines, StepRefines, InvAlways, PTL DEF Spec
=============================================================================
