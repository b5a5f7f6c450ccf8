------------------------------ MODULE SensorTask ------------------------------
(***************************************************************************)
(* The program of main.rs as its scheduler sees it: init schedules the     *)
(* first poll, each poll the one after it, PERIOD after its own instant on *)
(* a clock that wraps.  The timer queue and the dispatcher are the         *)
(* framework's (external): a queue of one entry, the SysTick timer, and    *)
(* the interrupt DMA0.  Handlers take no time; a poll takes any.           *)
(***************************************************************************)
EXTENDS Integers

CONSTANTS
  HALF,        \* half the period of the cycle counter, 2^31
  PERIOD,
  MAX_RELOAD,  \* the longest the SysTick timer counts, 2^24 - 1
  MaxLag,      \* how late a poll may still be running
  Fallible     \* whether a call of the security engine may fail

\* 10_000_000 < 2^31.  What outlasts its successor by 2^31 cycles cannot be told from
\* what comes 2^31 early.
ASSUME ClockAssumption ==
  /\ HALF \in Nat /\ MAX_RELOAD \in Nat \ {0}
  /\ PERIOD \in 1 .. HALF - 1
  /\ MaxLag \in 0 .. HALF - 1
  /\ Fallible \in BOOLEAN

CYCLES == 2 * HALF
None == -1

VARIABLES
  cpu,        \* "init", "thread", "poll", "halted"
  now,        \* Instant::now()
  slot,       \* the slot of the task is free
  queue,      \* the instant in the timer queue, None
  ready,      \* the instant of the task in the ready queue, None
  scheduled,  \* the instant the running poll was scheduled for
  systick,    \* ticks the timer still counts, 0 when it is off
  pending,    \* pending interrupts
  lag         \* the time now, less the time the next or running poll is due,
              \* on a clock that does not wrap (seen by no one)

vars == <<cpu, now, slot, queue, ready, scheduled, systick, pending, lag>>

-----------------------------------------------------------------------------
(* Instants: u32, wrapping.                                                 *)

Later(t, n) == IF t + n < CYCLES THEN t + n ELSE t + n - CYCLES

Until(t) == IF t >= now THEN t - now ELSE t - now + CYCLES

\* The signed difference to now is not positive.
Due(t) == Until(t) = 0 \/ Until(t) >= HALF

AtMost(n, max) == IF n <= max THEN n ELSE max

-----------------------------------------------------------------------------

Init ==
  /\ cpu = "init"
  /\ now \in 0 .. CYCLES - 1
  /\ slot = TRUE
  /\ queue = None /\ ready = None /\ scheduled = None
  /\ systick = 0 /\ pending = {}
  /\ lag = -PERIOD

\* schedule.poll_sensor(instant).unwrap(), the last statement of its caller.
ScheduleAndReturn(instant) ==
  IF slot THEN /\ slot' = FALSE
               /\ queue' = instant
               /\ pending' = pending \cup {"SysTick"}
               /\ cpu' = "thread"
          ELSE cpu' = "halted" /\ UNCHANGED <<slot, queue, pending>>

\* Mutant: the instant of the first poll is taken for that of the second.
init_two_periods ==
  /\ cpu = "init"
  /\ ScheduleAndReturn(Later(Later(now, PERIOD), PERIOD))
  /\ UNCHANGED <<now, ready, scheduled, systick, lag>>

init ==
  /\ cpu = "init"
  /\ ScheduleAndReturn(Later(now, PERIOD))
  /\ UNCHANGED <<now, ready, scheduled, systick, lag>>

\* init_rng().unwrap(), load_plainkey().unwrap(), and the unwraps in poll_sensor.
unwrap_fails ==
  /\ Fallible
  /\ cpu \in {"init", "poll"}
  /\ cpu' = "halted"
  /\ UNCHANGED <<now, slot, queue, ready, scheduled, systick, pending, lag>>

idle ==
  /\ cpu = "thread"
  /\ pending' = pending \cup {"DMA0"}
  /\ UNCHANGED <<cpu, now, slot, queue, ready, scheduled, systick, lag>>

\* Mutant: the sum does not wrap.
poll_sensor_unwrapped ==
  /\ cpu = "poll"
  /\ ScheduleAndReturn(scheduled + PERIOD)
  /\ lag' = lag - PERIOD
  /\ UNCHANGED <<now, ready, scheduled, systick>>

\* Mutant: from the time of the call.
poll_sensor_drifting ==
  /\ cpu = "poll"
  /\ ScheduleAndReturn(Later(now, PERIOD))
  /\ lag' = lag - PERIOD
  /\ UNCHANGED <<now, ready, scheduled, systick>>

\* The end of poll_sensor.
poll_sensor ==
  /\ cpu = "poll"
  /\ ScheduleAndReturn(Later(scheduled, PERIOD))
  /\ lag' = lag - PERIOD
  /\ UNCHANGED <<now, ready, scheduled, systick>>

-----------------------------------------------------------------------------
(* The framework and the timers.                                            *)

\* Interrupts in thread mode are taken at once.
Quiet == "SysTick" \notin pending /\ ready = None

Tick ==
  /\ \/ cpu = "thread" /\ Quiet
     \/ cpu = "poll" /\ lag < MaxLag
  /\ now' = Later(now, 1)
  /\ lag' = lag + 1
  /\ systick' = IF systick > 0 THEN systick - 1 ELSE 0
  /\ pending' = IF systick = 1 THEN pending \cup {"SysTick"} ELSE pending
  /\ UNCHANGED <<cpu, slot, queue, ready, scheduled>>

SysTick ==
  /\ cpu = "thread" /\ "SysTick" \in pending
  /\ IF queue # None /\ ~Due(queue)
       THEN /\ systick' = AtMost(Until(queue), MAX_RELOAD)
            /\ pending' = pending \ {"SysTick"}
            /\ UNCHANGED <<queue, ready>>
       ELSE /\ systick' = 0
            /\ IF queue # None
                 THEN /\ ready' = queue
                      /\ queue' = None
                      /\ pending' = (pending \ {"SysTick"}) \cup {"DMA0"}
                 ELSE pending' = pending \ {"SysTick"} /\ UNCHANGED <<queue, ready>>
  /\ UNCHANGED <<cpu, now, slot, scheduled, lag>>

\* Mutant: the slot is free when the task has returned.
dispatch_keeping_slot ==
  /\ cpu = "thread" /\ "DMA0" \in pending
  /\ pending' = pending \ {"DMA0"}
  /\ IF ready # None
       THEN cpu' = "poll" /\ scheduled' = ready /\ ready' = None
       ELSE UNCHANGED <<cpu, scheduled, ready>>
  /\ UNCHANGED <<now, queue, systick, lag, slot>>

\* The handler of DMA0.
dispatch ==
  /\ cpu = "thread" /\ "DMA0" \in pending
  /\ pending' = pending \ {"DMA0"}
  /\ IF ready # None
       THEN cpu' = "poll" /\ scheduled' = ready /\ ready' = None /\ slot' = TRUE
       ELSE UNCHANGED <<cpu, scheduled, ready, slot>>
  /\ UNCHANGED <<now, queue, systick, lag>>

\* The panic handler loops for good.
Halted == cpu = "halted" /\ UNCHANGED vars

Next == init \/ unwrap_fails \/ idle \/ poll_sensor \/ Tick \/ SysTick \/ dispatch \/ Halted

Spec == Init /\ [][Next]_vars

\* The CPU runs, the clock ticks, a pending interrupt is taken.
FairSpec ==
  /\ Spec
  /\ WF_vars(init \/ unwrap_fails) /\ WF_vars(poll_sensor \/ unwrap_fails)
  /\ WF_vars(idle) /\ WF_vars(Tick) /\ WF_vars(SysTick) /\ WF_vars(dispatch)

-----------------------------------------------------------------------------
(* Properties.                                                              *)

Instants == 0 .. CYCLES - 1

TypeOK ==
  /\ cpu \in {"init", "thread", "poll", "halted"}
  /\ now \in Instants
  /\ slot \in BOOLEAN
  /\ queue \in Instants \cup {None}
  /\ ready \in Instants \cup {None}
  /\ scheduled \in Instants \cup {None}
  /\ systick \in 0 .. MAX_RELOAD
  /\ pending \in SUBSET {"SysTick", "DMA0"}
  /\ lag \in -PERIOD .. MaxLag

\* The program halts only where a call of the security engine failed: the one slot of
\* the task is free whenever schedule is unwrapped (main.rs:200, :248).
ScheduleNeverFails == cpu = "halted" => Fallible

\* The poll is where the framework can start it: it has one entry somewhere, its slot is
\* taken exactly then, and while it waits the timer goes off no later than it is due.
\* The wrapping instants stand for the time on a clock that does not wrap, up to a lag of
\* half the counter (main.rs:199, :248).
Agrees(t) == t # None /\ Until(t) = IF lag <= 0 THEN -lag ELSE CYCLES - lag

InitInv ==
  cpu = "init" =>
    slot /\ queue = None /\ ready = None /\ systick = 0 /\ pending = {} /\ lag = -PERIOD

ThreadInv ==
  cpu = "thread" =>
    /\ ~slot
    /\ queue # None => /\ ready = None /\ Agrees(queue)
                       /\ \/ "SysTick" \in pending
                          \/ systick > 0 /\ systick + lag <= 0
    /\ queue = None => Agrees(ready) /\ lag >= 0 /\ systick = 0 /\ "SysTick" \notin pending

PollInv ==
  cpu = "poll" =>
    /\ slot /\ queue = None /\ ready = None /\ systick = 0 /\ "SysTick" \notin pending
    /\ Agrees(scheduled) /\ lag >= 0

ArmedInTime == InitInv /\ ThreadInv /\ PollInv

\* The polls are executions of a periodic task on an unbounded clock: no drift, none
\* lost, none early, those missed caught up one by one, and they go on for as long as no
\* call of the engine fails (main.rs:198-200, :248).
Periodic == INSTANCE PeriodicTask WITH
  phase <- CASE cpu = "init" -> "starting" [] cpu = "thread" -> "waiting"
             [] cpu = "poll" -> "running"  [] cpu = "halted" -> "halted"

PeriodicSpec == Periodic!Spec
=============================================================================
