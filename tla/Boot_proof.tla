------------------------------- MODULE Boot_proof -------------------------------
(***************************************************************************)
(* The safety properties of Boot for every latency of the hardware.        *)
(***************************************************************************)
EXTENDS Boot, TLAPS

\* Before the PLL is enabled, and before the core is switched to it.
BeforePll == {"sosc_configure", "sosc_enable", "sosc_wait", "spll_disable", "spll_enable"}
BeforeRun == BeforePll \cup {"spll_wait", "run_mode"}

\* A locked PLL has a valid oscillator, and the core a locked PLL, whatever the loops
\* before the last one waited for.
ClockInv ==
  /\ step \in BeforePll => spll = Off
  /\ step \in BeforeRun => rccr = "firc" /\ scs = "firc"
  /\ spllvld => soscvld
  /\ scs = "spll" => spllvld
  /\ step \notin ClockSteps => scs = "spll"

\* The waits of the C code: the oscillator before the PLL, the PLL before the switch.
ReferenceInv ==
  code = "reference" =>
    /\ step \in ClockSteps \ {"sosc_configure", "sosc_enable", "sosc_wait"} => soscvld
    /\ step \notin BeforePll \cup {"spll_wait"} => soscvld /\ spllvld

\* Where the controller is at each access.
CanInv ==
  /\ step = "can_enable" => can = "disabled"
  /\ step = "freeze_wait" => can \in {"freezing", "frozen"}
  /\ step \in {"can_configure", "can_start"} => can = "frozen"
  /\ step \in {"unfreeze_wait", "ready_wait", "started"} => can \in {"leaving", "joining", "ready"}
  /\ code = "port" /\ step = "started" => can = "ready"

Inv == TypeOK /\ ClockInv /\ ReferenceInv /\ CanInv

LEMMA DownType ==
  ASSUME NEW n \in Int
  PROVE  /\ Down(n) \in {n, n - 1}
         /\ n = 0 => Down(n) = 0
         /\ n = Off => Down(n) = Off
BY DEF Down, Off

\* One tick of the clocks keeps their types, what is valid valid and what is off off.
LEMMA ClocksTickType ==
  ASSUME TypeOK, BootAssumption
  PROVE /\ OscillatorTicks => /\ sosc' \in Latencies \cup {0, Off}
                              /\ soscvld => soscvld'
                              /\ sosc' = Off <=> sosc = Off
        /\ PllTicks => /\ spll' \in Latencies \cup {0, Off}
                       /\ spllvld => spllvld'
                       /\ spll' = Off <=> spll = Off
                       /\ spllvld' => spllvld \/ soscvld
        /\ CoreTicks => /\ scs' \in {scs, "spll"}
                        /\ scs' = "spll" => scs = "spll" \/ (rccr = "spll" /\ spllvld)
BY DEF OscillatorTicks, PllTicks, CoreTicks, TypeOK, Down, Off, Latencies, soscvld, spllvld,
       BootAssumption

\* One tick of the controller keeps its type, and goes on in the order of the states.
LEMMA ControllerTicksType ==
  ASSUME TypeOK, BootAssumption, ControllerTicks
  PROVE /\ left' \in Latencies \cup {0}
        /\ can' \in {can, "frozen", "joining", "ready"}
        /\ can' # can => \/ can = "freezing" /\ can' = "frozen"
                         \/ can = "leaving" /\ can' = "joining"
                         \/ can = "joining" /\ can' = "ready"
BY DEF ControllerTicks, TypeOK, Down, Latencies, BootAssumption

LEMMA InvInit == ASSUME BootAssumption, Init PROVE Inv
BY DEF Init, Inv, TypeOK, ClockInv, ReferenceInv, CanInv, BeforePll, BeforeRun, ClockSteps,
       CanSteps, Latencies, Off, soscvld, spllvld, BootAssumption

LEMMA InvStep == ASSUME BootAssumption, Inv, [Next]_vars PROVE Inv'
<1>t. TypeOK
  BY DEF Inv
<1> USE BootAssumption, <1>t, ClocksTickType, ControllerTicksType
    DEF Inv, TypeOK, ClockInv, ReferenceInv, CanInv, BeforePll, BeforeRun, ClockSteps, CanSteps,
        Latencies, Off, soscvld, spllvld, frzack, notrdy, Go, Access, Poll, ClocksTick,
        BootAssumption
<1>1. CASE sosc_configure
  BY <1>1 DEF sosc_configure
<1>2. CASE sosc_enable
  BY <1>2 DEF sosc_enable
<1>3. CASE sosc_wait
  BY <1>3 DEF sosc_wait
<1>4. CASE sosc_wait_reference
  BY <1>4 DEF sosc_wait_reference
<1>5. CASE spll_disable
  BY <1>5 DEF spll_disable
<1>6. CASE spll_enable
  BY <1>6 DEF spll_enable
<1>7. CASE spll_wait
  BY <1>7 DEF spll_wait
<1>8. CASE spll_wait_reference
  BY <1>8 DEF spll_wait_reference
<1>9. CASE run_mode
  BY <1>9 DEF run_mode
<1>10. CASE run_wait
  BY <1>10 DEF run_wait
<1>11. CASE can_disable
  BY <1>11 DEF can_disable
<1>12. CASE can_enable
  BY <1>12 DEF can_enable
<1>13. CASE freeze_wait
  BY <1>13 DEF freeze_wait
<1>14. CASE can_configure
  BY <1>14 DEF can_configure
<1>15. CASE can_start
  BY <1>15 DEF can_start
<1>16. CASE unfreeze_wait
  BY <1>16 DEF unfreeze_wait
<1>17. CASE unfreeze_wait_reference
  BY <1>17 DEF unfreeze_wait_reference
<1>18. CASE ready_wait
  BY <1>18 DEF ready_wait
<1>19. CASE ready_wait_reference
  BY <1>19 DEF ready_wait_reference
<1>20. CASE started
  BY <1>20 DEF started
<1>21. CASE UNCHANGED vars
  BY <1>21 DEF vars, clocks
<1> QED
  BY <1>1, <1>2, <1>3, <1>4, <1>5, <1>6, <1>7, <1>8, <1>9, <1>10,
     <1>11, <1>12, <1>13, <1>14, <1>15, <1>16, <1>17, <1>18, <1>19, <1>20, <1>21 DEF Next

LEMMA AlwaysInv == ASSUME BootAssumption PROVE Spec => []Inv
<1>1. Init => Inv
  BY InvInit
<1>2. Inv /\ [Next]_vars => Inv'
  BY InvStep
<1> QED
  BY <1>1, <1>2, PTL DEF Spec

\* The model's clocks, loops and controller states stay of their types (scg.rs, can.rs).
THEOREM AlwaysTypeOK == ASSUME BootAssumption PROVE Spec => []TypeOK
<1>1. Inv => TypeOK
  BY DEF Inv
<1> QED
  BY <1>1, AlwaysInv, PTL

\* Whatever the oscillator and the PLL take, the controller is set up on the locked PLL,
\* by the last wait of the clock set-up (scg.rs:44): the loops at scg.rs:21 and :34 do not wait.
THEOREM AlwaysCanOnPll == ASSUME BootAssumption PROVE Spec => []CanOnPll
<1>1. Inv => CanOnPll
  BY DEF Inv, ClockInv, CanOnPll
<1> QED
  BY <1>1, AlwaysInv, PTL

\* However late the controller freezes, it is configured in freeze mode only (can.rs:39).
THEOREM AlwaysConfiguredFrozen == ASSUME BootAssumption PROVE Spec => []ConfiguredFrozen
<1>1. Inv => ConfiguredFrozen
  BY DEF Inv, CanInv, ConfiguredFrozen
<1> QED
  BY <1>1, AlwaysInv, PTL

\* The program goes on with a controller on the bus (can.rs:94).
THEOREM AlwaysReadyWhenStarted == ASSUME BootAssumption PROVE Spec => []ReadyWhenStarted
<1>1. Inv => ReadyWhenStarted
  BY DEF Inv, CanInv, ReadyWhenStarted
<1> QED
  BY <1>1, AlwaysInv, PTL

\* The C code enables the PLL on a valid oscillator and switches to a locked PLL
\* (clocks_and_modes.c:26, :42).
THEOREM AlwaysOscillatorFirst == ASSUME BootAssumption PROVE Spec => []OscillatorFirst
<1>1. Inv => OscillatorFirst
  BY DEF Inv, ClockInv, ReferenceInv, OscillatorFirst, TypeOK, BeforePll, BeforeRun, ClockSteps
<1> QED
  BY <1>1, AlwaysInv, PTL

-----------------------------------------------------------------------------
(* How long the program takes to start.                                       *)

\* Accesses to come that are not turns of a loop.
StepsLeft ==
  CASE step = "sosc_configure" -> 15 [] step = "sosc_enable"   -> 14
    [] step = "sosc_wait"      -> 13 [] step = "spll_disable"  -> 12
    [] step = "spll_enable"    -> 11 [] step = "spll_wait"     -> 10
    [] step = "run_mode"       -> 9  [] step = "run_wait"      -> 8
    [] step = "can_disable"    -> 7  [] step = "can_enable"    -> 6
    [] step = "freeze_wait"    -> 5  [] step = "can_configure" -> 4
    [] step = "can_start"      -> 3  [] step = "unfreeze_wait" -> 2
    [] step = "ready_wait"     -> 1  [] OTHER                  -> 0

Positive(n) == IF n > 0 THEN n ELSE 0

\* Ticks the hardware may still take over what the loop waits for.
Waiting ==
  CASE step \in {"sosc_wait", "spll_wait", "run_wait"} ->
         Positive(sosc) + Positive(spll) + (IF scs = "spll" THEN 0 ELSE 1)
    [] step \in {"freeze_wait", "unfreeze_wait", "ready_wait"} ->
         left + (IF can = "leaving" THEN MaxLatency ELSE 0)
    [] OTHER -> 0

LongestWait == 2 * MaxLatency + 1
BootWork == (LongestWait + 1) * StepsLeft + Waiting

\* No start takes longer, in either code.
WorkBounded == BootWork \in 0 .. 16 * (LongestWait + 1)

\* Every tick brings the program's start nearer: a loop that turns waits for something that
\* has been asked for and is on its way, in the port, two of whose loops are inverted, as in
\* the C code (scg.rs:21, :34, :44; can.rs:39, :93-94).
BootShrinks == [][step # "started" => BootWork' < BootWork]_vars

\* What a loop waits for is on its way; the loops of the port that wait while the clock is
\* valid find it not yet valid.
LatencyInv ==
  /\ can \in {"freezing", "leaving", "joining"} => left # 0
  /\ step \notin {"sosc_configure", "sosc_enable"} => sosc # Off
  /\ step \notin BeforePll => spll # Off
  /\ step \notin BeforeRun => rccr = "spll"
  /\ code = "port" /\ step = "sosc_wait" => ~soscvld
  /\ code = "port" /\ step = "spll_wait" => ~spllvld

LEMMA LatencyInvInit == ASSUME Init PROVE LatencyInv
BY DEF Init, LatencyInv, BeforePll, BeforeRun

\* One tick of the controller: what it has been asked for comes nearer.
LEMMA ControllerComes ==
  ASSUME TypeOK, LatencyInv, BootAssumption, ControllerTicks
  PROVE  /\ can' \in {"freezing", "leaving", "joining"} => left' # 0
         /\ can \in {"freezing", "joining"} => left' = left - 1
         /\ can = "leaving" =>
              \/ can' = "leaving" /\ left' = left - 1
              \/ can' = "joining" /\ left = 1 /\ left' \in Latencies
BY DEF ControllerTicks, TypeOK, LatencyInv, Down, Latencies, BootAssumption

LEMMA LatencyInvStep == ASSUME BootAssumption, Inv, LatencyInv, [Next]_vars PROVE LatencyInv'
<1>t. TypeOK
  BY DEF Inv
<1> USE BootAssumption, <1>t, ClocksTickType, ControllerComes
    DEF LatencyInv, TypeOK, BeforePll, BeforeRun, ClockSteps, CanSteps,
        Latencies, Off, soscvld, spllvld, frzack, notrdy, Go, Access, Poll, ClocksTick,
        BootAssumption
<1>1. CASE sosc_configure
  BY <1>1 DEF sosc_configure
<1>2. CASE sosc_enable
  BY <1>2 DEF sosc_enable
<1>3. CASE sosc_wait
  BY <1>3 DEF sosc_wait
<1>4. CASE sosc_wait_reference
  BY <1>4 DEF sosc_wait_reference
<1>5. CASE spll_disable
  BY <1>5 DEF spll_disable
<1>6. CASE spll_enable
  BY <1>6 DEF spll_enable
<1>7. CASE spll_wait
  BY <1>7 DEF spll_wait
<1>8. CASE spll_wait_reference
  BY <1>8 DEF spll_wait_reference
<1>9. CASE run_mode
  BY <1>9 DEF run_mode
<1>10. CASE run_wait
  BY <1>10 DEF run_wait
<1>11. CASE can_disable
  BY <1>11 DEF can_disable
<1>12. CASE can_enable
  BY <1>12 DEF can_enable
<1>13. CASE freeze_wait
  BY <1>13 DEF freeze_wait
<1>14. CASE can_configure
  BY <1>14 DEF can_configure
<1>15. CASE can_start
  BY <1>15 DEF can_start
<1>16. CASE unfreeze_wait
  BY <1>16 DEF unfreeze_wait
<1>17. CASE unfreeze_wait_reference
  BY <1>17 DEF unfreeze_wait_reference
<1>18. CASE ready_wait
  BY <1>18 DEF ready_wait
<1>19. CASE ready_wait_reference
  BY <1>19 DEF ready_wait_reference
<1>20. CASE started
  BY <1>20 DEF started
<1>21. CASE UNCHANGED vars
  BY <1>21 DEF vars, clocks
<1> QED
  BY <1>1, <1>2, <1>3, <1>4, <1>5, <1>6, <1>7, <1>8, <1>9, <1>10,
     <1>11, <1>12, <1>13, <1>14, <1>15, <1>16, <1>17, <1>18, <1>19, <1>20, <1>21 DEF Next

LEMMA WaitingBounded ==
  ASSUME BootAssumption, TypeOK
  PROVE  /\ Waiting \in 0 .. LongestWait
         /\ StepsLeft \in 0 .. 15
         /\ WorkBounded
<1>1. Positive(sosc) \in 0 .. MaxLatency /\ Positive(spll) \in 0 .. MaxLatency
      /\ left \in 0 .. MaxLatency
  BY DEF TypeOK, Latencies, Positive, Off, BootAssumption
<1>2. Waiting \in 0 .. LongestWait
  BY <1>1 DEF Waiting, LongestWait, BootAssumption
<1>3. StepsLeft \in 0 .. 15
  BY DEF StepsLeft
<1>4. LongestWait \in Nat
  BY DEF LongestWait, BootAssumption
<1>5. (LongestWait + 1) * StepsLeft \in 0 .. 15 * (LongestWait + 1)
  BY <1>3, <1>4
<1>6. WorkBounded
  <2> DEFINE a == (LongestWait + 1) * StepsLeft
             w == Waiting
  <2>1. a \in 0 .. 15 * (LongestWait + 1) /\ w \in 0 .. LongestWait /\ BootWork = a + w
    BY <1>2, <1>5 DEF BootWork
  <2> HIDE DEF a, w
  <2> QED
    BY <1>4, <2>1 DEF WorkBounded
<1> QED
  BY <1>2, <1>3, <1>6

\* The next access: one less.
LEMMA NextAccess ==
  ASSUME BootAssumption, TypeOK, TypeOK', StepsLeft' = StepsLeft - 1
  PROVE  BootWork' < BootWork
<1> DEFINE m == LongestWait + 1
           w == Waiting
           v == Waiting'
           n == StepsLeft
<1>1. w \in 0 .. LongestWait /\ n \in 0 .. 15
  BY WaitingBounded
<1>2. v \in 0 .. LongestWait
  <2>1. Positive(sosc') \in 0 .. MaxLatency /\ Positive(spll') \in 0 .. MaxLatency
        /\ left' \in 0 .. MaxLatency
    BY DEF TypeOK, Latencies, Positive, Off, BootAssumption
  <2> QED
    BY <2>1 DEF Waiting, LongestWait, BootAssumption, Positive
<1>3. LongestWait \in Nat
  BY DEF LongestWait, BootAssumption
<1>4. BootWork = m * n + w /\ BootWork' = m * (n - 1) + v
  BY DEF BootWork, LongestWait
<1> HIDE DEF w, v, n
<1>5. m * (n - 1) = m * n - m
  BY <1>1, <1>3
<1> QED
  BY <1>1, <1>2, <1>3, <1>4, <1>5

\* One more turn of a loop: the wait is less.
LEMMA NextTurn ==
  ASSUME BootAssumption, TypeOK, step' = step, Waiting' < Waiting, Waiting' \in Nat
  PROVE  BootWork' < BootWork
<1> DEFINE a == (LongestWait + 1) * StepsLeft
           w == Waiting
           v == Waiting'
<1>1. StepsLeft \in 0 .. 15 /\ w \in Nat
  BY WaitingBounded DEF LongestWait
<1>2. a \in Nat
  BY <1>1 DEF LongestWait, BootAssumption
<1>3. BootWork = a + w /\ BootWork' = a + v
  BY DEF BootWork, StepsLeft, LongestWait
<1> HIDE DEF a, w, v
<1>4. v < w /\ v \in Nat
  BY DEF v, w
<1> QED
  BY <1>1, <1>2, <1>3, <1>4

LEMMA StepShrinks ==
  ASSUME BootAssumption, Inv, LatencyInv, Inv', step # "started", Next
  PROVE  BootWork' < BootWork
<1>t. TypeOK /\ TypeOK'
  BY DEF Inv
<1> DEFINE Access1 == StepsLeft' = StepsLeft - 1
           Turn == step' = step /\ Waiting' < Waiting /\ Waiting' \in Nat
<1> SUFFICES Access1 \/ Turn
  BY <1>t, NextAccess, NextTurn
<1>1. CASE \/ sosc_configure \/ sosc_enable \/ spll_disable \/ spll_enable \/ run_mode
           \/ can_disable \/ can_enable \/ can_configure \/ can_start
           \/ unfreeze_wait_reference \/ ready_wait_reference
  BY <1>1 DEF sosc_configure, sosc_enable, spll_disable, spll_enable, run_mode, can_disable,
     can_enable, can_configure, can_start, unfreeze_wait_reference, ready_wait_reference, Go,
     Access, Poll, StepsLeft
<1>2. CASE sosc_wait \/ spll_wait
  BY <1>2 DEF sosc_wait, spll_wait, LatencyInv, Go, Access, Poll, StepsLeft
<1>3. CASE sosc_wait_reference
  <2>1. CASE soscvld
    BY <1>3, <2>1 DEF sosc_wait_reference, Go, Access, Poll, StepsLeft
  <2>2. CASE ~soscvld
    <3>1. step = "sosc_wait" /\ step' = step /\ OscillatorTicks /\ PllTicks /\ CoreTicks
      BY <1>3, <2>2 DEF sosc_wait_reference, Go, Access, Poll, ClocksTick
    <3>2. sosc \in Latencies /\ sosc' = sosc - 1 /\ spll' = Off /\ spll = Off /\ scs = "firc"
          /\ scs' = "firc"
      BY <1>t, <2>2, <3>1
      DEF LatencyInv, Inv, ClockInv, BeforePll, BeforeRun, TypeOK, OscillatorTicks, PllTicks,
          CoreTicks, Down, soscvld, spllvld, Latencies, Off, BootAssumption
    <3> QED
      BY <3>1, <3>2 DEF Waiting, Positive, Latencies, Off, BootAssumption
  <2> QED
    BY <2>1, <2>2
<1>4. CASE spll_wait_reference
  <2>1. CASE spllvld
    BY <1>4, <2>1 DEF spll_wait_reference, Go, Access, Poll, StepsLeft
  <2>2. CASE ~spllvld
    <3>1. step = "spll_wait" /\ step' = step /\ code = "reference"
          /\ OscillatorTicks /\ PllTicks /\ CoreTicks
      BY <1>4, <2>2 DEF spll_wait_reference, Go, Access, Poll, ClocksTick
    <3>2. sosc = 0 /\ sosc' = 0 /\ spll \in Latencies /\ spll' = spll - 1 /\ scs = "firc"
          /\ scs' = "firc"
      BY <1>t, <2>2, <3>1
      DEF LatencyInv, Inv, ClockInv, ReferenceInv, BeforePll, BeforeRun, ClockSteps, TypeOK,
          OscillatorTicks, PllTicks, CoreTicks, Down, soscvld, spllvld, Latencies, Off,
          BootAssumption
    <3> QED
      BY <3>1, <3>2 DEF Waiting, Positive, Latencies, BootAssumption
  <2> QED
    BY <2>1, <2>2
<1>5. CASE run_wait
  <2>1. CASE scs = "spll"
    BY <1>5, <2>1 DEF run_wait, Go, Access, Poll, StepsLeft
  <2>2. CASE scs # "spll"
    <3>1. step = "run_wait" /\ step' = step /\ OscillatorTicks /\ PllTicks /\ CoreTicks
      BY <1>5, <2>2 DEF run_wait, Go, Access, Poll, ClocksTick
    <3>2. rccr = "spll" /\ sosc \in Latencies \cup {0} /\ spll \in Latencies \cup {0}
          /\ scs = "firc"
      BY <1>t, <2>2, <3>1 DEF LatencyInv, BeforePll, BeforeRun, TypeOK
    <3>3. \/ sosc > 0 /\ sosc' = sosc - 1 /\ spll' = spll
          \/ sosc = 0 /\ sosc' = 0 /\ spll > 0 /\ spll' = spll - 1
          \/ sosc = 0 /\ sosc' = 0 /\ spll = 0 /\ spll' = 0 /\ scs' = "spll"
      BY <3>1, <3>2 DEF OscillatorTicks, PllTicks, CoreTicks, Down, soscvld, spllvld, Latencies,
         BootAssumption
    <3>4. scs' \in {"firc", "spll"}
      BY <1>t DEF TypeOK
    <3> QED
      BY <3>1, <3>2, <3>3, <3>4 DEF Waiting, Positive, Latencies, BootAssumption
  <2> QED
    BY <2>1, <2>2
<1>6. CASE freeze_wait
  <2>1. CASE frzack
    BY <1>6, <2>1 DEF freeze_wait, Go, Access, Poll, StepsLeft
  <2>2. CASE ~frzack
    <3>1. step = "freeze_wait" /\ step' = step /\ ControllerTicks /\ can = "freezing"
      BY <1>6, <2>2 DEF freeze_wait, Go, Access, Poll, Inv, CanInv, frzack
    <3>2. left \in Latencies /\ left' = left - 1 /\ can' \in {"freezing", "frozen"}
      BY <1>t, <3>1, ControllerComes, ControllerTicksType DEF LatencyInv, TypeOK
    <3> QED
      BY <3>1, <3>2 DEF Waiting, Latencies, BootAssumption
  <2> QED
    BY <2>1, <2>2
<1>7. CASE unfreeze_wait
  <2>1. CASE ~frzack
    BY <1>7, <2>1 DEF unfreeze_wait, Go, Access, Poll, StepsLeft
  <2>2. CASE frzack
    <3>1. step = "unfreeze_wait" /\ step' = step /\ ControllerTicks /\ can = "leaving"
      BY <1>7, <2>2 DEF unfreeze_wait, Go, Access, Poll, Inv, CanInv, frzack
    <3>2. left \in Latencies
          /\ \/ can' = "leaving" /\ left' = left - 1
             \/ can' = "joining" /\ left = 1 /\ left' \in Latencies
      BY <1>t, <3>1, ControllerComes DEF LatencyInv, TypeOK
    <3> QED
      BY <3>1, <3>2 DEF Waiting, Latencies, BootAssumption
  <2> QED
    BY <2>1, <2>2
<1>8. CASE ready_wait
  <2>1. CASE ~notrdy
    BY <1>8, <2>1 DEF ready_wait, Go, Access, Poll, StepsLeft
  <2>2. CASE notrdy
    <3>1. step = "ready_wait" /\ step' = step /\ ControllerTicks /\ can \in {"leaving", "joining"}
      BY <1>8, <2>2 DEF ready_wait, Go, Access, Poll, Inv, CanInv, notrdy
    <3>2. \/ /\ left \in Latencies /\ left' = left - 1
             /\ can' = "leaving" => can = "leaving"
          \/ can = "leaving" /\ can' = "joining" /\ left = 1 /\ left' \in Latencies
      BY <1>t, <3>1, ControllerComes, ControllerTicksType DEF LatencyInv, TypeOK
    <3> QED
      BY <3>1, <3>2 DEF Waiting, Latencies, BootAssumption
  <2> QED
    BY <2>1, <2>2
<1>9. CASE started
  BY <1>9 DEF started, Go, Access
<1> QED
  BY <1>1, <1>2, <1>3, <1>4, <1>5, <1>6, <1>7, <1>8, <1>9 DEF Next

\* From reset to a running controller takes no more ticks than WorkBounded says, whatever each
\* part of the hardware takes within MaxLatency, in the port and in the C code: InitReturns as
\* a bound.  What InitReturns adds is that time goes on.
THEOREM BootComesNearer ==
  ASSUME BootAssumption
  PROVE  Spec => []WorkBounded /\ BootShrinks
<1> DEFINE I == Inv /\ LatencyInv
           Shrinks == step # "started" => BootWork' < BootWork
<1>1. Init => I
  BY InvInit, LatencyInvInit
<1>2. I /\ [Next]_vars => I'
  BY InvStep, LatencyInvStep
<1>3. I /\ I' /\ [Next]_vars => [Shrinks]_vars
  BY StepShrinks
<1>4. I => WorkBounded
  BY WaitingBounded DEF Inv
<1> HIDE DEF I, Shrinks
<1>5. Spec => []WorkBounded /\ [][Shrinks]_vars
  BY <1>1, <1>2, <1>3, <1>4, PTL DEF Spec
<1> QED
  BY <1>5 DEF BootShrinks, Shrinks
=============================================================================
