---------------------------------- MODULE Boot ----------------------------------
(***************************************************************************)
(* How the program gets from reset to a running CAN controller:            *)
(* scg::configure_spll_clock and CAN::init, and the C code they are a port *)
(* of (refs/FlexCAN_FD).  The two differ in what their loops wait for.     *)
(* The CPU makes one access to a register in a tick; oscillator, PLL and   *)
(* controller (external) react so many ticks later.                        *)
(***************************************************************************)
EXTENDS Integers

CONSTANT MaxLatency \* of the hardware, in ticks

ASSUME BootAssumption == MaxLatency \in Nat \ {0}

Latencies == 1 .. MaxLatency
Off == -1

VARIABLES
  code,   \* the code that runs: "port", or the "reference" in C
  step,   \* the access to come
  sosc,   \* system oscillator: Off, or ticks until it is valid
  spll,   \* PLL: Off, or ticks until it has locked
  rccr,   \* the clock source asked for: "firc", "spll"
  scs,    \* CSR.SCS, the clock source of the core
  can,    \* controller: "disabled", "freezing", "frozen", "leaving", "joining", "ready"
  left    \* ticks until it has followed the last request

clocks == <<sosc, spll, rccr, scs>>
vars == <<code, step, clocks, can, left>>

soscvld == sosc = 0
spllvld == spll = 0
frzack == can \in {"frozen", "leaving"}
notrdy == can # "ready"

Init ==
  /\ code \in {"port", "reference"}
  /\ step = "sosc_configure"
  /\ sosc = Off /\ spll = Off
  /\ rccr = "firc" /\ scs = "firc"
  /\ can = "disabled" /\ left = 0

-----------------------------------------------------------------------------
(* The hardware, in each tick.                                              *)

\* Mutant: past zero.
Down_past(n) == n - 1

Down(n) == IF n > 0 THEN n - 1 ELSE n

\* The PLL locks on to the oscillator.
OscillatorTicks == sosc' = Down(sosc)
PllTicks == spll' = IF soscvld THEN Down(spll) ELSE spll
CoreTicks == scs' = IF rccr = "spll" /\ spllvld THEN "spll" ELSE scs
ClocksTick == OscillatorTicks /\ PllTicks /\ CoreTicks /\ UNCHANGED rccr

\* Freeze mode takes a while to enter and to leave, and then the controller waits for a
\* gap on the bus.
ControllerTicks ==
  /\ left' \in IF left = 1 /\ can = "leaving" THEN Latencies ELSE {Down(left)}
  /\ can' = IF left # 1 THEN can
            ELSE CASE can = "freezing" -> "frozen"
                   [] can = "leaving"  -> "joining"
                   [] can = "joining"  -> "ready"
                   [] OTHER            -> can

-----------------------------------------------------------------------------
(* The CPU.                                                                 *)

Go(from, to) == step = from /\ step' = to /\ UNCHANGED code

\* An access that changes nothing the model has.
Access(from, to) == Go(from, to) /\ ClocksTick /\ ControllerTicks

\* A loop that goes on while busy holds.
Poll(from, busy, to) == Access(from, IF busy THEN from ELSE to)

\* SOSCDIV, SOSCCFG; SOSCCSR is not locked.
sosc_configure == Access("sosc_configure", "sosc_enable")

\* Mutant: SOSCEN is not set.
sosc_enable_forgotten == Access("sosc_enable", "sosc_wait")

sosc_enable ==
  /\ Go("sosc_enable", "sosc_wait")
  /\ sosc' \in Latencies
  /\ PllTicks /\ CoreTicks /\ UNCHANGED rccr /\ ControllerTicks

\* The port waits while the oscillator is valid.
sosc_wait ==
  /\ code = "port"
  /\ Poll("sosc_wait", soscvld, "spll_disable")

\* Mutant: the port's condition.
sosc_wait_reference_inverted ==
  /\ code = "reference"
  /\ Poll("sosc_wait", soscvld, "spll_disable")

sosc_wait_reference ==
  /\ code = "reference"
  /\ Poll("sosc_wait", ~soscvld, "spll_disable")

\* SPLLCSR, SPLLDIV, SPLLCFG
spll_disable ==
  /\ Go("spll_disable", "spll_enable")
  /\ spll' = Off
  /\ OscillatorTicks /\ CoreTicks /\ UNCHANGED rccr /\ ControllerTicks

spll_enable ==
  /\ Go("spll_enable", "spll_wait")
  /\ spll' \in Latencies
  /\ OscillatorTicks /\ CoreTicks /\ UNCHANGED rccr /\ ControllerTicks

spll_wait ==
  /\ code = "port"
  /\ Poll("spll_wait", spllvld, "run_mode")

spll_wait_reference ==
  /\ code = "reference"
  /\ Poll("spll_wait", ~spllvld, "run_mode")

run_mode ==
  /\ Go("run_mode", "run_wait")
  /\ rccr' = "spll"
  /\ OscillatorTicks /\ PllTicks /\ CoreTicks /\ ControllerTicks

\* Mutant: the last wait is inverted, too.
run_wait_inverted == Poll("run_wait", scs = "spll", "can_disable")

run_wait == Poll("run_wait", scs # "spll", "can_disable")

\* MCR.MDIS = 1, and the clock source
can_disable ==
  /\ Go("can_disable", "can_enable")
  /\ can' = "disabled" /\ left' = 0
  /\ ClocksTick

\* MCR.MDIS = 0: FRZ and HALT are set after reset.
can_enable ==
  /\ Go("can_enable", "freeze_wait")
  /\ can' = "freezing" /\ left' \in Latencies
  /\ ClocksTick

\* Mutant: no wait for freeze mode.
freeze_wait_skipped == Poll("freeze_wait", FALSE, "can_configure")

freeze_wait == Poll("freeze_wait", ~frzack, "can_configure")

\* CBT, FDCBT, FDCTRL, the RAM, the filters, CTRL2
can_configure == Access("can_configure", "can_start")

\* MCR = 0x81F: HALT = 0
can_start ==
  /\ Go("can_start", "unfreeze_wait")
  /\ can' = IF can = "frozen" THEN "leaving" ELSE can
  /\ left' \in Latencies
  /\ ClocksTick

unfreeze_wait ==
  /\ code = "port"
  /\ Poll("unfreeze_wait", frzack, "ready_wait")

\* (MCR && MASK) >> SHIFT is 1 >> 24 and then 1 >> 27: never true.
unfreeze_wait_reference ==
  /\ code = "reference"
  /\ Poll("unfreeze_wait", FALSE, "ready_wait")

\* Mutant: not waited for.
ready_wait_skipped ==
  /\ code = "port"
  /\ Poll("ready_wait", FALSE, "started")

ready_wait ==
  /\ code = "port"
  /\ Poll("ready_wait", notrdy, "started")

ready_wait_reference ==
  /\ code = "reference"
  /\ Poll("ready_wait", FALSE, "started")

\* The ports are set up, and the program goes on.
started == Access("started", "started")

Next ==
  \/ sosc_configure \/ sosc_enable \/ sosc_wait \/ sosc_wait_reference
  \/ spll_disable \/ spll_enable \/ spll_wait \/ spll_wait_reference
  \/ run_mode \/ run_wait
  \/ can_disable \/ can_enable \/ freeze_wait \/ can_configure \/ can_start
  \/ unfreeze_wait \/ unfreeze_wait_reference \/ ready_wait \/ ready_wait_reference
  \/ started

Spec == Init /\ [][Next]_vars

\* The CPU runs.
FairSpec == Spec /\ WF_vars(Next)

-----------------------------------------------------------------------------
(* Properties.                                                              *)

ClockSteps == {"sosc_configure", "sosc_enable", "sosc_wait", "spll_disable", "spll_enable",
               "spll_wait", "run_mode", "run_wait"}
CanSteps == {"can_disable", "can_enable", "freeze_wait", "can_configure", "can_start",
             "unfreeze_wait", "ready_wait"}

TypeOK ==
  /\ code \in {"port", "reference"}
  /\ step \in ClockSteps \cup CanSteps \cup {"started"}
  /\ sosc \in Latencies \cup {0, Off}
  /\ spll \in Latencies \cup {0, Off}
  /\ rccr \in {"firc", "spll"} /\ scs \in {"firc", "spll"}
  /\ can \in {"disabled", "freezing", "frozen", "leaving", "joining", "ready"}
  /\ left \in Latencies \cup {0}

\* The controller is set up only on the clock its bit times are computed for, the locked
\* PLL: the inverted loops before it notwithstanding, the last wait of the clock set-up
\* makes up for them (scg.rs:21, :34, :44; main.rs:182, "as required for CAN-FD").
CanOnPll == step \notin ClockSteps => scs = "spll" /\ spllvld /\ soscvld

\* Bit times, filters and buffers are written in freeze mode only (can.rs:34-88).
ConfiguredFrozen == step \in {"can_configure", "can_start"} => can = "frozen"

\* transmit finds a controller that takes part in the bus (can.rs:90-94).  The C code has
\* no such wait: what its two last loops test is always false (FlexCAN_FD.c:84, :86).
ReadyWhenStarted == code = "port" /\ step = "started" => can = "ready"

\* However long the hardware takes, no loop waits for what cannot come (scg.rs:21, :34,
\* :44; can.rs:39, :93-94).
InitReturns == <>(step = "started")

\* In the C code the PLL is enabled on a valid oscillator, and the core switched to a
\* locked PLL (clocks_and_modes.c:26, "Wait for sys OSC clk valid", :42, "Wait for SPLL
\* valid").  The port, whose loops are inverted, does neither (scg.rs:21, :34).
OscillatorFirst ==
  code = "reference" =>
    /\ spll # Off => soscvld
    /\ rccr = "spll" => spllvld
=============================================================================
