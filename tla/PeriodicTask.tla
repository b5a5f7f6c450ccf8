----------------------------- MODULE PeriodicTask -----------------------------
(* What main.rs takes schedule = [poll_sensor] for: executions PERIOD apart, on *)
(* an unbounded clock, each begun when it is due or, if the one before is still *)
(* running then, as soon as that has ended.                                     *)
EXTENDS Integers

CONSTANTS
  PERIOD,
  MaxLag,   \* how late an execution may still be running
  Fallible  \* whether a call of the security engine may fail

VARIABLES
  phase,  \* "starting", "waiting", "running", "halted"
  lag     \* the time now, less the time the execution to come, or running, is due

task == <<phase, lag>>

Init == phase = "starting" /\ lag = -PERIOD

Start ==
  /\ phase = "starting" /\ phase' = "waiting"
  /\ UNCHANGED lag

Tick ==
  /\ \/ phase = "waiting" /\ lag < 0
     \/ phase = "running" /\ lag < MaxLag
  /\ lag' = lag + 1
  /\ UNCHANGED phase

Begin ==
  /\ phase = "waiting" /\ lag >= 0
  /\ phase' = "running"
  /\ UNCHANGED lag

End ==
  /\ phase = "running"
  /\ phase' = "waiting"
  /\ lag' = lag - PERIOD

Fail ==
  /\ Fallible /\ phase \in {"starting", "running"}
  /\ phase' = "halted"
  /\ UNCHANGED lag

Next == Start \/ Tick \/ Begin \/ End \/ Fail

Spec ==
  /\ Init /\ [][Next]_task
  /\ WF_task(Start \/ Fail) /\ WF_task(Tick) /\ WF_task(Begin) /\ WF_task(End \/ Fail)
=============================================================================
