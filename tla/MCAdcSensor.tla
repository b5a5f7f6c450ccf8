----------------------------- MODULE MCAdcSensor -----------------------------
(* AdcSensor with a bound on the polls.                                       *)
EXTENDS AdcSensor

CONSTANT MaxPolls

MCNext ==
  \/ poll < MaxPolls /\ read
  \/ CPU \/ Complete
  \* no more polls
  \/ poll = MaxPolls /\ pc = "idle" /\ UNCHANGED vars

MCSpec == Init /\ [][MCNext]_vars /\ WF_vars(CPU) /\ WF_vars(Complete)
=============================================================================
