---------------------------- MODULE MCCanMailbox ----------------------------
(* CanMailbox with a bound on the calls of transmit, on a bus that has sent    *)
(* each frame before the next call, or on any.                                *)
EXTENDS CanMailbox

CONSTANTS
  MaxCalls,
  Buses      \* of "prompt" and "any"

VARIABLE bus_kind

everything == <<vars, bus_kind>>

Prompt == bus_kind = "prompt"

MCInit == Init /\ bus_kind \in Buses

MCNext ==
  /\ \/ /\ calls < MaxCalls
        /\ Prompt => code = "inactive" /\ tx = "none"
        /\ transmit
     \/ CPU \/ Controller
     \* no more calls, and nothing left to send
     \/ /\ calls = MaxCalls /\ pc = "idle" /\ code = "inactive" /\ tx = "none"
        /\ UNCHANGED vars
  /\ UNCHANGED bus_kind

MCSpec ==
  /\ MCInit /\ [][MCNext]_everything
  /\ WF_everything(CPU /\ UNCHANGED bus_kind)
  /\ WF_everything(Controller /\ UNCHANGED bus_kind)

\* On a bus that keeps up transmit is a channel: every payload crosses it, whole, once
\* and in order (can.rs:110-135; main.rs:16-26).  The other kind maps to no call at all.
Channel == INSTANCE FrameChannel WITH
  accepted <- IF Prompt THEN calls ELSE 0,
  delivered <- CASE ~Prompt -> 0
                 [] Prompt /\ bus = Whole(calls) -> calls
                 [] Prompt /\ bus # Whole(calls) /\ bus = Whole(calls - 1) -> calls - 1
                 [] OTHER -> -1

ChannelSpec == Channel!Spec
=============================================================================
