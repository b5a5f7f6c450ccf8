----------------------------- MODULE FrameChannel -----------------------------
(* What main.rs takes CAN::transmit for: a channel that carries every payload, *)
(* whole, once and in order, to the bus.                                       *)
EXTENDS Integers

VARIABLES
  accepted,  \* number of the payload last handed over, 0 before the first
  delivered  \* number of the payload last seen on the bus

channel == <<accepted, delivered>>

Init == accepted = 0 /\ delivered = 0

Transmit ==
  /\ accepted = delivered
  /\ accepted' = accepted + 1
  /\ UNCHANGED delivered

Deliver ==
  /\ delivered < accepted
  /\ delivered' = delivered + 1
  /\ UNCHANGED accepted

Next == Transmit \/ Deliver

Spec == Init /\ [][Next]_channel /\ WF_channel(Deliver)
=============================================================================
