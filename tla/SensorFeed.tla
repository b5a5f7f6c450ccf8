------------------------------ MODULE SensorFeed ------------------------------
(* What daredevil-small promises the other end of the bus: the readings of one *)
(* poll after the other, in frames the receiver can verify and decrypt, until  *)
(* an error of the security engine, if there is one, stops it for good.        *)
EXTENDS Naturals

CONSTANTS
  Readings(_),  \* of the n-th poll
  NoReadings,   \* before the first frame
  Fallible,
  MaxFrames     \* how many frames are looked at

VARIABLES
  frames,    \* frames seen on the bus
  readings,  \* what the receiver reads in the last one
  alive

feed == <<frames, readings, alive>>

Init == frames = 0 /\ readings = NoReadings /\ alive = TRUE

Send ==
  /\ alive /\ frames < MaxFrames
  /\ frames' = frames + 1
  /\ readings' = Readings(frames')
  /\ UNCHANGED alive

Stop ==
  /\ Fallible /\ alive /\ frames < MaxFrames
  /\ alive' = FALSE
  /\ UNCHANGED <<frames, readings>>

Next == Send \/ Stop

Spec == Init /\ [][Next]_feed /\ WF_feed(Next)
=============================================================================
