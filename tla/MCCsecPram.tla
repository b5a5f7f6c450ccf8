------------------------------ MODULE MCCsecPram ------------------------------
(* CsecPram on buffers whose bytes are all different, in PRAM whose bytes are   *)
(* all different from each other and from theirs.                               *)
EXTENDS CsecPram

CONSTANTS
  WriteLengths, \* lengths of the buffers written
  MaxCalls      \* accesses made

VARIABLE made

Numbered(n) == [k \in 1 .. n |-> k]
MCByte == 0 .. 255
MCBuffers == {Numbered(n) : n \in WriteLengths}
MCHalfword == {<<0, 0>>, <<0, 128>>, <<3, 1>>}
MCContents == {[n \in 0 .. WORDS - 1 |-> [b \in 0 .. 3 |-> 128 + 4 * n + b]]}

MCInit == Init /\ made = 0
MCNext ==
  \/ made < MaxCalls /\ Access /\ made' = made + 1
  \/ (Copy \/ Halted) /\ UNCHANGED made
  \* no more accesses
  \/ made = MaxCalls /\ pc = "idle" /\ UNCHANGED <<vars, made>>

MCSpec == MCInit /\ [][MCNext]_<<vars, made>>
            /\ WF_<<vars, made>>(Copy /\ UNCHANGED made)
=============================================================================
