------------------------------- MODULE CsecDrvInv -------------------------------
(***************************************************************************)
(* The invariant of the C driver: which places a context can be in         *)
(* together with the shared state, and what engine and data pages hold     *)
(* there.  It is in two halves.  Always holds whatever happens;            *)
(* Undisturbed holds unless an interrupt has been let in during a call of  *)
(* the thread, when the engine may hold a mixture of two operations.       *)
(***************************************************************************)
EXTENDS CsecDrv

StatusWords == {"SUCCESS", "SEQUENCE_ERROR"} \cup Faults
Owners == Callers \cup {Nobody}
InCancel == {"cancel", "disabling", "draining", "breaking"}
AtOne == \E x \in Contexts : at[x] = "wait_one"
AtBreaking == \E x \in Contexts : at[x] = "breaking"

\* A part of rest pages, behind off others.
Count(rest, off) == IF rest <= CSEC_DATA_PAGES_AVAILABLE - off THEN rest
                    ELSE CSEC_DATA_PAGES_AVAILABLE - off

-----------------------------------------------------------------------------
(* What holds with interrupts let in.                                          *)

\* The requests, places and answers of the calls.
CallTypes ==
  /\ at \in [Contexts -> {"idle", "tested", "wait", "read_mac", "timeout", "return",
       "tested_one", "wait_one", "return_stat", "mp_message", "mp_header", "mp_wait", "mp_read",
       "tested_async", "arming", "finished", "callback", "cancel", "disabling", "draining", "breaking"}]
  /\ req \in [Callers -> ThreadCalls \cup IsrCalls \cup AsyncCalls \cup {Cancel, NoCall}]
  /\ stat \in [Contexts -> StatusWords \cup {"TIMEOUT"}]
  /\ done \in [Contexts -> Nat]
  /\ DOMAIN out = Callers
  /\ irq \in BOOLEAN /\ intruded \in BOOLEAN

\* A csec_state_t.
StateTypes(s) ==
  /\ DOMAIN s = DOMAIN NoState
  /\ s.inProgress \in BOOLEAN /\ s.macWritten \in BOOLEAN
  /\ s.owner \in Owners /\ s.index \in Nat /\ s.fullSize \in Nat
  /\ s.partSize \in 0 .. CSEC_DATA_PAGES_AVAILABLE

EngineTypes ==
  /\ DOMAIN hdr = DOMAIN Header("NONE", "FIRST", Nobody, 0)
  /\ hdr.of \in Owners \cup {"cancel"}
  /\ DOMAIN pram = Pages
  /\ \A p \in Pages : pram[p][1] \in Owners \cup {"cancel"}
  /\ DOMAIN chain = DOMAIN Closed /\ chain.open \in BOOLEAN
  /\ status \in StatusWords
  /\ ccif \in BOOLEAN /\ stray \in BOOLEAN

Types == CallTypes /\ StateTypes(g) /\ EngineTypes

\* The call each context is in.
CallInv(x) ==
  /\ req[x].n \in Nat
  /\ at[x] \in {"idle", "finished", "callback", "arming"} => req[x] = NoCall
  /\ at[x] \in {"tested", "tested_async", "wait", "read_mac", "timeout", "return"}
       => req[x].op \in Driven
  /\ at[x] \in {"tested_one", "wait_one"} => req[x] \in OneCommand
  /\ at[x] \in {"mp_message", "mp_header", "mp_wait", "mp_read"} => req[x].op = "MP_COMPRESS"
  /\ at[x] \in InCancel => req[x].op \in Driven \cup {"MP_COMPRESS"} \/ req[x] = Cancel
  /\ at[x] = "return_stat" => req[x].op \notin Driven
  /\ done[x] # 0 => req[x].op = "MP_COMPRESS"

\* The interrupts do not interrupt each other, and neither makes a call while the
\* thread waits for its own.
ContextInv ==
  /\ at["handler"] \in {"idle", "finished", "callback", "tested_async", "arming"}
  /\ {at["thread"], at["isr"]} \cap {"finished", "callback"} = {}
  /\ at["isr"] = "idle" \/ at["handler"] = "idle"
  /\ at["isr"] # "idle" \/ at["handler"] \in {"tested_async", "arming"}
       => at["thread"] \notin {"wait", "wait_one", "arming"}

\* The part the engine has taken is the last one, or has failed.
LastAnswer == status # "SUCCESS" \/ LastPart(Advanced)

\* A command runs for somebody who waits for it, so a call that is over leaves the
\* engine ready.
WaitInv ==
  /\ at["isr"] = "wait" => g.inProgress
  /\ at["thread"] = "wait" /\ ~g.inProgress => ccif /\ LastAnswer
  /\ ~ccif => g.inProgress \/ \E x \in {"thread", "isr"} : at[x] \in {"mp_wait", "breaking"}

Always == Types /\ (\A x \in Contexts : CallInv(x)) /\ ContextInv /\ WaitInv

-----------------------------------------------------------------------------
(* Who has the flag and the interrupt.                                         *)

PlaceInv(x) ==
  /\ at[x] \in {"tested", "tested_one", "tested_async", "mp_message", "mp_header", "mp_wait",
                "mp_read", "read_mac", "timeout", "return", "return_stat"}
       => ~g.inProgress /\ ~irq
  /\ at[x] \in {"wait", "wait_one"} => g.inProgress /\ ~irq
  /\ at[x] = "wait" => g.owner = x
  /\ at[x] = "arming" => g.inProgress /\ g.owner = "async" /\ ~irq
  /\ at[x] \in InCancel /\ req[x].op \in Driven => g.inProgress /\ g.owner = x /\ ~irq
  /\ at[x] \in InCancel /\ req[x].op = "MP_COMPRESS"
       => at[x] = "cancel" /\ ~g.inProgress /\ ~irq /\ stat[x] = "TIMEOUT"
  /\ at[x] \in {"draining", "breaking"} => ~irq

AloneInv ==
  /\ at["isr"] # "idle" => at["thread"] = "idle"
  /\ at["handler"] # "idle" => at["thread"] \in {"idle", "cancel", "disabling"}
                               /\ (at["thread"] # "idle" => req["thread"].op = "CANCEL")
  /\ at["handler"] \in {"tested_async", "arming"} => at["thread"] = "idle"
  /\ at["handler"] \in {"finished", "callback"} => ~g.inProgress
  /\ at["handler"] = "callback" => ~irq
  /\ HandlerOwnsAsync

-----------------------------------------------------------------------------
(* What csec_state_t says of the operation in progress, and results.           *)

OperationInv ==
  /\ g.owner \in Callers
  /\ g.owner \in Contexts => at[g.owner] \in {"wait"} \cup InCancel
  /\ g.cmd = req[g.owner].op /\ g.cmd \in Driven
  /\ g.fullSize = req[g.owner].n
  /\ g.index <= g.fullSize
  /\ g.partSize = Count(g.fullSize - g.index, Offset(g))
  /\ g.cmd = "VERIFY_MAC" => g.macWritten = (g.partSize + 1 < CSEC_DATA_PAGES_AVAILABLE)
  /\ g.cmd \in Ecb => g.seq = "FIRST"
  /\ g.cmd \notin Ecb => g.seq \in {"FIRST", "SUBSEQUENT"}
  /\ g.cmd \in Ecb \cup Cbc => 1 .. g.index \subseteq out[g.owner]

ResultInv(x) ==
  /\ at[x] = "read_mac" => /\ g.owner = x /\ g.cmd = req[x].op /\ g.cmd \in Mac
                           /\ pram[MacPage] = Out(x, 0)
  /\ at[x] = "return" /\ g.errCode = "SUCCESS" => Complete(x)
  /\ at[x] = "return_stat" /\ stat[x] = "SUCCESS" => Complete(x)

AsyncInv ==
  g.owner = "async" /\ g.errCode = "SUCCESS" /\ (~g.inProgress \/ AtOne)
    => Complete("async") \/ g.cancelled

-----------------------------------------------------------------------------
(* What engine and pages hold.                                                 *)

NoChain == chain.open => stray

\* Between two parts: the engine has had k of n pages.
Between(x, op, k, n, first) ==
  /\ k \in Nat /\ n \in Nat /\ k <= n
  /\ IF first THEN k = 0 /\ NoChain
     ELSE chain = [open |-> TRUE, cmd |-> op, of |-> x, n |-> k, left |-> n - k]
\* The pages hold the part after k pages.
Loaded(x, op, k, n, first) ==
  LET off == IF op \in Cbc /\ first THEN 1 ELSE 0
      count == Count(n - k, off)
  IN /\ \A i \in 1 .. count : pram[i + off] = In(x, k + i)
     /\ off = 1 => pram[1] = Iv(x)
     /\ op = "VERIFY_MAC" /\ count + 1 < CSEC_DATA_PAGES_AVAILABLE
          => pram[count + 1] = Expected(x)
\* The engine has taken that part.
Taken(x, op, k, n, first) ==
  LET off == IF op \in Cbc /\ first THEN 1 ELSE 0
      count == Count(n - k, off)
      over == n - k = count /\ (op = "VERIFY_MAC" => count + 1 < CSEC_DATA_PAGES_AVAILABLE)
  IN /\ over => NoChain
     /\ ~over => chain = [open |-> TRUE, cmd |-> op, of |-> x,
                          n |-> k + count, left |-> n - k - count]
     /\ op \in Cbc => \A i \in 1 .. count : pram[i + off] = Out(x, k + i)
     /\ op \notin Cbc /\ over
          => pram[IF op = "GENERATE_MAC" THEN 2 ELSE 1] = Out(x, 0)
\* The engine works on that part, or has answered.
ChainPart(x, op, k, n, first) ==
  /\ ~ccif => /\ hdr = Header(op, IF first THEN "FIRST" ELSE "SUBSEQUENT", x, n)
              /\ Between(x, op, k, n, first)
              /\ Loaded(x, op, k, n, first)
  /\ ccif /\ status = "SUCCESS" => Taken(x, op, k, n, first)
  /\ ccif /\ status # "SUCCESS" => NoChain

EcbPart(x, op, k, count) ==
  /\ NoChain
  /\ ~ccif => /\ hdr = Header(op, "FIRST", x, count)
              /\ \A p \in 1 .. count : pram[p] = In(x, k + p)
  /\ ccif /\ status = "SUCCESS" => \A p \in 1 .. count : pram[p] = Out(x, k + p)

OnePart(x) ==
  /\ NoChain
  /\ ~ccif => /\ hdr = Header(req[x].op, "FIRST", x, 0)
              /\ \A p \in req[x].writes : pram[p] = In(x, p)
  /\ ccif /\ status = "SUCCESS" => \A p \in req[x].reads : pram[p] = Out(x, p)

PartInv ==
  IF g.cmd \in Ecb THEN EcbPart(g.owner, g.cmd, g.index, g.partSize)
  ELSE ChainPart(g.owner, g.cmd, g.index, g.fullSize, g.seq = "FIRST")

MPCompressInv(x) ==
  LET first == done[x] = 0
  IN /\ at[x] \in {"mp_message", "mp_header"}
          => ccif /\ Between(x, "MP_COMPRESS", done[x], req[x].n, first)
     /\ at[x] = "mp_header" => Loaded(x, "MP_COMPRESS", done[x], req[x].n, first)
     /\ at[x] = "mp_wait" => ChainPart(x, "MP_COMPRESS", done[x], req[x].n, first)
     /\ at[x] \in {"mp_message", "mp_header", "mp_wait"} => done[x] <= req[x].n
     /\ at[x] = "mp_read" => ccif /\ NoChain /\ pram[1] = Out(x, 0)

\* MPCompress has left a chain to go on with.
InMPCompress(x) ==
  \/ at[x] \in {"mp_message", "mp_header", "mp_wait"}
  \/ at[x] = "cancel" /\ req[x].op = "MP_COMPRESS"

EngineInv ==
  /\ g.inProgress /\ ~AtOne => OperationInv /\ (~AtBreaking => PartInv)
  /\ \A x \in Contexts :
       /\ at[x] = "wait_one" => OnePart(x)
       /\ MPCompressInv(x)
       /\ at[x] = "cancel" /\ req[x].op = "MP_COMPRESS" => ccif
       /\ at[x] = "breaking" /\ ~ccif => hdr.of = "cancel" /\ hdr.seq = "FIRST"
  /\ ~g.inProgress /\ ~AtBreaking /\ (\A x \in Contexts : ~InMPCompress(x)) => ccif /\ NoChain

Undisturbed ==
  /\ \A x \in Contexts : PlaceInv(x) /\ ResultInv(x)
  /\ AloneInv /\ AsyncInv /\ EngineInv

\* What the driver's flag, the engine and the data pages have to do with each other
\* (csec_driver.c:169-215, :1408-1470, :1480-1800): who may be where, which part of
\* which operation the engine works on, and what its pages hold for whom.
DrvInv == Always /\ (~intruded => Undisturbed)
=============================================================================
