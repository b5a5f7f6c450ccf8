-------------------------------- MODULE CsecDrv --------------------------------
(***************************************************************************)
(* The C driver of the security engine that csec.rs was ported from        *)
(* (refs/platform, csec_driver.c), as an application with a thread and a   *)
(* button interrupt uses it.  Its calls wait for the engine or leave the   *)
(* work to FTFC_IRQHandler; all share one csec_state_t, whose flag         *)
(* cmdInProgress is the only thing that keeps them apart.  The interrupts  *)
(* have one priority: the thread stands still while either runs, and they  *)
(* wait for each other.  A call refused with STATUS_BUSY changes nothing   *)
(* and is no step.  Lengths are in pages.  The engine is external.         *)
(***************************************************************************)
EXTENDS Integers, FiniteSetsExt

CONSTANTS
  ThreadCalls, IsrCalls, \* the calls each context makes and waits for
  AsyncCalls,            \* the operations started to go on by themselves
  Faults                 \* errors the engine may report at any time

Contexts == {"thread", "isr", "handler"}
Callers == Contexts \cup {"async"}
Nobody == "nobody"

CSEC_DATA_PAGES_AVAILABLE == 7
Pages == 1 .. CSEC_DATA_PAGES_AVAILABLE

Ecb == {"ENC_ECB", "DEC_ECB"}
Cbc == {"ENC_CBC", "DEC_CBC"}
Mac == {"GENERATE_MAC", "VERIFY_MAC"}
Driven == Ecb \cup Cbc \cup Mac          \* the operations csec_state_t describes
Chained == Cbc \cup Mac \cup {"MP_COMPRESS"}

VARIABLES
  at,       \* where each context is in its call
  req,      \* the call of each caller
  stat,     \* the local variable stat of each context
  done,     \* the pages MPCompress has handed to the engine
  out,      \* the parts of its result each caller has, and has right
  g,        \* csec_state_t: the operation in progress, or the last one, and whose; and
            \* whether the last one left to the handler was cancelled
  irq,      \* FTFC's interrupt is enabled
  hdr,      \* the command header, with the length field and who wrote it
  pram,     \* the data pages
  ccif, status,
  chain,    \* the operation the engine keeps between a FIRST call and its last
  stray,    \* that operation was abandoned by its caller
  intruded  \* an interrupt was let in while the thread was in a call

calls == <<at, req, stat, done, out>>
engine == <<hdr, pram, ccif, status, chain, stray>>
vars == <<calls, g, irq, engine, intruded>>

-----------------------------------------------------------------------------
(* Calls.  n is the length of the input; the calls of one command name the    *)
(* pages they write and read.                                                  *)

Long(op, n) == [op |-> op, n |-> n, writes |-> {}, reads |-> {}]
One(op, writes, reads) == [op |-> op, n |-> 0, writes |-> writes, reads |-> reads]

GenerateMACAddrMode == One("GENERATE_MAC_ADDR", {1}, {2})
VerifyMACAddrMode   == One("VERIFY_MAC_ADDR", {1, 2}, {1})
LoadKey      == One("LOAD_KEY", 1 .. 4, 5 .. 7)
LoadPlainKey == One("LOAD_PLAIN_KEY", {1}, {})
ExportRAMKey == One("EXPORT_RAM_KEY", {}, 1 .. 7)
InitRNG      == One("INIT_RNG", {}, {})
ExtendSeed   == One("EXTEND_SEED", {1}, {})
GenerateRND  == One("RND", {}, {1})
BootFailure  == One("BOOT_FAILURE", {}, {})
BootOK       == One("BOOT_OK", {}, {})
BootDefine   == One("BOOT_DEFINE", {1}, {})
GetID        == One("GET_ID", {1}, {2, 3})
DbgChal      == One("DBG_CHAL", {}, {1})
DbgAuth      == One("DBG_AUTH", {1}, {})
OneCommand ==
  {GenerateMACAddrMode, VerifyMACAddrMode, LoadKey, LoadPlainKey, ExportRAMKey, InitRNG,
   ExtendSeed, GenerateRND, BootFailure, BootOK, BootDefine, GetID, DbgChal, DbgAuth}

\* The calls are the driver's own, those of one command or those with a length; only the
\* operations of csec_state_t go on by themselves (csec_driver.c:1181-1378).
ASSUME CallsAssumption ==
  /\ \A c \in ThreadCalls \cup IsrCalls :
       c \in OneCommand \/ (c.op \in Driven \cup {"MP_COMPRESS"} /\ c.n \in Nat)
  /\ \A c \in AsyncCalls : c.op \in Driven /\ c.n \in Nat
  /\ "SUCCESS" \notin Faults

Cancel == Long("CANCEL", 0)
NoCall == Long("NONE", 0)

\* What a call has to have in its caller's buffers when it succeeds.
Result(c) ==
  IF c.op \in Ecb \cup Cbc THEN 1 .. c.n
  ELSE IF c.op \in Chained THEN {0}
  ELSE c.reads
Complete(x) == Result(req[x]) \subseteq out[x]

\* Contents of a page: input, initialization vector, expected MAC or result of x.
In(x, k) == <<x, "in", k>>
Iv(x) == <<x, "iv", 0>>
Expected(x) == <<x, "mac", 0>>
Out(x, k) == <<x, "out", k>>
Junk == <<Nobody, "junk", 0>>

NoState == [inProgress |-> FALSE, owner |-> Nobody, cmd |-> "NONE", fullSize |-> 0,
            partSize |-> 0, index |-> 0, seq |-> "FIRST", errCode |-> "SUCCESS",
            macWritten |-> FALSE, cancelled |-> FALSE]
Closed == [open |-> FALSE, cmd |-> "NONE", of |-> Nobody, n |-> 0, left |-> 0]
Header(op, seq, x, length) == [op |-> op, seq |-> seq, of |-> x, length |-> length]

CSEC_DRV_Init ==
  /\ at = [x \in Contexts |-> "idle"]
  /\ req = [x \in Callers |-> NoCall]
  /\ stat = [x \in Contexts |-> "SUCCESS"]
  /\ done = [x \in Contexts |-> 0]
  /\ out = [x \in Callers |-> {}]
  /\ g = NoState
  /\ irq = FALSE
  /\ hdr = Header("NONE", "FIRST", Nobody, 0)
  /\ pram = [p \in Pages |-> Junk]
  /\ ccif = TRUE /\ status = "SUCCESS"
  /\ chain = Closed /\ stray = FALSE
  /\ intruded = FALSE

-----------------------------------------------------------------------------
(* Steps the calls share.                                                      *)

\* The handler does nothing when no operation is in progress: enabled then, it is
\* entered again and again, and the thread never runs.
Storm == irq /\ ccif /\ ~g.inProgress /\ at["handler"] = "idle"
Runs(x) ==
  \/ x = "handler"
  \/ x = "isr" /\ at["handler"] = "idle"
  \/ x = "thread" /\ at["handler"] = "idle" /\ at["isr"] = "idle" /\ ~Storm

GoTo(x, l) == at' = [at EXCEPT ![x] = l]

\* Pages are written, then the header, which starts the engine; while a command
\* runs, what is written is lost.
CSEC_WriteCommandHeader(h, content) ==
  IF ccif THEN
    /\ pram' = [p \in Pages |-> IF p \in DOMAIN content THEN content[p] ELSE pram[p]]
    /\ hdr' = h /\ ccif' = FALSE
    /\ UNCHANGED <<status, chain, stray>>
  ELSE UNCHANGED engine

\* The pages 1 + first, ... hold result k + 1, ... of x.
CSEC_ReadCommandBytes(x, first, count, k) ==
  out' = [out EXCEPT ![x] = @ \cup {i \in k + 1 .. k + count : pram[first + i - k] = Out(x, i)}]

FirstCbc(s) == s.cmd \in Cbc /\ s.seq = "FIRST"
Offset(s) == IF FirstCbc(s) THEN 1 ELSE 0
\* Mutant: the part takes all of the input.
PartSize_whole(s) == s.fullSize - s.index
\* Past its end, the unsigned rest of the input is more than fits.
PartSize(s) ==
  LET room == CSEC_DATA_PAGES_AVAILABLE - Offset(s)
  IN IF s.index > s.fullSize THEN room ELSE Min({s.fullSize - s.index, room})

\* The expected MAC goes behind the message where there is room.
MacFits(s) == s.cmd = "VERIFY_MAC" /\ PartSize(s) + 1 < CSEC_DATA_PAGES_AVAILABLE

\* StartEncDecECBCmd, StartEncDecCBCCmd, StartGenMACCmd and StartVerifMACCmd: the
\* next part of the operation s describes.
Start(s) ==
  LET n == PartSize(s)
      written == 1 .. n + Offset(s) + (IF MacFits(s) THEN 1 ELSE 0)
      content == [p \in written |->
                    IF FirstCbc(s) /\ p = 1 THEN Iv(s.owner)
                    ELSE IF p > n + Offset(s) THEN Expected(s.owner)
                    ELSE In(s.owner, s.index + p - Offset(s))]
      length == IF s.cmd \in Ecb THEN n ELSE s.fullSize
  IN /\ g' = [s EXCEPT !.partSize = n, !.macWritten = @ \/ MacFits(s)]
     /\ CSEC_WriteCommandHeader(Header(s.cmd, s.seq, s.owner, length), content)

InitState(x, c) ==
  [g EXCEPT !.inProgress = TRUE, !.owner = x, !.cmd = c.op, !.fullSize = c.n, !.index = 0,
            !.errCode = "SUCCESS", !.seq = "FIRST",
            !.macWritten = IF c.op = "VERIFY_MAC" THEN FALSE ELSE @,
            !.cancelled = IF x = "async" THEN FALSE ELSE @]

\* Mutant: a verification ends with its message, its MAC handed over or not.
LastPart_message(s) == s.index >= s.fullSize
\* ContinueEncDecECBCmd, ContinueEncDecCBCCmd, ContinueGenMACCmd and
\* ContinueVerifMACCmd, up to the result of a MAC: read the status and the part,
\* and launch the next one if there is one.
LastPart(s) == IF s.cmd = "VERIFY_MAC" THEN s.macWritten ELSE s.index >= s.fullSize
\* Mutant: the position is not advanced.
Advanced_unmoved ==
  [g EXCEPT !.errCode = status, !.seq = IF g.cmd \in Ecb THEN @ ELSE "SUBSEQUENT"]
\* Mutant: every part says it is the first.
Advanced_first == [g EXCEPT !.errCode = status, !.index = @ + g.partSize]
Advanced ==
  [g EXCEPT !.errCode = status, !.index = @ + g.partSize,
            !.seq = IF g.cmd \in Ecb THEN @ ELSE "SUBSEQUENT"]
Failed == [g EXCEPT !.errCode = status, !.inProgress = FALSE]
Continue ==
  IF status # "SUCCESS" THEN g' = Failed /\ UNCHANGED <<out, engine>>
  ELSE /\ IF g.cmd \in Mac THEN UNCHANGED out
          ELSE CSEC_ReadCommandBytes(g.owner, Offset(g), g.partSize, g.index)
       /\ IF LastPart(Advanced)
          THEN g' = [Advanced EXCEPT !.inProgress = FALSE] /\ UNCHANGED engine
          ELSE Start(Advanced)

\* Mutant: the verification status is looked for where a MAC is.
MacPage_two == 2
\* The MAC is on page 2, the verification status on page 1.
MacPage == IF g.cmd = "VERIFY_MAC" THEN 1 ELSE 2
ReadMac == out' = [out EXCEPT ![g.owner] =
                     IF pram[MacPage] = Out(g.owner, 0) THEN @ \cup {0} ELSE @]

\* What the engine still holds of x is nothing to the next call of x.
Forget(x) ==
  /\ pram' = [p \in Pages |-> IF pram[p][1] = x THEN Junk ELSE pram[p]]
  /\ chain' = IF chain.of = x THEN [chain EXCEPT !.of = Nobody] ELSE chain
  /\ UNCHANGED <<hdr, ccif, status>>

-----------------------------------------------------------------------------
(* The calls.  Every one begins with the test of cmdInProgress; what the       *)
(* thread has then read may be out of date when it goes on.                    *)

\* The call the context makes: waited for, or started to go on by itself.  Bound: one
\* interrupt at most is let in during a call of the thread; the next one waits.
Enter(x, c, l) ==
  /\ ~g.inProgress
  /\ x # "thread" /\ at["thread"] # "idle" => ~intruded
  /\ GoTo(x, l)
  /\ req' = [req EXCEPT ![x] = c]
  /\ intruded' = (intruded \/ (x # "thread" /\ at["thread"] # "idle"))
  /\ UNCHANGED <<stat, done, out, g, irq, engine>>
Call(x) ==
  /\ Runs(x) /\ at[x] = "idle"
  /\ \E c \in IF x = "thread" THEN ThreadCalls ELSE IF x = "isr" THEN IsrCalls ELSE {} :
       Enter(x, c, IF c.op \in Driven THEN "tested"
                   ELSE IF c.op = "MP_COMPRESS" THEN "mp_message" ELSE "tested_one")
CallAsync(x) ==
  /\ Runs(x)
  /\ at[x] = IF x = "handler" THEN "callback" ELSE "idle"
  /\ \E c \in AsyncCalls : Enter(x, c, "tested_async")

\* The calls that wait: EncryptECB to VerifyMAC.
Launch(x) ==
  /\ Runs(x) /\ at[x] = "tested"
  /\ Start(InitState(x, req[x]))
  /\ GoTo(x, "wait")
  /\ UNCHANGED <<req, stat, done, out, irq, intruded>>
Wait(x) ==
  /\ Runs(x) /\ at[x] = "wait" /\ ccif
  /\ Continue
  /\ GoTo(x, IF g'.inProgress THEN "wait"
             ELSE IF g.cmd \in Mac /\ status = "SUCCESS" THEN "read_mac" ELSE "return")
  /\ UNCHANGED <<req, stat, done, irq, intruded>>
\* Another call or the handler has cleared the flag before the loop tests it.
WaitEnds(x) ==
  /\ Runs(x) /\ at[x] = "wait" /\ ~g.inProgress
  /\ GoTo(x, "return")
  /\ UNCHANGED <<req, stat, done, out, g, irq, engine, intruded>>
\* The time is looked at when the engine is ready, and only then.
WaitTimesOut(x) ==
  /\ Runs(x) /\ at[x] = "wait" /\ ccif
  /\ GoTo(x, "cancel")
  /\ UNCHANGED <<req, stat, done, out, g, irq, engine, intruded>>
TimeOut(x) ==
  /\ Runs(x) /\ at[x] = "timeout"
  /\ g' = [g EXCEPT !.errCode = "TIMEOUT"]
  /\ GoTo(x, "return")
  /\ UNCHANGED <<req, stat, done, out, irq, engine, intruded>>
ReadMacLate(x) ==
  /\ Runs(x) /\ at[x] = "read_mac"
  /\ ReadMac
  /\ GoTo(x, "return")
  /\ UNCHANGED <<req, stat, done, g, irq, engine, intruded>>

\* The calls of one command, GenerateMACAddrMode to DbgAuth.
LaunchOne(x) ==
  /\ Runs(x) /\ at[x] = "tested_one"
  /\ g' = [g EXCEPT !.inProgress = TRUE]
  /\ CSEC_WriteCommandHeader(Header(req[x].op, "FIRST", x, 0),
                             [p \in req[x].writes |-> In(x, p)])
  /\ GoTo(x, "wait_one")
  /\ UNCHANGED <<req, stat, done, out, irq, intruded>>
FinishOne(x) ==
  /\ Runs(x) /\ at[x] = "wait_one" /\ ccif
  /\ stat' = [stat EXCEPT ![x] = status]
  /\ out' = [out EXCEPT ![x] = IF status = "SUCCESS"
                               THEN {p \in req[x].reads : pram[p] = Out(x, p)} ELSE {}]
  /\ g' = [g EXCEPT !.inProgress = FALSE]
  /\ GoTo(x, "return_stat")
  /\ UNCHANGED <<req, done, irq, engine, intruded>>

\* MPCompress, the one that leaves the flag alone.
MPCompress_message(x) ==
  /\ Runs(x) /\ at[x] = "mp_message"
  /\ IF ccif THEN pram' = [p \in Pages |->
                    IF p <= req[x].n - done[x] THEN In(x, done[x] + p) ELSE pram[p]]
     ELSE UNCHANGED pram
  /\ GoTo(x, "mp_header")
  /\ UNCHANGED <<req, stat, done, out, g, irq, hdr, ccif, status, chain, stray, intruded>>
MPCompress_header(x) ==
  /\ Runs(x) /\ at[x] = "mp_header"
  /\ CSEC_WriteCommandHeader(
       Header("MP_COMPRESS", IF done[x] = 0 THEN "FIRST" ELSE "SUBSEQUENT", x, req[x].n), <<>>)
  /\ GoTo(x, "mp_wait")
  /\ UNCHANGED <<req, stat, done, out, g, irq, intruded>>
MPCompress_wait(x) ==
  /\ Runs(x) /\ at[x] = "mp_wait" /\ ccif
  /\ stat' = [stat EXCEPT ![x] = status]
  /\ LET n == Min({req[x].n, done[x] + CSEC_DATA_PAGES_AVAILABLE})
     IN IF status = "SUCCESS"
        THEN /\ done' = [done EXCEPT ![x] = n]
             /\ GoTo(x, IF n < req[x].n THEN "mp_message" ELSE "mp_read")
        ELSE UNCHANGED done /\ GoTo(x, "return_stat")
  /\ UNCHANGED <<req, out, g, irq, engine, intruded>>
MPCompress_timeout(x) ==
  /\ Runs(x) /\ at[x] = "mp_wait" /\ ccif
  /\ stat' = [stat EXCEPT ![x] = "TIMEOUT"]
  /\ GoTo(x, "cancel")
  /\ UNCHANGED <<req, done, out, g, irq, engine, intruded>>
MPCompress_read(x) ==
  /\ Runs(x) /\ at[x] = "mp_read"
  /\ out' = [out EXCEPT ![x] = IF pram[1] = Out(x, 0) THEN {0} ELSE {}]
  /\ GoTo(x, "return_stat")
  /\ UNCHANGED <<req, stat, done, g, irq, engine, intruded>>

\* What the call returns: errCode of the shared state, or its own stat.
Returned(x) == IF at[x] = "return" THEN g.errCode ELSE stat[x]
Return(x) ==
  /\ Runs(x) /\ at[x] \in {"return", "return_stat"}
  /\ GoTo(x, "idle")
  /\ req' = [req EXCEPT ![x] = NoCall]
  /\ stat' = [stat EXCEPT ![x] = "SUCCESS"]
  /\ done' = [done EXCEPT ![x] = 0]
  /\ out' = [out EXCEPT ![x] = {}]
  /\ Forget(x)
  /\ intruded' = (intruded /\ (x # "thread" \/ irq \/ g.inProgress))
  /\ LET over == intruded /\ ~intruded'
     IN /\ stray' = (stray \/ (over /\ chain.open))
        /\ g' = IF over THEN [g EXCEPT !.owner = Nobody] ELSE g
  /\ UNCHANGED irq

-----------------------------------------------------------------------------
(* The operations that go on by themselves, and the interrupt.                 *)

LaunchAsync(x) ==
  /\ Runs(x) /\ at[x] = "tested_async"
  /\ Start(InitState("async", req[x]))
  /\ req' = [req EXCEPT !["async"] = req[x], ![x] = NoCall]
  /\ out' = [out EXCEPT !["async"] = {}]
  /\ GoTo(x, "arming")
  /\ UNCHANGED <<stat, done, irq, intruded>>
Arm(x) ==
  /\ Runs(x) /\ at[x] = "arming"
  /\ irq' = TRUE
  /\ GoTo(x, "idle")
  /\ UNCHANGED <<req, stat, done, out, g, engine, intruded>>

CSEC_DRV_GetAsyncCmdStatus == IF g.inProgress THEN "BUSY" ELSE g.errCode

\* The handler runs through, and reads a MAC before anybody else runs.
FTFC_IRQHandler ==
  /\ irq /\ ccif /\ g.inProgress
  /\ at["isr"] = "idle" /\ at["handler"] = "idle"
  /\ IF status = "SUCCESS" /\ g.cmd \in Mac /\ LastPart(Advanced)
     THEN ReadMac /\ g' = [Advanced EXCEPT !.inProgress = FALSE] /\ UNCHANGED engine
     ELSE Continue
  /\ GoTo("handler", IF g'.inProgress THEN "idle" ELSE "finished")
  /\ UNCHANGED <<req, stat, done, irq, intruded>>
HandlerForNothing == Storm /\ UNCHANGED vars
\* Mutant: the interrupt stays enabled.
HandlerFinishes_enabled ==
  /\ at["handler"] = "finished"
  /\ GoTo("handler", "callback")
  /\ Forget("async") /\ UNCHANGED stray
  /\ UNCHANGED <<req, stat, done, out, g, irq, intruded>>
\* An operation over, it disables the interrupt and calls the callback, which may
\* start the next.
HandlerFinishes ==
  /\ at["handler"] = "finished"
  /\ irq' = FALSE
  /\ GoTo("handler", "callback")
  /\ Forget("async") /\ UNCHANGED stray
  /\ UNCHANGED <<req, stat, done, out, g, intruded>>
CallbackReturns ==
  /\ at["handler"] = "callback"
  /\ GoTo("handler", "idle")
  /\ UNCHANGED <<req, stat, done, out, g, irq, engine, intruded>>

\* CancelCommand, called by the thread for the operation under way, or by a call
\* that ran out of time.
CallCancel ==
  /\ Runs("thread") /\ at["thread"] = "idle"
  /\ GoTo("thread", "cancel")
  /\ req' = [req EXCEPT !["thread"] = Cancel]
  /\ UNCHANGED <<stat, done, out, g, irq, engine, intruded>>
Cancelled(x) == IF req[x].op \in Driven THEN "timeout" ELSE "return_stat"
CancelTest(x) ==
  /\ Runs(x) /\ at[x] = "cancel"
  /\ GoTo(x, IF g.inProgress THEN "disabling" ELSE Cancelled(x))
  /\ stray' = (stray \/ (~g.inProgress /\ chain.open /\ req[x].op = "MP_COMPRESS"))
  /\ UNCHANGED <<req, stat, done, out, g, irq, hdr, pram, ccif, status, chain, intruded>>
\* Mutant: the interrupt stays enabled while the cancellation waits for the engine.
CancelDisables_not(x) ==
  /\ Runs(x) /\ at[x] = "disabling"
  /\ GoTo(x, "draining")
  /\ UNCHANGED <<req, stat, done, out, g, irq, engine, intruded>>
CancelDisables(x) ==
  /\ Runs(x) /\ at[x] = "disabling"
  /\ irq' = FALSE
  /\ GoTo(x, "draining")
  /\ UNCHANGED <<req, stat, done, out, g, engine, intruded>>
\* A header that makes the engine give up the chain, unless all went in one part.
Breaks == g.cmd \notin Ecb /\ g.fullSize # g.partSize
CancelBreaks(x) ==
  /\ Runs(x) /\ at[x] = "draining" /\ ccif
  /\ Breaks
  /\ CSEC_WriteCommandHeader([hdr EXCEPT !.op = g.cmd, !.seq = "FIRST", !.of = "cancel"], <<>>)
  /\ GoTo(x, "breaking")
  /\ UNCHANGED <<req, stat, done, out, g, irq, intruded>>
\* Only the flag is cleared: errCode stays what it was, SUCCESS (csec_driver.c:1803).
CancelEnds(x) ==
  /\ Runs(x) /\ ccif
  /\ \/ at[x] = "draining" /\ ~Breaks
     \/ at[x] = "breaking"
  /\ g' = [g EXCEPT !.inProgress = FALSE,
                    !.cancelled = @ \/ (g.inProgress /\ g.owner = "async")]
  /\ stray' = chain.open
  /\ IF g.owner = "async" THEN Forget("async")
     ELSE UNCHANGED <<hdr, pram, ccif, status, chain>>
  /\ GoTo(x, Cancelled(x))
  /\ UNCHANGED <<req, stat, done, out, irq, intruded>>

-----------------------------------------------------------------------------
(* The engine, external.  It keeps one chain, checks the call sequence, and     *)
(* may report an error of its own at any time; either ends the chain.  What a   *)
(* command of another kind does to an open chain is not documented.             *)

Settle(s, c) ==
  /\ ccif' = TRUE /\ status' = s /\ chain' = c
  /\ hdr' = Header("NONE", "FIRST", Nobody, hdr.length)
  /\ stray' = (stray /\ c = chain)
  /\ UNCHANGED <<calls, g, irq, intruded>>

OutOfSequence ==
  /\ hdr.op \in Chained
  /\ IF hdr.seq = "FIRST" THEN chain.open ELSE ~chain.open \/ chain.cmd # hdr.op
MustReject == OutOfSequence /\ (hdr.seq = "SUBSEQUENT" \/ chain.cmd = hdr.op)
EngineRejects == ~ccif /\ OutOfSequence /\ Settle("SEQUENCE_ERROR", Closed) /\ UNCHANGED pram
EngineFails ==
  /\ ~ccif
  /\ \E f \in Faults : Settle(f, Closed)
  /\ UNCHANGED pram

Answers(rs, p, right) == IF p \in rs THEN (IF right THEN Out(hdr.of, p) ELSE Junk) ELSE pram[p]

\* Pages are encrypted one by one.
EngineEcb ==
  /\ ~ccif /\ hdr.op \in Ecb
  /\ pram' = [p \in Pages |->
       IF p > hdr.length THEN pram[p]
       ELSE IF pram[p][1] = hdr.of /\ pram[p][2] = "in" THEN Out(hdr.of, pram[p][3]) ELSE Junk]
  /\ \E c \in {chain, Closed} : Settle("SUCCESS", c)
EngineOne ==
  /\ ~ccif /\ hdr.op \notin Ecb \cup Chained
  /\ LET c == CHOOSE c \in OneCommand : c.op = hdr.op
     IN pram' = [p \in Pages |->
                   Answers(c.reads, p, \A q \in c.writes : pram[q] = In(hdr.of, q))]
  /\ \E c \in {chain, Closed} : Settle("SUCCESS", c)

\* A part of a chain: its result is right if it and all parts before it were.
EngineChained ==
  /\ ~ccif /\ hdr.op \in Chained /\ ~MustReject
  /\ LET x == hdr.of
         base == IF hdr.seq = "FIRST"
                 THEN [open |-> TRUE, cmd |-> hdr.op, of |-> x, n |-> 0, left |-> hdr.length]
                 ELSE chain
         off == IF hdr.op \in Cbc /\ hdr.seq = "FIRST" THEN 1 ELSE 0
         n == Min({base.left, CSEC_DATA_PAGES_AVAILABLE - off})
         over == base.left = n /\ (hdr.op = "VERIFY_MAC" => n + 1 < CSEC_DATA_PAGES_AVAILABLE)
         right == /\ base.of = x
                  /\ \A p \in 1 .. n : pram[p + off] = In(x, base.n + p)
                  /\ off = 1 => pram[1] = Iv(x)
                  /\ hdr.op = "VERIFY_MAC" /\ over => pram[n + 1] = Expected(x)
         result == IF hdr.op = "GENERATE_MAC" THEN 2 ELSE 1
     IN /\ pram' = [p \in Pages |->
             IF hdr.op \in Cbc
             THEN IF p \in 1 + off .. n + off
                  THEN (IF right THEN Out(x, base.n + p - off) ELSE Junk) ELSE pram[p]
             ELSE IF over /\ p = result THEN (IF right THEN Out(x, 0) ELSE Junk) ELSE pram[p]]
        /\ Settle("SUCCESS", IF over THEN Closed
                             ELSE [base EXCEPT !.n = @ + n, !.left = @ - n,
                                               !.of = IF right THEN x ELSE Nobody])
Engine == EngineRejects \/ EngineFails \/ EngineEcb \/ EngineOne \/ EngineChained

-----------------------------------------------------------------------------
Step(x) ==
  \/ Launch(x) \/ Wait(x) \/ WaitEnds(x) \/ WaitTimesOut(x) \/ TimeOut(x) \/ ReadMacLate(x)
  \/ LaunchOne(x) \/ FinishOne(x)
  \/ MPCompress_message(x) \/ MPCompress_header(x) \/ MPCompress_wait(x)
  \/ MPCompress_timeout(x) \/ MPCompress_read(x)
  \/ Return(x) \/ LaunchAsync(x) \/ Arm(x)
  \/ CancelTest(x) \/ CancelDisables(x) \/ CancelBreaks(x) \/ CancelEnds(x)
Calls == (\E x \in Contexts : Call(x) \/ CallAsync(x)) \/ CallCancel

Next ==
  \/ Engine \/ FTFC_IRQHandler \/ HandlerForNothing \/ HandlerFinishes
  \/ CallbackReturns
  \/ Calls \/ \E x \in Contexts : Step(x)

Spec == CSEC_DRV_Init /\ [][Next]_vars

-----------------------------------------------------------------------------
(* Properties.                                                                 *)

\* Every variable keeps its type, and a part is never more than the data pages hold
\* (csec_driver.c:1482-1590).
TypeOK ==
  /\ at \in [Contexts -> {"idle", "tested", "wait", "read_mac", "timeout", "return",
       "tested_one", "wait_one", "return_stat", "mp_message", "mp_header", "mp_wait", "mp_read",
       "tested_async", "arming", "finished", "callback", "cancel", "disabling", "draining", "breaking"}]
  /\ req \in [Callers -> ThreadCalls \cup IsrCalls \cup AsyncCalls \cup {Cancel, NoCall}]
  /\ g.index \in Nat /\ g.partSize \in 0 .. CSEC_DATA_PAGES_AVAILABLE
  /\ irq \in BOOLEAN /\ ccif \in BOOLEAN /\ stray \in BOOLEAN /\ intruded \in BOOLEAN
  /\ status \in {"SUCCESS", "SEQUENCE_ERROR"} \cup Faults
  /\ \A x \in Contexts : stat[x] \in {"SUCCESS", "TIMEOUT", "SEQUENCE_ERROR"} \cup Faults
  /\ \A p \in Pages : pram[p][1] \in Callers \cup {Nobody, "cancel"}

\* The interrupt is enabled only while an operation started to go on by itself is
\* in progress (csec_driver.c:1199, :1460, :1784): the handler never steps into a
\* call that waits for itself, and is never entered for nothing; unless an interrupt was
\* let in during a call of the thread (intruded), which can leave it enabled for ever (Storm).
HandlerOwnsAsync ==
  irq /\ at["handler"] = "idle" /\ ~intruded => g.inProgress /\ g.owner = "async"

\* The part the engine works on is the part it expects: a SUBSEQUENT header meets
\* the chain of its own operation, just as far as the driver has counted
\* (csec_driver.c:1636-1753); unless an interrupt was let in during a call of the thread.
EngineInStep ==
  ~ccif /\ hdr.seq = "SUBSEQUENT" /\ ~intruded =>
    /\ chain.open /\ chain.cmd = hdr.op
    /\ chain.n = IF hdr.op = "MP_COMPRESS" THEN done[hdr.of] ELSE g.index

\* A sequence error is one that CancelCommand asked for (csec_driver.c:1795), or the
\* debt of a chain that somebody gave up without ending it; or an interrupt was let in
\* during a call of the thread.
SequenceErrorsExplained ==
  ~ccif /\ OutOfSequence => hdr.of = "cancel" \/ stray \/ intruded

\* A call that returns success has all of its result, unless an interrupt was let in
\* during a call of the thread: between the test of the flag and its setting, after its
\* clearing, or where it is never set (csec_driver.c:180, :211, :1113).
OutputsComplete ==
  \A x \in {"thread", "isr"} :
    at[x] \in {"return", "return_stat"} /\ Returned(x) = "SUCCESS" => Complete(x) \/ intruded

\* Once GetAsyncCmdStatus says success (csec_driver.c:1388) of an operation left to the
\* handler, its result is there.  Three exceptions, for it answers with the errCode all
\* calls share: the operation was cancelled, which leaves SUCCESS and no result; a call
\* that waits has come after it, whose errCode it then is; an interrupt was let in.
AsyncStatusRight ==
  CSEC_DRV_GetAsyncCmdStatus = "SUCCESS" /\ g.owner = "async" /\ ~intruded
    => Complete("async") \/ g.cancelled

\* "Output parameters are valid if the error code is STATUS_SUCCESS" (csec_driver.h:244,
\* :593): OutputsComplete without its exception, which a run refutes.  The flag is tested and
\* set apart (csec_driver.c:182), errCode and a MAC are read after it is cleared (:211,
\* :1704), and MPCompress never sets it (:1113).
OutputsValid ==
  \A x \in {"thread", "isr"} :
    Runs(x) /\ at[x] \in {"return", "return_stat"} /\ Returned(x) = "SUCCESS" => Complete(x)
=============================================================================
