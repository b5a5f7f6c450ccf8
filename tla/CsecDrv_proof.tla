----------------------------- MODULE CsecDrv_proof -----------------------------
(***************************************************************************)
(* The C driver for every set of calls, every error of the engine and any  *)
(* number of calls: DrvInv is inductive, and every safety property that    *)
(* the run checks follows from it.                                         *)
(*                                                                         *)
(* The invariant has two halves.  Always, the types and the places, holds  *)
(* with interrupts let in or not; it needs the other half only where none  *)
(* has been let in.  Undisturbed, who may be where (Control) and what      *)
(* engine, pages and results hold (Data), is kept by every step of a       *)
(* driver without interference, and found again when the call of the       *)
(* thread that was interfered with ends with nothing under way.            *)
(***************************************************************************)
EXTENDS CsecDrvInv, TLAPS

-----------------------------------------------------------------------------
(* Operators and types.                                                     *)

Fields == {"inProgress", "owner", "cmd", "fullSize", "partSize", "index", "seq", "errCode",
           "macWritten", "cancelled"}

\* Min, of two numbers.
LEMMA MinOfTwo ==
  ASSUME NEW a \in Int, NEW b \in Int
  PROVE Min({a, b}) = IF a <= b THEN a ELSE b
<1>1. \A x \in {a, b} : (IF a <= b THEN a ELSE b) <= x
  OBVIOUS
<1>2. (IF a <= b THEN a ELSE b) \in {a, b}
  OBVIOUS
<1>3. \A x \in {a, b} : (\A y \in {a, b} : x <= y) => x = IF a <= b THEN a ELSE b
  OBVIOUS
<1> QED
  BY <1>1, <1>2, <1>3 DEF Min

\* A part is never more than the data pages hold.
LEMMA PartSizeType ==
  ASSUME NEW s, s.index \in Nat, s.fullSize \in Nat
  PROVE PartSize(s) \in 0 .. CSEC_DATA_PAGES_AVAILABLE
<1>1. Offset(s) \in {0, 1}
  BY DEF Offset
<1> QED
  BY <1>1, MinOfTwo DEF PartSize, CSEC_DATA_PAGES_AVAILABLE

\* Before its end, a part of an operation is what is left of it, or what fits.
LEMMA PartSizeIs ==
  ASSUME NEW s, s.index \in Nat, s.fullSize \in Nat, s.index <= s.fullSize
  PROVE PartSize(s) = Count(s.fullSize - s.index, Offset(s))
<1>1. Offset(s) \in {0, 1}
  BY DEF Offset
<1> QED
  BY <1>1, MinOfTwo DEF PartSize, Count, CSEC_DATA_PAGES_AVAILABLE

\* The fields of a csec_state_t.
LEMMA StateFields == DOMAIN NoState = Fields
BY DEF NoState, Fields

\* The fields of a command header.
LEMMA HeaderFields ==
  ASSUME NEW op, NEW seq, NEW x, NEW n
  PROVE /\ DOMAIN Header(op, seq, x, n) = {"op", "seq", "of", "length"}
        /\ Header(op, seq, x, n).of = x
BY DEF Header

\* The fields of the engine's chain.
LEMMA ChainFields == DOMAIN Closed = {"open", "cmd", "of", "n", "left"} /\ Closed.open = FALSE
BY DEF Closed

\* Every content of a page says whose it is.
LEMMA PageOwner ==
  ASSUME NEW x, NEW k
  PROVE In(x, k)[1] = x /\ Iv(x)[1] = x /\ Expected(x)[1] = x /\ Out(x, k)[1] = x /\ Junk[1] = Nobody
BY DEF In, Iv, Expected, Out, Junk

\* A part launched keeps the operation it is of.
LEMMA StartState ==
  ASSUME NEW s, StateTypes(s), Start(s)
  PROVE /\ StateTypes(g')
        /\ g'.inProgress = s.inProgress /\ g'.owner = s.owner /\ g'.cmd = s.cmd
        /\ g'.fullSize = s.fullSize /\ g'.index = s.index /\ g'.seq = s.seq
        /\ g'.errCode = s.errCode
        /\ g'.partSize = PartSize(s) /\ g'.macWritten = (s.macWritten \/ MacFits(s))
<1>1. g' = [s EXCEPT !.partSize = PartSize(s), !.macWritten = @ \/ MacFits(s)]
  BY DEF Start
<1>2. PartSize(s) \in 0 .. CSEC_DATA_PAGES_AVAILABLE /\ MacFits(s) \in BOOLEAN
  BY PartSizeType DEF StateTypes, MacFits
<1> HIDE DEF PartSize, MacFits
<1> QED
  BY <1>1, <1>2, StateFields DEF StateTypes, Fields

\* A header written to the engine, ready or not, keeps its types.
LEMMA WriteTypes ==
  ASSUME EngineTypes, NEW h, NEW content, CSEC_WriteCommandHeader(h, content),
         DOMAIN h = {"op", "seq", "of", "length"}, h.of \in Owners \cup {"cancel"},
         \A p \in DOMAIN content : content[p][1] \in Owners \cup {"cancel"}
  PROVE EngineTypes' /\ ccif' = FALSE
<1>1. CASE ccif
  <2>1. /\ pram' = [p \in Pages |-> IF p \in DOMAIN content THEN content[p] ELSE pram[p]]
        /\ hdr' = h /\ ccif' = FALSE
        /\ UNCHANGED <<status, chain, stray>>
    BY <1>1 DEF CSEC_WriteCommandHeader
  <2>2. \A p \in Pages : (p \in DOMAIN content /\ pram'[p] = content[p]) \/ pram'[p] = pram[p]
    BY <2>1
  <2>3. \A p \in Pages : pram'[p][1] \in Owners \cup {"cancel"}
    BY <2>2 DEF EngineTypes
  <2>4. DOMAIN pram' = Pages /\ ccif' \in BOOLEAN
    BY <2>1
  <2>5. DOMAIN hdr' = DOMAIN Header("NONE", "FIRST", Nobody, 0) /\ hdr'.of \in Owners \cup {"cancel"}
    BY <2>1, HeaderFields
  <2> QED
    BY <2>1, <2>3, <2>4, <2>5 DEF EngineTypes
<1>2. CASE ~ccif
  BY <1>2 DEF EngineTypes, CSEC_WriteCommandHeader, engine
<1> QED
  BY <1>1, <1>2

\* A part launched keeps the types of the engine.
LEMMA StartTypes ==
  ASSUME EngineTypes, NEW s, StateTypes(s), Start(s)
  PROVE EngineTypes' /\ ccif' = FALSE
<1> DEFINE n == PartSize(s)
           written == 1 .. n + Offset(s) + (IF MacFits(s) THEN 1 ELSE 0)
           content == [p \in written |->
                        IF FirstCbc(s) /\ p = 1 THEN Iv(s.owner)
                        ELSE IF p > n + Offset(s) THEN Expected(s.owner)
                        ELSE In(s.owner, s.index + p - Offset(s))]
           length == IF s.cmd \in Ecb THEN n ELSE s.fullSize
           h == Header(s.cmd, s.seq, s.owner, length)
<1>1. CSEC_WriteCommandHeader(h, content)
  BY DEF Start
<1>2. \A p \in DOMAIN content : content[p][1] = s.owner
  BY PageOwner
<1>3. s.owner \in Owners
  BY DEF StateTypes
<1>4. DOMAIN h = {"op", "seq", "of", "length"} /\ h.of = s.owner
  BY HeaderFields
<1> HIDE DEF content, h
<1> QED
  BY <1>1, <1>2, <1>3, <1>4, WriteTypes

\* So does a header without pages.
LEMMA HeaderOnlyTypes ==
  ASSUME EngineTypes, NEW h, CSEC_WriteCommandHeader(h, <<>>),
         DOMAIN h = {"op", "seq", "of", "length"}, h.of \in Owners \cup {"cancel"}
  PROVE EngineTypes' /\ ccif' = FALSE
<1> DEFINE content == <<>>
<1>1. DOMAIN content = {} /\ CSEC_WriteCommandHeader(h, content)
  OBVIOUS
<1> HIDE DEF content
<1> QED
  BY <1>1, WriteTypes

\* So does a call that is over.
LEMMA ForgetTypes ==
  ASSUME EngineTypes, NEW x, Forget(x), stray' \in BOOLEAN
  PROVE EngineTypes'
<1>1. \A p \in Pages : pram'[p][1] \in Owners \cup {"cancel"}
  BY PageOwner DEF EngineTypes, Forget, Owners
<1>2. DOMAIN pram' = Pages /\ DOMAIN chain' = DOMAIN chain /\ chain'.open = chain.open
  BY ChainFields DEF EngineTypes, Forget
<1>3. UNCHANGED <<hdr, ccif, status>>
  BY DEF Forget
<1> QED
  BY <1>1, <1>2, <1>3 DEF EngineTypes

\* The calls of one command have no length, and no chain.
LEMMA OneCommandOps ==
  \A c \in OneCommand : c.n = 0 /\ c.op \notin Driven \cup Chained \cup {"CANCEL"}
BY DEF OneCommand, One, GenerateMACAddrMode, VerifyMACAddrMode, LoadKey, LoadPlainKey,
       ExportRAMKey, InitRNG, ExtendSeed, GenerateRND, BootFailure, BootOK, BootDefine, GetID,
       DbgChal, DbgAuth, Driven, Chained, Ecb, Cbc, Mac

\* CancelCommand is none of the operations, and has no result.
LEMMA CancelIs == Cancel.op = "CANCEL" /\ "CANCEL" \notin Driven \cup {"MP_COMPRESS"} /\ Result(Cancel) = {}
                  /\ "MP_COMPRESS" \notin Driven
BY DEF Cancel, Long, Driven, Ecb, Cbc, Mac, Result, Chained

\* An operation begins at its first page.
LEMMA InitStateTypes ==
  ASSUME StateTypes(g), NEW x \in Callers, NEW c, c.n \in Nat
  PROVE /\ StateTypes(InitState(x, c))
        /\ InitState(x, c).inProgress /\ InitState(x, c).owner = x
        /\ InitState(x, c).cmd = c.op /\ InitState(x, c).fullSize = c.n
        /\ InitState(x, c).index = 0 /\ InitState(x, c).seq = "FIRST"
        /\ c.op = "VERIFY_MAC" => InitState(x, c).macWritten = FALSE
BY StateFields DEF StateTypes, InitState, Fields, Owners

\* What a part that is counted leaves as it was.
LEMMA AdvancedTypes ==
  ASSUME StateTypes(g)
  PROVE /\ StateTypes(Advanced)
        /\ Advanced.inProgress = g.inProgress /\ Advanced.owner = g.owner
        /\ Advanced.cmd = g.cmd /\ Advanced.fullSize = g.fullSize
        /\ Advanced.index = g.index + g.partSize
        /\ Advanced.seq = IF g.cmd \in Ecb THEN g.seq ELSE "SUBSEQUENT"
        /\ Advanced.errCode = status /\ Advanced.macWritten = g.macWritten
BY StateFields DEF StateTypes, Advanced, Fields, CSEC_DATA_PAGES_AVAILABLE

\* What the end of an operation leaves as it was.
LEMMA OverTypes ==
  ASSUME StateTypes(g), NEW s, StateTypes(s), g' = [s EXCEPT !.inProgress = FALSE]
  PROVE /\ StateTypes(g')
        /\ g'.inProgress = FALSE /\ g'.owner = s.owner /\ g'.cmd = s.cmd
        /\ g'.fullSize = s.fullSize /\ g'.index = s.index /\ g'.seq = s.seq
        /\ g'.errCode = s.errCode /\ g'.partSize = s.partSize /\ g'.macWritten = s.macWritten
BY StateFields DEF StateTypes, Fields

\* What the failure of an operation leaves as it was.
LEMMA FailedTypes ==
  ASSUME StateTypes(g), g' = Failed
  PROVE /\ StateTypes(g')
        /\ g'.inProgress = FALSE /\ g'.owner = g.owner /\ g'.errCode = status
BY StateFields DEF StateTypes, Failed, Fields

\* What a part that is read leaves, whatever has happened before.
LEMMA ContinueTypes ==
  ASSUME Types, Continue
  PROVE /\ StateTypes(g') /\ EngineTypes' /\ DOMAIN out' = Callers
        /\ g'.owner = g.owner
        /\ LastAnswer => ~g'.inProgress /\ UNCHANGED engine
        /\ ~LastAnswer => g'.inProgress = g.inProgress
<1>1. CASE status # "SUCCESS"
  BY <1>1, FailedTypes DEF Continue, LastAnswer, Types, CallTypes, EngineTypes, engine
<1>2. CASE status = "SUCCESS"
  <2>1. DOMAIN out' = Callers
    BY <1>2 DEF Continue, CSEC_ReadCommandBytes, Types, CallTypes
  <2>2. CASE LastPart(Advanced)
    <3>1. g' = [Advanced EXCEPT !.inProgress = FALSE] /\ UNCHANGED engine
      BY <1>2, <2>2 DEF Continue
    <3>2. StateTypes(g)
      BY DEF Types
    <3>3. StateTypes(g') /\ ~g'.inProgress /\ g'.owner = g.owner
      BY <3>1, <3>2, OverTypes, AdvancedTypes
    <3> QED
      BY <1>2, <2>1, <2>2, <3>1, <3>3 DEF LastAnswer, Types, EngineTypes, engine
  <2>3. CASE ~LastPart(Advanced)
    <3>1. Start(Advanced)
      BY <1>2, <2>3 DEF Continue
    <3>2. StateTypes(g) /\ EngineTypes
      BY DEF Types
    <3> QED
      BY <1>2, <2>1, <2>3, <3>1, <3>2, StartTypes, StartState, AdvancedTypes
         DEF LastAnswer
  <2> QED
    BY <2>2, <2>3
<1> QED
  BY <1>1, <1>2

\* The last answer stays the last one while nothing is counted.
LEMMA LastAnswerStays ==
  ASSUME UNCHANGED <<g, status>>
  PROVE LastAnswer' = LastAnswer
BY DEF LastAnswer, LastPart, Advanced

\* A part that was the last one stays it once it is counted.
LEMMA LastAnswerCounted ==
  ASSUME StateTypes(g), LastAnswer, UNCHANGED status,
         \/ status # "SUCCESS"
         \/ /\ StateTypes(g')
            /\ g'.index = g.index + g.partSize /\ g'.fullSize = g.fullSize /\ g'.cmd = g.cmd
            /\ g'.macWritten = g.macWritten
  PROVE LastAnswer'
<1>1. CASE status # "SUCCESS"
  BY <1>1 DEF LastAnswer
<1>2. CASE status = "SUCCESS"
  <2>1. /\ g'.index = g.index + g.partSize /\ g'.fullSize = g.fullSize /\ g'.cmd = g.cmd
        /\ g'.macWritten = g.macWritten
        /\ g'.index \in Nat /\ g'.partSize \in Nat /\ g'.fullSize \in Nat
        /\ g.index \in Nat /\ g.partSize \in Nat
        /\ DOMAIN g = Fields /\ DOMAIN g' = Fields
    BY <1>2, StateFields DEF StateTypes, CSEC_DATA_PAGES_AVAILABLE
  <2>2. /\ Advanced.index = g.index + g.partSize /\ Advanced.fullSize = g.fullSize /\ Advanced.cmd = g.cmd
        /\ Advanced.macWritten = g.macWritten
    BY <2>1 DEF Advanced, Fields
  <2>3. /\ Advanced'.index = g'.index + g'.partSize /\ Advanced'.fullSize = g'.fullSize
        /\ Advanced'.cmd = g'.cmd /\ Advanced'.macWritten = g'.macWritten
    BY <2>1 DEF Advanced, Fields
  <2> HIDE DEF Advanced
  <2> QED
    BY <1>2, <2>1, <2>2, <2>3 DEF LastAnswer, LastPart
<1> QED
  BY <1>1, <1>2

\* The first half of the invariant holds at first.
LEMMA AlwaysInit == CSEC_DRV_Init => Always
<1> SUFFICES ASSUME CSEC_DRV_Init PROVE Always
  OBVIOUS
<1> USE DEF CSEC_DRV_Init
<1>1. CallTypes
  BY DEF CallTypes, StatusWords
<1>2. StateTypes(g)
  BY DEF StateTypes, NoState, Owners, CSEC_DATA_PAGES_AVAILABLE
<1>3. EngineTypes
  <2>1. /\ DOMAIN pram = Pages /\ \A p \in Pages : pram[p][1] = Nobody
    BY PageOwner
  <2>2. hdr.of = Nobody
    BY HeaderFields
  <2>3. DOMAIN hdr = DOMAIN Header("NONE", "FIRST", Nobody, 0)
    OBVIOUS
  <2> QED
    BY <2>1, <2>2, <2>3, ChainFields DEF EngineTypes, Owners, StatusWords
<1>4. (\A x \in Contexts : CallInv(x)) /\ ContextInv /\ WaitInv
  BY DEF CallInv, ContextInv, WaitInv, Contexts, Callers, NoCall, Long, InCancel
<1> QED
  BY <1>1, <1>2, <1>3, <1>4 DEF Always, Types

\* The steps of a call.
LEMMA AlwaysStepCall == ASSUME Always, ~intruded => Undisturbed, NEW x \in Contexts, Step(x) PROVE Always'
<1>1. CASE WaitEnds(x)
  <2>1. CallTypes'
    BY <1>1 DEF WaitEnds, GoTo, Always, Types, CallTypes, Contexts, Callers
  <2>2. StateTypes(g)'
    BY <1>1 DEF WaitEnds, Always, Types, StateTypes
  <2>3. EngineTypes'
    BY <1>1 DEF WaitEnds, Always, Types, EngineTypes, engine
  <2>4. \A y \in Contexts : CallInv(y)'
    BY <1>1 DEF WaitEnds, GoTo, Always, Types, CallTypes, CallInv, Contexts, Callers, InCancel
  <2>5. ContextInv'
    BY <1>1 DEF WaitEnds, GoTo, Runs, Always, Types, CallTypes, ContextInv, Contexts
  <2>6. WaitInv'
    BY <1>1, LastAnswerStays
    DEF WaitEnds, GoTo, Runs, Always, Types, CallTypes, engine, WaitInv, ContextInv, Contexts
  <2> QED
    BY <2>1, <2>2, <2>3, <2>4, <2>5, <2>6 DEF Always, Types
<1>2. CASE WaitTimesOut(x)
  <2>1. CallTypes'
    BY <1>2 DEF WaitTimesOut, GoTo, Always, Types, CallTypes, Contexts, Callers
  <2>2. StateTypes(g)'
    BY <1>2 DEF WaitTimesOut, Always, Types, StateTypes
  <2>3. EngineTypes'
    BY <1>2 DEF WaitTimesOut, Always, Types, EngineTypes, engine
  <2>4. \A y \in Contexts : CallInv(y)'
    BY <1>2
    DEF WaitTimesOut, GoTo, Always, Types, CallTypes, CallInv, Contexts, Callers, InCancel
  <2>5. ContextInv'
    BY <1>2 DEF WaitTimesOut, GoTo, Runs, Always, Types, CallTypes, ContextInv, Contexts
  <2>6. WaitInv'
    BY <1>2, LastAnswerStays
    DEF WaitTimesOut, GoTo, Runs, Always, Types, CallTypes, engine, WaitInv, ContextInv,
        Contexts
  <2> QED
    BY <2>1, <2>2, <2>3, <2>4, <2>5, <2>6 DEF Always, Types
<1>3. CASE TimeOut(x)
  <2>1. CallTypes'
    BY <1>3 DEF TimeOut, GoTo, Always, Types, CallTypes, Contexts, Callers
  <2>2. StateTypes(g)'
    BY <1>3, StateFields DEF TimeOut, Always, Types, StateTypes, Fields
  <2>3. EngineTypes'
    BY <1>3 DEF TimeOut, Always, Types, EngineTypes, engine
  <2>4. \A y \in Contexts : CallInv(y)'
    BY <1>3 DEF TimeOut, GoTo, Always, Types, CallTypes, CallInv, Contexts, Callers, InCancel
  <2>5. ContextInv'
    BY <1>3 DEF TimeOut, GoTo, Runs, Always, Types, CallTypes, ContextInv, Contexts
  <2>6. WaitInv'
    BY <1>3, StateFields
    DEF TimeOut, GoTo, Runs, Always, Types, CallTypes, StateTypes, Fields, engine, WaitInv,
        ContextInv, Contexts
  <2> QED
    BY <2>1, <2>2, <2>3, <2>4, <2>5, <2>6 DEF Always, Types
<1>4. CASE ReadMacLate(x)
  <2>1. CallTypes'
    BY <1>4 DEF ReadMacLate, GoTo, Always, Types, CallTypes, Contexts, Callers, ReadMac
  <2>2. StateTypes(g)'
    BY <1>4 DEF ReadMacLate, Always, Types, StateTypes
  <2>3. EngineTypes'
    BY <1>4 DEF ReadMacLate, Always, Types, EngineTypes, engine
  <2>4. \A y \in Contexts : CallInv(y)'
    BY <1>4
    DEF ReadMacLate, GoTo, Always, Types, CallTypes, CallInv, Contexts, Callers, InCancel
  <2>5. ContextInv'
    BY <1>4 DEF ReadMacLate, GoTo, Runs, Always, Types, CallTypes, ContextInv, Contexts
  <2>6. WaitInv'
    BY <1>4, LastAnswerStays
    DEF ReadMacLate, GoTo, Runs, Always, Types, CallTypes, engine, WaitInv, ContextInv, Contexts
  <2> QED
    BY <2>1, <2>2, <2>3, <2>4, <2>5, <2>6 DEF Always, Types
<1>5. CASE FinishOne(x)
  <2>1. CallTypes'
    BY <1>5
    DEF FinishOne, GoTo, Always, Types, CallTypes, Contexts, Callers, EngineTypes, StatusWords
  <2>2. StateTypes(g)'
    BY <1>5, StateFields DEF FinishOne, Always, Types, StateTypes, Fields
  <2>3. EngineTypes'
    BY <1>5 DEF FinishOne, Always, Types, EngineTypes, engine
  <2>4. \A y \in Contexts : CallInv(y)'
    BY <1>5, OneCommandOps
    DEF FinishOne, GoTo, Always, Types, CallTypes, CallInv, Contexts, Callers, InCancel
  <2>5. ContextInv'
    BY <1>5 DEF FinishOne, GoTo, Runs, Always, Types, CallTypes, ContextInv, Contexts
  <2>6. WaitInv'
    BY <1>5, StateFields
    DEF FinishOne, GoTo, Runs, Always, Types, CallTypes, StateTypes, Fields, EngineTypes,
        engine, WaitInv, ContextInv, Contexts
  <2> QED
    BY <2>1, <2>2, <2>3, <2>4, <2>5, <2>6 DEF Always, Types
<1>6. CASE MPCompress_message(x)
  <2>1. CallTypes'
    BY <1>6 DEF MPCompress_message, GoTo, Always, Types, CallTypes, Contexts, Callers
  <2>2. StateTypes(g)'
    BY <1>6 DEF MPCompress_message, Always, Types, StateTypes
  <2>3. EngineTypes'
    <3>1. /\ DOMAIN pram' = Pages
          /\ \A p \in Pages : pram'[p] = pram[p] \/ pram'[p][1] = x
      BY <1>6, PageOwner DEF MPCompress_message, Always, Types, EngineTypes
    <3>2. EngineTypes /\ x \in Owners
      BY DEF Always, Types, Owners, Callers
    <3>3. UNCHANGED <<hdr, ccif, status, chain, stray>>
      BY <1>6 DEF MPCompress_message
    <3> QED
      BY <3>1, <3>2, <3>3 DEF EngineTypes
  <2>4. \A y \in Contexts : CallInv(y)'
    BY <1>6
    DEF MPCompress_message, GoTo, Always, Types, CallTypes, CallInv, Contexts, Callers, InCancel
  <2>5. ContextInv'
    BY <1>6 DEF MPCompress_message, GoTo, Runs, Always, Types, CallTypes, ContextInv, Contexts
  <2>6. WaitInv'
    BY <1>6, LastAnswerStays
    DEF MPCompress_message, GoTo, Runs, Always, Types, CallTypes, engine, WaitInv, ContextInv,
        Contexts
  <2> QED
    BY <2>1, <2>2, <2>3, <2>4, <2>5, <2>6 DEF Always, Types
<1>7. CASE MPCompress_header(x)
  <2>1. CallTypes'
    BY <1>7 DEF MPCompress_header, GoTo, Always, Types, CallTypes, Contexts, Callers
  <2>2. StateTypes(g)'
    BY <1>7 DEF MPCompress_header, Always, Types, StateTypes
  <2>3. EngineTypes'
    <3>1. PICK h : h = Header("MP_COMPRESS", IF done[x] = 0 THEN "FIRST" ELSE "SUBSEQUENT", x, req[x].n)
      OBVIOUS
    <3>2. CSEC_WriteCommandHeader(h, <<>>)
      BY <1>7, <3>1 DEF MPCompress_header
    <3>3. EngineTypes /\ x \in Owners
      BY DEF Always, Types, Owners, Callers
    <3>4. DOMAIN h = {"op", "seq", "of", "length"} /\ h.of = x
      BY <3>1, HeaderFields
    <3> QED
      BY <3>2, <3>3, <3>4, HeaderOnlyTypes
  <2>4. \A y \in Contexts : CallInv(y)'
    BY <1>7
    DEF MPCompress_header, GoTo, Always, Types, CallTypes, CallInv, Contexts, Callers, InCancel
  <2>5. ContextInv'
    BY <1>7 DEF MPCompress_header, GoTo, Runs, Always, Types, CallTypes, ContextInv, Contexts
  <2>6. WaitInv'
    BY <1>7, LastAnswerStays
    DEF MPCompress_header, GoTo, Runs, Always, Types, CallTypes, engine, WaitInv, ContextInv,
        Contexts
  <2> QED
    BY <2>1, <2>2, <2>3, <2>4, <2>5, <2>6 DEF Always, Types
<1>8. CASE MPCompress_wait(x)
  <2>1. CallTypes'
    <3>1. Min({req[x].n, done[x] + CSEC_DATA_PAGES_AVAILABLE}) \in Nat
      BY MinOfTwo DEF Always, Types, CallTypes, CallInv, CSEC_DATA_PAGES_AVAILABLE
    <3> QED
      BY <1>8, <3>1
      DEF MPCompress_wait, GoTo, Always, Types, CallTypes, EngineTypes, StatusWords
  <2>2. StateTypes(g)'
    BY <1>8 DEF MPCompress_wait, Always, Types, StateTypes
  <2>3. EngineTypes'
    BY <1>8 DEF MPCompress_wait, Always, Types, EngineTypes, engine
  <2>4. \A y \in Contexts : CallInv(y)'
    <3>1. \A y \in Contexts : y # x => at'[y] = at[y] /\ done'[y] = done[y]
      BY <1>8 DEF MPCompress_wait, GoTo, Always, Types, CallTypes
    <3>2. at'[x] \in {"mp_message", "mp_read", "return_stat"} /\ at[x] = "mp_wait"
      BY <1>8 DEF MPCompress_wait, GoTo, Always, Types, CallTypes
    <3>3. UNCHANGED req
      BY <1>8 DEF MPCompress_wait
    <3> QED
      BY <3>1, <3>2, <3>3 DEF Always, CallInv, InCancel, Driven, Ecb, Cbc, Mac
  <2>5. ContextInv'
    BY <1>8 DEF MPCompress_wait, GoTo, Runs, Always, Types, CallTypes, ContextInv, Contexts
  <2>6. WaitInv'
    BY <1>8, LastAnswerStays
    DEF MPCompress_wait, GoTo, Runs, Always, Types, CallTypes, EngineTypes, engine, WaitInv,
        ContextInv, Contexts
  <2> QED
    BY <2>1, <2>2, <2>3, <2>4, <2>5, <2>6 DEF Always, Types
<1>9. CASE MPCompress_timeout(x)
  <2>1. CallTypes'
    BY <1>9
    DEF MPCompress_timeout, GoTo, Always, Types, CallTypes, Contexts, Callers, StatusWords
  <2>2. StateTypes(g)'
    BY <1>9 DEF MPCompress_timeout, Always, Types, StateTypes
  <2>3. EngineTypes'
    BY <1>9 DEF MPCompress_timeout, Always, Types, EngineTypes, engine
  <2>4. \A y \in Contexts : CallInv(y)'
    BY <1>9
    DEF MPCompress_timeout, GoTo, Always, Types, CallTypes, CallInv, Contexts, Callers, InCancel
  <2>5. ContextInv'
    BY <1>9 DEF MPCompress_timeout, GoTo, Runs, Always, Types, CallTypes, ContextInv, Contexts
  <2>6. WaitInv'
    BY <1>9, LastAnswerStays
    DEF MPCompress_timeout, GoTo, Runs, Always, Types, CallTypes, engine, WaitInv, ContextInv,
        Contexts
  <2> QED
    BY <2>1, <2>2, <2>3, <2>4, <2>5, <2>6 DEF Always, Types
<1>10. CASE MPCompress_read(x)
  <2>1. CallTypes'
    BY <1>10 DEF MPCompress_read, GoTo, Always, Types, CallTypes, Contexts, Callers
  <2>2. StateTypes(g)'
    BY <1>10 DEF MPCompress_read, Always, Types, StateTypes
  <2>3. EngineTypes'
    BY <1>10 DEF MPCompress_read, Always, Types, EngineTypes, engine
  <2>4. \A y \in Contexts : CallInv(y)'
    <3>1. \A y \in Contexts : y # x => at'[y] = at[y]
      BY <1>10 DEF MPCompress_read, GoTo, Always, Types, CallTypes
    <3>2. at'[x] = "return_stat" /\ at[x] = "mp_read" /\ UNCHANGED <<req, done>>
      BY <1>10 DEF MPCompress_read, GoTo, Always, Types, CallTypes
    <3> QED
      BY <3>1, <3>2 DEF Always, CallInv, InCancel, Driven, Ecb, Cbc, Mac
  <2>5. ContextInv'
    BY <1>10 DEF MPCompress_read, GoTo, Runs, Always, Types, CallTypes, ContextInv, Contexts
  <2>6. WaitInv'
    BY <1>10, LastAnswerStays
    DEF MPCompress_read, GoTo, Runs, Always, Types, CallTypes, engine, WaitInv, ContextInv,
        Contexts
  <2> QED
    BY <2>1, <2>2, <2>3, <2>4, <2>5, <2>6 DEF Always, Types
<1>11. CASE Return(x)
  <2>1. CallTypes'
    BY <1>11 DEF Return, GoTo, Always, Types, CallTypes, Contexts, Callers, StatusWords, Forget
  <2>2. StateTypes(g)'
    <3>1. g' = [g EXCEPT !.owner = Nobody] \/ g' = g
      BY <1>11 DEF Return
    <3> QED
      BY <3>1, StateFields DEF Always, Types, StateTypes, Fields, Owners
  <2>3. EngineTypes'
    BY <1>11, ForgetTypes DEF Return, Always, Types, CallTypes, EngineTypes
  <2>4. \A y \in Contexts : CallInv(y)'
    <3>1. at'[x] = "idle" /\ req'[x] = NoCall /\ done'[x] = 0
      BY <1>11 DEF Return, GoTo, Always, Types, CallTypes, Contexts, Callers
    <3>2. \A y \in Contexts : y # x => at'[y] = at[y] /\ req'[y] = req[y] /\ done'[y] = done[y]
      BY <1>11 DEF Return, GoTo, Always, Types, CallTypes, Contexts, Callers
    <3> QED
      BY <3>1, <3>2 DEF Always, CallInv, NoCall, Long, InCancel
  <2>5. ContextInv'
    BY <1>11 DEF Return, GoTo, Runs, Always, Types, CallTypes, ContextInv, Contexts
  <2>6. WaitInv'
    BY <1>11, LastAnswerStays, StateFields
    DEF Return, GoTo, Runs, Always, Types, CallTypes, StateTypes, Fields, engine, WaitInv,
        ContextInv, Contexts, Forget
  <2> QED
    BY <2>1, <2>2, <2>3, <2>4, <2>5, <2>6 DEF Always, Types
<1>12. CASE Arm(x)
  <2>1. CallTypes'
    BY <1>12 DEF Arm, GoTo, Always, Types, CallTypes, Contexts, Callers
  <2>2. StateTypes(g)'
    BY <1>12 DEF Arm, Always, Types, StateTypes
  <2>3. EngineTypes'
    BY <1>12 DEF Arm, Always, Types, EngineTypes, engine
  <2>4. \A y \in Contexts : CallInv(y)'
    BY <1>12 DEF Arm, GoTo, Always, Types, CallTypes, CallInv, Contexts, Callers, InCancel
  <2>5. ContextInv'
    BY <1>12 DEF Arm, GoTo, Runs, Always, Types, CallTypes, ContextInv, Contexts
  <2>6. WaitInv'
    BY <1>12, LastAnswerStays
    DEF Arm, GoTo, Runs, Always, Types, CallTypes, engine, WaitInv, ContextInv, Contexts
  <2> QED
    BY <2>1, <2>2, <2>3, <2>4, <2>5, <2>6 DEF Always, Types
<1>13. CASE CancelTest(x)
  <2>1. CallTypes'
    BY <1>13 DEF CancelTest, GoTo, Always, Types, CallTypes, Contexts, Callers, Cancelled
  <2>2. StateTypes(g)'
    BY <1>13 DEF CancelTest, Always, Types, StateTypes
  <2>3. EngineTypes'
    BY <1>13 DEF CancelTest, Always, Types, EngineTypes, engine
  <2>4. \A y \in Contexts : CallInv(y)'
    BY <1>13
    DEF CancelTest, GoTo, Always, Types, CallTypes, CallInv, Contexts, Callers, InCancel,
        Cancelled
  <2>5. ContextInv'
    BY <1>13
    DEF CancelTest, GoTo, Runs, Always, Types, CallTypes, ContextInv, Contexts, Cancelled
  <2>6. WaitInv'
    BY <1>13, LastAnswerStays
    DEF CancelTest, GoTo, Runs, Always, Types, CallTypes, engine, WaitInv, ContextInv, Contexts,
        Cancelled
  <2> QED
    BY <2>1, <2>2, <2>3, <2>4, <2>5, <2>6 DEF Always, Types
<1>14. CASE CancelDisables(x)
  <2>1. CallTypes'
    BY <1>14 DEF CancelDisables, GoTo, Always, Types, CallTypes, Contexts, Callers
  <2>2. StateTypes(g)'
    BY <1>14 DEF CancelDisables, Always, Types, StateTypes
  <2>3. EngineTypes'
    BY <1>14 DEF CancelDisables, Always, Types, EngineTypes, engine
  <2>4. \A y \in Contexts : CallInv(y)'
    BY <1>14
    DEF CancelDisables, GoTo, Always, Types, CallTypes, CallInv, Contexts, Callers, InCancel
  <2>5. ContextInv'
    BY <1>14 DEF CancelDisables, GoTo, Runs, Always, Types, CallTypes, ContextInv, Contexts
  <2>6. WaitInv'
    BY <1>14, LastAnswerStays
    DEF CancelDisables, GoTo, Runs, Always, Types, CallTypes, engine, WaitInv, ContextInv,
        Contexts
  <2> QED
    BY <2>1, <2>2, <2>3, <2>4, <2>5, <2>6 DEF Always, Types
<1>15. CASE CancelBreaks(x)
  <2>1. CallTypes'
    BY <1>15 DEF CancelBreaks, GoTo, Always, Types, CallTypes, Contexts, Callers
  <2>2. StateTypes(g)'
    BY <1>15 DEF CancelBreaks, Always, Types, StateTypes
  <2>3. EngineTypes'
    <3>1. PICK h : h = [hdr EXCEPT !.op = g.cmd, !.seq = "FIRST", !.of = "cancel"]
      OBVIOUS
    <3>2. CSEC_WriteCommandHeader(h, <<>>)
      BY <1>15, <3>1 DEF CancelBreaks
    <3>3. EngineTypes
      BY DEF Always, Types
    <3>4. DOMAIN h = {"op", "seq", "of", "length"} /\ h.of = "cancel"
      BY <3>1, <3>3, HeaderFields DEF EngineTypes
    <3> QED
      BY <3>2, <3>3, <3>4, HeaderOnlyTypes
  <2>4. \A y \in Contexts : CallInv(y)'
    BY <1>15
    DEF CancelBreaks, GoTo, Always, Types, CallTypes, CallInv, Contexts, Callers, InCancel
  <2>5. ContextInv'
    BY <1>15 DEF CancelBreaks, GoTo, Runs, Always, Types, CallTypes, ContextInv, Contexts
  <2>6. WaitInv'
    BY <1>15, LastAnswerStays
    DEF CancelBreaks, GoTo, Runs, Always, Types, CallTypes, engine, WaitInv, ContextInv,
        Contexts
  <2> QED
    BY <2>1, <2>2, <2>3, <2>4, <2>5, <2>6 DEF Always, Types
<1>16. CASE CancelEnds(x)
  <2>1. CallTypes'
    BY <1>16
    DEF CancelEnds, GoTo, Always, Types, CallTypes, Contexts, Callers, StatusWords, Cancelled,
        Forget
  <2>2. StateTypes(g)'
    BY <1>16, StateFields DEF CancelEnds, Always, Types, StateTypes, Fields
  <2>3. EngineTypes'
    <3>1. EngineTypes /\ stray' \in BOOLEAN
      BY <1>16 DEF CancelEnds, Always, Types, EngineTypes
    <3>2. CASE g.owner = "async"
      BY <1>16, <3>1, <3>2, ForgetTypes DEF CancelEnds
    <3>3. CASE g.owner # "async"
      BY <1>16, <3>1, <3>3 DEF CancelEnds, EngineTypes
    <3> QED
      BY <3>2, <3>3
  <2>4. \A y \in Contexts : CallInv(y)'
    <3>1. \A y \in Contexts : req'[y] = req[y]
      BY <1>16 DEF CancelEnds, Always, Types, CallTypes, Contexts, Callers
    <3>2. at[x] \in InCancel /\ at' = [at EXCEPT ![x] = Cancelled(x)] /\ done' = done
      BY <1>16 DEF CancelEnds, GoTo, InCancel
    <3>3. \A y \in Contexts : y # x => at'[y] = at[y]
      BY <3>2 DEF Always, Types, CallTypes
    <3>4. at'[x] = Cancelled(x)
      BY <3>2 DEF Always, Types, CallTypes
    <3> QED
      BY <3>1, <3>2, <3>3, <3>4 DEF Always, CallInv, Cancelled, InCancel
  <2>5. ContextInv'
    BY <1>16
    DEF CancelEnds, GoTo, Runs, Always, Types, CallTypes, ContextInv, Contexts, Cancelled
  <2>6. WaitInv'
    BY <1>16, StateFields
    DEF CancelEnds, GoTo, Runs, Always, Types, CallTypes, StateTypes, Fields, engine, WaitInv,
        ContextInv, Contexts, Cancelled, Forget
  <2> QED
    BY <2>1, <2>2, <2>3, <2>4, <2>5, <2>6 DEF Always, Types
<1>17. CASE LaunchOne(x)
  <2>1. CallTypes'
    BY <1>17 DEF LaunchOne, GoTo, Always, Types, CallTypes, Contexts, Callers
  <2>2. StateTypes(g)'
    BY <1>17, StateFields DEF LaunchOne, Always, Types, StateTypes, Fields
  <2>3. EngineTypes'
    <3> DEFINE h == Header(req[x].op, "FIRST", x, 0)
               content == [p \in req[x].writes |-> In(x, p)]
    <3>1. CSEC_WriteCommandHeader(h, content)
      BY <1>17 DEF LaunchOne
    <3>2. \A p \in DOMAIN content : content[p][1] = x
      BY PageOwner
    <3>3. EngineTypes /\ x \in Owners
      BY DEF Always, Types, Owners, Callers
    <3>4. DOMAIN h = {"op", "seq", "of", "length"} /\ h.of = x
      BY HeaderFields
    <3> HIDE DEF h, content
    <3> QED
      BY <3>1, <3>2, <3>3, <3>4, WriteTypes
  <2>4. \A y \in Contexts : CallInv(y)'
    BY <1>17 DEF LaunchOne, GoTo, Always, Types, CallTypes, CallInv, Contexts, Callers, InCancel
  <2>5. ContextInv'
    BY <1>17 DEF LaunchOne, GoTo, Runs, Always, Types, CallTypes, ContextInv, Contexts
  <2>6. WaitInv'
    BY <1>17, StateFields
    DEF LaunchOne, GoTo, Runs, Always, Types, CallTypes, StateTypes, Fields, engine, WaitInv,
        ContextInv, Contexts
  <2> QED
    BY <2>1, <2>2, <2>3, <2>4, <2>5, <2>6 DEF Always, Types
<1>18. CASE Launch(x)
  <2>1. /\ Start(InitState(x, req[x])) /\ at[x] = "tested" /\ at' = [at EXCEPT ![x] = "wait"]
        /\ StateTypes(g) /\ EngineTypes /\ req[x].n \in Nat /\ x \in Callers /\ Runs(x)
    BY <1>18 DEF Launch, GoTo, Always, Types, CallInv, Contexts, Callers
  <2>2. StateTypes(g') /\ EngineTypes' /\ ccif' = FALSE /\ g'.inProgress
    BY <2>1, InitStateTypes, StartTypes, StartState
  <2>3. CallTypes'
    BY <1>18 DEF Launch, GoTo, Always, Types, CallTypes, Contexts, Callers
  <2>4. \A y \in Contexts : CallInv(y)'
    BY <1>18, <2>1 DEF Launch, Always, Types, CallTypes, CallInv, Contexts, Callers, InCancel
  <2>5. ContextInv'
    BY <2>1 DEF Runs, Always, Types, CallTypes, ContextInv, Contexts
  <2>6. WaitInv'
    BY <2>2 DEF WaitInv
  <2> QED
    BY <2>2, <2>3, <2>4, <2>5, <2>6 DEF Always, Types
<1>19. CASE Wait(x)
  <2>1. /\ Runs(x) /\ at[x] = "wait" /\ ccif /\ Continue /\ Types
        /\ UNCHANGED <<req, stat, done, irq, intruded>>
        /\ at' = [at EXCEPT ![x] = IF g'.inProgress THEN "wait"
                                    ELSE IF g.cmd \in Mac /\ status = "SUCCESS" THEN "read_mac"
                                    ELSE "return"]
    BY <1>19 DEF Wait, GoTo, Always
  <2>2. /\ StateTypes(g)' /\ EngineTypes' /\ DOMAIN out' = Callers
        /\ LastAnswer => ~g'.inProgress /\ UNCHANGED engine
        /\ ~LastAnswer => g'.inProgress = g.inProgress
    BY <2>1, ContinueTypes
  <2>3. CallTypes'
    BY <2>1, <2>2 DEF Types, CallTypes
  <2>4. \A y \in Contexts : CallInv(y)'
    BY <2>1 DEF Types, CallTypes, Always, CallInv, InCancel
  <2>5. ContextInv'
    BY <2>1 DEF Runs, Types, CallTypes, Always, ContextInv, Contexts
  <2>6. WaitInv'
    <3>1. x \in {"thread", "isr"}
      BY <2>1 DEF Always, ContextInv, Contexts
    <3>2. CASE LastAnswer
      BY <2>1, <2>2, <3>1, <3>2
      DEF Runs, engine, Types, CallTypes, Always, ContextInv, WaitInv, Contexts
    <3>3. CASE ~LastAnswer
      BY <2>1, <2>2, <3>1, <3>3
      DEF Runs, Types, CallTypes, Always, ContextInv, WaitInv, Contexts
    <3> QED
      BY <3>2, <3>3
  <2> QED
    BY <2>2, <2>3, <2>4, <2>5, <2>6 DEF Always, Types
<1>20. CASE LaunchAsync(x)
  <2>1. /\ Start(InitState("async", req[x])) /\ at[x] = "tested_async" /\ at' = [at EXCEPT ![x] = "arming"]
        /\ StateTypes(g) /\ EngineTypes /\ req[x].n \in Nat /\ "async" \in Callers /\ Runs(x)
    BY <1>20 DEF LaunchAsync, GoTo, Always, Types, CallInv, Contexts, Callers
  <2>2. StateTypes(g') /\ EngineTypes' /\ ccif' = FALSE /\ g'.inProgress
    BY <2>1, InitStateTypes, StartTypes, StartState
  <2>3. CallTypes'
    BY <1>20 DEF LaunchAsync, GoTo, Always, Types, CallTypes, Contexts, Callers
  <2>4. \A y \in Contexts : CallInv(y)'
    <3>1. \A y \in Contexts : y # x => req'[y] = req[y] /\ at'[y] = at[y]
      BY <2>1, <1>20 DEF LaunchAsync, Always, Types, CallTypes, Contexts, Callers
    <3>2. req'[x] = NoCall /\ at'[x] = "arming" /\ done' = done /\ done[x] = 0
      BY <2>1, <1>20
      DEF LaunchAsync, Always, Types, CallTypes, CallInv, Contexts, Callers, Driven, Ecb, Cbc,
          Mac
    <3> QED
      BY <3>1, <3>2 DEF Always, CallInv, NoCall, Long, InCancel
  <2>5. ContextInv'
    BY <2>1 DEF Runs, Always, Types, CallTypes, ContextInv, Contexts
  <2>6. WaitInv'
    BY <2>2 DEF WaitInv
  <2> QED
    BY <2>2, <2>3, <2>4, <2>5, <2>6 DEF Always, Types
<1> QED
  BY <1>1, <1>2, <1>3, <1>4, <1>5, <1>6, <1>7, <1>8, <1>9, <1>10, <1>11, <1>12, <1>13, <1>14,
     <1>15, <1>16, <1>17, <1>18, <1>19, <1>20
  DEF Step

\* The steps that begin a call.
LEMMA EnterAlways ==
  ASSUME Always, ~intruded => Undisturbed, NEW x \in Contexts, NEW c, NEW l,
         Enter(x, c, l), Runs(x), at[x] \in {"idle", "callback"},
         c \in ThreadCalls \cup IsrCalls \cup AsyncCalls, c.n \in Nat,
         \/ l \in {"tested", "tested_async"} /\ c.op \in Driven
         \/ l = "mp_message" /\ c.op = "MP_COMPRESS"
         \/ l = "tested_one" /\ c \in OneCommand,
         x = "handler" => l = "tested_async" /\ at[x] = "callback"
  PROVE Always'
<1>1. /\ ~g.inProgress /\ (x # "thread" /\ at["thread"] # "idle" => ~intruded)
      /\ at' = [at EXCEPT ![x] = l] /\ req' = [req EXCEPT ![x] = c]
      /\ intruded' = (intruded \/ (x # "thread" /\ at["thread"] # "idle"))
      /\ UNCHANGED <<stat, done, out, g, irq, engine>>
  BY DEF Enter, GoTo
<1>2. CallTypes'
  BY <1>1 DEF Always, Types, CallTypes, Contexts, Callers
<1>3. StateTypes(g)' /\ EngineTypes'
  BY <1>1 DEF Always, Types, StateTypes, EngineTypes, engine
<1>4. \A y \in Contexts : CallInv(y)'
  <2>1. \A y \in Contexts : y # x => req'[y] = req[y] /\ at'[y] = at[y] /\ done'[y] = done[y]
    BY <1>1 DEF Always, Types, CallTypes, Contexts, Callers
  <2>2. req'[x] = c /\ at'[x] = l /\ done'[x] = 0
    BY <1>1 DEF Always, Types, CallTypes, CallInv, Contexts, Callers, NoCall, Long
  <2> QED
    BY <2>1, <2>2 DEF Always, CallInv, InCancel
<1>5. at["thread"] \in {"wait", "wait_one", "arming"} => x = "thread" \/ intruded
  BY <1>1 DEF Undisturbed, PlaceInv, Contexts
<1>6. ContextInv'
  BY <1>1, <1>5 DEF Always, Types, CallTypes, ContextInv, Runs, Contexts
<1>7. WaitInv'
  BY <1>1, LastAnswerStays
  DEF engine, Always, Types, CallTypes, ContextInv, WaitInv, Runs, Contexts
<1> QED
  BY <1>2, <1>3, <1>4, <1>6, <1>7 DEF Always, Types

\* The calls begin.
LEMMA AlwaysCalls == ASSUME Always, ~intruded => Undisturbed, Calls PROVE Always'
<1>1. ASSUME NEW x \in Contexts, Call(x) PROVE Always'
  <2>1. PICK c \in IF x = "thread" THEN ThreadCalls ELSE IF x = "isr" THEN IsrCalls ELSE {} :
          Enter(x, c, IF c.op \in Driven THEN "tested"
                      ELSE IF c.op = "MP_COMPRESS" THEN "mp_message" ELSE "tested_one")
    BY <1>1 DEF Call
  <2>2. Runs(x) /\ at[x] = "idle" /\ x # "handler" /\ c \in ThreadCalls \cup IsrCalls
    BY <1>1, <2>1 DEF Call
  <2>3. c \in OneCommand \/ (c.op \in Driven \cup {"MP_COMPRESS"} /\ c.n \in Nat)
    BY <2>2, CallsAssumption
  <2>4. CASE c \in OneCommand
    <3>1. c.op \notin Driven /\ c.op # "MP_COMPRESS" /\ c.n \in Nat
      BY <2>4, OneCommandOps DEF Chained
    <3> QED
      BY <2>1, <2>2, <2>4, <3>1, EnterAlways
  <2>5. CASE c.op \in Driven /\ c.n \in Nat
    BY <2>1, <2>2, <2>5, EnterAlways
  <2>6. CASE c.op = "MP_COMPRESS" /\ c.n \in Nat
    <3>1. c.op \notin Driven
      BY <2>6 DEF Driven, Ecb, Cbc, Mac
    <3> QED
      BY <2>1, <2>2, <2>6, <3>1, EnterAlways
  <2> QED
    BY <2>3, <2>4, <2>5, <2>6
<1>2. ASSUME NEW x \in Contexts, CallAsync(x) PROVE Always'
  <2>1. PICK c \in AsyncCalls : Enter(x, c, "tested_async")
    BY <1>2 DEF CallAsync
  <2>2. /\ Runs(x) /\ at[x] \in {"idle", "callback"} /\ c.op \in Driven /\ c.n \in Nat
        /\ x = "handler" => at[x] = "callback"
    BY <1>2, CallsAssumption DEF CallAsync
  <2> QED
    BY <2>1, <2>2, EnterAlways
<1>3. CASE CallCancel
  <2>1. /\ Runs("thread") /\ at["thread"] = "idle" /\ at' = [at EXCEPT !["thread"] = "cancel"]
        /\ req' = [req EXCEPT !["thread"] = Cancel]
        /\ UNCHANGED <<stat, done, out, g, irq, engine, intruded>>
    BY <1>3 DEF CallCancel, GoTo
  <2>2. CallTypes'
    BY <2>1 DEF Always, Types, CallTypes, Contexts, Callers
  <2>3. StateTypes(g)' /\ EngineTypes'
    BY <2>1 DEF Always, Types, StateTypes, EngineTypes, engine
  <2>4. \A y \in Contexts : CallInv(y)'
    <3>1. \A y \in Contexts : y # "thread" => req'[y] = req[y] /\ at'[y] = at[y] /\ done'[y] = done[y]
      BY <2>1 DEF Always, Types, CallTypes, Contexts, Callers
    <3>2. req'["thread"] = Cancel /\ at'["thread"] = "cancel" /\ done'["thread"] = 0
      BY <2>1 DEF Always, Types, CallTypes, CallInv, Contexts, Callers, NoCall, Long
    <3> QED
      BY <3>1, <3>2 DEF Always, CallInv, InCancel, Cancel, Long
  <2>5. ContextInv' /\ WaitInv'
    BY <2>1, LastAnswerStays
    DEF engine, Always, Types, CallTypes, ContextInv, WaitInv, Runs, Contexts
  <2> QED
    BY <2>2, <2>3, <2>4, <2>5 DEF Always, Types
<1> QED
  BY <1>1, <1>2, <1>3 DEF Calls

\* The steps of the handler.
LEMMA AlwaysHandler ==
  ASSUME Always, ~intruded => Undisturbed,
         FTFC_IRQHandler \/ HandlerForNothing \/ HandlerFinishes \/ CallbackReturns
  PROVE Always'
<1>1. CASE FTFC_IRQHandler
  <2>1. /\ irq /\ ccif /\ g.inProgress /\ at["isr"] = "idle" /\ at["handler"] = "idle" /\ Types
        /\ UNCHANGED <<req, stat, done, irq, intruded>>
        /\ at' = [at EXCEPT !["handler"] = IF g'.inProgress THEN "idle" ELSE "finished"]
    BY <1>1 DEF FTFC_IRQHandler, GoTo, Always
  <2>2. /\ StateTypes(g)' /\ EngineTypes' /\ DOMAIN out' = Callers
        /\ g'.inProgress \/ ccif'
    <3>1. CASE status = "SUCCESS" /\ g.cmd \in Mac /\ LastPart(Advanced)
      BY <1>1, <3>1, AdvancedTypes, OverTypes
      DEF FTFC_IRQHandler, ReadMac, Always, Types, CallTypes, EngineTypes, engine
    <3>2. CASE ~(status = "SUCCESS" /\ g.cmd \in Mac /\ LastPart(Advanced))
      BY <1>1, <2>1, <3>2, ContinueTypes DEF FTFC_IRQHandler, engine
    <3> QED
      BY <3>1, <3>2
  <2>3. CallTypes'
    BY <2>1, <2>2 DEF Types, CallTypes, Contexts
  <2>4. \A y \in Contexts : CallInv(y)'
    BY <2>1 DEF Types, CallTypes, Always, CallInv, InCancel
  <2>5. ContextInv'
    BY <2>1 DEF Types, CallTypes, Always, ContextInv, Contexts
  <2>6. WaitInv'
    <3>1. ~g'.inProgress => ccif' /\ LastAnswer'
      <4>1. CASE status # "SUCCESS"
        <5>1. UNCHANGED status
          BY <1>1, <4>1 DEF FTFC_IRQHandler, Continue, engine
        <5> QED
          BY <2>2, <4>1, <5>1, LastAnswerCounted DEF LastAnswer
      <4>2. CASE status = "SUCCESS" /\ LastPart(Advanced)
        <5>1. g' = [Advanced EXCEPT !.inProgress = FALSE] /\ UNCHANGED engine
          BY <1>1, <4>2 DEF FTFC_IRQHandler, Continue
        <5>2. /\ StateTypes(g')
              /\ g'.index = g.index + g.partSize /\ g'.fullSize = g.fullSize /\ g'.cmd = g.cmd
              /\ g'.macWritten = g.macWritten
          BY <2>1, <5>1, AdvancedTypes, OverTypes DEF Types
        <5> QED
          BY <2>1, <4>2, <5>1, <5>2, LastAnswerCounted DEF LastAnswer, Types, engine
      <4>3. CASE status = "SUCCESS" /\ ~LastPart(Advanced)
        BY <1>1, <2>1, <4>3, ContinueTypes DEF FTFC_IRQHandler, LastAnswer
      <4> QED
        BY <4>1, <4>2, <4>3
    <3> QED
      BY <2>1, <2>2, <3>1 DEF Types, CallTypes, Always, WaitInv, Contexts
  <2> QED
    BY <2>2, <2>3, <2>4, <2>5, <2>6 DEF Always, Types
<1>2. CASE HandlerForNothing
  BY <1>2, LastAnswerStays
  DEF HandlerForNothing, vars, calls, engine, Always, Types, CallTypes, StateTypes, EngineTypes,
      CallInv, ContextInv, WaitInv
<1>3. CASE HandlerFinishes
  <2>1. CallTypes' /\ StateTypes(g)'
    BY <1>3 DEF HandlerFinishes, GoTo, Always, Types, CallTypes, StateTypes, Contexts
  <2>2. EngineTypes'
    BY <1>3, ForgetTypes DEF HandlerFinishes, Always, Types, EngineTypes
  <2>3. (\A y \in Contexts : CallInv(y)') /\ ContextInv'
    BY <1>3
    DEF HandlerFinishes, GoTo, Always, Types, CallTypes, CallInv, ContextInv, Contexts, InCancel
  <2>4. WaitInv'
    BY <1>3, LastAnswerStays
    DEF HandlerFinishes, GoTo, Forget, Always, Types, CallTypes, ContextInv, WaitInv, Contexts
  <2> QED
    BY <2>1, <2>2, <2>3, <2>4 DEF Always, Types
<1>4. CASE CallbackReturns
  <2>1. CallTypes' /\ StateTypes(g)' /\ EngineTypes'
    BY <1>4
    DEF CallbackReturns, GoTo, engine, Always, Types, CallTypes, StateTypes, EngineTypes,
        Contexts
  <2>2. (\A y \in Contexts : CallInv(y)') /\ ContextInv'
    BY <1>4
    DEF CallbackReturns, GoTo, Always, Types, CallTypes, CallInv, ContextInv, Contexts, InCancel
  <2>3. WaitInv'
    BY <1>4, LastAnswerStays
    DEF CallbackReturns, GoTo, engine, Always, Types, CallTypes, ContextInv, WaitInv, Contexts
  <2> QED
    BY <2>1, <2>2, <2>3 DEF Always, Types
<1> QED
  BY <1>1, <1>2, <1>3, <1>4

\* The engine's answers have their types, and leave the driver's state alone.
LEMMA SettleTypes ==
  ASSUME EngineTypes, NEW s \in StatusWords, NEW c, Settle(s, c), DOMAIN c = DOMAIN Closed,
         c.open \in BOOLEAN, DOMAIN pram' = Pages,
         \A p \in Pages : pram'[p] = pram[p] \/ pram'[p][1] \in Owners \cup {"cancel"}
  PROVE EngineTypes'
<1>1. hdr' = Header("NONE", "FIRST", Nobody, hdr.length) /\ status' = s /\ ccif' = TRUE /\ chain' = c
      /\ stray' = (stray /\ c = chain)
  BY DEF Settle
<1>2. DOMAIN hdr' = DOMAIN Header("NONE", "FIRST", Nobody, 0) /\ hdr'.of = Nobody
  BY <1>1, HeaderFields
<1> QED
  BY <1>1, <1>2 DEF EngineTypes, Owners

\* The engine leaves the driver's state alone, and answers.
LEMMA EngineKeeps == ASSUME Engine PROVE UNCHANGED <<calls, g, irq, intruded>> /\ ccif' /\ ~ccif
BY DEF Engine, EngineRejects, EngineFails, EngineEcb, EngineOne, EngineChained, Settle

\* The engine keeps the types of what it holds.
LEMMA EngineAlways == ASSUME EngineTypes, Engine PROVE EngineTypes'
<1>0. Closed.open \in BOOLEAN /\ DOMAIN chain = DOMAIN Closed /\ chain.open \in BOOLEAN
      /\ DOMAIN pram = Pages /\ hdr.of \in Owners \cup {"cancel"} /\ Nobody \in Owners
  BY ChainFields DEF EngineTypes, Owners
<1>1. CASE EngineRejects
  BY <1>1, <1>0, SettleTypes DEF EngineRejects, StatusWords
<1>2. CASE EngineFails
  BY <1>2, <1>0, SettleTypes DEF EngineFails, StatusWords
<1>3. CASE EngineEcb
  <2>1. /\ DOMAIN pram' = Pages
        /\ \A p \in Pages : \/ pram'[p] = pram[p]
                            \/ pram'[p] = Out(hdr.of, pram[p][3]) \/ pram'[p] = Junk
    BY <1>3 DEF EngineEcb
  <2>2. \A p \in Pages : pram'[p] = pram[p] \/ pram'[p][1] \in Owners \cup {"cancel"}
    BY <2>1, <1>0, PageOwner
  <2>3. PICK c \in {chain, Closed} : Settle("SUCCESS", c)
    BY <1>3 DEF EngineEcb
  <2> QED
    BY <1>0, <2>1, <2>2, <2>3, SettleTypes DEF StatusWords
<1>4. CASE EngineOne
  <2>1. PICK d \in {chain, Closed} : Settle("SUCCESS", d)
    BY <1>4 DEF EngineOne
  <2> DEFINE c == CHOOSE c \in OneCommand : c.op = hdr.op
             right == \A q \in c.writes : pram[q] = In(hdr.of, q)
  <2>2. pram' = [p \in Pages |-> Answers(c.reads, p, right)]
    BY <1>4 DEF EngineOne
  <2>3. /\ DOMAIN pram' = Pages
        /\ \A p \in Pages : pram'[p] = pram[p] \/ pram'[p] = Out(hdr.of, p) \/ pram'[p] = Junk
    <3> HIDE DEF c, right
    <3> QED
      BY <2>2 DEF Answers
  <2>4. \A p \in Pages : pram'[p] = pram[p] \/ pram'[p][1] \in Owners \cup {"cancel"}
    BY <2>3, <1>0, PageOwner
  <2> QED
    BY <1>0, <2>1, <2>3, <2>4, SettleTypes DEF StatusWords
<1>5. CASE EngineChained
  <2> DEFINE base == IF hdr.seq = "FIRST"
                 THEN [open |-> TRUE, cmd |-> hdr.op, of |-> hdr.of, n |-> 0, left |-> hdr.length]
                 ELSE chain
  <2>1. /\ DOMAIN pram' = Pages
        /\ \A p \in Pages : pram'[p] = pram[p] \/ pram'[p] = Junk \/ \E k : pram'[p] = Out(hdr.of, k)
    BY <1>5 DEF EngineChained
  <2>2. \E n, x : \/ Settle("SUCCESS", Closed)
                  \/ Settle("SUCCESS", [base EXCEPT !.n = @ + n, !.left = @ - n, !.of = x])
    BY <1>5 DEF EngineChained
  <2>3. DOMAIN base = DOMAIN Closed /\ base.open \in BOOLEAN
    BY <1>0, ChainFields
  <2>4. \A p \in Pages : pram'[p] = pram[p] \/ pram'[p][1] \in Owners \cup {"cancel"}
    BY <2>1, <1>0, PageOwner
  <2> HIDE DEF base
  <2>5. PICK n, x : \/ Settle("SUCCESS", Closed)
                    \/ Settle("SUCCESS", [base EXCEPT !.n = @ + n, !.left = @ - n, !.of = x])
    BY <2>2
  <2>6. PICK c : c = [base EXCEPT !.n = @ + n, !.left = @ - n, !.of = x]
    OBVIOUS
  <2>7. DOMAIN c = DOMAIN Closed /\ c.open \in BOOLEAN
    BY <2>6, <2>3, ChainFields
  <2> QED
    BY <1>0, <2>1, <2>4, <2>5, <2>6, <2>7, SettleTypes DEF StatusWords
<1> QED
  BY <1>1, <1>2, <1>3, <1>4, <1>5 DEF Engine

\* The steps of the engine.
LEMMA AlwaysEngine == ASSUME Always, Engine PROVE Always'
<1>1. UNCHANGED <<calls, g, irq, intruded>> /\ ccif' /\ ~ccif
  BY EngineKeeps
<1>2. CallTypes' /\ StateTypes(g)'
  BY <1>1 DEF calls, Always, Types, CallTypes, StateTypes
<1>3. EngineTypes'
  BY EngineAlways DEF Always, Types
<1>4. (\A y \in Contexts : CallInv(y)') /\ ContextInv' /\ WaitInv'
  BY <1>1 DEF calls, Always, CallInv, ContextInv, WaitInv
<1> QED
  BY <1>2, <1>3, <1>4 DEF Always, Types

\* The first half of the invariant is kept by every step.
LEMMA AlwaysStep == ASSUME Always, ~intruded => Undisturbed, [Next]_vars PROVE Always'
<1>1. CASE UNCHANGED vars
  BY <1>1, LastAnswerStays
  DEF vars, calls, engine, Always, Types, CallTypes, StateTypes, EngineTypes, CallInv,
      ContextInv, WaitInv
<1> QED
  BY <1>1, AlwaysStepCall, AlwaysCalls, AlwaysHandler, AlwaysEngine DEF Next

-----------------------------------------------------------------------------
(* Who may be where.                                                        *)

Control == (\A x \in Contexts : PlaceInv(x)) /\ AloneInv

\* What csec_state_t says of an operation launched.
LEMMA LaunchState ==
  ASSUME Always, NEW x \in Contexts, NEW y \in Callers, Start(InitState(y, req[x]))
  PROVE /\ StateTypes(g') /\ EngineTypes' /\ StateTypes(InitState(y, req[x]))
        /\ g'.inProgress = TRUE /\ g'.owner = y /\ g'.cmd = req[x].op /\ g'.fullSize = req[x].n
        /\ g'.index = 0 /\ g'.seq = "FIRST" /\ g'.partSize = PartSize(InitState(y, req[x]))
<1> DEFINE s == InitState(y, req[x])
<1>1. StateTypes(g) /\ EngineTypes /\ req[x].n \in Nat
  BY DEF Always, Types, CallInv
<1>2. /\ StateTypes(s) /\ s.inProgress = TRUE /\ s.owner = y /\ s.cmd = req[x].op
      /\ s.fullSize = req[x].n /\ s.index = 0 /\ s.seq = "FIRST"
  BY <1>1, InitStateTypes DEF StateTypes
<1> HIDE DEF s
<1>3. Start(s)
  BY DEF s
<1>4. /\ StateTypes(g') /\ EngineTypes' /\ g'.inProgress = TRUE /\ g'.owner = y /\ g'.cmd = req[x].op
      /\ g'.fullSize = req[x].n /\ g'.index = 0 /\ g'.seq = "FIRST" /\ g'.partSize = PartSize(s)
  BY <1>1, <1>2, <1>3, StartState, StartTypes
<1> QED
  BY <1>2, <1>4 DEF s

\* A step of a call that nobody has come into.
LEMMA ControlStepCall ==
  ASSUME Always, ~intruded, Control, NEW x \in Contexts, Step(x), ~intruded'
  PROVE Control'
<1> USE DEF GoTo, Runs, Always, Types, CallTypes, StateTypes, CallInv, ContextInv, Control,
            PlaceInv, AloneInv,
         HandlerOwnsAsync, Contexts, Callers, InCancel
<1>1. CASE WaitEnds(x)
  BY <1>1, StateFields DEF WaitEnds, Fields
<1>2. CASE WaitTimesOut(x)
  BY <1>2, StateFields DEF WaitTimesOut, Fields, Driven, Ecb, Cbc, Mac
<1>3. CASE TimeOut(x)
  BY <1>3, StateFields DEF TimeOut, Fields
<1>4. CASE ReadMacLate(x)
  BY <1>4, StateFields DEF ReadMacLate, Fields
<1>5. CASE LaunchOne(x)
  BY <1>5, StateFields DEF LaunchOne, Fields
<1>6. CASE FinishOne(x)
  BY <1>6, StateFields DEF FinishOne, Fields
<1>7. CASE MPCompress_message(x)
  BY <1>7, StateFields DEF MPCompress_message, Fields
<1>8. CASE MPCompress_header(x)
  BY <1>8, StateFields DEF MPCompress_header, Fields
<1>9. CASE MPCompress_wait(x)
  BY <1>9, StateFields DEF MPCompress_wait, Fields
<1>10. CASE MPCompress_timeout(x)
  BY <1>10, StateFields DEF MPCompress_timeout, Fields, Driven, Ecb, Cbc, Mac
<1>11. CASE MPCompress_read(x)
  BY <1>11, StateFields DEF MPCompress_read, Fields
<1>12. CASE Arm(x)
  BY <1>12, StateFields DEF Arm, Fields
<1>13. CASE CancelTest(x)
  BY <1>13, StateFields DEF CancelTest, Fields, Cancelled
<1>14. CASE CancelDisables(x)
  BY <1>14, StateFields DEF CancelDisables, Fields, Cancelled
<1>15. CASE CancelBreaks(x)
  BY <1>15, StateFields DEF CancelBreaks, Fields, Cancelled
<1>16. CASE CancelEnds(x)
  BY <1>16, StateFields DEF CancelEnds, Fields, Cancelled
<1>17. CASE Return(x)
  <2>1. /\ Runs(x) /\ at[x] \in {"return", "return_stat"} /\ at' = [at EXCEPT ![x] = "idle"]
        /\ req' = [req EXCEPT ![x] = NoCall] /\ stat' = [stat EXCEPT ![x] = "SUCCESS"]
        /\ UNCHANGED <<g, irq>>
    BY <1>17 DEF Return
  <2> QED
    BY <2>1
<1>18. CASE Launch(x)
  <2>1. g'.inProgress /\ g'.owner = x
    BY <1>18, LaunchState DEF Launch
  <2> QED
    BY <1>18, <2>1 DEF Launch
<1>19. CASE LaunchAsync(x)
  <2>1. g'.inProgress /\ g'.owner = "async"
    BY <1>19, LaunchState DEF LaunchAsync
  <2> QED
    BY <1>19, <2>1 DEF LaunchAsync
<1>20. CASE Wait(x)
  <2>1. g'.owner = g.owner /\ g'.inProgress \in BOOLEAN /\ Continue
    BY <1>20, ContinueTypes DEF Wait
  <2> QED
    BY <1>20, <2>1 DEF Wait
<1> QED
  BY <1>1, <1>2, <1>3, <1>4, <1>5, <1>6, <1>7, <1>8, <1>9, <1>10, <1>11, <1>12, <1>13, <1>14,
     <1>15, <1>16, <1>17, <1>18, <1>19, <1>20
  DEF Step

\* A call that finds the flag clear finds nobody waiting.
LEMMA EnterControl ==
  ASSUME Always, ~intruded, Control, ~intruded', NEW x \in Contexts, NEW c,
         NEW l \in {"tested", "mp_message", "tested_one", "tested_async"},
         Enter(x, c, l), Runs(x), at[x] = IF x = "handler" THEN "callback" ELSE "idle",
         x = "handler" => l = "tested_async"
  PROVE Control'
<1> USE DEF GoTo, Runs, Always, Types, CallTypes, StateTypes, CallInv, ContextInv, Control,
            PlaceInv, AloneInv,
         HandlerOwnsAsync, Contexts, Callers, InCancel
<1>1. /\ ~g.inProgress /\ (x # "thread" => at["thread"] = "idle")
      /\ at' = [at EXCEPT ![x] = l] /\ req' = [req EXCEPT ![x] = c]
      /\ UNCHANGED <<stat, g, irq>>
  BY DEF Enter
<1>2. ~irq /\ (\A y \in Contexts : y # x => at[y] = "idle" \/ (x = "thread" /\ y # "thread"))
  BY <1>1
<1> QED
  BY <1>1, <1>2

\* The calls begin.
LEMMA ControlCalls ==
  ASSUME Always, ~intruded, Control, Calls, ~intruded'
  PROVE Control'
<1> USE DEF GoTo, Runs, Always, Types, CallTypes, StateTypes, CallInv, ContextInv, Control,
            PlaceInv, AloneInv,
         HandlerOwnsAsync, Contexts, Callers, InCancel
<1>1. ASSUME NEW x \in Contexts, Call(x) PROVE Control'
  <2>1. PICK l \in {"tested", "mp_message", "tested_one"} : \E c : Enter(x, c, l)
    BY <1>1 DEF Call
  <2>2. Runs(x) /\ at[x] = "idle" /\ x \in {"thread", "isr"}
    BY <1>1 DEF Call
  <2> QED
    BY <2>1, <2>2, EnterControl
<1>2. ASSUME NEW x \in Contexts, CallAsync(x) PROVE Control'
  <2>1. PICK c : Enter(x, c, "tested_async")
    BY <1>2 DEF CallAsync
  <2> QED
    BY <1>2, <2>1, EnterControl DEF CallAsync
<1>3. CASE CallCancel
  BY <1>3 DEF CallCancel, Cancel, Long, Driven, Ecb, Cbc, Mac
<1> QED
  BY <1>1, <1>2, <1>3 DEF Calls

\* The handler finds the thread outside of a call, or in CancelCommand.
LEMMA ControlHandler ==
  ASSUME Always, ~intruded, Control, ~intruded',
         FTFC_IRQHandler \/ HandlerForNothing \/ HandlerFinishes \/ CallbackReturns
  PROVE Control'
<1> USE DEF GoTo, Runs, Always, Types, CallTypes, StateTypes, CallInv, ContextInv, Control,
            PlaceInv, AloneInv,
         HandlerOwnsAsync, Contexts, Callers, InCancel
<1>1. CASE FTFC_IRQHandler
  <2>1. g'.inProgress \in BOOLEAN /\ g'.owner = g.owner
    BY <1>1, ContinueTypes, AdvancedTypes, OverTypes DEF FTFC_IRQHandler
  <2>2. /\ irq /\ at["isr"] = "idle" /\ at["handler"] = "idle" /\ g.owner = "async"
        /\ at' = [at EXCEPT !["handler"] = IF g'.inProgress THEN "idle" ELSE "finished"]
        /\ UNCHANGED <<req, stat, irq>>
    BY <1>1 DEF FTFC_IRQHandler
  <2>3. /\ at["thread"] \in {"idle", "cancel", "disabling"}
        /\ at["thread"] # "idle" => req["thread"].op = "CANCEL"
    <3>1. at["thread"] \notin {"draining", "breaking", "wait", "wait_one", "arming", "tested", "tested_one",
             "tested_async", "mp_message", "mp_header", "mp_wait", "mp_read", "read_mac", "timeout",
             "return", "return_stat"}
      BY <2>2
    <3>2. at["thread"] \in InCancel => req["thread"].op = "CANCEL"
      BY <2>2, CancelIs
    <3>3. at["thread"] \in {"idle", "cancel", "disabling"}
      BY <3>1, <2>2
    <3> QED
      BY <3>2, <3>3
  <2> QED
    BY <2>1, <2>2, <2>3 DEF Driven, Ecb, Cbc, Mac
<1>2. CASE HandlerForNothing
  BY <1>2 DEF HandlerForNothing, vars, calls
<1>3. CASE HandlerFinishes
  BY <1>3 DEF HandlerFinishes
<1>4. CASE CallbackReturns
  BY <1>4 DEF CallbackReturns
<1> QED
  BY <1>1, <1>2, <1>3, <1>4

-----------------------------------------------------------------------------
(* The parts of an operation, and the engine's answers to them.             *)

\* Only the first part of a CBC operation has the initialization vector before it.
LEMMA OffsetIs ==
  ASSUME NEW s
  PROVE Offset(s) = (IF s.cmd \in Cbc /\ s.seq = "FIRST" THEN 1 ELSE 0)
BY DEF Offset, FirstCbc

\* A part is no more than the rest, and fits behind what is before it.
LEMMA CountIs ==
  ASSUME NEW rest \in Nat, NEW off \in {0, 1}
  PROVE /\ Count(rest, off) \in Nat /\ Count(rest, off) <= rest
        /\ Count(rest, off) + off <= 7 /\ (rest <= 7 - off => Count(rest, off) = rest)
        /\ Count(rest, off) < 6 => Count(rest, off) = rest
BY DEF Count, CSEC_DATA_PAGES_AVAILABLE

\* The next part of an operation, written to a ready engine, is the part it expects.
LEMMA StartPart ==
  ASSUME EngineTypes, ccif, NEW s, StateTypes(s), Start(s), s.index <= s.fullSize,
         s.cmd \in Driven, s.seq \in {"FIRST", "SUBSEQUENT"},
         s.cmd \in Ecb => s.seq = "FIRST" /\ NoChain,
         s.cmd \notin Ecb => Between(s.owner, s.cmd, s.index, s.fullSize, s.seq = "FIRST"),
         s.cmd = "VERIFY_MAC" => s.macWritten = FALSE
  PROVE /\ PartInv'
        /\ g'.partSize = Count(g'.fullSize - g'.index, Offset(g'))
        /\ g'.cmd = "VERIFY_MAC" => g'.macWritten = (g'.partSize + 1 < CSEC_DATA_PAGES_AVAILABLE)
<1> DEFINE n == PartSize(s)
           written == 1 .. n + Offset(s) + (IF MacFits(s) THEN 1 ELSE 0)
           content == [p \in written |->
                        IF FirstCbc(s) /\ p = 1 THEN Iv(s.owner)
                        ELSE IF p > n + Offset(s) THEN Expected(s.owner)
                        ELSE In(s.owner, s.index + p - Offset(s))]
           length == IF s.cmd \in Ecb THEN n ELSE s.fullSize
           rest == s.fullSize - s.index
<1>1. /\ g'.inProgress = s.inProgress /\ g'.owner = s.owner /\ g'.cmd = s.cmd
      /\ g'.fullSize = s.fullSize /\ g'.index = s.index /\ g'.seq = s.seq
      /\ g'.partSize = n /\ g'.macWritten = (s.macWritten \/ MacFits(s))
  BY StartState
<1>2. rest \in Nat /\ Offset(s) \in {0, 1} /\ s.index \in Nat /\ s.fullSize \in Nat
  BY DEF StateTypes, Offset
<1>3. n = Count(rest, Offset(s)) /\ n \in Nat /\ n + Offset(s) <= 7
  BY <1>2, PartSizeIs, CountIs
<1>4. CSEC_WriteCommandHeader(Header(s.cmd, s.seq, s.owner, length), content)
  BY DEF Start
<1>5. /\ \A p \in Pages : p \in written => pram'[p] = content[p]
      /\ hdr' = Header(s.cmd, s.seq, s.owner, length) /\ ccif' = FALSE
      /\ UNCHANGED <<status, chain, stray>>
  BY <1>4 DEF CSEC_WriteCommandHeader
<1>6. \A i \in 1 .. n : pram'[i + Offset(s)] = In(s.owner, s.index + i)
  <2> SUFFICES ASSUME NEW i \in 1 .. n PROVE pram'[i + Offset(s)] = In(s.owner, s.index + i)
    OBVIOUS
  <2>1. PICK p \in Int : p = i + Offset(s)
    BY <1>2, <1>3
  <2>2. p \in Pages /\ p \in written /\ ~(p > n + Offset(s)) /\ s.index + p - Offset(s) = s.index + i
    BY <1>2, <1>3, <2>1 DEF Pages, CSEC_DATA_PAGES_AVAILABLE
  <2>3. ~(FirstCbc(s) /\ p = 1)
    BY <2>1, <1>3 DEF Offset
  <2>4. content[p] = In(s.owner, s.index + p - Offset(s))
    BY <2>2, <2>3
  <2> HIDE DEF content, written
  <2> QED
    BY <1>5, <2>1, <2>2, <2>4
<1>7. Offset(s) = 1 => pram'[1] = Iv(s.owner)
  <2> SUFFICES ASSUME Offset(s) = 1 PROVE pram'[1] = Iv(s.owner)
    OBVIOUS
  <2>1. FirstCbc(s) /\ 1 \in written /\ 1 \in Pages
    BY <1>3 DEF Offset, Pages, CSEC_DATA_PAGES_AVAILABLE, MacFits
  <2> QED
    BY <1>5, <2>1
<1>8. s.cmd = "VERIFY_MAC" /\ n + 1 < CSEC_DATA_PAGES_AVAILABLE => pram'[n + 1] = Expected(s.owner)
  <2> SUFFICES ASSUME s.cmd = "VERIFY_MAC", n + 1 < CSEC_DATA_PAGES_AVAILABLE
               PROVE pram'[n + 1] = Expected(s.owner)
    OBVIOUS
  <2>1. Offset(s) = 0 /\ ~FirstCbc(s) /\ MacFits(s)
    BY DEF Offset, FirstCbc, MacFits, Cbc
  <2>2. n + 1 \in written /\ n + 1 > n + Offset(s) /\ n + 1 \in Pages
    BY <1>3, <2>1 DEF Pages, CSEC_DATA_PAGES_AVAILABLE
  <2>3. content[n + 1] = Expected(s.owner)
    BY <2>1, <2>2
  <2> HIDE DEF content, written
  <2> QED
    BY <1>5, <2>2, <2>3
<1>9. Offset(g') = Offset(s)
  BY <1>1 DEF Offset, FirstCbc
<1>10. g'.cmd = "VERIFY_MAC" => g'.macWritten = (g'.partSize + 1 < CSEC_DATA_PAGES_AVAILABLE)
  BY <1>1 DEF MacFits, StateTypes
<1>11. CASE s.cmd \in Ecb
  <2>1. Offset(s) = 0
    BY <1>11 DEF Offset, FirstCbc, Ecb, Cbc
  <2>2. EcbPart(s.owner, s.cmd, s.index, n)'
    <3> HIDE DEF n
    <3> QED
      BY <1>5, <1>6, <1>11, <2>1, <1>3 DEF EcbPart, NoChain
  <2> QED
    BY <1>1, <1>3, <1>9, <1>10, <1>11, <2>2 DEF PartInv
<1>12. CASE s.cmd \notin Ecb
  <2> QED
    BY <1>1, <1>3, <1>5, <1>6, <1>7, <1>8, <1>9, <1>10, <1>12, OffsetIs
    DEF PartInv, ChainPart, Between, Loaded, NoChain
<1> QED
  BY <1>11, <1>12

\* The engine takes the part of a chain it expects.
LEMMA ChainTaken ==
  ASSUME EngineTypes, NEW x, NEW op \in Chained, NEW k, NEW n, NEW first \in BOOLEAN,
         ChainPart(x, op, k, n, first), Engine
  PROVE ChainPart(x, op, k, n, first)'
<1>1. ~ccif /\ ccif'
  BY EngineKeeps
<1>2. /\ hdr = Header(op, IF first THEN "FIRST" ELSE "SUBSEQUENT", x, n)
      /\ Between(x, op, k, n, first) /\ Loaded(x, op, k, n, first)
  BY <1>1 DEF ChainPart
<1>3. /\ hdr.op = op /\ hdr.of = x /\ hdr.length = n
      /\ (hdr.seq = "FIRST") = first
  BY <1>2 DEF Header
<1>4. k \in Nat /\ n \in Nat /\ n - k \in Nat
  BY <1>2 DEF Between
<1>5. CASE EngineRejects \/ EngineFails
  <2>1. chain' = Closed /\ status' # "SUCCESS"
    BY <1>5, CallsAssumption DEF EngineRejects, EngineFails, Settle
  <2> QED
    BY <1>1, <2>1, ChainFields DEF ChainPart, NoChain
<1>6. CASE EngineEcb
  BY <1>3, <1>6 DEF EngineEcb, Ecb, Chained, Cbc, Mac
<1>7. CASE EngineOne
  BY <1>3, <1>7 DEF EngineOne
<1>8. CASE EngineChained
  <2> DEFINE base == IF first
                     THEN [open |-> TRUE, cmd |-> op, of |-> x, n |-> 0, left |-> n]
                     ELSE chain
             off == IF op \in Cbc /\ first THEN 1 ELSE 0
             count == Count(n - k, off)
             over == n - k = count /\ (op = "VERIFY_MAC" => count + 1 < CSEC_DATA_PAGES_AVAILABLE)
  <2>1. base = [open |-> TRUE, cmd |-> op, of |-> x, n |-> k, left |-> n - k]
    <3>1. CASE first
      <4>1. k = 0 /\ n - k = n
        BY <1>2, <1>4, <3>1 DEF Between
      <4> QED
        BY <3>1, <4>1
    <3>2. CASE ~first
      BY <1>2, <3>2 DEF Between
    <3> QED
      BY <3>1, <3>2
  <2>2. base.left = n - k /\ base.of = x /\ base.n = k
    BY <2>1
  <2>3. off \in {0, 1}
    OBVIOUS
  <2>4. Min({n - k, CSEC_DATA_PAGES_AVAILABLE - off}) = count
    BY <1>4, <2>3, MinOfTwo DEF Count, CSEC_DATA_PAGES_AVAILABLE
  <2>5. count \in Nat /\ count + off <= 7
    BY <1>4, <2>3, CountIs
  <2> DEFINE right == /\ base.of = x
                      /\ \A p \in 1 .. count : pram[p + off] = In(x, base.n + p)
                      /\ off = 1 => pram[1] = Iv(x)
                      /\ op = "VERIFY_MAC" /\ over => pram[count + 1] = Expected(x)
             result == IF op = "GENERATE_MAC" THEN 2 ELSE 1
  <2>6. right
    BY <1>2, <2>2 DEF Loaded
  <2>7. /\ pram' = [p \in Pages |->
             IF op \in Cbc
             THEN IF p \in 1 + off .. count + off
                  THEN (IF right THEN Out(x, base.n + p - off) ELSE Junk) ELSE pram[p]
             ELSE IF over /\ p = result THEN (IF right THEN Out(x, 0) ELSE Junk) ELSE pram[p]]
        /\ Settle("SUCCESS", IF over THEN Closed
                             ELSE [base EXCEPT !.n = @ + count, !.left = @ - count,
                                               !.of = IF right THEN x ELSE Nobody])
    <3> DEFINE b == IF hdr.seq = "FIRST"
                    THEN [open |-> TRUE, cmd |-> hdr.op, of |-> hdr.of, n |-> 0, left |-> hdr.length]
                    ELSE chain
               o == IF hdr.op \in Cbc /\ hdr.seq = "FIRST" THEN 1 ELSE 0
               m == Min({b.left, CSEC_DATA_PAGES_AVAILABLE - o})
               v == b.left = m /\ (hdr.op = "VERIFY_MAC" => m + 1 < CSEC_DATA_PAGES_AVAILABLE)
               r == /\ b.of = hdr.of
                    /\ \A p \in 1 .. m : pram[p + o] = In(hdr.of, b.n + p)
                    /\ o = 1 => pram[1] = Iv(hdr.of)
                    /\ hdr.op = "VERIFY_MAC" /\ v => pram[m + 1] = Expected(hdr.of)
    <3>1. /\ pram' = [p \in Pages |->
             IF hdr.op \in Cbc
             THEN IF p \in 1 + o .. m + o
                  THEN (IF r THEN Out(hdr.of, b.n + p - o) ELSE Junk) ELSE pram[p]
             ELSE IF v /\ p = (IF hdr.op = "GENERATE_MAC" THEN 2 ELSE 1)
                  THEN (IF r THEN Out(hdr.of, 0) ELSE Junk) ELSE pram[p]]
          /\ Settle("SUCCESS", IF v THEN Closed
                               ELSE [b EXCEPT !.n = @ + m, !.left = @ - m,
                                              !.of = IF r THEN hdr.of ELSE Nobody])
      BY <1>8 DEF EngineChained
    <3>2. b = base /\ o = off
      BY <1>3
    <3>3. m = count
      <4> HIDE DEF b, o, base, off, count
      <4> QED
        BY <2>2, <2>4, <3>2
    <3>4. v = over
      <4> HIDE DEF b, o, base, off, count, m
      <4> QED
        BY <1>3, <2>2, <3>2, <3>3
    <3>5. r = right
      <4> HIDE DEF b, o, base, off, count, m, v, over
      <4> QED
        BY <1>3, <3>2, <3>3, <3>4
    <3> HIDE DEF b, o, m, v, r, base, off, count, over, right
    <3> QED
      BY <1>3, <3>1, <3>2, <3>3, <3>4, <3>5
  <2>8. status' = "SUCCESS"
    BY <2>7 DEF Settle
  <2>9. over => NoChain'
    BY <2>7, ChainFields DEF Settle, NoChain
  <2>10. ~over => chain' = [open |-> TRUE, cmd |-> op, of |-> x, n |-> k + count, left |-> n - k - count]
    <3> SUFFICES ASSUME ~over
                 PROVE chain' = [open |-> TRUE, cmd |-> op, of |-> x,
                                 n |-> k + count, left |-> n - k - count]
      OBVIOUS
    <3>1. chain' = [base EXCEPT !.n = @ + count, !.left = @ - count, !.of = x]
      <4> HIDE DEF over, right, base, count
      <4> QED
        BY <2>6, <2>7 DEF Settle
    <3> HIDE DEF base, count
    <3> QED
      BY <3>1, <2>1
  <2>11. op \in Cbc => \A i \in 1 .. count : pram'[i + off] = Out(x, k + i)
    <3> SUFFICES ASSUME op \in Cbc, NEW i \in 1 .. count PROVE pram'[i + off] = Out(x, k + i)
      OBVIOUS
    <3>1. PICK p \in Int : p = i + off
      BY <2>3, <2>5
    <3>2. p \in Pages /\ p \in 1 + off .. count + off /\ base.n + p - off = k + i
      <4> HIDE DEF count, off, base
      <4> QED
        BY <1>4, <2>2, <2>3, <2>5, <3>1 DEF Pages, CSEC_DATA_PAGES_AVAILABLE
    <3>3. pram'[p] = Out(x, base.n + p - off)
      <4> HIDE DEF count, off, right, base
      <4> QED
        BY <2>6, <2>7, <3>2
    <3> QED
      BY <3>1, <3>2, <3>3
  <2>12. op \notin Cbc /\ over => pram'[result] = Out(x, 0)
    <3>1. result \in Pages
      BY DEF Pages, CSEC_DATA_PAGES_AVAILABLE
    <3> HIDE DEF over, right, result, count
    <3> QED
      BY <2>6, <2>7, <3>1
  <2>13. Taken(x, op, k, n, first)'
    BY <2>9, <2>10, <2>11, <2>12 DEF Taken, NoChain
  <2> QED
    BY <1>1, <2>8, <2>13 DEF ChainPart
<1> QED
  BY <1>5, <1>6, <1>7, <1>8 DEF Engine

\* The engine takes a part of an ECB operation.
LEMMA EcbTaken ==
  ASSUME EngineTypes, NEW x, NEW op \in Ecb, NEW k \in Nat, NEW count \in 0 .. CSEC_DATA_PAGES_AVAILABLE,
         EcbPart(x, op, k, count), Engine
  PROVE EcbPart(x, op, k, count)'
<1>1. ~ccif /\ ccif'
  BY EngineKeeps
<1>2. hdr = Header(op, "FIRST", x, count) /\ NoChain /\ \A p \in 1 .. count : pram[p] = In(x, k + p)
  BY <1>1 DEF EcbPart
<1>3. hdr.op = op /\ hdr.of = x /\ hdr.length = count
  BY <1>2 DEF Header
<1>4. CASE EngineRejects \/ EngineFails
  <2>1. chain' = Closed /\ status' # "SUCCESS"
    BY <1>4, CallsAssumption DEF EngineRejects, EngineFails, Settle
  <2> QED
    BY <1>1, <2>1, ChainFields DEF EcbPart, NoChain
<1>5. CASE EngineEcb
  <2>1. PICK c \in {chain, Closed} : Settle("SUCCESS", c)
    BY <1>5 DEF EngineEcb
  <2>2. NoChain'
    BY <1>2, <2>1, ChainFields DEF Settle, NoChain
  <2>3. \A p \in 1 .. count : pram'[p] = Out(x, k + p)
    <3> SUFFICES ASSUME NEW p \in 1 .. count PROVE pram'[p] = Out(x, k + p)
      OBVIOUS
    <3>1. p \in Pages /\ ~(p > hdr.length)
      BY <1>3 DEF Pages, CSEC_DATA_PAGES_AVAILABLE
    <3>2. pram[p][1] = x /\ pram[p][2] = "in" /\ pram[p][3] = k + p
      BY <1>2 DEF In
    <3> QED
      BY <1>3, <1>5, <3>1, <3>2 DEF EngineEcb
  <2> QED
    BY <1>1, <2>2, <2>3 DEF EcbPart
<1>6. CASE EngineOne
  BY <1>3, <1>6 DEF EngineOne
<1>7. CASE EngineChained
  BY <1>3, <1>7 DEF EngineChained, Ecb, Chained, Cbc, Mac
<1> QED
  BY <1>4, <1>5, <1>6, <1>7 DEF Engine

\* A call of one command is known by its command.
LEMMA OneByOp ==
  \A c, d \in OneCommand : c.op = d.op => c = d
BY DEF OneCommand, One, GenerateMACAddrMode, VerifyMACAddrMode, LoadKey, LoadPlainKey,
       ExportRAMKey, InitRNG, ExtendSeed, GenerateRND, BootFailure, BootOK, BootDefine, GetID,
       DbgChal, DbgAuth

\* The calls of one command use the data pages only.
LEMMA OnePages ==
  \A c \in OneCommand : c.writes \subseteq Pages /\ c.reads \subseteq Pages
BY DEF OneCommand, One, GenerateMACAddrMode, VerifyMACAddrMode, LoadKey, LoadPlainKey,
       ExportRAMKey, InitRNG, ExtendSeed, GenerateRND, BootFailure, BootOK, BootDefine, GetID,
       DbgChal, DbgAuth, Pages, CSEC_DATA_PAGES_AVAILABLE

\* The engine takes the one command of a call.
LEMMA OneTaken ==
  ASSUME EngineTypes, NEW x, req[x] \in OneCommand, OnePart(x), Engine
  PROVE OnePart(x)'
<1>1. ~ccif /\ ccif' /\ req' = req
  BY EngineKeeps DEF calls
<1>2. hdr = Header(req[x].op, "FIRST", x, 0) /\ NoChain /\ \A p \in req[x].writes : pram[p] = In(x, p)
  BY <1>1 DEF OnePart
<1>3. hdr.op = req[x].op /\ hdr.of = x /\ hdr.op \notin Ecb \cup Chained
  BY <1>2, OneCommandOps DEF Header, Driven
<1>4. CASE EngineRejects \/ EngineFails
  <2>1. chain' = Closed /\ status' # "SUCCESS"
    BY <1>4, CallsAssumption DEF EngineRejects, EngineFails, Settle
  <2> QED
    BY <1>1, <2>1, ChainFields DEF OnePart, NoChain
<1>5. CASE EngineOne
  <2>1. PICK d \in {chain, Closed} : Settle("SUCCESS", d)
    BY <1>5 DEF EngineOne
  <2>2. NoChain'
    BY <1>2, <2>1, ChainFields DEF Settle, NoChain
  <2> DEFINE c == CHOOSE c \in OneCommand : c.op = hdr.op
             right == \A q \in c.writes : pram[q] = In(hdr.of, q)
  <2>3. pram' = [p \in Pages |-> Answers(c.reads, p, right)]
    BY <1>5 DEF EngineOne
  <2>4. c = req[x]
    <3>1. c \in OneCommand /\ c.op = hdr.op
      BY <1>3
    <3> QED
      BY <1>3, <3>1, OneByOp
  <2>5. right
    BY <1>2, <1>3, <2>4
  <2>6. \A p \in req[x].reads : pram'[p] = Out(x, p)
    <3> HIDE DEF c, right
    <3> QED
      BY <1>3, <2>3, <2>4, <2>5, OnePages DEF Answers
  <2> QED
    BY <1>1, <2>2, <2>6 DEF OnePart
<1>6. CASE EngineEcb \/ EngineChained
  BY <1>3, <1>6 DEF EngineEcb, EngineChained
<1> QED
  BY <1>4, <1>5, <1>6 DEF Engine

-----------------------------------------------------------------------------
(* What engine, pages and results hold: how it is taken apart.              *)

Data == (\A x \in Contexts : ResultInv(x)) /\ AsyncInv /\ EngineInv

\* EngineInv when no context but x is in a call.
EngineOf(x) ==
  /\ g.inProgress /\ at[x] # "wait_one" => OperationInv /\ (at[x] # "breaking" => PartInv)
  /\ at[x] = "wait_one" => OnePart(x)
  /\ MPCompressInv(x)
  /\ at[x] = "cancel" /\ req[x].op = "MP_COMPRESS" => ccif
  /\ at[x] = "breaking" /\ ~ccif => hdr.of = "cancel" /\ hdr.seq = "FIRST"
  /\ ~g.inProgress /\ at[x] # "breaking" /\ ~InMPCompress(x) => ccif /\ NoChain

\* EngineInv speaks of x alone while nobody else is in a call.
LEMMA EngineOfAlone ==
  ASSUME NEW x \in Contexts, \A y \in Contexts : y # x => at[y] = "idle"
  PROVE EngineInv <=> EngineOf(x)
<1>1. \A y \in Contexts : y # x => MPCompressInv(y) /\ ~InMPCompress(y)
  BY DEF MPCompressInv, InMPCompress
<1>2. (AtOne <=> at[x] = "wait_one") /\ (AtBreaking <=> at[x] = "breaking")
  BY DEF AtOne, AtBreaking
<1> HIDE DEF AtOne, AtBreaking
<1> QED
  BY <1>1, <1>2 DEF EngineInv, EngineOf

\* Data is found again where nobody but x is in a call.
LEMMA DataAlone ==
  ASSUME NEW x \in Contexts, \A y \in Contexts : y # x => at'[y] = "idle",
         ResultInv(x)', AsyncInv', EngineOf(x)'
  PROVE Data'
<1>1. \A y \in Contexts : y # x => ResultInv(y)'
  BY DEF ResultInv
<1>2. \A y \in Contexts : y # x => MPCompressInv(y)' /\ ~InMPCompress(y)'
  BY DEF MPCompressInv, InMPCompress
<1>3. (AtOne' <=> at'[x] = "wait_one") /\ (AtBreaking' <=> at'[x] = "breaking")
  BY DEF AtOne, AtBreaking
<1>4. EngineInv'
  BY <1>2, <1>3 DEF EngineInv, EngineOf
<1> QED
  BY <1>1, <1>4 DEF Data

\* EngineInv when no context waits for the engine.
Unconcerned(x) ==
  \/ at[x] \in {"idle", "finished", "callback"}
  \/ at[x] \in {"cancel", "disabling"} /\ req[x].op = "CANCEL"
EngineFree ==
  /\ g.inProgress => OperationInv /\ PartInv
  /\ ~g.inProgress => ccif /\ NoChain

\* EngineInv speaks of csec_state_t alone while nobody waits.
LEMMA EngineInvFree ==
  ASSUME \A x \in Contexts : Unconcerned(x)
  PROVE EngineInv <=> EngineFree
<1>1. \A y \in Contexts : MPCompressInv(y) /\ ~InMPCompress(y) /\ at[y] \notin {"wait_one", "breaking"}
                          /\ ~(at[y] = "cancel" /\ req[y].op = "MP_COMPRESS")
  BY DEF MPCompressInv, InMPCompress, Unconcerned
<1>2. ~AtOne /\ ~AtBreaking
  BY <1>1 DEF AtOne, AtBreaking
<1> QED
  BY <1>1, <1>2 DEF EngineInv, EngineFree

\* Data is found again where nobody waits.
LEMMA DataFree ==
  ASSUME \A x \in Contexts : Unconcerned(x)', AsyncInv', EngineFree'
  PROVE Data'
<1>1. \A y \in Contexts : /\ MPCompressInv(y)' /\ ~InMPCompress(y)' /\ ResultInv(y)'
                          /\ at'[y] \notin {"wait_one", "breaking"}
                          /\ ~(at'[y] = "cancel" /\ req'[y].op = "MP_COMPRESS")
  BY DEF MPCompressInv, InMPCompress, ResultInv, Unconcerned
<1>2. ~AtOne' /\ ~AtBreaking'
  BY <1>1 DEF AtOne, AtBreaking
<1> QED
  BY <1>1, <1>2 DEF EngineInv, EngineFree, Data

\* What does not change.
LEMMA PartStays ==
  ASSUME UNCHANGED <<engine, g>>
  PROVE PartInv' = PartInv
BY DEF engine, PartInv, EcbPart, ChainPart, Between, Loaded, Taken, NoChain

\* csec_state_t goes on saying what its caller has asked for.
LEMMA OperationStays ==
  ASSUME OperationInv, UNCHANGED g, req'[g.owner] = req[g.owner], out'[g.owner] = out[g.owner],
         g.owner \in Contexts => at'[g.owner] \in {"wait"} \cup InCancel
  PROVE OperationInv'
BY DEF OperationInv, Offset, FirstCbc

\* A result is complete as long as call and result stay.
LEMMA CompleteStays ==
  ASSUME NEW y, req'[y] = req[y], out'[y] = out[y]
  PROVE Complete(y)' = Complete(y)
BY DEF Complete, Result

\* So is the result of the operation that goes on by itself.
LEMMA AsyncStays ==
  ASSUME AsyncInv, UNCHANGED g, req'["async"] = req["async"], out'["async"] = out["async"],
         AtOne' => AtOne
  PROVE AsyncInv'
BY CompleteStays DEF AsyncInv

\* While x takes a step of its call nobody else is in one.
LEMMA StepAlone ==
  ASSUME Always, Control, ~intruded, NEW x \in Contexts, Step(x)
  PROVE /\ Runs(x) /\ at[x] # "idle"
        /\ x = "handler" => at[x] \in {"tested_async", "arming"}
        /\ \A y \in Contexts : y # x => at[y] = "idle" /\ at'[y] = at[y]
<1>1. /\ Runs(x) /\ at[x] \notin {"idle", "finished", "callback"}
      /\ \A y \in Contexts : y # x => at'[y] = at[y]
  BY DEF Step, Launch, Wait, WaitEnds, WaitTimesOut, TimeOut, ReadMacLate, LaunchOne, FinishOne,
         MPCompress_message, MPCompress_header, MPCompress_wait, MPCompress_timeout, MPCompress_read,
         Return, LaunchAsync, Arm, CancelTest, CancelDisables, CancelBreaks, CancelEnds, GoTo,
         Always, Types, CallTypes
<1>2. \A y \in Contexts : y # x => at[y] = "idle"
  BY <1>1 DEF Always, ContextInv, Control, AloneInv, Runs, Contexts
<1>3. x = "handler" => at[x] \in {"tested_async", "arming"}
  BY <1>1 DEF Always, ContextInv
<1> QED
  BY <1>1, <1>2, <1>3

-----------------------------------------------------------------------------
(* The calls, but for those of csec_state_t.                                *)

\* Steps of a call that leave operation, engine and pages alone.
LEMMA DataMoves ==
  ASSUME Always, Control, Data, ~intruded, NEW x \in Contexts, Step(x),
         UNCHANGED <<g, req, out, stat, done, engine>>,
         \/ at[x] = "wait" /\ at'[x] = "cancel"
         \/ at[x] = "arming" /\ at'[x] = "idle"
         \/ at[x] = "disabling" /\ at'[x] = "draining"
         \/ at[x] = "cancel" /\ g.inProgress /\ at'[x] = "disabling"
         \/ at[x] = "cancel" /\ ~g.inProgress /\ req[x].op = "CANCEL" /\ at'[x] = "return_stat"
  PROVE Data'
<1>1. \A y \in Contexts : y # x => at[y] = "idle" /\ at'[y] = "idle"
  BY StepAlone
<1>2. EngineOf(x) /\ AsyncInv /\ PlaceInv(x) /\ CallInv(x)
  BY <1>1, EngineOfAlone DEF Data, Control, Always
<1>3. AsyncInv'
  BY <1>1, <1>2, AsyncStays DEF AtOne
<1>4. ResultInv(x)'
  <2>1. at'[x] = "return_stat" => req[x] = Cancel
    BY <1>2, CancelIs DEF CallInv, InCancel
  <2> QED
    BY <2>1, CancelIs DEF ResultInv, Complete
<1>5. EngineOf(x)'
  <2>1. OperationInv /\ g.inProgress => OperationInv'
    <3>1. OperationInv /\ g.inProgress => (g.owner \in Contexts => at'[g.owner] \in {"wait"} \cup InCancel)
      BY <1>1, <1>2 DEF OperationInv, InCancel, PlaceInv, Contexts
    <3> QED
      BY <3>1, OperationStays
  <2>2. g.inProgress => OperationInv' /\ PartInv'
    BY <1>2, <2>1, PartStays DEF EngineOf
  <2>3. MPCompressInv(x)'
    BY DEF MPCompressInv
  <2>4. at'[x] \notin {"wait_one", "breaking"} /\ ~(at'[x] = "cancel" /\ req'[x].op = "MP_COMPRESS")
    BY <1>2, CancelIs DEF CallInv
  <2>5. ~g.inProgress => ccif /\ NoChain
    BY <1>2, CancelIs DEF EngineOf, InMPCompress, PlaceInv
  <2>6. UNCHANGED <<ccif, chain, stray>>
    BY DEF engine
  <2> QED
    BY <2>2, <2>3, <2>4, <2>5, <2>6 DEF EngineOf, NoChain
<1> QED
  BY <1>1, <1>3, <1>4, <1>5, DataAlone

\* Nothing is in progress, and x goes on to return.
LEMMA DataReturns ==
  ASSUME Always, Control, Data, ~intruded, NEW x \in Contexts, Step(x), AsyncInv', ResultInv(x)',
         ~g'.inProgress, ccif', NoChain',
         at'[x] \in {"return", "return_stat", "timeout", "read_mac", "idle"}
  PROVE Data'
<1>1. \A y \in Contexts : y # x => at'[y] = "idle"
  BY StepAlone
<1>2. EngineOf(x)'
  BY DEF EngineOf, MPCompressInv
<1> QED
  BY <1>1, <1>2, DataAlone

\* What is known of x, which takes a step of its call.
LEMMA AloneFacts ==
  ASSUME Always, Control, Data, ~intruded, NEW x \in Contexts, Step(x)
  PROVE /\ EngineOf(x) /\ ResultInv(x) /\ AsyncInv /\ PlaceInv(x) /\ CallInv(x) /\ Types /\ x # "async"
        /\ Runs(x) /\ \A y \in Contexts : y # x => at[y] = "idle" /\ at'[y] = "idle"
BY StepAlone, EngineOfAlone DEF Data, Control, Always, Contexts

\* A call that timed out returns no success.
LEMMA DataTimeOut ==
  ASSUME Always, Control, Data, ~intruded, NEW x \in Contexts, Step(x), TimeOut(x)
  PROVE Data'
<1>1. EngineOf(x) /\ PlaceInv(x) /\ Types /\ AsyncInv
  BY AloneFacts
<1>2. g' = [g EXCEPT !.errCode = "TIMEOUT"] /\ at[x] = "timeout" /\ at'[x] = "return"
      /\ UNCHANGED <<req, out, engine>>
  BY <1>1 DEF TimeOut, GoTo, Types, CallTypes
<1>3. ~g.inProgress /\ ccif /\ NoChain
  BY <1>1, <1>2 DEF EngineOf, PlaceInv, InMPCompress
<1>4. g'.errCode = "TIMEOUT" /\ ~g'.inProgress
  BY <1>1, <1>2, <1>3, StateFields DEF Types, StateTypes, Fields
<1>5. AsyncInv' /\ ResultInv(x)'
  BY <1>2, <1>4 DEF AsyncInv, ResultInv
<1>6. ccif' /\ NoChain'
  BY <1>2, <1>3 DEF engine, NoChain
<1> QED
  BY <1>2, <1>4, <1>5, <1>6, DataReturns

\* The result of a MAC is where the call reads it.
LEMMA DataReadMacLate ==
  ASSUME Always, Control, Data, ~intruded, NEW x \in Contexts, Step(x), ReadMacLate(x)
  PROVE Data'
<1>1. EngineOf(x) /\ ResultInv(x) /\ PlaceInv(x) /\ Types /\ AsyncInv /\ x # "async" /\ x \in Callers
  BY AloneFacts DEF Callers
<1>2. at[x] = "read_mac" /\ at'[x] = "return" /\ UNCHANGED <<req, g, engine>> /\ ReadMac
  BY <1>1 DEF ReadMacLate, GoTo, Types, CallTypes
<1>3. /\ ~g.inProgress /\ ccif /\ NoChain /\ g.owner = x
      /\ g.cmd = req[x].op /\ g.cmd \in Mac /\ pram[MacPage] = Out(x, 0)
  BY <1>1, <1>2 DEF EngineOf, PlaceInv, InMPCompress, ResultInv
<1>4. 0 \in out'[x]
  BY <1>1, <1>2, <1>3 DEF ReadMac, Types, CallTypes
<1>5. Complete(x)'
  BY <1>2, <1>3, <1>4 DEF Complete, Result, Ecb, Cbc, Mac, Chained
<1>6. AsyncInv' /\ ResultInv(x)'
  BY <1>1, <1>2, <1>3, <1>5 DEF AsyncInv, ResultInv
<1>7. ccif' /\ NoChain'
  BY <1>2, <1>3 DEF engine, NoChain
<1> QED
  BY <1>2, <1>3, <1>6, <1>7, DataReturns

\* A call of one command starts with the engine ready and its pages written.
LEMMA DataLaunchOne ==
  ASSUME Always, Control, Data, ~intruded, NEW x \in Contexts, Step(x), LaunchOne(x)
  PROVE Data'
<1>1. /\ EngineOf(x) /\ PlaceInv(x) /\ CallInv(x) /\ Types /\ AsyncInv
      /\ \A y \in Contexts : y # x => at[y] = "idle" /\ at'[y] = "idle"
  BY AloneFacts
<1> DEFINE content == [p \in req[x].writes |-> In(x, p)]
<1>2. /\ at[x] = "tested_one" /\ at'[x] = "wait_one" /\ g' = [g EXCEPT !.inProgress = TRUE]
      /\ CSEC_WriteCommandHeader(Header(req[x].op, "FIRST", x, 0), content)
      /\ UNCHANGED <<req, out, stat, done>>
  BY <1>1 DEF LaunchOne, GoTo, Types, CallTypes
<1>3. ~g.inProgress /\ ccif /\ NoChain /\ req[x] \in OneCommand
  BY <1>1, <1>2 DEF EngineOf, PlaceInv, InMPCompress, CallInv
<1>4. g'.inProgress = TRUE /\ g'.owner = g.owner /\ g'.errCode = g.errCode
  BY <1>1, <1>2, StateFields DEF Types, StateTypes, Fields
<1>5. /\ ccif' = FALSE /\ hdr' = Header(req[x].op, "FIRST", x, 0) /\ NoChain'
      /\ \A p \in req[x].writes : pram'[p] = In(x, p)
  <2>1. req[x].writes \subseteq Pages /\ DOMAIN content = req[x].writes
        /\ \A p \in req[x].writes : content[p] = In(x, p)
    BY <1>3, OnePages
  <2> HIDE DEF content
  <2> QED
    BY <1>2, <1>3, <2>1 DEF CSEC_WriteCommandHeader, NoChain
<1>6. OnePart(x)'
  BY <1>2, <1>5 DEF OnePart
<1>7. EngineOf(x)'
  BY <1>2, <1>4, <1>6 DEF EngineOf, MPCompressInv
<1>8. ResultInv(x)' /\ AsyncInv'
  BY <1>1, <1>2, <1>3, <1>4, CompleteStays DEF ResultInv, AsyncInv
<1> QED
  BY <1>1, <1>7, <1>8, DataAlone

\* It ends with what it reads on the pages.
LEMMA DataFinishOne ==
  ASSUME Always, Control, Data, ~intruded, NEW x \in Contexts, Step(x), FinishOne(x)
  PROVE Data'
<1>1. EngineOf(x) /\ PlaceInv(x) /\ CallInv(x) /\ Types /\ AsyncInv /\ x # "async" /\ x \in Callers
  BY AloneFacts DEF Callers
<1>2. /\ at[x] = "wait_one" /\ at'[x] = "return_stat" /\ g' = [g EXCEPT !.inProgress = FALSE] /\ ccif
      /\ stat'[x] = status /\ UNCHANGED <<req, engine>>
      /\ out'["async"] = out["async"]
      /\ out'[x] = IF status = "SUCCESS" THEN {p \in req[x].reads : pram[p] = Out(x, p)} ELSE {}
  BY <1>1 DEF FinishOne, GoTo, Types, CallTypes
<1>3. OnePart(x) /\ req[x] \in OneCommand
  BY <1>1, <1>2 DEF EngineOf, CallInv
<1>4. g'.inProgress = FALSE /\ g'.owner = g.owner /\ g'.errCode = g.errCode
  BY <1>1, <1>2, StateFields DEF Types, StateTypes, Fields
<1>5. ccif' /\ NoChain'
  BY <1>2, <1>3 DEF OnePart, engine, NoChain
<1>6. status = "SUCCESS" => Complete(x)'
  BY <1>2, <1>3, OneCommandOps DEF OnePart, Complete, Result, Driven
<1>7. ResultInv(x)'
  BY <1>2, <1>6 DEF ResultInv
<1>8. AtOne
  BY <1>2 DEF AtOne
<1>9. AsyncInv'
  BY <1>1, <1>2, <1>4, <1>8, CompleteStays DEF AsyncInv
<1> QED
  BY <1>2, <1>4, <1>5, <1>7, <1>9, DataReturns

\* MPCompress puts the next part of its message on the pages.
LEMMA DataMPCompress_message ==
  ASSUME Always, Control, Data, ~intruded, NEW x \in Contexts, Step(x), MPCompress_message(x)
  PROVE Data'
<1>1. /\ EngineOf(x) /\ PlaceInv(x) /\ CallInv(x) /\ Types /\ AsyncInv
      /\ \A y \in Contexts : y # x => at[y] = "idle" /\ at'[y] = "idle"
  BY AloneFacts
<1> DEFINE n == req[x].n
           k == done[x]
<1>2. /\ at[x] = "mp_message" /\ at'[x] = "mp_header" /\ UNCHANGED <<g, req, out, done, ccif, chain, stray>>
  BY <1>1 DEF MPCompress_message, GoTo, Types, CallTypes
<1>3. ccif /\ Between(x, "MP_COMPRESS", k, n, k = 0) /\ ~g.inProgress /\ k <= n
  BY <1>1, <1>2 DEF EngineOf, PlaceInv, MPCompressInv
<1>4. pram' = [p \in Pages |-> IF p <= n - k THEN In(x, k + p) ELSE pram[p]]
  BY <1>3 DEF MPCompress_message
<1>5. Loaded(x, "MP_COMPRESS", k, n, k = 0)'
  <2>1. n \in Nat /\ k \in Nat /\ n - k \in Nat /\ k' = k /\ n' = n
    BY <1>2, <1>3 DEF Between
  <2>2. "MP_COMPRESS" \notin Cbc
    BY DEF Cbc
  <2>3. \A i \in 1 .. Count(n - k, 0) : i \in Pages /\ i <= n - k
    <3>1. Count(n - k, 0) \in Nat /\ Count(n - k, 0) <= n - k /\ Count(n - k, 0) <= 7
      BY <2>1, CountIs
    <3> QED
      BY <2>1, <3>1 DEF Pages, CSEC_DATA_PAGES_AVAILABLE
  <2>4. \A i \in 1 .. Count(n - k, 0) : pram'[i] = In(x, k + i)
    BY <1>4, <2>3
  <2>5. \A i \in 1 .. Count(n - k, 0) : i + 0 = i
    BY <2>3 DEF Pages, CSEC_DATA_PAGES_AVAILABLE
  <2> HIDE DEF n, k
  <2>6. \A i \in 1 .. Count(n - k, 0) : pram'[i + 0] = In(x, k + i)
    BY <2>4, <2>5
  <2> USE DEF n, k
  <2> QED
    BY <1>2, <2>2, <2>6 DEF Loaded
<1>6. Between(x, "MP_COMPRESS", k, n, k = 0)'
  BY <1>2, <1>3 DEF Between, NoChain
<1>7. EngineOf(x)'
  BY <1>2, <1>3, <1>5, <1>6 DEF EngineOf, MPCompressInv, InMPCompress
<1>8. ResultInv(x)' /\ AsyncInv'
  BY <1>1, <1>2, AsyncStays DEF ResultInv, AtOne
<1> QED
  BY <1>1, <1>7, <1>8, DataAlone

\* It starts the engine on that part.
LEMMA DataMPCompress_header ==
  ASSUME Always, Control, Data, ~intruded, NEW x \in Contexts, Step(x), MPCompress_header(x)
  PROVE Data'
<1>1. /\ EngineOf(x) /\ PlaceInv(x) /\ CallInv(x) /\ Types /\ AsyncInv
      /\ \A y \in Contexts : y # x => at[y] = "idle" /\ at'[y] = "idle"
  BY AloneFacts
<1> DEFINE n == req[x].n
           k == done[x]
           h == Header("MP_COMPRESS", IF done[x] = 0 THEN "FIRST" ELSE "SUBSEQUENT", x, req[x].n)
<1>2. /\ at[x] = "mp_header" /\ at'[x] = "mp_wait" /\ UNCHANGED <<g, req, out, done>>
      /\ CSEC_WriteCommandHeader(h, <<>>)
  BY <1>1 DEF MPCompress_header, GoTo, Types, CallTypes
<1>3. /\ ccif /\ ~g.inProgress /\ k <= n /\ Between(x, "MP_COMPRESS", k, n, k = 0)
      /\ Loaded(x, "MP_COMPRESS", k, n, k = 0)
  BY <1>1, <1>2 DEF EngineOf, PlaceInv, MPCompressInv
<1>4. /\ hdr' = h /\ ccif' = FALSE /\ UNCHANGED <<chain, stray>>
      /\ \A p \in Pages : pram'[p] = pram[p]
  <2> DEFINE content == <<>>
  <2>1. DOMAIN content = {} /\ CSEC_WriteCommandHeader(h, content)
    BY <1>2
  <2> HIDE DEF content, h
  <2>2. /\ pram' = [p \in Pages |-> IF p \in DOMAIN content THEN content[p] ELSE pram[p]]
        /\ hdr' = h /\ ccif' = FALSE /\ UNCHANGED <<status, chain, stray>>
    BY <1>3, <2>1 DEF CSEC_WriteCommandHeader
  <2> QED
    BY <2>1, <2>2
<1>5. Loaded(x, "MP_COMPRESS", k, n, k = 0)'
  <2>1. n \in Nat /\ k \in Nat /\ n - k \in Nat /\ k' = k /\ n' = n
    BY <1>2, <1>3 DEF Between
  <2>2. "MP_COMPRESS" \notin Cbc
    BY DEF Cbc
  <2>3. \A i \in 1 .. Count(n - k, 0) : i + 0 \in Pages
    <3>1. Count(n - k, 0) \in Nat /\ Count(n - k, 0) <= 7
      BY <2>1, CountIs
    <3> QED
      BY <3>1 DEF Pages, CSEC_DATA_PAGES_AVAILABLE
  <2>4. \A i \in 1 .. Count(n - k, 0) : pram[i + 0] = In(x, k + i)
    BY <1>3, <2>2 DEF Loaded
  <2>5. \A i \in 1 .. Count(n - k, 0) : pram'[i + 0] = In(x, k + i)
    BY <1>4, <2>3, <2>4
  <2> QED
    BY <1>2, <2>2, <2>5 DEF Loaded
<1>6. ChainPart(x, "MP_COMPRESS", k, n, k = 0)'
  BY <1>2, <1>3, <1>4, <1>5 DEF ChainPart, Between, NoChain
<1>7. EngineOf(x)'
  BY <1>2, <1>3, <1>6 DEF EngineOf, MPCompressInv, InMPCompress
<1>8. ResultInv(x)' /\ AsyncInv'
  BY <1>1, <1>2, AsyncStays DEF ResultInv, AtOne
<1> QED
  BY <1>1, <1>7, <1>8, DataAlone

\* It goes on behind the part the engine has taken, or to the result.
LEMMA DataMPCompress_wait ==
  ASSUME Always, Control, Data, ~intruded, NEW x \in Contexts, Step(x), MPCompress_wait(x)
  PROVE Data'
<1>1. /\ EngineOf(x) /\ PlaceInv(x) /\ CallInv(x) /\ Types /\ AsyncInv
      /\ \A y \in Contexts : y # x => at[y] = "idle" /\ at'[y] = "idle"
  BY AloneFacts
<1>2. PICK n : n = req[x].n
  OBVIOUS
<1>3. PICK k : k = done[x]
  OBVIOUS
<1>4. PICK count : count = Count(n - k, 0)
  OBVIOUS
<1>5. n \in Nat /\ k \in Nat /\ k <= n /\ n - k \in Nat
  BY <1>1, <1>2, <1>3 DEF MPCompress_wait, EngineOf, MPCompressInv, CallInv, Types, CallTypes
<1>6. count \in Nat /\ count <= n - k /\ count <= 7
  BY <1>4, <1>5, CountIs
<1>7. Min({n, k + CSEC_DATA_PAGES_AVAILABLE}) = k + count
  BY <1>4, <1>5, MinOfTwo DEF Count, CSEC_DATA_PAGES_AVAILABLE
<1>8. /\ at[x] = "mp_wait" /\ ccif /\ UNCHANGED <<g, req, out, engine>> /\ stat'[x] = status
      /\ status # "SUCCESS" => at'[x] = "return_stat"
      /\ status = "SUCCESS" => /\ done'[x] = k + count
                               /\ at'[x] = IF k + count < n THEN "mp_message" ELSE "mp_read"
  BY <1>1, <1>2, <1>3, <1>7 DEF MPCompress_wait, GoTo, Types, CallTypes
<1>9. ChainPart(x, "MP_COMPRESS", k, n, k = 0) /\ ~g.inProgress
  BY <1>1, <1>2, <1>3, <1>8 DEF EngineOf, PlaceInv, MPCompressInv
<1>10. AsyncInv'
  BY <1>1, <1>8, AsyncStays DEF AtOne
<1>11. CASE status # "SUCCESS"
  <2>1. ccif' /\ NoChain'
    BY <1>8, <1>9, <1>11 DEF ChainPart, engine, NoChain
  <2>2. ResultInv(x)'
    BY <1>8, <1>11 DEF ResultInv
  <2> QED
    BY <1>8, <1>9, <1>10, <1>11, <2>1, <2>2, DataReturns
<1>12. CASE status = "SUCCESS"
  <2>1. "MP_COMPRESS" \notin Cbc /\ "MP_COMPRESS" # "VERIFY_MAC"
    BY DEF Cbc
  <2>2. Taken(x, "MP_COMPRESS", k, n, k = 0)
    BY <1>8, <1>9, <1>12 DEF ChainPart
  <2>3. /\ n - k = count => NoChain /\ pram[1] = Out(x, 0)
        /\ n - k # count => chain = [open |-> TRUE, cmd |-> "MP_COMPRESS", of |-> x,
                                     n |-> k + count, left |-> n - k - count]
    BY <1>4, <2>1, <2>2 DEF Taken
  <2>4. ccif' /\ UNCHANGED <<pram, chain, stray>>
    BY <1>8 DEF engine
  <2>5. CASE k + count < n
    <3>1. n - k # count /\ k + count # 0 /\ n - (k + count) = n - k - count
      BY <1>4, <1>5, <1>6, <2>5 DEF Count, CSEC_DATA_PAGES_AVAILABLE
    <3>2. chain' = [open |-> TRUE, cmd |-> "MP_COMPRESS", of |-> x,
                    n |-> k + count, left |-> n - (k + count)]
      BY <2>3, <2>4, <3>1
    <3>3. at'[x] = "mp_message" /\ done'[x] = k + count /\ req'[x].n = n
      BY <1>2, <1>8, <1>12, <2>5
    <3>4. MPCompressInv(x)'
      BY <1>5, <1>6, <2>4, <2>5, <3>1, <3>2, <3>3 DEF MPCompressInv, Between
    <3>5. EngineOf(x)' /\ ResultInv(x)'
      BY <1>8, <1>9, <3>3, <3>4 DEF EngineOf, ResultInv, InMPCompress
    <3> QED
      BY <1>1, <1>10, <3>5, DataAlone
  <2>6. CASE ~(k + count < n)
    <3>1. n - k = count
      BY <1>5, <1>6, <2>6
    <3>2. at'[x] = "mp_read" /\ NoChain' /\ pram'[1] = Out(x, 0)
      BY <1>8, <1>12, <2>3, <2>4, <2>6, <3>1 DEF NoChain
    <3>3. EngineOf(x)' /\ ResultInv(x)'
      BY <1>8, <1>9, <2>4, <3>2 DEF EngineOf, ResultInv, MPCompressInv
    <3> QED
      BY <1>1, <1>10, <3>3, DataAlone
  <2> QED
    BY <2>5, <2>6
<1> QED
  BY <1>11, <1>12

\* It gives the chain up, and leaves it.
LEMMA DataMPCompress_timeout ==
  ASSUME Always, Control, Data, ~intruded, NEW x \in Contexts, Step(x), MPCompress_timeout(x)
  PROVE Data'
<1>1. /\ EngineOf(x) /\ PlaceInv(x) /\ CallInv(x) /\ Types /\ AsyncInv
      /\ \A y \in Contexts : y # x => at[y] = "idle" /\ at'[y] = "idle"
  BY AloneFacts
<1>2. /\ at[x] = "mp_wait" /\ at'[x] = "cancel" /\ ccif /\ UNCHANGED <<g, req, out, engine>>
  BY <1>1 DEF MPCompress_timeout, GoTo, Types, CallTypes
<1>3. ~g.inProgress /\ req[x].op = "MP_COMPRESS"
  BY <1>1, <1>2 DEF PlaceInv, CallInv
<1>4. EngineOf(x)' /\ ResultInv(x)' /\ AsyncInv'
  BY <1>1, <1>2, <1>3, AsyncStays
  DEF EngineOf, ResultInv, MPCompressInv, InMPCompress, engine, AtOne
<1> QED
  BY <1>1, <1>4, DataAlone

\* The compressed message is on page 1.
LEMMA DataMPCompress_read ==
  ASSUME Always, Control, Data, ~intruded, NEW x \in Contexts, Step(x), MPCompress_read(x)
  PROVE Data'
<1>1. EngineOf(x) /\ PlaceInv(x) /\ CallInv(x) /\ Types /\ AsyncInv /\ x # "async" /\ x \in Callers
      /\ \A y \in Contexts : y # x => at'[y] = "idle"
  BY AloneFacts DEF Callers
<1>2. /\ at[x] = "mp_read" /\ at'[x] = "return_stat" /\ UNCHANGED <<g, req, engine>>
      /\ out' = [out EXCEPT ![x] = IF pram[1] = Out(x, 0) THEN {0} ELSE {}]
  BY <1>1 DEF MPCompress_read, GoTo, Types, CallTypes
<1>3. ~g.inProgress /\ req[x].op = "MP_COMPRESS" /\ ccif /\ NoChain /\ pram[1] = Out(x, 0)
  BY <1>1, <1>2 DEF EngineOf, PlaceInv, CallInv, MPCompressInv
<1>4. Complete(x)'
  BY <1>1, <1>2, <1>3 DEF Complete, Result, Ecb, Cbc, Chained, Types, CallTypes
<1>5. out'["async"] = out["async"]
  BY <1>1, <1>2 DEF Types, CallTypes, Callers
<1>6. ResultInv(x)' /\ AsyncInv'
  BY <1>1, <1>2, <1>4, <1>5, AsyncStays DEF ResultInv, AtOne
<1>7. ccif' /\ NoChain'
  BY <1>2, <1>3 DEF engine, NoChain
<1> QED
  BY <1>2, <1>3, <1>6, <1>7, DataReturns

\* A call that is over leaves nothing behind that the next one could take for its own.
LEMMA DataReturn ==
  ASSUME Always, Control, Data, ~intruded, NEW x \in Contexts, Step(x), Return(x)
  PROVE Data'
<1>1. EngineOf(x) /\ PlaceInv(x) /\ CallInv(x) /\ Types /\ AsyncInv /\ x # "async" /\ x \in Callers
      /\ \A y \in Contexts : y # x => at'[y] = "idle"
  BY AloneFacts DEF Callers
<1>2. /\ at[x] \in {"return", "return_stat"} /\ at'[x] = "idle" /\ Forget(x)
      /\ req' = [req EXCEPT ![x] = NoCall] /\ out' = [out EXCEPT ![x] = {}]
      /\ g' = g /\ stray' = stray
  BY <1>1 DEF Return, GoTo, Types, CallTypes, EngineTypes
<1>3. ~g.inProgress /\ ccif /\ NoChain
  BY <1>1, <1>2 DEF EngineOf, PlaceInv, InMPCompress
<1>4. ccif' /\ NoChain'
  BY <1>1, <1>2, <1>3, ChainFields DEF Forget, NoChain, Types, EngineTypes
<1>5. ResultInv(x)' /\ AsyncInv'
  <2>1. out'["async"] = out["async"] /\ req'["async"] = req["async"]
    BY <1>1, <1>2 DEF Types, CallTypes, Callers
  <2> QED
    BY <1>1, <1>2, <2>1, AsyncStays DEF ResultInv, AtOne
<1> QED
  BY <1>2, <1>3, <1>4, <1>5, DataReturns

-----------------------------------------------------------------------------
(* Launching an operation, and reading a part of it.                        *)

\* An operation launched on a ready engine that owes nothing.
LEMMA LaunchPart ==
  ASSUME Always, NEW x \in Contexts, NEW y \in Callers, Start(InitState(y, req[x])), ccif, NoChain,
         req[x].op \in Driven, req'[y] = req[x],
         y \in Contexts => at'[y] \in {"wait"} \cup InCancel
  PROVE OperationInv' /\ PartInv'
<1>1. PICK s : s = InitState(y, req[x])
  OBVIOUS
<1>2. /\ StateTypes(s) /\ s.inProgress = TRUE /\ s.owner = y /\ s.cmd = req[x].op
      /\ s.fullSize = req[x].n /\ s.index = 0 /\ s.seq = "FIRST"
      /\ s.cmd = "VERIFY_MAC" => s.macWritten = FALSE
      /\ EngineTypes /\ req[x].n \in Nat
  <2>1. StateTypes(g) /\ EngineTypes /\ req[x].n \in Nat
    BY DEF Always, Types, CallInv
  <2>2. /\ StateTypes(s) /\ s.inProgress /\ s.owner = y /\ s.cmd = req[x].op
        /\ s.fullSize = req[x].n /\ s.index = 0 /\ s.seq = "FIRST"
        /\ req[x].op = "VERIFY_MAC" => s.macWritten = FALSE
    BY <1>1, <2>1, InitStateTypes
  <2> QED
    BY <2>1, <2>2 DEF StateTypes
<1>3. Start(s)
  BY <1>1
<1>4. /\ g'.owner = y /\ g'.cmd = req[x].op /\ g'.fullSize = req[x].n
      /\ g'.index = 0 /\ g'.seq = "FIRST"
  BY <1>2, <1>3, StartState
<1>5. Between(s.owner, s.cmd, s.index, s.fullSize, s.seq = "FIRST")
  BY <1>2 DEF Between
<1>6. /\ PartInv'
      /\ g'.partSize = Count(g'.fullSize - g'.index, Offset(g'))
      /\ g'.cmd = "VERIFY_MAC" => g'.macWritten = (g'.partSize + 1 < CSEC_DATA_PAGES_AVAILABLE)
  <2>1. s.cmd \in Driven /\ s.index <= s.fullSize /\ s.seq \in {"FIRST", "SUBSEQUENT"}
    BY <1>2
  <2> QED
    BY <1>2, <1>3, <1>5, <2>1, StartPart
<1>7. OperationInv'
  BY <1>2, <1>4, <1>6 DEF OperationInv, Offset, FirstCbc
<1> QED
  BY <1>6, <1>7

\* An operation that is waited for begins.
LEMMA DataLaunch ==
  ASSUME Always, Control, Data, ~intruded, NEW x \in Contexts, Step(x), Launch(x)
  PROVE Data'
<1>1. /\ EngineOf(x) /\ PlaceInv(x) /\ CallInv(x) /\ Types /\ AsyncInv /\ x \in Callers /\ x # "async"
      /\ \A y \in Contexts : y # x => at[y] = "idle" /\ at'[y] = "idle"
  BY AloneFacts DEF Callers
<1>2. /\ at[x] = "tested" /\ at'[x] = "wait" /\ Start(InitState(x, req[x])) /\ UNCHANGED <<req, out>>
  BY <1>1 DEF Launch, GoTo, Types, CallTypes
<1>3. ~g.inProgress /\ ccif /\ NoChain /\ req[x].op \in Driven
  BY <1>1, <1>2 DEF EngineOf, PlaceInv, InMPCompress, CallInv
<1>4. OperationInv' /\ PartInv'
  BY <1>1, <1>2, <1>3, LaunchPart
<1>5. g'.inProgress = TRUE /\ g'.owner = x
  BY <1>1, <1>2, LaunchState
<1>6. EngineOf(x)' /\ ResultInv(x)' /\ AsyncInv'
  BY <1>1, <1>2, <1>4, <1>5 DEF EngineOf, MPCompressInv, ResultInv, AsyncInv
<1> QED
  BY <1>1, <1>6, DataAlone

\* An operation that goes on by itself begins.
LEMMA DataLaunchAsync ==
  ASSUME Always, Control, Data, ~intruded, NEW x \in Contexts, Step(x), LaunchAsync(x)
  PROVE Data'
<1>1. /\ EngineOf(x) /\ PlaceInv(x) /\ CallInv(x) /\ Types /\ AsyncInv /\ x \in Callers /\ x # "async"
      /\ \A y \in Contexts : y # x => at[y] = "idle" /\ at'[y] = "idle"
  BY AloneFacts DEF Callers
<1>2. /\ at[x] = "tested_async" /\ at'[x] = "arming" /\ Start(InitState("async", req[x]))
      /\ req'["async"] = req[x] /\ "async" \in Callers /\ "async" \notin Contexts
  BY <1>1 DEF LaunchAsync, GoTo, Types, CallTypes, Callers, Contexts
<1>3. ~g.inProgress /\ ccif /\ NoChain /\ req[x].op \in Driven
  BY <1>1, <1>2 DEF EngineOf, PlaceInv, InMPCompress, CallInv
<1>4. OperationInv' /\ PartInv'
  BY <1>2, <1>3, LaunchPart
<1>5. g'.inProgress = TRUE /\ g'.owner = "async"
  BY <1>2, LaunchState
<1>6. ~AtOne'
  BY <1>1, <1>2 DEF AtOne
<1>7. EngineOf(x)' /\ ResultInv(x)' /\ AsyncInv'
  BY <1>1, <1>2, <1>4, <1>5, <1>6 DEF EngineOf, MPCompressInv, ResultInv, AsyncInv
<1> QED
  BY <1>1, <1>7, DataAlone

\* The engine has ended a chain just when the driver finds the part to be the last one.
LEMMA LastIsOver ==
  ASSUME StateTypes(g), OperationInv, g.cmd \notin Ecb
  PROVE LET off == IF g.cmd \in Cbc /\ g.seq = "FIRST" THEN 1 ELSE 0
            count == Count(g.fullSize - g.index, off)
        IN /\ g.partSize = count /\ Offset(g) = off /\ off \in {0, 1}
           /\ count \in Nat /\ count <= g.fullSize - g.index
           /\ LastPart(Advanced) <=>
                g.fullSize - g.index = count /\ (g.cmd = "VERIFY_MAC" => count + 1 < CSEC_DATA_PAGES_AVAILABLE)
<1> DEFINE off == IF g.cmd \in Cbc /\ g.seq = "FIRST" THEN 1 ELSE 0
           count == Count(g.fullSize - g.index, off)
<1>1. g.partSize = count /\ Offset(g) = off /\ off \in {0, 1}
  BY OffsetIs DEF OperationInv
<1>2. g.fullSize - g.index \in Nat /\ g.fullSize \in Nat /\ g.index \in Nat
  BY DEF OperationInv, StateTypes
<1>3. count \in Nat /\ count <= g.fullSize - g.index /\ (count < 6 => count = g.fullSize - g.index)
  BY <1>1, <1>2, CountIs
<1>4. LastPart(Advanced) <=> IF g.cmd = "VERIFY_MAC" THEN g.macWritten ELSE g.index + g.partSize >= g.fullSize
  BY AdvancedTypes DEF LastPart
<1>5. g.cmd = "VERIFY_MAC" => g.macWritten = (count + 1 < CSEC_DATA_PAGES_AVAILABLE)
  BY <1>1 DEF OperationInv
<1> HIDE DEF off, count
<1>6. LastPart(Advanced) <=>
        g.fullSize - g.index = count /\ (g.cmd = "VERIFY_MAC" => count + 1 < CSEC_DATA_PAGES_AVAILABLE)
  <2>1. CASE g.cmd = "VERIFY_MAC"
    <3> DEFINE fits == count + 1 < CSEC_DATA_PAGES_AVAILABLE
    <3>1. fits => count = g.fullSize - g.index
      BY <1>3 DEF CSEC_DATA_PAGES_AVAILABLE
    <3>2. g.macWritten = fits
      BY <1>5, <2>1
    <3> HIDE DEF fits
    <3>3. LastPart(Advanced) <=> fits
      BY <1>4, <2>1, <3>2, Zenon
    <3> USE DEF fits
    <3> QED
      BY <2>1, <3>1, <3>3
  <2>2. CASE g.cmd # "VERIFY_MAC"
    <3>1. LastPart(Advanced) <=> g.index + count >= g.fullSize
      BY <1>1, <1>4, <2>2
    <3> QED
      BY <1>2, <1>3, <2>2, <3>1
  <2> QED
    BY <2>1, <2>2
<1> USE DEF off, count
<1> QED
  BY <1>1, <1>3, <1>6

\* The results of a part of ECB or CBC are added to those before it.
LEMMA PartRead ==
  ASSUME Types, OperationInv, PartInv, ccif, status = "SUCCESS", g.cmd \in Ecb \cup Cbc,
         CSEC_ReadCommandBytes(g.owner, Offset(g), g.partSize, g.index)
  PROVE 1 .. g.index + g.partSize \subseteq out'[g.owner]
<1>1. PICK k \in Nat : k = g.index
  BY DEF Types, StateTypes
<1>2. PICK m \in 0 .. 7 : m = g.partSize
  BY DEF Types, StateTypes, CSEC_DATA_PAGES_AVAILABLE
<1>3. PICK off \in {0, 1} : off = Offset(g)
  BY DEF Offset
<1>4. \A i \in 1 .. m : pram[i + off] = Out(g.owner, k + i)
  <2>1. CASE g.cmd \in Ecb
    <3>1. off = 0
      BY <1>3, <2>1 DEF Offset, FirstCbc, Ecb, Cbc
    <3>2. \A i \in 1 .. m : pram[i] = Out(g.owner, k + i)
      BY <1>1, <1>2, <2>1 DEF PartInv, EcbPart
    <3> QED
      BY <3>1, <3>2
  <2>2. CASE g.cmd \in Cbc
    <3>1. g.cmd \notin Ecb
      BY <2>2 DEF Ecb, Cbc
    <3>2. Taken(g.owner, g.cmd, g.index, g.fullSize, g.seq = "FIRST")
      BY <3>1 DEF PartInv, ChainPart
    <3>3. g.partSize = Count(g.fullSize - g.index, Offset(g))
      BY DEF OperationInv
    <3> QED
      BY <1>1, <1>2, <1>3, <2>2, <3>2, <3>3, OffsetIs DEF Taken
  <2> QED
    BY <2>1, <2>2
<1>5. out' = [out EXCEPT ![g.owner] = @ \cup {i \in k + 1 .. k + m : pram[off + i - k] = Out(g.owner, i)}]
  BY <1>1, <1>2, <1>3 DEF CSEC_ReadCommandBytes
<1>6. \A i \in k + 1 .. k + m : pram[off + i - k] = Out(g.owner, i)
  <2> SUFFICES ASSUME NEW i \in k + 1 .. k + m PROVE pram[off + i - k] = Out(g.owner, i)
    OBVIOUS
  <2>1. i - k \in 1 .. m /\ (i - k) + off = off + i - k /\ k + (i - k) = i
    OBVIOUS
  <2> QED
    BY <1>4, <2>1
<1>7. out'[g.owner] = out[g.owner] \cup (k + 1 .. k + m)
  BY <1>5, <1>6 DEF Types, CallTypes, OperationInv
<1>8. 1 .. k \subseteq out[g.owner]
  BY <1>1 DEF OperationInv
<1> QED
  BY <1>1, <1>2, <1>7, <1>8

-----------------------------------------------------------------------------
(* The last part, the next part, and the wait for them.                     *)

\* A MAC operation that is over has its result where ReadMac looks for it.
LEMMA LastPartTaken ==
  ASSUME Types, OperationInv, PartInv, ccif, status = "SUCCESS", LastPart(Advanced)
  PROVE NoChain /\ (g.cmd \in Mac => pram[MacPage] = Out(g.owner, 0))
<1>1. CASE g.cmd \in Ecb
  BY <1>1 DEF PartInv, EcbPart, Ecb, Mac
<1>2. CASE g.cmd \notin Ecb
  <2>1. Taken(g.owner, g.cmd, g.index, g.fullSize, g.seq = "FIRST")
    BY <1>2 DEF PartInv, ChainPart
  <2> DEFINE off == IF g.cmd \in Cbc /\ g.seq = "FIRST" THEN 1 ELSE 0
             count == Count(g.fullSize - g.index, off)
             over == /\ g.fullSize - g.index = count
                     /\ (g.cmd = "VERIFY_MAC" => count + 1 < CSEC_DATA_PAGES_AVAILABLE)
  <2>2. over
    BY <1>2, LastIsOver DEF Types
  <2>3. /\ over => NoChain
        /\ g.cmd \notin Cbc /\ over => pram[IF g.cmd = "GENERATE_MAC" THEN 2 ELSE 1] = Out(g.owner, 0)
    BY <2>1 DEF Taken
  <2> HIDE DEF over
  <2> QED
    BY <2>2, <2>3 DEF MacPage, Mac, Cbc
<1> QED
  BY <1>1, <1>2

\* A part that is not the last one leaves the chain for the next.
LEMMA NextPartBetween ==
  ASSUME Types, OperationInv, PartInv, ccif, status = "SUCCESS", ~LastPart(Advanced), g.cmd \notin Ecb
  PROVE /\ Between(g.owner, g.cmd, g.index + g.partSize, g.fullSize, FALSE)
        /\ g.cmd = "VERIFY_MAC" => g.macWritten = FALSE
<1>1. Taken(g.owner, g.cmd, g.index, g.fullSize, g.seq = "FIRST")
  BY DEF PartInv, ChainPart
<1> DEFINE off == IF g.cmd \in Cbc /\ g.seq = "FIRST" THEN 1 ELSE 0
           count == Count(g.fullSize - g.index, off)
           over == /\ g.fullSize - g.index = count
                   /\ (g.cmd = "VERIFY_MAC" => count + 1 < CSEC_DATA_PAGES_AVAILABLE)
<1>2. ~over /\ g.partSize = count /\ count \in Nat /\ count <= g.fullSize - g.index
  BY LastIsOver DEF Types
<1>3. ~over => chain = [open |-> TRUE, cmd |-> g.cmd, of |-> g.owner,
                        n |-> g.index + count, left |-> g.fullSize - g.index - count]
  BY <1>1 DEF Taken
<1>4. g.cmd = "VERIFY_MAC" => g.macWritten = FALSE
  BY AdvancedTypes DEF LastPart, Types, StateTypes
<1> HIDE DEF over, count
<1>5. g.index \in Nat /\ g.fullSize \in Nat
  BY DEF Types, StateTypes
<1>6. g.fullSize - g.index - count = g.fullSize - (g.index + count)
  BY <1>2, <1>5
<1>7. chain = [open |-> TRUE, cmd |-> g.cmd, of |-> g.owner,
               n |-> g.index + count, left |-> g.fullSize - (g.index + count)]
  BY <1>2, <1>3, <1>6
<1>8. Between(g.owner, g.cmd, g.index + count, g.fullSize, FALSE)
  BY <1>2, <1>5, <1>7 DEF Between
<1> QED
  BY <1>2, <1>4, <1>8

\* An error ends the operation, and the chain of the engine with it.
LEMMA ContinueFails ==
  ASSUME Types, OperationInv, PartInv, ccif, Continue, status # "SUCCESS"
  PROVE /\ g'.inProgress = FALSE /\ g'.errCode # "SUCCESS" /\ g'.owner = g.owner
        /\ NoChain' /\ ccif' /\ UNCHANGED <<out, engine>>
<1>1. g' = Failed /\ UNCHANGED <<out, engine>>
  BY DEF Continue
<1>2. NoChain
  BY DEF PartInv, EcbPart, ChainPart
<1> QED
  BY <1>1, <1>2, FailedTypes DEF Types, engine, NoChain

\* The last part ends the operation with all of its result.
LEMMA ContinueEnds ==
  ASSUME Types, OperationInv, PartInv, ccif, Continue, status = "SUCCESS", LastPart(Advanced)
  PROVE /\ g'.inProgress = FALSE /\ g'.owner = g.owner /\ g'.cmd = g.cmd
        /\ NoChain' /\ ccif' /\ UNCHANGED engine
        /\ g.cmd \notin Mac => Result(req[g.owner]) \subseteq out'[g.owner]
<1>1. g' = [Advanced EXCEPT !.inProgress = FALSE] /\ UNCHANGED engine
  BY DEF Continue
<1>2. g'.inProgress = FALSE /\ g'.owner = g.owner /\ g'.cmd = g.cmd
  BY <1>1, AdvancedTypes, OverTypes DEF Types
<1>3. NoChain' /\ ccif'
  BY <1>1, LastPartTaken DEF engine, NoChain
<1>4. ASSUME g.cmd \notin Mac PROVE Result(req[g.owner]) \subseteq out'[g.owner]
  <2>1. g.cmd \in Ecb \cup Cbc /\ g.cmd # "VERIFY_MAC" /\ req[g.owner].op = g.cmd /\ req[g.owner].n = g.fullSize
    BY <1>4 DEF OperationInv, Driven, Mac
  <2>2. 1 .. g.index + g.partSize \subseteq out'[g.owner]
    BY <1>4, <2>1, PartRead DEF Continue
  <2>3. g.index + g.partSize >= g.fullSize
    BY <2>1, AdvancedTypes DEF LastPart, Types
  <2>4. 1 .. g.fullSize \subseteq out'[g.owner]
    BY <2>2, <2>3 DEF Types, StateTypes, CSEC_DATA_PAGES_AVAILABLE
  <2> QED
    BY <2>1, <2>4 DEF Result
<1> QED
  BY <1>1, <1>2, <1>3, <1>4

\* Any other part is followed by the next, which the engine expects.
LEMMA ContinueGoesOn ==
  ASSUME Types, OperationInv, PartInv, ccif, Continue, status = "SUCCESS", ~LastPart(Advanced),
         UNCHANGED req, g.owner \in Contexts => at'[g.owner] \in {"wait"} \cup InCancel
  PROVE g'.inProgress = g.inProgress /\ OperationInv' /\ PartInv'
<1>1. Start(Advanced)
  BY DEF Continue
<1>2. PICK s : s = Advanced
  OBVIOUS
<1>3. StateTypes(g) /\ EngineTypes
  BY DEF Types
<1>4. /\ StateTypes(s) /\ s.inProgress = g.inProgress /\ s.owner = g.owner /\ s.cmd = g.cmd
      /\ s.fullSize = g.fullSize /\ s.index = g.index + g.partSize
      /\ s.seq = (IF g.cmd \in Ecb THEN g.seq ELSE "SUBSEQUENT") /\ s.macWritten = g.macWritten
  BY <1>2, <1>3, AdvancedTypes
<1>5. Start(s)
  BY <1>1, <1>2
<1>6. /\ g'.inProgress = s.inProgress /\ g'.owner = s.owner /\ g'.cmd = s.cmd
      /\ g'.fullSize = s.fullSize /\ g'.index = s.index /\ g'.seq = s.seq
  BY <1>4, <1>5, StartState
<1>7. g.partSize = Count(g.fullSize - g.index, Offset(g)) /\ Offset(g) \in {0, 1}
  BY DEF OperationInv, Offset
<1>8. s.index <= s.fullSize
  <2>1. g.fullSize - g.index \in Nat
    BY DEF OperationInv, Types, StateTypes
  <2>2. g.partSize <= g.fullSize - g.index /\ g.partSize \in Nat
    BY <1>7, <2>1, CountIs
  <2> QED
    BY <1>4, <2>2 DEF Types, StateTypes
<1>9. /\ s.cmd \in Driven /\ s.seq \in {"FIRST", "SUBSEQUENT"}
      /\ s.cmd \in Ecb => s.seq = "FIRST" /\ NoChain
  BY <1>4 DEF OperationInv, PartInv, EcbPart
<1>10. s.cmd \notin Ecb => Between(s.owner, s.cmd, s.index, s.fullSize, s.seq = "FIRST")
  <2> SUFFICES ASSUME s.cmd \notin Ecb
               PROVE Between(s.owner, s.cmd, s.index, s.fullSize, s.seq = "FIRST")
    OBVIOUS
  <2>1. (s.seq = "FIRST") = FALSE
    BY <1>4
  <2> QED
    BY <1>4, <2>1, NextPartBetween
<1>11. s.cmd = "VERIFY_MAC" => s.macWritten = FALSE
  BY <1>4, NextPartBetween DEF Ecb
<1>12. /\ PartInv'
       /\ g'.partSize = Count(g'.fullSize - g'.index, Offset(g'))
       /\ g'.cmd = "VERIFY_MAC" => g'.macWritten = (g'.partSize + 1 < CSEC_DATA_PAGES_AVAILABLE)
  BY <1>3, <1>4, <1>5, <1>8, <1>9, <1>10, <1>11, StartPart
<1>13. g.cmd \in Ecb \cup Cbc => 1 .. g'.index \subseteq out'[g'.owner]
  <2> SUFFICES ASSUME g.cmd \in Ecb \cup Cbc PROVE 1 .. g'.index \subseteq out'[g'.owner]
    OBVIOUS
  <2>1. g.cmd \notin Mac
    BY DEF Ecb, Cbc, Mac
  <2>2. 1 .. g.index + g.partSize \subseteq out'[g.owner]
    BY <2>1, PartRead DEF Continue
  <2> QED
    BY <1>4, <1>6, <2>2
<1>14. OperationInv'
  <2> HIDE DEF Continue
  <2> QED
    BY <1>4, <1>6, <1>8, <1>9, <1>12, <1>13 DEF OperationInv
<1> QED
  BY <1>4, <1>6, <1>12, <1>14

\* A call that waits takes the answer.
LEMMA DataWait ==
  ASSUME Always, Control, Data, ~intruded, NEW x \in Contexts, Step(x), Wait(x)
  PROVE Data'
<1>1. /\ EngineOf(x) /\ PlaceInv(x) /\ CallInv(x) /\ Types /\ AsyncInv /\ x \in Callers /\ x # "async"
      /\ \A y \in Contexts : y # x => at[y] = "idle" /\ at'[y] = "idle"
  BY AloneFacts DEF Callers
<1>2. /\ at[x] = "wait" /\ ccif /\ Continue /\ UNCHANGED <<req, stat, done>>
      /\ at'[x] = IF g'.inProgress THEN "wait"
                  ELSE IF g.cmd \in Mac /\ status = "SUCCESS" THEN "read_mac" ELSE "return"
  BY <1>1 DEF Wait, GoTo, Types, CallTypes
<1>3. g.inProgress /\ g.owner = x /\ OperationInv /\ PartInv
  BY <1>1, <1>2 DEF EngineOf, PlaceInv
<1>4. g'.owner = x
  BY <1>1, <1>2, <1>3, ContinueTypes
<1>5. AsyncInv'
  BY <1>1, <1>4 DEF AsyncInv
<1>6. CASE status # "SUCCESS"
  <2>1. g'.inProgress = FALSE /\ g'.errCode # "SUCCESS" /\ NoChain' /\ ccif'
    BY <1>1, <1>2, <1>3, <1>6, ContinueFails
  <2>2. at'[x] = "return" /\ ResultInv(x)'
    BY <1>2, <1>6, <2>1 DEF ResultInv
  <2> QED
    BY <1>5, <2>1, <2>2, DataReturns
<1>7. CASE status = "SUCCESS" /\ LastPart(Advanced)
  <2>1. /\ g'.inProgress = FALSE /\ g'.cmd = g.cmd
        /\ NoChain' /\ ccif' /\ UNCHANGED engine
        /\ g.cmd \notin Mac => Result(req[x]) \subseteq out'[x]
    BY <1>1, <1>2, <1>3, <1>7, ContinueEnds
  <2>2. g.cmd \in Mac => pram[MacPage] = Out(x, 0) /\ at'[x] = "read_mac"
    BY <1>1, <1>2, <1>3, <1>7, <2>1, LastPartTaken
  <2>3. g.cmd \notin Mac => at'[x] = "return"
    BY <1>2, <1>7, <2>1
  <2>4. MacPage' = MacPage /\ pram' = pram
    BY <2>1 DEF MacPage, engine
  <2>5. ResultInv(x)'
    BY <1>2, <1>3, <1>4, <2>1, <2>2, <2>3, <2>4 DEF ResultInv, Complete, OperationInv
  <2> QED
    BY <1>5, <2>1, <2>2, <2>3, <2>5, DataReturns
<1>8. CASE status = "SUCCESS" /\ ~LastPart(Advanced)
  <2>1. g'.inProgress = g.inProgress
    BY <1>1, <1>2, <1>8, ContinueTypes DEF LastAnswer
  <2>2. at'[x] = "wait"
    BY <1>2, <1>3, <2>1
  <2>3. OperationInv' /\ PartInv'
    BY <1>1, <1>2, <1>3, <1>8, <2>2, ContinueGoesOn
  <2>4. EngineOf(x)' /\ ResultInv(x)'
    BY <1>3, <2>1, <2>2, <2>3 DEF EngineOf, MPCompressInv, ResultInv
  <2> QED
    BY <1>1, <1>5, <2>4, DataAlone
<1> QED
  BY <1>6, <1>7, <1>8

-----------------------------------------------------------------------------
(* Cancellation, and the beginning of a call.                               *)

\* CancelCommand finds an operation under way, or nothing to do.
LEMMA DataCancelTest ==
  ASSUME Always, Control, Data, ~intruded, NEW x \in Contexts, Step(x), CancelTest(x)
  PROVE Data'
<1>1. /\ EngineOf(x) /\ PlaceInv(x) /\ CallInv(x) /\ Types /\ AsyncInv
      /\ \A y \in Contexts : y # x => at[y] = "idle" /\ at'[y] = "idle"
  BY AloneFacts
<1>2. /\ at[x] = "cancel" /\ at'[x] = IF g.inProgress THEN "disabling" ELSE Cancelled(x)
      /\ stray' = (stray \/ (~g.inProgress /\ chain.open /\ req[x].op = "MP_COMPRESS"))
      /\ UNCHANGED <<req, stat, done, out, g, hdr, pram, ccif, status, chain>>
  BY <1>1 DEF CancelTest, GoTo, Types, CallTypes
<1>3. CASE g.inProgress
  <2>1. UNCHANGED engine /\ at'[x] = "disabling"
    BY <1>1, <1>2, <1>3 DEF engine, Types, EngineTypes
  <2> QED
    BY <1>2, <1>3, <2>1, DataMoves
<1>4. CASE ~g.inProgress /\ req[x].op = "MP_COMPRESS"
  <2>1. at'[x] = "return_stat" /\ stat'[x] = "TIMEOUT" /\ ccif' /\ NoChain'
    BY <1>1, <1>2, <1>4, CancelIs DEF Cancelled, PlaceInv, InCancel, EngineOf, NoChain
  <2>2. AsyncInv' /\ ResultInv(x)'
    BY <1>1, <1>2, <2>1, AsyncStays DEF AtOne, ResultInv
  <2> QED
    BY <1>2, <1>4, <2>1, <2>2, DataReturns
<1>5. CASE ~g.inProgress /\ req[x].op # "MP_COMPRESS"
  <2>1. req[x] = Cancel
    BY <1>1, <1>2, <1>5 DEF PlaceInv, CallInv, InCancel
  <2>2. UNCHANGED engine /\ at'[x] = "return_stat" /\ req[x].op = "CANCEL"
    BY <1>1, <1>2, <1>5, <2>1, CancelIs DEF engine, Types, EngineTypes, Cancelled
  <2> QED
    BY <1>2, <1>5, <2>2, DataMoves
<1> QED
  BY <1>3, <1>4, <1>5

\* It breaks the chain with a header of its own.
LEMMA DataCancelBreaks ==
  ASSUME Always, Control, Data, ~intruded, NEW x \in Contexts, Step(x), CancelBreaks(x)
  PROVE Data'
<1>1. /\ EngineOf(x) /\ PlaceInv(x) /\ CallInv(x) /\ Types /\ AsyncInv
      /\ \A y \in Contexts : y # x => at[y] = "idle" /\ at'[y] = "idle"
  BY AloneFacts
<1>2. PICK h : h = [hdr EXCEPT !.op = g.cmd, !.seq = "FIRST", !.of = "cancel"]
  OBVIOUS
<1>3. /\ at[x] = "draining" /\ at'[x] = "breaking" /\ ccif /\ UNCHANGED <<req, stat, done, out, g>>
      /\ CSEC_WriteCommandHeader(h, <<>>)
  BY <1>1, <1>2 DEF CancelBreaks, GoTo, Types, CallTypes
<1>4. hdr' = h
  BY <1>3 DEF CSEC_WriteCommandHeader
<1>5. h.of = "cancel" /\ h.seq = "FIRST"
  BY <1>1, <1>2, HeaderFields DEF Types, EngineTypes
<1>6. g.inProgress => OperationInv'
  <2>1. g.inProgress => OperationInv /\ (g.owner \in Contexts => at'[g.owner] \in {"wait"} \cup InCancel)
    BY <1>1, <1>3 DEF EngineOf, OperationInv, InCancel
  <2> QED
    BY <1>3, <2>1, OperationStays
<1>7. EngineOf(x)' /\ ResultInv(x)'
  BY <1>3, <1>4, <1>5, <1>6 DEF EngineOf, MPCompressInv, ResultInv
<1>8. AsyncInv'
  BY <1>1, <1>3, AsyncStays DEF AtOne
<1> QED
  BY <1>1, <1>7, <1>8, DataAlone

\* It leaves nothing in progress, and owes the engine what it did not break.
LEMMA DataCancelEnds ==
  ASSUME Always, Control, Data, ~intruded, NEW x \in Contexts, Step(x), CancelEnds(x)
  PROVE Data'
<1>1. /\ EngineOf(x) /\ PlaceInv(x) /\ CallInv(x) /\ Types /\ AsyncInv /\ x # "async" /\ x \in Callers
      /\ \A y \in Contexts : y # x => at[y] = "idle" /\ at'[y] = "idle"
  BY AloneFacts DEF Callers
<1>2. /\ at[x] \in {"draining", "breaking"} /\ at'[x] = Cancelled(x) /\ ccif
      /\ g' = [g EXCEPT !.inProgress = FALSE,
                        !.cancelled = @ \/ (g.inProgress /\ g.owner = "async")]
      /\ stray' = chain.open /\ stat' = stat /\ req' = req /\ out' = out
  BY <1>1 DEF CancelEnds, GoTo, Types, CallTypes
<1>3. /\ g'.inProgress = FALSE /\ g'.owner = g.owner /\ g'.errCode = g.errCode
      /\ g'.cancelled = (g.cancelled \/ (g.inProgress /\ g.owner = "async"))
  BY <1>1, <1>2, StateFields DEF Types, StateTypes, Fields
<1>4. ccif' /\ chain'.open = chain.open /\ req'[x] = req[x]
  <2>1. CASE g.owner = "async"
    BY <1>1, <1>2, <2>1, ChainFields DEF CancelEnds, Forget, Types, EngineTypes, CallTypes
  <2>2. CASE g.owner # "async"
    BY <1>2, <2>2 DEF CancelEnds
  <2> QED
    BY <2>1, <2>2
<1>5. NoChain'
  BY <1>2, <1>4 DEF NoChain
<1>6. AsyncInv'
  <2>1. CASE g.inProgress /\ g.owner = "async"
    BY <1>3, <2>1 DEF AsyncInv
  <2>2. CASE ~g.inProgress /\ g.owner = "async"
    <3>1. Complete("async") \/ g.cancelled \/ g.errCode # "SUCCESS"
      BY <1>1, <2>2 DEF AsyncInv
    <3>2. Complete("async")' = Complete("async")
      BY <1>2, CompleteStays
    <3> QED
      BY <1>3, <3>1, <3>2 DEF AsyncInv
  <2>3. CASE g.owner # "async"
    BY <1>3, <2>3 DEF AsyncInv
  <2> QED
    BY <2>1, <2>2, <2>3
<1>7. at'[x] \in {"timeout", "return_stat"} /\ (at'[x] = "return_stat" => req[x] = Cancel)
  BY <1>1, <1>2 DEF Cancelled, CallInv, PlaceInv, InCancel
<1>8. ResultInv(x)'
  BY <1>4, <1>7, CancelIs DEF ResultInv, Complete
<1> QED
  BY <1>3, <1>4, <1>5, <1>6, <1>7, <1>8, DataReturns

\* Every step of a call.
LEMMA DataStepCall ==
  ASSUME Always, Control, Data, ~intruded, ~intruded', NEW x \in Contexts, Step(x)
  PROVE Data'
<1>1. Types /\ PlaceInv(x)
  BY AloneFacts
<1>2. CASE WaitEnds(x)
  BY <1>1, <1>2 DEF WaitEnds, PlaceInv
<1>3. CASE WaitTimesOut(x) \/ Arm(x) \/ CancelDisables(x)
  <2>1. UNCHANGED <<g, req, out, stat, done, engine>>
    BY <1>3 DEF WaitTimesOut, Arm, CancelDisables
  <2>2. \/ at[x] = "wait" /\ at'[x] = "cancel"
        \/ at[x] = "arming" /\ at'[x] = "idle"
        \/ at[x] = "disabling" /\ at'[x] = "draining"
    BY <1>1, <1>3 DEF WaitTimesOut, Arm, CancelDisables, GoTo, Types, CallTypes
  <2> QED
    BY <2>1, <2>2, DataMoves
<1> QED
  BY <1>2, <1>3, DataTimeOut, DataReadMacLate, DataLaunchOne, DataFinishOne,
     DataMPCompress_message, DataMPCompress_header, DataMPCompress_wait,
     DataMPCompress_timeout, DataMPCompress_read, DataReturn, DataLaunch, DataLaunchAsync, DataWait,
     DataCancelTest, DataCancelBreaks, DataCancelEnds
  DEF Step

\* A call begins: the engine is ready, and owes nothing.
LEMMA DataEnter ==
  ASSUME Always, Control, Data, ~intruded, ~intruded', NEW x \in Contexts, NEW c,
         NEW l \in {"tested", "mp_message", "tested_one", "tested_async"}, Enter(x, c, l), Runs(x),
         at[x] = IF x = "handler" THEN "callback" ELSE "idle",
         l = "mp_message" => c.n \in Nat
  PROVE Data'
<1>1. /\ ~g.inProgress /\ (x # "thread" => at["thread"] = "idle")
      /\ at' = [at EXCEPT ![x] = l] /\ req' = [req EXCEPT ![x] = c]
      /\ UNCHANGED <<stat, done, out, g, irq, engine>>
  BY DEF Enter, GoTo
<1>2. \A y \in Contexts : y # x => at[y] = "idle"
  BY <1>1 DEF Runs, Always, ContextInv, Contexts
<1>3. EngineInv /\ AsyncInv /\ Types /\ CallInv(x)
  BY DEF Always, Data
<1>4. \A y \in Contexts : y # x => at'[y] = "idle"
  BY <1>1, <1>2, <1>3 DEF Types, CallTypes
<1>5. at'[x] = l /\ req'[x] = c /\ req'["async"] = req["async"] /\ done'[x] = 0
  BY <1>1, <1>3 DEF Types, CallTypes, Callers, Contexts, CallInv, NoCall, Long
<1>6. EngineOf(x)
  BY <1>2, <1>3, EngineOfAlone
<1>7. ccif /\ NoChain
  BY <1>1, <1>6 DEF EngineOf, InMPCompress
<1>8. ccif' /\ NoChain'
  BY <1>1, <1>7 DEF engine, NoChain
<1>9. EngineOf(x)'
  BY <1>1, <1>5, <1>8 DEF EngineOf, MPCompressInv, Between, InMPCompress
<1>10. AsyncInv' /\ ResultInv(x)'
  BY <1>1, <1>3, <1>4, <1>5, AsyncStays DEF ResultInv, AtOne
<1> QED
  BY <1>4, <1>9, <1>10, DataAlone

\* The calls begin.
LEMMA DataCalls ==
  ASSUME Always, Control, Data, ~intruded, ~intruded', Calls
  PROVE Data'
<1>1. ASSUME NEW x \in Contexts, Call(x) PROVE Data'
  <2>1. PICK c \in IF x = "thread" THEN ThreadCalls ELSE IF x = "isr" THEN IsrCalls ELSE {} :
          Enter(x, c, IF c.op \in Driven THEN "tested"
                      ELSE IF c.op = "MP_COMPRESS" THEN "mp_message" ELSE "tested_one")
    BY <1>1 DEF Call
  <2>2. Runs(x) /\ at[x] = "idle" /\ x # "handler" /\ c \in ThreadCalls \cup IsrCalls
    BY <1>1, <2>1 DEF Call
  <2>3. c.n \in Nat
    BY <2>2, CallsAssumption, OneCommandOps
  <2>4. PICK l \in {"tested", "mp_message", "tested_one"} : Enter(x, c, l)
    BY <2>1
  <2> QED
    BY <2>2, <2>3, <2>4, DataEnter
<1>2. ASSUME NEW x \in Contexts, CallAsync(x) PROVE Data'
  <2>1. PICK c : Enter(x, c, "tested_async")
    BY <1>2 DEF CallAsync
  <2> QED
    BY <1>2, <2>1, DataEnter DEF CallAsync
<1>3. CASE CallCancel
  <2> DEFINE x == "thread"
  <2>1. /\ Runs(x) /\ at[x] = "idle" /\ at'[x] = "cancel" /\ req'[x] = Cancel
        /\ \A y \in Callers : y # x => req'[y] = req[y]
        /\ \A y \in Contexts : y # x => at[y] = "idle" /\ at'[y] = "idle"
        /\ UNCHANGED <<stat, done, out, g, irq, engine>>
    BY <1>3 DEF CallCancel, GoTo, Runs, Always, Types, CallTypes, Contexts, Callers
  <2>2. EngineInv /\ AsyncInv /\ x \in Contexts
    BY DEF Data, Contexts
  <2>3. EngineOf(x)
    BY <2>1, <2>2, EngineOfAlone
  <2>4. g.inProgress => OperationInv'
    <3>1. g.inProgress => OperationInv /\ g.owner \in Callers /\ g.owner \notin Contexts
      BY <2>1, <2>3 DEF EngineOf, OperationInv, InCancel
    <3>2. g.inProgress => req'[g.owner] = req[g.owner]
      BY <2>1, <2>2, <3>1
    <3> QED
      BY <2>1, <3>1, <3>2, OperationStays
  <2>5. EngineOf(x)'
    BY <2>1, <2>3, <2>4, PartStays, CancelIs
    DEF EngineOf, MPCompressInv, InMPCompress, engine, NoChain
  <2>6. AsyncInv' /\ ResultInv(x)'
    BY <2>1, <2>2, AsyncStays DEF ResultInv, AtOne, Callers, Contexts
  <2> QED
    BY <2>1, <2>2, <2>5, <2>6, DataAlone
<1> QED
  BY <1>1, <1>2, <1>3 DEF Calls

-----------------------------------------------------------------------------
(* The handler.                                                             *)

\* When the handler is in its work nobody waits for the engine.
LEMMA HandlerUnconcerned ==
  ASSUME Always, Control, ~intruded,
         \/ at["handler"] \in {"finished", "callback"}
         \/ irq /\ at["isr"] = "idle" /\ at["handler"] = "idle"
  PROVE \A x \in Contexts : Unconcerned(x)
<1>1. at["isr"] = "idle"
  BY DEF Always, ContextInv
<1>2. /\ at["thread"] \in {"idle", "cancel", "disabling"}
      /\ at["thread"] # "idle" => req["thread"].op = "CANCEL"
  <2>1. CASE at["handler"] \in {"finished", "callback"}
    BY <2>1 DEF Control, AloneInv
  <2>2. CASE irq /\ at["isr"] = "idle" /\ at["handler"] = "idle"
    <3>1. g.owner = "async" /\ PlaceInv("thread") /\ "thread" \in Contexts
      BY <2>2 DEF Control, AloneInv, HandlerOwnsAsync, Contexts
    <3>2. at["thread"] \in {"idle", "cancel", "disabling"}
      BY <2>2, <3>1 DEF PlaceInv, Always, Types, CallTypes, ContextInv
    <3>3. at["thread"] \in InCancel => req["thread"].op = "CANCEL"
      BY <2>2, <3>1, <3>2, CancelIs DEF PlaceInv, Always, CallInv, InCancel
    <3> QED
      BY <3>2, <3>3 DEF InCancel
  <2> QED
    BY <2>1, <2>2
<1> QED
  BY <1>1, <1>2 DEF Unconcerned, Contexts

\* The handler counts a part, ends the operation or launches the next part.
LEMMA DataHandler ==
  ASSUME Always, Control, Data, ~intruded,
         FTFC_IRQHandler \/ HandlerForNothing \/ HandlerFinishes \/ CallbackReturns
  PROVE Data'
<1>1. Types /\ AsyncInv
  BY DEF Always, Data
<1>2. CASE FTFC_IRQHandler
  <2>1. /\ irq /\ ccif /\ g.inProgress /\ at["isr"] = "idle" /\ at["handler"] = "idle"
        /\ g.owner = "async" /\ UNCHANGED req
        /\ at' = [at EXCEPT !["handler"] = IF g'.inProgress THEN "idle" ELSE "finished"]
    BY <1>2 DEF FTFC_IRQHandler, GoTo, Control, AloneInv, HandlerOwnsAsync
  <2>2. \A x \in Contexts : Unconcerned(x)
    BY <2>1, HandlerUnconcerned
  <2>3. \A x \in Contexts : Unconcerned(x)'
    BY <1>1, <2>1, <2>2 DEF Unconcerned, Types, CallTypes
  <2>4. OperationInv /\ PartInv
    BY <2>1, <2>2, EngineInvFree DEF Data, EngineFree
  <2>5. "async" \notin Contexts
    BY DEF Contexts
  <2>6. ~AtOne'
    BY <2>3 DEF AtOne, Unconcerned
  <2>7. CASE status # "SUCCESS"
    <3>1. Continue
      BY <1>2, <2>7 DEF FTFC_IRQHandler
    <3>2. g'.inProgress = FALSE /\ g'.errCode # "SUCCESS" /\ NoChain' /\ ccif'
      BY <1>1, <2>1, <2>4, <2>7, <3>1, ContinueFails
    <3> QED
      BY <2>3, <3>2, DataFree DEF AsyncInv, EngineFree
  <2>8. CASE status = "SUCCESS" /\ LastPart(Advanced) /\ g.cmd \in Mac
    <3>1. ReadMac /\ g' = [Advanced EXCEPT !.inProgress = FALSE] /\ UNCHANGED engine
      BY <1>2, <2>8 DEF FTFC_IRQHandler
    <3>2. NoChain /\ pram[MacPage] = Out("async", 0)
      BY <1>1, <2>1, <2>4, <2>8, LastPartTaken
    <3>3. g'.inProgress = FALSE /\ g'.owner = "async"
      BY <1>1, <2>1, <3>1, AdvancedTypes, OverTypes DEF Types
    <3>4. 0 \in out'["async"]
      BY <1>1, <2>1, <3>1, <3>2 DEF ReadMac, Types, CallTypes, Callers
    <3>5. req'["async"].op \in Mac
      BY <2>1, <2>4, <2>8 DEF OperationInv
    <3>6. Complete("async")'
      BY <3>4, <3>5 DEF Complete, Result, Mac, Ecb, Cbc, Chained
    <3> QED
      BY <2>1, <2>3, <3>1, <3>2, <3>3, <3>6, DataFree DEF AsyncInv, EngineFree, NoChain, engine
  <2>9. CASE status = "SUCCESS" /\ LastPart(Advanced) /\ g.cmd \notin Mac
    <3>1. Continue
      BY <1>2, <2>9 DEF FTFC_IRQHandler
    <3>2. /\ g'.inProgress = FALSE /\ NoChain' /\ ccif'
          /\ Result(req["async"]) \subseteq out'["async"]
      BY <1>1, <2>1, <2>4, <2>9, <3>1, ContinueEnds
    <3>3. Complete("async")'
      BY <2>1, <3>2 DEF Complete
    <3> QED
      BY <2>3, <3>2, <3>3, DataFree DEF AsyncInv, EngineFree
  <2>10. CASE status = "SUCCESS" /\ ~LastPart(Advanced)
    <3>1. Continue
      BY <1>2, <2>10 DEF FTFC_IRQHandler
    <3>2. g'.inProgress = g.inProgress /\ OperationInv' /\ PartInv'
      BY <1>1, <2>1, <2>4, <2>5, <2>10, <3>1, ContinueGoesOn
    <3> QED
      BY <2>1, <2>3, <2>6, <3>2, DataFree DEF AsyncInv, EngineFree
  <2> QED
    BY <2>7, <2>8, <2>9, <2>10
<1>3. CASE HandlerForNothing \/ CallbackReturns
  <2>1. /\ UNCHANGED <<g, req, out, stat, done, engine>>
        /\ \A x \in Contexts : at'[x] = at[x] \/ (at[x] = "callback" /\ at'[x] = "idle")
    BY <1>1, <1>3 DEF HandlerForNothing, CallbackReturns, GoTo, vars, calls, Types, CallTypes
  <2>2. CASE HandlerForNothing
    BY <2>1, <2>2 DEF HandlerForNothing, Storm, Control, AloneInv, HandlerOwnsAsync
  <2>3. CASE CallbackReturns
    <3>1. \A x \in Contexts : Unconcerned(x)
      BY <2>3, HandlerUnconcerned DEF CallbackReturns
    <3>2. \A x \in Contexts : Unconcerned(x)'
      BY <2>1, <3>1 DEF Unconcerned
    <3>3. ~g.inProgress
      BY <2>3 DEF CallbackReturns, Control, AloneInv
    <3>4. ccif /\ NoChain
      BY <3>1, <3>3, EngineInvFree DEF Data, EngineFree
    <3>5. AsyncInv'
      BY <1>1, <2>1, <3>2, AsyncStays DEF AtOne, Unconcerned
    <3> QED
      BY <2>1, <3>2, <3>3, <3>4, <3>5, DataFree DEF EngineFree, NoChain, engine
  <2> QED
    BY <1>3, <2>2, <2>3
<1>4. CASE HandlerFinishes
  <2>1. /\ at["handler"] = "finished" /\ at' = [at EXCEPT !["handler"] = "callback"]
        /\ UNCHANGED <<req, out, g, ccif, stray>> /\ chain'.open = chain.open
    BY <1>1, <1>4, ChainFields DEF HandlerFinishes, GoTo, Forget, Types, EngineTypes
  <2>2. \A x \in Contexts : Unconcerned(x)
    BY <2>1, HandlerUnconcerned
  <2>3. \A x \in Contexts : Unconcerned(x)'
    BY <1>1, <2>1, <2>2 DEF Unconcerned, Types, CallTypes
  <2>4. ~g.inProgress
    BY <2>1 DEF Control, AloneInv
  <2>5. ccif /\ NoChain
    BY <2>2, <2>4, EngineInvFree DEF Data, EngineFree
  <2>6. AsyncInv'
    BY <1>1, <2>1, <2>3, AsyncStays DEF AtOne, Unconcerned
  <2> QED
    BY <2>1, <2>3, <2>4, <2>5, <2>6, DataFree DEF EngineFree, NoChain
<1> QED
  BY <1>2, <1>3, <1>4

-----------------------------------------------------------------------------
(* The engine.                                                              *)

\* The engine's answer to a part is an answer to that part, whoever waits for it.
LEMMA PartAnswered ==
  ASSUME Types, OperationInv, PartInv, Engine
  PROVE OperationInv' /\ PartInv'
<1>1. UNCHANGED <<calls, g, irq, intruded>>
  BY EngineKeeps
<1>2. OperationInv'
  BY <1>1 DEF calls, OperationInv, Offset, FirstCbc
<1>3. CASE g.cmd \in Ecb
  <2>1. PICK x, op, k, n : x = g.owner /\ op = g.cmd /\ k = g.index /\ n = g.partSize
    OBVIOUS
  <2>2. EcbPart(x, op, k, n)
    BY <1>3, <2>1 DEF PartInv
  <2>3. k \in Nat /\ n \in 0 .. CSEC_DATA_PAGES_AVAILABLE /\ op \in Ecb /\ EngineTypes
    BY <1>3, <2>1 DEF Types, StateTypes
  <2>4. EcbPart(x, op, k, n)'
    BY <2>2, <2>3, EcbTaken
  <2> QED
    BY <1>1, <1>2, <1>3, <2>1, <2>4 DEF PartInv
<1>4. CASE g.cmd \notin Ecb
  <2>1. PICK x, op, k, n, first :
          x = g.owner /\ op = g.cmd /\ k = g.index /\ n = g.fullSize /\ first = (g.seq = "FIRST")
    OBVIOUS
  <2>2. ChainPart(x, op, k, n, first)
    BY <1>4, <2>1 DEF PartInv
  <2>3. op \in Chained /\ first \in BOOLEAN /\ EngineTypes
    BY <1>4, <2>1 DEF Types, OperationInv, Driven, Chained
  <2>4. ChainPart(x, op, k, n, first)'
    BY <2>2, <2>3, ChainTaken
  <2>5. x = g'.owner /\ op = g'.cmd /\ k = g'.index /\ n = g'.fullSize /\ first = (g'.seq = "FIRST")
    BY <1>1, <2>1
  <2> QED
    BY <1>1, <1>2, <1>4, <2>4, <2>5 DEF PartInv
<1> QED
  BY <1>3, <1>4

\* The engine's answer to a part of MPCompress.
LEMMA MPCompressAnswered ==
  ASSUME Types, NEW x \in Contexts, MPCompressInv(x), Engine
  PROVE MPCompressInv(x)'
<1>1. UNCHANGED <<calls, g, irq, intruded>> /\ ~ccif
  BY EngineKeeps
<1>2. at[x] \notin {"mp_message", "mp_header", "mp_read"}
  BY <1>1 DEF MPCompressInv
<1>3. CASE at[x] = "mp_wait"
  <2>1. PICK k, n, first : k = done[x] /\ n = req[x].n /\ first = (done[x] = 0)
    OBVIOUS
  <2>2. ChainPart(x, "MP_COMPRESS", k, n, first) /\ k <= n
    BY <1>3, <2>1 DEF MPCompressInv
  <2>3. first \in BOOLEAN /\ EngineTypes /\ "MP_COMPRESS" \in Chained
    BY <2>1 DEF Types, Chained
  <2>4. ChainPart(x, "MP_COMPRESS", k, n, first)'
    BY <2>2, <2>3, ChainTaken
  <2>5. at'[x] = at[x] /\ k = done'[x] /\ n = req'[x].n /\ first = (done'[x] = 0)
    BY <1>1, <2>1 DEF calls
  <2> QED
    BY <1>3, <2>2, <2>4, <2>5 DEF MPCompressInv
<1>4. CASE at[x] # "mp_wait"
  <2>1. at'[x] \notin {"mp_message", "mp_header", "mp_read", "mp_wait"}
    BY <1>1, <1>2, <1>4 DEF calls
  <2> QED
    BY <2>1 DEF MPCompressInv
<1> QED
  BY <1>3, <1>4

\* Every answer of the engine.
LEMMA DataEngine ==
  ASSUME Always, Control, Data, ~intruded, Engine
  PROVE Data'
<1>1. UNCHANGED <<calls, g, irq, intruded>> /\ ccif' /\ ~ccif
  BY EngineKeeps
<1>2. Types /\ EngineInv /\ AsyncInv
  BY DEF Always, Data
<1>3. AtOne' = AtOne /\ AtBreaking' = AtBreaking
  BY <1>1 DEF calls, AtOne, AtBreaking
<1>4. AsyncInv'
  BY <1>1, <1>2, <1>3 DEF AsyncInv, Complete, Result, calls
<1>5. ASSUME NEW x \in Contexts PROVE ResultInv(x)'
  <2>1. at[x] # "read_mac"
    <3> SUFFICES ASSUME at[x] = "read_mac" PROVE FALSE
      OBVIOUS
    <3>1. \A y \in Contexts : y # x => at[y] = "idle"
      BY DEF Always, ContextInv, Control, AloneInv, Contexts
    <3>2. EngineOf(x) /\ ~g.inProgress
      BY <1>2, <3>1, EngineOfAlone DEF Control, PlaceInv
    <3> QED
      BY <1>1, <3>2 DEF EngineOf, InMPCompress
  <2>2. ResultInv(x)
    BY DEF Data
  <2> QED
    BY <1>1, <2>1, <2>2 DEF ResultInv, Complete, Result, calls
<1>6. EngineInv'
  <2>1. g'.inProgress /\ ~AtOne' => OperationInv' /\ (~AtBreaking' => PartInv')
    <3>1. g'.inProgress /\ ~AtOne' => OperationInv'
      BY <1>1, <1>2, <1>3 DEF EngineInv, calls, OperationInv, Offset, FirstCbc
    <3>2. g'.inProgress /\ ~AtOne' /\ ~AtBreaking' => PartInv'
      BY <1>1, <1>2, <1>3, PartAnswered DEF EngineInv
    <3> QED
      BY <3>1, <3>2
  <2>2. ASSUME NEW x \in Contexts, at'[x] = "wait_one" PROVE OnePart(x)'
    <3>1. at[x] = "wait_one" /\ req[x] \in OneCommand /\ EngineTypes
      BY <1>1, <1>2, <2>2 DEF calls, Always, CallInv, Types
    <3> QED
      BY <1>2, <3>1, OneTaken DEF EngineInv
  <2>3. ASSUME NEW x \in Contexts PROVE MPCompressInv(x)'
    BY <1>2, MPCompressAnswered DEF EngineInv
  <2>4. ~(~g'.inProgress /\ ~AtBreaking' /\ (\A x \in Contexts : ~InMPCompress(x)'))
    BY <1>1, <1>2, <1>3 DEF EngineInv, InMPCompress, calls
  <2> QED
    BY <1>1, <2>1, <2>2, <2>3, <2>4 DEF EngineInv
<1> QED
  BY <1>4, <1>5, <1>6 DEF Data

\* A step that changes nothing the invariant speaks of.
LEMMA ControlStays ==
  ASSUME Control, UNCHANGED <<calls, g, irq, intruded>>
  PROVE Control'
BY DEF calls, Control, PlaceInv, AloneInv, HandlerOwnsAsync

\* So does what engine, pages and results hold.
LEMMA DataStays ==
  ASSUME Data, UNCHANGED <<calls, g, engine>>
  PROVE Data'
<1>1. UNCHANGED <<at, req, stat, done, out, g, hdr, pram, ccif, status, chain, stray>>
  BY DEF calls, engine
<1>2. PartInv' = PartInv
  BY PartStays
<1>3. AtOne' = AtOne /\ AtBreaking' = AtBreaking
  BY <1>1 DEF AtOne, AtBreaking
<1>4. EngineInv'
  BY <1>1, <1>2, <1>3
  DEF Data, EngineInv, OperationInv, OnePart, MPCompressInv, InMPCompress, ChainPart, Between,
      Loaded, Taken,
      NoChain, Offset, FirstCbc
<1>5. \A x \in Contexts : ResultInv(x)'
  BY <1>1 DEF Data, ResultInv, Complete, Result, MacPage
<1>6. AsyncInv'
  BY <1>1, <1>3 DEF Data, AsyncInv, Complete, Result
<1> QED
  BY <1>4, <1>5, <1>6 DEF Data

-----------------------------------------------------------------------------
(* The invariant.                                                           *)

\* The disturbance ends only when the call of the thread ends, with nothing under way.
LEMMA DisturbanceEnds ==
  ASSUME intruded, ~intruded', [Next]_vars
  PROVE Return("thread") /\ ~irq /\ ~g.inProgress
<1>1. ~(UNCHANGED vars) /\ ~HandlerForNothing
  BY DEF HandlerForNothing, vars
<1>2. ~Engine
  BY EngineKeeps
<1>3. ~(FTFC_IRQHandler \/ HandlerFinishes \/ CallbackReturns)
  BY DEF FTFC_IRQHandler, HandlerFinishes, CallbackReturns
<1>4. ~Calls
  BY DEF Calls, Call, CallAsync, CallCancel, Enter
<1>5. PICK x \in Contexts : Step(x)
  BY <1>1, <1>2, <1>3, <1>4 DEF Next
<1>6. Return(x)
  BY <1>5
  DEF Step, Launch, Wait, WaitEnds, WaitTimesOut, TimeOut, ReadMacLate, LaunchOne, FinishOne,
      MPCompress_message, MPCompress_header, MPCompress_wait, MPCompress_timeout, MPCompress_read,
      LaunchAsync, Arm, CancelTest, CancelDisables, CancelBreaks, CancelEnds
<1> QED
  BY <1>6 DEF Return

\* Then nobody is in a call, no interrupt is enabled, and the debt is on record.
LEMMA CalmAfter ==
  ASSUME Always, intruded, ~intruded', [Next]_vars
  PROVE (Control /\ Data)'
<1>1. Return("thread") /\ ~irq /\ ~g.inProgress /\ Types
  BY DisturbanceEnds DEF Always
<1>2. at["thread"] \in {"return", "return_stat"} /\ \A x \in Contexts : x # "thread" => at[x] = "idle"
  BY <1>1 DEF Return, Runs, Contexts
<1>3. ccif
  BY <1>1, <1>2 DEF Always, WaitInv, Contexts
<1>4. \A x \in Contexts : at'[x] = "idle"
  BY <1>1, <1>2 DEF Return, GoTo, Types, CallTypes
<1>5. g'.inProgress = FALSE /\ g'.owner = Nobody
  <2>1. g' = [g EXCEPT !.owner = Nobody]
    BY <1>1 DEF Return
  <2>2. DOMAIN g = Fields
    BY <1>1, StateFields DEF Types, StateTypes
  <2> QED
    BY <1>1, <2>1, <2>2 DEF Fields, Types, StateTypes
<1>6. irq' = irq /\ ccif'
  BY <1>1, <1>3 DEF Return, Forget
<1>7. NoChain'
  <2>1. chain'.open = chain.open
    BY <1>1, ChainFields DEF Return, Forget, Types, EngineTypes
  <2>2. chain.open => stray'
    BY <1>1 DEF Return
  <2> QED
    BY <2>1, <2>2 DEF NoChain
<1>8. Control'
  BY <1>1, <1>4, <1>5, <1>6
  DEF Control, PlaceInv, AloneInv, HandlerOwnsAsync, InCancel, Contexts
<1>9. Data'
  <2>1. AsyncInv' /\ EngineFree'
    BY <1>5, <1>6, <1>7 DEF AsyncInv, EngineFree, Nobody
  <2>2. \A x \in Contexts : Unconcerned(x)'
    BY <1>4 DEF Unconcerned
  <2> QED
    BY <2>1, <2>2, DataFree
<1> QED
  BY <1>8, <1>9

\* Without interference every step keeps the second half of the invariant.
LEMMA CalmStays ==
  ASSUME Always, Control, Data, ~intruded, ~intruded', [Next]_vars
  PROVE (Control /\ Data)'
<1>1. CASE UNCHANGED vars
  BY <1>1, ControlStays, DataStays DEF vars
<1>2. CASE Engine
  BY <1>2, EngineKeeps, ControlStays, DataEngine
<1>3. CASE FTFC_IRQHandler \/ HandlerForNothing \/ HandlerFinishes \/ CallbackReturns
  BY <1>3, ControlHandler, DataHandler
<1>4. CASE Calls
  BY <1>4, ControlCalls, DataCalls
<1>5. ASSUME NEW x \in Contexts, Step(x) PROVE (Control /\ Data)'
  BY <1>5, ControlStepCall, DataStepCall
<1> QED
  BY <1>1, <1>2, <1>3, <1>4, <1>5 DEF Next

\* The invariant holds at first.
LEMMA DrvInvInit == CSEC_DRV_Init => DrvInv
<1> SUFFICES ASSUME CSEC_DRV_Init PROVE DrvInv
  OBVIOUS
<1>1. /\ \A x \in Contexts : at[x] = "idle"
      /\ g = NoState /\ ~irq /\ ccif /\ chain = Closed
  BY DEF CSEC_DRV_Init
<1>2. \A x \in Contexts : PlaceInv(x) /\ ResultInv(x)
  BY <1>1 DEF PlaceInv, ResultInv, InCancel
<1>3. AloneInv /\ AsyncInv
  BY <1>1 DEF AloneInv, AsyncInv, HandlerOwnsAsync, Contexts, NoState, Nobody
<1>4. EngineFree /\ \A x \in Contexts : Unconcerned(x)
  BY <1>1, ChainFields DEF EngineFree, Unconcerned, NoState, NoChain
<1> QED
  BY <1>2, <1>3, <1>4, AlwaysInit, EngineInvFree DEF DrvInv, Undisturbed

\* The invariant is kept by every step.
LEMMA DrvInvStep == ASSUME DrvInv, [Next]_vars PROVE DrvInv'
<1>1. Always /\ (~intruded => Undisturbed)
  BY DEF DrvInv
<1>2. Always'
  BY <1>1, AlwaysStep
<1>3. ASSUME ~intruded' PROVE Undisturbed'
  <2>1. CASE intruded
    BY <1>1, <1>3, <2>1, CalmAfter DEF Undisturbed, Control, Data
  <2>2. CASE ~intruded
    BY <1>1, <1>3, <2>2, CalmStays DEF Undisturbed, Control, Data
  <2> QED
    BY <2>1, <2>2
<1> QED
  BY <1>2, <1>3 DEF DrvInv

\* Whoever calls whatever, in whatever order, and whatever the engine answers: flag,
\* owner and places agree with each other, and the engine's command, its chain and
\* its data pages are those of the operation that csec_state_t describes, part by part
\* (csec_driver.c:169-215, :1408-1470, :1480-1800); an interrupt let in during a call of
\* the thread suspends this until that call ends with nothing under way.
THEOREM AlwaysDrvInv == Spec => []DrvInv
<1>1. DrvInv /\ [Next]_vars => DrvInv'
  BY DrvInvStep
<1> QED
  BY DrvInvInit, <1>1, PTL DEF Spec

-----------------------------------------------------------------------------
(* The properties.                                                          *)

\* What the engine works on, as long as no interrupt has been let in: a break asked
\* for by CancelCommand, a command of its own, a part of ECB, or a part of a chain
\* that it expects.
LEMMA EngineWorks ==
  ASSUME DrvInv, ~intruded, ~ccif
  PROVE \/ hdr.of = "cancel" /\ hdr.seq = "FIRST"
        \/ hdr.op \notin Chained /\ hdr.seq = "FIRST"
        \/ \E x, k, n : \E op \in Chained : \E first \in BOOLEAN :
             /\ hdr = Header(op, IF first THEN "FIRST" ELSE "SUBSEQUENT", x, n)
             /\ Between(x, op, k, n, first)
             /\ k = IF op = "MP_COMPRESS" THEN done[x] ELSE g.index
<1>1. EngineInv /\ Always
  BY DEF DrvInv, Undisturbed
<1>2. CASE AtOne
  <2>1. PICK x \in Contexts : at[x] = "wait_one"
    BY <1>2 DEF AtOne
  <2>2. OnePart(x) /\ req[x] \in OneCommand
    BY <1>1, <2>1 DEF EngineInv, Always, CallInv
  <2>3. hdr.op = req[x].op /\ hdr.seq = "FIRST"
    BY <2>2 DEF OnePart, Header
  <2> QED
    BY <2>2, <2>3, OneCommandOps
<1>3. CASE AtBreaking
  BY <1>1, <1>3 DEF AtBreaking, EngineInv
<1>4. CASE ~AtOne /\ ~AtBreaking /\ g.inProgress
  <2>1. OperationInv /\ PartInv
    BY <1>1, <1>4 DEF EngineInv
  <2>2. CASE g.cmd \in Ecb
    BY <2>1, <2>2 DEF PartInv, EcbPart, Header, Ecb, Chained, Cbc, Mac
  <2>3. CASE g.cmd \notin Ecb
    <3>1. PICK x, op, k, n, first :
            x = g.owner /\ op = g.cmd /\ k = g.index /\ n = g.fullSize /\ first = (g.seq = "FIRST")
      OBVIOUS
    <3>2. ChainPart(x, op, k, n, first)
      BY <2>1, <2>3, <3>1 DEF PartInv
    <3>3. op \in Chained /\ op # "MP_COMPRESS" /\ first \in BOOLEAN
      BY <2>1, <2>3, <3>1 DEF OperationInv, Driven, Chained, Cbc, Mac
    <3> QED
      BY <3>1, <3>2, <3>3 DEF ChainPart
  <2> QED
    BY <2>2, <2>3
<1>5. CASE ~AtBreaking /\ ~g.inProgress
  <2>1. PICK x \in Contexts : InMPCompress(x)
    BY <1>1, <1>5 DEF EngineInv
  <2>2. at[x] = "mp_wait" /\ MPCompressInv(x)
    BY <1>1, <2>1 DEF EngineInv, InMPCompress, MPCompressInv
  <2>3. PICK k, n, first : k = done[x] /\ n = req[x].n /\ first = (done[x] = 0)
    OBVIOUS
  <2>4. ChainPart(x, "MP_COMPRESS", k, n, first)
    BY <2>2, <2>3 DEF MPCompressInv
  <2>5. "MP_COMPRESS" \in Chained /\ first \in BOOLEAN
    BY <2>3 DEF Chained
  <2> QED
    BY <2>3, <2>4, <2>5 DEF ChainPart
<1> QED
  BY <1>2, <1>3, <1>4, <1>5

\* A chain that goes on is the chain of its operation.
LEMMA InStep == DrvInv => EngineInStep
<1> SUFFICES ASSUME DrvInv, ~ccif, hdr.seq = "SUBSEQUENT", ~intruded
             PROVE /\ chain.open /\ chain.cmd = hdr.op
                   /\ chain.n = IF hdr.op = "MP_COMPRESS" THEN done[hdr.of] ELSE g.index
  BY DEF EngineInStep
<1>1. PICK x, k, n : \E op \in Chained : \E first \in BOOLEAN :
             /\ hdr = Header(op, IF first THEN "FIRST" ELSE "SUBSEQUENT", x, n)
             /\ Between(x, op, k, n, first)
             /\ k = IF op = "MP_COMPRESS" THEN done[x] ELSE g.index
  BY EngineWorks
<1>2. PICK op \in Chained : \E first \in BOOLEAN :
             /\ hdr = Header(op, IF first THEN "FIRST" ELSE "SUBSEQUENT", x, n)
             /\ Between(x, op, k, n, first)
             /\ k = IF op = "MP_COMPRESS" THEN done[x] ELSE g.index
  BY <1>1
<1>3. PICK first \in BOOLEAN :
             /\ hdr = Header(op, IF first THEN "FIRST" ELSE "SUBSEQUENT", x, n)
             /\ Between(x, op, k, n, first)
             /\ k = IF op = "MP_COMPRESS" THEN done[x] ELSE g.index
  BY <1>2
<1>4. ~first /\ hdr.op = op /\ hdr.of = x
  BY <1>3 DEF Header
<1>5. chain = [open |-> TRUE, cmd |-> op, of |-> x, n |-> k, left |-> n - k]
  BY <1>3, <1>4 DEF Between
<1> QED
  BY <1>3, <1>4, <1>5

\* A part out of sequence has found a chain that somebody left open.
LEMMA Explained == DrvInv => SequenceErrorsExplained
<1> SUFFICES ASSUME DrvInv, ~ccif, OutOfSequence, ~intruded, hdr.of # "cancel" PROVE stray
  BY DEF SequenceErrorsExplained
<1>1. hdr.op \in Chained
  BY DEF OutOfSequence
<1>2. PICK x, k, n : \E op \in Chained : \E first \in BOOLEAN :
             /\ hdr = Header(op, IF first THEN "FIRST" ELSE "SUBSEQUENT", x, n)
             /\ Between(x, op, k, n, first)
  BY <1>1, EngineWorks
<1>3. PICK op \in Chained : \E first \in BOOLEAN :
             /\ hdr = Header(op, IF first THEN "FIRST" ELSE "SUBSEQUENT", x, n)
             /\ Between(x, op, k, n, first)
  BY <1>2
<1>4. PICK first \in BOOLEAN :
             /\ hdr = Header(op, IF first THEN "FIRST" ELSE "SUBSEQUENT", x, n)
             /\ Between(x, op, k, n, first)
  BY <1>3
<1>5. hdr.op = op /\ hdr.seq = IF first THEN "FIRST" ELSE "SUBSEQUENT"
  BY <1>4 DEF Header
<1>6. CASE first
  BY <1>4, <1>5, <1>6 DEF Between, NoChain, OutOfSequence
<1>7. CASE ~first
  BY <1>4, <1>5, <1>7 DEF Between, OutOfSequence
<1> QED
  BY <1>6, <1>7

\* Every variable keeps its type, and a part is never more than the data pages hold
\* (csec_driver.c:1482-1590), with interrupts let in or not.
THEOREM AlwaysTypeOK == Spec => []TypeOK
<1>1. DrvInv => TypeOK
  BY DEF DrvInv, Always, Types, CallTypes, StateTypes, EngineTypes, Owners, StatusWords, TypeOK
<1> QED
  BY AlwaysDrvInv, <1>1, PTL

\* The engine's interrupt is enabled, its handler idle, only while an operation started
\* to go on by itself is in progress (csec_driver.c:1199, :1460, :1784), unless an
\* interrupt was let in during a call of the thread.
THEOREM AlwaysHandlerOwnsAsync == Spec => []HandlerOwnsAsync
<1>1. DrvInv => HandlerOwnsAsync
  BY DEF DrvInv, Undisturbed, AloneInv, HandlerOwnsAsync
<1> QED
  BY AlwaysDrvInv, <1>1, PTL

\* A SUBSEQUENT header meets the chain of its own operation, at the page the driver has
\* counted to (csec_driver.c:1636-1753, :1132-1161), unless an interrupt was let in during a
\* call of the thread.
THEOREM AlwaysEngineInStep == Spec => []EngineInStep
BY AlwaysDrvInv, InStep, PTL

\* The engine answers with a sequence error only to the break CancelCommand asks for
\* (csec_driver.c:1795), or where a chain was given up without ending it, or an interrupt
\* was let in during a call of the thread.
THEOREM AlwaysSequenceErrorsExplained == Spec => []SequenceErrorsExplained
BY AlwaysDrvInv, Explained, PTL

\* A call that returns success has every page of its result (csec_driver.c:169-215,
\* :1480-1634), unless an interrupt was let in during a call of the thread.
THEOREM AlwaysOutputsComplete == Spec => []OutputsComplete
<1>1. DrvInv => OutputsComplete
  BY DEF DrvInv, Undisturbed, ResultInv, OutputsComplete, Returned, Contexts
<1> QED
  BY AlwaysDrvInv, <1>1, PTL

\* When GetAsyncCmdStatus says success (csec_driver.c:1388) of an operation left to the
\* handler that was not cancelled, its result is there, as long as no call that waits has
\* come after it and no interrupt was let in during a call of the thread.
THEOREM AlwaysAsyncStatusRight == Spec => []AsyncStatusRight
<1>1. DrvInv => AsyncStatusRight
  BY DEF DrvInv, Undisturbed, AsyncInv, AsyncStatusRight, CSEC_DRV_GetAsyncCmdStatus
<1> QED
  BY AlwaysDrvInv, <1>1, PTL

=============================================================================
