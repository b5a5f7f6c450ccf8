---------------------------- MODULE Daredevil_proof ----------------------------
(***************************************************************************)
(* What stops the program, and what its frames hold, for every engine,     *)
(* converter and number of polls.                                          *)
(***************************************************************************)
EXTENDS MCDaredevil, TLAPS

\* The call whose return the program awaits at each place.
OpAt(fn) ==
  CASE fn = "init_rng"      -> "InitRng"
    [] fn = "load_plainkey" -> "LoadPlainKey"
    [] fn = "generate_rnd"  -> "Rng"
    [] fn = "encrypt_cbc"   -> "EncCbc"
    [] fn = "generate_mac"  -> "GenerateMac"

AfterInit == {"idle", "read", "generate_rnd", "encrypt_cbc", "generate_mac"}

\* The call in progress is the one of this place, and one csec.rs accepts.
AwaitedInv ==
  /\ at \in Waiting => call.op = OpAt(at)
  /\ phase \in {"pending", "halted"} => at \in Waiting
  /\ phase \in {"pending", "halted"} => Service!Legal(call)

\* What the calls before have left: the generator seeded, then the key loaded.
ReadyInv ==
  /\ at \in {"load_plainkey"} \cup AfterInit => seeded
  /\ at \in AfterInit => key = PLAINKEY

\* What an answer says: Ok, that the call took effect; an error, that the engine has a fault.
AnswerInv ==
  LET ok == answer.status = Service!NoError
  IN  at \in Waiting /\ phase = "free" =>
        /\ ok /\ at = "init_rng" => seeded
        /\ ok /\ at = "load_plainkey" => key = PLAINKEY
        /\ ~ok => answer.status \in Faults

KeyLoads == at = "load_plainkey" => call.arg = PLAINKEY

HaltInv ==
  /\ at \in Waiting \cup {"reset", "idle", "read", "halted"}
  /\ phase \in {"free", "pending", "halted"}
  /\ AwaitedInv /\ ReadyInv /\ AnswerInv /\ KeyLoads
  /\ at = "halted" => answer.status \in Faults

\* The engine tells a key from none.
KeyIsKey == PLAINKEY # NoKey

LEMMA HaltInvInit == Init => HaltInv
BY DEF Init, HaltInv, AwaitedInv, ReadyInv, AnswerInv, KeyLoads, Service!Init, Waiting, AfterInit

\* A call the program makes when what it needs is there.
LEMMA AskKeepsHaltInv ==
  ASSUME HaltInv, Service!Accept, at' \in Waiting, call'.op = OpAt(at'),
         Service!Legal(call'), at' = "load_plainkey" => call'.arg = PLAINKEY,
         at' # "init_rng" => seeded,
         at' \in AfterInit => key = PLAINKEY
  PROVE  HaltInv'
<1>1. phase' = "pending" /\ UNCHANGED <<key, seeded>>
  BY DEF Service!Accept
<1>2. AwaitedInv' /\ ReadyInv' /\ AnswerInv' /\ KeyLoads'
  BY <1>1 DEF AwaitedInv, ReadyInv, AnswerInv, KeyLoads, Waiting, AfterInit, Service!Legal
<1> QED
  BY <1>1, <1>2 DEF HaltInv, Waiting

\* What becomes of the call awaited.
LEMMA AnswerKeepsHaltInv ==
  ASSUME HaltInv, KeyIsKey, Answer
  PROVE  HaltInv'
<1>1. phase = "pending" /\ UNCHANGED <<at, call>>
  BY DEF Answer, program, Service!Install, Service!Seed, Service!AnswerOk, Service!AnswerError,
         Service!Halt
<1> USE DEF HaltInv, AwaitedInv, ReadyInv, AnswerInv, KeyLoads
<1>2. CASE Service!Install
  BY <1>1, <1>2 DEF Service!Install, Service!Legal, Waiting, AfterInit, OpAt
<1>3. CASE Service!Seed
  BY <1>1, <1>3 DEF Service!Seed, Service!Legal, Waiting, AfterInit, OpAt
<1>4. CASE Service!AnswerOk
  BY <1>1, <1>4 DEF Service!AnswerOk, Service!Enabling, Service!Legal, Service!NoError,
                    Waiting, AfterInit, OpAt
<1>5. CASE Service!AnswerError
  BY <1>1, <1>5 DEF Service!AnswerError, Service!Errors, Service!NoError, KeyIsKey,
                    Service!KnownErrors, Service!KeyEmpty, Service!RngSeed,
                    Service!CbcOps, Service!MacOps, Service!Legal, Waiting, AfterInit, OpAt
<1>6. CASE Service!Halt
  BY <1>1, <1>6 DEF Service!Halt, Service!Legal, Waiting, AfterInit, OpAt
<1> QED
  BY <1>2, <1>3, <1>4, <1>5, <1>6 DEF Answer
\* The rest of the program, and the hardware, leave the engine alone.
LEMMA OtherKeepsHaltInv ==
  ASSUME HaltInv, UNCHANGED engine, at' \in {at, "idle", "read"},
         at' # at => phase = "free" /\ (at \in AfterInit \/ (seeded /\ key = PLAINKEY))
  PROVE  HaltInv'
BY DEF HaltInv, AwaitedInv, ReadyInv, AnswerInv, KeyLoads, engine, Waiting, AfterInit,
       Service!Legal, OpAt

LEMMA StepKeepsHaltInv ==
  ASSUME HaltInv, KeyIsKey, [Next]_vars
  PROVE  HaltInv'
<1>1. CASE init_rng
  <2>1. Service!Accept /\ Service!Legal(call') /\ at' \in Waiting /\ call'.op = OpAt(at')
    BY <1>1 DEF init_rng, Ask, Request, OpAt, Waiting, Service!Legal, Service!CbcOps
  <2>2. /\ at' = "load_plainkey" => call'.arg = PLAINKEY
        /\ at' # "init_rng" => seeded
        /\ at' \in AfterInit => key = PLAINKEY
    BY <1>1 DEF init_rng, Ask, Request, AfterInit
  <2> QED
    BY <2>1, <2>2, AskKeepsHaltInv
<1>2. CASE load_plainkey
  <2>1. Service!Accept /\ Service!Legal(call') /\ at' \in Waiting /\ call'.op = OpAt(at')
    BY <1>2 DEF load_plainkey, Ask, Request, OpAt, Waiting, Service!Legal, Service!CbcOps
  <2>2. /\ at' = "load_plainkey" => call'.arg = PLAINKEY
        /\ at' # "init_rng" => seeded
        /\ at' \in AfterInit => key = PLAINKEY
    BY <1>2 DEF load_plainkey, Ask, Request, AfterInit, Unwrapped, AnswerInv, HaltInv, Waiting
  <2> QED
    BY <2>1, <2>2, AskKeepsHaltInv
<1>3. CASE init_returns
  BY <1>3, OtherKeepsHaltInv
  DEF init_returns, Unwrapped, HaltInv, AnswerInv, ReadyInv, Waiting, AfterInit
<1>4. CASE poll_sensor
  BY <1>4, OtherKeepsHaltInv
  DEF poll_sensor, HaltInv, AwaitedInv, Waiting, AfterInit
<1>5. CASE read_runs \/ Deliver \/ Convert \/ Stay \/ UNCHANGED vars
  BY <1>5, OtherKeepsHaltInv
  DEF read_runs, Deliver, Convert, Stay, vars, program, engine
<1>6. CASE generate_rnd
  <2>1. Service!Accept /\ Service!Legal(call') /\ at' \in Waiting /\ call'.op = OpAt(at')
    BY <1>6 DEF generate_rnd, Ask, Request, OpAt, Waiting, Service!Legal, Service!CbcOps
  <2>2. /\ at' = "load_plainkey" => call'.arg = PLAINKEY
        /\ at' # "init_rng" => seeded
        /\ at' \in AfterInit => key = PLAINKEY
    BY <1>6 DEF generate_rnd, Ask, Request, AfterInit, HaltInv, ReadyInv
  <2> QED
    BY <2>1, <2>2, AskKeepsHaltInv
<1>7. CASE encrypt_cbc
  <2>1. Service!Accept /\ Service!Legal(call') /\ at' \in Waiting /\ call'.op = OpAt(at')
    BY <1>7 DEF encrypt_cbc, Ask, Request, OpAt, Waiting, Service!Legal, Service!CbcOps
  <2>2. /\ at' = "load_plainkey" => call'.arg = PLAINKEY
        /\ at' # "init_rng" => seeded
        /\ at' \in AfterInit => key = PLAINKEY
    BY <1>7 DEF encrypt_cbc, Ask, Request, AfterInit, Unwrapped, HaltInv, ReadyInv
  <2> QED
    BY <2>1, <2>2, AskKeepsHaltInv
<1>8. CASE generate_mac
  <2>1. Service!Accept /\ Service!Legal(call') /\ at' \in Waiting /\ call'.op = OpAt(at')
    BY <1>8 DEF generate_mac, Ask, Request, OpAt, Waiting, Service!Legal, Service!CbcOps
  <2>2. /\ at' = "load_plainkey" => call'.arg = PLAINKEY
        /\ at' # "init_rng" => seeded
        /\ at' \in AfterInit => key = PLAINKEY
    BY <1>8 DEF generate_mac, Ask, Request, AfterInit, Unwrapped, HaltInv, ReadyInv
  <2> QED
    BY <2>1, <2>2, AskKeepsHaltInv
<1>9. CASE transmit
  BY <1>9, OtherKeepsHaltInv
  DEF transmit, Unwrapped, AfterInit
<1>10. CASE unwrap_panics
  BY <1>10 DEF unwrap_panics, HaltInv, AwaitedInv, ReadyInv, AnswerInv, KeyLoads, engine,
               Waiting, AfterInit, Service!Legal, OpAt
<1>11. CASE Answer
  BY <1>11, AnswerKeepsHaltInv
<1> QED
  BY <1>1, <1>2, <1>3, <1>4, <1>5, <1>6, <1>7, <1>8, <1>9, <1>10, <1>11 DEF Next, Program

-----------------------------------------------------------------------------
(* What the frames hold.                                                    *)

AdcProof == INSTANCE AdcSensor_proof

\* The frame of the n-th poll.
SensorPage(n) == DataPage(u8_array_from_16_array(ReadingsOf(n)))
Encrypted(n, iv) == Cipher(PLAINKEY, "EncCbc", iv, <<SensorPage(n)>>)
Authenticated(iv, data) == Cmac(PLAINKEY, <<iv, data>>, 32)
IsFrame(f, n) ==
  /\ f.iv \in RandomPage
  /\ f.data = Encrypted(n, f.iv)
  /\ f.mac = Authenticated(f.iv, f.data)

\* The engine decrypts what it has encrypted, sixteen bytes are a page and a reading has
\* sixteen bits.
Octets == {n \in Nat : n < 256}
DecryptsBack ==
  \A iv \in RandomPage, bytes \in [0 .. 15 -> Octets] :
    /\ Cipher(PLAINKEY, "DecCbc", iv, <<Cipher(PLAINKEY, "EncCbc", iv, <<DataPage(bytes)>>)>>)
         = DataPage(bytes)
    /\ BytesOf(DataPage(bytes)) = bytes
Halfwords == \A t \in Int : Converted(t) \in Nat /\ Converted(t) < 65536

LEMMA BytesOfReading ==
  ASSUME NEW x \in Nat, x < 65536
  PROVE  /\ x \div 256 \in Octets /\ x % 256 \in Octets
         /\ 256 * (x \div 256) + (x % 256) = x
<1>1. x \div 256 \in Nat /\ x % 256 \in Nat /\ x % 256 < 256 /\ x = 256 * (x \div 256) + (x % 256)
  OBVIOUS
<1>2. x \div 256 < 256
  BY <1>1
<1> QED
  BY <1>1, <1>2 DEF Octets

LEMMA ReadingsAreHalfwords ==
  ASSUME Halfwords, NEW n \in Nat
  PROVE  /\ DOMAIN ReadingsOf(n) = 0 .. 3
         /\ \A s \in 0 .. 3 : ReadingsOf(n)[s] \in Nat /\ ReadingsOf(n)[s] < 65536
BY DEF ReadingsOf, Halfwords, Adc!Slots, Adc!CHANNEL_COUNT, Adc!Trigger

\* Two bytes for each reading, the higher first, and zeros after them.
LEMMA ReadingsAsBytes ==
  ASSUME Halfwords, NEW n \in Nat
  PROVE  LET bytes == u8_array_from_16_array(ReadingsOf(n))
         IN  /\ bytes \in [0 .. 15 -> Octets]
             /\ \A s \in 0 .. 3 : 256 * bytes[2 * s] + bytes[2 * s + 1] = ReadingsOf(n)[s]
             /\ \A b \in 8 .. 15 : bytes[b] = 0
<1> DEFINE r == ReadingsOf(n)
           bytes == u8_array_from_16_array(r)
<1>1. DOMAIN r = 0 .. 3 /\ \A s \in 0 .. 3 : r[s] \in Nat /\ r[s] < 65536
  BY ReadingsAreHalfwords
<1> HIDE DEF r
<1>2. \A s \in 0 .. 3 : /\ r[s] \div 256 \in Octets /\ r[s] % 256 \in Octets
                        /\ 256 * (r[s] \div 256) + (r[s] % 256) = r[s]
  <2> TAKE s \in 0 .. 3
  <2>1. PICK x \in Nat : x = r[s] /\ x < 65536
    BY <1>1
  <2>2. /\ x \div 256 \in Octets /\ x % 256 \in Octets
        /\ 256 * (x \div 256) + (x % 256) = x
    BY <2>1, BytesOfReading
  <2> QED
    BY <2>1, <2>2
<1>3. \A b \in 0 .. 15 :
        /\ b \div 2 \notin 0 .. 3 => bytes[b] = 0
        /\ b \div 2 \in 0 .. 3 /\ b % 2 = 0 => bytes[b] = r[b \div 2] \div 256
        /\ b \div 2 \in 0 .. 3 /\ b % 2 # 0 => bytes[b] = r[b \div 2] % 256
  BY <1>1 DEF u8_array_from_16_array
<1>4. DOMAIN bytes = 0 .. 15 /\ bytes = [b \in 0 .. 15 |-> bytes[b]]
  BY DEF u8_array_from_16_array
<1> HIDE DEF bytes
<1>5. bytes \in [0 .. 15 -> Octets]
  <2>1. ASSUME NEW b \in 0 .. 15 PROVE bytes[b] \in Octets
    <3>1. b \div 2 \in 0 .. 3 => bytes[b] \in Octets
      BY <1>2, <1>3
    <3>2. 0 \in Octets
      BY DEF Octets
    <3> QED
      BY <1>3, <3>1, <3>2
  <2> QED
    BY <1>4, <2>1
<1>6. ASSUME NEW s \in 0 .. 3 PROVE 256 * bytes[2 * s] + bytes[2 * s + 1] = r[s]
  <2>1. /\ 2 * s \in 0 .. 15 /\ (2 * s) \div 2 = s /\ (2 * s) % 2 = 0
        /\ 2 * s + 1 \in 0 .. 15 /\ (2 * s + 1) \div 2 = s /\ (2 * s + 1) % 2 # 0
    OBVIOUS
  <2>2. bytes[2 * s] = r[s] \div 256 /\ bytes[2 * s + 1] = r[s] % 256
    BY <1>3, <2>1
  <2>3. 256 * (r[s] \div 256) + (r[s] % 256) = r[s]
    BY <1>2
  <2> QED
    BY <2>2, <2>3
<1>7. ASSUME NEW b \in 8 .. 15 PROVE bytes[b] = 0
  <2>1. b \in 0 .. 15 /\ b \div 2 \notin 0 .. 3
    OBVIOUS
  <2> QED
    BY <1>3, <2>1
<1> QED
  BY <1>5, <1>6, <1>7 DEF r, bytes

\* The receiver finds the readings of the poll in its frame.
LEMMA FrameIsReceived ==
  ASSUME DecryptsBack, Halfwords, NEW f, NEW n \in Nat, IsFrame(f, n)
  PROVE  Received(f) = ReadingsOf(n)
<1> DEFINE bytes == u8_array_from_16_array(ReadingsOf(n))
<1>1. /\ bytes \in [0 .. 15 -> Octets]
      /\ \A s \in 0 .. 3 : 256 * bytes[2 * s] + bytes[2 * s + 1] = ReadingsOf(n)[s]
      /\ \A b \in 8 .. 15 : bytes[b] = 0
  BY ReadingsAsBytes
<1>2. f.mac = Cmac(PLAINKEY, <<f.iv, f.data>>, 32)
  BY DEF IsFrame, Authenticated
<1>3. BytesOf(Cipher(PLAINKEY, "DecCbc", f.iv, <<f.data>>)) = bytes
  BY <1>1 DEF IsFrame, Encrypted, SensorPage, DecryptsBack
<1>4. Received(f) = [s \in Adc!Slots |-> 256 * bytes[2 * s] + bytes[2 * s + 1]]
  BY <1>1, <1>2, <1>3 DEF Received
<1>5. Adc!Slots = 0 .. 3
  BY DEF Adc!Slots, Adc!CHANNEL_COUNT
<1>6. ReadingsOf(n) = [s \in Adc!Slots |-> ReadingsOf(n)[s]]
  BY DEF ReadingsOf
<1> QED
  BY <1>1, <1>4, <1>5, <1>6
-----------------------------------------------------------------------------
(* What the program, the engine and the channel keep while a frame is built. *)

Starting == {"reset", "init_rng", "load_plainkey"}
Polling == {"read", "generate_rnd", "encrypt_cbc", "generate_mac"}

\* The polls begun, the frames handed over and those on the bus.
CountInv ==
  /\ accepted \in Nat /\ delivered \in Nat
  /\ accepted \in {delivered, delivered + 1}
  /\ poll \in 0 .. MaxPolls /\ accepted <= poll
  /\ at \in Starting => poll = 0 /\ accepted = 0
  /\ at = "idle" => poll = accepted
  /\ at \in Polling => poll = accepted + 1
  /\ at \in Polling \cup {"halted"} => delivered = accepted
  /\ pc # "idle" => at = "read"

Answered == phase = "free" /\ answer.status = Service!NoError

\* The payload under construction, and the call that gives its next part.
BuildInv ==
  /\ DOMAIN payload = {"mac", "iv", "data"}
  /\ at = "generate_rnd" /\ Answered => answer.value[1] \in RandomPage
  /\ at = "encrypt_cbc" =>
       /\ payload.iv \in RandomPage /\ call.arg = payload.iv
       /\ call.msg.page = <<SensorPage(poll)>>
       /\ Answered => answer.value[1] = Encrypted(poll, payload.iv)
  /\ at = "generate_mac" =>
       /\ payload.iv \in RandomPage /\ payload.data = Encrypted(poll, payload.iv)
       /\ call.msg = [page |-> <<payload.iv, payload.data>>, bytes |-> 32]
       /\ Answered => answer.value[1] = Authenticated(payload.iv, payload.data)

SentInv ==
  /\ accepted > 0 => IsFrame(frame, accepted)
  /\ delivered > 0 => IsFrame(bus, delivered)

FeedInv == HaltInv /\ AdcProof!AdcInv /\ CountInv /\ BuildInv /\ SentInv

PollsAssumption == MaxPolls \in Nat \ {0}

LEMMA FeedInvInit ==
  ASSUME AdcProof!TimingAssumption, PollsAssumption, Init
  PROVE  FeedInv
<1>1. AdcProof!Init
  BY DEF Init, Adc!Init, AdcProof!Init, Adc!Slots, AdcProof!Slots, Adc!CHANNEL_COUNT,
         AdcProof!CHANNEL_COUNT, Adc!Reset, AdcProof!Reset, Adc!None, AdcProof!None
<1>2. AdcProof!AdcInv
  BY <1>1, AdcProof!InitAdcInv
<1>3. CountInv /\ BuildInv /\ SentInv
  BY DEF Init, CountInv, BuildInv, SentInv, Zeros, Adc!Init, Channel!Init, PollsAssumption,
         Starting, Polling
<1> QED
  BY <1>2, <1>3, HaltInvInit DEF FeedInv

\* The CPU and the converter at work for ADC::read.
LEMMA ReadSteps == ASSUME read_runs \/ Convert PROVE AdcProof!Next
<1>1. CASE read_runs
  <2>1. Adc!CPU
    BY <1>1 DEF read_runs
  <2>2. AdcProof!CPU
    BY <2>1
    DEF Adc!CPU, Adc!select, Adc!trigger, Adc!wait, Adc!result, Adc!sleep, Adc!next_sensor,
        Adc!Start, Adc!Tick, Adc!Converting, Adc!None, Adc!Dummy, Adc!Trigger,
        Adc!CHANNEL_COUNT, Adc!adc, AdcProof!CPU, AdcProof!select, AdcProof!trigger,
        AdcProof!wait, AdcProof!result, AdcProof!sleep, AdcProof!next_sensor, AdcProof!Start,
        AdcProof!Tick, AdcProof!Converting, AdcProof!None, AdcProof!Dummy, AdcProof!Trigger,
        AdcProof!CHANNEL_COUNT, AdcProof!adc
  <2> QED
    BY <2>2 DEF AdcProof!Next
<1>2. CASE Convert
  BY <1>2 DEF Convert, Adc!Complete, Adc!cpu, Adc!Converting, Adc!None, AdcProof!Next,
     AdcProof!Complete, AdcProof!Converting, AdcProof!None, AdcProof!cpu
<1> QED
  BY <1>1, <1>2

\* A step of the program is a step of the converter and its driver, or leaves them alone.
LEMMA AdcSteps ==
  ASSUME [MCNext]_vars
  PROVE  [AdcProof!Next]_(AdcProof!vars)
<1> USE DEF AdcProof!vars, AdcProof!cpu, AdcProof!adc
<1>1. CASE poll_sensor
  BY <1>1 DEF poll_sensor, Adc!read, Adc!adc, AdcProof!Next, AdcProof!read, Adc!Slots,
     AdcProof!Slots, Adc!CHANNEL_COUNT, AdcProof!CHANNEL_COUNT, Adc!Reset, AdcProof!Reset
<1>2. CASE read_runs \/ Convert
  BY <1>2, ReadSteps
<1>3. CASE UNCHANGED adc
  BY <1>3 DEF adc
<1> QED
  BY <1>1, <1>2, <1>3
  DEF MCNext, Program, init_rng, load_plainkey, init_returns, generate_rnd, encrypt_cbc,
      generate_mac, transmit, unwrap_panics, Deliver, Answer, Stay, vars

LEMMA HaltAndAdcKept ==
  ASSUME FeedInv, KeyIsKey, AdcProof!TimingAssumption, [MCNext]_vars
  PROVE  HaltInv' /\ AdcProof!AdcInv'
<1>1. [Next]_vars
  BY DEF MCNext, Next
<1>2. HaltInv'
  BY <1>1, StepKeepsHaltInv DEF FeedInv
<1>3. AdcProof!AdcInv'
  BY AdcSteps, AdcProof!NextKeepsAdcInv DEF FeedInv
<1> QED
  BY <1>2, <1>3

\* A poll reads the sensors once and hands over one frame.
LEMMA CountKept ==
  ASSUME FeedInv, PollsAssumption, [MCNext]_vars
  PROVE  CountInv'
<1> USE DEF CountInv, Starting, Polling
<1>1. CountInv
  BY DEF FeedInv
<1>2. CASE poll_sensor /\ poll < MaxPolls
  BY <1>1, <1>2 DEF poll_sensor, Adc!read, channel, PollsAssumption
<1>3. CASE read_runs
  <2>1. UNCHANGED <<poll, at, accepted, delivered>>
    BY <1>3 DEF read_runs, program, channel, Adc!CPU, Adc!select, Adc!trigger, Adc!wait,
       Adc!result, Adc!sleep, Adc!next_sensor
  <2> QED
    BY <1>1, <1>3, <2>1 DEF read_runs
<1>4. CASE Convert
  BY <1>1, <1>4 DEF Convert, Adc!Complete, Adc!cpu, program, channel
<1>5. CASE init_rng \/ load_plainkey
  BY <1>1, <1>5 DEF init_rng, load_plainkey, Ask, Unwrapped, adc, channel
<1>6. CASE init_returns
  BY <1>1, <1>6 DEF init_returns, Unwrapped, adc, channel
<1>7. CASE generate_rnd \/ encrypt_cbc \/ generate_mac
  BY <1>1, <1>7 DEF generate_rnd, encrypt_cbc, generate_mac, Ask, Unwrapped, adc, channel
<1>8. CASE transmit
  BY <1>1, <1>8 DEF transmit, Unwrapped, Channel!Transmit, adc
<1>9. CASE unwrap_panics
  BY <1>1, <1>9, PollsAssumption DEF unwrap_panics, Waiting, adc, channel
<1>10. CASE Deliver
  BY <1>1, <1>10 DEF Deliver, Channel!Deliver, adc
<1>11. CASE Answer
  BY <1>1, <1>11 DEF Answer, program, adc, channel
<1>12. CASE UNCHANGED vars
  BY <1>1, <1>12 DEF vars, program, adc, channel
<1> QED
  BY <1>2, <1>3, <1>4, <1>5, <1>6, <1>7, <1>8, <1>9, <1>10, <1>11, <1>12
  DEF MCNext, Program, Stay

\* What AdcSensor leaves in values when read returns.
LEMMA ValuesRead ==
  ASSUME AdcProof!AdcInv, pc = "idle", poll > 0
  PROVE  sensor_values = ReadingsOf(poll)
<1>1. i = 4
  BY DEF AdcProof!AdcInv, AdcProof!ReadInv, AdcProof!CHANNEL_COUNT
<1>2. \A s \in Adc!Slots : values[s] = Adc!Trigger(poll, s) - 1
  BY <1>1 DEF AdcProof!AdcInv, AdcProof!ReadingsInOrder, AdcProof!Slots, AdcProof!Trigger,
     AdcProof!CHANNEL_COUNT, Adc!Slots, Adc!Trigger, Adc!CHANNEL_COUNT
<1> QED
  BY <1>2 DEF sensor_values, ReadingsOf

LEMMA OnePage == ASSUME NEW x PROVE SubSeq(<<x>>, 1, 1) = <<x>>
<1> DEFINE s == <<x>>
<1>1. s \in Seq({x}) /\ Len(s) = 1 /\ s[1] = x
  OBVIOUS
<1> HIDE DEF s
<1>2. SubSeq(s, 1, 1) \in Seq({x}) /\ Len(SubSeq(s, 1, 1)) = 1 /\ SubSeq(s, 1, 1)[1] = x
  BY <1>1
<1>3. SubSeq(s, 1, 1) = s
  BY <1>1, <1>2
<1> QED
  BY <1>3 DEF s

\* The engine's answers are the parts of the frame.
LEMMA AnswerBuilds ==
  ASSUME FeedInv, Answer
  PROVE  BuildInv'
<1>1. phase = "pending" /\ UNCHANGED <<at, payload, poll, call>>
  BY DEF Answer, program, adc, Service!Install, Service!Seed, Service!AnswerOk,
     Service!AnswerError, Service!Halt
<1>2. CASE Service!AnswerOk
  <2>1. answer'.status = Service!NoError /\ answer'.value \in Service!Values(call, key)
    BY <1>2 DEF Service!AnswerOk
  <2>2. CASE at = "generate_rnd"
    <3>1. call.op = "Rng"
      BY <2>2 DEF FeedInv, HaltInv, AwaitedInv, OpAt, Waiting
    <3>2. PICK p \in RandomPage : answer'.value = <<p>>
      BY <2>1, <3>1 DEF Service!Values, Service!CbcOps
    <3>3. answer'.value[1] \in RandomPage
      BY <3>2
    <3> QED
      BY <1>1, <2>2, <3>3 DEF FeedInv, BuildInv
  <2>3. CASE at = "encrypt_cbc"
    <3>1. call.op = "EncCbc" /\ key = PLAINKEY /\ call.msg.page = <<SensorPage(poll)>>
          /\ call.arg = payload.iv /\ payload.iv \in RandomPage
      BY <2>3 DEF FeedInv, HaltInv, AwaitedInv, ReadyInv, OpAt, Waiting, AfterInit, BuildInv
    <3>2. answer'.value = Service!CbcResult(key, call)
      BY <2>1, <3>1 DEF Service!Values, Service!CbcOps
    <3>3. answer'.value[1] =
            Cipher(PLAINKEY, "EncCbc", payload.iv, SubSeq(<<SensorPage(poll)>>, 1, 1))
      BY <3>1, <3>2 DEF Service!CbcResult
    <3>4. SubSeq(<<SensorPage(poll)>>, 1, 1) = <<SensorPage(poll)>>
      BY OnePage
    <3> QED
      BY <1>1, <2>3, <3>1, <3>3, <3>4 DEF FeedInv, BuildInv, Encrypted, SensorPage, ReadingsOf
  <2>4. CASE at = "generate_mac"
    <3>1. call.op = "GenerateMac" /\ key = PLAINKEY
          /\ call.msg = [page |-> <<payload.iv, payload.data>>, bytes |-> 32]
      BY <2>4 DEF FeedInv, HaltInv, AwaitedInv, ReadyInv, OpAt, Waiting, AfterInit, BuildInv
    <3>2. answer'.value[1] = Authenticated(payload.iv, payload.data)
      BY <2>1, <3>1 DEF Service!Values, Service!CbcOps, Service!MacOf, Authenticated
    <3> QED
      BY <1>1, <2>4, <3>1, <3>2 DEF FeedInv, BuildInv, Encrypted, Authenticated
  <2> QED
    BY <1>1, <2>2, <2>3, <2>4 DEF FeedInv, BuildInv
<1>3. CASE Service!AnswerError
  <2>1. answer'.status # Service!NoError
    BY <1>3 DEF Service!AnswerError, Service!Errors, Service!KnownErrors, Service!KeyEmpty,
       Service!RngSeed, Service!NoError
  <2> QED
    BY <1>1, <2>1 DEF FeedInv, BuildInv, Answered, Encrypted
<1>4. CASE Service!Install \/ Service!Seed \/ Service!Halt
  <2>1. phase' # "free"
    BY <1>4 DEF Service!Install, Service!Seed, Service!Halt
  <2> QED
    BY <1>1, <2>1 DEF FeedInv, BuildInv, Answered, Encrypted
<1> QED
  BY <1>2, <1>3, <1>4 DEF Answer

LEMMA BuildKept ==
  ASSUME FeedInv, [MCNext]_vars
  PROVE  BuildInv'
<1>1. BuildInv /\ CountInv
  BY DEF FeedInv
<1>2. CASE poll_sensor
  BY <1>2 DEF poll_sensor, BuildInv, Zeros
<1>3. CASE read_runs
  BY <1>1, <1>3 DEF read_runs, program, BuildInv
<1>4. CASE init_rng \/ load_plainkey \/ generate_rnd
  BY <1>1, <1>4 DEF init_rng, load_plainkey, generate_rnd, Ask, BuildInv, Answered,
     Service!Accept
<1>5. CASE init_returns
  BY <1>1, <1>5 DEF init_returns, BuildInv
<1>6. CASE encrypt_cbc
  <2>1. sensor_values = ReadingsOf(poll)
    BY <1>1, <1>6, ValuesRead DEF encrypt_cbc, Unwrapped, FeedInv, CountInv, Polling
  <2>2. answer.value[1] \in RandomPage
    BY <1>1, <1>6 DEF encrypt_cbc, Unwrapped, BuildInv, Answered
  <2>3. ~Answered'
    BY <1>6 DEF encrypt_cbc, Ask, Service!Accept, Answered
  <2> QED
    BY <1>1, <1>6, <2>1, <2>2, <2>3
    DEF encrypt_cbc, Ask, BuildInv, SensorPage, adc
<1>7. CASE generate_mac
  <2>1. phase' # "free"
    BY <1>7 DEF generate_mac, Ask, Service!Accept
  <2>2. payload.iv \in RandomPage /\ answer.value[1] = Encrypted(poll, payload.iv)
    BY <1>1, <1>7 DEF generate_mac, Unwrapped, BuildInv, Answered
  <2> QED
    BY <1>1, <1>7, <2>1, <2>2 DEF generate_mac, Ask, BuildInv, Answered, Request, adc
<1>8. CASE transmit \/ unwrap_panics
  BY <1>1, <1>8 DEF transmit, unwrap_panics, BuildInv
<1>9. CASE Answer
  BY <1>9, AnswerBuilds
<1>10. CASE Convert
  BY <1>1, <1>10 DEF Convert, program, engine, Adc!Complete, Adc!cpu, BuildInv, Answered
<1>11. CASE Deliver \/ UNCHANGED vars
  BY <1>1, <1>11 DEF Deliver, vars, program, engine, adc, BuildInv, Answered
<1> QED
  BY <1>2, <1>3, <1>4, <1>5, <1>6, <1>7, <1>8, <1>9, <1>10, <1>11 DEF MCNext, Program, Stay

LEMMA SentKept ==
  ASSUME FeedInv, [MCNext]_vars
  PROVE  SentInv'
<1>1. SentInv /\ BuildInv /\ CountInv
  BY DEF FeedInv
<1>2. CASE transmit
  <2>1. /\ payload.iv \in RandomPage /\ payload.data = Encrypted(poll, payload.iv)
        /\ answer.value[1] = Authenticated(payload.iv, payload.data)
    BY <1>1, <1>2 DEF transmit, Unwrapped, BuildInv, Answered
  <2>2. /\ frame' = [payload EXCEPT !.mac = answer.value[1]]
        /\ accepted' = poll /\ UNCHANGED <<delivered, bus>>
    BY <1>1, <1>2 DEF transmit, Unwrapped, Channel!Transmit, CountInv, Polling
  <2>3. IsFrame(frame', poll)
    BY <1>1, <2>1, <2>2 DEF IsFrame, BuildInv
  <2> QED
    BY <1>1, <2>2, <2>3 DEF SentInv
<1>3. CASE Deliver
  <2>1. bus' = frame /\ delivered' = accepted /\ UNCHANGED <<accepted, frame>> /\ accepted > 0
    BY <1>1, <1>3 DEF Deliver, Channel!Deliver, CountInv
  <2> QED
    BY <1>1, <2>1 DEF SentInv
<1>4. CASE UNCHANGED <<frame, bus, accepted, delivered>>
  BY <1>1, <1>4 DEF SentInv
<1> QED
  BY <1>2, <1>3, <1>4
  DEF MCNext, Program, poll_sensor, read_runs, Convert, init_rng, load_plainkey, init_returns,
      generate_rnd, encrypt_cbc, generate_mac, unwrap_panics, Answer, Stay, vars, program, channel

LEMMA FeedInvStep ==
  ASSUME FeedInv, KeyIsKey, AdcProof!TimingAssumption, PollsAssumption, [MCNext]_vars
  PROVE  FeedInv'
BY HaltAndAdcKept, CountKept, BuildKept, SentKept DEF FeedInv

-----------------------------------------------------------------------------
(* The promise to the receiver.                                             *)

\* After the call that failed nothing is on its way.
LEMMA AliveUntilSent ==
  ASSUME FeedInv, PollsAssumption
  PROVE  /\ delivered < accepted => ~Halted
         /\ at \in Waiting => delivered < MaxPolls
<1>1. HaltInv /\ CountInv
  BY DEF FeedInv
<1>2. at \in Waiting \cup {"halted"} => delivered = accepted
  BY <1>1 DEF CountInv, Waiting, Starting, Polling
<1>3. Halted => at \in Waiting \cup {"halted"}
  BY <1>1 DEF Halted, HaltInv, AwaitedInv
<1>4. at \in Waiting => delivered < MaxPolls
  BY <1>1, PollsAssumption DEF CountInv, Waiting, Starting, Polling, PollsAssumption
<1>5. delivered \in Nat /\ accepted \in Nat
  BY <1>1 DEF CountInv
<1> QED
  BY <1>2, <1>3, <1>4, <1>5

LEMMA FeedInit == ASSUME FeedInv, Init PROVE Feed!Init
BY DEF Init, Feed!Init, Channel!Init, Halted, Service!Init

\* What a delivered frame shows is the next poll.
LEMMA DeliverSends ==
  ASSUME FeedInv, FeedInv', PollsAssumption, DecryptsBack, Halfwords, Deliver
  PROVE  Feed!Send
<1>1. delivered' = accepted /\ delivered' = delivered + 1 /\ delivered < accepted
      /\ UNCHANGED <<at, phase>> /\ accepted \in Nat /\ delivered \in Nat
      /\ delivered < MaxPolls
  BY DEF Deliver, Channel!Deliver, engine, FeedInv, CountInv, PollsAssumption
<1>2. IsFrame(bus', delivered')
  BY <1>1 DEF FeedInv, SentInv
<1>3. Received(bus') = ReadingsOf(delivered')
  BY <1>1, <1>2, FrameIsReceived
<1> QED
  BY <1>1, <1>3, AliveUntilSent DEF Feed!Send, Halted

LEMMA PanicStops ==
  ASSUME FeedInv, PollsAssumption, unwrap_panics \/ (Answer /\ Service!Halt)
  PROVE  Feed!Stop
<1>1. at \in Waiting /\ ~Halted /\ Halted' /\ UNCHANGED <<delivered, bus>>
  BY DEF unwrap_panics, Answer, Service!Halt, Halted, program, channel, Waiting, FeedInv, HaltInv,
     AwaitedInv
<1>2. Faults # {}
  BY DEF unwrap_panics, Answer, Service!Halt, FeedInv, HaltInv, AnswerInv
<1>3. delivered < MaxPolls
  BY <1>1, AliveUntilSent
<1> QED
  BY <1>1, <1>2, <1>3 DEF Feed!Stop

\* csec.rs accepts every call of the program.
LEMMA CallsAreLegal ==
  ASSUME init_rng \/ load_plainkey \/ generate_rnd \/ encrypt_cbc \/ generate_mac
  PROVE  Service!Legal(call')
BY DEF init_rng, load_plainkey, generate_rnd, encrypt_cbc, generate_mac, Ask, Request,
       Service!Legal, Service!CbcOps

LEMMA StepFeeds ==
  ASSUME FeedInv, FeedInv', PollsAssumption, DecryptsBack, Halfwords, [MCNext]_vars
  PROVE  [Feed!Next]_(Feed!feed)
<1>1. CASE Deliver
  BY <1>1, DeliverSends DEF Feed!Next
<1>2. CASE unwrap_panics \/ (Answer /\ Service!Halt)
  BY <1>2, PanicStops DEF Feed!Next
<1>3. CASE Answer /\ ~Service!Halt
  <2>1. phase = "pending" /\ phase' # "halted" /\ UNCHANGED <<at, delivered, bus>>
    BY <1>3 DEF Answer, program, channel, Service!Install, Service!Seed, Service!AnswerOk,
       Service!AnswerError
  <2> QED
    BY <2>1 DEF Feed!feed, Halted
<1>4. CASE init_rng \/ load_plainkey \/ generate_rnd \/ encrypt_cbc \/ generate_mac
  <2>1. Service!Accept /\ at # "halted" /\ at' # "halted" /\ UNCHANGED <<delivered, bus>>
    BY <1>4 DEF init_rng, load_plainkey, generate_rnd, encrypt_cbc, generate_mac, Ask, Unwrapped,
       channel
  <2>2. phase = "free" /\ phase' = "pending"
    BY <1>4, <2>1, CallsAreLegal DEF Service!Accept
  <2> QED
    BY <2>1, <2>2 DEF Feed!feed, Halted
<1>5. CASE init_returns \/ poll_sensor \/ read_runs \/ transmit \/ Convert \/ UNCHANGED vars
  <2>1. at' = at \/ (at # "halted" /\ at' # "halted")
    BY <1>5 DEF init_returns, poll_sensor, read_runs, transmit, Convert, Unwrapped, program, vars
  <2>2. UNCHANGED <<phase, delivered, bus>>
    BY <1>5 DEF init_returns, poll_sensor, read_runs, transmit, Convert, program, engine, channel,
       vars, Channel!Transmit
  <2> QED
    BY <2>1, <2>2 DEF Feed!feed, Halted
<1> QED
  BY <1>1, <1>2, <1>3, <1>4, <1>5 DEF MCNext, Program, Stay

\* Only a fault of the engine's own stops the program: init seeds the generator and loads
\* the key before any poll, and csec.rs accepts every call (main.rs:194-196, :232-244); for
\* every engine that tells a key from none.
THEOREM AlwaysHaltsOnFaultOnly == ASSUME KeyIsKey PROVE Spec => []HaltsOnFaultOnly
<1>1. HaltInv => HaltsOnFaultOnly
  BY DEF HaltInv, AwaitedInv, HaltsOnFaultOnly
<1> QED
  BY HaltInvInit, StepKeepsHaltInv, <1>1, PTL DEF Spec

\* Every frame main.rs hands to the bus verifies and decrypts, by the recipe of its
\* comment (main.rs:28-39), to the readings of the next poll: each step of the program is
\* a step, or a stutter, of SensorFeed, for every timing of the converter and every
\* engine that decrypts what it has encrypted.
THEOREM ReceiverReadsEveryPoll ==
  ASSUME KeyIsKey, AdcProof!TimingAssumption, PollsAssumption, DecryptsBack, Halfwords
  PROVE  MCSpec => Feed!Init /\ [][Feed!Next]_(Feed!feed)
<1>1. Init => FeedInv
  BY FeedInvInit
<1>2. FeedInv /\ [MCNext]_vars => FeedInv'
  BY FeedInvStep
<1>3. FeedInv /\ Init => Feed!Init
  BY FeedInit
<1>4. FeedInv /\ FeedInv' /\ [MCNext]_vars => [Feed!Next]_(Feed!feed)
  BY StepFeeds
<1> QED
  BY <1>1, <1>2, <1>3, <1>4, PTL DEF MCSpec
-----------------------------------------------------------------------------
(* Types.                                                                   *)

\* Zeros, what the generator draws and what the engine makes of the program's own inputs
\* are pages.
PagesAssumption ==
  /\ ZeroPage \in Page /\ RandomPage \subseteq Page
  /\ \A iv \in RandomPage, bytes \in [0 .. 15 -> Octets] :
       LET data == Cipher(PLAINKEY, "EncCbc", iv, <<DataPage(bytes)>>)
       IN  data \in Page /\ Authenticated(iv, data) \in Page

Frames == [mac : Page, iv : Page, data : Page]
PageInv ==
  /\ payload \in Frames /\ frame \in Frames /\ bus \in Frames
  /\ key \in {NoKey, PLAINKEY}

LEMMA EncryptedIsPage ==
  ASSUME PagesAssumption, Halfwords, NEW n \in Nat, NEW iv \in RandomPage
  PROVE  Encrypted(n, iv) \in Page /\ Authenticated(iv, Encrypted(n, iv)) \in Page
<1>1. u8_array_from_16_array(ReadingsOf(n)) \in [0 .. 15 -> Octets]
  BY ReadingsAsBytes
<1> QED
  BY <1>1 DEF PagesAssumption, Encrypted, SensorPage

LEMMA PageInvInit == ASSUME PagesAssumption, Init PROVE PageInv
BY DEF Init, PageInv, Frames, Zeros, PagesAssumption, Service!Init

\* Each part of the payload is put in its place as a page.
LEMMA PageInvStep ==
  ASSUME PageInv, FeedInv, PagesAssumption, Halfwords, PollsAssumption, [MCNext]_vars
  PROVE  PageInv'
<1> USE DEF PageInv, Frames
<1>1. BuildInv /\ CountInv /\ HaltInv /\ poll \in Nat
  BY DEF FeedInv, CountInv, PollsAssumption
<1>2. CASE poll_sensor
  BY <1>2 DEF poll_sensor, engine, Zeros, PagesAssumption
<1>3. CASE encrypt_cbc
  <2>1. answer.value[1] \in Page
    BY <1>1, <1>3 DEF encrypt_cbc, Unwrapped, BuildInv, Answered, PagesAssumption
  <2>2. /\ payload' = [payload EXCEPT !.iv = answer.value[1]]
        /\ UNCHANGED <<frame, bus, key>>
    BY <1>3 DEF encrypt_cbc, Ask, Service!Accept
  <2> QED
    BY <2>1, <2>2
<1>4. CASE generate_mac
  <2>1. answer.value[1] \in Page
    BY <1>1, <1>4, EncryptedIsPage DEF generate_mac, Unwrapped, BuildInv, Answered
  <2>2. /\ payload' = [payload EXCEPT !.data = answer.value[1]]
        /\ UNCHANGED <<frame, bus, key>>
    BY <1>4 DEF generate_mac, Ask, Service!Accept
  <2> QED
    BY <2>1, <2>2
<1>5. CASE transmit
  <2>1. answer.value[1] \in Page
    BY <1>1, <1>5, EncryptedIsPage DEF transmit, Unwrapped, BuildInv, Answered
  <2>2. /\ payload' = [payload EXCEPT !.mac = answer.value[1]] /\ frame' = payload'
        /\ UNCHANGED <<bus, key>>
    BY <1>5 DEF transmit, engine
  <2> QED
    BY <2>1, <2>2
<1>6. CASE Deliver
  BY <1>6 DEF Deliver, engine
<1>7. CASE Answer
  <2>1. UNCHANGED <<payload, frame, bus>>
    BY <1>7 DEF Answer, program
  <2>2. CASE Service!Install
    <3>1. at = "load_plainkey"
      BY <1>1, <2>2 DEF Service!Install, HaltInv, AwaitedInv, OpAt, Waiting
    <3>2. key' = PLAINKEY
      BY <1>1, <2>2, <3>1 DEF Service!Install, HaltInv, KeyLoads
    <3> QED
      BY <2>1, <3>2
  <2>3. CASE ~Service!Install
    BY <1>7, <2>1, <2>3
    DEF Answer, Service!Seed, Service!AnswerOk, Service!AnswerError, Service!Halt
  <2> QED
    BY <2>2, <2>3
<1>8. CASE UNCHANGED <<payload, frame, bus, key>>
  BY <1>8
<1> QED
  BY <1>2, <1>3, <1>4, <1>5, <1>6, <1>7, <1>8
  DEF MCNext, Program, read_runs, Convert, init_rng, load_plainkey, init_returns, generate_rnd,
      unwrap_panics, Ask, Service!Accept, Stay, vars, program, engine

LEMMA TypesAgree == ASSUME FeedInv, PageInv PROVE TypeOK
<1>1. Adc!TypeOK
  BY DEF FeedInv, AdcProof!AdcInv, AdcProof!TypeOK, AdcProof!Slots, AdcProof!CHANNEL_COUNT,
     AdcProof!Samples, AdcProof!Dummy, AdcProof!None, Adc!TypeOK, Adc!Slots, Adc!CHANNEL_COUNT,
     Adc!Samples, Adc!Dummy, Adc!None
<1> QED
  BY <1>1 DEF TypeOK, PageInv, Frames, FeedInv, HaltInv, CountInv

\* Every part of a payload, a frame handed over or seen on the bus is a page, the RAM key
\* is none or PLAINKEY, and the channel is at most one frame behind (main.rs:217-249), for
\* every engine that makes pages of pages.
THEOREM AlwaysTypeOK ==
  ASSUME KeyIsKey, AdcProof!TimingAssumption, PollsAssumption, PagesAssumption, Halfwords
  PROVE  MCSpec => []TypeOK
<1>1. Init => FeedInv /\ PageInv
  BY FeedInvInit, PageInvInit
<1>2. (FeedInv /\ PageInv) /\ [MCNext]_vars => (FeedInv /\ PageInv)'
  BY FeedInvStep, PageInvStep
<1>3. FeedInv /\ PageInv => TypeOK
  BY TypesAgree
<1> QED
  BY <1>1, <1>2, <1>3, PTL DEF MCSpec
-----------------------------------------------------------------------------
(* How far the program has still to go.                                      *)

\* Between two polls.
Quiet == at = "idle" /\ delivered = accepted

\* The returns the program still awaits.
Stage ==
  CASE at = "reset"         -> 3
    [] at = "init_rng"      -> 2
    [] at = "load_plainkey" -> 1
    [] at = "read"          -> 5
    [] at = "generate_rnd"  -> 4
    [] at = "encrypt_cbc"   -> 3
    [] at = "generate_mac"  -> 2
    [] at = "idle"          -> IF delivered = accepted THEN 0 ELSE 1
    [] OTHER                -> 0

\* The engine answers each call once, after the effect it has.
EffectDue ==
  \/ call.op = "LoadPlainKey" /\ key # call.arg
  \/ call.op = "InitRng" /\ ~seeded
EngineWork == IF phase # "pending" THEN 0 ELSE IF EffectDue THEN 2 ELSE 1

PollWork == 3 * Stage + EngineWork + AdcProof!ReadWork

\* No poll, and no start, takes more than that.
WorkBounded == PollWork \in 0 .. 15 + 2 * AdcProof!SensorTicks * AdcProof!CHANNEL_COUNT

\* Every step between two quiet states, of the program, the engine, the converter or the
\* bus, brings the next one, or the end, nearer: nothing is repeated, and none of them
\* makes work for another that the program has not asked for (main.rs:217-249).
PollsShrink == [][~Quiet => PollWork' < PollWork]_vars

LEMMA EngineFacts ==
  /\ EngineWork \in 0 .. 2
  /\ phase # "pending" => EngineWork = 0
  /\ phase = "pending" => EngineWork > 0
BY DEF EngineWork

LEMMA StageFacts ==
  ASSUME FeedInv
  PROVE  /\ Stage \in 0 .. 5 /\ (at = "read" \/ Stage < 5)
         /\ at # "read" => AdcProof!ReadWork = 0
<1>1. Stage \in 0 .. 5 /\ (at = "read" \/ Stage < 5)
  BY DEF Stage
<1>2. at # "read" => pc = "idle"
  BY DEF FeedInv, CountInv
<1> QED
  BY <1>1, <1>2 DEF AdcProof!ReadWork

LEMMA WorkFacts ==
  ASSUME FeedInv, AdcProof!TimingAssumption
  PROVE  WorkBounded
<1> DEFINE n == 2 * AdcProof!SensorTicks * AdcProof!CHANNEL_COUNT
<1>1. AdcProof!ReadWork \in 0 .. n
  BY AdcProof!WorkFacts DEF FeedInv, AdcProof!WorkBounded
<1>2. n \in Nat /\ n >= 40
  BY DEF AdcProof!TimingAssumption, AdcProof!SensorTicks, AdcProof!CHANNEL_COUNT
<1>3. at = "read" => EngineWork = 0
  <2>1. at = "read" => phase # "pending"
    BY DEF FeedInv, HaltInv, AwaitedInv, Waiting
  <2> QED
    BY <2>1, EngineFacts
<1> HIDE DEF n
<1>4. PollWork \in 0 .. 15 + n
  BY <1>1, <1>2, <1>3, EngineFacts, StageFacts DEF PollWork
<1> QED
  BY <1>4 DEF WorkBounded, n

\* A step of the program that makes no call for the engine, or the one it asks.
LEMMA StageShrinks ==
  ASSUME FeedInv, FeedInv', at # "read" \/ pc = "idle", at' # "read"
  PROVE  Stage' < Stage /\ EngineWork = 0 => PollWork' < PollWork
<1>1. AdcProof!ReadWork = 0
  BY StageFacts DEF AdcProof!ReadWork
<1>2. AdcProof!ReadWork' = 0 /\ Stage' \in 0 .. 5
  <2>1. CountInv'
    BY DEF FeedInv
  <2>2. pc' = "idle"
    BY <2>1 DEF CountInv
  <2> QED
    BY <2>2 DEF AdcProof!ReadWork, Stage
<1>3. EngineWork' \in 0 .. 2
  BY DEF EngineWork
<1>4. PICK s \in 0 .. 5 : s = Stage
  BY StageFacts
<1>5. PICK t \in 0 .. 5, w \in 0 .. 2 : t = Stage' /\ w = EngineWork'
  BY <1>2, <1>3
<1>6. PollWork = 3 * s + EngineWork /\ PollWork' = 3 * t + w
  BY <1>1, <1>2, <1>4, <1>5, EngineFacts DEF PollWork
<1>7. t < s => 3 * t + w < 3 * s + 0
  OBVIOUS
<1> QED
  BY <1>4, <1>5, <1>6, <1>7

\* The effect of a call, or its answer.
LEMMA AnswerShrinks ==
  ASSUME FeedInv, Answer
  PROVE  PollWork' < PollWork
<1>1. Stage' = Stage /\ AdcProof!ReadWork' = AdcProof!ReadWork
  BY DEF Answer, program, adc, channel, Stage, AdcProof!ReadWork, AdcProof!Done,
     AdcProof!Converting, AdcProof!SensorTicks
<1>2. EngineWork' < EngineWork
  <2>1. CASE Service!Install /\ key # call.arg
    BY <2>1 DEF Service!Install, EngineWork, EffectDue
  <2>2. CASE Service!Seed /\ ~seeded
    BY <2>2 DEF Service!Seed, EngineWork, EffectDue
  <2>3. CASE Service!AnswerOk \/ Service!AnswerError \/ Service!Halt
    <3>1. phase = "pending" /\ phase' # "pending"
      BY <2>3 DEF Service!AnswerOk, Service!AnswerError, Service!Halt
    <3> QED
      BY <3>1 DEF EngineWork
  <2> QED
    BY <2>1, <2>2, <2>3 DEF Answer
<1>3. AdcProof!ReadWork = 0
  <2>1. phase = "pending"
    BY DEF Answer, Service!Install, Service!Seed, Service!AnswerOk, Service!AnswerError,
       Service!Halt
  <2>2. at # "read"
    BY <2>1 DEF FeedInv, HaltInv, AwaitedInv, Waiting
  <2> QED
    BY <2>2, StageFacts
<1>4. EngineWork' \in 0 .. 2
  BY DEF EngineWork
<1> QED
  BY <1>1, <1>2, <1>3, <1>4, EngineFacts, StageFacts DEF PollWork

\* The CPU and the converter at work for ADC::read.
LEMMA ReadShrinks ==
  ASSUME FeedInv, KeyIsKey, AdcProof!TimingAssumption, read_runs \/ Convert
  PROVE  PollWork' < PollWork
<1>1. pc # "idle"
  BY DEF read_runs, Convert, Adc!CPU, Adc!select, Adc!trigger, Adc!wait, Adc!result, Adc!sleep,
     Adc!next_sensor, Adc!Complete, Adc!Converting, Adc!None, FeedInv, AdcProof!AdcInv,
     AdcProof!ConverterInv, AdcProof!Converting, AdcProof!None
<1>2. AdcProof!Next
  BY ReadSteps
<1>3. AdcProof!ReadWork' < AdcProof!ReadWork
  BY <1>1, <1>2, AdcProof!StepShrinks DEF FeedInv
<1>4. Stage' = Stage /\ EngineWork' = EngineWork
  BY DEF read_runs, Convert, program, engine, channel, Stage, EngineWork, EffectDue
<1>5. AdcProof!ReadWork \in Int /\ AdcProof!ReadWork' \in Int
  <2>1. AdcProof!AdcInv'
    BY <1>2, AdcProof!NextKeepsAdcInv DEF FeedInv
  <2>2. /\ SleepTicks \in Nat /\ {slept, i} \subseteq Nat
        /\ SleepTicks' = SleepTicks /\ {slept', i'} \subseteq Nat
    BY <2>1 DEF FeedInv, AdcProof!AdcInv, AdcProof!TypeOK, AdcProof!TimingAssumption,
       AdcProof!CHANNEL_COUNT
  <2>3. AdcProof!Done \in Int /\ AdcProof!Done' \in Int
    BY <2>2 DEF AdcProof!Done
  <2> QED
    BY <2>2, <2>3 DEF AdcProof!ReadWork, AdcProof!SensorTicks, AdcProof!CHANNEL_COUNT
<1> QED
  BY <1>3, <1>4, <1>5, EngineFacts, StageFacts DEF PollWork

LEMMA StepShrinks ==
  ASSUME FeedInv, KeyIsKey, AdcProof!TimingAssumption, PollsAssumption, MCNext,
         ~UNCHANGED vars, ~Quiet
  PROVE  PollWork' < PollWork
<1>1. FeedInv'
  BY FeedInvStep
<1>2. CountInv /\ HaltInv
  BY DEF FeedInv
<1>3. CASE read_runs \/ Convert
  BY <1>3, ReadShrinks
<1>4. CASE Answer
  BY <1>4, AnswerShrinks
<1>5. CASE init_rng \/ load_plainkey \/ init_returns \/ generate_rnd \/ encrypt_cbc
           \/ generate_mac \/ transmit \/ unwrap_panics \/ Deliver
  <2>1. EngineWork = 0
    <3>1. phase # "pending"
      BY <1>2, <1>5
      DEF init_rng, load_plainkey, init_returns, generate_rnd, encrypt_cbc, generate_mac,
          transmit, unwrap_panics, Deliver, Unwrapped, Ask, Service!Accept, CountInv, HaltInv,
          AwaitedInv, Waiting, Channel!Deliver, Starting, Polling
    <3> QED
      BY <3>1, EngineFacts
  <2>2. /\ at # "read" \/ pc = "idle"
        /\ at' # "read"
    BY <1>2, <1>5
    DEF init_rng, load_plainkey, init_returns, generate_rnd, encrypt_cbc, generate_mac,
        transmit, unwrap_panics, Deliver, Unwrapped, Ask, CountInv, Channel!Deliver, Waiting,
        Starting, Polling
  <2>3. Stage' < Stage
    <3>1. CASE init_rng \/ load_plainkey \/ generate_rnd \/ encrypt_cbc \/ generate_mac
      BY <3>1 DEF init_rng, load_plainkey, generate_rnd, encrypt_cbc, generate_mac, Unwrapped,
         Ask, Stage
    <3>2. CASE init_returns
      BY <1>2, <3>2 DEF init_returns, Unwrapped, channel, CountInv, Starting, Stage
    <3>3. CASE transmit
      BY <1>2, <3>3 DEF transmit, Unwrapped, Channel!Transmit, CountInv, Polling, Stage
    <3>4. CASE unwrap_panics
      BY <3>4 DEF unwrap_panics, Waiting, Stage
    <3>5. CASE Deliver
      BY <1>2, <3>5 DEF Deliver, Channel!Deliver, CountInv, HaltInv, Waiting, Starting, Polling,
         Stage
    <3> QED
      BY <1>5, <3>1, <3>2, <3>3, <3>4, <3>5
  <2> QED
    BY <1>1, <2>1, <2>2, <2>3, StageShrinks
<1>6. CASE poll_sensor
  BY <1>6 DEF poll_sensor, Quiet
<1> QED
  BY <1>3, <1>4, <1>5, <1>6 DEF MCNext, Program, Stay

\* From the start of a poll to its frame on the bus, or to a panic, there are so many steps
\* and no more, for every timing of the converter and every engine: what FeedSpec adds is
\* that they are taken.
THEOREM PollsComeNearer ==
  ASSUME KeyIsKey, AdcProof!TimingAssumption, PollsAssumption
  PROVE  MCSpec => []WorkBounded /\ PollsShrink
<1> DEFINE Shrinks == ~Quiet => PollWork' < PollWork
<1>1. FeedInv /\ [MCNext]_vars => [Shrinks]_vars
  BY StepShrinks
<1> HIDE DEF Shrinks
<1>2. MCSpec => []WorkBounded /\ [][Shrinks]_vars
  BY <1>1, WorkFacts, FeedInvInit, FeedInvStep, PTL DEF MCSpec
<1> QED
  BY <1>2 DEF PollsShrink, Shrinks
===============================================================================
