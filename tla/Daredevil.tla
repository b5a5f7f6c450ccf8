------------------------------- MODULE Daredevil -------------------------------
(***************************************************************************)
(* The program of main.rs: init, then poll after poll, over the driver of  *)
(* the ADC and what the drivers of the security engine and of the CAN      *)
(* controller promise (CryptoService, FrameChannel).  When a poll begins   *)
(* is SensorTask's business.                                               *)
(***************************************************************************)
EXTENDS Integers, Sequences

CONSTANTS
  MinTicks, MaxTicks, SleepTicks,                              \* AdcSensor
  Page, RandomPage, Cipher(_, _, _, _), Cmac(_, _, _),
  VerifyPass, VerifyFail, NoKey, Faults, Calls,                \* CryptoService
  PLAINKEY,
  ZeroPage,       \* sixteen zeros
  DataPage(_),    \* the page of sixteen bytes, and back
  BytesOf(_),
  Converted(_)    \* the u16 of a sample

VARIABLES
  at,       \* where the program is, by the function whose return it awaits
  payload,  \* the payload under construction
  frame,    \* the payload last handed to transmit
  bus,      \* the frame last seen on the bus
  poll, pc, i, slept, values, sc1a, age, coco, ra,             \* AdcSensor
  phase, call, answer, key, seeded,                            \* CryptoService
  accepted, delivered                                          \* FrameChannel

program == <<at, payload, frame, bus>>
adc == <<poll, pc, i, slept, values, sc1a, age, coco, ra>>
engine == <<phase, call, answer, key, seeded>>
channel == <<accepted, delivered>>
vars == <<program, adc, engine, channel>>

Adc == INSTANCE AdcSensor
Service == INSTANCE CryptoService
Channel == INSTANCE FrameChannel

\* The areas of payload: bytes 0 to 16, 16 to 32, 32 to 48.
Zeros == [mac |-> ZeroPage, iv |-> ZeroPage, data |-> ZeroPage]

Request(op) ==
  [op |-> op, msg |-> [page |-> <<>>, bytes |-> 0], arg |-> ZeroPage, room |-> 0]

Init ==
  /\ at = "reset"
  /\ payload = Zeros /\ frame = Zeros /\ bus = Zeros
  /\ Adc!Init
  /\ call = Request("InitRng") /\ Service!Init
  /\ Channel!Init

-----------------------------------------------------------------------------

\* The program calls the engine and awaits its answer.
Ask(request, next) ==
  /\ call' = request /\ Service!Accept
  /\ at' = next

\* .unwrap() of the call awaited
Unwrapped(fn) == at = fn /\ phase = "free" /\ answer.status = Service!NoError

\* Mutant: the generator is not seeded.
init_rng_skipped ==
  /\ at = "reset"
  /\ Ask([Request("LoadPlainKey") EXCEPT !.arg = PLAINKEY], "load_plainkey")
  /\ UNCHANGED <<payload, frame, bus, adc, channel>>

init_rng ==
  /\ at = "reset"
  /\ Ask(Request("InitRng"), "init_rng")
  /\ UNCHANGED <<payload, frame, bus, adc, channel>>

\* Mutant: a key of zeros.
load_plainkey_zeros ==
  /\ Unwrapped("init_rng")
  /\ Ask(Request("LoadPlainKey"), "load_plainkey")
  /\ UNCHANGED <<payload, frame, bus, adc, channel>>

load_plainkey ==
  /\ Unwrapped("init_rng")
  /\ Ask([Request("LoadPlainKey") EXCEPT !.arg = PLAINKEY], "load_plainkey")
  /\ UNCHANGED <<payload, frame, bus, adc, channel>>

init_returns ==
  /\ Unwrapped("load_plainkey")
  /\ at' = "idle"
  /\ UNCHANGED <<payload, frame, bus, adc, engine, channel>>

\* The frame of a poll has been sent when the next begins.
poll_sensor ==
  /\ at = "idle" /\ delivered = accepted
  /\ payload' = Zeros
  /\ Adc!read /\ at' = "read"
  /\ UNCHANGED <<frame, bus, engine, channel>>

read_runs ==
  /\ at = "read" /\ Adc!CPU
  /\ UNCHANGED <<program, engine, channel>>

\* Mutant: little-endian.
u8_array_from_16_array_swapped(input) ==
  [b \in 0 .. 15 |-> IF b \div 2 \notin DOMAIN input THEN 0
                     ELSE IF b % 2 = 0 THEN input[b \div 2] % 256
                     ELSE input[b \div 2] \div 256]

\* into sixteen zeros
u8_array_from_16_array(input) ==
  [b \in 0 .. 15 |-> IF b \div 2 \notin DOMAIN input THEN 0
                     ELSE IF b % 2 = 0 THEN input[b \div 2] \div 256
                     ELSE input[b \div 2] % 256]

sensor_values == [s \in Adc!Slots |-> Converted(values[s])]

generate_rnd ==
  /\ at = "read" /\ pc = "idle"
  /\ Ask(Request("Rng"), "generate_rnd")
  /\ UNCHANGED <<payload, frame, bus, adc, channel>>

\* The bytes of the sensors stay on the stack meanwhile, values among the ADC's variables.
encrypt_cbc ==
  /\ Unwrapped("generate_rnd")
  /\ LET init_vec == answer.value[1]
         sensor_bytes == DataPage(u8_array_from_16_array(sensor_values))
     IN  /\ payload' = [payload EXCEPT !.iv = init_vec]
         /\ Ask([op |-> "EncCbc", msg |-> [page |-> <<sensor_bytes>>, bytes |-> 16],
                 arg |-> init_vec, room |-> 16], "encrypt_cbc")
  /\ UNCHANGED <<frame, bus, adc, channel>>

\* Mutant: the MAC is computed before the ciphertext is in its place.
generate_mac_early ==
  /\ Unwrapped("encrypt_cbc")
  /\ payload' = [payload EXCEPT !.data = answer.value[1]]
  /\ Ask([Request("GenerateMac") EXCEPT
            !.msg = [page |-> <<payload.iv, payload.data>>, bytes |-> 32]], "generate_mac")
  /\ UNCHANGED <<frame, bus, adc, channel>>

\* of payload[16..]
generate_mac ==
  /\ Unwrapped("encrypt_cbc")
  /\ payload' = [payload EXCEPT !.data = answer.value[1]]
  /\ Ask([Request("GenerateMac") EXCEPT
            !.msg = [page |-> <<payload'.iv, payload'.data>>, bytes |-> 32]], "generate_mac")
  /\ UNCHANGED <<frame, bus, adc, channel>>

\* transmit, and the next poll is scheduled.
transmit ==
  /\ Unwrapped("generate_mac")
  /\ payload' = [payload EXCEPT !.mac = answer.value[1]]
  /\ frame' = payload'
  /\ Channel!Transmit
  /\ at' = "idle"
  /\ UNCHANGED <<bus, adc, engine>>

Waiting == {"init_rng", "load_plainkey", "generate_rnd", "encrypt_cbc", "generate_mac"}

\* Mutant: the result is not looked at.
unwrap_ignored ==
  /\ at \in Waiting /\ phase = "free" /\ answer.status # Service!NoError
  /\ at' = "idle"
  /\ UNCHANGED <<payload, frame, bus, adc, engine, channel>>

\* .unwrap() of an Err panics.
unwrap_panics ==
  /\ at \in Waiting /\ phase = "free" /\ answer.status # Service!NoError
  /\ at' = "halted"
  /\ UNCHANGED <<payload, frame, bus, adc, engine, channel>>

\* So does an error csec.rs does not know.
Halted == at = "halted" \/ phase = "halted"
Stay == Halted /\ delivered = accepted /\ UNCHANGED vars

-----------------------------------------------------------------------------
(* The drivers and the hardware under them.                                 *)

Deliver ==
  /\ Channel!Deliver /\ bus' = frame
  /\ UNCHANGED <<at, payload, frame, adc, engine>>

Answer ==
  /\ \/ Service!Install /\ key # call.arg
     \/ Service!Seed /\ ~seeded
     \/ Service!AnswerOk \/ Service!AnswerError \/ Service!Halt
  /\ UNCHANGED <<program, adc, channel>>

Convert == Adc!Complete /\ UNCHANGED <<program, engine, channel>>

Program ==
  \/ init_rng \/ load_plainkey \/ init_returns
  \/ read_runs \/ generate_rnd \/ encrypt_cbc \/ generate_mac \/ transmit
  \/ unwrap_panics

Next == poll_sensor \/ Program \/ Deliver \/ Answer \/ Convert \/ Stay

Spec == Init /\ [][Next]_vars

-----------------------------------------------------------------------------
(* Properties.                                                              *)

TypeOK ==
  /\ at \in Waiting \cup {"reset", "idle", "read", "halted"}
  /\ {payload, frame, bus} \subseteq [mac : Page, iv : Page, data : Page]
  /\ Adc!TypeOK
  /\ phase \in {"free", "pending", "halted"}
  /\ key \in {NoKey, PLAINKEY}
  /\ accepted \in {delivered, delivered + 1}

\* The receiver of main.rs:28-39: verify frame[0..16] for frame[16..48], decrypt
\* frame[32..48] with the vector in frame[16..32], take two bytes for each sensor,
\* the higher first; data[8..16] is zero.
Rejected == <<>>
Received(f) ==
  LET data == Cipher(PLAINKEY, "DecCbc", f.iv, <<f.data>>)
      bytes == BytesOf(data)
  IN  IF /\ f.mac = Cmac(PLAINKEY, <<f.iv, f.data>>, 32)
         /\ \A b \in 8 .. 15 : bytes[b] = 0
        THEN [s \in Adc!Slots |-> 256 * bytes[2 * s] + bytes[2 * s + 1]]
        ELSE Rejected

\* The readings of the n-th poll: as AdcSensor shows, each is one trigger behind.
ReadingsOf(n) == [s \in Adc!Slots |-> Converted(Adc!Trigger(n, s) - 1)]

\* Only a fault of the engine's own stops the program: init seeds the generator and loads
\* the key before the first poll takes them, and every call is one csec.rs accepts
\* (main.rs:194-196, :232-244).
HaltsOnFaultOnly ==
  /\ at = "halted" => answer.status \in Faults
  /\ phase = "halted" => Service!Legal(call)
=============================================================================
