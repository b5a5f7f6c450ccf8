# TLA+ models of daredevil-small

daredevil-small is the firmware of a sensor array module: an S32K144 board that
polls four ultrasonic sensors, encrypts and authenticates the readings with the
board's Cryptographic Service Engine (CSEc) and sends them over CAN FD. This
directory holds TLA+ models of it, the TLC configurations that check them, and
proofs for TLAPS. The security driver, `src/src/csec.rs`, is the largest part of
the program (716 of its 1356 lines) and the only one with a protocol of its own;
it is modelled and proved about in most detail. Of the vendored C code in `src/refs/`, the
parts the firmware was ported from are modelled too: the C driver of the CSEc, and the
set-up of clocks and CAN controller.

    tlc -config MCCSEc_calls.cfg MCCSEc        # model-check
    tlapm CSEc_proof.tla                       # check the proofs

## 1. Inventory

| Component | State | Operations | Talks to |
|---|---|---|---|
| CSEc driver (`csec.rs`) | none of its own: PRAM, the engine and the stack hold it | `init_rng`, `generate_rnd`, `load_plainkey`, `encrypt_cbc`, `decrypt_cbc`, `generate_mac`, `verify_mac`; inside: `handle_cbc`, three `process_blocks`, `write_command_header` | the engine, through CSE_PRAM and FSTAT.CCIF |
| CSE_PRAM accesses (`csec.rs`) | 32 words of 32 bits | `read/write_command_bytes`, `read/write_command_byte`, `read/write_command_halfword`, `write_command_words`, `read_pram`, `write_pram` | the driver above |
| CSEc engine (hardware) | RAM key, RNG seed, the operation left open between calls | one call per command header | CSE_PRAM, CCIF |
| CSEc clients (`examples/csec.rs`, usage section of `csec.rs`) | buffers, LED | the sequence of seven calls | the driver |
| Program (`main.rs`) | resources ADC, CSEC, CAN; the timer queue | `init`, `idle`, `poll_sensor` | all drivers; RTFM |
| CAN FD transmitter (`can.rs`) | message buffer 0 in the controller's RAM | `init`, `transmit` | the CAN controller and the bus |
| ADC sensors (`adc.rs`) | SC1A, RA of ADC0 | `init`, `read`, `read_adc` | the converter |
| Clocks (`scg.rs`) | SCG registers | `configure_spll_clock` | oscillator, PLL |
| CSEc C driver (`refs/platform/.../csec_driver.c`) | `csec_state_t`, the enable bit of FTFC's interrupt | 21 calls that wait, 6 that do not, `FTFC_IRQHandler` and its callback, `CancelCommand`, `GetAsyncCmdStatus` | the engine; a thread and the interrupts of an application |
| Set-up in C (`refs/FlexCAN_FD`) | SCG and CAN registers | `SOSC_init_8MHz`, `SPLL_init_160MHz`, `NormalRUNmode_80MHz`, `FLEXCAN0_init` | oscillator, PLL, controller |
| Panic and HardFault handlers (`panic.rs`) | LED, serial console | `panic`, `HardFault` | console; examples only (the program uses `panic_halt`) |
| Utilities (`utils.rs`) | none | `sleep`, `halt` | |
| Other examples, the rest of `refs/`, scripts | | | earlier forms of the drivers, vendored C code and device files, build files |

What is hard in this code:

- **Two sides of one protocol.** An operation of the engine spans several calls, a
  First and its Subsequents. The engine keeps the key, the chaining value, how
  much data it still expects; the driver keeps the same things in its recursion
  (`process_blocks`). Nothing but the lengths written once at the start keeps them
  together. The page split differs between CBC (an initialization vector on page 1
  of the first call), MAC generation, and MAC verification (the expected MAC after
  the data, or on one more call).
- **Retained state.** PRAM fields, pages and the engine's open operation survive a
  call, also one that failed half-way. PAGE_LENGTH and the lower half of
  MAC_MESSAGE_LENGTH are the same halfword.
- **Waits without a limit**: CCIF, and in the other drivers FRZACK, NOTRDY, COCO, and
  the valid bits of the oscillator and the PLL, three of them with the condition
  inverted.
- **Shared hardware**: `CAN::transmit` rewrites the mailbox while the controller may
  still be sending from it ("TODO: wait until message has been sent").
- **Time**: `poll_sensor` reschedules itself at `scheduled + PERIOD` on a wrapping clock.
- **Errors stop the program**: every result is unwrapped.
- **One flag for three contexts** (C driver): every call tests `cmdInProgress` and sets it
  a few statements later, without a lock; loops, handler and cancellation clear it before
  they have read all results; status, operation and owner live in one shared structure.

What makes each component correct:

- CSEc driver: every call is answered with the AES function of its arguments under
  the key loaded last, or with an error the engine has reason for, whatever the
  length and whatever came before; the caller's buffer never holds anything but
  right results and its own old contents; every call ends; the stack it needs is
  bounded by its input.
- PRAM accesses: no access leaves the window or touches a byte that is not its own;
  what the driver takes for "write these pages" and "write this field" is that.
- CAN: every frame on the bus is one payload, in the documented layout, and the
  last payload is sent in the end.
- ADC: the four values of a reading are the four channels'.
- Program: a poll every PERIOD for ever, on the readings of that poll, with a fresh
  initialization vector; init has loaded key and seed before the first.
- Set-up: no wait is for what cannot come; the controller is configured in freeze mode and
  runs on the clock its bit times are computed for.
- C driver: as long as no interrupt comes in the middle of a call, a call that returns
  success has all of its result, the handler works on nothing but operations that were
  left to it, and the engine and the driver are at the same part of the same operation.

## 2. Plan

| # | Module | About | Status |
|---|---|---|---|
| 1 | `CsecWindow`, `CsecDevice`, `CSEc`, `CryptoService`, `MCCSEc`, `CSEc_proof` | driver, engine, what the driver promises, proofs | done |
| 2 | `CsecPram`, `MCCsecPram`, `CsecPram_proof` | the accesses to PRAM underneath | done |
| 3 | `CsecClient` (run by `MCCSEc`) | the integration test and the documented usage | done |
| 4 | `FrameChannel`, `CanMailbox`, `MCCanMailbox`, `CanMailbox_proof` | `transmit`, byte by byte, against the controller; torn and lost frames; the channel on a bus that keeps up | done |
| 5 | `AdcSensor`, `MCAdcSensor`, `AdcSensor_proof` | trigger, conversion, the inverted wait, the four channels | done |
| 6 | `PeriodicTask`, `SensorTask`, `SensorTask_proof` | timer queue, wrapping instants, overruns; that it is a periodic task | done |
| 7 | `SensorFeed`, `Daredevil`, `MCDaredevil`, `Daredevil_proof` | `init` and `poll_sensor` over AdcSensor, CryptoService and FrameChannel: what the receiver gets | done |
| 8 | `Boot`, `Boot_proof` | from reset to a controller on the bus; the inverted waits, and the C code beside the port | done |
| 9 | `CsecDrv`, `CsecDrvInv`, `MCCsecDrv`, `CsecDrv_proof` | the C driver with thread, button and engine interrupts | done |

How they compose: `CSEc` EXTENDS `CsecDevice` and uses the accesses of `CsecWindow`, which
`CsecPram` implements (WindowOps). `CSEc` implements `CryptoService` (ServiceSpec), `CanMailbox`
implements `FrameChannel` (ChannelSpec), `SensorTask` implements `PeriodicTask` (PeriodicSpec).
`Daredevil` puts the two abstract specifications and `AdcSensor` itself together, and
implements `SensorFeed` (FeedSpec): so what the receiver is promised rests on what the drivers
are shown to do, not on their details.

## 3. Modules and the code

### CsecWindow
The names of `csec.rs` for fields and pages of PRAM, and its accesses as operators:
`write_command_halfword`, `write_command_words`, `WritePages`. Note what
`write_command_halfword` does at the upper end of a word: the code shifts by
LOWER_HALF_SHIFT in both branches (line 558) and masks the halfword away, so the
model stores 0.

### CsecDevice (external)
The engine is not in the repository; it is modelled from what the driver and the C
code it was ported from (`src/refs/platform/drivers/src/csec`) rely on:

- writing word 0 clears CCIF and starts a call; when the engine is done it stores
  one status halfword and raises CCIF;
- a First call latches the lengths (pages for CBC, bits for MAC) and, for CBC, the
  initialization vector on page 1, with data from page 2; a Subsequent call goes on
  with what is left, from page 1; a Subsequent call with nothing to go on is a
  SequenceError;
- VERIFY_MAC expects the MAC on the page after the data if that page is below the
  last, otherwise on page 1 of one more call, as in the C reference;
- Cbc and Mac need a RAM key (KeyEmpty), Rng a seed (RngSeed); any call may also end
  with a status of `Faults`, which leaves the pages and closes the operation.

A page is one value. `Cipher(key, command, iv, s)` is the last page that CBC makes of
the pages `s`, `Cmac(key, s, bytes)` the MAC: uninterpreted in the proofs, symbolic
terms in the runs, so that a page of another message, place, key or vector is a
different page. CMAC stops at the bit length, so what a partly filled last page
holds after it does not matter.

### CSEc
One state machine for the driver. `call` is the call in progress; `pc` is where it is:

| Code | Action |
|---|---|
| a public function up to its first round: assertions, initialization vector, key and length fields | `init_rng`, `generate_rnd`, `load_plainkey`, `handle_cbc`, `generate_mac`, `verify_mac` |
| write the data of a round and the header | `single_round`, `process_blocks`, `process_blocks_verify` |
| the engine works | `Engine` (`DeviceStep`) |
| CCIF seen: status, result, then return or recurse | `ReturnUnit`, `ReturnRnd`, `CollectCbc`, `CollectGenerateMac`, `CollectVerifyMac`, `ReturnError`, `UnknownStatus` |
| `panic_halt` | `Halted` |

`pos` (pages consumed), `sequence`, `mac_written` and `depth` are the parameters and the
depth of the recursion; `output` is the caller's slice. A round is one step up to
the header, since the engine is idle until then and nothing else touches PRAM: the
driver is a resource of one task. The assertion of lines 434-437 compares a `u16`
with `u16::max_value()`, so it holds for every input and is not in the model.

### CryptoService
What a caller may rely on, without pages, rounds or CCIF: a call is accepted (or the
program halts, on a call the assertions refuse), the key or the seed may take
effect, and the answer is the function of the arguments or an error there is reason
for. `CSEc` implements it: `ServiceSpec`, with `phase` from `pc`, `answer` from `result`
and the key from the engine.

### CsecPram
The loops underneath `WritePages` and the fields: words of four bytes, one action per
word accessed by a loop (`write_word`, `read_word`, `write_command_byte`,
`read_command_byte`), one per halfword or word call. `Access` makes the calls that the
rest of `csec.rs` makes: any page, any buffer that fits, the fields by their offsets.
`Unreachable` is the `unreachable!()` of `read_pram` and `write_pram`; that it is never
taken is `InPages`, and no run can fire it.

### CsecClient
`examples/csec.rs` as a client of `CSEc`: seven calls (`ProgramCall`), each using the results
before it, unwraps, two assertions, and the `outcome`: the LED, or a panic. `Programs` chooses
the lengths; those of the usage section, 16 bytes and buffers of 20, are others than the test's. `MCCSEc`
runs either the test or a client free to make any call, one kind per behaviour (`who`).

### CanMailbox, FrameChannel
`CAN::transmit` against the controller, over the sixteen data words of message buffer 0.
`transmit` clears the flag and writes word 1, `write_payload_byte` is one turn of the
loop (each a read-modify-write of one word), `send_frame` writes word 0. A payload is
known by the number of its call, a byte by payload and place. `CAN::init` contributes
the cleared memory it starts from.

The controller is external. `BeginCopy` begins when it finds the buffer activated,
`CopyWord` copies one word, in order, and `FrameSent` puts the copy on the bus, raises
the flag and makes the buffer inactive; a code the driver wrote in between may then
survive (the payload is sent) or not (it is lost), since nothing in the code says which.
A copy takes microseconds and calls are a poll period apart, so a copy lasts, at most,
from some point of one call to some point before the end of the next: the guard
`Copying => ~activated` of `transmit`. `MCCanMailbox` has two kinds of bus: on a `prompt` one a
frame has been sent before the next call, on the other not; nothing in the code ensures the
first.

`FrameChannel` is what `main.rs` takes `transmit` for: each payload appears on the bus,
whole, once, in order, and always does in the end. `accepted` is `calls`, `delivered` the number
of the payload that `bus` holds.

### AdcSensor
`ADC::read` and `read_adc`, one action per access to a register: `select` (the modify that
clears ADCH), `trigger` (the write of the channel), `wait` (one turn of the loop on COCO),
`result` (the read of RA), then `sleep` and `next_sensor`. The converter is external: a write to
SC1A clears COCO, aborts what is being converted and starts a conversion, also the one of
channel 0 that `select` does on the way; `Complete` stores the sample in RA and sets COCO;
reading RA clears it.

Time is in ticks, one per access. `TimingAssumption` is the only thing said about it: a
conversion (5 us, hundreds of CPU cycles) is longer than the two accesses after its
trigger, and ends within the pause (a thousand iterations). A sample is the number of its
trigger. The scaling of a reading to mV is left out.

### PeriodicTask, SensorTask
The program as its scheduler sees it. `init` schedules the first poll at now + PERIOD, `poll_sensor`
the next at scheduled + PERIOD (`ScheduleAndReturn`, the unwrap of a full queue included), `idle`
pends DMA0 again and again; `unwrap_fails` is any error of the engine. The rest is the framework's
(external; its code is generated by a macro of a crate that is not in the repository): a slot for
the one pending instance, the timer queue, `SysTick`, which re-arms itself for at most MAX_RELOAD
ticks or moves what is due to the ready queue, and `dispatch`, the handler of DMA0. Instants wrap
(`Later`), and are compared by their signed difference (`Due`). `lag` is a history variable: how late
the poll to come, or running, is on a clock that does not wrap. A poll may take any time up to
`MaxLag`, less than half the clock: more cannot be told from being early. `PeriodicTask` is the
promise: executions PERIOD apart, begun when due or as soon as the one before has ended.

### SensorFeed, Daredevil
The statements of `init` and `poll_sensor` as a sequence of calls: `init_rng`, `load_plainkey`,
then the reading, `generate_rnd`, `encrypt_cbc`, `generate_mac`, `transmit`, with a panic at each
unwrap. `payload` has three areas, as in `main.rs`; the bytes of the readings, big-endian, are
computed (`u8_array_from_16_array`), and `Received` is the recipe for the receiver of
`main.rs:28-39`: check the MAC, decrypt, put the halves together. That the readings are those of
the triggers before is what AdcSensor shows. A poll begins when the frame before has been sent;
what happens otherwise is CanMailbox's matter.

### Boot
`configure_spll_clock` and `CAN::init`, one action per access to a register that something
depends on, in the port and in the C code it comes from (`code`). Accesses to divisors, bit times,
filters and the RAM are one step each. Oscillator, PLL, core clock and controller are external:
each follows a request after a latency of 1 to MaxLatency accesses, the PLL only once the
oscillator is valid. The port's loops at `scg.rs:21` and `:34` wait while the source is valid, so
they end at once when it is not yet; the loops of `FlexCAN_FD.c:84` and `:86` test `MCR && MASK`,
shifted, which is never true.

### CsecDrv
The C driver in an application with a thread and a button interrupt. A context (`thread`,
`isr`, `handler`) is at a place in its call; one step runs to the next point at which another
context can come in between in a way that matters: after the test of the flag, at each turn
of a waiting loop, between clearing the flag and reading the result or `errCode`. `g` is
`csec_state_t` with the `owner`, a ghost: whose operation it describes, a context's or `async`.

| Code | Action |
|---|---|
| test of `cmdInProgress` at the start of a call | `Call`, `CallAsync`, `CallCancel` (`Enter`) |
| `InitState`, `Start...Cmd` | `Launch`, `LaunchAsync`, then `Arm` (`SetInterrupt(true)`) |
| the waiting loops with their `Continue...Cmd` and time-outs | `Wait`, `WaitEnds`, `WaitTimesOut`, `TimeOut`, `ReadMacLate` |
| the calls of one command, `GenerateMACAddrMode` to `DbgAuth` | `LaunchOne`, `FinishOne` |
| `MPCompress` | `MPCompress_message`, `_header`, `_wait`, `_timeout`, `_read` |
| `return` | `Return` |
| `FTFC_IRQHandler` | `FTFC_IRQHandler`, `HandlerFinishes`, `CallbackReturns`; `HandlerForNothing` |
| `CancelCommand` | `CancelTest`, `CancelDisables`, `CancelBreaks`, `CancelEnds` |

The interrupts have one priority: they do not interrupt each other, and the thread stands
still while either runs. `Storm` is the state the flag cannot prevent: the interrupt enabled
with no operation in progress; the handler then returns without disabling it and is entered
again, and the thread never runs. The engine (external) keeps one chain, checks the call
sequence, and answers with results of the right input or with `Junk`; a command of another
kind may or may not end an open chain. Three more ghosts: `intruded`, an interrupt made a call during a call
of the thread; `stray`, a chain was abandoned by its caller; and `g.cancelled`, the last operation left to the
handler was cancelled, which the code does not record (`errCode` stays as it was). `PromptSpec`, in MCCsecDrv, is
Spec with a pending interrupt of the engine taken at once; the counterexample of `interrupted` is looked for there, so
that it does not rest on an interrupt kept waiting. `CallsAssumption` says which
calls there are: those of one command, and those with a length, of which only the operations of
`csec_state_t` can be left to the handler. `CsecDrvInv` holds the invariant, see section 6.

## 4. Properties

| Property | Module | Says |
|---|---|---|
| InStep | CSEc | between rounds the engine and the recursion are at the same place of the same operation |
| OutputIsPrefix | CSEc | the caller's buffer is right results up to a page, then its old contents; also after a failed round |
| StackBounded | CSEc | at most one frame per seven pages, and one more |
| ServiceSpec | CSEc | the driver implements CryptoService |
| CallsReturn | CSEc | every call returns or panics |
| ProgramsReachLed | MCCSEc | the integration test passes, through all its rounds, unless the engine reports a fault |
| InPages | CsecPram | no access leaves PRAM |
| OnlyItsBytes | CsecPram | no access changes, at any point of its loop, a byte that is not its own |
| WindowOps | CsecPram | a finished copy of any length has moved every byte, tails included; on whole pages and fields the loops are the operators CSEc uses |
| CopiesEnd | CsecPram | every copy ends |
| AdjacentPayloads | CanMailbox | a frame holds bytes of two successive payloads at most, each at its place, and zeros after them |
| ChannelSpec | CanMailbox | on a bus that keeps up, every payload is sent, whole, once, in order, in the layout of `main.rs` |
| FramesWhole | CanMailbox | a frame is one payload; violated, see 5 |
| ReadingsInOrder | AdcSensor | a reading is the sample triggered just before its own: none lost, repeated or of channel 0 |
| ReadsEnd | AdcSensor | every poll of the sensors ends |
| OwnChannel | AdcSensor | a reading is of its own channel; violated, see 5 |
| ArmedInTime | SensorTask | between two polls there is exactly one entry, in one queue, and a timer that goes off no later than it is due |
| PeriodicSpec | SensorTask | the polls are PERIOD apart on a clock that does not wrap, none lost or early, those missed caught up, for ever |
| HaltsOnFaultOnly | Daredevil | nothing but a fault of the engine's own stops the program |
| FeedSpec | Daredevil | the receiver verifies and decrypts every frame, and finds the readings of one poll after the other |
| CanOnPll | Boot | the controller is set up and runs on the locked PLL only |
| ConfiguredFrozen | Boot | bit times, filters and buffers are written in freeze mode |
| ReadyWhenStarted | Boot | in the port, the program goes on with a controller on the bus |
| OscillatorFirst | Boot | in the C code, the PLL is enabled on a valid oscillator and the core switched to a locked PLL |
| InitReturns | Boot | no loop waits for ever, in either code |
| HandlerOwnsAsync | CsecDrv | unless intruded, the interrupt is enabled only for an operation left to the handler |
| EngineInStep | CsecDrv | unless intruded, a part handed to the engine is the part it expects |
| SequenceErrorsExplained | CsecDrv | unless intruded, a sequence error is one CancelCommand asked for, or the debt of an abandoned chain |
| OutputsComplete | CsecDrv | unless intruded, a call that returns success has all of its result |
| AsyncStatusRight | CsecDrv | when GetAsyncCmdStatus says success of an operation left to the handler, its result is there, unless it was cancelled, a call that waits has come after it, or intruded |
| OutputsValid | CsecDrv | OutputsComplete without its exception; violated, see 5 |
| LengthAnnounced | CSEc | the length fields announce the message's length, as comments say; violated, see 5 |

Besides, one type invariant per module, and the inductive invariants of the proofs where a run
checks them (`Inductive`, `MailboxInv`, `AdcInv`, `DrvInv`). The five of CsecDrv that except `intruded` say
nothing of what a call of an interrupt does during a call of the thread: that it can do harm is the run
`interrupted`. The other two exceptions of AsyncStatusRight, a cancelled operation and a later waiting call, are
needed as well: section 5 says what `GetAsyncCmdStatus` answers then.

## 5. Runs

| Run | Configuration | Bounds | Shows |
|---|---|---|---|
| `calls` | `MCCSEc_calls.cfg` | three calls of a free client: CBC inputs of 0, 1, 5, 6, 7, 13, 14 pages, MAC inputs of 0 to 224 bytes on both sides of every page count at which the split changes, calls the assertions refuse; or the test program with 1 to 14 pages; one known fault, one unknown status | InStep, OutputIsPrefix, StackBounded, Inductive, ServiceSpec, CallsReturn, ProgramsReachLed |
| `mac_length` | `MCCSEc_mac_length.cfg` | MAC of 8191 and 8192 bytes | LengthAnnounced is violated |
| `accesses` | `MCCsecPram_accesses.cfg` | two accesses; every page; lengths of every remainder modulo 4, up to all seven pages | InPages, OnlyItsBytes, WindowOps, CopiesEnd |
| `mailbox` | `MCCanMailbox_mailbox.cfg` | three payloads of 6 bytes, on both kinds of bus | MailboxInv, AdjacentPayloads, ChannelSpec |
| `torn` | `MCCanMailbox_torn.cfg` | two payloads of 48 bytes, as `main.rs` sends | FramesWhole is violated |
| `polls` | `MCAdcSensor_polls.cfg` | three polls; a conversion takes 2 to 5 ticks, the pause 6 | AdcInv, ReadingsInOrder, ReadsEnd |
| `channel` | `MCAdcSensor_channel.cfg` | one poll | OwnChannel is violated |
| `task` | `SensorTask_task.cfg` | a clock of 16 instants, PERIOD 5, a timer of 3 ticks, polls of up to 7; every instant of reset | ArmedInTime, PeriodicSpec |
| `program` | `MCDaredevil_program.cfg` | three polls, two random numbers, a known and an unknown error at any call | HaltsOnFaultOnly, FeedSpec |
| `boot` | `Boot_boot.cfg` | latencies of 1 to 12 accesses | CanOnPll, ConfiguredFrozen, ReadyWhenStarted, OscillatorFirst, InitReturns |
| `csec_drv` | `MCCsecDrv_csec_drv.cfg` | inputs of one, two and three parts; a MAC behind its message and one alone; one error; calls without end, one interrupt let in per call of the thread | TypeOK, DrvInv and the five of CsecDrv in section 4 |
| `interrupted` | `MCCsecDrv_interrupted.cfg` | the calls of `csec_drv`, without engine errors, PromptSpec | OutputsValid is violated |

Why the bounds are enough: a CBC operation takes 6 pages on its first round and 7 on
each later one; a MAC operation 7 on each, and the verification one round more when
six or seven are left. The lengths chosen lie on both sides of each of these, with
one and two recursions. Two later rounds behave alike, which is what the proofs
show for any number. Three calls are enough for an operation to be left open by a
failure, followed by an operation of another kind, and a third; the proofs cover any number of
calls. Messages whose lengths need more than sixteen bits are in `mac_length` alone. Six bytes of
payload fill a word and part of the next; the controller copies all sixteen words whatever the
length. A frame meets at most two calls, so three are enough for one that overlaps both a
predecessor and a successor; the proof covers every length and any number of calls. Between
polls the converter keeps one sample, so three polls have a first, a later and a last; two ticks
are the shortest conversion TimingAssumption admits. In `task` the clock wraps within four periods, the
timer has to be armed twice per period and polls overrun by more than one period; there is
no bound on the number of polls. In `boot` twelve accesses are more than the CPU makes between
any request and the end of the waits that depend on it, so every order of hardware and CPU
occurs; the proofs cover every latency. In `csec_drv` the driver's own
state is finite and calls go on for ever; a second interrupt during one call of the thread
finds nothing the first does not, since all of them have set `intruded`.

Fairness: `WF(DriverStep)`, the CPU executes the driver's next statement (nothing of a
higher priority runs for ever), and `WF(Engine)`, the engine finishes a command it
was given. The free client of `MCCSEc` calls only when it likes; the test program is a
straight line of code, so it is fair too. `CopiesEnd` needs `WF(Copy)` only. CanMailbox has `WF(CPU)`
for the rest of a call that has begun and `WF(Controller)`: the bus becomes free;
AdcSensor `WF(CPU)` and `WF(Complete)`, a conversion ends. SensorTask has WF of each of its
actions but `unwrap_fails`, which may replace the return of `init` or of a poll: the CPU runs, the clock ticks,
a pending interrupt is taken, a poll ends. MCDaredevil has WF of the program's statements and of what it
waits for, the engine's answer, the conversion, the delivery. Boot has `WF(Next)`: the CPU makes one access
after the other, and every reaction of the hardware is part of such a step. `csec_drv` checks safety only: a
liveness property there would be about the engine answering, and about an application
that stops calling from its interrupts, neither of which the code decides.

Deadlock is checked in every run: a client that is done, the endless loop of `main`,
a halted program, a started controller and the end of bounded calls and polls are explicit stuttering steps.

Findings:

- `write_command_halfword` loses every halfword at the upper end of a word (line 558).
  So a message of 8192 bytes or more is announced with the length modulo 2^16 bits,
  against the comment "Write how long our message is (in bits)" (lines 338, 374) and the
  assertion that admits longer ones; MAC_LENGTH is always written as 0, which happens
  to mean the whole MAC (comment on line 372), so that one does no harm. The
  application authenticates 32 bytes.
- `CAN::transmit` does not wait for the frame before ("TODO: wait until message has been
  sent", `can.rs:132`) and rewrites the buffer under the controller: if the bus is busy at
  the next poll, a frame can begin with one payload and end with another, against the
  layout `main.rs:15-26` documents. Its MAC does not verify then. `AdjacentPayloads` says
  how far the damage goes.
- `read_adc` does not wait for its conversion ("wait for conversion", `adc.rs:65`, with the
  condition inverted) and returns the sample of the sensor before: the four readings are
  those of the last sensor of the poll before and of sensors 0 to 2 of this one, where
  `main.rs:31-34` documents sensors 0 to 3. `ReadingsInOrder` says that this is all that
  goes wrong. The order of trigger, wait and pause matters: were the conversion complete
  before the wait, the loop would never end.
- C driver, `csec_driver.c`, with interrupts that call it: "Output parameters are valid if the error code is
  STATUS_SUCCESS" (`csec_driver.h:244`) does not hold. `MPCompress` tests the flag and never sets it
  (line 1113), so an interrupt's call is let in between two of its parts and both use the engine's one chain (the
  trace of `interrupted`). Without `MPCompress` among the calls of the thread the same property still fails: with
  `GENERATE_MAC` only, on the MAC that is read after the flag is cleared (line 1704); with `DEC_ECB` only, on
  the `errCode` read after it (line 211), where a time-out is returned as a success. The test of the flag
  (line 182 and in every call) and its setting are not atomic either.

Theorems say how far each goes: lengths that fit a halfword are announced (`ShortLengthsAnnounced`); frames are whole on a
prompt bus (`PromptFramesWhole`); no timing of the converter gives the first reading its own channel (`NeverOwnChannel`); and
results of the C driver are whole as long as no interrupt calls it during a call of the thread (`AlwaysOutputsComplete`).

Observed, without a violation run of their own; the models do the same, as exceptions of properties and as definitions:

- The usage section of the documentation of `csec.rs` (lines 52-62) encrypts 16 bytes into a buffer of
  20: the assertion of `handle_cbc` on the lengths fails. `MatchingProgramsRun` says that it runs with buffers of matching
  lengths (and the `init_rng` it leaves out).
- C driver: an operation of an interrupt may end before the `SetInterrupt(true)` of the call it came into, against "If
  finished processing, disable interrupt" (`csec_driver.c:1460`): the interrupt stays enabled for nothing (`Storm`), its
  handler returns without disabling it and is entered again, and the thread never runs. Unless an interrupt is let
  in, `HandlerOwnsAsync` holds.
- `CancelCommand` writes a FIRST header "to trigger a command that will generate a sequence
  error, breaking the chain of calls" (lines 1794-1795). When the part it waited for was the
  last, the chain is over and the header starts one; the next FIRST of that command fails
  with a sequence error. A verification of one full part, and an `MPCompress` that ran out of time, leave theirs
  open. `stray` is this debt, and `SequenceErrorsExplained` says there is no other.
- `GetAsyncCmdStatus` "checks the status of the execution of an asynchronous command" (`csec_driver.h:736`), but
  returns the `errCode` all calls share (line 1394): SUCCESS for one that was cancelled (line 1803 only clears
  the flag), and SUCCESS for one that failed, after a later call that waited and succeeded. Both are exceptions of
  `AsyncStatusRight` (`g.cancelled`, and an owner other than `async`).
- `scg.rs:21` and `:34`: the loops on the valid bits are inverted against `clocks_and_modes.c:26`
  and `:42`, of which `scg.rs:1` says to be a direct port. They do no harm: they end at once, and the last loop
  (line 44) waits until the core runs on the PLL, which needs both (CanOnPll, InitReturns).
- `FlexCAN_FD.c:84` and `:86`: the C code does not wait for the end of freeze mode nor for the
  controller, against its comments ("wait for NOTRDY to clear (module ready)", line 87); `can.rs:93-94` does.

Observed, not a finding: an empty CBC input makes the engine process one stale page,
whose result nobody reads (`ServiceSpec` shows it); `write_command_words` writes every
word to the same offset, but is only called with one; the documentation says both
"every 1/8 second" (`main.rs:4`) and "every second" (`main.rs:16`).

## 6. Proofs

`CSEc_proof` proves, for every set of calls, every cipher, MAC, key and fault, hence
inputs of any number of rounds:

- `AlwaysInductive`: `Spec => []Inductive`;
- from it `AlwaysTypeOK`, `AlwaysInStep`, `AlwaysOutputIsPrefix`;
- `AlwaysStackBounded`: the strengthening is `StackInv`: seven pages for every round taken are at most
  one more than the pages consumed (the first round of CBC has a page less for data); it needs
  `Inductive` for the pages of a round;
- `DriverIsService`: `Spec => ServiceSpec`, the whole of that refinement: `EngineServes` maps the
  engine's steps to the installing of a key, the seeding, or a stutter; `RoundStutters` has the rounds
  stutter; `CollectServes` maps a return to an answer, after `LastRoundCompletes` (the buffer
  then holds the whole result) and `ErrorsExplained`;
- `ProgramsStopOnFaultOnly`: `ClientSpec => []PanicsOnFaultOnly`, the integration test
  through its seven calls: nothing but a fault of the engine's own stops it, in a call or on an assertion.
  It is what `ProgramsReachLed`, which TLC checks, comes to without its liveness. `ProgramInv` says what each call has returned and left in the engine
  (`ValuesInv`); it rests on the answers of the service (`CallAnswered`, `AnswerAdds`) and not on pages and rounds;
- two theorems that say where a finding and an observation of section 5 end: `ShortLengthsAnnounced`, `Spec => []LengthAnnounced`
  for lengths that fit (`ShortCalls`), and `MatchingProgramsRun`, `ClientSpec => []UsageRuns` for
  programs whose buffers match their plaintext, on an engine without faults;
- `CallsComeNearer` and `ProgramsComeNearer`, described under "Progress" below. The second also shows
  that the program is a client of the driver, `ClientSpec => Spec`.

Hypotheses: the assumptions on the constants (`CallsAssumption`, `DeviceAssumption`),
`ShortCalls` (message lengths in bits fit the halfword that keeps them: without it
InStep is false, see the first finding), and `EngineMakesPages` (Cipher and Cmac of
pages are pages). The theorems about the program also need `DecryptsBack` (AES undoes what it has done),
`CallsComplete` (any call whose length fits can be made) and `MatchingPrograms`: the two buffers are as
long as the message, which is a whole number of pages. The documented program, whose lengths do not match,
shows that the last is needed (16 bytes into 20: the assertion of `handle_cbc` fails).

InStep is not inductive: whether the engine is where the driver is before a round
depends on what it was given in the round before, and that on the fields written
when the call began, which an unrelated earlier call may have left there.
`Inductive` says what holds at each point: `CallInv` (the fields still announce the
whole input), `RoundInv` (before a round), `StartedInv` (the engine has been given this
round's pages, and the MAC where it will look for it), `FinishedInv` (the results it
leaves are those of this round), `StatusInv` (an error has a reason). The proof has one
lemma per action; the arithmetic of rounds and pages (how many pages the engine
takes, against how many the driver wrote) is in lemmas of its own, as is the one on
sequences: the pages fed so far and those of this round are a longer prefix of the
input. TLC checks Inductive in the run `calls`.

`CsecPram_proof` proves `AccessesStayInPlace`: `Spec => [](TypeOK /\ InPages /\
OnlyItsBytes)` for every content of PRAM and every buffer. The invariant is `LoopState`:
how much of the buffer has been copied, and that the word loop stays on word
boundaries, which is what keeps it from overwriting a neighbour's bytes. `AlwaysInPages` states
one part of it, `AlwaysTypeOK` another. `AlwaysWindowOps`: `Spec => []WindowOps`, provided a byte has eight bits
(`EightBits`), so that the halfwords and words put together from bytes come apart again
(`HalfwordOfFields`, `WordOfFields`); a finished copy of any length has every byte in place
(`EveryByteCopied`). Its invariant `PlaceInv` says where the bytes copied so far
are, so that a copy of whole pages is `WritePages` of them (`PagesWritten`) or
the pages themselves (`PagesRead`).

`CanMailbox_proof` proves `AlwaysAdjacentPayloads`: `Spec => [](TypeOK /\
AdjacentPayloads)` for every length of payload, any number of calls and any timing of the
bus, from the length's being a number (`MailboxAssumption`). The property is not
inductive: what is on the bus was copied from a buffer that was being rewritten.
`MailboxInv` adds what the buffer holds at byte `i` of a call (`DataInv`: this payload up to
`i`, the one before after it), that the words copied so far are of this payload or the
one before (`CopyInv`) and that a complete copy is (`FrameInv`). `WordAndByte` is the lemma
on places: word `2 + i / 4`, byte `i % 4` is the place of byte `i` and of no other.
`AlwaysMailboxInv` states the invariant itself, `AlwaysTypeOK` its first part. `PromptBusIsChannel` is the
safety part of the refinement, on a bus that finishes a frame before the next call: `MCSpec =>
Channel!Init /\ [][Channel!Next]_(Channel!channel)` for every payload that is not empty. Its invariant,
`PromptInv`, says which payload the bus holds while one is in the buffer or on its way, and that a copy
under way is wholly of the last. `PromptFramesWhole` follows: `FramesWhole`, which the run `torn` refutes, holds as long
as the bus is prompt. `AlwaysForward` is what is left on any bus: `Spec => BytesNeverGoBack`, no byte that is seen is
older than the one seen in its place before. `OrderInv` is its invariant: byte by byte the bus is not ahead of the
controller's copy, that not of the buffer, and that not of the calls.

`AdcSensor_proof` proves `AlwaysReadingsInOrder`: `Spec => [](TypeOK /\ ReadingsInOrder)` from
`TimingAssumption`. `ConverterInv` is what makes it inductive: at each access, which sample is
being converted, for how long, and that RA is one trigger behind the CPU until the
pause; the age of a conversion in the pause is the ticks of the pause and two more, so it
cannot outlast it. A part of it, `pc = "wait" => ~coco`, is why the wait never turns.
`AlwaysAdcInv` is `Spec => [](TypeOK /\ AdcInv)`, `AlwaysTypeOK` a part of it. `NeverOwnChannel`, `Spec => [](i > 0 =>
~OwnChannel)`, says that the third finding is no matter of the run's timing: at none that TimingAssumption admits does a
poll have its first reading from the channel it is given out for.

`SensorTask_proof` proves, from `ClockAssumption` (a period and
the lateness of a poll are each less than half the clock), for every width of the clock and every timer: `AlwaysArmed`,
`Spec => [](TypeOK /\ ArmedInTime)`; `ScheduleSucceeds`, the unwrap of `schedule` never panics; `AlwaysTypeOK`; and
the safety part of the refinement, `PollsArePeriodic`, `Spec => Periodic!Init /\
[][Periodic!Next]_Periodic!task`. The difficulty is that the code compares wrapped instants
and the promise is about a clock that does not wrap: `LaterIsInstant`, `TickAgrees` and
`PeriodAgrees` tie the two, and `DueIffLate` is the signed comparison, true exactly when the lag is
not negative. `StepRefines` maps each action to a step of the task or a stutter.

`Daredevil_proof` proves `AlwaysHaltsOnFaultOnly`, from `KeyIsKey` (the engine tells a key from
none), and the safety part of the refinement, `ReceiverReadsEveryPoll`, `MCSpec => Feed!Init /\
[][Feed!Next]_(Feed!feed)`, for any number of polls, every timing TimingAssumption admits and every engine
with `DecryptsBack` (it decrypts what it encrypted, sixteen bytes are a page) and readings of sixteen
bits (`Halfwords`). `HaltInv` says what each call finds done by those before it; `FeedInv` adds
`AdcInv`, taken over from `AdcSensor_proof` (`AdcSteps`: the program moves converter and driver as
AdcSensor does), `CountInv` (polls begun, frames handed over, frames sent), `BuildInv` (which parts
of the payload are which answers of the engine) and `SentInv`. `ReadingsAsBytes` and `FrameIsReceived` are
the receiver's recipe: two bytes make a reading again, eight are zero.

`Daredevil_proof` also has `AlwaysTypeOK`, which needs the assumptions on its constants and that
the engine makes pages of pages: `PageInv` says that the areas of payload, frame and bus are pages.

`Boot_proof` proves `AlwaysTypeOK`, `AlwaysCanOnPll`, `AlwaysConfiguredFrozen`, `AlwaysReadyWhenStarted`
and `AlwaysOscillatorFirst` for every latency, from `BootAssumption`. `ClockInv` relates the core's clock to
the PLL, `ReferenceInv` the PLL to the oscillator in the C code, `CanInv` the controller's mode to the place in
`CAN::init`.

`CsecDrv_proof` proves every safety property of CsecDrv, for every set of calls, lengths and engine errors,
and any number of calls, time-outs, cancellations and intrusions: `AlwaysHandlerOwnsAsync`,
`AlwaysEngineInStep`, `AlwaysSequenceErrorsExplained`, `AlwaysOutputsComplete`, `AlwaysAsyncStatusRight`,
`AlwaysTypeOK`; the first five with the exceptions of section 4. The only hypothesis is `CallsAssumption`. The invariant is `DrvInv` (module CsecDrvInv,
`AlwaysDrvInv`), in two halves:

- `Always` holds with interrupts let in or not: types, which request a context at each place can
  have (`CallInv`), that the interrupts do not interrupt each other (`ContextInv`), and that a command
  runs for somebody who waits for it (`WaitInv`). The last is what makes an intrusion pass: when the call of the
  thread ends with nothing in progress, the engine is ready (and a chain left open is on record as `stray`).
- `Undisturbed` holds unless an interrupt has been let in during a call of the thread: who may be where given
  the flag and the interrupt's enable bit (`PlaceInv`, `AloneInv`); that `csec_state_t` describes the owner's operation
  (`OperationInv`); what a context about to return has (`ResultInv`, `AsyncInv`); and, for the part under
  way, that header, chain and data pages are those of this part of this operation before the engine has taken it, and
  its results after (`PartInv`, `OnePart`, `MPCompressInv`).

None of the properties is inductive without the data: that a return of success has all of its result needs
the pages of the part just read, and these what was written into them and what chain the engine had then. The
proof treats the halves apart, one lemma per action for each (`AlwaysStepCall`, `ControlStepCall`, `DataWait`,
`DataHandler`, ...). At its centre are `StartPart` (what a `Start...Cmd` or `Continue...Cmd` leaves in the pages is the
next part), `ChainTaken` (an engine that takes it moves its chain by as much as the driver moves its index) and
`ContinueGoesOn` (the results read, the operation is between two parts again). `DisturbanceEnds` and `CalmAfter` show
`Undisturbed` anew when a call of the thread ends after an intrusion.

### Progress

Liveness under fairness is out of the prover's reach. What can be proved without fairness is that nothing is done for
nothing: for each component that must come to an end there is a measure, a number never negative and with a
bound in the constants, that every step made on the way (stuttering is none) makes smaller. So there is
no behaviour, fair or not, in which the component goes on for ever without reaching its end.

| Theorem | On the way | Measure | Bound | Liveness it is the core of |
|---|---|---|---|---|
| `CSEc_proof!CallsComeNearer` | `Busy`, a call | `CallWork` | 3 for each page of the call, and 3 | `CallsReturn` |
| `CSEc_proof!ProgramsComeNearer` | always | `ProgramStage`, then `CallWork` | (lexicographic) | `ProgramsReachLed` |
| `CsecPram_proof!CopiesComeNearer` | `InLoop`, a copy | `CopyWork` | the bytes of the buffer, and 1 | `CopiesEnd` |
| `AdcSensor_proof!ReadsComeNearer` | `pc # "idle"`, a read | `ReadWork` | 8 * (SleepTicks + 5) | `ReadsEnd` |
| `Boot_proof!BootComesNearer` | `step # "started"` | `BootWork` | 16 * (2 * MaxLatency + 2) | `InitReturns` |
| `Daredevil_proof!PollsComeNearer` | `~Quiet`, from start to idle or a poll | `PollWork` | 15 + 8 * (SleepTicks + 5) | `FeedSpec` |

Each holds under the hypotheses of its module's other theorems. They rest on the inductive invariants: that a round of `verify_mac` that only places
the MAC has a page behind it (`StackInv`), that the wait for COCO never turns (`ConverterInv`), that what a loop of the
clock set-up waits for is on its way (`LatencyInv`). `PollWork` is composed: three for each return the program still awaits
(`Stage`), what the engine still does for the call (`EngineWork`: its effect, its answer), and `ReadWork` of the
converter, taken over with `AdcSensor_proof!StepShrinks`.

Only model-checked is the rest of liveness, that the steps are taken: `CallsReturn`, `ProgramsReachLed`, `CopiesEnd`,
`ReadsEnd`, `InitReturns`, and the liveness in `ChannelSpec`, `PeriodicSpec` and `FeedSpec`, whose safety is proved. It
needs that some step is always possible, hence ENABLED, and fairness. Every invariant of a passing run has a theorem; for
each of the four properties that a run refutes one says how far it holds, or that it never does (section 5).

## 7. Not modelled

- `csec.rs`: commands that are `unimplemented!` and never issued; the key number and the format byte
  of the header, which are constants per command; Debug formatting; wall-clock time of the engine.
- `adc.rs`: the scaling of a reading and the calibration of `ADC::init`.
- `can.rs`: the values of bit times and filters, and the receive buffer, which nothing reads.
- `main.rs`: the watchdog, which is only switched off; the pins.
- `utils.rs`: `halt`, an endless loop without state. `panic.rs`: the examples alone include it, and it
  writes to a console of a crate that is not in the repository; the application halts on a panic
  (`Halted`).
- `csec_driver.c`: `CSEC_DRV_Deinit`; `InstallCallback` apart from the callback's step; lengths that are
  not whole pages; an engine that never answers a call without a time-out. Reads and writes of
  `g_csecStatePtr` are one step up to the next point at which another context matters, see CsecDrv.
- The rest of `src/refs/`: some 190 000 lines of vendored C sources and register headers for the same
  board, of which the program uses none. The models keep to the files that `src/src/` was ported from, so
  the share of all lines in the repository they stand for is small.
- Build files, the debugger script and the stack analysis of the CI have no state of the program.
