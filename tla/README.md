# Verification of Project NUEVO

TLA+ models, TLC configurations and TLAPS proofs for the control software of the
NUEVO educational robot: an Arduino Mega that drives motors and servos, and a
Raspberry Pi that talks to it over a serial link.

## 1. The system

### Parts

| Part | Source (under `src/`) | State it keeps | Module |
|---|---|---|---|
| DC motor pipeline | `firmware/arduino/src/modules/MotorControlCoordinator.cpp`, `drivers/DCMotor.cpp` | request and prepared sequence numbers, pending mask, staged / pending / applied outputs | MotorControl |
| State machine, safety watchdog | `SystemManager.cpp`, `modules/SafetyManager.cpp` | state, battery fault arming | SystemFsm, Firmware |
| Message center, receiving | `modules/MessageCenter.cpp` | heartbeat, fault latch, deferred servo and calibration work | Firmware, MagCalibration |
| Message center, sending | `modules/MessageCenter.cpp` | pending flags, telemetry slot, transmit queue | Telemetry |
| Servo outputs | `drivers/ServoController.cpp` | initialised / enabled, channel registers | Firmware |
| Steppers | `drivers/StepperMotor.cpp`, `modules/StepperManager.cpp` | position, profile counters | StepperMotion |
| Storage, calibration | `modules/PersistentStorage.cpp`, `modules/SensorManager.cpp`, `nuevo_ui/backend/nuevo_bridge/mag_calibration.py` | EEPROM record, session, backup, samples | PersistentStorage, MagCalibration |
| Scheduler | `Scheduler.cpp`, `loop()` of `arduino.ino` | table of tasks | Scheduler |
| TLV codec | `firmware/arduino/src/lib/tlvcodec.c`, `nuevo_ui/backend/tlvcodec` | decoder state, frame number | FrameCodec, Crc16 |
| Backend link | `nuevo_ui/backend/nuevo_bridge/serial_manager.py`, `message_router.py`, `runtime.py` | port, flags, bootstrap queue, cached snapshots | SerialLink, RouterCache |
| ROS bridge | `ros2_ws/src/bridge/bridge` | last system state, decoded queue | FirmwareStateService |
| Robot API | `ros2_ws/src/robot/robot/robot_impl` | motion slot, events, motion threads | Navigation |
| Robot FSM and planners, odometry, diagnostics, web application, front end, vision, GPS, lidar | see `PROJECT.json` | - | not modelled |

### How they interact

In the firmware everything runs in one `loop()` except two timer interrupts:
Timer1 (DC motors) and Timer3 (steppers). Tasks never preempt each other; an
interrupt can come between any two instructions of the loop unless these are in an
`ATOMIC_BLOCK`. Messages are decoded by the UART task and act at once, or set a
deferred action that the same task executes later. What the firmware sends is
built in place in a ring of frames that `drainTx()` empties as the UART allows.

On the Pi a reader thread, a heartbeat thread and the event loop share the serial
port and the router's cache. Decoded messages go to the WebSocket clients, to the
calibration controller and, through a queue, to the ROS node, which serves
`/set_firmware_state`. The robot API runs one program thread and one thread per
motion.

### What is hard

The hand-off of motor requests between interrupt and loop; stopping everything
while that goes on; a watchdog made of two tasks and a flag; work queued in one
state and executed in another; EEPROM writes that a power loss cuts short; a frame
built while others leave; resynchronising after a lost byte; threads that set each
other's flags; a service that blocks the thread it waits for; events that
successive motions share. `PROJECT.json` lists each hazard with its line.

## 2. The modules

`MC*` modules only give constants their values; `MCLowLevel` does so for three
modules that share no variable, the motor pipeline, `loop()` and the codec, and a
behaviour of it takes the steps of one of them (`part`). Abstract specifications are
`ControlHandoff`, `CalibrationStore`, `TxFifo` and `LossyLink`. Definitions named
`Mut_*` are faulty variants of a helper, which no run uses; with one of them in
the helper's place a property fails.

### MotorControl (implements ControlHandoff)

One action per atomic step of the code. `TickInactive` and `TickActive` are the
Timer1 interrupt (`servicePidIsrSlice`), the only action that may come between any
other two. `BeginCompute`, `ReadLow`, `CheckLate`, `Sample`, `Stage` or
`HomeReached`, and `FinishCompute` are one pass of `taskMotors()`, cut where
interrupts are enabled; `pc` says where the loop is. `ReadLow` is there because
`requestedRound_` has four bytes and line 219 reads it unlocked: the low byte is
read first, and the interrupt may carry into the upper ones before they are read.
`ZeroMotor` and `ApplyZero` are `DCMotor::disable()`, whose H-bridge write is
outside its atomic block; `Stop` and `Halt` disable the enabled motors in index
order, the former after and the latter before the change of state. Commands come
between tasks (`pc = "free"`).

Outputs are "off" or "on", and PID arithmetic is left out. Which encoder sample an
output stems from is kept in two history variables, `fresh` and `sampleCurrent`;
`note` names the diagnostic counters the last step incremented.

`ControlHandoff` is what the coordinator promises, with no sequence numbers: a
visit of the interrupt files a request and voids what the loop is computing for
that motor, and only a request that still stands becomes ready. The refinement
maps "request and prepared numbers match" to "ready", and "my number is still the
slot's" to "my request stands".

### SystemFsm and Firmware

`SystemFsm` is the transition table. `Firmware` composes the state machine, the
safety check, message gating, the heartbeat, the deferred work and the servo
board: everything that runs in `loop()`. Each message handler and each task is one
action, as none is preempted by another; messages and tasks come in any order. One
order is kept, because a property depends on it: `taskSafety` has the same period
as `taskSensors` and a more urgent priority, so it runs between any two readings
of the battery (`unchecked`). `Scheduler` shows that it does (`LeadersRunFirst`).

A drive stands for a DC motor or a stepper. Battery voltages are classed as the
firmware's predicates class them. `failed` in `UartTask` is the set of servo
channels whose I2C write fails. `link` says whether messages still arrive.
`HeartbeatTimeout` is fixed during a behaviour; SYS_CONFIG_SET can change it in
the code, but being a message it restarts the silence as well.

### Scheduler

`loop()` and the table of tasks. `ServiceFastLane` is one call of
`serviceFastLane()`, which runs the most urgent fast task that has work, and
`Return` the decision of `serviceControlFirstFastLaneBurst()` to go on;
`Run`/`RunNothing` is one `tickPeriodic()`. `TimePasses` is the clock and `Arrive`
brings work for the fast lane at any point. `age` is `millis() - lastRunMs`, counted
until the task is due. Nothing bounds `TimePasses`: `setup()` writes to the serial
port between registrations and before it returns, so that tasks may be due many times
over when `loop()` begins, and a pass takes as long as the tasks in it (taskUART 1 to 6
ms typically, 10 before it is called late by config.h:468-491, and more with EEPROM
writes). A pass of more than `PassTime` is an overrun. Two history variables: `since`
says which tasks ran since a task last did, `waiting` how long a task has been due since
the last overrun, or since `setup()`. What the tasks do is left to the other modules; two diagnostic fast tasks and the
StatusReporter task are left out.

### PersistentStorage and MagCalibration (implements CalibrationStore)

`PersistentStorage` is the EEPROM record and the order in which its parts are
written: each EEPROM write is a step (`PutHeader`, `PutInvalid`, `PutCell`,
`PutValid`), and power may be lost between any two or inside that of a float
(`Cut`). `MagCalibration` adds the rest of the loop from the web page to the
record. In the firmware: the slot of the deferred action (`Receive`, `Deferred`),
the session of `SensorManager` with its backup (`StartSampling`, `StopSampling`,
`ApplyCalibration`, `SaveFails`, `ClearCalibration`), and the status and samples
it streams (`Send`, `Reading`). `mag` says whether there is an IMU, without which no
sample is sent and no calibration loaded at boot, and whether its magnetometer has had
a reading: before that the samples are zeros, which the controller ignores. In the backend: `ObserveStatus` and `ObserveImu` of the
controller, which fits and applies a calibration or gives up. `Ask` is a user
sending any command of the protocol, `Lose` a frame lost on the line.

A calibration is as many floats as `NumCells`; the fit yields one of `Cals`
(`Verdicts`), and a sample is zero, raw or already corrected. It is what it is when it
is sent: the driver keeps its last reading until taskSensors() takes the next, but four
slots of the superframe, 40 ms, lie between the status that says SAMPLING and the next
sample. The controller's time is
counted in samples. `upset` records that a frame, a deferred action or a report
was lost.

`CalibrationStore` says what a boot may find: nothing, a calibration that was
stored, or, only after replacing or formatting was cut short, a torn one.

### Telemetry (implements TxFifo)

The UART task runs `sendTelemetry()`; `Sending` is cut where `drainTx()` moves
bytes (`Gate`, `GiveUp`, `GateOpens`), where the frame has been built
(`BuildReplies`, `BuildChange`, `BuildSlot`) and where it is handed to the queue
(`SendFrame`). `Drain` lets a part of the frame at the head leave. `Request`,
`Change`, `CancelMag`, `Heartbeat` and `Boot` are what other code does to the
flags between two runs. A frame is the set of things it tells. The ring keeps its
head, tail and count, so a frame built over one that still leaves would be seen.
Sizes count for replies only: `Filled` drops what does not fit, as `appendTlv`
does.

### SerialLink and RouterCache

`RouterCache` has the operations of the router on its mirror of the firmware: the
bootstrap queue and the cached snapshots. `SerialLink` has the threads. The
reader: `Open`, `Opened`, `Linked`, `Read`, `ReadFails`, `Close`, and `Answer`,
`Stream` and `SysState` for a decoded frame. The heartbeat thread: `Beat`,
`Write`, `Raised`. The event loop: `Watch`, `GiveUpData`, `Cut`, `CutPort`,
`CutDone` for `run()`, and `QueryCheck`, `QueryPop`, `QueryPoll` for the task that
flushes the queue; `QueryDies` is the IndexError this task dies of when the reader
emptied the queue between its test and its pop. The device is unplugged, plugged,
falls silent and comes back at any time (`Unplug`, `Plug`, `Deafens`, `Listens`).

### FirmwareStateService

The service `/set_firmware_state` at one end of the link, the firmware's
transition table at the other. `request_transition()` is cut where its lock is
free: `Request` reads the last telemetry and plans, `Send` or `SendFails` calls
`send_command`, and `Look` is one turn of the waiting loop; `Expire` is the
deadline. `Observe` is the drain timer of the node, which shows telemetry to the
coordinator and notifies it. `Obey`, `Boot`, `Fault` and `Stream` are the
firmware; telemetry still under way is in `stream`, so what the coordinator knows
may be old.

`concurrent`, chosen at the start, tells two settings apart. The node is spun by
`rclpy.spin` in one thread, which a call occupies, so `Observe` waits. The unit
tests of the coordinator observe telemetry inside `send_command`, as a node with a
thread of its own would.

### Navigation

The program thread starts a motion (`Claim`, `Register`, `Launch`, cut where
`_nav_lock` is released), cancels it by its handle or by `cancel_motion()`
(`CallCancel`, `TakeThread`, `Joined`, `JoinTimesOut`), commands the wheels
itself, and shuts down (`CallShutdown`, `Rest`, `Disable`). `Interrupt` is a
SIGINT, which turns it to the shutdown of `robot_node.py` wherever it is;
`JoinRaises` is `join()` on a thread that was registered and not started. A motion
thread goes round `Test`, `Look`, `Drive` and `Wake`, and ends by `StopMotion` or
`Fail`, then `Release` and `Finish`. `Report` is telemetry of the motors.
`_nav_cancel` and `_nav_done` are single variables, as every handle shares them.
`wheels` is whose velocity was published last.

### FrameCodec and Crc16 (implements LossyLink)

Both byte-wise decoders and the encoders, byte by byte. The checksum is a
parameter of `FrameCodec`; the run gives it the CRC of `Crc16`, which is that of
the code, and the proofs hold for any function with values of 16 bits. `Send` puts a
frame on the line, `Take` removes a byte and feeds it to the decoder: `Hunt`,
`MatchMagic`, `ReadLength` and `WaitFullFrame` are its states. `Lose` and `Alter`
disturb a byte. `to` says which side receives; the two decoders differ in where
they check the number of TLVs (`Accepted`). `LossyLink` sees whole messages: each
is delivered as sent, or lost if it was disturbed or overlaps what is left of one
that was.

### StepperMotion

One stepper channel. A command of `loop()` is cut where the interrupt can come
between two of its atomic blocks: `Move` (a message, which fixes the distance),
`Plan` (lines 177-187, the position is read) and `Commit` (the profile computed
meanwhile is stored); `Home` and `Seek`; `Disable` and `Release` (the coils are
cut after the profile is stopped). The interrupt is one of `TickCount`,
`TickLimit`, `TickHoming`, `TickLast`, `TickAccel`, `TickCruise` and `TickDecel`,
by the branch of `timerCallback()` it takes.

The arithmetic of the profile is kept as it is, on a slower clock: ticks per
second, the rate limit, the fixed point and the size of a word are constants. A
velocity is truncated to a word, as the handler does, and the quotient of a
division by zero is the all ones that the AVR's division routine leaves. Homing
counts down from `INT32_MAX`, which is modelled as having no end. `HasLimit` says
whether a home switch is wired; it closes at any time, and at the latest where
`HomeTravel` ends. History variables record the true position of the shaft
(`error`, from the coils and the direction pin), the ticks since the last pulse
(`since`), the shortest interval the velocities in force allow (`fastest`), and
whether a move began at rest and where it was to end (`rest`, `goal`).

## 3. The runs

| Run | What it checks | Bounds |
|---|---|---|
| low_level | no stale output is published (`PublishedIsCurrent`); a disabled motor stays off, also when everything is stopped (`DisabledIsOff`, `StoppedIsOff`); no slot is stranded (`PipelineNotStuck`); `ControlHandoff` is implemented; no task that is due waits longer than `Lag`, unless a pass overruns (`NoneFallsBehind`); more urgent tasks that are no less frequent run between two runs of a task (`LeadersRunFirst`); `LossyLink` is implemented, and the decoder is back in step within a buffer and two frames (`ResyncBound`) | 2 motors, one with a limit switch, 4 requests and rounds, loads of 2 values; 6 tasks, passes of 1 unit, `Lag` 3; 3 messages, 2 disturbed bytes, a buffer of 40 bytes |
| firmware | drives run in RUNNING only; the loss of their battery is caught; servos are idle when halted and pulse only when enabled; a link that stays down stops the robot | 1 drive, 2 servo channels, timeout 0 units |
| bridge | the two transition tables agree; no wake-up is lost; telemetry is followed; a confirmation beats the deadline | 1 command and 1 state under way, other clients send START, RESET, ESTOP |
| stepper_motion | the position counted is the shaft's; there is room to slow down; pulses are spaced; moves from rest land; moves end | clock of 2 ticks, velocities 2, 3 and one that truncates to 0, acceleration 2, moves by -1 and 3 and to 0, travel 2, homing within 1 |
| steps_remaining (violated) | what the header says of the steps left | same |
| calibration | what is reported SAVED is stored and in use; only raw samples are fitted; sessions end; `CalibrationStore` is implemented | 2 calibrations of 2 floats, 1 frame under way each way, 2 commands of users, a fit tried after 2 samples and given up after 3 |
| telemetry | frames leave in order and whole (`ImplementsFifo`); replies leave; changes are reported; the superframe goes on | ring of 2, frames leaving in 2 parts, 3 replies of which two fit, 2 changes, 2 slots |
| serial_link | no snapshot of before a reset stays; the link recovers; silence is shown; the cache fills | 2 snapshots, one of them polled, 1 request per flush |
| navigation | one motion at a time; nothing is left behind; shutdown disables; a cancelled motion ends | 3 motions |
| finished_means_released (violated) | the completion contract of `MotionHandle` | 2 motions |
| heartbeat_lapse (violated) | what the manual says of a heartbeat timeout, that the firmware stays in RUNNING | as firmware |
| confirmation_unread (violated) | what the service's definition says, that it waits for telemetry to confirm | as bridge |

**Why the bounds are enough.** Two motors show every pairing of "the motor being
computed" with "the motor being visited" and both ends of the round; four requests
let each motor be requested, superseded and requested again, and numbers restart
after an inactive tick. `LoadSize` 2 makes a carry, which happens every 256 requests
in the code, happen within the bound. Two servo channels tell "this channel" from
"all channels"; a timeout of 0 units still lets the silence pass it. One state
under way is enough for telemetry that is older than the firmware's state: it, and
the last one shown. Moves of one and of three steps have no ramp, a ramp of odd
length, and a cruise; velocities 2 and 3 ramp in one and two steps, and the
truncated velocity divides by zero. The travel lets a move replace another in
either direction. Two calibrations of two floats can be mixed, and a user's two
commands can come before, in and after a session of the controller. A ring of two
is full, half full and empty; three replies show one that does not fit. Two
snapshots show one that is polled and one that only the bootstrap asks for. Three
motions are a replaced one, its successor and one more that a program starts too
early. The codec's messages are a short one, one that begins a magic number
at the end of its data, and one that holds a magic number and a length; two
disturbed bytes can damage a frame and the one after it, or one frame twice. In
the scheduler a unit is 5 ms: the four fast tasks keep their periods and the two slow
ones are made faster, which makes the load heavier than the code's; a pass of 2 units
is an overrun, and `setup()` may last for ever.

Properties that say how late something may be hold within limits that the runs
made visible. With `Lag` 2 `NoneFallsBehind` fails; with 3 it holds. Section 4 proves
a bound for the code's own table.

The runs that end in a violation each check one sentence of a comment or a manual;
`PROJECT.json` quotes it beside the line that contradicts it. `confirmation_unread`
shows something a reader may not expect: in the node as it is wired a call can time out
with its confirmation at hand, and `WiringBlocks` proves that no call that sends a
command ever succeeds there, whatever the firmware did.

**Fairness.** In `Firmware`, `setup()` ends, time passes, and the scheduler runs
the UART and safety tasks again and again. Both have the most urgent priorities,
and their bodies are bounded. Nothing is assumed of messages or of the battery. In
`FirmwareStateService` the firmware receives and streams periodically, the calling
thread runs and time passes (weak fairness); `Observe` has strong fairness,
because the executor comes back to a timer that is ready between any two service
calls, however many are queued. In `StepperMotion` the timer never stops; nothing
is assumed of commands.

In `Telemetry` the UART task goes on (weak), and so does the transmitter: `Drain`
has strong fairness, because it is not enabled while a frame is being built, and
the fast lane calls `drainTx()` whenever bytes are queued. In `MagCalibration`
each task of the firmware goes on (with an IMU, `taskSensors` reads it), frames are received in the end or lost, and the
controller observes what arrives. `Send` is strong, once for reports and once for
samples: the superframe sends both, but what it finds to send depends on the state
at that time. In `SerialLink` the threads and the event loop go on, a device that
is live answers and streams its state, and timeouts expire. Nothing is assumed of
the device's being live: the properties say "if it stays live". Timeouts are
assumed to expire only while the device is not heard, as half a second and more
are long for the steps of a thread. In `Navigation` each motion thread and the
call that cancels go on; the program need never do anything.

Deadlock is checked in every run.

## 4. The proofs

Eight modules prove, for all values of the constants, the safety properties and
refinements named below. `Firmware_proofs` is about `Scheduler` as well, and
`Telemetry_proofs` about `FrameCodec`. Theorems of properties that no run has are
consequences of an invariant needed anyway (types, accounting of reused and late
outputs, the fault latch), say what an operator computes (`AllFit`, `FrameFits`,
`RoundTrip`), or say what a liveness property rests on.

For the pipeline the inductive invariant `Inv` adds three parts to the properties.
`SeqInv`: no number exceeds `requestedRound`, and a slot is pending exactly when
its request is not answered; without it a prepared number of an earlier life could
match a later request. `ComputeInv`: while the loop computes, the pipeline is
active and its motor is still pending or disabled, and if its request stands then
the sample it took is the newest. `StopInv`: what a disabling command has done so
far. `Implementation` follows from the invariant step by step: a tick is a visit,
`BeginCompute` a take, `FinishCompute` a delivery, everything else a stutter. The
lateness theorem uses that requests are at most a round old.

For the firmware the strengthening is `Watched`: while it runs with a battery,
either the fault is armed or the safety check is still due.

For the service the invariant says what was planned (`Planned`: the command is the
plan's, its state is not yet the target) and, when telemetry is not concurrent,
that the last state shown is still the one the plan was made from (`Blind`); from
this `WiringBlocks` (`NoCommandSucceeds`) follows in one step.

For the stepper `Inv` joins four parts. `Pins`: coils are powered and the
direction pin agrees whenever the profile runs, which makes `PositionTrue`
inductive. `Landing`: position plus what remains is the goal of a move that began
at rest; what a planned but uncommitted one read is still the position, because
the motor stands. `Room` relates the steps left, the steps made and the three
parts of the ramp. `Spacing`: the counter and the ticks since the last pulse add
up to at least the shortest interval allowed, and the current interval is never
below it.

For the calibration `RecordInv` says what each task of the firmware leaves in the
record between any two writes: `Booting` while `setup()` formats, `Storing` while
a calibration is written (the cells before `at` hold it already), and `Kept` while
nothing is written: a backup, and a calibration reported as saved, are those that
are stored. `SavedStored` is one conjunct of `Kept`; `Implementation` maps a cell
written over a valid record to `Tear`, the one that completes it to `Land`, and the
mark to `Done`.

For the transmit queue two facts suffice: the tail is `count` buffers after the
head, modulo the depth (`Ring`), and one is free whenever a frame is being built
(`Space`). Then the sequence read off the ring grows at its end, shrinks at its
head, and is not touched by a frame built in place. `Reported` says of the flags
that a step which clears one has just put into the buffer at the tail a frame that
tells it, save those that do not fit (section 5).

For the link the invariant is the property itself: `FreshAfterReset` is inductive,
with the types. Its proof is about the operators of `RouterCache` and what each
step does with their results.

`FitsRaw` needs to know what the channel to the backend may hold. `Announced`
says that, unless something was lost, no corrected sample is in it that the
controller would still keep when it comes to it (`Deaf`): the end of the session
goes before it. A state that is no longer SAMPLING has its report sent, or still
to be sent before any sample.

For the scheduler `Waiting` is the invariant of `LeadersFirst`: a task
more urgent and no less frequent that has not run since the task last did has
waited at least as long, so it is due when the task is, and goes first.

How long a task can wait is a matter of counting. `Backlog` are the runs of the
tasks ahead of it that can come while it waits no longer than `Lag`, and
`Schedulable` says that the whole passes that fit in `Lag`, four runs each, have
room for these and its own. `Feasible` is the invariant: as long as a task is due,
the passes that still fit in the time it has left, with what is left of the pass
under way, have room for the runs that can still come (`Jobs`) and for its own. So
`InTime` gives a bound for any table, and any behaviour of the fast lane.
The count begins anew with each overrun, and at the end of `setup()`: these make
tasks due, but each only once, so that `Backlog` bounds what they leave behind.
`TableInTime` applies it to the table of `setup()` (periods of 10, 10, 5, 10, 50
and 1000 ms): if passes of up to 7 ms are called ordinary, the longest for which four
runs a pass keep up, no task that is due waits longer than 118 ms of them. Passes
of 10 ms and more are not excluded by anything in the code, and while they last the
four fast tasks take all four places of each: taskUserIO and taskI2CRetry do not run
then. The condition of `InTime` is sufficient, not necessary in general; on the
instance of the run it decides as TLC does, `Lag` 3 yes and 2 no. `PassesEnd` says
that every step of `loop()` leaves the pass fewer steps, less than 30 once set up: the
limits of the two bursts bound a pass, whatever arrives meanwhile.

The liveness properties rest on fairness and on measures that go down. The
measures are proved: a number that the step which is fair lowers, and that no other
step raises while the premise of the property lasts.

| Property | Theorem | Measure |
|---|---|---|
| `SilenceStopsRobot` | `SilenceCounted` | the silence still allowed, and the heartbeat still held valid |
| `MovesEnd` | `MovesRunDown` | the ticks that the steps left can take |
| `CancelEnds` | `CancelledWindUp` | the steps a thread has left to its end, six at most |
| `LatestFollows` | `CatchesUp` | the stale states not yet observed |
| `Answered`, `ChangesReported` | `FramesLeave` | the parts to leave until the frame has left |

`LinkStays` is what `LinkRecovers` and `SilenceIsSeen` mean by "for good": once up
with nobody about to give it up, the link stays up while the device is live, and
is not shown as up again before it is.

`NoOverflow` justifies the stepper's integers: if a stop takes at most half of what
a 16-bit word holds, as the driver's 1000 ticks do (kMinStopSpeedSps), then no
interval or counter overflows 16 bits and no value or sum of the fixed-point ramp
32, whatever is configured during a move. A ramp with a slope begins between full
speed and the stop (`SlopeBounds`), and stays there (`Gradual`).

`RoundTrip` says that what either encoder makes of a message is accepted by both
decoders and parsed to that message. It rests on where each TLV begins
(`Payload` written as a function of its parts, and `Ends` that finds the same
places). `Resynchronises` is the bound of `ResyncBound` for any messages and any
checksum. Its invariant `CodecInv` has three parts: what is on the line is the
rest of a frame, damaged at its head at most (`OnLine`); what the decoder's buffer
holds fits its state (`Sound`); and what is left of the allowance (`Budget`):

| The decoder | may still need, at most |
|---|---|
| has read just what was sent of the frame on the line | that frame |
| looks for a frame before the first byte of one | that frame |
| looks for a frame in the middle of one | its rest and a frame |
| waits for the rest of what it took for a frame | `Left`, and two frames |

`UndisturbedArrives` says that a message sent to a decoder that
looks for a frame, and not disturbed, is delivered as sent with its last byte: the
half of `ImplementsLink` that does not depend on the checksum's noticing damage.

Induction over data is done on sets: if 0 is in a set and n + 1 with every n, all
numbers are (`SetInduction`, by a least element of the complement), and a function
over 0..N with given first value and step exists (`Recursion`), so that a recursive
definition satisfies its equations. `AllFit`
and `FrameFits`, about the recursive functions that fill a frame with replies, are
proved so, and so is `RoundTrip`.

For navigation a running thread holds the slot (`Owned`), so there is one at most;
`Stands` says what the program thread knows where it stands, `Rested` what
`shutdown()` has established. `FinishedContract` proves the contract of
`MotionHandle` for a program that polls `is_finished()` (`Patient`): the one that
polls `is_moving()` is the run finished_means_released.

The assumptions are those declared with the constants: at least one motor, loads
of at least one value, a natural timeout, a clock that fits a word, a longest
interval that is no shorter than that of the lowest starting speed (in the code
10000 / 100 ticks against 10000 / kMinStopSpeedSps), marks that differ from the
values they stand beside, replies that fit a frame one by one, a nonempty
bootstrap.

The codec's assumptions are that types, lengths and
counts of TLVs are bytes, that frames fit the decoder's buffer, and that a
checksum is a word.

Three theorems have hypotheses of their own. `NoneLate` assumes that every task is
`Schedulable`; `TableInTime` the table, 7 ms or less for `PassTime`, beyond which a
pass counts as an overrun, and the `Lag` of 118 ms;
`NoOverflow` that twice `StopTicks` fits a word.

Not proved, and only model-checked: the liveness properties themselves, as the
induction over their measures and ENABLED are out of the prover's reach;
`ImplementsLink` as a whole, because that a damaged frame is not delivered depends
on the checksum; and the recursive functions of `Crc16`, which use Bitwise
operators the prover does not know. Bounds such as `MaxRound` are guards of the models; the theorems hold for
every bound.

## 5. Not modelled, and what was noticed

**Not modelled.** Control arithmetic, encoder counting, odometry integration,
pulse widths, formatting, diagnostics output: sequential or numerical code. The
planners are geometric arithmetic over one pose. `RobotFSM` takes its decision
under one lock; its actions run outside it, so with two triggering threads
`on_enter(state)` may run when the state has changed again (robot_fsm.py:84). The
handshakes by which the robot API confirms odometry parameters and resets are
single comparisons with the next sample. The last step of `shutdown()`, which asks
for IDLE through the service, is a call of what FirmwareStateService models. The
encoders and decoders of the router convert one message each. The web application
serves requests over one database, the front end is a user interface, vision, GPS
and lidar process sensor data.

Most lines of the repository are vendored: the NeoPixel, ICM-20948 and PCA9685
libraries, and the lidar driver with its SDK. None of these is specific to this
system.

Left out of modules that are there: the wrap of `millis()` and of request numbers;
the bits of the H-bridge ports; `stop()` of the serial manager, and the reader's
own test and pop of the bootstrap queue; a frame that holds a whole valid frame as
payload; two program threads that use one robot.

**Differences between documents and code**, noticed while modelling. The models
follow the code. The first two are findings that a run shows.

- A heartbeat timeout puts the firmware in ERROR (run heartbeat_lapse); MANUAL.md:765
  says it stays in RUNNING, MANUAL.md:718 that motors re-enable automatically, and
  DESIGN_GUIDELINES.md that it returns to IDLE.
- A service call that sends a command times out even when the firmware did it, as
  it waits in the thread that delivers telemetry (bridge_node.py:316, run
  confirmation_unread); SetFirmwareState.srv:2 says it waits for the confirmation,
  hardware.py:150 that it blocks until the transition completes.

No run checks the sentences that follow.


- A homing that ends leaves the DC motor enabled in PWM mode (DCMotor.cpp:476);
  motion_control.md:110 says it is disabled.
- The late counter reads a 32-bit counter of the interrupt unlocked
  (MotorControlCoordinator.cpp:219), so a compute in time may be counted late. Only the
  counter is affected, as lines 219-221 drop nothing; the test also waits for as many newer requests as there are motors, and
  disabled motors file none, so it misses late computes (motion_control.md:76).
- STOP leaves ERROR as RESET does, and neither looks at the battery;
  SafetyManager.h:19-20 says otherwise.
- `ERR_LIVENESS_LOST` has the value of `ERR_UNDERVOLTAGE` (TLV_Payloads.h:68), so
  a heartbeat fault is reported as an undervoltage.
- MANUAL.md:775 calls an overvoltage a warning while the code faults.
- A message that comes between taskUART's timeout check and the next taskSafety
  makes the heartbeat valid again, and no fault follows (MessageCenter.cpp:914);
  MessageCenter.h:22 says SafetyManager responds on the next check.
- A servo channel that holds a pulse keeps it in ESTOP, as no register is written
  and PIN_SERVO_OE is not defined (MessageCenter.cpp:2089); MANUAL.md:785 says
  ESTOP immediately disables all actuators.
- SystemManager.h:17 says ERROR is entered from any state; the check skips INIT
  and IDLE.
- `applyOutput()` of M2-M4 changes a port register that several motors share in
  more than one instruction; called by the loop's `disable()`, it can revert the
  direction bits that the interrupt has just written for another motor, until its
  next visit (DCMotor.cpp:698).
- A STOP planned from stale telemetry ends an emergency stop
  (firmware_state_service.py:140); an ESTOP asked for on stale telemetry that
  shows ESTOP is answered "Already in target state." and not sent (:126), while
  hardware.py:168 says it transitions immediately.
- Homing a stepper goes at a quarter of the velocity asked for and leaves that
  velocity as the maximum of later moves (API_REFERENCE.md:732).
- The period between steps is the interval plus one tick (StepperMotor.h:65 gives
  timer frequency over velocity): 5000 steps/s, the maximum of MANUAL.md:190, come
  out as 3333.
- A relative stepper move replaces what is left of the current one, wherever the
  motor is.
- `taskI2CRetry` enables the servo outputs with no channel enabled; a calibration
  action queued in IDLE is executed in whatever state comes.
- START of a calibration, sent twice, loses the backup that STOP restores
  (SensorManager.cpp:304), as the first one has made the state SAMPLING;
  SensorManager.h:32 says STOP restores.
- A session that a second START begins before the end of the first was reported
  makes the controller miss that end, and a lost or overwritten APPLY leaves it
  waiting; a reboot of the firmware does not reset it (`upset`).
- The controller looks at the 30 s after which it gives up only when it accepts a
  sample, and accepts none without an IMU or while the magnetometer reads zeros
  (mag_calibration.py:281); such a session lasts until a user sends STOP, as
  `startMagCalibration()` does not ask for an IMU. `SessionsEnd` speaks of sessions in
  which the magnetometer has a reading.
- Power lost while a calibration replaces another, or while an older layout is
  formatted (its header is written first, PersistentStorage.cpp:55), leaves a
  mixture that the next boot takes for a calibration. PersistentStorage.h calls 2
  the current layout, and PS_VERSION is 3.
- With the replies to all PID requests pending, those that no longer fit are lost,
  as the flags are cleared first (MessageCenter.cpp:637-667). The bootstrap's
  pace, two requests per 100 ms, avoids it; a flood of requests also starves
  telemetry.
- arduino.ino:445 speaks of at most two motor compute chunks before a UART service
  opportunity; that is so within one burst, and bursts that end after one compute
  with nothing pending do not serve it. Scheduler.h lists UART, PID and sensors as
  tasks of interrupts; they are registered with it.
- A bootstrap asked for within a second of the last one is ignored
  (message_router.py:160-164), so after two resets in a second snapshots of before
  the second stay; COMMUNICATION_PROTOCOL.md:297-301 asks for fresh snapshots on
  every connect or resynchronisation.
- The task that flushes the bootstrap queue tests it and pops in two steps; when
  the reader thread clears the queue in between, the task ends and nothing is
  asked for again (message_router.py:181).
- A motion tick longer than a second makes `cancel_motion()` give up, and the
  tick's command enables the motors after `shutdown()` disabled them (`gaveUp`). A
  SIGINT between registering and starting a thread makes `shutdown()` raise and
  end without disabling.
- `move_to()` passes 2.0 where the callee has its tolerance in mm
  (navigation.py:509 against 947-956).
- When the last bytes of a frame are lost and equal the beginning of the magic
  number, the first bytes of the next frame may complete it and the lost message
  is delivered late. A payload that holds the magic number can mislead a decoder
  that is out of step (`misled`); `ResyncBound` does not speak of that case.

## 6. What is left

The port registers of the H-bridges as part of MotorControl; two program threads
in Navigation; the odometry handshake together with the router's refresh of it; `TxFifo` and `LossyLink` composed with SerialLink, so
that one property speaks of a message from a firmware task to the robot API.
