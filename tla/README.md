# Specifications of the DFC drone and its pilot station

DFC is a quadcopter flown over 802.11 beacon frames: a flight program on the
drone (`src/drone/flight_control`) and a pilot station with a joystick and a web
page (`src/pilot`). The repository has no tests and its README says "Coming
Soon", so the code, its headers' comments and its messages are the reference.
This directory holds TLA+ modules of its control logic, TLC configurations that
check them on small instances, and TLAPS proofs for every instance.

## The system

### Parts, their state and operations

| Part | State | Operations |
|---|---|---|
| Flight control loop (`imu.c` `main`) | `_poweron`, `*_pilot` (sticks, gas, requested channel and wifi mode, `ticks_since_recv`), `_current_wifi`, the six controllers | per sensor sample: age the silence counter, send telemetry, poll UDP, read the sensor, failsafe, cutdown, controllers, mixer, or motors to zero |
| Command receiver (`imu.c` `pilot_recv`, a thread) | its frame buffer | `apply_pilot`: parse, stamp, arm or disarm, follow a channel request, change the wifi mode, store controller gains |
| Attitude controllers (`pid.c`) | gains, integral, terms, output | step, land, configure |
| Motor output (`pwm.c`) | the kernel's duty cycles and enable switches, `cache_pwm` | `init_pwm`, `set_pwm`, `get_pwm` |
| Sensor (`gy953.c`) | last readings and rates of the filters | start-up, one framed sample per read, blocking |
| Beacon link (`80211beacons.c`), on both ends | one cipher handle, sequence numbers, the radio's channel | inject a frame, receive one with a timeout, set the channel over netlink |
| UDP server (`udpserver.c`) | two sockets | non-blocking receive, parsing of raw channels |
| Pilot station (`pilot/main.c`) | `data_stream`, `_current_channel`, `_requested_channel`, `_targeted_channel`, `_requested_wifi` | main loop: joystick events and command frames; telemetry thread: follow the drone, hop towards the target, web commands |
| Web console (`webui.c`) | one slot for a command | event handler, poll, receive, broadcast |
| Battery, elapsed time, device tree | | shown or used for pacing only |

### How they interact

- The loop and the receiver of the drone share every global without a lock. The
  loop is paced by the blocking read of the sensor (100 Hz); the receiver by its
  socket (1 ms timeout) and a sleep of 10 ms.
- A command frame takes one of two ways into `apply_pilot()`: over UDP in the
  loop's own thread, or over the beacon radio in the receiver.
- The station asks for a channel in every command frame; the drone follows and
  reports its channel in the telemetry; the station follows the report and asks
  for the next neighbour. Nobody acknowledges a frame.
- The two threads of the station share the request variables; the two threads of
  either end share the cipher handle.
- The kernel's PWM outlives the process. Nothing but a later `set_pwm()` or
  `init_pwm()` stops a motor.

### What is hard

Unlocked read-modify-writes of two threads (silence counter, failsafe and gas
clamp), tests and uses that a store of the other thread separates (arming, wifi
mode, gains), a buffer that is applied again unless its first byte is zeroed,
exits between two steps, lost and delayed frames while both radios move, writes
whose refusal nobody looks at, one cipher handle and one command slot for several
users, ends that start again in mid-hop, conversions that lose a bit or a sign. `PROJECT.json` lists every such place under
"hazards", with the property that covers it or the reason there is none.

### What correctness means, part by part

- Flight control: a silent link leads to level sticks and low gas; engines are
  switched on only by the gesture; a process never ends with motors turning; the
  delays are those of `imu.h`.
- Command frames: the station's requests arrive; only held sticks switch engines.
- Channel hopping: the radios stay within reach; the target is reached.
- Controllers: the control law, the anti-windup and the landing hold although the
  gains change at any moment.
- Motors: zero means stopped; a restart revives nothing; the mixer keeps the thrust;
  the failsafe arrives at the kernel, but for motors that refused a number.
- Heading: the controllers see real rates and are not told to correct an old heading.
- Beacon link: a race for the cipher handle costs no more than the blocks it hits;
  an end takes the other's frames and no others, each once, in order.
- Web console: commands are obeyed in order, and the last one is obeyed.

## The modules

| Module | Models | Proofs |
|---|---|---|
| `EngineSwitch` | abstract: a switch, a loop that samples it before driving, a process that ends only with the motors stopped | |
| `FlightControl` | loop and receiver of the drone | `FlightMotorsProofs` |
| `MotorPwm` | mixer, `init_pwm`, `set_pwm`, the kernel, exits | `FlightMotorsProofs` |
| `FlightMotors` | `FlightControl` on the four motors of `MotorPwm` | `FlightMotorsProofs` |
| `CommandFrame` | joystick to sticks | `CommandFrameProofs` |
| `LockstepHop` | abstract: the drone leads by one channel and waits | |
| `ChannelHop` | both ends of the channel negotiation | `ChannelHopProofs` |
| `ChannelRestart` | `ChannelHop` with ends that start again | `ChannelHopProofs` |
| `PidControl` | one controller, its loop and its configuration | `PidControlProofs` |
| `HeadingHold` | the sensor's yaw, its filter, `yaw_abs` | `HeadingHoldProofs` |
| `BeaconCipher` | two threads on one cipher handle | `BeaconCipherProofs` |
| `BeaconFilter` | operators: the socket filters and the way through a captured frame | `BeaconReceiveProofs` |
| `BeaconReceive` | numbers and buffers of the link, losses, restarts, on `BeaconFilter` | `BeaconReceiveProofs` |
| `LatestCommand` | abstract: commands are obeyed at most once, as given, in order | |
| `WebConsole` | pages, the slot, the buffer, the parser | `WebConsoleProofs` |

The `MC...` modules only give constants their values. Operators with a suffix
(`Aged_Unclamped` beside `Aged`) are the same definition with a plausible bug;
they show that the properties can fail and are used nowhere else.

### FlightControl, MotorPwm, FlightMotors

`pc["main"]` and `pc["rx"]` are the places of the two threads. A step is one
access to a variable the other thread may disturb; what nothing can come between
is merged. `ticks_since_recv++` is two steps (`TickLoad`, `TickStore`: on the MIPS
target it is a load and a store), the failsafe five (`Silence`, `CentreTilt`,
`CentreYaw`, `GasTest`, `GasClamp`), `parse_pilot()` one per channel in the order of its mapping, the
arming test three. The stick positions are classes: gas a level compared with the
thresholds of `imu.h`, yaw a side, pitch and roll level or tilted. `pwm` is what
`set_pwm()` last wrote. Frames are records from two constant sets, one per source;
a beacon call without a frame runs `apply_pilot()` on the old buffer, as the code
does. `Boot` is the program started again.

History variables, read by no guard that models code: `fresh` (who carries a frame
that has not been stamped), `quiet` (passes since a stamp, saturating), `tops`
(passes begun while the receiver sleeps, saturating at two). `tops` is used once,
in `ExitAfterSleep`: the receiver sleeps eleven seconds and a pass of the loop
takes ten milliseconds, so a whole pass lies inside the sleep unless the loop
sleeps in the same function. That is an assumption about timing, and it needs the
sensor to keep sending.

Merged: pitch and roll are one class (`tilt`), so that their two stores in the failsafe
are one step, and so is a stick of two words on the 32 bit target; no test of the code
separates the halves.
Left out of this module: `yaw_abs` (in `HeadingHold`), gains (in `PidControl`),
the channel request and the telemetry's channel (in `ChannelHop`), battery.

`EngineSwitch` is implemented under `running <- alive, armed <- poweron,
spin <- pwm.spin, permit <- "the loop is past its test of _poweron"`.

`MotorPwm` writes one motor per step; the kernel accepts a duty cycle inside the
period and keeps the old one otherwise (a negative sum is an enormous `uint64_t`);
`Exit` may come between any two writes and keeps the kernel's state.

`FlightMotors` is both at once: a `set_pwm()` that `FlightControl` takes for one
step is called in that step and carried out in four more, which the loop waits for
and the receiver does not. The receiver may end the process between two of them. A
started program runs `init_pwm()` before its threads. `FailsafeAtMotors` is about the
kernel's duty cycles, not about what was asked for: after a call without a refused
number they add up to at most the failsafe gas per motor, and every write that changes a
motor gives it a mix of at most that gas or stops it. A motor whose write is refused
keeps what it had, however much that is; the code does not notice.

### CommandFrame, PidControl, HeadingHold

`CommandFrame` stores every joystick event at the byte of its number, buttons
included, starts from an arbitrary `data_stream`, and has the conversions of the
drone with their truncating divisions. `PidControl` is `pid_int_fixed_delta()`
field by field against `parse_pid_config()` field by field; the compiled code may
keep a gain in a register or load it again, and `Reuse` allows both.

`HeadingHold` is the yaw from the sensor to the controller. `Filtered` is the float
filter: a truncated tenth, and one below where a whole result may be rounded down.
The start-up tests `got` before it is written, so it may read nothing
(`StartSkipped`) or fail without anybody looking (`StartFailed`). Nothing depends on
the absolute heading, so `lead` is the difference between `yaw_abs` and it.

### ChannelHop, ChannelRestart

The station's telemetry thread and the drone's receiver, each one step per access
to shared state or to the radio; `commands` and `telemetry` are the receive sockets.
A frame enters a socket only if the radios are within `Reach` channels when it is
sent; a loss is simply a send that does not happen. `set_channel_nl80211()` fails in two
ways. `TuneErrors` lets it return an error (no message, no room in it), after which the
code keeps its old channel. `SilentErrors` lets the kernel drop the request: the result
of `nl_send_auto_complete()` is not looked at, 0 is returned, and the program stores a
channel its radio is not on. The history variable `astray` names the ends whose last
request that was so: the two programs still move in lockstep (`LockstepSpec` has no
exception), the radios again as soon as both have been tuned (`InReach`,
`TargetReached`). Only the code that compares the channel asked for with the one stored
decides whether that ever happens; an end at its target is not tuned again.

Of the stores of a `wifiMode=2` command the sending thread reads one that matters here,
`_requested_channel`, so they are one step; its read of that variable and the sending of
the frame are one step too, as a frame between the two is as good as one that waits in
the drone's socket. The engines are on (no wifi mode change on the
drone), the beacon radio is the drone's only source, and both ends start tuned to
the initial channel; `droneRequested` starts at 0 as calloc leaves it.

`ChannelRestart` adds `BootDrone`, whose globals say channel 13 while the radio stays
where it was, and `BootStation`, which tunes its radio, or tries to and does not look at
the result.

### BeaconCipher, BeaconFilter, BeaconReceive

In CFB mode the handle keeps one register. `BeaconCipher` says whose block it holds;
a block comes out right if that is the caller's own. The library may work on a copy
of the register or in place; both are allowed.

`BeaconFilter` runs the program of `code_drone` and `code_pilot`, instruction by
instruction, on frames described by their addresses and lengths, and finds the
payload as `packet_handler()` does, with the eight bits of `hlen`. Bytes that are
looked for at a wrong place may be anything. A header that does not begin with two
zeros, which `packet_handler()` tests, and a payload too small to hold what is put
around it are garbled frames (`Discard`).

`BeaconReceive` puts such frames on the air, loses, garbles and cuts them, and lets
both ends restart. The drone keeps its buffer between calls and ignores the length;
the station clears its buffer and looks at the length. Sequence numbers are rebuilt
from shifted ints: a set bit 31 extends its sign and the bytes above come out as
zero or over the lowest byte. `IntRange`, `SeqRange` and `SignAt` scale the widths.
`ResetSeqnum` is `reset_recv_seqnum()`, which the drone's failsafe and a new target of
the station call; only the printed test for old numbers reads what it resets. The
drone's `recv_command` is not initialised; `RestartReceiver` takes its first byte for
zero, because it lies on the stack of a new thread, in fresh pages, five thousand bytes
below all that has been written there.

### WebConsole

`Poll` is `ev_handler()` run over all frames that have arrived, `Obey` is `recv_www()`
and `parse_www_command()`. Texts are a keyword and digits, so that the tail of a
longer command in the buffer can change the number of a shorter one. Each page sees
`LatestCommand` with its own commands.

## What is checked

| Run | Question | Instance | States |
|---|---|---|---|
| `flight_beacons` | exits, arming, stopping and the refinement of `EngineSwitch`, down to single writes, with beacon frames | thresholds 2 and 3 ticks, gas 0..3, period 4, turns of 1, five frames, fairness | 753,078 |
| `flight_both` | failsafe, down to the duty cycles, and obedience of the motors with both sources | three UDP frames and one beacon frame, period 6 | 247,731 |
| `flight_cutdown` | the cutdown of `imu.h:31` | violated, see below | |
| `flight_stopped` | "Engines stopped", `imu.c:204` | violated, see below | |
| `hop_target` | lockstep, reach, home and target, with lost frames, silently dropped netlink requests and mode changes | three channels, one frame per socket, fairness | 380,584 |
| `hop_restart` | what survives a restart of either end, with netlink requests that return an error | four channels, one restart, fairness | 169,140 |
| `pid_rate` | law, anti-windup, landing under reconfiguration | three gain sets, two errors, two rates | 1,571,286 |
| `command_frame` | requests and gestures through the frame | eight axes, two of them moving, five positions, four buttons | 1,138,960 |
| `heading_hold` | rates and held heading across the seam and restarts | a circle of 60 units, turns of 2, tick of 4, fairness | 52,733 |
| `beacon_cipher` | what a race for the handle garbles | frames of three blocks | 29,953 |
| `beacon_receive` | filters, decoding, order and numbers under loss and restarts | 2,400 kinds of frame, seven of them on the air, four sent, two waiting, numbers of four bits | 836,190 |
| `web_console` | refinement of `LatestCommand`, last command, last mode | two pages, two commands each, four texts, fairness | 40,688 |

Why the bounds are enough. Two failsafe ticks are the least with a pass that is
aged but not yet silent; one more to the cutdown leaves room for a silence between
them. The gas levels are one per side of each threshold, and the frames of
`MCFlightMotors` are one of each kind that matters: full flight, the gesture, the
gesture one level too high, stop with and without the other mode, a configuration.
A period of 4 with gas up to 3 and turns of 1 has mixes below zero, inside and
beyond the period; the 6 of `flight_both` takes every mix up to full gas, so that only
those below zero are exempted from the failsafe. A hop concerns two neighbouring channels
at a time; three channels contain consecutive hops and a turn back, and the fourth of
`hop_restart` one that is further from home. One frame per socket is still one that may
be old; more than one, and any number of channels, is what the proofs cover, and so are
both kinds of netlink failure at once and in both modules: a run has the one its properties
turn on, because a request that is dropped and one that returns an error differ for
liveness only in the channel the program believes in. Gains
include both a frame that narrows and one that widens the limit, and zeros. The stick
bytes are one end, the centre and both sides of the arming threshold. The circle of
the heading is crossed at the seam in both directions, and its tenth, 3, is larger
than a turn, as on the drone. Three blocks are a first, an inner and a last one. The
frames are both ends' and strangers', among them one that shares four bytes of its
address with an end, behind the longest header that fits eight bits and the shortest
that does not; four frames let one be refused, one lost and one used after it. Two
commands of two pages meet in the slot in every order.

### What the code does not do as announced

- **The cutdown never fires** (`flight_cutdown`). `imu.c:430` clamps the silence
  counter to the failsafe threshold before `imu.c:485` compares it with the larger
  cutdown threshold. TLC's trace is a silent link with the engines on for ever;
  theorem `CutdownIsDead` says it for all thresholds.
- **"Engines stopped" with the engines running** (`flight_stopped`). A stop frame
  over UDP that also asks for the other wifi mode exits from inside
  `apply_pilot()`, in the loop's own thread, before the loop zeroes the motors.

What the properties leave out because it does not hold, and no line of the
repository promises it:

- A frame stamped between the load and the store of `ticks_since_recv++` is
  forgotten, and the failsafe can fire on a live link. The next frame ends it; the
  other direction, a failsafe that comes late, is impossible (`TicksTrackSilence`).
- With UDP frames at the same time, the arming test can mix two frames, and a UDP
  frame can arm while the receiver is about to exit. `ArmsOnlyOnCommand`,
  `ExitLeavesNoDuty` and `SwitchSpec` are therefore claimed without UDP packets.
- A drone that restarts within a channel of home can make the station take the
  channel it reports for its own hop, and the radios part (`misled`).
- A station that restarts in mid-hop and is told to hop again can chase the drone for
  ever under an unlucky schedule; the target is claimed while the station has not
  restarted. If both ends restart and tuning fails, both may believe in the initial
  channel and stay apart from it.
- From 2^31 on frames are refused for their number; the page goes blank, the drone
  goes on obeying them (`WholeIsUsed`).
- A radio whose last request the kernel dropped stays on another channel than the
  program believes, until the program asks for another one (`astray`).
- A gain set to zero leaves its last term in the output until the next landing, which
  the yaw controllers never have (`UndisturbedStep` says no more than that).
- A command in the slot of the web console is lost to a later one; frames whose blocks
  the other thread garbled pass their checksum.

### Fairness

`FlightMotors!FairMotorsSpec` has weak fairness of each thread: every blocking call
has a timeout or is fed by a sensor that keeps sampling; nothing obliges anyone to
restart the program. `ChannelHop!FairSpec` has weak fairness of the station's and
the drone's receivers, which poll; strong fairness of the two sends, because of the
frames sent again and again within reach some get through; and strong fairness of a
successful `Follow` and `Tune`, because both ends repeat a netlink request whose error
they see, and one that is dropped is followed by others as long as channels are asked
for. Without that no protocol without acknowledgements reaches anything.
`ChannelRestart` has the same and no obligation to restart. `HeadingHold` assumes
that the sensor sends and the loop runs, `WebConsole` that its thread runs and the
connections deliver. Safety properties assume no fairness.

## What is proved

All theorems are for every value of the constants under the named assumptions
(`TickAssumption`: the failsafe threshold is positive and below the cutdown;
`GasAssumption`: the thresholds are in order; `ThrustAssumption`: the mixer is given
the pilot's gas; `TurnAssumption`: a wrap cannot be taken for a turn; `AirAssumption`:
both ends send to everybody; `LengthAssumption`: what a field of the frame can hold;
`TextAssumption`: a command starts with its keyword and is not empty; the others are
types and widths). Where a theorem asks for more, that is named with it: only some on the
flight program do, for no UDP packets.

**FlightMotorsProofs**, on `FlightControl`. `Typed`; `SilenceTracked` from `TicksInv`: only a frame
nobody has stamped is being written, every buffer left behind has its first byte
zeroed, and the register of the increment does not lag the silence either;
`FailsafeWorks` from `FailsafeInv`: what the failsafe stored survives until the
mixer reads it unless a frame is being written, and then the link is not silent;
`CutdownIsDead`. Without UDP packets: `ExitStopsMotors` from `ExitInv` (the
receiver sleeps with the engines off, and two passes begun meanwhile mean one
completed, which zeroes the motors), `ArmingNeedsCommand` from `ArmInv` (while the
receiver arms, `*_pilot` holds its frame or the failsafe's values, which never
arm), and `ImplementsSwitch`, step by step.

**FlightMotorsProofs**, on `MotorPwm`. `DutiesStayTyped`, `AllStopped`, `TelemetryShows`, `LiftKept`,
`RestartsStopped`, all from `PwmInv`: the motors already passed carry what was
asked for if the kernel accepts it, and before the first flight only zeros are
asked for.

**FlightMotorsProofs**, on both. `ImplementsFlight` and `ImplementsPwm`: every step of the
composition is a step or a stutter of each part, so all theorems on the parts hold
of it. On top of them `MotorsObey` from `FollowInv` (the call under way is the one
`FlightControl` has seen the end of); `FailsafeReaches` from `FollowInv`, `FailsafeWorks`
and `MixInv` (what a call asks for is a mix of its gas, or zeros): on a silent link the
call under way was made with at most the failsafe gas, so each of its writes that is
accepted is a mix of that, and four accepted ones add up to four times the gas; and,
without UDP packets,
`ExitStopsDuties` from `StopInv` (while the receiver may end the process, a call under
way writes zeros over zeros).

**ChannelHopProofs.** `Typed`; `StaysInReach` and `ImplementsLockstep` from
`HopInv`. The idea: a hop is one turn from the old channel to the new one that
travels around the loop station - command socket - drone - telemetry socket -
station. Each socket holds old values followed by new ones (`Turns`), and upstream of
the first new value everything is new (`All`). The six lemmas on sequences say how
appending and taking preserve that. Where the radios are follows from where the programs
believe to be, for every end that is not `astray`; the rest of the invariant does not
look at the radios and holds through any failure of a request. Neither bounds the sockets, the channels or the
modes given; a station called home releases the radios from the lockstep.
`HomeIsKept` is on its own.

With restarts: `StaysInReachAgain` from `RestartInv`, for any number of restarts of
the drone. A new process reports the initial channel without being there (`Lies`);
as that is more than a channel away, the station follows none of these reports, and
what the drone knows (`Place`) and what its radio does are told apart until a command
sets both (`Dark`). Between the lies the telemetry turns once, as it does in `HopInv`.
`HomeIsKeptAgain` holds with restarts of either end.

**PidControlProofs.** `Typed`, `Bounded` (from `WindupInv`: whatever limit each clamp
reads is somebody's Kimax), `FollowsLaw` (from `CalmInv`: as long as no gain was
stored since the step began, each term agrees with the gains in force) and `FreshInv`
(the old terms of the first step after a landing are zero),
`StartsFresh` (from `LegacyInv`).

**HeadingHoldProofs.** `Typed`; `RatesAreReal` from `RateInv`: only before its first
sample is the driver without the reading it subtracts, and then its rate is zero;
`HoldKeepsUp` from `HoldInv`: of three passes in a row one at least steers, the wrap
of the tick included, so the lead never gathers more than two rates. The lemmas
`FilterMean` and `FilterFirst` bound the filter for all widths.

**BeaconCipherProofs.** `Typed`; `RacesContained` from `CipherInv`: as long as the
other thread has not written at this block, the register is what the frame left
there, for frames of any length.

**BeaconReceiveProofs.** `FilterIsRight`: the program of either socket filter, run
instruction by instruction on a frame with any type, addresses and lengths, returns
nonzero exactly for the beacons to or from the other end. `SetInduction`, from the
least element of a set of numbers, gives the run of the program, its steps (`Fetch`)
and that what it has returned stays (`Settles`); `FindsHeader`, `BySender`, `ByReceiver`
and `Out` are the stretches of code, and `FilterDecides` joins them. `WholeIsFound`: the
steps of `packet_handler()` add up to the place the sender put the payload at, as long as
the eight bits of `hlen` suffice. On top of these, `UsedInOrder` and `UsedOnceInOrder`
from `OrderInv` and `ByPeer` (the frames of a socket are numbered upwards, above all
that was taken or obeyed; a buffer that would be used holds the frame just taken, and
one that is listened into again holds nothing to use), `DueIsUsed` from `DueInv` (the
frame that is due has been used or is about to be) and `PageIsTrue` from `ShownInv` (the
number beside a frame that will be shown is its own). They hold for any number of
frames, any width of the numbers and restarts of both ends.

**WebConsoleProofs.** `ImplementsConsole`: for any pages, commands and numbers of them
each page sees `LatestCommand`. From `OrderInv`: what is on its way from a page is
numbered above what it has seen obeyed, first in the slot and then on the connection,
and holds what the page gave under that number; and the buffer's first byte is zero
whenever the slot is read, so that an old text is not obeyed again.

**CommandFrameProofs.** `Typed`; `RequestsArrive` from `RequestInv`: from the request to
the frame nobody else writes its two bytes, and both conversions undo each other on
them; `GesturesAreHeld` from `HeldInv`: a stick that has been reported is what it is
held at, or centred by a button, and a centred stick is not a gesture. `GasInRange` takes
the threshold of the gesture back through both truncating divisions to the byte of the
stick. They cover any
set of byte values, moving axes and buttons, and every channel and mode.

Only model-checked: the liveness properties (`MotorsStop`, `TargetReached`,
`HomeTogether`, those of `ChannelRestart`, `Settles`, `LastObeyed`, `LastMode`), since
fairness is out of the prover's reach. Every safety property that a passing run checks
is stated by a theorem.

## What is not modelled

- The encryption and the checksum themselves, random padding, the set-up of sockets,
  pcap and netlink: I/O and libraries.
- The layout of the telemetry and its text on the page, battery, elapsed time: they
  are shown and change nothing that is controlled. The devicetree and the build files
  have no behaviour.
- A sensor that falls silent: the read blocks and nothing in the code ends it. The
  framing of a sample; pitch and roll, which are filtered like yaw without the wrap.
- The web server; pages and their connections are `Give` and the delivery in `Poll`.
  Sizes of texts, and the buffers `realloc()` does not grow.
- A second command source in the channel negotiation; frames reordered on the air, which
  one hop without retransmission does not do.
- The first moments of the station: `main()` sets the requested and the targeted channel
  (`main.c:329`) after it has started the telemetry thread, so that a command the page
  gives in between is undone. The modules start after those stores.
- `open()` of a sysfs file that fails; `close_pwm()` and `send_www_channels()`, which
  nobody calls.
- The two-byte raw channels, and joysticks with another number of axes than the
  eight the mapping of `imu.c:58` is for.

## Plan

Done: the flight program with its switch and motors, the channel negotiation with
restarts, controllers, heading, command frames, the beacon link, the web console.

Every safety property is proved for all values of the constants. Next, in this order:

1. The UDP source in `ChannelHop`: `requested_channel` read again after tuning.
2. The layout of the telemetry, from `send_telemetry()` to the base64 of the page.
3. The gas test and clamp of the failsafe as a theorem on what a frame between them
   can lose, beside `FailsafeWorks` on what it cannot.
