# Open-RTH: specifications, model checks and proofs

Open-RTH puts two boards between an electric vehicle under test (EV DUT) and a
charging station under test (EVSE DUT). The *EVSE board* plays a charging
station towards the EV DUT, the *EV board* plays a vehicle towards the EVSE
DUT, and the two relay the V2G messages of the devices to each other over an
MQTT broker:

    EV DUT <-TCP-> EVSE board <-MQTT broker-> EV board <-TCP-> EVSE DUT

Both boards run the same program (`src/src/app/main.cpp`);
`config.device_type` decides which one it is. Paths below are relative to the
repository; "device under test" is always the peer behind the charging cable.

## 1. The parts of the system

| Part | State it keeps | Operations | Interacts with |
|---|---|---|---|
| Main loop and state machine: `app/main.cpp`, `app/rth_statemachine.cpp` | `rth_state`, `rth_hs`, `server_flag`, `signal_captured`, `remote_timer`, `rth_start_time` | `main`, `rth_state_machine`, `rth_handshake`, `broker_check`, `perform_SLAC`, `sig_handler`, `exit_app` | everything below, one call at a time; shares `rth_hs` with the MQTT thread and `exit_app` with the relay thread |
| Message relay: `tcp/client.cpp`, `tcp/server.cpp`, `mqtt/mqtt.cpp`, `app/common.cpp` | `rth_data_received`, `rth_datapacket` (globals, no lock), `m_psock`, `m_connected` | `CClient::task`, `CServer::task`, `CWolfMQTT::handle_message`, `send_message`, the hexadecimal conversions | a relay thread and the MQTT thread of each board; the TCP socket; the broker |
| TCP socket: `utilities/netsock.cpp` | descriptors, time-outs | `connect`, `listen`, `accept`, `wait_for_data`, `receive`, `send`, `close` | the relay threads; `exit_app` closes it from another thread |
| MQTT wrapper: `wolfMQTT_cpp/wolfMQTT_cpp.cpp` | the socket, a pipe to its thread, the library's client object and its two buffers | `connect`, `subscribe`, `publish`, `close`, its own thread | the broker; calls `handle_message` on whichever thread reads; `send_message` publishes under `publish_mtx` |
| J1772: `J1772/J1772.cpp` | `pilot_state`, `pilot_state_name`, `duty_cycle`, oscillator | `sample_J1772`, `get_pilot_state`, `set_pwm`, `control_pwm`, `set_cp` | the serial port |
| Serial framing: `io/io.cpp` | a static partial frame | `read_serial_data`, `write_to_serial`, `flush_read_buffer` | J1772 |
| SDP: `sdp/sdp.cpp`, `utilities/udpsock.cpp` | the message buffers, the peer's address and port | `perform_SDP`, encode, parse | UDP with the device under test |
| SLAC: `utilities/open-plc-utils/slacify.cpp` | one session and one channel per side | the PEV and EVSE state machines, `PEVSlac`, `EVSESlac` | the power-line modem and the device under test |
| Timers: `utilities/mstimer.cpp`, `utilities/sleeper.cpp` | start, interval, flags | `OneShot`, `Periodic`, `Sleeper` | main and J1772 |
| Capture: `utilities/tcpdump.cpp` | child process id | `start`, `stop`, the destructor | main, `exit_app` |
| Configuration, JSON status, logger, network helpers | values read once; text written | | main |
| `utilities/open-plc-utils/*` (below `slacify.cpp`), `lib/*` | third-party code | | SLAC, MQTT wrapper |

What is hard about it:

* **Concurrency.** Each board runs main, the MQTT thread and a relay thread.
  The mailbox of the relay (a flag and a string) and `rth_hs` are plain globals
  written by one thread and read by another. `exit_app` can be entered by main
  and by the relay thread at once and tears down what the other still uses.
* **Unreliable delivery.** Publications are QoS 0; nothing is acknowledged or
  retried by the relay, and the handshake retries by count.
* **Ordering and segmentation.** The relay takes whatever bytes are available
  for one message.
* **Time.** The handshake limits, the SLAC retries, the 10 s SDP wait and the
  90 s remote timer of the two boards start independently; some waits have no
  limit at all.
* **Shared connections.** main and the thread of the MQTT wrapper use one
  client object, whose library has no locks of its own, and two buffers that
  lie on the stack of a function that has returned.
* **Late answers.** The controller of the board is asked, given a fixed delay
  and read once: what comes later is read as something else's answer.
* **Partial failure.** One board may exit, fail its handshake or lose its
  broker while the other goes on.

What correctness means, part by part: the relay behaves like a cable until
something goes wrong, and what goes wrong afterwards is silence, never a wrong
or repeated message, except for causes that can be named; the handshake
succeeds under a stated skew and loss and never makes a board believe in a
peer that took no part; a board's session is equipped with what it needs and
every way out of it leads to an `exit_app` that gives everything back;
discovery sends a vehicle to the TCP server of a station that has answered it,
and fails only for a reason that can be named; the pilot state the board acts
on was measured by the controller, at most a few commands ago; the board
listens to its broker until something breaks, and handles what it hears in
order.

`PROJECT.json` lists each hazard at its line with the properties that cover it.

## 2. The modules

| Module | Content |
|---|---|
| `Cable` | abstract specification: what the two boards promise together in remote mode |
| `Relay` | remote mode on both boards: MQTT threads, relay threads, TCP connections, devices under test |
| `MCRelay`, `Relay*.cfg` | instances for TLC |
| `RelayProof` | theorems about `Relay` |
| `Handshake` | `rth_handshake` of both boards with the MQTT thread, at any pace and at the pace of `sleep(3)` |
| `MCHandshake`, `Handshake*.cfg` | instances |
| `HandshakeProof` | theorems about `Handshake` |
| `RthBoard` | the process of one board: main loop, state machine, relay thread's socket, `exit_app` |
| `MCRthBoard`, `Board*.cfg` | instances |
| `RthBoardProof` | theorems about `RthBoard` |
| `Slac` | `PEVSlac` and `EVSESlac` against each other over the power line |
| `MCSlac`, `Slac*.cfg` | instances |
| `SlacProof` | theorems about `Slac` |
| `SdpMessage` | the messages of SECC discovery, as `sdp.cpp` writes and parses them |
| `Sdp` | `perform_SDP` of both boards over UDP, with devices under test and others on the line |
| `MCSdp`, `Sdp.cfg` | instance |
| `SdpProof` | theorems about `SdpMessage` and `Sdp` |
| `Serial` | `read_serial_data`, byte by byte |
| `MCSerial`, `Serial.cfg` | instance |
| `SerialProof` | theorems about `Serial` |
| `Pilot` | commands to the micro controller, late answers, voltages and pilot states |
| `MCPilot`, `Pilot.cfg` | instance |
| `PilotProof` | theorems about `Pilot` |
| `Link` | `CWolfMQTTBase`: main and the wrapper's thread on one connection to the broker |
| `MCLink`, `Link*.cfg` | instances |
| `LinkProof` | theorems about `Link` |

The modules are views that meet at named points. `RthBoard` treats the
handshake, SLAC and discovery as steps with their outcomes, which `Handshake`,
`Slac` and `Sdp` open up; its samples of the coupler are what `Pilot` opens up;
its relay thread is followed only as far as its socket object goes, and `Relay`
follows its traffic with the life of a board reduced to the action `Exit`.
`Pilot` takes from `Serial` that a message comes out whole wherever the reads
cut it, and so has parts of messages instead of bytes. `Relay` and `Handshake`
take publications that arrive in order or are lost; `Link` says what that rests
on, and what the losses are.

### 2.1 `Relay`, implementing `Cable`

`rth_data_received`, `rth_datapacket` and the local `buffer` are the program's
variables of that name, one per board. `pc` is the relay thread's next
statement that touches shared state: `poll` the flag, `convert` (the read of
the packet), `send` to the device, `receive` from it, `publish`, `clear`,
`again` (the label in both `task` functions), `connect`. The MQTT thread is
`callback`: `handle_message` raises the flag (`RaiseFlag`) and then assigns the
string, which is two steps because the relay thread reads it without a lock:
the old storage is released (`ReleasePacket`, after which a reader finds
`Torn`) and the new contents are in place (`StorePacket`). Client and server
differ only in the order of the same steps, so the steps are written once
(`Poll`, `Convert`, ...) and the two threads are sequences of them
(`ServerPoll`, `ClientPoll`, ...); the difference that matters is that the
client publishes the answer and only then clears the flag.

Messages are taken to fit the arrays of the MQTT callback: 127 bytes, which are
255 characters of hexadecimal text. `Link` says what becomes of longer ones.

A V2G message is its number and whether the piece is the whole message, a head
or a tail; hexadecimal text and EXI contents are not told apart by any
property. The devices under test are external: the EV asks one request at a
time, the EVSE answers what it reads, either may close its connection, and a
device refuses a stream that is not a message. The environment's mishaps are
`drop` (a device closes), `loss` (a publication is lost), `split` (a message is
segmented) and `exit` (a board exits). `faults` is a history variable: those
four, and three things the code does by itself: `tear` (a packet read while it
is stored), `wipe` (a flag cleared that announces an unread packet) and
`overrun` (a packet replaced before it is read).

`Cable` has three actions, `Ask`, `Serve` and `Answer`, and promises nothing
once `broken`. `RelayedLikeACable` is `Cable!Spec` under the mapping
`served <- seen, broken <- (faults # {})`.

### 2.2 `Handshake`

One `pc` per board for the loop of `rth_handshake`; `rth_hs` and `num_retries`
are the code's. `HandleMessage` is the MQTT thread. `hellos`, `replies`,
`lost`, `overwritten` and `skew` are history. Two specifications share all
steps but the sleep: in `Spec` the boards run at any pace and may be
interrupted; in `TimedSpec` one `Tick` stands for `sleep(3)` on both boards,
under the assumption that three seconds outlast the delivery of every message
and the rest of the loop. `skew` is the number of rounds by which the second
board started later.

### 2.3 `RthBoard`

`rth_state`, `pilot_state_name`, `server_flag`, `signal_captured`, `m_psock`
and `duty_cycle` are the code's; `remote_timer` is its state without the
arithmetic; `held` is what the process has taken and `exit_app` gives back: the
oscillator, the capture, the broker connection and the serial port. `plugged`
is the coupler itself, which the board knows only through its samples. One
iteration of the loop of `main` is `sample`, `step` (one call of
`rth_state_machine`), `check` (the coupler check), `sleep`. The relay thread
has the labels of the beginning of `CServer::task` and `CClient::task`.
`exit_app` is six steps that either thread can be in.

What the calls find out (network check, broker, handshake, SLAC, SDP) is
chosen by the environment, with these exceptions that the code decides: SLAC
matching needs the coupler in, though an attempt may fail with it in, as often as
it likes; joining the network never times out on the EV
board, because `PEV_MatchedState` asks `NetInfo2` without a limit; the SDP wait
never times out on the EVSE board, because its `recvfrom` has no time-out.
`signal()` has restarting semantics on the target, so a signal does not
interrupt that `recvfrom`. `Awaits` names all the calls that need not return:
these two waits (`AwaitsDut`), the matching, whose attempts are not counted past
the search (slacify.cpp:540), and `broker_check`, which reads from the broker
and goes round for ever at the bare end of its connection
(wolfMQTT_cpp.cpp:208).

Every command to the controller is a write that may fail (`WriteFails`):
`write_to_serial` closes the port, and no caller looks at its result. That may
happen in `control_pwm` (`ControlPwmOff`), in `set_pwm` (`WaitFor`) and in a
sample (`SampleLosesPort`), after which the oscillator stays as it is and the
pilot state is the last one for good. `write_failed` is the history of it. The
controller is assumed to do what it has been sent. That `exit_app` then closes
the descriptor a second time (main.cpp:68), which by now may be another file's,
is not considered, and neither is a write that fails before the loop
(main.cpp:134-140). A failure to open a socket inside `perform_SDP` or
in `UNPLUGGED_WAIT` ends in `exit(0)`, which runs the destructor of the capture
but not `exit_app`.

### 2.4 `Slac`

In the field each board runs one side of SLAC and a device under test the
other; the module puts the two sides of this program against each other, as a
cable between two boards would. `pc` is the next call of each process that
sends or waits; `Session.state`, `Session.RunID` and `C_sequ_retry` are the
code's, one per side. `state` keeps the two enumerations apart by their names
(`END` is the 0 that `PEV_MatchedState` writes).

`line` is what the socket of each side has buffered. A frame that is sent may
be lost; a frame that finds the buffer full is lost; what arrives is read in
order by whatever wait comes next. `readmessage` drops a frame it does not
wait for (`Skip`) and looks at the clock only then or when nothing has come
(`ReadTimesOut`). What each handler does with a frame of another run differs
and is kept: `pev_cm_slac_param`, `pev_cm_atten_char` and
`evse_cm_slac_match` read on, the others end the attempt. The three
`CM_START_ATTEN_CHAR.IND`, and the sounds, are sent one after the other without
a wait in between, so each is one step of which any number arrives. The
station's modem turns sounds into profiles; a profile names the vehicle, not
the run. A modem may take the key without its confirmation being read
(`PevSetKey`).

The attenuation is `good` or `far`, that is on either side of the limit, or
`none` when no sound was heard. Frames of other vehicles are `Crosstalk` with
the RunID `Other`, in any order: that vehicle need not judge anything, nor send
what comes before the frame. Once the station has answered it, it may go on
with its sequence (`GoesOn`), which the bound does not count. The station
judges nothing by itself, as evse_cm_atten_char.c:83 remarks, and hands such a
vehicle its key when it asks; `asked` is the history of the runs that have
asked. What the foreign vehicle does with the key is outside the model. A frame
that cannot be sent ends the process (`CannotSend`), because `slac_debug` calls
`exit`. `judged`, `crosstalk` and `faults` are history: `loss`, `late` (a
matching wait that ran out) and `far`.

### 2.5 `SdpMessage` and `Sdp`

A message is a record of the bytes that the parser tells apart; the sixteen
bytes of an address are the node's name. `create_*` write as the functions of
that name do, low byte of the port first; `VersionAccepted` (rejected only when
both bytes are wrong), `payload_length` (shifts of 8, 16 and 24, each of what is
already there, in 32 bits) and `SECCPort` (high byte first) read as
`parse_SDP_message` does. `ProperHeader` is the reference, `Slack` names what
the parser takes beyond it.

`pc` has one entry per board. The EVSE board's server socket is open from
`UNPLUGGED_WAIT` on and buffers what comes (`secc_udp`); `EvseReceive` takes one
message, `EvseRespond` closes that socket with everything it has buffered and
sends one answer, also when no address was found and only the header has been
written. The EV board asks once from a port of the system's choice, then closes
that socket and binds its port again (`EvRebind`): what comes in between is
lost. When its ten seconds are over, `receive` returns -1 and the parser looks
at a buffer of zeros. On the line are vehicles under test, which ask again from
another socket and may close the old ones, stations under test, which answer
requests with a proper header, and strangers. Datagrams are lost, overtake each
other and are not duplicated. An empty datagram ends the EVSE board's wait as a
success without an answer (sdp.cpp:365). `faults` is a history of what went
wrong for each vehicle: `loss`, `late`, `rebind` (an answer met no socket),
`deaf` (a request met a board that no longer reads), `noise` and `noaddress`.

Left out: after a `recvfrom` that failed, `receive` writes a zero in front of the
caller's buffer (udpsock.cpp:164 with -1 as the index), which is undefined and is
taken to do no harm; a failing `getifaddrs` ends the process (sdp.cpp:128); a
failing `get_ephemeral_port` returns 0 (sdp.cpp:458), and the EV board then binds
another port than the one it has asked from.

### 2.6 `Serial`

`line` is what comes, as a whole; `Read` returns any number of bytes of it up to
the size of the buffer, and `incomingBuffer` is the static vector. The loop of
`read_serial_data` leaves in one of three ways (`TooShort`, `NoStart`,
`Incomplete`) or takes a message. `Frames` is the reference: a walk over all
that has been received, without cuts.

### 2.7 `Pilot`

`step` is what main has asked the controller for: a change of the oscillator, the
duty cycle, the pilot voltage, or the pilot voltage again. `Issue` writes the
command and begins the delay of `response_delay_ms`; `DelayEnds` ends it whether
the answer has come or not; a read blocks until something is there, takes all of
it, and the first pilot message in it counts, without one the old voltages do.
`Stream` is what a read has before it, `Wholes` the places in it where a message
is whole, `Matching` those of pilot messages.
The controller answers every command in order, in up to `NumParts` pieces.
Voltages are in bits of 29 mV and the bands in mV, so that the arithmetic is
exact. `lates` counts delays in a row that were too short; `backlog` is how many
answers were outstanding when the last command was given; `taken` is where each
reading of the sample came from. `EVCC` is defined in no build file, so the
proximity voltage is not sampled.

A write succeeds here; one that fails closes the port, after which there is
nothing to be read, and is in `RthBoard`. A read takes at most 256 bytes
(io.cpp:48); the answers that are outstanding within the bounds of the run are
shorter than that, so taking everything is exact there.

### 2.8 `Link`

`main` is what main is doing with the connection, `thread` where
`wolfMQTT_state_machine` is, `told` the byte in the pipe. The library is
modelled by what the wrapper uses of it: a request is encoded into the send
buffer and then sent (`Encode`, `Send`), a packet is read into the read buffer
and then decoded (`Get`, `Handles`), and whoever reads handles what comes,
whoever it was for. `socket` is what a read of the connection would find; at
the bare end of it `recv` returns 0 and `mqtt_net_read` goes round for ever
(wolfMQTT_cpp.cpp:208), which is why `CanTimeOut` and `CanFail` leave it out.
`SIGPIPE` is ignored (main.cpp:119), so a write after a reset is an error like
any other. A message is `long` when its topic or its payload has more than 255
bytes: the callback copies both into arrays of 256 without looking at their
lengths, and takes every piece of a message for a whole one. What that does is
undefined; `CallbackOverruns` chooses between what the build can do: the message
is handled once, in pieces, or not at all, and the process goes on or ends.
`causes` is a history: `late` (a pong after its five seconds), `taken` (a pong
that main has read, waiting for an answer of its own), `closed`, `spoilt` (a
buffer overwritten by other frames of the stack), `readers` and `writers` (main
and the thread have met in a buffer), and `overrun`. A packet
carries the number of messages up to it, so that a lost or repeated one can be
told.

Definitions marked "a slip for the runs to find" are not part of any next-state
relation; they are plausible mistakes that the properties are tested against.

## 3. The runs

| Run | Asks | Result |
|---|---|---|
| `Relay` | repeated requests and answers, matching answers, refinement of `Cable`, and that every request is answered unless something went wrong; three requests, any two mishaps | holds, about a million states |
| `RelayMatch` | `src/README.md:69`: the answer to a request goes back to the EV, with no mishap | **violated** |
| `HandshakeAsync` | what success and failure say about the other board, termination; any pace, two losses, `RetryLimit` 3 | holds |
| `HandshakeTimed` | the skew and loss under which nobody gives up; `RetryLimit` 10 and `ReplyRounds` 3 as in the code | holds |
| `Board` | session, shutdown, timer, unplugging, signal; both device types, three coupler moves, writes that fail | holds, about 200,000 states |
| `BoardCrash` | `main.cpp:52`: graceful shutdown | **violated** |
| `Slac` | who gets the key, what a matched vehicle says about the station, that only searches fail on a quiet line, that neither side outlives the other | holds, about 500,000 states |
| `Sdp` | where discovery ends, whom the EVSE board answers, why it fails; a vehicle that asks twice, a station, a stranger, one mishap | holds |
| `Serial` | framing does not depend on where reads cut the line; every line of up to seven bytes over four, reads of up to four | holds |
| `Pilot` | how far answers lag, when an old one counts, what a change rests on; three late answers in a row, in three parts | holds |
| `Link` | order, delivery, and what makes a board deaf; two messages each way of any length, one mishap | holds, about 670,000 states |
| `LinkLong` | `src/README.md:69`: every message is relayed, with no mishap | **violated** |

What the violated ones show:

* **RelayMatch.** `handle_message` raises the flag (mqtt.cpp:83, 64) before it
  assigns the packet. A relay thread that polls in between relays the previous
  packet: the EV DUT is handed the previous answer although nothing was lost.
* **BoardCrash.** `exit_app` calls `Server.close()` on every EVSE board, also
  when the server thread has not been launched (any failure before
  `UNPLUGGED_WAIT`) or is between `delete` and `new`.
* **LinkLong.** A message of more than 127 bytes has more than 255 characters in
  hexadecimal. The callback copies it past the end of an array
  (wolfMQTT_cpp.cpp:55), and it need not be relayed, although nothing else has
  gone wrong.

More disagreements, which have no run of their own:

* `src/README.md:69` says that every request is relayed. The EV board publishes
  the answer (client.cpp:133) and clears the flag afterwards (134). A fast EV
  DUT gets its next request announced in between; the flag is wiped and the
  request is never relayed. `wipe` in `Relay` is this, and
  `EveryRequestAnswered` has to exempt it.
* `main.cpp:210` says that unplugging halfway through the session is noticed,
  `main.cpp:116` that Ctrl+C kills the application. Both are looked at between
  calls of `rth_state_machine`; the EV board that asks `NetInfo2` for the
  network (slacify.cpp:591) and the EVSE board that waits for the SDP request
  (sdp.cpp:365) do so without a limit and notice neither. Two more calls have no
  limit of their own: `broker_check` at the bare end of a connection, and a
  matching whose attempts fail after the search. `Board` shows that a signal ends
  the process if none of these four (`Awaits`) goes on for ever, and an
  unplugging that the board can notice if it is in neither of the first two.
* `rth_statemachine.cpp:203` says that the network is established when SLAC
  reports success. `PEV_MatchedState` sets `PEV_STATE_DISCONNECTED` when the
  modem does not confirm the key (slacify.cpp:583), but `PEVSlac` leaves its
  loop after it all the same (677) and reports everything but
  `PEV_STATE_UNAVAILABLE` as success.
* `J1772.cpp:497` says that a new pilot state is measured again to be sure. What
  is measured then is neither compared with the first result nor required to
  be there: a third state, or the first again when no answer has come, is taken.
* `J1772.cpp:90` says that bit 15 is tested for the sign; bit 11 is. The theorems
  `SignIsKept` and `SignIsLost` say for which values that does no harm.
* `wolfMQTT_cpp.cpp:587` says that the loop is left if something failed. A
  connection that the broker closes without an alert is none: `mqtt_net_read`
  goes round on the 0 that `recv` returns until something has been sent.
* `common.cpp:35` says that publishing is thread-safe. The lock is shared by the
  callers of `send_message`, and the thread of the wrapper sends its pings in
  the same buffer without it (`writers` in `Link`).

* `rth_statemachine.cpp:388` speaks of 30 seconds where line 382 starts 90.
* `rth_statemachine.cpp:125` says that the EV board sends its handshake message
  three times before it considers the handshake a success. `num_retries >= 3`
  also counts the rounds before the first message, so an EV board that has
  waited three rounds is done after one reply. This is why `HandshakeSucceeds`
  tolerates one loss only up to a skew of one round.
* `main.cpp:58` says that `exit_app` disables the PWM on the board. A write to the
  controller that fails closes the serial port (io.cpp:130), nobody looks at the
  result (J1772.cpp:424), and `exit_app` goes on to the end with the oscillator
  on. `PwmOffBeforeUartCloses` and `ExitGivesBack` have to exempt `write_failed`.
* `slacify.cpp:360` says that the state machine is reset when the vehicle does
  not join in time; `EVSESlac` leaves its loop (435) and reports a failure.
  `MatchedTogether` depends on that.
* `rth_statemachine.cpp:35` calls `slac_retries` the number of retries for SLAC.
  Only searches without an answer are counted; an attempt that fails later
  starts the next one uncounted.

### The properties that hold

* `NoDuplicate`, `AnswersMatch`: a repeated request and a wrong answer have two
  causes only, a dropped connection (the client leaves its loop without
  clearing the flag, and sends the request again after reconnecting) and a torn
  packet. Losses, wiped flags, overruns, segments and exits end in silence.
* `AnswersOnce`: even when a dropped connection makes the client repeat a
  request, no answer is handed to the EV DUT twice; only a torn packet does that.
* `RelayedLikeACable`: up to the first fault, the two boards implement `Cable`.
* `EveryRequestAnswered`: liveness, see section 5.
* `BothTookPart`, `EvFailsOnlyIfOverwritten`: a board that is done has a peer
  that took part; the EV board fails under an EVSE board that is done only
  through one late message that overwrites `BOTH_HS` between
  rth_statemachine.cpp:127 and 131.
* `HandshakeEnds`: a started board leaves the loop. (At most one message per
  counted round, `BoundedTraffic`, is proved and has no run.)
* `HandshakeSucceeds`: no loss and a skew up to `RetryLimit - 2`, or one loss
  and a skew up to `ReplyRounds - 2`.
* `SessionIsEquipped`: however the coupler moves under a stale sample, an EVSE
  board is in a session only with its sockets open and its oscillator at 5%,
  and neither board is in remote mode without a relay thread.
* `PwmOffBeforeUartCloses`, `ExitGivesBack`: with two threads in `exit_app`, the
  oscillator is off before the port closes and everything is given back, unless
  a write to the controller has failed: then the oscillator may stay on, and
  nothing else is kept.
* `RemoteTimesOut`, `SeenUnplugEndsSession`, `SeenSignalEndsRun`: what ends a
  process. Unplugging does unless the board is in one of the two waits of
  `AwaitsDut` or has lost its serial port, a signal unless it is in one of the
  four of `Awaits` for ever.
* `KeyOnlyOnRequest`: the station confirms a match, which carries its key, only in
  a run whose vehicle has asked for it, and to this repository's vehicle only
  after it has accepted the attenuation of this very run, whatever is left over
  from earlier runs. It does not protect the key from other vehicles: one that
  asks by itself gets it, as evse_cm_atten_char.c:83 says.
* `MatchedTogether`: a vehicle that has the key shares its run with a station
  that is joining, has joined or has given up joining, and will not match
  again.
* `OnlySearchesFail`: with nothing lost, late or far and nobody else on the
  line, repeated requests and indications in the buffers never make an attempt
  fail; new runs come from counted searches only.
* `EvseFollows`, `PevFollows`: once one side has left its state machine the
  other one does as well, with one exception: a vehicle that waits for the
  network, which has no limit.
* `EndpointIsServed`: the vehicle's board goes to the TCP server of a station,
  unless the parser let a malformed message through. The two ends of the program
  disagree on the byte order of the port; 65535 (rth_statemachine.cpp:39) is why
  it holds.
* `AnswerReachesVehicle`: the EVSE board serves one request and never hears
  again; the vehicle it has served has the answer unless it was lost or its
  socket is closed.
* `FailureHasCause`: the EV board fails only after a loss, a late or foreign
  message, a missing address, an answer in the window of the rebinding, or a
  request that met a board that had served somebody else.
* `BoardsAgree`: an EV board that believes it has found the EVSE board has been
  served by it, and it alone. `EvEnds`: discovery on the EV board ends.
* `FramedAsAWhole`: the messages handed out are those of the line read at once.
* `LagBounded`, `StaleNeedsBacklog`: answers pile up only while delays keep being
  too short, and one that comes in time clears them all; an old answer is taken
  for the new one only with two outstanding, or after a first one that was late.
* `ChangeIsMeasured`: a new pilot state was measured in this very sample, though
  not always twice. `SampleEnds`: no read waits for what has been read already.
* `InOrder`: messages are handled one by one in the broker's order on two threads,
  unless their reads have clashed, the buffer was spoilt or a message was too
  long. `DeafForCause`: a board does not stop listening
  for nothing. `ComesUp`: the subscription is in place although the thread may
  read the answer to it, and main goes on. `Delivered`: what the broker sends is
  handled, unless something has gone wrong or the board exits.

## 4. Bounds, and why they are enough

* `MaxRequests = 3`: the faults involve the current packet and one neighbour
  (a stale or resent packet is the previous one, a wiped or overrunning one the
  next); three requests give each fault a request before and one after it.
* `MaxMishaps = 2` lets two different mishaps, or the same one on both boards,
  combine; the obligation of `EveryRequestAnswered` ends with the first. The
  violated runs allow none at all, so that what they show is the code's own.
* `RetryLimit = 3, ReplyRounds = 2, MaxLosses = 2` in `HandshakeAsync` leaves
  rounds before the first message, between first message and success, and
  after; the theorems of section 6 remove these bounds. `HandshakeTimed` uses
  the code's own 10 and 3 with skews up to 9, one more than is tolerated.
* `MaxMoves = 3` coupler moves (unplug, plug, unplug again, from either start)
  let the coupler come back while a stale sample is in use.
* `Slac`: one retry per side (a search may be given up at the first attempt
  counted and at the limit), two runs of the vehicle (so that frames of the
  first are met in the second), two sounds (the station can hear all, some or
  none), three buffered frames (all indications, or an indication and its
  sounds), one frame of another vehicle. `MaxRuns` ends the vehicle's attempts;
  `PevFollows` names that state. One more frame of the other vehicle comes for
  each wait of a station that has answered its first (`GoesOn`), so that it can
  get as far as the key. The theorems of section 6 have none of these
  bounds.
* `Sdp`: two requests of a vehicle under test (a second one waits behind the
  first, or meets a board that has served), one station, which answers or is
  not there, one mishap; the noise is a response with a stray byte in its length,
  which a vehicle takes and a station does not, or an empty datagram.
* `Serial`: lines of seven bytes over 0 to 3, so that messages are empty, contain
  start bytes, follow each other and stray bytes; reads of up to four bytes cut
  them everywhere, and a message is longer than a read.
* `Pilot`: three late answers in a row, one more than a sample can leave behind;
  12, 9 and 6 V with the oscillator on, and a voltage between the bands; three
  parts, so that a read may begin and end inside an answer.
* `Link`: two messages down (order, and one behind the other in the buffer) and
  two up; one mishap, after which every property that names causes is met.
  The clashes of readers and writers, messages that are too long and the end of
  the process come on top. `LinkLong` has one message and no mishap.

`CHECK_DEADLOCK FALSE` is set in every configuration because all these systems
may stop: the EV DUT need not ask again, handshakes, SLAC and discovery end,
the line falls silent, no sample need be taken, processes end.

## 5. Fairness, and what justifies it

* `Relay`: weak fairness of each thread's steps (the operating system runs
  threads that can run), of the broker's delivery, and of the devices under
  test answering and reading. None for a device connecting or asking, for
  accepting a connection, or for any mishap.
* `Handshake`: weak fairness of each board's loop and of the return of
  `sleep(3)`; none of delivery, so `HandshakeEnds` holds whatever is lost.
* `RthBoard`: weak fairness of the calls of main that return by themselves, of
  the relay thread and of `exit_app`; of joining the network only on the EVSE
  board and of SDP only on the EV board, which have limits in the code; of the
  matching only while the coupler is out, when there is nothing but searches,
  which are counted. None of `broker_check`. Strong fairness of `Measure`: the
  pilot voltage is not read between the bands for ever, as long as there is a
  port to read it from. The clock has none: `RemoteTimesOut` assumes that the
  timer does not run for ever.
* `Slac`: weak fairness of the two processes; strong fairness of the end of a
  search (`slac_timeout_sec`) and of the end of the sounds (`TIME_OUT`), which
  come with the clock whatever frames arrive. None of the line, of other
  vehicles, or of the modem finding the network.
* `Sdp`: weak fairness of what follows the request on the EV board, where the ten
  seconds pass, and of the EVSE board inside `perform_SDP`. None of a vehicle
  asking, of the network delivering, or of a board getting as far as discovery.
* `Pilot`: weak fairness of main, whose delays are finite, and of the controller,
  which answers every command. A controller that is silent blocks main in
  `read` (io.cpp:55), which `SampleEnds` does not hide: it assumes the answer.
* `Link`: weak fairness of main inside a call, of the thread, and of the broker
  serving what has been sent. None of publishing, closing, of the broker having
  anything to deliver, or of any mishap.
* `Serial` needs none.

## 6. What is proved

The theorems hold for every value of the constants; the assumptions on them
(`RelayAssumption`, `HandshakeAssumption`, `BoardAssumption`, `SlacAssumption`,
`SdpAssumption`, `SerialAssumption`, `PilotAssumption`, `LinkAssumption`) say
that bounds are natural numbers, that mishaps and device types are among those
named, that the controller measures in 12 bits, that messages of other protocols
have no proper SDP header, and
that `ReplyRounds <= RetryLimit + 1`: a board that gave up earlier than it
could succeed would make `OneSidedFailure` false.

* `RelayProof` has two invariants besides the types, which no run checks.
  `TypeCorrect` holds by itself; the proof
  goes through the MQTT thread, the shared steps of the relay threads, the
  connections and the devices, with lemmas about what reading one complete
  message leaves of a stream (`MessageTypes`). `ServedOnce` (`NoDuplicate`),
  `NoWrongAnswer` (`AnswersMatch`) and `RelayIsACable` (`RelayedLikeACable`)
  rest on `OneMessageUnderWay`: as long as no connection is dropped and no
  packet torn (`Sound`), at most one message is under way, either the current
  request or its answer, and where it is tells whether the request has been
  served. `OneToken` says that it is in one place only; `Flags` that a flag
  which is up announces a packet nobody has read, or is about to be cleared;
  `Links` that no connection is closed; `Quiet`, `Request` and `Answer` what
  each place holds, with a segmented message's missing tail. Losses, wiped
  flags, overruns and exits only make the message disappear, which the
  invariant allows. The refinement then takes one case per step: only the two
  steps of the EV device and the one of the EVSE device move `Cable`, and each
  finds the message that the cable says is due.

  `AnsweredOnce` (`AnswersOnce`) must do without `Sound`: once a connection has
  dropped, the EV board sends its packet again and several messages are under
  way. Its invariant (`MessagesInLine`) is that they stand in line. `Stage`
  names the 17 places a message passes, from the answers handed to the EV DUT
  back to its connection; of any two places, whatever is in the later one is
  behind whatever is in the earlier one (`Ahead`), and within a place the
  pieces stand in line too (`Straight`), a head before its tail. `Replay` is
  the same line with what lies beyond the EV board's connection taken away and
  its packet put back: it must be in order too, for a connection that closes
  turns the one into the other. `Pending` says when a packet in the mailbox can
  still be read, so that an old one under a lowered flag does not count. A torn
  packet (`~Untorn`) has parts of two messages and is in no line. Every step
  shifts a place to the next, takes something out, or puts a piece at an end;
  there is one lemma for each of these, and one per action.

* `HandshakeProof`: `TypeCorrect`, `Agreement` (`BothTookPart`),
  `TrafficBounded`, `OneSidedFailure` and `Success`. The inductive invariant
  adds three parts to the types. `Causality`: a `"1"` known to a board or under
  way to it was published by the other one, and a reply follows a message
  heard. `Traffic` counts the current round in only between its publication and
  its sleep; the property alone forgets which half of the round a board is in.
  `Settled`: past `ReplyRounds` rounds an EV board that has replied is on its
  way out at the next check unless overwritten. `Success` is
  `HandshakeSucceeds` under `TimedSpec`, for all limits that leave time for
  three replies (`Limits`: `3 <= ReplyRounds < RetryLimit`, and no start later
  than `RetryLimit` rounds). `Pace` keeps the boards in the same round, with
  the first one ahead by the skew. `Prompt` counts the rounds both have gone:
  `Greeted` is the course of events when no announcement was lost,
  `GreetedLate` the one a round later when one was; `Heard` says how many
  replies may have missed the EVSE board, and `Decided` that after two rounds,
  or three after a loss, both know of each other and no late `"1"` is left to
  overwrite `BOTH_HS`. The history variables of the two bounds are what makes
  it inductive: `InTime` can be lost but not regained (`InTimeBefore`).
* `RthBoardProof`: `TypeCorrect`, `Equipped`, `PwmOffFirst`,
  `EverythingGivenBack`. `Session` adds that a sample of B2 or C2 was taken
  with the oscillator at 5%, which is why a stale sample does no harm, and that
  the relay thread exists once the sockets are open. `Shutdown` adds, per
  thread, what has been given back by the step of `exit_app` it is in, the
  oscillator unless a write has failed, and that nothing is taken again behind
  it: the broker connection, the only thing taken after start-up, is made
  before there is a second thread.
* `SlacProof`: `TypeCorrect`, `KeyOnRequest` (`KeyOnlyOnRequest`), `Matched`
  (`MatchedTogether`) and `OnlySearches` (`OnlySearchesFail`). `Verdict`
  follows the evidence backwards: a match request in the station's buffer is
  from a run that has asked, another vehicle's or one that this vehicle has
  judged, and the vehicle sends one only in such a run. `Pairing` does the same
  for the confirmation: one in the vehicle's buffer was sent by a station that
  has left the matching for good, so that the run cannot change under it.
  `OnlySearches` adds `Undisturbed`: on a quiet line the one frame that can end
  an attempt from outside, a confirmation of another run, is never in the
  buffers, because a vehicle that has asked for the key does not leave its run.
* `SdpProof`. About the codec alone: `LengthCheckIsHalf` (the upper two bytes of
  a length play no part), `ProperIsAccepted`, and `PortSurvives` (a port comes
  through just when its bytes are equal). About the exchange: `TypeCorrect`,
  `Agreement` (`BoardsAgree`) and, for ports that come through,
  `DiscoveryIsRight` (`EndpointIsServed`). The invariant says of every message
  on the line and in the vehicle's buffer where it can have come from, and that
  the EVSE board's answer is only on its way to the socket it has served.
  `AnswerArrives` (`AnswerReachesVehicle`) follows the answer to the socket
  (`Delivered`); it needs that a vehicle never opens an old socket again.
  `FailuresExplained` (`FailureHasCause`) follows the EV board's one request
  (`Trail`): until the board hears something, the request or its answer is on
  the line, in the EVSE board's buffer or in its hands, or a cause is noted.
* `SerialProof`: `TypeCorrect`, and `MessagesAreWellFormed`: what is handed out
  begins with a start byte and is as long as it says, which is what the readers
  of J1772.cpp index by. `Framed` (`FramedAsAWhole`): however the line is cut
  into reads, what is handed out is what one walk over all of it finds. The
  invariant has to speak of what may still come: for every continuation,
  `Frames` of what was received with it is `messages` followed by `Frames` of
  the buffer with it (`Chunks`); and whenever main is about to read, nothing
  whole is left in the buffer (`Dry`). The lemmas say what the walk does at a
  stray byte, at a message and at the end. That the walk is defined at every
  place (`WalkExists`) is an induction over the length, done with the least
  element of a set of numbers (`Least`), which needs no theorem with an
  operator parameter.
* `PilotProof`: `SignIsKept` and `SignIsLost` for every measurement, and
  `ChangeMeasured` (`ChangeIsMeasured`). Its invariant `Settled` says that the
  voltages main goes by still give the state it remembers; without it, an old
  voltage read again could be a change that nobody has measured. `PilotTypes`,
  `LagIsBounded` (`LagBounded`) and `StaleOnlyWithBacklog`
  (`StaleNeedsBacklog`) rest on a second one, `PInv`. `Shape`:
  the parts under way are the rest of one answer, and with what has been
  received they make whole ones, so that what a read leaves behind is less than
  an answer. `Lag`: how much can be outstanding at each point of a command;
  `LagBounded` speaks of the points between commands only. `Own`: the answer to
  the last command is the last in the line. `Prompt => Alone`: if no more than
  one answer was outstanding when the voltage was asked for, no other answer in
  the line is one to that question; a second reading inherits this only from a
  first that has found something, which is the exception that the property
  names. The bound of the types on `backlog` is `MaxLate + 1`, not `MaxLate`:
  it is counted before the read that precedes the command, and when a delay is
  at last long enough, the late answers and the one in time are all still in
  the line.
* `LinkProof`: `TypeCorrect`, `ListensUnlessCause` (`DeafForCause`) and
  `HandledInOrder` (`InOrder`). For the first, `Clear`: without a cause each
  request in the send buffer is its writer's, nothing on the connection is
  garbage, and a thread that waits at the pipe has been told. For the second,
  `Chain`: each packet carries the count of those before it plus its own, from
  the broker over the connection and the buffer to the callback. A callback that
  is overrun leaves its cause behind, and nothing is claimed of what follows.

Every safety property and action property of the runs is the subject of one of
these theorems, apart from those that are violated. Checked by TLC only:
everything temporal apart from the refinement (`EveryRequestAnswered`,
`HandshakeEnds`, `RemoteTimesOut`, `SeenUnplugEndsSession`,
`SeenSignalEndsRun`, `EvseFollows`, `PevFollows`, `EvEnds`, `SampleEnds`,
`ComesUp`, `Delivered`), since fairness and ENABLED are beyond the prover. The
theorems of the library about induction take an operator as a parameter and
cannot be used; where data had to be reasoned about by induction (the walk of
`Serial`, the last whole answer of `Pilot`) the least element of a set of
numbers took its place.

## 7. What is not modelled, and the plan

Not modelled for good: configuration parsing, JSON, logging, address look-up
(sequential, no state anyone reads back); the third-party libraries; the
set-up script.

Simplified in what is modelled: the start-up of `main` before its loop is the
initial state of `RthBoard`; the periodic status publications of the loop are
left out, since they share nothing with the rest but the publisher; the
listening sockets have no addresses; a descriptor number reused between the
threads is not considered.

The arithmetic of the timers (unsigned differences of wall-clock time,
mstimer.cpp:100) has no module: the application starts one timer, which
`RthBoard` lets expire at any moment, as a clock that is set back would.
`unsubscribe` has no caller. The set-up of TLS below `connect` is one outcome.
The proximity voltage is compiled in by no build file.

What is left, most important first:

1. `Link` under `Relay`: publications that are lost because the board has gone
   deaf, instead of losses that come from nowhere.
2. The clock of `mstimer.cpp`, if the application comes to start more timers.

A session of `CSLACify` is followed from `connect` to its result; the key the
station sets in its own modem at start-up (`evse_cm_set_key`) is assumed.

To repeat the checks: `tlc -config <run>.cfg <module>.tla` for the runs listed
in `PROJECT.json`, and `tlapm <Module>Proof.tla` for the proofs.
