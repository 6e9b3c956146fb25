------------------------------ MODULE RthBoard ------------------------------
(***************************************************************************)
(* One board, from the end of its start-up to the end of its process: the  *)
(* loop of main, rth_state_machine, the coupler check, the operator's      *)
(* signal, and exit_app, which both main and the relay thread (CServer or  *)
(* CClient) may run.  What the calls to the other board, to SLAC, to SDP   *)
(* and to the network find out is the environment's choice.                *)
(***************************************************************************)
EXTENDS Naturals

CONSTANTS
    DeviceTypes,    \* the values of config.device_type to consider
    MaxMoves        \* bound: how often the coupler is plugged or unplugged

ASSUME BoardAssumption ==
    /\ DeviceTypes \subseteq {"EV", "EVSE"}
    /\ MaxMoves \in Nat

Threads == {"main", "relay"}

\* A thread's next step: none yet, in the loop of main, in the relay's task,
\* in exit_app.
Steps == {"none", "sample", "step", "join", "check", "sleep",
          "again", "discard", "create", "link", "connected",
          "exit_app", "exit_tcpdump", "exit_broker", "exit_uart",
          "exit_server", "exit"}

\* What exit_app gives back: the pilot oscillator, the tcpdump process, the
\* broker connection and the serial port.
Resources == {"pwm", "tcpdump", "broker", "uart"}

RthStates == {"INIT", "NETWORK_CHECK", "BROKER_CHECK", "RTH_HANDSHAKE",
              "UNPLUGGED_WAIT", "PLUGGED_IN", "SDP", "TCP_NETWORK", "REMOTE"}

PilotStates == {"A1", "A2", "B1", "B2", "C1", "C2", "D1", "D2", "F"}

VARIABLES
    pc,                 \* per thread: its next step
    rth_state,
    pilot_state_name,   \* J1772.pilot_state_name: the last sample
    server_flag,        \* the EVSE board has opened its sockets
    remote_timer,       \* "stopped", "running" or "expired"
    m_psock,            \* the relay's socket object and the socket in it
    held,               \* resources the process has taken and not given back
    write_failed,       \* history: a write to the serial port has failed
    duty_cycle,         \* of the oscillator: "99.9" or "5" percent
    signal_captured,
    process,            \* "running"; over: "exited" by exit_app, "quit" by
                        \* exit(0) elsewhere, "crashed"
    device_type,        \* which of the two boards the configuration names
    plugged,            \* the coupler itself
    moves               \* bound: how often it has been moved

portVars  == <<held, write_failed>>
boardVars == <<server_flag, remote_timer, portVars, duty_cycle>>
worldVars == <<device_type, signal_captured, plugged, moves>>

runVars   == <<rth_state, pilot_state_name>>

vars == <<pc, runVars, m_psock, process, boardVars, worldVars>>

\* rth_state >= PLUGGED_IN
InSession == rth_state \in {"PLUGGED_IN", "SDP", "TCP_NETWORK", "REMOTE"}

At(t, step) == process = "running" /\ pc[t] = step

Goto(t, step) == pc' = [pc EXCEPT ![t] = step]

\* Server.launch or Client.launch: main goes on, the relay thread starts.
LaunchRelay == pc' = [pc EXCEPT !["main"] = "check", !["relay"] = "again"]

\* exit(0) runs the destructor of tcpdump; a crash does not.
End(how) ==
    /\ process' = how
    /\ held' = IF how = "crashed" THEN held ELSE held \ {"tcpdump"}
    /\ UNCHANGED <<pc, runVars, m_psock, server_flag, remote_timer,
                   write_failed, duty_cycle, worldVars>>

\* write_to_serial fails: it closes the port, and none of its callers looks
\* at the result.
WriteFails ==
    /\ "uart" \in held
    /\ held' = held \ {"uart"}
    /\ write_failed' = TRUE

\* control_pwm(0), which only the EVSE board calls: with the port closed it
\* does nothing, and says nothing.
ControlPwmOff ==
    \/ /\ device_type = "EVSE" /\ "uart" \in held
       /\ held' = held \ {"pwm"}
       /\ UNCHANGED write_failed
    \/ device_type = "EVSE" /\ WriteFails
    \/ (device_type = "EV" \/ "uart" \notin held) /\ UNCHANGED portVars

-----------------------------------------------------------------------------
(* The world: the coupler, the operator and the clock.                     *)

MoveCoupler ==
    /\ process = "running"
    /\ moves < MaxMoves
    /\ moves' = moves + 1
    /\ plugged' = ~plugged
    /\ UNCHANGED <<pc, runVars, m_psock, process, boardVars, device_type,
                   signal_captured>>

\* sig_handler
Signal ==
    /\ process = "running"
    /\ ~signal_captured
    /\ signal_captured' = TRUE
    /\ UNCHANGED <<pc, runVars, m_psock, process, boardVars, device_type,
                   plugged, moves>>

TimerExpires ==
    /\ process = "running"
    /\ remote_timer = "running"
    /\ remote_timer' = "expired"
    /\ UNCHANGED <<pc, runVars, m_psock, process, server_flag, portVars,
                   duty_cycle, worldVars>>

\* What the pilot line reads: on the EV board the EVSE under test drives it,
\* on the EVSE board the board itself.
Readings ==
    IF device_type = "EV" THEN IF plugged THEN {"B1", "B2"} ELSE {"F"}
    ELSE IF "pwm" \notin held THEN {"A1", "B1", "C1", "D1", "F"}
    ELSE IF duty_cycle = "5" THEN IF plugged THEN {"B2", "C2", "D2"} ELSE {"A2"}
    ELSE IF plugged THEN {"B1", "C1", "D1"} ELSE {"A1"}

-----------------------------------------------------------------------------
(* The loop of main.                                                       *)

SampleAs(readings) ==
    /\ At("main", "sample")
    /\ Goto("main", "step")
    /\ pilot_state_name' \in readings
    /\ UNCHANGED <<rth_state, m_psock, process, server_flag, remote_timer,
                   duty_cycle, worldVars>>

\* sample_J1772: a voltage between the bands, like a port already closed,
\* leaves the last state.
Measure == "uart" \in held /\ SampleAs(Readings) /\ UNCHANGED portVars
KeepLast == SampleAs({pilot_state_name}) /\ UNCHANGED portVars

\* One of its two or three commands cannot be written: before or after the
\* first reading of the pilot.
SampleLosesPort == SampleAs(Readings \union {pilot_state_name}) /\ WriteFails

\* rth_state_machine in state from succeeds, or returns -1.
Advance(from, to) ==
    /\ At("main", "step")
    /\ rth_state = from
    /\ rth_state' = to
    /\ Goto("main", "check")
    /\ UNCHANGED <<pilot_state_name, m_psock, process, worldVars>>

Fail(from) ==
    /\ At("main", "step")
    /\ rth_state = from
    /\ Goto("main", "exit_app")
    /\ UNCHANGED <<runVars, m_psock, process, boardVars, worldVars>>

Initialized == Advance("INIT", "NETWORK_CHECK") /\ UNCHANGED boardVars

NetworkCheck ==
    \/ Advance("NETWORK_CHECK", "BROKER_CHECK") /\ UNCHANGED boardVars
    \/ Fail("NETWORK_CHECK")

BrokerCheck ==
    \/ /\ Advance("BROKER_CHECK", "RTH_HANDSHAKE")
       /\ held' = held \union {"broker"}
       /\ UNCHANGED <<server_flag, remote_timer, write_failed, duty_cycle>>
    \/ Fail("BROKER_CHECK")

\* rth_handshake, see Handshake; it runs exit_app itself after a signal.
RthHandshake ==
    \/ Advance("RTH_HANDSHAKE", "UNPLUGGED_WAIT") /\ UNCHANGED boardVars
    \/ Fail("RTH_HANDSHAKE")

\* The EVSE board first opens its UDP and TCP servers, and turns the
\* oscillator on when it sees the coupler; both boards wait for B2.
WaitFor(pluggedIn) ==
    /\ At("main", "step")
    /\ rth_state = "UNPLUGGED_WAIT"
    /\ IF device_type = "EVSE" /\ ~server_flag
       THEN /\ server_flag' = TRUE
            /\ LaunchRelay
       ELSE UNCHANGED server_flag /\ Goto("main", "check")
    /\ IF device_type = "EVSE" /\ pilot_state_name = "B1" /\ "uart" \in held
       THEN \/ duty_cycle' = "5" /\ UNCHANGED portVars
            \/ WriteFails /\ UNCHANGED duty_cycle
       ELSE UNCHANGED <<duty_cycle, portVars>>
    /\ rth_state' = IF pilot_state_name \in pluggedIn
                    THEN "PLUGGED_IN" ELSE rth_state
    /\ UNCHANGED <<pilot_state_name, m_psock, process, remote_timer, worldVars>>

\* (A slip for the runs to find: any plugged pilot will do.)
UnpluggedWaitHasty == WaitFor({"B1", "B2"})

UnpluggedWait == WaitFor({"B2"})

\* secc_udp.create_server fails: exit(0)
UdpServerFails ==
    /\ At("main", "step")
    /\ rth_state = "UNPLUGGED_WAIT"
    /\ device_type = "EVSE" /\ ~server_flag
    /\ End("quit")

\* perform_SLAC.  Matching, whose retries are limited, needs the coupler.
SlacMatches ==
    /\ At("main", "step")
    /\ rth_state = "PLUGGED_IN"
    /\ plugged
    /\ Goto("main", "join")
    /\ UNCHANGED <<runVars, m_psock, process, boardVars, worldVars>>

SlacFails == Fail("PLUGGED_IN")

JoinTo(step, state) ==
    /\ At("main", "join")
    /\ Goto("main", step)
    /\ rth_state' = state
    /\ UNCHANGED <<pilot_state_name, m_psock, process, boardVars, worldVars>>

\* (A slip for the runs to find: a failure is recorded and the loop goes on.)
JoinRecordsError == \E s \in {"SDP", "ERROR"} : JoinTo("check", s)

\* The logical network forms, or the EV board could not set the key, which
\* PEVSlac reports as success.
JoinNetwork == JoinTo("check", "SDP")

\* Only the EVSE board gives up on it.
JoinTimesOut == device_type = "EVSE" /\ JoinTo("exit_app", rth_state)

\* perform_SDP: a valid message has come, or an invalid one, or none that
\* parses in the ten seconds the EV board waits.
PerformSdp ==
    \/ Advance("SDP", "TCP_NETWORK") /\ UNCHANGED boardVars
    \/ Fail("SDP")

\* create_sender or create_server fails inside perform_SDP: exit(0)
SdpSocketFails ==
    /\ At("main", "step")
    /\ rth_state = "SDP"
    /\ End("quit")

\* The EV board launches its relay only now; both start the 90 s timer.
EnterRemote(timer) ==
    /\ At("main", "step")
    /\ rth_state = "TCP_NETWORK"
    /\ rth_state' = "REMOTE"
    /\ IF device_type = "EV"
       THEN LaunchRelay
       ELSE Goto("main", "check")
    /\ remote_timer' = timer
    /\ UNCHANGED <<pilot_state_name, m_psock, process, server_flag, portVars,
                   duty_cycle, worldVars>>

\* (A slip for the runs to find: no timer is started.)
TcpNetworkUntimed == EnterRemote(remote_timer)

TcpNetwork == EnterRemote("running")

Remote ==
    /\ At("main", "step")
    /\ rth_state = "REMOTE"
    /\ Goto("main", IF remote_timer = "expired" THEN "exit_app" ELSE "check")
    /\ remote_timer' = IF remote_timer = "expired" THEN "stopped"
                       ELSE remote_timer
    /\ UNCHANGED <<runVars, m_psock, process, server_flag, portVars, duty_cycle,
                   worldVars>>

\* Looks at the sample the iteration began with.
CheckFor(unplugged) ==
    /\ At("main", "check")
    /\ IF InSession /\ pilot_state_name \in unplugged
       THEN Goto("main", "exit_app") /\ ControlPwmOff
       ELSE Goto("main", "sleep") /\ UNCHANGED portVars
    /\ UNCHANGED <<runVars, m_psock, process, server_flag, remote_timer,
                   duty_cycle, worldVars>>

\* (A slip for the runs to find: only one of the unplugged states.)
CouplerCheckPartial == CheckFor({"A1"})

CouplerCheck == CheckFor({"A1", "A2", "F"})

SleepThen(step) ==
    /\ At("main", "sleep")
    /\ Goto("main", step)
    /\ UNCHANGED <<runVars, m_psock, process, boardVars, worldVars>>

\* (A slip for the runs to find: the signal is not looked at.)
SleepDeaf == SleepThen("sample")

\* sleeper.sleep(50), then if (signal_captured) exit_app(0)
Sleep == SleepThen(IF signal_captured THEN "exit_app" ELSE "sample")

-----------------------------------------------------------------------------
(* The relay thread, as far as its socket goes: see Relay for its traffic. *)

\* The label again: throws the old socket object away.
Again ==
    /\ At("relay", "again")
    /\ IF signal_captured THEN Goto("relay", "exit_app") /\ UNCHANGED m_psock
       ELSE IF m_psock = "null"
            THEN Goto("relay", "create") /\ UNCHANGED m_psock
            ELSE Goto("relay", "discard") /\ m_psock' = "deleted"
    /\ UNCHANGED <<runVars, process, boardVars, worldVars>>

RelayStep(from, to, sock) ==
    /\ At("relay", from)
    /\ Goto("relay", to)
    /\ m_psock' = sock
    /\ UNCHANGED <<runVars, process, boardVars, worldVars>>

Discard == RelayStep("discard", "create", "null")

\* new NetSock, and create_server on the EVSE board.
Create == RelayStep("create", "link", "open")

\* The client's connect, retried every second, or listen_and_accept.
Link == m_psock = "open" /\ RelayStep("link", "connected", m_psock)

\* The device under test is gone.
Drop == RelayStep("connected", "again", m_psock)

\* create_server failed, which nobody looks at, or exit_app has closed the
\* socket: listen or accept throws, and nobody catches it.
SocketThrows ==
    /\ device_type = "EVSE"
    /\ At("relay", "create") \/ (At("relay", "link") /\ m_psock = "closed")
    /\ End("crashed")

-----------------------------------------------------------------------------
(* exit_app, run by thread t.                                              *)

ExitStep(t, from, to) ==
    /\ At(t, from)
    /\ Goto(t, to)
    /\ UNCHANGED <<runVars, m_psock, process, server_flag, remote_timer,
                   duty_cycle, worldVars>>

Release(t, from, resources, to) ==
    /\ ExitStep(t, from, to)
    /\ held' = held \ resources
    /\ UNCHANGED write_failed

\* (A slip for the runs to find: the oscillator is left alone.)
ExitPwmForgotten(t) == Release(t, "exit_app", {}, "exit_tcpdump")

ExitPwm(t) == ExitStep(t, "exit_app", "exit_tcpdump") /\ ControlPwmOff

ExitTcpdump(t) == Release(t, "exit_tcpdump", {"tcpdump"}, "exit_broker")

\* (A slip for the runs to find: the connection is left open.)
ExitBrokerForgotten(t) == Release(t, "exit_broker", {}, "exit_uart")

ExitBroker(t) == Release(t, "exit_broker", {"broker"}, "exit_uart")

ExitUart(t) == Release(t, "exit_uart", {"uart"}, "exit_server")

\* Server.close() on the EVSE board.
ExitServer(t) ==
    /\ At(t, "exit_server")
    /\ device_type = "EVSE" => m_psock # "null"
    /\ Goto(t, "exit")
    /\ m_psock' = IF device_type = "EVSE" /\ m_psock # "deleted"
                  THEN "closed" ELSE m_psock
    /\ UNCHANGED <<runVars, process, boardVars, worldVars>>

\* It calls m_psock->close() whether or not there is an object.
ExitServerCrashes(t) ==
    /\ At(t, "exit_server")
    /\ device_type = "EVSE"
    /\ m_psock \in {"null", "deleted"}
    /\ End("crashed")

Exit(t) == At(t, "exit") /\ End("exited")

-----------------------------------------------------------------------------

\* The start-up in main has taken everything but the broker connection and
\* set the EVSE board's oscillator to 99.9%.
Init ==
    /\ device_type \in DeviceTypes
    /\ pc = [t \in Threads |-> IF t = "main" THEN "sample" ELSE "none"]
    /\ rth_state = "INIT"
    /\ pilot_state_name = "A1"
    /\ server_flag = FALSE
    /\ remote_timer = "stopped"
    /\ m_psock = "null"
    /\ held = {"tcpdump", "uart"}
              \union (IF device_type = "EVSE" THEN {"pwm"} ELSE {})
    /\ write_failed = FALSE
    /\ duty_cycle = "99.9"
    /\ signal_captured = FALSE
    /\ process = "running"
    /\ plugged \in BOOLEAN
    /\ moves = 0

\* Calls that return by themselves.
MainSteps ==
    \/ KeepLast \/ Measure \/ SampleLosesPort
    \/ Initialized \/ NetworkCheck \/ RthHandshake
    \/ UnpluggedWait \/ UdpServerFails
    \/ TcpNetwork \/ Remote \/ CouplerCheck \/ Sleep

\* Calls that may not: connect and subscribe read from the broker, whose
\* connection may come to its bare end; attempts to match that fail past the
\* search are not counted; and the two waits for the device under test.
SlacSteps == SlacMatches \/ SlacFails

JoinSteps == JoinNetwork \/ JoinTimesOut

SdpSteps == PerformSdp \/ SdpSocketFails

RelaySteps == Again \/ Discard \/ Create \/ SocketThrows

ExitSteps(t) ==
    \/ ExitPwm(t) \/ ExitTcpdump(t) \/ ExitBroker(t) \/ ExitUart(t)
    \/ ExitServer(t) \/ ExitServerCrashes(t) \/ Exit(t)

Next ==
    \/ MainSteps \/ BrokerCheck \/ SlacSteps \/ JoinSteps \/ SdpSteps
    \/ RelaySteps \/ Link \/ Drop
    \/ \E t \in Threads : ExitSteps(t)
    \/ MoveCoupler \/ Signal \/ TimerExpires

\* Threads run, and the pilot voltage is not between the bands for ever.  The
\* broker's part and the matching have no limit, except that searches do,
\* and without the coupler there is nothing but searches.  The EVSE board's
\* wait for the logical network is limited, the EV board's is not; the EV
\* board's wait for SDP is, the EVSE board's not.
Fairness ==
    /\ WF_vars(MainSteps) /\ SF_vars(Measure)
    /\ WF_vars(~plugged /\ SlacFails)
    /\ WF_vars(device_type = "EVSE" /\ JoinSteps)
    /\ WF_vars(device_type = "EV" /\ SdpSteps)
    /\ WF_vars(RelaySteps)
    /\ \A t \in Threads : WF_vars(ExitSteps(t))

Spec == Init /\ [][Next]_vars /\ Fairness

-----------------------------------------------------------------------------

\* The state ERROR is never entered.
TypeOK ==
    /\ device_type \in DeviceTypes
    /\ pc \in [Threads -> Steps]
    /\ rth_state \in RthStates
    /\ pilot_state_name \in PilotStates
    /\ server_flag \in BOOLEAN
    /\ remote_timer \in {"stopped", "running", "expired"}
    /\ m_psock \in {"null", "deleted", "open", "closed"}
    /\ held \in SUBSET Resources
    /\ write_failed \in BOOLEAN
    /\ duty_cycle \in {"99.9", "5"}
    /\ signal_captured \in BOOLEAN
    /\ process \in {"running", "exited", "quit", "crashed"}
    /\ plugged \in BOOLEAN
    /\ moves \in 0..MaxMoves

\* A session goes on only with what it needs: on the EVSE board the sockets
\* and the 5% oscillator, whatever the coupler did while the board waited,
\* and in remote mode the relay thread, on either board.
SessionIsEquipped ==
    /\ InSession /\ device_type = "EVSE" => server_flag /\ duty_cycle = "5"
    /\ rth_state = "REMOTE" => pc["relay"] # "none"

\* The serial port is not closed, by either thread, before the oscillator
\* that only it can turn off is off; a write that fails is the one exception.
PwmOffBeforeUartCloses ==
    "uart" \notin held => "pwm" \notin held \/ write_failed

\* Two threads may run exit_app at once, each from where it was: the one
\* that ends the process ends it with everything given back, or, when a
\* write has failed, with everything but the oscillator.
ExitGivesBack ==
    process = "exited" => held = {} \/ (write_failed /\ held = {"pwm"})

\* The calls in which main waits for the device under test without limit,
\* and all in which it waits for anybody: also for the broker, and for a
\* matching that always fails past its search.
AwaitsDut ==
    IF device_type = "EV" THEN At("main", "join")
    ELSE At("main", "step") /\ rth_state = "SDP"

Awaits ==
    \/ AwaitsDut
    \/ At("main", "step") /\ rth_state \in {"BROKER_CHECK", "PLUGGED_IN"}

\* Remote mode ends, if the clock goes on: its timer is started on either
\* board and its expiry is seen by main.
RemoteTimesOut ==
    []<>(remote_timer # "running") =>
        (rth_state = "REMOTE" ~> process # "running")

\* A coupler that is removed during the session and stays out ends the
\* process, without the timer, unless main waits for the device under test
\* or has lost its serial port.
SeenUnplugEndsSession ==
    InSession /\ ~plugged ~>
        plugged \/ AwaitsDut \/ write_failed \/ process # "running"

\* A signal ends the process, in any state and on either board, provided that
\* the waits of Awaits, each time main is in one, come to an end.
SeenSignalEndsRun ==
    []<>~Awaits => (signal_captured ~> process # "running")

\* The comment "Function that handles graceful shutdown of app": a process
\* that runs exit_app does not crash in it.
ShutdownIsGraceful ==
    process = "crashed" => \A t \in Threads : pc[t] # "exit_server"
=============================================================================
