---------------------------- MODULE RthBoardProof ----------------------------
(***************************************************************************)
(* Theorems about one board, of either type, however often the coupler     *)
(* moves.                                                                  *)
(***************************************************************************)
EXTENDS RthBoard, TLAPS

\* What a session rests on: B2 is only ever read with the oscillator on, and
\* the server's launch is not undone.
Session ==
    /\ device_type = "EVSE" /\ pilot_state_name \in {"B2", "C2", "D2"} =>
          duty_cycle = "5"
    /\ pc["main"] = "join" => rth_state = "PLUGGED_IN"
    /\ server_flag => pc["relay"] # "none"
    /\ SessionIsEquipped

\* What thread t has given back by the step of exit_app it has reached; the
\* oscillator only if every write so far has reached the controller.
GivenBack(t) ==
    /\ pc[t] \in {"exit_tcpdump", "exit_broker", "exit_uart", "exit_server",
                  "exit"} => "pwm" \notin held \/ write_failed
    /\ pc[t] \in {"exit_broker", "exit_uart", "exit_server", "exit"} =>
          "tcpdump" \notin held
    /\ pc[t] \in {"exit_uart", "exit_server", "exit"} => "broker" \notin held
    /\ pc[t] \in {"exit_server", "exit"} => "uart" \notin held

\* Nothing is taken again behind a thread in exit_app: the broker connection
\* is made before there is a relay thread.
Shutdown ==
    /\ rth_state \in {"INIT", "NETWORK_CHECK", "BROKER_CHECK",
                      "RTH_HANDSHAKE"} => pc["relay"] = "none"
    /\ device_type = "EV" => "pwm" \notin held
    /\ \A t \in Threads : GivenBack(t)
    /\ PwmOffBeforeUartCloses
    /\ ExitGivesBack

IInv == TypeOK /\ Session /\ Shutdown

LEMMA InitIInv == Init => IInv
  <1> SUFFICES ASSUME Init PROVE IInv
    OBVIOUS
  <1>1. TypeOK
    <2>1. 0 \in 0..MaxMoves
      BY BoardAssumption
    <2> QED
      BY <2>1 DEF Init, TypeOK, Threads, Steps, RthStates,
             PilotStates, Resources
  <1>2. Session
    BY DEF Init, Session, SessionIsEquipped, InSession, Threads
  <1>3. Shutdown
    BY DEF Init, Shutdown, GivenBack, PwmOffBeforeUartCloses, ExitGivesBack,
           Threads
  <1> QED
    BY <1>1, <1>2, <1>3 DEF IInv

\* Each action keeps the types.
LEMMA NextType == TypeOK /\ [Next]_vars => TypeOK'
  <1> SUFFICES ASSUME TypeOK, [Next]_vars PROVE TypeOK'
    OBVIOUS
  <1> USE BoardAssumption DEF TypeOK, At, Goto, boardVars,
          portVars, worldVars, runVars
  <1>1. ASSUME NEW t \in Threads, NEW step \in Steps
        PROVE [pc EXCEPT ![t] = step] \in [Threads -> Steps]
    OBVIOUS
  <1>2. "main" \in Threads /\ "relay" \in Threads
    BY DEF Threads
  <1>3. CASE KeepLast \/ Measure \/ SampleLosesPort \/ Sleep
    <2>1. pc' \in [Threads -> Steps]
      BY <1>1, <1>2, <1>3
      DEF KeepLast, Measure, SampleLosesPort, SampleAs, Sleep, SleepThen,
          Steps
    <2>2. pilot_state_name' \in PilotStates
      BY <1>3
      DEF KeepLast, Measure, SampleLosesPort, SampleAs, Sleep, SleepThen,
          Readings, PilotStates
    <2>3. held' \in SUBSET Resources /\ write_failed' \in BOOLEAN
      BY <1>3
      DEF KeepLast, Measure, SampleLosesPort, WriteFails, Sleep, SleepThen,
          Resources
    <2> QED
      BY <1>3, <2>1, <2>2, <2>3
      DEF KeepLast, Measure, SampleLosesPort, SampleAs, Sleep, SleepThen
  <1>4. CASE Initialized \/ NetworkCheck \/ RthHandshake \/ PerformSdp
    BY <1>1, <1>2, <1>4
    DEF Initialized, NetworkCheck, RthHandshake, PerformSdp, Advance, Fail,
        Steps, RthStates
  <1>5. CASE BrokerCheck
    <2>1. pc' \in [Threads -> Steps]
      BY <1>1, <1>2, <1>5 DEF BrokerCheck, Advance, Fail, Steps
    <2>2. rth_state' \in RthStates /\ held' \in SUBSET Resources
      BY <1>5 DEF BrokerCheck, Advance, Fail, RthStates, Resources
    <2> QED
      BY <1>5, <2>1, <2>2 DEF BrokerCheck, Advance, Fail
  <1>6. CASE UnpluggedWait
    <2>1. pc' \in [Threads -> Steps]
      BY <1>1, <1>2, <1>6 DEF UnpluggedWait, WaitFor, LaunchRelay, Steps
    <2>2. held' \in SUBSET Resources /\ write_failed' \in BOOLEAN
      BY <1>6 DEF UnpluggedWait, WaitFor, WriteFails, Resources
    <2> QED
      BY <2>1, <2>2, <1>6 DEF UnpluggedWait, WaitFor, WriteFails, RthStates
  <1>7. CASE UdpServerFails \/ SdpSocketFails \/ SocketThrows
    BY <1>7 DEF UdpServerFails, SdpSocketFails, SocketThrows, End, Resources
  <1>8. CASE SlacMatches \/ SlacFails \/ JoinNetwork \/ JoinTimesOut
    BY <1>1, <1>2, <1>8
    DEF SlacMatches, SlacFails, Fail, JoinNetwork, JoinTimesOut, JoinTo,
        Steps, RthStates
  <1>9. CASE TcpNetwork
    <2>1. pc' \in [Threads -> Steps]
      BY <1>1, <1>2, <1>9 DEF TcpNetwork, EnterRemote, LaunchRelay, Steps
    <2> QED
      BY <2>1, <1>9 DEF TcpNetwork, EnterRemote, RthStates
  <1>10. CASE Remote \/ CouplerCheck
    <2>1. CASE Remote
      <3>1. pc' \in [Threads -> Steps]
        BY <1>1, <1>2, <2>1 DEF Remote, Steps
      <3> QED
        BY <2>1, <3>1 DEF Remote
    <2>2. CASE CouplerCheck
      <3>1. pc' \in [Threads -> Steps]
        BY <1>1, <1>2, <2>2 DEF CouplerCheck, CheckFor, Steps
      <3>2. held' \in SUBSET Resources /\ write_failed' \in BOOLEAN
        BY <2>2
        DEF CouplerCheck, CheckFor, ControlPwmOff, WriteFails, Resources
      <3> QED
        BY <2>2, <3>1, <3>2 DEF CouplerCheck, CheckFor
    <2> QED
      BY <1>10, <2>1, <2>2
  <1>11. CASE Again \/ Discard \/ Create \/ Link \/ Drop
    <2>1. pc' \in [Threads -> Steps]
      BY <1>1, <1>2, <1>11
      DEF Again, Discard, Create, Link, Drop, RelayStep, Steps
    <2>2. CASE Again
      BY <2>1, <2>2 DEF Again
    <2>3. CASE Discard \/ Create \/ Link \/ Drop
      BY <2>1, <2>3 DEF Discard, Create, Link, Drop, RelayStep
    <2> QED
      BY <1>11, <2>2, <2>3
  <1>12. ASSUME NEW t \in Threads, ExitSteps(t) PROVE TypeOK'
    <2>1. CASE \/ ExitPwm(t) \/ ExitTcpdump(t) \/ ExitBroker(t)
               \/ ExitUart(t)
      <3>1. pc' \in [Threads -> Steps]
        BY <1>1, <2>1
        DEF ExitPwm, ExitTcpdump, ExitBroker, ExitUart, Release, ExitStep,
            Steps
      <3>2. held' \in SUBSET Resources /\ write_failed' \in BOOLEAN
        BY <2>1
        DEF ExitPwm, ExitTcpdump, ExitBroker, ExitUart, Release,
            ControlPwmOff, WriteFails, Resources
      <3> QED
        BY <2>1, <3>1, <3>2
        DEF ExitPwm, ExitTcpdump, ExitBroker, ExitUart, Release, ExitStep
    <2>2. CASE ExitServer(t)
      BY <1>1, <2>2 DEF ExitServer, Steps
    <2>3. CASE ExitServerCrashes(t) \/ Exit(t)
      BY <2>3 DEF ExitServerCrashes, Exit, End, Resources
    <2> QED
      BY <1>12, <2>1, <2>2, <2>3 DEF ExitSteps
  <1>13. CASE MoveCoupler \/ Signal \/ TimerExpires
    <2>1. CASE MoveCoupler
      <3>1. moves' \in 0..MaxMoves /\ plugged' \in BOOLEAN
        BY <2>1 DEF MoveCoupler
      <3> QED
        BY <2>1, <3>1 DEF MoveCoupler
    <2>2. CASE Signal \/ TimerExpires
      BY <2>2 DEF Signal, TimerExpires
    <2> QED
      BY <1>13, <2>1, <2>2
  <1>14. CASE UNCHANGED vars
    BY <1>14 DEF vars
  <1> QED
    BY <1>3, <1>4, <1>5, <1>6, <1>7, <1>8, <1>9, <1>10, <1>11, <1>12, <1>13,
       <1>14
    DEF Next, MainSteps, SlacSteps, JoinSteps, SdpSteps, RelaySteps

\* Each action keeps what the session rests on.
LEMMA NextSession == IInv /\ [Next]_vars => Session'
  <1> SUFFICES ASSUME IInv, [Next]_vars PROVE Session'
    OBVIOUS
  <1>1. /\ pc \in [Threads -> Steps] /\ Session /\ rth_state \in RthStates
        /\ device_type \in {"EV", "EVSE"}
    BY BoardAssumption DEF IInv, TypeOK
  <1> USE <1>1, BoardAssumption
      DEF Session, SessionIsEquipped, InSession, Threads, At, Goto, boardVars,
          portVars, worldVars, runVars
  <1>3. CASE KeepLast \/ Measure \/ SampleLosesPort \/ Sleep
    BY <1>3
    DEF KeepLast, Measure, SampleLosesPort, WriteFails, SampleAs, Sleep,
        SleepThen, Readings
  <1>4. CASE Initialized \/ NetworkCheck \/ RthHandshake \/ PerformSdp
    BY <1>4
    DEF Initialized, NetworkCheck, RthHandshake, PerformSdp, Advance, Fail
  <1>5. CASE BrokerCheck
    BY <1>5 DEF BrokerCheck, Advance, Fail
  <1>6. CASE UnpluggedWait
    BY <1>6 DEF UnpluggedWait, WaitFor, WriteFails, LaunchRelay
  <1>7. CASE UdpServerFails \/ SdpSocketFails \/ SocketThrows
    BY <1>7 DEF UdpServerFails, SdpSocketFails, SocketThrows, End
  <1>8. CASE SlacMatches \/ SlacFails \/ JoinNetwork \/ JoinTimesOut
    BY <1>8
    DEF SlacMatches, SlacFails, Fail, JoinNetwork, JoinTimesOut, JoinTo
  <1>9. CASE TcpNetwork
    BY <1>9 DEF TcpNetwork, EnterRemote, LaunchRelay
  <1>10. CASE Remote \/ CouplerCheck
    BY <1>10 DEF Remote, CouplerCheck, CheckFor, ControlPwmOff, WriteFails
  <1>11. CASE Again \/ Discard \/ Create \/ Link \/ Drop
    BY <1>11 DEF Again, Discard, Create, Link, Drop, RelayStep
  <1>12. ASSUME NEW t \in Threads, ExitSteps(t) PROVE Session'
    BY <1>12
    DEF ExitSteps, ExitPwm, ExitTcpdump, ExitBroker, ExitUart, Release,
        ExitStep, ControlPwmOff, WriteFails, ExitServer, ExitServerCrashes,
        Exit, End
  <1>13. CASE MoveCoupler \/ Signal \/ TimerExpires
    BY <1>13 DEF MoveCoupler, Signal, TimerExpires
  <1>14. CASE UNCHANGED vars
    BY <1>14 DEF vars
  <1> QED
    BY <1>3, <1>4, <1>5, <1>6, <1>7, <1>8, <1>9, <1>10, <1>11, <1>12, <1>13,
       <1>14
    DEF Next, MainSteps, SlacSteps, JoinSteps, SdpSteps, RelaySteps

\* Each action keeps what exit_app relies on.
LEMMA NextShutdown == IInv /\ [Next]_vars => Shutdown'
  <1> SUFFICES ASSUME IInv, [Next]_vars PROVE Shutdown'
    OBVIOUS
  <1>1. /\ pc \in [Threads -> Steps] /\ Session /\ Shutdown
        /\ held \in SUBSET Resources
    BY DEF IInv, TypeOK
  <1> USE <1>1
      DEF Session, Shutdown, GivenBack, PwmOffBeforeUartCloses, ExitGivesBack,
          Threads, Resources, At, Goto, boardVars,
          portVars, worldVars, runVars
  <1>3. CASE KeepLast \/ Measure \/ SampleLosesPort \/ Sleep
    BY <1>3
    DEF KeepLast, Measure, SampleLosesPort, WriteFails, SampleAs, Sleep,
        SleepThen, Readings
  <1>4. CASE Initialized \/ NetworkCheck \/ RthHandshake \/ PerformSdp
    BY <1>4
    DEF Initialized, NetworkCheck, RthHandshake, PerformSdp, Advance, Fail
  <1>5. CASE BrokerCheck
    BY <1>5 DEF BrokerCheck, Advance, Fail
  <1>6. CASE UnpluggedWait
    BY <1>6 DEF UnpluggedWait, WaitFor, WriteFails, LaunchRelay
  <1>7. CASE UdpServerFails \/ SdpSocketFails \/ SocketThrows
    BY <1>7 DEF UdpServerFails, SdpSocketFails, SocketThrows, End
  <1>8. CASE SlacMatches \/ SlacFails \/ JoinNetwork \/ JoinTimesOut
    BY <1>8
    DEF SlacMatches, SlacFails, Fail, JoinNetwork, JoinTimesOut, JoinTo
  <1>9. CASE TcpNetwork
    BY <1>9 DEF TcpNetwork, EnterRemote, LaunchRelay
  <1>10. CASE Remote \/ CouplerCheck
    BY <1>10 DEF Remote, CouplerCheck, CheckFor, ControlPwmOff, WriteFails
  <1>11. CASE Again \/ Discard \/ Create \/ Link \/ Drop
    BY <1>11 DEF Again, Discard, Create, Link, Drop, RelayStep
  <1>12. ASSUME NEW t \in Threads, ExitSteps(t) PROVE Shutdown'
    BY <1>12
    DEF ExitSteps, ExitPwm, ExitTcpdump, ExitBroker, ExitUart, Release,
        ExitStep, ControlPwmOff, WriteFails, ExitServer, ExitServerCrashes,
        Exit, End
  <1>13. CASE MoveCoupler \/ Signal \/ TimerExpires
    BY <1>13 DEF MoveCoupler, Signal, TimerExpires
  <1>14. CASE UNCHANGED vars
    BY <1>14 DEF vars
  <1> QED
    BY <1>3, <1>4, <1>5, <1>6, <1>7, <1>8, <1>9, <1>10, <1>11, <1>12, <1>13,
       <1>14
    DEF Next, MainSteps, SlacSteps, JoinSteps, SdpSteps, RelaySteps

LEMMA NextIInv == IInv /\ [Next]_vars => IInv'
  BY NextType, NextSession, NextShutdown DEF IInv

LEMMA Invariance == Spec => []IInv
  BY InitIInv, NextIInv, PTL DEF Spec

\* TypeOK: every variable keeps its type, and the state ERROR is not entered.
THEOREM TypeCorrect == Spec => []TypeOK
  <1>1. IInv => TypeOK
    BY DEF IInv
  <1> QED
    BY <1>1, Invariance, PTL

\* SessionIsEquipped: no state of the session is reached on an EVSE board
\* without its sockets and the 5% oscillator, nor remote mode without the
\* relay thread, however the coupler moves under stale samples.
THEOREM Equipped == Spec => []SessionIsEquipped
  <1>1. IInv => SessionIsEquipped
    BY DEF IInv, Session
  <1> QED
    BY <1>1, Invariance, PTL

\* PwmOffBeforeUartCloses: with main and the relay thread both in exit_app,
\* neither closes the serial port under an oscillator that is still on; only
\* a write that fails does.
THEOREM PwmOffFirst == Spec => []PwmOffBeforeUartCloses
  <1>1. IInv => PwmOffBeforeUartCloses
    BY DEF IInv, Shutdown
  <1> QED
    BY <1>1, Invariance, PTL

\* ExitGivesBack: whichever thread ends the process by exit_app, tcpdump,
\* broker connection and serial port have been given back whatever failed,
\* and the oscillator unless a write did.
THEOREM EverythingGivenBack == Spec => []ExitGivesBack
  <1>1. IInv => ExitGivesBack
    BY DEF IInv, Shutdown
  <1> QED
    BY <1>1, Invariance, PTL
=============================================================================
