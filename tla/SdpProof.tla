------------------------------ MODULE SdpProof ------------------------------
(***************************************************************************)
(* Theorems about SECC discovery, for any number of devices under test,    *)
(* requests and mishaps; and about the codec alone.                        *)
(***************************************************************************)
EXTENDS Sdp, TLAPS

-----------------------------------------------------------------------------
(* The codec.                                                              *)

\* What the parser's three shifts make of a length, byte by byte
\* (sdp.cpp:251): the upper two bytes of it play no part.
LEMMA Shifts ==
    ASSUME NEW m \in Messages
    PROVE  payload_length(m) = <<m.length[3], 0, 0, m.length[4]>>
  <1> DEFINE w == m.length
  <1> HIDE DEF w
  <1>4. ASSUME NEW c1, NEW c2, NEW c3, NEW c4, NEW b
        PROVE  /\ ShiftIn(<<c1, c2, c3, c4>>, 1, b) = <<c2, c3, c4, b>>
               /\ ShiftIn(<<c1, c2, c3, c4>>, 2, b) = <<c3, c4, 0, b>>
               /\ ShiftIn(<<c1, c2, c3, c4>>, 3, b) = <<c4, 0, 0, b>>
    BY DEF ShiftIn, Shifted
  <1>5. payload_length(m)
          = ShiftIn(ShiftIn(ShiftIn(<<0, 0, 0, w[1]>>, 1, w[2]), 2, w[3]),
                    3, w[4])
    BY DEF payload_length, Number, w
  <1> QED
    BY <1>4, <1>5 DEF w

\* The parser takes a length for n just when its lower two bytes are n: a
\* length of 2 or 20 with anything in the upper two bytes passes the check of
\* sdp.cpp:255 and 289.
THEOREM LengthCheckIsHalf ==
    ASSUME NEW m \in Messages, NEW n \in Byte
    PROVE  payload_length(m) = Number(n)
             <=> m.length[3] = 0 /\ m.length[4] = n
  BY Shifts DEF Number

\* Every proper header is accepted, by the station and by the vehicle.
THEOREM ProperIsAccepted ==
    ASSUME NEW m \in Messages, NEW type, NEW n \in Byte,
           ProperHeader(m, type, n)
    PROVE  HeaderAccepted(m, type, n)
  BY LengthCheckIsHalf DEF ProperHeader, HeaderAccepted, VersionAccepted, Number

LEMMA UInt16Members == \A n \in Nat : n <= 65535 <=> n \in UInt16
  <1>1. UINT16_MAX = 65535
    BY DEF UINT16_MAX
  <1> QED
    BY <1>1 DEF UInt16

LEMMA PortBytes ==
    ASSUME NEW port \in UInt16
    PROVE  /\ port = (port \div 256) * 256 + (port % 256)
           /\ port \div 256 \in Byte /\ port % 256 \in Byte
  <1>1. port \in Nat /\ port <= 65535
    BY UInt16Members DEF UInt16
  <1> QED
    BY <1>1 DEF Byte

\* A port written by the EVSE board is read back by an EV board just when its
\* two bytes are equal, as those of 65535 are (sdp.cpp:213, 307).
THEOREM PortSurvives ==
    ASSUME NEW addr \in Addresses, NEW port \in UInt16
    PROVE  SECCPort(create_SDP_response(addr, port)) = port
             <=> port \div 256 = port % 256
  <1>1. create_SDP_response(addr, port).port = <<port % 256, port \div 256>>
    BY DEF create_SDP_response, ResponseWith, create_v2gtp_header, Zeros
  <1>2. SECCPort(create_SDP_response(addr, port))
          = (port % 256) * 256 + port \div 256
    BY <1>1 DEF SECCPort
  <1>4. ASSUME NEW high \in Byte, NEW low \in Byte
        PROVE  low * 256 + high = high * 256 + low <=> high = low
    BY DEF Byte
  <1> QED
    BY <1>2, <1>4, PortBytes

-----------------------------------------------------------------------------
(* Types.                                                                  *)

LEMMA Names ==
    /\ "EV" \in Evs /\ "EVSE" \in Evses
    /\ Evs \subseteq Addresses /\ Evses \subseteq Addresses
    /\ DutEvs \subseteq Evs /\ DutEvses \subseteq Evses
    /\ 0 \in Ports /\ 1 \in Ports
    /\ TcpPort["EVSE"] \in UInt16
    /\ \A s \in Evses : TcpPort[s] \in UInt16
  BY SdpAssumption DEF Evs, Evses, Ports

LEMMA HeaderTypes ==
    /\ Zeros \in Messages
    /\ create_v2gtp_header(SDP_REQUEST_TYPE, 2) \in Messages
    /\ create_v2gtp_header(SDP_RESPONSE_TYPE, 20) \in Messages
  <1>1. /\ Number(0) \in Word /\ Number(2) \in Word /\ Number(20) \in Word
        /\ <<0, 0>> \in [1 .. 2 -> Byte]
    BY DEF Number, Word, Byte
  <1>2. Zeros \in Messages
    BY <1>1, UInt16Members DEF Zeros, Messages, Byte
  <1>3. /\ V2GTP_VERSION \in Byte /\ V2GTP_VERSION_INV \in Byte
        /\ SDP_REQUEST_TYPE \in UInt16 /\ SDP_RESPONSE_TYPE \in UInt16
    BY UInt16Members
    DEF V2GTP_VERSION, V2GTP_VERSION_INV, SDP_REQUEST_TYPE, SDP_RESPONSE_TYPE,
        Byte
  <1> QED
    BY <1>1, <1>2, <1>3 DEF create_v2gtp_header, Messages

LEMMA MessageTypes ==
    /\ create_SDP_request \in Messages
    /\ create_SDP_response_fails \in Messages
    /\ \A addr \in Addresses, port \in UInt16 :
          /\ create_SDP_response(addr, port) \in Messages
          /\ DutResponse(addr, port) \in Messages
  <1>1. No_Transport_Layer_Security \in Byte /\ SDP_TCP \in Byte
    BY DEF No_Transport_Layer_Security, SDP_TCP, Byte
  <1>2. create_SDP_request \in Messages
    BY <1>1, HeaderTypes DEF create_SDP_request, Messages
  <1>3. create_SDP_response_fails \in Messages
    BY HeaderTypes DEF create_SDP_response_fails
  <1>4. ASSUME NEW addr \in Addresses, NEW port \in [1 .. 2 -> Byte]
        PROVE  ResponseWith(addr, port) \in Messages
    BY <1>1, HeaderTypes DEF ResponseWith, Messages
  <1>5. ASSUME NEW port \in UInt16
        PROVE  /\ <<port % 256, port \div 256>> \in [1 .. 2 -> Byte]
               /\ <<port \div 256, port % 256>> \in [1 .. 2 -> Byte]
    BY PortBytes
  <1> QED
    BY <1>2, <1>3, <1>4, <1>5 DEF create_SDP_response, DutResponse

LEMMA PortType ==
    ASSUME NEW m \in Messages
    PROVE  SECCPort(m) \in UInt16 /\ m.addr \in Addresses \cup {NoAddress}
  <1>1. m.port \in [1 .. 2 -> Byte] /\ m.addr \in Addresses \cup {NoAddress}
    BY DEF Messages
  <1>2. m.port[1] \in Byte /\ m.port[2] \in Byte
    BY <1>1
  <1>3. ASSUME NEW high \in Byte, NEW low \in Byte
        PROVE  high * 256 + low \in UInt16
    <2>1. /\ high \in Nat /\ high <= 255 /\ low \in Nat /\ low <= 255
      BY DEF Byte
    <2> QED
      BY <2>1, UInt16Members
  <1> QED
    BY <1>1, <1>2, <1>3 DEF SECCPort

\* What travels is a datagram.
LEMMA Datagram ==
    /\ Nobody \in Sockets
    /\ \A node \in Addresses, port \in Ports : Socket(node, port) \in Sockets
    /\ \A socket \in Sockets : Requests(socket) \subseteq Datagrams
                                  \/ ~(stations \subseteq DutEvses)
    /\ \A s \in Evses, socket \in Sockets, m \in Messages :
          Response(s, socket, m) \in Datagrams
  <1>1. \A node \in Addresses, port \in Ports : Socket(node, port) \in Sockets
    BY DEF Socket, Sockets
  <1>2. Nobody \in Sockets
    BY <1>1, Names DEF Nobody, SDP_port
  <1>3. ASSUME NEW from \in Sockets, NEW to \in Sockets,
               NEW m \in Messages \cup {Empty}
        PROVE  [from |-> from, to |-> to, msg |-> m] \in Datagrams
    BY DEF Datagrams
  <1>4. \A s \in Evses, socket \in Sockets, m \in Messages :
            Response(s, socket, m) \in Datagrams
    BY <1>1, <1>3, Names DEF Response, SDP_port
  <1>5. ASSUME NEW socket \in Sockets, stations \subseteq DutEvses
        PROVE  Requests(socket) \subseteq Datagrams
    <2>1. \A s \in {"EVSE"} \cup
                (IF socket.node = "EV" THEN stations ELSE {}) :
            Socket(s, SDP_port) \in Sockets
      BY <1>1, <1>5, Names DEF SDP_port
    <2> QED
      BY <1>3, <2>1, MessageTypes DEF Requests
  <1> QED
    BY <1>1, <1>2, <1>4, <1>5

Faults == {"loss", "noise", "noaddress", "rebind", "late", "deaf"}

LEMMA WrongType ==
    ASSUME faults \in [Evs -> SUBSET Faults], NEW fault \in Faults, NEW nodes,
           Wrong(fault, nodes)
    PROVE  faults' \in [Evs -> SUBSET Faults]
  BY DEF Wrong

LEMMA MishapType ==
    ASSUME faults \in [Evs -> SUBSET Faults], mishaps \in 0 .. MaxMishaps,
           NEW fault \in Faults, NEW node, Mishap(fault, node)
    PROVE  /\ faults' \in [Evs -> SUBSET Faults]
           /\ mishaps' \in 0 .. MaxMishaps
  <1>1. faults' \in [Evs -> SUBSET Faults]
    BY WrongType DEF Mishap
  <1> QED
    BY <1>1, SdpAssumption DEF Mishap

LEMMA InitType == Init => TypeOK
  <1> SUFFICES ASSUME Init PROVE TypeOK
    OBVIOUS
  <1>1. /\ <<>> \in Seq(Datagrams) /\ <<>> \in Seq(Messages \cup {Empty})
        /\ 0 \in 0 .. MaxMishaps /\ 0 \in UInt16
    <2>1. 0 \in UInt16
      BY UInt16Members
    <2>2. 0 \in 0 .. MaxMishaps
      BY SdpAssumption
    <2> QED
      BY <2>1, <2>2
  <1>2. pc \in [{"EV", "EVSE"} -> EvSteps \cup EvseSteps]
    BY DEF Init, EvSteps, EvseSteps
  <1>3. pc["EV"] \in EvSteps /\ pc["EVSE"] \in EvseSteps
    BY DEF Init, EvSteps, EvseSteps
  <1>4. tries \in [Evs -> Ports] /\ tries["EV"] <= 1
    BY Names DEF Init
  <1>5. /\ client \in Sockets /\ accepted \in Messages
        /\ SECC \in [addr : Addresses \cup {NoAddress}, port : UInt16]
    BY <1>1, Datagram, HeaderTypes DEF Init
  <1> QED
    BY <1>1, <1>2, <1>3, <1>4, <1>5 DEF Init, TypeOK

\* pc keeps its type when a board goes to one of its steps.
LEMMA GotoType ==
    ASSUME TypeOK, NEW b \in {"EV", "EVSE"}, NEW step,
           IF b = "EV" THEN step \in EvSteps ELSE step \in EvseSteps,
           Goto(b, step)
    PROVE  /\ pc' \in [{"EV", "EVSE"} -> EvSteps \cup EvseSteps]
           /\ pc'["EV"] \in EvSteps /\ pc'["EVSE"] \in EvseSteps
  BY DEF TypeOK, Goto

\* The EVSE board keeps the types,
LEMMA EvseType == TypeOK /\ (Evse \/ EvseFails) => TypeOK'
  <1> SUFFICES ASSUME TypeOK, Evse \/ EvseFails PROVE TypeOK'
    OBVIOUS
  <1> USE DEF evseVars, evVars, dutVars
  <1>1. CASE EvseOpens \/ EvseEnters
    BY <1>1, GotoType DEF EvseOpens, EvseEnters, TypeOK, EvseSteps
  <1>2. CASE EvseReceive
    <2>1. PICK step \in {"done", "answering", "failed"} : Goto("EVSE", step)
      BY <1>2 DEF EvseReceive
    <2>2. Head(secc_udp) \in Datagrams /\ Tail(secc_udp) \in Seq(Datagrams)
      BY <1>2 DEF EvseReceive, TypeOK
    <2>3. client' \in Sockets
      BY <1>2, <2>2 DEF EvseReceive, TypeOK, Datagrams
    <2>4. faults' \in [Evs -> SUBSET Faults]
      BY <1>2, WrongType DEF EvseReceive, TypeOK, Faults
    <2> QED
      BY <1>2, <2>1, <2>2, <2>3, <2>4, GotoType
      DEF EvseReceive, TypeOK, EvseSteps, Faults
  <1>3. CASE EvseRespond
    <2>1. network' \subseteq Datagrams
      BY <1>3, Datagram, MessageTypes, Names
      DEF EvseRespond, EvseResponds, TypeOK
    <2>2. /\ faults' \in [Evs -> SUBSET Faults]
          /\ mishaps' \in 0 .. MaxMishaps
      BY <1>3, MishapType DEF EvseRespond, EvseResponds, TypeOK, Faults
    <2> QED
      BY <1>3, <2>1, <2>2, GotoType
      DEF EvseRespond, EvseResponds, TypeOK, EvseSteps, Faults
  <1>4. CASE EvseFails
    BY <1>4, GotoType, WrongType
    DEF EvseFails, EvseReceiveFails, EvseSocketFails, TypeOK, EvseSteps, Faults
  <1> QED
    BY <1>1, <1>2, <1>3, <1>4 DEF Evse

\* the EV board keeps them,
LEMMA EvType == TypeOK /\ (Ev \/ EvSocketFails) => TypeOK'
  <1> SUFFICES ASSUME TypeOK, Ev \/ EvSocketFails PROVE TypeOK'
    OBVIOUS
  <1> USE DEF evseVars, evVars, dutVars
  <1>1. CASE EvSend
    <2>1. Socket("EV", 1) \in Sockets
      BY Datagram, Names
    <2>2. network' \subseteq Datagrams
      BY <1>1, <2>1, Datagram DEF EvSend, TypeOK
    <2>3. tries' \in [Evs -> Ports] /\ tries'["EV"] <= 1
      BY <1>1, Names DEF EvSend, TypeOK
    <2> QED
      BY <1>1, <2>2, <2>3, GotoType, Names DEF EvSend, TypeOK, EvSteps
  <1>2. CASE EvRebind \/ EvSocketFails
    BY <1>2, GotoType, Names
    DEF EvRebind, RebindTo, EvSocketFails, TypeOK, EvSteps
  <1>3. ASSUME NEW m \in Messages, EvParse(m)
        PROVE  /\ \E step \in {"done", "failed"} : Goto("EV", step)
               /\ SECC' \in [addr : Addresses \cup {NoAddress}, port : UInt16]
               /\ accepted' \in Messages
    BY <1>3, PortType DEF EvParse, TypeOK
  <1>4. CASE EvReceive
    <2>1. /\ Head(evcc_udp) \in Messages \cup {Empty}
          /\ Tail(evcc_udp) \in Seq(Messages \cup {Empty})
      BY <1>4 DEF EvReceive, TypeOK
    <2>2. Content(Head(evcc_udp)) \in Messages
      BY <2>1, HeaderTypes DEF Content
    <2> QED
      BY <1>3, <1>4, <2>1, <2>2, GotoType DEF EvReceive, TypeOK, EvSteps
  <1>5. CASE EvReceiveTimesOut
    <2>1. faults' \in [Evs -> SUBSET Faults]
      BY <1>5, WrongType DEF EvReceiveTimesOut, TypeOK, Faults
    <2> QED
      BY <1>3, <1>5, <2>1, HeaderTypes, GotoType
      DEF EvReceiveTimesOut, TypeOK, EvSteps, Faults
  <1> QED
    BY <1>1, <1>2, <1>4, <1>5 DEF Ev

\* and so do the devices under test and the network.
LEMMA DutType ==
    TypeOK /\ (\E ev \in DutEvs : DutAsks(ev)) => TypeOK'
  <1> SUFFICES ASSUME TypeOK, NEW ev \in DutEvs, DutAsks(ev) PROVE TypeOK'
    OBVIOUS
  <1>1. tries[ev] + 1 \in Ports
    BY Names, SdpAssumption DEF DutAsks, TypeOK, Ports
  <1>2. network' \subseteq Datagrams
    <2>1. Socket(ev, tries[ev] + 1) \in Sockets
      BY <1>1, Datagram, Names
    <2> QED
      BY <2>1, Datagram DEF DutAsks, TypeOK
  <1>3. tries' \in [Evs -> Ports] /\ tries'["EV"] <= 1
    BY <1>1, Names, SdpAssumption DEF DutAsks, TypeOK
  <1>4. listens' \in [Evs -> SUBSET Ports]
    BY <1>1, Names DEF DutAsks, TypeOK
  <1> QED
    BY <1>2, <1>3, <1>4 DEF DutAsks, TypeOK, evseVars, evVars

LEMMA NetworkType ==
    ASSUME TypeOK, NEW d \in network, Deliver(d) \/ ToStranger(d) \/ Lose(d)
    PROVE  TypeOK'
  <1> USE DEF evseVars, evVars, dutVars
  <1>1. /\ d \in Datagrams /\ d.from \in Sockets /\ d.to \in Sockets
        /\ d.msg \in Messages \cup {Empty}
    BY DEF TypeOK, Datagrams
  <1>2. CASE ToEvseBoard(d)
    <2>1. secc_udp' \in Seq(Datagrams)
      <3>1. secc_udp' \in {secc_udp, Append(secc_udp, d)}
        BY <1>2 DEF ToEvseBoard
      <3>2. secc_udp \in Seq(Datagrams)
        BY DEF TypeOK
      <3> QED
        BY <1>1, <3>1, <3>2
    <2>2. faults' \in [Evs -> SUBSET Faults]
      BY <1>2, WrongType DEF ToEvseBoard, TypeOK, Faults
    <2> QED
      BY <1>2, <2>1, <2>2 DEF ToEvseBoard, Arrives, TypeOK, Faults
  <1>3. CASE ToDutStation(d)
    <2>1. Response(d.to.node, d.from,
                   DutResponse(d.to.node, TcpPort[d.to.node])) \in Datagrams
      BY <1>1, <1>3, Names, MessageTypes, Datagram DEF ToDutStation
    <2> QED
      BY <1>3, <2>1 DEF ToDutStation, TypeOK
  <1>4. CASE ToEvBoard(d)
    <2>1. evcc_udp' \in Seq(Messages \cup {Empty})
      <3>1. evcc_udp' \in {evcc_udp, Append(evcc_udp, d.msg)}
        BY <1>4 DEF ToEvBoard
      <3>2. evcc_udp \in Seq(Messages \cup {Empty})
        BY DEF TypeOK
      <3> QED
        BY <1>1, <3>1, <3>2
    <2>2. faults' \in [Evs -> SUBSET Faults]
      BY <1>4, WrongType DEF ToEvBoard, TypeOK, Faults
    <2>3. heard' \subseteq Addresses \X Sockets
      BY <1>1, <1>4 DEF ToEvBoard, TypeOK, Sockets
    <2> QED
      BY <1>4, <2>1, <2>2, <2>3 DEF ToEvBoard, Arrives, TypeOK, Faults
  <1>6. CASE ToStranger(d)
    BY <1>6 DEF ToStranger, Arrives, TypeOK
  <1>7. CASE Lose(d)
    BY <1>7, MishapType DEF Lose, Arrives, TypeOK, Faults
  <1>5. CASE ToDutVehicle(d)
    BY <1>1, <1>5 DEF ToDutVehicle, Arrives, TypeOK, Sockets
  <1> QED
    BY <1>2, <1>3, <1>4, <1>5, <1>6, <1>7 DEF Deliver

LEMMA NoiseType ==
    TypeOK /\ (\E s \in Strangers, m \in Noise \cup {Empty} : MakeNoise(s, m))
        => TypeOK'
  <1> SUFFICES ASSUME TypeOK, NEW s \in Strangers, NEW m \in Noise \cup {Empty},
                      MakeNoise(s, m)
               PROVE  TypeOK'
    OBVIOUS
  <1>1. m \in Messages \cup {Empty}
    BY SdpAssumption
  <1>2. PICK to \in {Socket("EVSE", SDP_port), Socket("EV", 1)} :
            /\ network' = network \cup
                  {[from |-> Socket(s, SDP_port), to |-> to, msg |-> m]}
            /\ Mishap("noise", to.node)
    BY DEF MakeNoise
  <1>3. Socket(s, SDP_port) \in Sockets /\ to \in Sockets
    BY Datagram, Names DEF Strangers, SDP_port
  <1>4. network' \subseteq Datagrams
    BY <1>1, <1>2, <1>3 DEF Datagrams, TypeOK
  <1>5. faults' \in [Evs -> SUBSET Faults] /\ mishaps' \in 0 .. MaxMishaps
    BY <1>2, MishapType DEF TypeOK, Faults
  <1> QED
    BY <1>4, <1>5
    DEF MakeNoise, TypeOK, Faults, evseVars, evVars, dutVars

LEMMA NextType == TypeOK /\ [Next]_vars => TypeOK'
  <1>1. TypeOK /\ UNCHANGED vars => TypeOK'
    BY DEF TypeOK, vars, evseVars, evVars, dutVars
  <1> QED
    BY <1>1, EvseType, EvType, DutType, NetworkType, NoiseType DEF Next

\* Every variable keeps its type, whatever the network does.
THEOREM TypeCorrect == Spec => []TypeOK
  BY InitType, NextType, PTL DEF Spec

-----------------------------------------------------------------------------
(* Whom the EV board believes.                                             *)

EvseAnswer == create_SDP_response("EVSE", TcpPort["EVSE"])
DutAnswer(s) == DutResponse(s, TcpPort[s])

\* What can travel on the line.
Known(m) ==
    \/ m \in {Empty, create_SDP_request, create_SDP_response_fails, EvseAnswer}
    \/ m \in Noise
    \/ \E s \in DutEvses : m = DutAnswer(s)

\* The EVSE board has answered this socket, and nobody else.
Served(socket) == pc["EVSE"] = "done" /\ client = socket

EvSocket == Socket("EV", 1)

OnTheLine ==
    \A d \in network : Known(d.msg) /\ (d.msg = EvseAnswer => Served(d.to))

InTheBuffer ==
    /\ listens["EV"] \subseteq {1}
    /\ \A i \in 1 .. Len(evcc_udp) :
          Known(evcc_udp[i]) /\ (evcc_udp[i] = EvseAnswer => Served(EvSocket))

Believed ==
    pc["EV"] = "done" =>
        /\ Known(accepted) /\ accepted # Empty
        /\ ResponseAccepted(accepted)
        /\ SECC = [addr |-> accepted.addr, port |-> SECCPort(accepted)]
        /\ accepted = EvseAnswer => Served(EvSocket)

IInv == TypeOK /\ OnTheLine /\ InTheBuffer /\ Believed

\* The EVSE board's answer is none of the other messages.
LEMMA AnswerIsOnesOwn ==
    /\ EvseAnswer \in Messages /\ EvseAnswer # Empty
    /\ EvseAnswer # create_SDP_request
    /\ EvseAnswer # create_SDP_response_fails
    /\ EvseAnswer \notin Noise
    /\ \A s \in DutEvses : EvseAnswer # DutAnswer(s)
    /\ EvseAnswer.addr = "EVSE"
    /\ \A s \in DutEvses : DutAnswer(s).addr = s
  <1>1. EvseAnswer \in Messages
    BY MessageTypes, Names DEF EvseAnswer
  <1>2. EvseAnswer.addr = "EVSE" /\ \A s \in DutEvses : DutAnswer(s).addr = s
    BY DEF EvseAnswer, DutAnswer, create_SDP_response, DutResponse,
           ResponseWith, create_v2gtp_header, Zeros
  <1>3. /\ EvseAnswer.type = SDP_RESPONSE_TYPE
        /\ create_SDP_request.type = SDP_REQUEST_TYPE
    BY DEF EvseAnswer, create_SDP_response, create_SDP_request,
           ResponseWith, create_v2gtp_header, Zeros
  <1>4. create_SDP_response_fails.addr = NoAddress
    BY DEF create_SDP_response_fails, create_v2gtp_header, Zeros
  <1>5. ProperHeader(EvseAnswer, SDP_RESPONSE_TYPE, 20)
    BY DEF EvseAnswer, create_SDP_response, ResponseWith, ProperHeader,
           create_v2gtp_header, Zeros
  <1>6. SDP_RESPONSE_TYPE # SDP_REQUEST_TYPE
    BY DEF SDP_RESPONSE_TYPE, SDP_REQUEST_TYPE
  <1>7. NoAddress # "EVSE"
    BY Names, SdpAssumption
  <1> QED
    BY <1>1, <1>2, <1>3, <1>4, <1>5, <1>6, <1>7, SdpAssumption

\* Of what can travel, the EV board takes the answers and the malformed.
LEMMA AcceptedIsAnswer ==
    ASSUME NEW m, Known(m), m # Empty, ResponseAccepted(m)
    PROVE  m = EvseAnswer \/ Slack(m) \/ \E s \in DutEvses : m = DutAnswer(s)
  <1>1. m # create_SDP_request
    <2>1. create_SDP_request.type = SDP_REQUEST_TYPE
      BY DEF create_SDP_request, create_v2gtp_header, Zeros
    <2>2. m.type = SDP_RESPONSE_TYPE
      BY DEF ResponseAccepted, HeaderAccepted
    <2> QED
      BY <2>1, <2>2 DEF SDP_RESPONSE_TYPE, SDP_REQUEST_TYPE
  <1>2. m # create_SDP_response_fails
    <2>1. create_SDP_response_fails.security = 0
      BY DEF create_SDP_response_fails, create_v2gtp_header, Zeros
    <2>2. m.security = 16
      BY DEF ResponseAccepted, No_Transport_Layer_Security
    <2> QED
      BY <2>1, <2>2
  <1>3. m \in Noise => Slack(m)
    BY SdpAssumption DEF Slack
  <1> QED
    BY <1>1, <1>2, <1>3 DEF Known

LEMMA InitInv == Init => IInv
  <1> SUFFICES ASSUME Init PROVE IInv
    OBVIOUS
  <1>1. OnTheLine /\ Believed
    BY DEF Init, OnTheLine, Believed
  <1>2. InTheBuffer
    BY Names DEF Init, InTheBuffer
  <1> QED
    BY <1>1, <1>2, InitType DEF IInv

\* As long as the EVSE board has served nobody else since, what was answered
\* stays answered.
LEMMA EvseInv == TypeOK /\ IInv /\ (Evse \/ EvseFails) => IInv'
  <1> SUFFICES ASSUME IInv, TypeOK, Evse \/ EvseFails PROVE IInv'
    OBVIOUS
  <1>1. TypeOK'
    BY EvseType
  <1> USE DEF evseVars, evVars, dutVars
  <1>2. CASE EvseOpens \/ EvseEnters \/ EvseReceive \/ EvseFails
    <2>1. /\ pc["EVSE"] # "done"
          /\ UNCHANGED <<network, evcc_udp, listens, accepted, SECC>>
          /\ pc'["EV"] = pc["EV"]
      BY <1>2
      DEF EvseOpens, EvseEnters, EvseReceive, EvseFails,
          EvseReceiveFails, EvseSocketFails, Goto, TypeOK
    <2> QED
      BY <1>1, <2>1 DEF IInv, OnTheLine, InTheBuffer, Believed, Served
  <1>3. CASE EvseRespond
    <2>1. /\ pc["EVSE"] = "answering" /\ pc'["EVSE"] = "done"
          /\ pc'["EV"] = pc["EV"]
          /\ UNCHANGED <<client, evcc_udp, listens, accepted, SECC>>
      BY <1>3 DEF EvseRespond, EvseResponds, Goto, TypeOK
    <2>2. ASSUME NEW d \in network'
          PROVE  Known(d.msg) /\ (d.msg = EvseAnswer => d.to = client)
      <3>1. CASE d \in network
        BY <2>1, <3>1 DEF IInv, OnTheLine, Served
      <3>2. CASE d \in {Response("EVSE", client, EvseAnswer),
                        Response("EVSE", client, create_SDP_response_fails)}
        BY <3>2 DEF Response, Known
      <3> QED
        BY <1>3, <2>2, <3>1, <3>2 DEF EvseRespond, EvseResponds, EvseAnswer
    <2> QED
      BY <1>1, <2>1, <2>2 DEF IInv, OnTheLine, InTheBuffer, Believed, Served
  <1> QED
    BY <1>2, <1>3 DEF Evse

LEMMA EvInv == TypeOK /\ IInv /\ (Ev \/ EvSocketFails) => IInv'
  <1> SUFFICES ASSUME IInv, TypeOK, Ev \/ EvSocketFails PROVE IInv'
    OBVIOUS
  <1>1. TypeOK'
    BY EvType
  <1> USE DEF evseVars, evVars, dutVars
  <1>2. pc'["EVSE"] = pc["EVSE"] /\ client' = client
    BY DEF Ev, EvSend, EvRebind, RebindTo, EvReceive, EvReceiveTimesOut,
           EvParse, EvSocketFails, Goto, TypeOK
  <1>3. CASE EvSend
    <2>1. ASSUME NEW d \in Requests(EvSocket)
          PROVE  Known(d.msg) /\ d.msg # EvseAnswer
      BY AnswerIsOnesOwn DEF Requests, Known
    <2>2. OnTheLine'
      BY <1>2, <1>3, <2>1 DEF EvSend, IInv, OnTheLine, Served, EvSocket
    <2>3. pc'["EV"] = "sent" /\ listens'["EV"] = {1} /\ evcc_udp' = evcc_udp
      BY <1>3, Names DEF EvSend, Goto, TypeOK
    <2> QED
      BY <1>1, <1>2, <2>2, <2>3 DEF IInv, InTheBuffer, Believed, Served
  <1>4. CASE EvRebind \/ EvSocketFails
    <2>1. /\ pc'["EV"] # "done" /\ listens'["EV"] \subseteq listens["EV"]
          /\ UNCHANGED <<network, evcc_udp>>
      BY <1>4, Names DEF EvRebind, RebindTo, EvSocketFails, Goto, TypeOK
    <2> QED
      BY <1>1, <1>2, <2>1
      DEF IInv, OnTheLine, InTheBuffer, Believed, Served
  <1>5. ASSUME NEW m, EvParse(m), m # Empty, Known(m) \/ m = Zeros,
               m = EvseAnswer => Served(EvSocket)
        PROVE  Believed'
    <2>1. CASE ResponseAccepted(m)
      <3>1. ~ResponseAccepted(Zeros)
        BY DEF ResponseAccepted, Zeros, No_Transport_Layer_Security
      <3> QED
        BY <1>2, <1>5, <2>1, <3>1 DEF EvParse, Believed, Served
    <2>2. CASE ~ResponseAccepted(m)
      BY <1>5, <2>2 DEF EvParse, Goto, Believed, TypeOK
    <2> QED
      BY <2>1, <2>2
  <1>6. CASE EvReceive
    <2>1. /\ evcc_udp # <<>> /\ evcc_udp' = Tail(evcc_udp)
          /\ UNCHANGED <<network, listens>>
          /\ EvParse(Content(Head(evcc_udp)))
      BY <1>6 DEF EvReceive
    <2>2. evcc_udp \in Seq(Messages \cup {Empty})
      BY DEF TypeOK
    <2>3. /\ Head(evcc_udp) = evcc_udp[1] /\ 1 \in 1 .. Len(evcc_udp)
          /\ \A i \in 1 .. Len(Tail(evcc_udp)) :
                /\ Tail(evcc_udp)[i] = evcc_udp[i + 1]
                /\ i + 1 \in 1 .. Len(evcc_udp)
      BY <2>1, <2>2
    <2>4. InTheBuffer'
      BY <1>2, <2>1, <2>3 DEF IInv, InTheBuffer, Served
    <2>5. LET m == Content(Head(evcc_udp))
          IN  /\ m # Empty /\ (Known(m) \/ m = Zeros)
              /\ m = EvseAnswer => Served(EvSocket)
      <3>1. Zeros # Empty
        BY HeaderTypes, SdpAssumption
      <3>2. Zeros # EvseAnswer
        BY AnswerIsOnesOwn, Names, SdpAssumption DEF Zeros
      <3> QED
        BY <2>3, <3>1, <3>2 DEF Content, IInv, InTheBuffer
    <2>6. Believed'
      BY <1>5, <2>1, <2>5
    <2> QED
      BY <1>1, <1>2, <2>1, <2>4, <2>6 DEF IInv, OnTheLine, Served
  <1>7. CASE EvReceiveTimesOut
    <2>1. /\ UNCHANGED <<network, evcc_udp, listens>> /\ EvParse(Zeros)
      BY <1>7 DEF EvReceiveTimesOut
    <2>2. Zeros # Empty
      BY HeaderTypes, SdpAssumption
    <2>3. Zeros # EvseAnswer
      BY AnswerIsOnesOwn, Names, SdpAssumption DEF Zeros
    <2>4. Believed'
      BY <1>5, <2>1, <2>2, <2>3
    <2> QED
      BY <1>1, <1>2, <2>1, <2>4 DEF IInv, OnTheLine, InTheBuffer, Served
  <1> QED
    BY <1>3, <1>4, <1>6, <1>7 DEF Ev

LEMMA OthersInv ==
    ASSUME TypeOK, IInv, TypeOK',
           \/ \E ev \in DutEvs : DutAsks(ev)
           \/ \E d \in network : Deliver(d) \/ ToStranger(d) \/ Lose(d)
           \/ \E s \in Strangers, m \in Noise \cup {Empty} : MakeNoise(s, m)
    PROVE  IInv'
  <1> USE DEF evseVars, evVars, dutVars
  <1>1. UNCHANGED <<pc, client, SECC, accepted>>
    BY DEF DutAsks, Deliver, ToEvseBoard, ToDutStation, ToEvBoard,
           ToDutVehicle, ToStranger, Lose, MakeNoise
  <1>2. Believed'
    BY <1>1 DEF IInv, Believed, Served
  <1>3. ASSUME NEW d \in network', d \notin network
        PROVE  Known(d.msg) /\ d.msg # EvseAnswer
    <2>1. CASE \E ev \in DutEvs : DutAsks(ev)
      BY <1>3, <2>1, AnswerIsOnesOwn DEF DutAsks, Requests, Known
    <2>2. CASE \E s \in Strangers, m \in Noise \cup {Empty} : MakeNoise(s, m)
      BY <1>3, <2>2, AnswerIsOnesOwn DEF MakeNoise, Known
    <2>3. ASSUME NEW e \in network,
                 Deliver(e) \/ ToStranger(e) \/ Lose(e)
          PROVE  /\ ToDutStation(e)
                 /\ d = Response(e.to.node, e.from, DutAnswer(e.to.node))
                 /\ e.to.node \in DutEvses
      BY <1>3, <2>3
      DEF Deliver, ToEvseBoard, ToDutStation, ToEvBoard, ToDutVehicle,
          ToStranger, Lose, Arrives, DutAnswer
    <2>4. CASE \E e \in network : Deliver(e) \/ ToStranger(e) \/ Lose(e)
      BY <2>3, <2>4, AnswerIsOnesOwn DEF Known, Response
    <2> QED
      BY <2>1, <2>2, <2>4
  <1>4. OnTheLine'
    BY <1>1, <1>3 DEF IInv, OnTheLine, Served
  <1>5. listens'["EV"] = listens["EV"]
    BY SdpAssumption, Names
    DEF DutAsks, Deliver, ToEvseBoard, ToDutStation, ToEvBoard, ToDutVehicle,
        ToStranger, Lose, MakeNoise, TypeOK
  <1>6. InTheBuffer'
    <2>1. CASE UNCHANGED evcc_udp
      BY <1>1, <1>5, <2>1 DEF IInv, InTheBuffer, Served
    <2>2. ASSUME NEW d \in network, ToEvBoard(d), ~UNCHANGED evcc_udp
          PROVE  InTheBuffer'
      <3>1. /\ evcc_udp' = Append(evcc_udp, d.msg)
            /\ d.to.node = "EV" /\ d.to.port \in listens["EV"]
        BY <2>2 DEF ToEvBoard
      <3>2. d.to = EvSocket
        <4>1. d.to \in [node : Addresses, port : Ports]
          BY DEF TypeOK, Datagrams, Sockets
        <4>2. d.to = [node |-> d.to.node, port |-> d.to.port]
          BY <4>1
        <4> QED
          BY <3>1, <4>2 DEF IInv, InTheBuffer, EvSocket, Socket
      <3>3. Known(d.msg) /\ (d.msg = EvseAnswer => Served(EvSocket))
        BY <3>2 DEF IInv, OnTheLine
      <3>4. evcc_udp \in Seq(Messages \cup {Empty})
        BY DEF TypeOK
      <3>5. \A i \in 1 .. Len(evcc_udp') :
                \/ evcc_udp'[i] = d.msg
                \/ i \in 1 .. Len(evcc_udp) /\ evcc_udp'[i] = evcc_udp[i]
        BY <3>1, <3>4
      <3> QED
        BY <1>1, <1>5, <3>3, <3>5 DEF IInv, InTheBuffer, Served
    <2> QED
      BY <2>1, <2>2
      DEF DutAsks, Deliver, ToEvseBoard, ToDutStation, ToDutVehicle,
          ToStranger, Lose, MakeNoise
  <1> QED
    BY <1>2, <1>4, <1>6 DEF IInv

LEMMA NextInv == IInv /\ [Next]_vars => IInv'
  <1> SUFFICES ASSUME IInv, [Next]_vars PROVE IInv'
    OBVIOUS
  <1>1. TypeOK /\ TypeOK'
    BY NextType DEF IInv
  <1>2. CASE UNCHANGED vars
    BY <1>2
    DEF vars, evseVars, evVars, dutVars, IInv, TypeOK, OnTheLine, InTheBuffer,
        Believed, Served
  <1> QED
    BY <1>1, <1>2, EvseInv, EvInv, OthersInv DEF Next

LEMMA Invariant == Spec => []IInv
  BY InitInv, NextInv, PTL DEF Spec

\* The two boards agree on whom the EVSE board has served: its answer reaches
\* the EV board only by being sent to it, and it is sent once.
THEOREM Agreement == Spec => []BoardsAgree
  <1>1. ASSUME IInv, pc["EV"] = "done", SECC = Endpoint("EVSE"),
               ~Slack(accepted)
        PROVE  Served(EvSocket)
    <2>1. accepted.addr = "EVSE"
      BY <1>1 DEF IInv, Believed, Endpoint
    <2>2. accepted = EvseAnswer
      BY <1>1, <2>1, AcceptedIsAnswer, AnswerIsOnesOwn, SdpAssumption
      DEF IInv, Believed
    <2> QED
      BY <1>1, <2>2 DEF IInv, Believed
  <1>2. IInv => BoardsAgree
    BY <1>1 DEF BoardsAgree, Served, EvSocket
  <1> QED
    BY <1>2, Invariant, PTL

\* A TCP port on the EVSE board whose two bytes are equal, as those of 65535
\* are.
Palindrome == TcpPort["EVSE"] \div 256 = TcpPort["EVSE"] % 256

\* With such a port, discovery ends at a TCP server.
THEOREM DiscoveryIsRight == Palindrome => (Spec => []EndpointIsServed)
  <1> SUFFICES ASSUME Palindrome PROVE Spec => []EndpointIsServed
    OBVIOUS
  <1>1. ASSUME IInv, pc["EV"] = "done", ~Slack(accepted)
        PROVE  \E s \in Evses : SECC = Endpoint(s)
    <2>1. CASE accepted = EvseAnswer
      <3>1. SECCPort(accepted) = TcpPort["EVSE"]
        BY <2>1, PortSurvives, Names DEF Palindrome, EvseAnswer
      <3> QED
        BY <1>1, <2>1, <3>1, AnswerIsOnesOwn, Names
        DEF IInv, Believed, Endpoint
    <2>2. ASSUME NEW s \in DutEvses, accepted = DutAnswer(s)
          PROVE  SECC = Endpoint(s)
      <3>1. DutAnswer(s).port = <<TcpPort[s] \div 256, TcpPort[s] % 256>>
        BY DEF DutAnswer, DutResponse, ResponseWith, create_v2gtp_header, Zeros
      <3>2. SECCPort(accepted) = TcpPort[s]
        BY <2>2, <3>1, PortBytes, Names DEF SECCPort
      <3> QED
        BY <1>1, <2>2, <3>2, AnswerIsOnesOwn DEF IInv, Believed, Endpoint
    <2> QED
      BY <1>1, <2>1, <2>2, AcceptedIsAnswer, Names DEF IInv, Believed
  <1>2. IInv => EndpointIsServed
    BY <1>1 DEF EndpointIsServed
  <1> QED
    BY <1>2, Invariant, PTL

-----------------------------------------------------------------------------
(* Whether an answer of the EVSE board gets through.                       *)

\* A vehicle's request is from one of the sockets it has used so far.
Used(socket) == socket.node \in DutEvs => socket.port <= tries[socket.node]

SocketsUsed ==
    /\ \A d \in network : Used(d.from)
    /\ \A i \in 1 .. Len(secc_udp) : Used(secc_udp[i].from)
    /\ Used(client)

\* The EVSE board has at most one client, and speaks to nobody else.
OneClient ==
    /\ pc["EVSE"] \in {"closed", "open", "waiting"} => client = Nobody
    /\ \A d \in network :
          d.from.node = "EVSE" => pc["EVSE"] = "done" /\ d.to = client

Delivered ==
    pc["EVSE"] = "done" /\ client.node \in DutEvs =>
        \/ \E d \in network : d.from.node = "EVSE"
        \/ <<"EVSE", client>> \in heard
        \/ "loss" \in faults[client.node]
        \/ client.port \notin listens[client.node]

DInv == SocketsUsed /\ OneClient /\ Delivered

\* What has gone wrong, and what has been heard, is not forgotten.
LEMMA Grows ==
    ASSUME TypeOK, [Next]_vars
    PROVE  /\ \A v \in Evs : faults[v] \subseteq faults'[v]
           /\ heard \subseteq heard'
  <1>1. ASSUME NEW fault, NEW nodes, Wrong(fault, nodes)
        PROVE  \A v \in Evs : faults[v] \subseteq faults'[v]
    BY <1>1 DEF Wrong, TypeOK
  <1>2. ASSUME NEW fault, NEW node, Mishap(fault, node)
        PROVE  \A v \in Evs : faults[v] \subseteq faults'[v]
    BY <1>1, <1>2 DEF Mishap
  <1> USE DEF evseVars, evVars, dutVars
  <1>3. CASE Evse \/ EvseFails
    BY <1>1, <1>2, <1>3
    DEF Evse, EvseFails, EvseOpens, EvseEnters, EvseReceive, EvseRespond,
        EvseResponds, EvseReceiveFails, EvseSocketFails
  <1>4. CASE Ev \/ EvSocketFails
    BY <1>1, <1>4
    DEF Ev, EvSend, EvRebind, RebindTo, EvReceive, EvReceiveTimesOut,
        EvSocketFails
  <1>5. CASE \E d \in network : Deliver(d) \/ ToStranger(d) \/ Lose(d)
    BY <1>1, <1>2, <1>5
    DEF Deliver, ToEvseBoard, ToDutStation, ToEvBoard, ToDutVehicle,
        ToStranger, Lose
  <1>6. CASE \/ \E ev \in DutEvs : DutAsks(ev)
             \/ \E s \in Strangers, m \in Noise \cup {Empty} : MakeNoise(s, m)
    BY <1>2, <1>6 DEF DutAsks, MakeNoise
  <1>7. CASE UNCHANGED vars
    BY <1>7 DEF vars
  <1> QED
    BY <1>3, <1>4, <1>5, <1>6, <1>7 DEF Next

\* What reading and adding do to the datagrams in a buffer.
LEMMA Buffered ==
    ASSUME NEW q \in Seq(Datagrams)
    PROVE  /\ q # <<>> =>
                 /\ Head(q) = q[1] /\ 1 \in 1 .. Len(q)
                 /\ Tail(q) \in Seq(Datagrams)
                 /\ \A i \in 1 .. Len(Tail(q)) :
                       /\ i + 1 \in 1 .. Len(q)
                       /\ Tail(q)[i] = q[i + 1]
                 /\ Senders(q) \subseteq
                       {Head(q).from.node} \cup Senders(Tail(q))
           /\ \A d \in Datagrams :
                 /\ \A i \in 1 .. Len(Append(q, d)) :
                       \/ Append(q, d)[i] = d
                       \/ i \in 1 .. Len(q) /\ Append(q, d)[i] = q[i]
                 /\ Senders(q) \cup {d.from.node}
                       \subseteq Senders(Append(q, d))
  <1>1. ASSUME q # <<>>
        PROVE  /\ Head(q) = q[1] /\ 1 \in 1 .. Len(q)
               /\ Tail(q) \in Seq(Datagrams)
               /\ Len(Tail(q)) = Len(q) - 1 /\ Len(q) \in Nat
               /\ \A i \in 1 .. Len(Tail(q)) :
                     i + 1 \in 1 .. Len(q) /\ Tail(q)[i] = q[i + 1]
    BY <1>1
  <1>2. ASSUME q # <<>>, NEW i \in 1 .. Len(q)
        PROVE  q[i] = Head(q)
                 \/ (i - 1 \in 1 .. Len(Tail(q)) /\ q[i] = Tail(q)[i - 1])
    <2>1. CASE i = 1
      BY <1>1, <1>2, <2>1
    <2>2. CASE i # 1
      <3>1. i - 1 \in 1 .. Len(Tail(q)) /\ (i - 1) + 1 = i
        BY <1>1, <1>2, <2>2
      <3> QED
        BY <1>1, <1>2, <3>1
    <2> QED
      BY <2>1, <2>2
  <1>3. q # <<>> => Senders(q) \subseteq
                        {Head(q).from.node} \cup Senders(Tail(q))
    BY <1>2 DEF Senders
  <1>4. ASSUME NEW d \in Datagrams
        PROVE  /\ Len(Append(q, d)) = Len(q) + 1 /\ Len(q) \in Nat
               /\ \A i \in 1 .. Len(q) : Append(q, d)[i] = q[i]
               /\ Append(q, d)[Len(q) + 1] = d
    OBVIOUS
  <1>5. ASSUME NEW d \in Datagrams
        PROVE  Senders(q) \cup {d.from.node} \subseteq Senders(Append(q, d))
    <2>1. /\ \A i \in 1 .. Len(q) : i \in 1 .. Len(Append(q, d))
          /\ Len(q) + 1 \in 1 .. Len(Append(q, d))
      BY <1>4
    <2> QED
      BY <1>4, <2>1 DEF Senders
  <1>6. ASSUME NEW d \in Datagrams
        PROVE  \A i \in 1 .. Len(Append(q, d)) :
                   \/ Append(q, d)[i] = d
                   \/ i \in 1 .. Len(q) /\ Append(q, d)[i] = q[i]
    BY <1>4
  <1> QED
    BY <1>1, <1>3, <1>5, <1>6

\* The kinds of nodes have nothing in common.
LEMMA Apart ==
    /\ "EVSE" \notin Evs /\ "EV" \notin Evses /\ "EV" # "EVSE"
    /\ \A v \in Evs : v \notin Evses /\ v \notin Strangers
    /\ \A s \in Evses : s \notin Evs /\ s \notin Strangers
    /\ "EV" \notin DutEvs /\ "EVSE" \notin DutEvses
    /\ DutEvs \subseteq Evs /\ DutEvses \subseteq Evses
    /\ Nobody.node = "EVSE"
  BY SdpAssumption DEF Evs, Evses, Strangers, Nobody, Socket

\* The answer of the EVSE board is under way when the board is done.
LEMMA EvseDelivers ==
    ASSUME TypeOK, DInv, [Next]_vars, Evse \/ EvseFails
    PROVE  DInv'
  <1> USE DEF evseVars, evVars, dutVars
  <1>1. CASE EvseOpens \/ EvseEnters \/ EvseFails
    <2>1. /\ pc["EVSE"] # "done" /\ pc'["EVSE"] # "done"
          /\ pc'["EVSE"] \in {"closed", "open", "waiting"}
                => pc["EVSE"] \in {"closed", "open", "waiting"}
          /\ UNCHANGED <<network, secc_udp, client, tries>>
      BY <1>1
      DEF EvseOpens, EvseEnters, EvseFails, EvseReceiveFails,
          EvseSocketFails, Goto, TypeOK
    <2> QED
      BY <2>1 DEF DInv, SocketsUsed, Used, OneClient, Delivered
  <1>2. CASE EvseReceive
    <2>1. /\ pc["EVSE"] = "waiting" /\ secc_udp # <<>>
          /\ secc_udp \in Seq(Datagrams)
          /\ secc_udp' = Tail(secc_udp) /\ UNCHANGED <<network, tries>>
          /\ \/ client' = client /\ pc'["EVSE"] \in {"done", "failed"}
             \/ client' = Head(secc_udp).from /\ pc'["EVSE"] = "answering"
      BY <1>2 DEF EvseReceive, Goto, TypeOK
    <2>2. SocketsUsed'
      BY <2>1, Buffered DEF DInv, SocketsUsed, Used
    <2>3. OneClient'
      BY <2>1 DEF DInv, OneClient
    <2>4. Delivered'
      BY <2>1, Apart DEF DInv, OneClient, Delivered
    <2> QED
      BY <2>2, <2>3, <2>4 DEF DInv
  <1>3. CASE EvseRespond
    <2>1. PICK m : network' = network \cup {Response("EVSE", client, m)}
      BY <1>3 DEF EvseRespond, EvseResponds
    <2>2. /\ pc["EVSE"] = "answering" /\ pc'["EVSE"] = "done"
          /\ secc_udp' = <<>> /\ UNCHANGED <<client, tries>>
      BY <1>3 DEF EvseRespond, EvseResponds, Goto, TypeOK
    <2>3. /\ Response("EVSE", client, m).from.node = "EVSE"
          /\ Response("EVSE", client, m).to = client
      BY DEF Response, Socket
    <2>4. SocketsUsed'
      BY <2>1, <2>2, <2>3, Apart DEF DInv, SocketsUsed, Used
    <2> QED
      BY <2>1, <2>2, <2>3, <2>4 DEF DInv, OneClient, Delivered
  <1> QED
    BY <1>1, <1>2, <1>3 DEF Evse

\* The EV board has no part in it,
LEMMA EvDelivers ==
    ASSUME TypeOK, DInv, [Next]_vars, Ev \/ EvSocketFails
    PROVE  DInv'
  <1> USE DEF evseVars, evVars, dutVars
  <1>1. /\ pc'["EVSE"] = pc["EVSE"] /\ UNCHANGED <<secc_udp, client>>
        /\ \A v \in DutEvs : /\ tries'[v] = tries[v]
                             /\ listens'[v] = listens[v]
        /\ network' \in {network, network \cup Requests(EvSocket)}
    BY Apart
    DEF Ev, EvSend, EvRebind, RebindTo, EvReceive, EvReceiveTimesOut, EvParse,
        EvSocketFails, Goto, TypeOK, EvSocket
  <1>2. \A d \in Requests(EvSocket) : d.from.node = "EV"
    BY DEF Requests, EvSocket, Socket
  <1> QED
    BY <1>1, <1>2, Apart, Grows
    DEF DInv, SocketsUsed, Used, OneClient, Delivered

\* a vehicle opens new sockets and no old one, and the line loses the answer
\* or takes it to where it was asked for.
LEMMA OthersDeliver ==
    ASSUME TypeOK, DInv, [Next]_vars,
           \/ \E ev \in DutEvs : DutAsks(ev)
           \/ \E d \in network : Deliver(d) \/ ToStranger(d) \/ Lose(d)
           \/ \E s \in Strangers, m \in Noise \cup {Empty} : MakeNoise(s, m)
    PROVE  DInv'
  <1> USE DEF evseVars, evVars, dutVars
  <1>1. CASE \E ev \in DutEvs : DutAsks(ev)
    <2>1. PICK ev \in DutEvs : DutAsks(ev)
      BY <1>1
    <2>2. /\ \A d \in Requests(Socket(ev, tries[ev] + 1)) :
                d.from = Socket(ev, tries[ev] + 1)
          /\ Socket(ev, tries[ev] + 1).node = ev
          /\ Socket(ev, tries[ev] + 1).port = tries[ev] + 1
      BY DEF Requests, Socket
    <2>3. /\ tries \in [Evs -> Nat] /\ ev \in Evs
          /\ tries' = [tries EXCEPT ![ev] = tries[ev] + 1]
      BY <2>1, Apart DEF DutAsks, TypeOK, Ports
    <2>4. /\ UNCHANGED <<pc, client, secc_udp>>
          /\ network' = network \cup Requests(Socket(ev, tries[ev] + 1))
      BY <2>1 DEF DutAsks
    <2>5. \A v \in Evs : listens'[v] \subseteq listens[v]
                            \cup (IF v = ev THEN {tries[ev] + 1} ELSE {})
      BY <2>1 DEF DutAsks, TypeOK
    <2>6. client.port \in Nat
      BY DEF TypeOK, Sockets, Ports
    <2>7. \A socket \in Sockets : Used(socket) => Used(socket)'
      BY <2>3, Apart DEF Used, Sockets, Ports
    <2>8. SocketsUsed'
      <3>1. ASSUME NEW d \in network' PROVE Used(d.from)'
        BY <2>2, <2>3, <2>4, <2>7 DEF DInv, SocketsUsed, Used, TypeOK, Datagrams
      <3>2. \A i \in 1 .. Len(secc_udp) : secc_udp[i].from \in Sockets
        <4>1. secc_udp \in Seq(Datagrams)
          BY DEF TypeOK
        <4>2. \A i \in 1 .. Len(secc_udp) : secc_udp[i] \in Datagrams
          BY <4>1
        <4> QED
          BY <4>2 DEF Datagrams
      <3>3. client \in Sockets
        BY DEF TypeOK
      <3> QED
        BY <2>4, <2>7, <3>1, <3>2, <3>3 DEF DInv, SocketsUsed
    <2>9. OneClient'
      BY <2>2, <2>4, Apart DEF DInv, OneClient
    <2>10. client.node = ev => client.port <= tries[ev]
      BY DEF DInv, SocketsUsed, Used
    <2>11. client.node \in DutEvs /\ client.port \notin listens[client.node]
               => client.port \notin listens'[client.node]
      BY <2>3, <2>5, <2>6, <2>10, Apart
    <2>12. Delivered'
      BY <2>4, <2>11, Grows, Apart DEF DInv, Delivered
    <2> QED
      BY <2>8, <2>9, <2>12 DEF DInv
  <1>2. ASSUME NEW s \in Strangers, NEW m \in Noise \cup {Empty},
               MakeNoise(s, m)
        PROVE  DInv'
    <2>1. PICK to :
              network' = network \cup
                  {[from |-> Socket(s, SDP_port), to |-> to, msg |-> m]}
      BY <1>2 DEF MakeNoise
    <2>2. Socket(s, SDP_port).node = s /\ s \notin DutEvs /\ s # "EVSE"
      BY Apart, Names DEF Socket
    <2>3. UNCHANGED <<pc, client, secc_udp, tries, listens>>
      BY <1>2 DEF MakeNoise
    <2> QED
      BY <2>1, <2>2, <2>3, Grows, Apart
      DEF DInv, SocketsUsed, Used, OneClient, Delivered
  <1>3. ASSUME NEW d \in network, Deliver(d) \/ ToStranger(d) \/ Lose(d)
        PROVE  DInv'
    <2>1. UNCHANGED <<pc, client, tries, listens>> /\ d \in Datagrams
      BY <1>3
      DEF Deliver, ToEvseBoard, ToDutStation, ToEvBoard, ToDutVehicle,
          ToStranger, Lose, TypeOK
    <2>2. \A e \in network' :
              e \in network \/ (e.from.node \in DutEvses)
      BY <1>3
      DEF Deliver, ToEvseBoard, ToDutStation, ToEvBoard, ToDutVehicle,
          ToStranger, Lose, Arrives, Response, Socket
    <2>3. \A i \in 1 .. Len(secc_udp') :
              \/ secc_udp'[i] = d
              \/ i \in 1 .. Len(secc_udp) /\ secc_udp'[i] = secc_udp[i]
      BY <1>3, <2>1, Buffered
      DEF Deliver, ToEvseBoard, ToDutStation, ToEvBoard, ToDutVehicle,
          ToStranger, Lose, TypeOK
    <2>4. SocketsUsed'
      BY <2>1, <2>2, <2>3, Apart DEF DInv, SocketsUsed, Used
    <2>5. OneClient'
      BY <2>1, <2>2, Apart DEF DInv, OneClient
    <2>6. Delivered'
      <3> SUFFICES ASSUME pc["EVSE"] = "done", client.node \in DutEvs,
                          <<"EVSE", client>> \notin heard',
                          "loss" \notin faults'[client.node],
                          client.port \in listens[client.node]
                   PROVE  \E e \in network' : e.from.node = "EVSE"
        BY <2>1 DEF Delivered
      <3>1. PICK e \in network : e.from.node = "EVSE"
        BY Grows, Apart DEF DInv, Delivered
      <3>2. e.to = client
        BY <3>1 DEF DInv, OneClient
      <3>3. CASE e # d
        BY <1>3, <3>1, <3>3
        DEF Deliver, ToEvseBoard, ToDutStation, ToEvBoard, ToDutVehicle,
            ToStranger, Lose, Arrives
      <3>4. CASE e = d
        <4>1. ~ (ToEvseBoard(d) \/ ToDutStation(d) \/ ToEvBoard(d)
                 \/ ToStranger(d))
          BY <3>2, <3>4, Apart
          DEF ToEvseBoard, ToDutStation, ToEvBoard, ToStranger
        <4>2. ~ ToDutVehicle(d)
          BY <3>1, <3>2, <3>4 DEF ToDutVehicle
        <4>3. ~ Lose(d)
          BY <3>1, <3>2, <3>4, Apart DEF Lose, Mishap, Wrong, TypeOK
        <4> QED
          BY <1>3, <4>1, <4>2, <4>3 DEF Deliver
      <3> QED
        BY <3>3, <3>4
    <2> QED
      BY <2>4, <2>5, <2>6 DEF DInv
  <1> QED
    BY <1>1, <1>2, <1>3

LEMMA InitDelivers == Init => DInv
  <1> SUFFICES ASSUME Init PROVE DInv
    OBVIOUS
  <1>1. Len(secc_udp) = 0
    BY DEF Init
  <1> QED
    BY <1>1, Apart DEF Init, DInv, SocketsUsed, Used, OneClient, Delivered

LEMMA NextDelivers == TypeOK /\ DInv /\ [Next]_vars => DInv'
  <1> SUFFICES ASSUME TypeOK, DInv, [Next]_vars PROVE DInv'
    OBVIOUS
  <1>1. CASE UNCHANGED vars
    BY <1>1
    DEF vars, evseVars, evVars, dutVars, DInv, SocketsUsed, Used, OneClient,
        Delivered
  <1> QED
    BY <1>1, EvseDelivers, EvDelivers, OthersDeliver DEF Next

\* The vehicle the EVSE board has answered has the answer, unless it was lost
\* or the vehicle no longer listens where it asked from (sdp.cpp:377): nothing
\* on either side can swallow it.
THEOREM AnswerArrives == Spec => []AnswerReachesVehicle
  <1>1. DInv => AnswerReachesVehicle
    BY DEF DInv, Delivered, AnswerReachesVehicle
  <1> QED
    BY <1>1, TypeCorrect, InitDelivers, NextDelivers, PTL DEF Spec

-----------------------------------------------------------------------------
(* Why discovery fails on the EV board.                                    *)

Quiet == "noise" \notin faults["EV"]

Lost == faults["EV"] \cap {"loss", "late", "rebind", "deaf"} # {}

HeardByEv == \E s \in Evses : <<s, EvSocket>> \in heard

\* What the EV board can make of its one request.
Answer(m) ==
    \/ m = EvseAnswer \/ \E s \in DutEvses : m = DutAnswer(s)
    \/ m = create_SDP_response_fails /\ "noaddress" \in faults["EV"]

FromEv(d) ==
    d.from.node = "EV" =>
        d.from = EvSocket /\ d.to.node # "EV" /\ d.msg = create_SDP_request

\* The EV board speaks with one socket and asks one thing.
ByEv ==
    /\ \A d \in network : FromEv(d)
    /\ \A i \in 1 .. Len(secc_udp) : FromEv(secc_udp[i])
    /\ client.node = "EV" => client = EvSocket

\* Without noise only answers come to it.
ToEv ==
    Quiet =>
        /\ \A d \in network :
              d.to.node = "EV" => d.from.node \in Evses /\ Answer(d.msg)
        /\ \A i \in 1 .. Len(evcc_udp) : Answer(evcc_udp[i])
        /\ evcc_udp # <<>> => HeardByEv

\* It listens while it waits, and takes the first thing it hears.
Ears ==
    /\ pc["EV"] \in {"sent", "receiving"} => listens["EV"] = {1}
    /\ HeardByEv => /\ pc["EV"] \notin {"idle", "sent"}
                    /\ pc["EV"] = "receiving" => evcc_udp # <<>>

\* Its request, or the answer of the EVSE board, on its way.
Asks(d) == d.from.node = "EV" /\ d.to.node = "EVSE"
Answers(d) == d.from.node = "EVSE" /\ d.to = EvSocket

Way ==
    \/ \E d \in network : Asks(d) \/ Answers(d)
    \/ pc["EVSE"] \in {"open", "waiting"} /\ "EV" \in Senders(secc_udp)
    \/ pc["EVSE"] = "answering" /\ client.node = "EV"

Trail ==
    pc["EV"] \in {"sent", "receiving"} /\ Quiet => Lost \/ HeardByEv \/ Way

FInv == ByEv /\ ToEv /\ Ears /\ Trail /\ FailureHasCause

\* What a proper sender writes, the parser takes.
LEMMA ProperMessages ==
    /\ RequestAccepted(create_SDP_request) /\ create_SDP_request # Empty
    /\ ResponseAccepted(EvseAnswer) /\ EvseAnswer # Empty
    /\ create_SDP_response_fails # Empty
    /\ \A s \in DutEvses :
          ResponseAccepted(DutAnswer(s)) /\ DutAnswer(s) # Empty
    /\ ~ResponseAccepted(Zeros)
  <1>1. 2 \in Byte /\ 20 \in Byte
    BY DEF Byte
  <1>2. /\ EvseAnswer \in Messages /\ create_SDP_request \in Messages
        /\ create_SDP_response_fails \in Messages
        /\ \A s \in DutEvses : DutAnswer(s) \in Messages
    BY MessageTypes, Names DEF EvseAnswer, DutAnswer
  <1>3. ProperHeader(create_SDP_request, SDP_REQUEST_TYPE, 2)
    BY DEF create_SDP_request, ProperHeader, create_v2gtp_header, Zeros
  <1>4. /\ ProperHeader(EvseAnswer, SDP_RESPONSE_TYPE, 20)
        /\ EvseAnswer.security = No_Transport_Layer_Security
        /\ EvseAnswer.transport = SDP_TCP
    BY DEF EvseAnswer, create_SDP_response, ResponseWith, ProperHeader,
           create_v2gtp_header, Zeros
  <1>5. \A s \in DutEvses :
           /\ ProperHeader(DutAnswer(s), SDP_RESPONSE_TYPE, 20)
           /\ DutAnswer(s).security = No_Transport_Layer_Security
           /\ DutAnswer(s).transport = SDP_TCP
    BY DEF DutAnswer, DutResponse, ResponseWith, ProperHeader,
           create_v2gtp_header, Zeros
  <1>6. ~ResponseAccepted(Zeros)
    BY DEF ResponseAccepted, Zeros, No_Transport_Layer_Security
  <1>7. RequestAccepted(create_SDP_request)
    BY <1>1, <1>2, <1>3, ProperIsAccepted DEF RequestAccepted
  <1>8. ResponseAccepted(EvseAnswer)
    BY <1>1, <1>2, <1>4, ProperIsAccepted DEF ResponseAccepted
  <1>9. \A s \in DutEvses : ResponseAccepted(DutAnswer(s))
    BY <1>1, <1>2, <1>5, ProperIsAccepted DEF ResponseAccepted
  <1> QED
    BY <1>2, <1>6, <1>7, <1>8, <1>9, SdpAssumption

\* Causes stay causes.
LEMMA CausesStay ==
    ASSUME TypeOK, [Next]_vars
    PROVE  /\ Lost => Lost'
           /\ Quiet' => Quiet
           /\ HeardByEv => HeardByEv'
           /\ \A m : Answer(m) => Answer(m)'
           /\ "noaddress" \in faults["EV"] => "noaddress" \in faults'["EV"]
  BY Grows, Names
  DEF Lost, Quiet, HeardByEv, Answer, EvseAnswer, DutAnswer

\* The EVSE board hands the request on, or leaves a cause.
LEMMA EvseTrail ==
    ASSUME IInv, FInv, [Next]_vars, Evse \/ EvseFails
    PROVE  FInv'
  <1> USE DEF evseVars, evVars, dutVars
  <1>1. /\ TypeOK /\ "EV" \in Evs
        /\ secc_udp \in Seq(Datagrams)
    BY Names DEF IInv, TypeOK
  <1>2. /\ pc'["EV"] = pc["EV"]
        /\ UNCHANGED <<evcc_udp, listens, heard, SECC, accepted>>
    BY <1>1
    DEF Evse, EvseFails, EvseOpens, EvseEnters, EvseReceive, EvseRespond,
        EvseResponds, EvseReceiveFails, EvseSocketFails, Goto, TypeOK
  <1>3. Ears' /\ FailureHasCause' /\ HeardByEv' = HeardByEv
    BY <1>1, <1>2, CausesStay
    DEF FInv, Ears, HeardByEv, FailureHasCause, Quiet, Lost, EvSocket
  <1>4. ASSUME NEW nodes, Wrong("deaf", nodes), "EV" \in nodes
        PROVE  Lost'
    BY <1>1, <1>4 DEF Wrong, Lost, TypeOK
  <1>5. CASE EvseOpens \/ EvseEnters \/ EvseFails
    <2>1. UNCHANGED <<network, secc_udp, client>>
      BY <1>5
      DEF EvseOpens, EvseEnters, EvseFails, EvseReceiveFails, EvseSocketFails
    <2>2. ByEv'
      BY <2>1 DEF FInv, ByEv, FromEv
    <2>3. ToEv'
      BY <1>1, <1>2, <1>3, <2>1, CausesStay DEF FInv, ToEv
    <2>4. Way => Way' \/ Lost'
      BY <1>1, <1>4, <1>5, <2>1
      DEF Way, EvseOpens, EvseEnters, EvseFails, EvseReceiveFails,
          EvseSocketFails, Goto, TypeOK
    <2> QED
      BY <1>1, <1>2, <1>3, <2>2, <2>3, <2>4, CausesStay DEF FInv, Trail
  <1>6. CASE EvseReceive
    <2>1. /\ pc["EVSE"] = "waiting" /\ secc_udp # <<>>
          /\ secc_udp' = Tail(secc_udp) /\ UNCHANGED network
          /\ client' \in {client, Head(secc_udp).from}
          /\ Wrong("deaf", Senders(Tail(secc_udp)))
      BY <1>6 DEF EvseReceive
    <2>2. ByEv'
      BY <1>1, <2>1, Buffered DEF FInv, ByEv, FromEv
    <2>3. ToEv'
      BY <1>1, <1>2, <1>3, <2>1, CausesStay DEF FInv, ToEv
    <2>4. Head(secc_udp).from.node = "EV"
             => pc'["EVSE"] = "answering" /\ client'.node = "EV"
      <3>1. ASSUME Head(secc_udp).from.node = "EV"
            PROVE  Head(secc_udp).msg = create_SDP_request
        BY <1>1, <2>1, <3>1, Buffered DEF FInv, ByEv, FromEv
      <3> QED
        BY <1>1, <1>6, <3>1, ProperMessages DEF EvseReceive, Goto, TypeOK
    <2>5. Way => Way' \/ Lost'
      BY <1>1, <1>4, <2>1, <2>4, Buffered DEF Way
    <2> QED
      BY <1>1, <1>2, <1>3, <2>2, <2>3, <2>5, CausesStay DEF FInv, Trail
  <1>7. CASE EvseRespond
    <2>1. PICK m : /\ network' = network \cup {Response("EVSE", client, m)}
                   /\ \/ m = EvseAnswer
                      \/ /\ m = create_SDP_response_fails
                         /\ Mishap("noaddress", client.node)
      BY <1>7 DEF EvseRespond, EvseResponds, EvseAnswer
    <2>2. /\ pc["EVSE"] = "answering" /\ secc_udp' = <<>>
          /\ client' = client
      BY <1>7 DEF EvseRespond, EvseResponds
    <2>3. /\ Response("EVSE", client, m).from.node = "EVSE"
          /\ Response("EVSE", client, m).to = client
          /\ Response("EVSE", client, m).msg = m
      BY DEF Response, Socket
    <2>4. ByEv'
      BY <2>1, <2>2, <2>3, Apart DEF FInv, ByEv, FromEv
    <2>5. client.node = "EV" => Answer(m)'
      BY <1>1, <2>1 DEF Answer, Mishap, Wrong, TypeOK, EvseAnswer
    <2>6. ToEv'
      BY <1>1, <1>2, <1>3, <2>1, <2>3, <2>5, CausesStay, Names
      DEF FInv, ToEv
    <2>7. Way => Way'
      BY <2>1, <2>2, <2>3 DEF Way, FInv, ByEv, Asks, Answers, EvSocket
    <2> QED
      BY <1>1, <1>2, <1>3, <2>4, <2>6, <2>7, CausesStay DEF FInv, Trail
  <1> QED
    BY <1>5, <1>6, <1>7 DEF Evse

\* The EV board fails on what it has heard, or because it has heard nothing.
LEMMA EvTrail ==
    ASSUME IInv, FInv, [Next]_vars, Ev \/ EvSocketFails
    PROVE  FInv'
  <1> USE DEF evseVars, evVars, dutVars
  <1>1. /\ TypeOK /\ "EV" \in Evs
        /\ evcc_udp \in Seq(Messages \cup {Empty})
    BY Names DEF IInv, TypeOK
  <1>2. UNCHANGED <<secc_udp, client, heard>> /\ pc'["EVSE"] = pc["EVSE"]
    BY <1>1
    DEF Ev, EvSend, EvRebind, RebindTo, EvReceive, EvReceiveTimesOut, EvParse,
        EvSocketFails, Goto, TypeOK
  <1>3. HeardByEv' = HeardByEv
    BY <1>2 DEF HeardByEv, EvSocket
  <1>4. CASE EvSend
    <2>1. /\ network' = network \cup Requests(EvSocket)
          /\ pc["EV"] = "idle" /\ pc'["EV"] = "sent"
          /\ listens'["EV"] = {1} /\ UNCHANGED <<evcc_udp, faults>>
      BY <1>1, <1>4 DEF EvSend, EvSocket, Goto, TypeOK
    <2>2. \A d \in Requests(EvSocket) :
              /\ d.from = EvSocket /\ d.msg = create_SDP_request
              /\ d.to.node \in {"EVSE"} \cup stations
      BY DEF Requests, Socket
    <2>3. /\ EvSocket.node = "EV" /\ stations \subseteq DutEvses
          /\ \E d \in Requests(EvSocket) : d.to.node = "EVSE"
      <3>1. [from |-> EvSocket, to |-> Socket("EVSE", SDP_port),
             msg |-> create_SDP_request] \in Requests(EvSocket)
        BY DEF Requests
      <3> QED
        BY <1>1, <3>1 DEF EvSocket, Socket, TypeOK
    <2>4. ByEv'
      BY <1>2, <2>1, <2>2, <2>3, Apart DEF FInv, ByEv, FromEv
    <2>5. ToEv'
      BY <1>1, <1>3, <2>1, <2>2, <2>3, CausesStay, Apart DEF FInv, ToEv
    <2>6. Way'
      BY <2>1, <2>2, <2>3 DEF Way, Asks
    <2> QED
      BY <1>3, <2>1, <2>4, <2>5, <2>6
      DEF FInv, Ears, Trail, FailureHasCause
  <1>5. CASE EvRebind \/ EvSocketFails
    <2>1. /\ UNCHANGED <<network, evcc_udp, faults>>
          /\ \/ pc'["EV"] = "quit"
             \/ /\ pc["EV"] = "sent" /\ pc'["EV"] = "receiving"
                /\ listens'["EV"] = listens["EV"]
      BY <1>1, <1>5 DEF EvRebind, RebindTo, EvSocketFails, Goto, TypeOK
    <2>2. ByEv'
      BY <1>2, <2>1 DEF FInv, ByEv, FromEv
    <2>3. ToEv'
      BY <1>1, <1>3, <2>1, CausesStay DEF FInv, ToEv
    <2>4. Way' = Way
      BY <1>2, <2>1 DEF Way
    <2> QED
      BY <1>1, <1>3, <2>1, <2>2, <2>3, <2>4, CausesStay
      DEF FInv, Ears, Trail, FailureHasCause
  <1>6. CASE EvReceive
    <2>1. /\ evcc_udp # <<>> /\ evcc_udp' = Tail(evcc_udp)
          /\ UNCHANGED <<network, faults>>
          /\ pc["EV"] = "receiving" /\ EvParse(Content(Head(evcc_udp)))
      BY <1>6 DEF EvReceive
    <2>2. /\ Head(evcc_udp) = evcc_udp[1] /\ 1 \in 1 .. Len(evcc_udp)
          /\ \A i \in 1 .. Len(Tail(evcc_udp)) :
                /\ Tail(evcc_udp)[i] = evcc_udp[i + 1]
                /\ i + 1 \in 1 .. Len(evcc_udp)
      BY <1>1, <2>1
    <2>3. pc'["EV"] \in {"done", "failed"}
      BY <1>1, <2>1 DEF EvParse, Goto, TypeOK
    <2>4. ByEv'
      BY <1>2, <2>1 DEF FInv, ByEv, FromEv
    <2>5. ToEv'
      BY <1>1, <1>3, <2>1, <2>2, CausesStay DEF FInv, ToEv
    <2>6. ASSUME Quiet, pc'["EV"] = "failed"
          PROVE  HeardByEv /\ "noaddress" \in faults["EV"]
      <3>1. HeardByEv /\ Answer(Head(evcc_udp))
        BY <2>1, <2>2, <2>6 DEF FInv, ToEv
      <3>2. ~ResponseAccepted(Content(Head(evcc_udp)))
        BY <1>1, <2>1, <2>6 DEF EvParse, Goto, TypeOK
      <3> QED
        BY <3>1, <3>2, ProperMessages DEF Answer, Content
    <2>7. FailureHasCause'
      BY <1>3, <2>1, <2>6 DEF FailureHasCause, Quiet, HeardByEv, EvSocket
    <2> QED
      BY <1>3, <2>1, <2>3, <2>4, <2>5, <2>7 DEF FInv, Ears, Trail
  <1>7. CASE EvReceiveTimesOut
    <2>1. /\ evcc_udp = <<>> /\ UNCHANGED <<network, evcc_udp>>
          /\ pc["EV"] = "receiving" /\ EvParse(Zeros)
          /\ EvMayHear => Wrong("late", {"EV"})
      BY <1>7 DEF EvReceiveTimesOut
    <2>2. pc'["EV"] = "failed"
      BY <1>1, <2>1, ProperMessages DEF EvParse, Goto, TypeOK
    <2>3. ByEv'
      BY <1>2, <2>1 DEF FInv, ByEv, FromEv
    <2>4. ToEv'
      BY <1>1, <1>3, <2>1, CausesStay DEF FInv, ToEv
    <2>5. ~HeardByEv
      BY <2>1 DEF FInv, Ears
    <2>6. Way => Lost'
      <3>1. EvSocket.node = "EV"
        BY DEF EvSocket, Socket
      <3>2. Way => EvMayHear
        BY <3>1 DEF Way, EvMayHear, Asks, Answers
      <3>3. Wrong("late", {"EV"}) => Lost'
        BY <1>1 DEF Wrong, Lost, TypeOK
      <3> QED
        BY <2>1, <3>2, <3>3
    <2>7. Quiet' => Lost'
      BY <1>1, <2>1, <2>5, <2>6, CausesStay DEF FInv, Trail
    <2>8. FailureHasCause'
      BY <1>3, <2>5, <2>7 DEF FailureHasCause, Quiet, Lost, HeardByEv,
         EvSocket
    <2> QED
      BY <1>3, <2>2, <2>3, <2>4, <2>5, <2>8 DEF FInv, Ears, Trail
  <1> QED
    BY <1>4, <1>5, <1>6, <1>7 DEF Ev

\* Requests and noise of others: noise is a cause by itself.
LEMMA SendersTrail ==
    ASSUME IInv, FInv, [Next]_vars,
           \/ \E ev \in DutEvs : DutAsks(ev)
           \/ \E s \in Strangers, m \in Noise \cup {Empty} : MakeNoise(s, m)
    PROVE  FInv'
  <1> USE DEF evseVars, evVars, dutVars
  <1>1. TypeOK /\ "EV" \in Evs
    BY Names DEF IInv
  <1>2. /\ UNCHANGED <<pc, secc_udp, client, heard, evcc_udp, SECC, accepted>>
        /\ listens'["EV"] = listens["EV"] /\ network \subseteq network'
    BY <1>1, Apart DEF DutAsks, MakeNoise, TypeOK
  <1>3. HeardByEv' = HeardByEv
    BY <1>2 DEF HeardByEv, EvSocket
  <1>4. /\ ByEv'
        /\ Quiet' => \A d \in network' \ network : d.to.node # "EV"
    <2>1. CASE \E ev \in DutEvs : DutAsks(ev)
      <3>1. PICK ev \in DutEvs :
                network' = network \cup Requests(Socket(ev, tries[ev] + 1))
        BY <2>1 DEF DutAsks
      <3>2. \A d \in Requests(Socket(ev, tries[ev] + 1)) :
                d.from.node = ev /\ d.to.node = "EVSE"
        BY Apart DEF Requests, Socket
      <3> QED
        BY <1>2, <3>1, <3>2, Apart DEF FInv, ByEv, FromEv
    <2>2. CASE \E s \in Strangers, m \in Noise \cup {Empty} : MakeNoise(s, m)
      <3>1. PICK s \in Strangers, m \in Noise \cup {Empty},
                 to \in {Socket("EVSE", SDP_port), Socket("EV", 1)} :
                /\ network' = network \cup
                    {[from |-> Socket(s, SDP_port), to |-> to, msg |-> m]}
                /\ Mishap("noise", to.node)
        BY <2>2 DEF MakeNoise
      <3>2. Socket(s, SDP_port).node = s /\ s # "EV"
        BY Apart, Names DEF Socket
      <3>3. to.node = "EV" => ~Quiet'
        BY <1>1, <3>1 DEF Mishap, Wrong, Quiet, TypeOK
      <3> QED
        BY <1>2, <3>1, <3>2, <3>3 DEF FInv, ByEv, FromEv
    <2> QED
      BY <2>1, <2>2
  <1>5. ToEv'
    BY <1>1, <1>2, <1>3, <1>4, CausesStay DEF FInv, ToEv
  <1>6. Way => Way'
    BY <1>2 DEF Way
  <1> QED
    BY <1>1, <1>2, <1>3, <1>4, <1>5, <1>6, CausesStay
    DEF FInv, Ears, Trail, FailureHasCause, Quiet, Lost, HeardByEv, EvSocket

\* A datagram that arrives or is lost: the request becomes one in the EVSE
\* board's buffer, the answer one in the EV board's, or there is a cause.
LEMMA NetworkTrail ==
    ASSUME IInv, FInv, [Next]_vars,
           NEW d \in network, Deliver(d) \/ ToStranger(d) \/ Lose(d)
    PROVE  FInv'
  <1> USE DEF evseVars, evVars, dutVars, Deliver
  <1>1. /\ TypeOK /\ "EV" \in Evs /\ d \in Datagrams
        /\ secc_udp \in Seq(Datagrams)
        /\ evcc_udp \in Seq(Messages \cup {Empty})
        /\ d.msg \in Messages \cup {Empty}
    BY Names DEF IInv, TypeOK, Datagrams
  <1>2. UNCHANGED <<pc, client, listens, SECC, accepted>>
    BY DEF ToEvseBoard, ToDutStation, ToEvBoard, ToDutVehicle, ToStranger,
           Lose
  <1>3. /\ network \ {d} \subseteq network'
        /\ \A e \in network' :
              \/ e \in network
              \/ /\ e = Response(d.to.node, d.from, DutAnswer(d.to.node))
                 /\ d.to.node \in DutEvses
    BY DEF ToEvseBoard, ToDutStation, ToEvBoard, ToDutVehicle, ToStranger,
           Lose, Arrives, DutAnswer
  <1>4. \/ secc_udp' = secc_udp
        \/ secc_udp' = Append(secc_udp, d)
    BY DEF ToEvseBoard, ToDutStation, ToEvBoard, ToDutVehicle, ToStranger,
           Lose
  <1>5. ByEv'
    <2>1. \A e \in network' : FromEv(e)
      BY <1>3, Apart DEF FInv, ByEv, FromEv, Response, Socket
    <2>2. \A i \in 1 .. Len(secc_udp') : FromEv(secc_udp'[i])
      BY <1>1, <1>4, Buffered DEF FInv, ByEv
    <2> QED
      BY <1>2, <2>1, <2>2 DEF FInv, ByEv
  <1>9. ASSUME NEW fault \in {"loss", "rebind", "deaf"}, NEW nodes,
               Wrong(fault, nodes), "EV" \in nodes
        PROVE  Lost'
    BY <1>1, <1>9 DEF Wrong, Lost, TypeOK
  <1>6. Answers(d) => d.to.node = "EV" /\ d.to.port = 1
    BY DEF Answers, EvSocket, Socket
  <1>7. CASE ToEvBoard(d) /\ pc["EV"] = "receiving"
             /\ d.to.port \in listens["EV"]
    <2>1. /\ evcc_udp' = Append(evcc_udp, d.msg)
          /\ heard' = IF d.from.node \in Evses
                      THEN heard \cup {<<d.from.node, d.to>>} ELSE heard
          /\ UNCHANGED <<secc_udp, faults>> /\ d.to.node = "EV"
      BY <1>7 DEF ToEvBoard
    <2>2. d.to = EvSocket
      <3>1. d.to \in Sockets /\ d.to.port = 1
        BY <1>1, <1>7 DEF Datagrams, IInv, InTheBuffer
      <3> QED
        BY <2>1, <3>1 DEF EvSocket, Socket, Sockets
    <2>3. /\ evcc_udp' # <<>>
          /\ \A i \in 1 .. Len(evcc_udp') :
                \/ evcc_udp'[i] = d.msg
                \/ i \in 1 .. Len(evcc_udp) /\ evcc_udp'[i] = evcc_udp[i]
      BY <1>1, <2>1
    <2>4. d.from.node \in Evses => HeardByEv'
      BY <2>1, <2>2 DEF HeardByEv, EvSocket
    <2>5. Quiet => d.from.node \in Evses /\ Answer(d.msg)
      BY <2>1 DEF FInv, ToEv
    <2>6. ToEv'
      <3> SUFFICES ASSUME Quiet' PROVE ToEv'
        BY DEF ToEv
      <3>1. ASSUME NEW e \in network', e.to.node = "EV"
            PROVE  e.from.node \in Evses /\ Answer(e.msg)'
        <4>1. CASE e \in network
          BY <3>1, <4>1, CausesStay, <1>1 DEF FInv, ToEv
        <4>2. CASE e \notin network
          BY <1>3, <2>1, <4>2, Apart
        <4> QED
          BY <4>1, <4>2
      <3>2. ASSUME NEW i \in 1 .. Len(evcc_udp')
            PROVE  Answer(evcc_udp[i])'
        <4>1. PICK m : m = evcc_udp'[i]
          OBVIOUS
        <4>2. Answer(m)
          BY <1>1, <2>3, <2>5, <4>1, CausesStay DEF FInv, ToEv
        <4>3. Answer(m)'
          BY <1>1, <4>2, CausesStay
        <4> QED
          BY <4>1, <4>3 DEF Answer
      <3> QED
        BY <1>1, <2>4, <2>5, <3>1, <3>2, CausesStay DEF ToEv
    <2>7. Trail'
      BY <1>1, <1>2, <2>4, <2>5, CausesStay DEF Trail
    <2> QED
      BY <1>2, <1>5, <1>7, <2>3, <2>6, <2>7
      DEF FInv, Ears, FailureHasCause
  <1>8. CASE ~(ToEvBoard(d) /\ pc["EV"] = "receiving"
               /\ d.to.port \in listens["EV"])
    <2>1. evcc_udp' = evcc_udp
      BY <1>8
      DEF ToEvseBoard, ToDutStation, ToEvBoard, ToDutVehicle, ToStranger,
          Lose
    <2>2. \/ heard' = heard
          \/ d.to.node # "EV" /\ heard' = heard \cup {<<d.from.node, d.to>>}
      BY <1>8, Apart
      DEF ToEvseBoard, ToDutStation, ToEvBoard, ToDutVehicle, ToStranger,
          Lose
    <2>3. HeardByEv' = HeardByEv
      <3>1. EvSocket.node = "EV"
        BY DEF EvSocket, Socket
      <3>2. \A s : <<s, EvSocket>> \in heard' <=> <<s, EvSocket>> \in heard
        BY <2>2, <3>1
      <3> QED
        BY <3>2 DEF HeardByEv, EvSocket
    <2>4. ASSUME NEW e \in network', e \notin network, e.to.node = "EV"
          PROVE  e.from.node \in Evses /\ Answer(e.msg)
      <3>1. /\ e = Response(d.to.node, d.from, DutAnswer(d.to.node))
            /\ d.to.node \in DutEvses
        BY <1>3, <2>4
      <3> QED
        BY <3>1, Apart DEF Response, Socket, Answer
    <2>5. ToEv'
      BY <1>1, <2>1, <2>3, <2>4, CausesStay DEF FInv, ToEv
    <2>6. pc["EV"] \in {"sent", "receiving"} /\ Asks(d) => Way' \/ Lost'
      <3> SUFFICES ASSUME Asks(d) PROVE Way' \/ Lost'
        OBVIOUS
      <3>1. ~ (ToDutStation(d) \/ ToEvBoard(d) \/ ToDutVehicle(d)
               \/ ToStranger(d))
        BY Apart, Names
        DEF Asks, ToDutStation, ToEvBoard, ToDutVehicle, ToStranger
      <3>2. CASE ToEvseBoard(d) /\ pc["EVSE"] \in {"open", "waiting"}
        BY <1>1, <1>2, <3>2, Buffered DEF Asks, ToEvseBoard, Way
      <3>3. CASE ToEvseBoard(d) /\ pc["EVSE"] \notin {"open", "waiting"}
        BY <1>9, <3>3 DEF Asks, ToEvseBoard
      <3>4. CASE Lose(d)
        BY <1>1, <3>4 DEF Asks, Lose, Mishap, Wrong, Lost, TypeOK
      <3> QED
        BY <3>1, <3>2, <3>3, <3>4
    <2>7. pc["EV"] \in {"sent", "receiving"} /\ Answers(d) => Lost'
      <3> SUFFICES ASSUME pc["EV"] \in {"sent", "receiving"}, Answers(d)
                   PROVE  Lost'
        OBVIOUS
      <3>1. ~ (ToEvseBoard(d) \/ ToDutStation(d) \/ ToDutVehicle(d)
               \/ ToStranger(d))
        BY <1>6, Apart, Names
        DEF ToEvseBoard, ToDutStation, ToDutVehicle, ToStranger
      <3>2. CASE ToEvBoard(d)
        <4>1. pc["EV"] = "sent"
          BY <1>6, <1>8, <3>2 DEF FInv, Ears
        <4> QED
          BY <1>9, <3>2, <4>1 DEF ToEvBoard
      <3>3. CASE Lose(d)
        BY <1>1, <1>6, <3>3, Apart
        DEF Answers, Lose, Mishap, Wrong, Lost, TypeOK
      <3> QED
        BY <3>1, <3>2, <3>3
    <2>8. Way => Way' \/ Asks(d) \/ Answers(d)
      <3>1. Senders(secc_udp) \subseteq Senders(secc_udp')
        BY <1>1, <1>4, Buffered
      <3>2. ASSUME NEW e \in network, Asks(e) \/ Answers(e), e # d
            PROVE  Way'
        BY <1>3, <3>2 DEF Way
      <3> QED
        BY <1>2, <3>1, <3>2 DEF Way
    <2>9. Trail'
      BY <1>1, <1>2, <2>3, <2>6, <2>7, <2>8, CausesStay DEF FInv, Trail
    <2>10. FailureHasCause'
      BY <1>1, <1>2, <2>3, CausesStay
      DEF FInv, FailureHasCause, Quiet, Lost, HeardByEv, EvSocket
    <2> QED
      BY <1>2, <1>5, <2>1, <2>3, <2>5, <2>9, <2>10 DEF FInv, Ears
  <1> QED
    BY <1>7, <1>8

LEMMA InitTrail == Init => FInv
  <1> SUFFICES ASSUME Init PROVE FInv
    OBVIOUS
  <1>1. Len(secc_udp) = 0 /\ Len(evcc_udp) = 0
    BY DEF Init
  <1> QED
    BY <1>1, Apart
    DEF Init, FInv, ByEv, FromEv, ToEv, Ears, HeardByEv, Trail,
        FailureHasCause

LEMMA NextTrail == IInv /\ FInv /\ [Next]_vars => FInv'
  <1> SUFFICES ASSUME IInv, FInv, [Next]_vars PROVE FInv'
    OBVIOUS
  <1>1. CASE UNCHANGED vars
    BY <1>1
    DEF vars, evseVars, evVars, dutVars, FInv, ByEv, FromEv, ToEv, Answer,
        Ears, HeardByEv, Trail, Way, Lost, Quiet, FailureHasCause,
        EvseAnswer, DutAnswer, EvSocket, Senders
  <1> QED
    BY <1>1, EvseTrail, EvTrail, SendersTrail, NetworkTrail DEF Next

\* Discovery on the EV board fails for a reason only: noise, a station without
\* an address, or its one request or the answer to it lost, late, or met by a
\* socket that is gone (sdp.cpp:403, 417).
THEOREM FailuresExplained == Spec => []FailureHasCause
  <1>1. FInv => FailureHasCause
    BY DEF FInv
  <1> QED
    BY <1>1, Invariant, InitTrail, NextTrail, PTL DEF Spec
=============================================================================
