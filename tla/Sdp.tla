-------------------------------- MODULE Sdp ---------------------------------
(***************************************************************************)
(* SECC discovery over UDP: perform_SDP on the EV board, which asks once   *)
(* and waits ten seconds, and on the EVSE board, which answers once and    *)
(* waits without limit.  On the line with them are devices under test:     *)
(* vehicles that ask again, each time from another socket, and stations    *)
(* that answer.  Datagrams are lost and overtake each other, and messages  *)
(* of other protocols reach the same ports.                                *)
(***************************************************************************)
EXTENDS SdpMessage, Sequences

CONSTANTS
    DutEvs,         \* vehicles under test
    DutEvses,       \* stations under test
    TcpPort,        \* per station: the port its TCP server listens on
    Noise,          \* messages of others, none with a proper SDP header
    Empty,          \* a datagram without a byte
    MaxTries,       \* bound: requests of each vehicle under test
    MaxMishaps      \* bound: lost datagrams, noise and missing addresses

Evs   == {"EV"} \cup DutEvs
Evses == {"EVSE"} \cup DutEvses
Strangers == Addresses \ (Evs \cup Evses)

ASSUME SdpAssumption ==
    /\ Evs \cup Evses \subseteq Addresses /\ Evs \cap Evses = {}
    /\ NoAddress \notin Addresses
    /\ "EV" \notin DutEvs /\ "EVSE" \notin DutEvses
    /\ TcpPort \in [Evses -> UInt16]
    /\ Empty \notin Messages
    /\ Noise \subseteq Messages
    /\ \A m \in Noise : /\ ~ProperHeader(m, SDP_REQUEST_TYPE, 2)
                        /\ ~ProperHeader(m, SDP_RESPONSE_TYPE, 20)
    /\ MaxTries \in Nat \ {0} /\ MaxMishaps \in Nat

\* The port of SDP servers; a vehicle's n-th socket has the port n.
SDP_port == 0

Ports == 0 .. MaxTries

Socket(node, port) == [node |-> node, port |-> port]

Sockets == [node : Addresses, port : Ports]

Datagrams == [from : Sockets, to : Sockets, msg : Messages \cup {Empty}]

\* What v2gtp_inStream, which is received into once, holds afterwards.
Content(m) == IF m = Empty THEN Zeros ELSE m

\* What is under way only because of others.
Nobody == Socket("EVSE", SDP_port)

EvSteps   == {"idle", "sent", "receiving", "done", "failed", "quit"}
EvseSteps == {"closed", "open", "waiting", "answering", "done", "failed",
              "quit"}

VARIABLES
    pc,         \* per board: its next step
    stations,   \* the stations under test that are on the line
    secc_udp,   \* EVSE board: datagrams its server socket has buffered
    client,     \* EVSE board: udp_client_IP and client_port
    evcc_udp,   \* EV board: messages its server socket has buffered
    SECC,       \* EV board: ipv6_str and SECC_port
    network,    \* datagrams under way
    tries,      \* per vehicle: requests sent
    listens,    \* per vehicle: its ports that are open
    accepted,   \* history: the message the EV board took
    heard,      \* history: which station's answer has reached which socket
    faults,     \* history: per vehicle, what went wrong for it
    mishaps     \* bound: how often the environment did wrong

evseVars == <<secc_udp, client>>
evVars   == <<evcc_udp, SECC, accepted>>
dutVars  == <<stations, tries, listens>>

vars == <<pc, evseVars, evVars, network, dutVars, heard, faults, mishaps>>

Goto(b, step) == pc' = [pc EXCEPT ![b] = step]

\* Something went wrong for these nodes, as far as they are vehicles.
Wrong(fault, nodes) ==
    faults' = [v \in Evs |-> IF v \in nodes THEN faults[v] \cup {fault}
                                            ELSE faults[v]]

Mishap(fault, node) ==
    /\ mishaps < MaxMishaps
    /\ mishaps' = mishaps + 1
    /\ Wrong(fault, {node})

Senders(queue) == {queue[i].from.node : i \in 1 .. Len(queue)}

Endpoint(station) == [addr |-> station, port |-> TcpPort[station]]

\* The multicast request of a vehicle's socket, one datagram per station;
\* what devices under test say to each other is left out.
Requests(socket) ==
    {[from |-> socket, to |-> Socket(s, SDP_port), msg |-> create_SDP_request] :
        s \in {"EVSE"} \cup (IF socket.node = "EV" THEN stations ELSE {})}

Response(station, socket, msg) ==
    [from |-> Socket(station, SDP_port), to |-> socket, msg |-> msg]

-----------------------------------------------------------------------------
(* The EVSE board.                                                         *)

\* UNPLUGGED_WAIT: secc_udp.create_server, long before perform_SDP.
EvseOpens ==
    /\ pc["EVSE"] = "closed"
    /\ Goto("EVSE", "open")
    /\ UNCHANGED <<evseVars, evVars, network, dutVars, heard, faults, mishaps>>

\* PLUGGED_IN is over: SLAC has matched.
EvseEnters ==
    /\ pc["EVSE"] = "open"
    /\ Goto("EVSE", "waiting")
    /\ UNCHANGED <<evseVars, evVars, network, dutVars, heard, faults, mishaps>>

\* receive, without a timeout, and parse_SDP_message.  Of an empty datagram
\* the length is 0, and perform_SDP is over at once, as a success.
EvseReceive ==
    /\ pc["EVSE"] = "waiting"
    /\ secc_udp # <<>>
    /\ LET d     == Head(secc_udp)
           valid == d.msg # Empty /\ RequestAccepted(d.msg)
       IN  /\ client' = IF valid THEN d.from ELSE client
           /\ Goto("EVSE", IF d.msg = Empty THEN "done"
                           ELSE IF valid THEN "answering" ELSE "failed")
    /\ secc_udp' = Tail(secc_udp)
    /\ Wrong("deaf", Senders(Tail(secc_udp)))
    /\ UNCHANGED <<evVars, network, dutVars, heard, mishaps>>

\* recvfrom returns -1, which receive() returns as a length and the caller
\* takes for a message: the parser looks at a buffer of zeros.
EvseReceiveFails ==
    /\ pc["EVSE"] = "waiting"
    /\ ~RequestAccepted(Zeros)
    /\ Goto("EVSE", "failed")
    /\ Wrong("deaf", Senders(secc_udp))
    /\ UNCHANGED <<evseVars, evVars, network, dutVars, heard, mishaps>>

\* create_sender closes the server with what it has buffered; whatever
\* create_SDP_response has found out, the response is sent.
EvseResponds(to, next) ==
    /\ pc["EVSE"] = "answering"
    /\ Goto("EVSE", next)
    /\ secc_udp' = <<>>
    /\ \/ /\ network' = network \cup
                {Response("EVSE", to,
                          create_SDP_response("EVSE", TcpPort["EVSE"]))}
          /\ UNCHANGED <<faults, mishaps>>
       \/ /\ network' = network \cup
                {Response("EVSE", to, create_SDP_response_fails)}
          /\ Mishap("noaddress", to.node)
    /\ UNCHANGED <<client, evVars, dutVars, heard>>

\* (A slip for the runs to find: the answer goes to the port of SDP servers.)
EvseRespondToServers == EvseResponds(Socket(client.node, SDP_port), "done")

\* (A slip for the runs to find: it serves whoever asks next.)
EvseServesOn == EvseResponds(client, "waiting")

EvseRespond == EvseResponds(client, "done")

\* create_server or create_sender fails: exit(0).
EvseSocketFails ==
    /\ pc["EVSE"] \in {"closed", "answering"}
    /\ Goto("EVSE", "quit")
    /\ Wrong("deaf", Senders(secc_udp) \cup {client.node})
    /\ UNCHANGED <<evseVars, evVars, network, dutVars, heard, mishaps>>

-----------------------------------------------------------------------------
(* The EV board.                                                           *)

\* create_sender, send.
EvSend ==
    /\ pc["EV"] = "idle"
    /\ Goto("EV", "sent")
    /\ network' = network \cup Requests(Socket("EV", 1))
    /\ tries' = [tries EXCEPT !["EV"] = 1]
    /\ listens' = [listens EXCEPT !["EV"] = {1}]
    /\ UNCHANGED <<evseVars, evVars, stations, heard, faults, mishaps>>

RebindTo(ports) ==
    /\ pc["EV"] = "sent"
    /\ Goto("EV", "receiving")
    /\ listens' = [listens EXCEPT !["EV"] = ports]
    /\ UNCHANGED <<evseVars, evVars, network, stations, tries, heard, faults,
                   mishaps>>

\* (A slip for the runs to find: the server gets a port of its own.)
EvRebindElsewhere == RebindTo({0})

\* create_server closes the socket the request went out from and binds its
\* port again.
EvRebind == RebindTo(listens["EV"])

EvSocketFails ==
    /\ pc["EV"] \in {"idle", "sent"}
    /\ Goto("EV", "quit")
    /\ listens' = [listens EXCEPT !["EV"] = {}]
    /\ UNCHANGED <<evseVars, evVars, network, stations, tries, heard, faults,
                   mishaps>>

\* parse_SDP_message on message m, and what perform_SDP makes of it.
EvParse(m) ==
    IF ResponseAccepted(m)
    THEN /\ Goto("EV", "done")
         /\ SECC' = [addr |-> m.addr, port |-> SECCPort(m)]
         /\ accepted' = m
    ELSE Goto("EV", "failed") /\ UNCHANGED <<SECC, accepted>>

EvReceive ==
    /\ pc["EV"] = "receiving"
    /\ evcc_udp # <<>>
    /\ EvParse(Content(Head(evcc_udp)))
    /\ evcc_udp' = Tail(evcc_udp)
    /\ UNCHANGED <<evseVars, network, dutVars, heard, faults, mishaps>>

\* The EV board's request or its answer is still on its way.
EvMayHear ==
    \/ \E d \in network : "EV" \in {d.from.node, d.to.node}
    \/ pc["EVSE"] \in {"open", "waiting"} /\ "EV" \in Senders(secc_udp)
    \/ pc["EVSE"] = "answering" /\ client.node = "EV"

\* (A slip for the runs to find: no limit on the wait.)
EvReceiveWaits == FALSE

\* (A slip for the runs to find: the request is sent again.)
EvAsksAgain ==
    /\ pc["EV"] = "receiving"
    /\ evcc_udp = <<>>
    /\ tries' = [tries EXCEPT !["EV"] = @ + 1]
    /\ network' = network \cup Requests(Socket("EV", 1))
    /\ UNCHANGED <<pc, evseVars, evVars, stations, listens, heard, faults,
                   mishaps>>

\* Ten seconds are over; receive() returns -1 and the parser looks at a
\* buffer of zeros.
EvReceiveTimesOut ==
    /\ pc["EV"] = "receiving"
    /\ evcc_udp = <<>>
    /\ EvParse(Zeros)
    /\ IF EvMayHear THEN Wrong("late", {"EV"}) ELSE UNCHANGED faults
    /\ UNCHANGED <<evseVars, evcc_udp, network, dutVars, heard, mishaps>>

-----------------------------------------------------------------------------
(* The devices under test.                                                 *)

\* A vehicle asks, or asks again; it may close the sockets it used before.
DutAsks(ev) ==
    /\ tries[ev] < MaxTries
    /\ tries' = [tries EXCEPT ![ev] = @ + 1]
    /\ network' = network \cup Requests(Socket(ev, tries[ev] + 1))
    /\ \E kept \in {listens[ev], {}} :
          listens' = [listens EXCEPT ![ev] = kept \cup {tries[ev] + 1}]
    /\ UNCHANGED <<pc, evseVars, evVars, stations, heard, faults, mishaps>>

-----------------------------------------------------------------------------
(* The network.                                                            *)

Arrives(d) == d \in network /\ network' = network \ {d}

\* The EVSE board's server buffers from UNPLUGGED_WAIT on; nobody reads it
\* once perform_SDP has taken a message, nor the socket bound after it.
ToEvseBoard(d) ==
    /\ Arrives(d)
    /\ d.to.node = "EVSE"
    /\ IF pc["EVSE"] \in {"open", "waiting"}
       THEN secc_udp' = Append(secc_udp, d) /\ UNCHANGED faults
       ELSE UNCHANGED secc_udp /\ Wrong("deaf", {d.from.node})
    /\ UNCHANGED <<pc, client, evVars, dutVars, heard, mishaps>>

\* A station under test answers every request that is one.
ToDutStation(d) ==
    /\ d \in network
    /\ d.to.node \in DutEvses
    /\ network' = (network \ {d}) \cup
          (IF ProperHeader(d.msg, SDP_REQUEST_TYPE, 2)
           THEN {Response(d.to.node, d.from,
                          DutResponse(d.to.node, TcpPort[d.to.node]))}
           ELSE {})
    /\ UNCHANGED <<pc, evseVars, evVars, dutVars, heard, faults, mishaps>>

\* A datagram for the EV board is buffered; before the socket is bound again
\* it is lost with the old one.
ToEvBoard(d) ==
    /\ Arrives(d)
    /\ d.to.node = "EV"
    /\ LET open == pc["EV"] = "receiving" /\ d.to.port \in listens["EV"]
       IN  /\ evcc_udp' = IF open THEN Append(evcc_udp, d.msg) ELSE evcc_udp
           /\ heard' = IF open /\ d.from.node \in Evses
                       THEN heard \cup {<<d.from.node, d.to>>} ELSE heard
    /\ IF pc["EV"] = "sent" THEN Wrong("rebind", {"EV"}) ELSE UNCHANGED faults
    /\ UNCHANGED <<pc, evseVars, SECC, accepted, dutVars, mishaps>>

ToDutVehicle(d) ==
    /\ Arrives(d)
    /\ d.to.node \in DutEvs
    /\ heard' = IF d.to.port \in listens[d.to.node]
                THEN heard \cup {<<d.from.node, d.to>>} ELSE heard
    /\ UNCHANGED <<pc, evseVars, evVars, dutVars, faults, mishaps>>

ToStranger(d) ==
    /\ Arrives(d)
    /\ d.to.node \in Strangers
    /\ UNCHANGED <<pc, evseVars, evVars, dutVars, heard, faults, mishaps>>

Lose(d) ==
    /\ Arrives(d)
    /\ Mishap("loss", IF d.from.node \in Evs THEN d.from.node ELSE d.to.node)
    /\ UNCHANGED <<pc, evseVars, evVars, dutVars, heard>>

\* Somebody else's message for either board.
MakeNoise(stranger, msg) ==
    /\ \E to \in {Socket("EVSE", SDP_port), Socket("EV", 1)} :
          /\ network' = network \cup
                {[from |-> Socket(stranger, SDP_port), to |-> to, msg |-> msg]}
          /\ Mishap("noise", to.node)
    /\ UNCHANGED <<pc, evseVars, evVars, dutVars, heard>>

-----------------------------------------------------------------------------

Init ==
    /\ pc = [EV |-> "idle", EVSE |-> "closed"]
    /\ secc_udp = <<>>
    /\ client = Nobody
    /\ evcc_udp = <<>>
    /\ SECC = [addr |-> NoAddress, port |-> 0]
    /\ network = {}
    /\ stations \in SUBSET DutEvses
    /\ tries = [ev \in Evs |-> 0]
    /\ listens = [ev \in Evs |-> {}]
    /\ accepted = Zeros
    /\ heard = {}
    /\ faults = [v \in Evs |-> {}]
    /\ mishaps = 0

Evse == EvseOpens \/ EvseEnters \/ EvseReceive \/ EvseRespond

EvseFails == EvseReceiveFails \/ EvseSocketFails

Ev == EvSend \/ EvRebind \/ EvReceive \/ EvReceiveTimesOut

Deliver(d) ==
    ToEvseBoard(d) \/ ToDutStation(d) \/ ToEvBoard(d) \/ ToDutVehicle(d)

Next ==
    \/ Evse \/ EvseFails
    \/ Ev \/ EvSocketFails
    \/ \E ev \in DutEvs : DutAsks(ev)
    \/ \E d \in network : Deliver(d) \/ ToStranger(d) \/ Lose(d)
    \/ \E s \in Strangers, m \in Noise \cup {Empty} : MakeNoise(s, m)

\* Inside perform_SDP each board runs on, and the ten seconds of the EV board
\* pass.  Nothing obliges a vehicle to ask, a board to get as far as
\* perform_SDP, or the network to deliver.
Fairness ==
    /\ WF_vars(EvRebind \/ EvReceive \/ EvReceiveTimesOut)
    /\ WF_vars(EvseReceive)
    /\ WF_vars(EvseRespond)

Spec == Init /\ [][Next]_vars /\ Fairness

-----------------------------------------------------------------------------

TypeOK ==
    /\ pc \in [{"EV", "EVSE"} -> EvSteps \cup EvseSteps]
    /\ pc["EV"] \in EvSteps /\ pc["EVSE"] \in EvseSteps
    /\ secc_udp \in Seq(Datagrams)
    /\ client \in Sockets
    /\ evcc_udp \in Seq(Messages \cup {Empty})
    /\ SECC \in [addr : Addresses \cup {NoAddress}, port : UInt16]
    /\ network \subseteq Datagrams
    /\ tries \in [Evs -> Ports] /\ tries["EV"] <= 1
    /\ listens \in [Evs -> SUBSET Ports]
    /\ accepted \in Messages
    /\ heard \subseteq Addresses \X Sockets
    /\ stations \subseteq DutEvses
    /\ faults \in [Evs -> SUBSET {"loss", "noise", "noaddress", "rebind",
                                  "late", "deaf"}]
    /\ mishaps \in 0 .. MaxMishaps

\* The vehicle that connects to what discovery gave it finds the TCP server
\* of the station that answered, unless the parser let a malformed message
\* through (sdp.cpp:307: the port's bytes; sdp.cpp:242: the header).
EndpointIsServed ==
    pc["EV"] = "done" =>
        (\E s \in Evses : SECC = Endpoint(s)) \/ Slack(accepted)

\* The EVSE board answers once and never hears again: the vehicle it has
\* answered has the answer, unless it was lost or the vehicle has closed the
\* socket it asked from (sdp.cpp:377).
AnswerReachesVehicle ==
    /\ pc["EVSE"] = "done"
    /\ client.node \in DutEvs
    /\ \A d \in network : d.from.node # "EVSE"
    => \/ <<"EVSE", client>> \in heard
       \/ "loss" \in faults[client.node]
       \/ client.port \notin listens[client.node]

\* The EV board asks once: when discovery fails although a station's answer
\* has reached it, something else came first or the station had no address;
\* when none has, one of the datagrams was lost, late, came while the port
\* was being bound again, or the request met a board that no longer reads
\* (sdp.cpp:403, 417).
FailureHasCause ==
    pc["EV"] = "failed" =>
        \/ "noise" \in faults["EV"]
        \/ IF \E s \in Evses : <<s, Socket("EV", 1)>> \in heard
           THEN "noaddress" \in faults["EV"]
           ELSE faults["EV"] \cap {"loss", "late", "rebind", "deaf"} # {}

\* Two boards on one line agree: if the vehicle's board believes it has found
\* the EVSE board, that board has served it and nobody else (sdp.cpp:384).
BoardsAgree ==
    pc["EV"] = "done" /\ SECC = Endpoint("EVSE") /\ ~Slack(accepted) =>
        pc["EVSE"] = "done" /\ client = Socket("EV", 1)

\* Discovery on the EV board comes to an end, whoever answers (sdp.cpp:408).
EvEnds == pc["EV"] = "sent" ~> pc["EV"] \in {"done", "failed", "quit"}
=============================================================================
