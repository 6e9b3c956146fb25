-------------------------------- MODULE Relay --------------------------------
(***************************************************************************)
(* Remote mode: the relay of V2G messages between the EV under test and    *)
(* the EVSE under test through the two boards.                             *)
(*                                                                         *)
(*   EV DUT <-TCP-> EVSE board <-MQTT broker-> EV board <-TCP-> EVSE DUT   *)
(*                                                                         *)
(* On each board two threads share rth_data_received and rth_datapacket    *)
(* without a lock: the MQTT thread that runs handle_message (mqtt.cpp) and *)
(* the relay thread, CServer::task on the EVSE board and CClient::task on  *)
(* the EV board.  Boards are named by config.device_type.                  *)
(*                                                                         *)
(* A byte stream or a packet is a sequence of pieces of V2G messages: a    *)
(* message travels whole or, when the network stack segments it, as a head *)
(* and a tail.                                                             *)
(***************************************************************************)
EXTENDS Naturals, Sequences

CONSTANTS
    MaxRequests,    \* bound: requests the EV DUT sends in a behaviour
    Mishaps,        \* what the environment may do wrong in a run
    MaxMishaps      \* bound: how often it may

ASSUME RelayAssumption ==
    /\ MaxRequests \in Nat
    /\ MaxMishaps \in Nat
    /\ Mishaps \subseteq {"drop", "loss", "split", "exit"}

Boards == {"EV", "EVSE"}

Other(b) == IF b = "EV" THEN "EVSE" ELSE "EV"

Parts == {"whole", "head", "tail", "junk"}

Piece == [id : Nat, part : Parts]

Whole(n) == <<[id |-> n, part |-> "whole"]>>
HeadOf(n) == <<[id |-> n, part |-> "head"]>>
TailOf(n) == <<[id |-> n, part |-> "tail"]>>

\* What a reader finds in rth_datapacket while it is being assigned: the
\* string's old storage is released before its new contents are in place.
Torn == <<[id |-> 0, part |-> "junk"]>>

VARIABLES
    rth_data_received,  \* per board: the flag the MQTT thread raises
    rth_datapacket,     \* per board: the packet it announces
    callback,           \* per board: how far handle_message has got
    message,            \* per board: the message it is handling
    topic,              \* per board: published to it, not yet delivered
    pc,                 \* per board: the relay thread's next step
    buffer,             \* per board: the relay thread's local buffer
    link,               \* per board: its TCP connection to its DUT
    toBoard, toDut,     \* per board: bytes in flight on that connection
    owed,               \* per board: tail its DUT has still to write
    asked,              \* EV DUT: requests sent so far
    seen,               \* EVSE DUT: requests served, in order
    answers,            \* EV DUT: per request, the one its answer belongs to
                        \* (0: it gave up waiting)
    fresh,              \* history, per board: packet raised and not yet read
    faults,             \* history: everything that went wrong so far
    mishaps             \* history: how many of those the environment did

mailVars   == <<rth_data_received, rth_datapacket, callback, message>>
threadVars == <<pc, buffer>>
linkVars   == <<link, toBoard, toDut, owed>>
dutVars    == <<asked, seen, answers>>
histVars   == <<fresh, faults, mishaps>>

vars == <<mailVars, topic, threadVars, linkVars, dutVars, histVars>>

\* The EV DUT has a request outstanding.
waiting == Len(answers) < asked

\* Its connection ends: it stops waiting.
GiveUp(b) == IF b = "EVSE" /\ waiting THEN Append(answers, 0) ELSE answers

\* The environment does something wrong: at most MaxMishaps times.
Mishap(kind) ==
    /\ kind \in Mishaps
    /\ mishaps < MaxMishaps
    /\ mishaps' = mishaps + 1
    /\ faults' = faults \union {kind}

-----------------------------------------------------------------------------
(* The MQTT thread of board b: handle_message.  The flag is raised before  *)
(* the packet it announces is stored.                                      *)

RaiseFlag(b) ==
    /\ callback[b] = "idle"
    /\ pc[b] # "exited"
    /\ topic[b] # <<>>
    /\ message' = [message EXCEPT ![b] = Head(topic[b])]
    /\ topic' = [topic EXCEPT ![b] = Tail(@)]
    /\ rth_data_received' = [rth_data_received EXCEPT ![b] = TRUE]
    /\ callback' = [callback EXCEPT ![b] = "flagged"]
    /\ fresh' = [fresh EXCEPT ![b] = TRUE]
    /\ faults' = IF fresh[b] THEN faults \union {"overrun"} ELSE faults
    /\ UNCHANGED <<rth_datapacket, threadVars, linkVars, dutVars, mishaps>>

ReleasePacket(b) ==
    /\ callback[b] = "flagged"
    /\ callback' = [callback EXCEPT ![b] = "assigning"]
    /\ rth_datapacket' = [rth_datapacket EXCEPT ![b] = Torn]
    /\ UNCHANGED <<rth_data_received, message, topic, threadVars, linkVars,
                   dutVars, histVars>>

StorePacket(b) ==
    /\ callback[b] = "assigning"
    /\ callback' = [callback EXCEPT ![b] = "idle"]
    /\ rth_datapacket' = [rth_datapacket EXCEPT ![b] = message[b]]
    /\ UNCHANGED <<rth_data_received, message, topic, threadVars, linkVars,
                   dutVars, histVars>>

-----------------------------------------------------------------------------
(* The steps the two relay threads have in common.  b is the board, next   *)
(* the step that follows.                                                  *)

\* if (rth_data_received)
Poll(b, next) ==
    /\ pc[b] = "poll"
    /\ rth_data_received[b]
    /\ pc' = [pc EXCEPT ![b] = next]
    /\ UNCHANGED <<mailVars, topic, buffer, linkVars, dutVars, histVars>>

\* Reads rth_datapacket without holding the MQTT thread off.
Convert(b, next) ==
    /\ pc[b] = "convert"
    /\ pc' = [pc EXCEPT ![b] = next]
    /\ buffer' = [buffer EXCEPT ![b] = rth_datapacket[b]]
    /\ IF callback[b] = "idle"
       THEN /\ fresh' = [fresh EXCEPT ![b] = FALSE]
            /\ UNCHANGED faults
       ELSE /\ faults' = faults \union {"tear"}
            /\ UNCHANGED fresh
    /\ UNCHANGED <<mailVars, topic, linkVars, dutVars, mishaps>>

\* Bytes sent on a connection the DUT has closed go nowhere; the result of
\* m_psock->send is not looked at.
Send(b, next) ==
    /\ pc[b] = "send"
    /\ pc' = [pc EXCEPT ![b] = next]
    /\ toDut' = IF link[b] = "open"
                THEN [toDut EXCEPT ![b] = toDut[b] \o buffer[b]]
                ELSE toDut
    /\ UNCHANGED <<mailVars, topic, buffer, link, toBoard, owed, dutVars,
                   histVars>>

\* wait_for_data(-1), then everything that is available.
Receive(b, next) ==
    /\ pc[b] = "receive"
    /\ toBoard[b] # <<>>
    /\ pc' = [pc EXCEPT ![b] = next]
    /\ buffer' = [buffer EXCEPT ![b] = toBoard[b]]
    /\ toBoard' = [toBoard EXCEPT ![b] = <<>>]
    /\ UNCHANGED <<mailVars, topic, link, toDut, owed, dutVars, histVars>>

\* The DUT closed the connection: break, without clearing the flag.
PeerClosed(b) ==
    /\ pc[b] = "receive"
    /\ toBoard[b] = <<>>
    /\ link[b] = "closed"
    /\ pc' = [pc EXCEPT ![b] = "again"]
    /\ UNCHANGED <<mailVars, topic, buffer, linkVars, dutVars, histVars>>

\* Throw the socket away and create a new one.
Again(b) ==
    /\ pc[b] = "again"
    /\ pc' = [pc EXCEPT ![b] = "connect"]
    /\ link' = [link EXCEPT ![b] = "none"]
    /\ toBoard' = [toBoard EXCEPT ![b] = <<>>]
    /\ toDut' = [toDut EXCEPT ![b] = <<>>]
    /\ UNCHANGED <<mailVars, topic, buffer, owed, dutVars, histVars>>

\* connect() or listen_and_accept() returns.
Connected(b, next) ==
    /\ pc[b] = "connect"
    /\ pc' = [pc EXCEPT ![b] = next]
    /\ link' = [link EXCEPT ![b] = "open"]
    /\ UNCHANGED <<mailVars, topic, buffer, toBoard, toDut, owed, dutVars,
                   histVars>>

\* QoS 0: the publication reaches the other board's queue or is lost.  A
\* board that has exited has no subscription.
Publish(b, next) ==
    /\ pc[b] = "publish"
    /\ pc' = [pc EXCEPT ![b] = next]
    /\ \/ /\ topic' = IF pc[Other(b)] = "exited"
                      THEN topic
                      ELSE [topic EXCEPT ![Other(b)] = Append(@, buffer[b])]
          /\ UNCHANGED <<faults, mishaps>>
       \/ /\ Mishap("loss")
          /\ UNCHANGED topic
    /\ UNCHANGED <<mailVars, buffer, linkVars, dutVars, fresh>>

\* rth_data_received = 0, whatever has been announced since it was read.
ClearFlag(b, next) ==
    /\ pc[b] = "clear"
    /\ pc' = [pc EXCEPT ![b] = next]
    /\ rth_data_received' = [rth_data_received EXCEPT ![b] = FALSE]
    /\ fresh' = [fresh EXCEPT ![b] = FALSE]
    /\ faults' = IF fresh[b] THEN faults \union {"wipe"} ELSE faults
    /\ UNCHANGED <<rth_datapacket, callback, message, topic, buffer, linkVars,
                   dutVars, mishaps>>

\* Slips for the runs to find: a flag left up, an answer not waited for.
KeepFlag(b, next) ==
    /\ pc[b] = "clear"
    /\ pc' = [pc EXCEPT ![b] = next]
    /\ UNCHANGED <<mailVars, topic, buffer, linkVars, dutVars, histVars>>

ServerKeepsFlag   == KeepFlag("EVSE", "receive")
ServerDoesNotWait == Publish("EVSE", "convert")
ClientKeepsFlag   == KeepFlag("EV", "poll")

-----------------------------------------------------------------------------
(* CServer::task on the EVSE board: a request is received and published,   *)
(* then its answer is waited for, sent and cleared.                        *)

ServerAgain      == Again("EVSE")
ServerAccept     == Connected("EVSE", "receive")
ServerReceive    == Receive("EVSE", "publish")
ServerPeerClosed == PeerClosed("EVSE")
ServerPublish    == Publish("EVSE", "poll")
ServerPoll       == Poll("EVSE", "convert")
ServerConvert    == Convert("EVSE", "send")
ServerSend       == Send("EVSE", "clear")
ServerClear      == ClearFlag("EVSE", "receive")

Server ==
    \/ ServerAgain \/ ServerReceive \/ ServerPeerClosed \/ ServerPublish
    \/ ServerPoll \/ ServerConvert \/ ServerSend \/ ServerClear

(* CClient::task on the EV board: a request is waited for and sent, then   *)
(* its answer is received, published, and only now the flag is cleared.    *)

ClientAgain      == Again("EV")
ClientConnect    == Connected("EV", "poll")
ClientPoll       == Poll("EV", "convert")
ClientConvert    == Convert("EV", "send")
ClientSend       == Send("EV", "receive")
ClientReceive    == Receive("EV", "publish")
ClientPeerClosed == PeerClosed("EV")
ClientPublish    == Publish("EV", "clear")
ClientClear      == ClearFlag("EV", "poll")

Client ==
    \/ ClientAgain \/ ClientConnect \/ ClientPoll \/ ClientConvert
    \/ ClientSend \/ ClientReceive \/ ClientPeerClosed \/ ClientPublish
    \/ ClientClear

\* exit_app ends the process of board b: its remote_timer has expired, a
\* signal was captured or the coupler was removed.
Exit(b) ==
    /\ pc[b] # "exited"
    /\ Mishap("exit")
    /\ pc' = [pc EXCEPT ![b] = "exited"]
    /\ callback' = [callback EXCEPT ![b] = "idle"]
    /\ topic' = [topic EXCEPT ![b] = <<>>]
    /\ link' = [link EXCEPT ![b] = "none"]
    /\ toBoard' = [toBoard EXCEPT ![b] = <<>>]
    /\ toDut' = [toDut EXCEPT ![b] = <<>>]
    /\ owed' = [owed EXCEPT ![b] = <<>>]
    /\ answers' = GiveUp(b)
    /\ UNCHANGED <<rth_data_received, rth_datapacket, message, buffer, asked,
                   seen, fresh>>

-----------------------------------------------------------------------------
(* The devices under test.  A DUT writes a message in one piece or in two, *)
(* reads one complete message at a time and closes the connection on a     *)
(* stream that is not one.                                                 *)

Complete(s) ==
    \/ Len(s) > 0 /\ Head(s).part = "whole"
    \/ /\ Len(s) > 1
       /\ s[1].part = "head"
       /\ s[2] = [id |-> s[1].id, part |-> "tail"]

Malformed(s) ==
    /\ Len(s) > 0
    /\ ~Complete(s)
    /\ ~(Len(s) = 1 /\ Head(s).part = "head")

AfterMessage(s) == IF Head(s).part = "whole" THEN Tail(s) ELSE Tail(Tail(s))

\* The DUT of board b writes message n.
DutWrites(b, n) ==
    /\ link[b] = "open"
    /\ owed[b] = <<>>
    /\ \/ /\ toBoard' = [toBoard EXCEPT ![b] = @ \o Whole(n)]
          /\ UNCHANGED <<owed, faults, mishaps>>
       \/ /\ Mishap("split")
          /\ toBoard' = [toBoard EXCEPT ![b] = @ \o HeadOf(n)]
          /\ owed' = [owed EXCEPT ![b] = TailOf(n)]

DutWritesTail(b) ==
    /\ link[b] = "open"
    /\ owed[b] # <<>>
    /\ toBoard' = [toBoard EXCEPT ![b] = @ \o owed[b]]
    /\ owed' = [owed EXCEPT ![b] = <<>>]
    /\ UNCHANGED <<mailVars, topic, threadVars, link, toDut, dutVars, histVars>>

\* What the board has not read yet may be discarded with the connection.
Hangup(b) ==
    /\ link[b] = "open"
    /\ link' = [link EXCEPT ![b] = "closed"]
    /\ toDut' = [toDut EXCEPT ![b] = <<>>]
    /\ owed' = [owed EXCEPT ![b] = <<>>]
    /\ toBoard' \in {toBoard, [toBoard EXCEPT ![b] = <<>>]}
    /\ answers' = GiveUp(b)
    /\ UNCHANGED <<mailVars, topic, threadVars, asked, seen, fresh>>

\* A DUT gives up (its own message timeout) or refuses a malformed stream.
DutCloses(b) == Hangup(b) /\ Mishap("drop")

DutRefuses(b) ==
    /\ Malformed(toDut[b])
    /\ b = "EVSE" => waiting
    /\ Hangup(b)
    /\ faults' = faults \union {"drop"}
    /\ UNCHANGED mishaps

EvAsks ==
    /\ ~waiting
    /\ asked < MaxRequests
    /\ asked' = asked + 1
    /\ DutWrites("EVSE", asked + 1)
    /\ UNCHANGED <<mailVars, topic, threadVars, link, toDut, seen, answers,
                   fresh>>

EvTakesAnswer ==
    /\ waiting
    /\ owed["EVSE"] = <<>>
    /\ Complete(toDut["EVSE"])
    /\ answers' = Append(answers, Head(toDut["EVSE"]).id)
    /\ toDut' = [toDut EXCEPT !["EVSE"] = AfterMessage(@)]
    /\ UNCHANGED <<mailVars, topic, threadVars, link, toBoard, owed, asked,
                   seen, histVars>>

EvseServes ==
    /\ Complete(toDut["EV"])
    /\ LET n == Head(toDut["EV"]).id
       IN  /\ seen' = Append(seen, n)
           /\ DutWrites("EV", n)
    /\ toDut' = [toDut EXCEPT !["EV"] = AfterMessage(@)]
    /\ UNCHANGED <<mailVars, topic, threadVars, link, asked, answers,
                   fresh>>

-----------------------------------------------------------------------------

Init ==
    /\ rth_data_received = [b \in Boards |-> FALSE]
    /\ rth_datapacket = [b \in Boards |-> <<>>]
    /\ callback = [b \in Boards |-> "idle"]
    /\ message = [b \in Boards |-> <<>>]
    /\ topic = [b \in Boards |-> <<>>]
    /\ pc = [b \in Boards |-> "again"]
    /\ buffer = [b \in Boards |-> <<>>]
    /\ link = [b \in Boards |-> "none"]
    /\ toBoard = [b \in Boards |-> <<>>]
    /\ toDut = [b \in Boards |-> <<>>]
    /\ owed = [b \in Boards |-> <<>>]
    /\ asked = 0
    /\ seen = <<>>
    /\ answers = <<>>
    /\ fresh = [b \in Boards |-> FALSE]
    /\ faults = {}
    /\ mishaps = 0

Callback(b) == RaiseFlag(b) \/ ReleasePacket(b) \/ StorePacket(b)

Next ==
    \/ \E b \in Boards : Callback(b)
    \/ Server \/ ServerAccept
    \/ Client
    \/ \E b \in Boards :
          Exit(b) \/ DutWritesTail(b) \/ DutCloses(b) \/ DutRefuses(b)
    \/ EvAsks \/ EvTakesAnswer
    \/ EvseServes

(* The operating system runs every thread of a board that can run, the     *)
(* broker delivers what it holds, the EVSE DUT accepts connections and     *)
(* serves requests, and both DUTs go on reading and writing.  Nothing      *)
(* obliges the EV DUT to connect or to ask, or anyone to do wrong.         *)
Fairness ==
    /\ \A b \in Boards : WF_vars(Callback(b)) /\ WF_vars(DutWritesTail(b))
    /\ WF_vars(Server)
    /\ WF_vars(Client)
    /\ WF_vars(EvTakesAnswer)
    /\ WF_vars(EvseServes)

Spec == Init /\ [][Next]_vars

FairSpec == Spec /\ Fairness

-----------------------------------------------------------------------------

Packet == Seq(Piece)

\* The types, which the theorems about the relay rest on.
TypeOK ==
    /\ rth_data_received \in [Boards -> BOOLEAN]
    /\ rth_datapacket \in [Boards -> Packet]
    /\ callback \in [Boards -> {"idle", "flagged", "assigning"}]
    /\ message \in [Boards -> Packet]
    /\ topic \in [Boards -> Seq(Packet)]
    /\ pc \in [Boards -> {"again", "connect", "poll", "convert", "send",
                          "receive", "publish", "clear", "exited"}]
    /\ buffer \in [Boards -> Packet]
    /\ link \in [Boards -> {"none", "open", "closed"}]
    /\ toBoard \in [Boards -> Packet]
    /\ toDut \in [Boards -> Packet]
    /\ owed \in [Boards -> Packet]
    /\ asked \in 0..MaxRequests
    /\ seen \in Seq(Nat)
    /\ answers \in Seq(Nat)
    /\ fresh \in [Boards -> BOOLEAN]
    /\ faults \subseteq
          {"drop", "loss", "split", "exit", "tear", "wipe", "overrun"}
    /\ mishaps \in 0..MaxMishaps

-----------------------------------------------------------------------------
(* Properties.                                                             *)

\* A request reaches the EVSE DUT twice only after a connection was dropped
\* (CClient::task breaks out before it clears the flag) or a packet was read
\* while handle_message stored it: never through a loss, a wiped or overrun
\* flag, a segmented message or the exit of a board.
NoDuplicate ==
    faults \intersect {"drop", "tear"} = {} =>
        \A i, j \in 1..Len(seen) : seen[i] = seen[j] => i = j

\* The EV DUT is handed the answer to another request only after the same
\* two faults; every other fault ends in silence, not in a wrong answer.
AnswersMatch ==
    faults \intersect {"drop", "tear"} = {} =>
        \A i \in 1..Len(answers) : answers[i] \in {0, i}

\* The EV DUT is never handed the same answer for two requests, even when a
\* dropped connection makes the client send a request twice: only a torn
\* packet, which may be an answer already relayed, does that.
AnswersOnce ==
    "tear" \notin faults =>
        \A i, j \in 1..Len(answers) :
            i < j /\ answers[i] # 0 => answers[i] # answers[j]

\* Until something goes wrong, each request is served once, in order, and
\* its answer handed back before the next one: RelayedLikeACable.
Virtual == INSTANCE Cable WITH served <- seen, broken <- (faults # {})

RelayedLikeACable == Virtual!Spec

\* Every request of the EV DUT is answered, unless something goes wrong.
EveryRequestAnswered == waiting ~> ~waiting \/ faults # {}

\* AnsweredAsAsked, what the README says of remote mode (every request is
\* relayed, its answer transferred back): with well-behaved DUTs and broker,
\* the EV DUT is never handed the answer to another request.
AnsweredAsAsked == \A i \in 1..Len(answers) : answers[i] \in {0, i}
=============================================================================
