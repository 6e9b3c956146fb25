-------------------------------- MODULE Link --------------------------------
(***************************************************************************)
(* CWolfMQTTBase, a board's connection to the broker: main connects,       *)
(* subscribes and publishes, a thread of its own waits for messages and    *)
(* sends a ping after half a minute of silence.  The wolfMQTT library is   *)
(* built without support of threads: both share its two buffers, and they  *)
(* lie on the stack of connect, which has returned.                        *)
(***************************************************************************)
EXTENDS Integers, Sequences, FiniteSets

CONSTANTS
    NumDown,        \* bound: messages published to the subscribed topic
    NumUp,          \* bound: messages that this board publishes
    MaxMishaps      \* bound: late pongs, closed connections, spoilt buffers

ASSUME LinkAssumption == NumDown \in Nat /\ NumUp \in Nat /\ MaxMishaps \in Nat

Clients == {"main", "thread"}

Other(c) == IF c = "main" THEN "thread" ELSE "main"

\* A message, and one with more than the 255 bytes that the callback has room
\* for, in its topic or in its payload.
Messages == {"publish", "long"}

\* What the broker sends; `nr' counts the messages up to and including this one.
Packets == [type : {"suback", "pingresp"} \cup Messages, nr : 0 .. NumDown]

\* Bytes that are no packet, in a buffer or on the connection.
Junk == [type |-> "junk", nr |-> 0]

Requests == {"subscribe", "pingreq", "publish"}

Causes ==
    {"late", "taken", "closed", "spoilt", "readers", "writers", "overrun"}

VARIABLES
    main,           \* what main is doing with the connection
    thread,         \* where wolfMQTT_state_machine is
    told,           \* a byte is in the pipe
    rx,             \* the packet in the read buffer, or Junk
    got,            \* the clients that have read a packet and not handled it
    tx,             \* the request in the send buffer, or "junk"
    socket,         \* the connection, as a read of it would find it
    down,           \* packets sent by the broker and not read
    up,             \* requests that the broker has not served, or "garbage"
    subscribed,     \* the broker knows of the subscription
    sent,           \* messages that the broker has sent
    published,      \* messages that main has published
    handled,        \* history: messages given to handle_message, by number
    causes,         \* history: what has gone wrong
    mishaps         \* history: how often

appVars    == <<main, thread, told>>
bufferVars == <<rx, got, tx>>
brokerVars == <<subscribed, sent>>
histVars   == <<causes, mishaps>>

vars == <<appVars, bufferVars, socket, down, up, brokerVars, published,
          handled, histVars>>

Mishap(cause) ==
    /\ mishaps < MaxMishaps
    /\ mishaps' = mishaps + 1
    /\ causes' = causes \cup {cause}

-----------------------------------------------------------------------------
(* What both do with the library.                                          *)

\* It is inside recv.
Reading(c) ==
    /\ c \notin got
    /\ \/ c = "main" /\ main = "waiting"
       \/ c = "thread" /\ thread \in {"wait", "pong"}

\* It has encoded a request that it has not sent yet.
Writing(c) ==
    \/ c = "main" /\ main \in {"subscribing", "publishing"}
    \/ c = "thread" /\ thread = "pinging"

\* mqtt_net_read: bytes that came before the end of the connection are read.
\* At the bare end of it recv returns 0 for ever, and the loop goes on: no
\* outcome.  An error that recv has returned is not found again in SO_ERROR:
\* a time-out.
CanGet     == down # <<>> /\ socket \in {"open", "eof", "alert", "reset"}
CanTimeOut == (down = <<>> /\ socket \in {"open", "reset"}) \/ socket = "shut"
CanFail    == (down = <<>> /\ socket = "alert") \/ socket = "torn"

\* A packet is in the buffer, and not decoded yet.
Get(c) ==
    /\ Reading(c) /\ CanGet
    /\ rx' = Head(down)
    /\ down' = Tail(down)
    /\ got' = got \cup {c}
    /\ causes' = IF Other(c) \in got THEN causes \cup {"readers"} ELSE causes
    /\ UNCHANGED <<appVars, tx, socket, up, brokerVars, published, handled,
                   mishaps>>

\* Each of two readers has a part of one packet: nothing after it makes sense.
Tear ==
    /\ Reading("main") /\ Reading("thread") /\ CanGet
    /\ socket' = "torn"
    /\ causes' = causes \cup {"readers"}
    /\ UNCHANGED <<appVars, bufferVars, down, up, brokerVars, published,
                   handled, mishaps>>

\* Main's frames and the library's buffers are in the same place.
SpoilRx ==
    /\ got # {} /\ rx # Junk
    /\ Mishap("spoilt")
    /\ rx' = Junk
    /\ UNCHANGED <<appVars, got, tx, socket, down, up, brokerVars, published,
                   handled>>

SpoilTx ==
    /\ \E c \in Clients : Writing(c)
    /\ Mishap("spoilt")
    /\ tx' = "junk"
    /\ UNCHANGED <<appVars, rx, got, socket, down, up, brokerVars, published,
                   handled>>

Encode(c, request) ==
    /\ tx' = request
    /\ causes' = IF Writing(Other(c)) THEN causes \cup {"writers"} ELSE causes
    /\ UNCHANGED <<told, rx, got, socket, down, up, brokerVars, handled,
                   mishaps>>

\* What is in the buffer goes out, at the length of the request.  The answer to
\* what is sent after the end of the connection is a reset.
Send(request) ==
    /\ up' = IF socket \notin {"open", "torn"} THEN up
             ELSE Append(up, IF tx = request THEN request ELSE "garbage")
    /\ socket' = IF socket = "eof" THEN "reset" ELSE socket
    /\ UNCHANGED <<told, bufferVars, down, brokerVars, published, handled,
                   histVars>>

\* The callback, for a message that fits; CallbackOverruns is for one that does
\* not.
Decoded(c) ==
    /\ c \in got /\ rx.type # "long"
    /\ got' = got \ {c}
    /\ UNCHANGED <<told, rx, tx, socket, down, up, brokerVars, published,
                   histVars>>

\* (A slip for the runs to find: what comes in place of a pong is dropped.)
HandlesIfIdle ==
    handled' = IF rx.type = "publish" /\ thread # "pong"
               THEN Append(handled, rx.nr) ELSE handled

Handles ==
    handled' = IF rx.type = "publish"
               THEN Append(handled, rx.nr) ELSE handled

\* The copies run over the two arrays of the callback, and what lies behind
\* them is anything: the message is handled, or lost, or handled in pieces, as
\* one that is longer than the read buffer comes in; and the process goes on,
\* or is no more.
CallbackOverruns(c) ==
    /\ c \in got /\ rx.type = "long"
    /\ causes' = causes \cup {"overrun"}
    /\ handled' \in {handled, Append(handled, rx.nr),
                     Append(Append(handled, rx.nr), rx.nr)}
    /\ \/ got' = got \ {c} /\ UNCHANGED <<appVars, socket>>
       \/ /\ main' = "crashed" /\ thread' = "pipe" /\ told' = FALSE
          /\ got' = {} /\ socket' = "shut"
    /\ UNCHANGED <<rx, tx, down, up, brokerVars, published, mishaps>>

-----------------------------------------------------------------------------
(* main: connect, subscribe, publish, close.                               *)

\* connect tells the thread before there is a subscription.
ConnectSucceeds ==
    /\ main = "start"
    /\ main' = "subscribe"
    /\ told' = TRUE
    /\ socket' = "open"
    /\ UNCHANGED <<thread, bufferVars, down, up, brokerVars, published,
                   handled, histVars>>

ConnectFails ==
    /\ main = "start"
    /\ main' = "exit"
    /\ UNCHANGED <<thread, told, bufferVars, socket, down, up, brokerVars,
                   published, handled, histVars>>

Subscribe ==
    /\ main = "subscribe"
    /\ main' = "subscribing"
    /\ Encode("main", "subscribe")
    /\ UNCHANGED <<thread, published>>

SendSubscribe ==
    /\ main = "subscribing"
    /\ main' = "waiting"
    /\ Send("subscribe")
    /\ UNCHANGED thread

\* MqttClient_Subscribe goes on reading until the answer to it is there.
MainHandles ==
    /\ Decoded("main") /\ Handles
    /\ main' = IF rx.type \in {"junk", "suback"} THEN "idle" ELSE main
    /\ UNCHANGED thread

\* (A slip for the runs to find: broker_check subscribes again.)
SubscribesAgain ==
    /\ Reading("main") /\ (CanTimeOut \/ CanFail)
    /\ main' = "subscribe"
    /\ UNCHANGED <<thread, told, bufferVars, socket, down, up, brokerVars,
                   published, handled, histVars>>

\* After five seconds, or an error: broker_check does not look at the result.
MainGivesUp ==
    /\ Reading("main") /\ (CanTimeOut \/ CanFail)
    /\ main' = "idle"
    /\ UNCHANGED <<thread, told, bufferVars, socket, down, up, brokerVars,
                   published, handled, histVars>>

\* publish, under the lock that all its callers share.
Publish ==
    /\ main = "idle" /\ published < NumUp
    /\ main' = "publishing"
    /\ published' = published + 1
    /\ Encode("main", "publish")
    /\ UNCHANGED thread

SendPublish ==
    /\ main = "publishing"
    /\ main' = "idle"
    /\ Send("publish")
    /\ UNCHANGED thread

\* exit_app.
Close ==
    /\ main = "idle"
    /\ main' = "exit"
    /\ socket' = "shut"
    /\ UNCHANGED <<thread, told, bufferVars, down, up, brokerVars, published,
                   handled, histVars>>

-----------------------------------------------------------------------------
(* wolfMQTT_state_machine.                                                 *)

Wake ==
    /\ thread = "pipe" /\ told
    /\ told' = FALSE
    /\ thread' = "wait"
    /\ UNCHANGED <<main, bufferVars, socket, down, up, brokerVars, published,
                   handled, histVars>>

\* MqttClient_WaitMessage takes any packet, MqttClient_Ping waits for its own.
ThreadHandles ==
    /\ Decoded("thread") /\ Handles
    /\ thread' = IF rx.type = "junk" THEN "pipe"
                 ELSE IF rx.type = "pingresp" THEN "wait" ELSE thread
    /\ UNCHANGED main

\* (A slip for the runs to find: a time-out ends the loop like an error.)
StopInstead ==
    /\ Reading("thread") /\ thread = "wait" /\ CanTimeOut
    /\ main \notin {"subscribe", "subscribing"}
    /\ thread' = "pipe"
    /\ UNCHANGED <<main, told, bufferVars, socket, down, up, brokerVars,
                   published, handled, histVars>>

\* Half a minute has passed since the last packet, and main has subscribed
\* long before.  The lock that publish is under is not taken.
Ping ==
    /\ Reading("thread") /\ thread = "wait" /\ CanTimeOut
    /\ main \notin {"subscribe", "subscribing"}
    /\ thread' = "pinging"
    /\ Encode("thread", "pingreq")
    /\ UNCHANGED <<main, published>>

\* What cannot be sent ends the loop.
SendPing ==
    /\ thread = "pinging"
    /\ thread' = IF socket \in {"reset", "shut"} THEN "pipe" ELSE "pong"
    /\ Send("pingreq")
    /\ UNCHANGED main

\* The loop ends where something fails, and nobody tells main or tries again.
ThreadFails ==
    /\ Reading("thread") /\ CanFail
    /\ thread' = "pipe"
    /\ UNCHANGED <<main, told, bufferVars, socket, down, up, brokerVars,
                   published, handled, histVars>>

\* The broker has not answered within five seconds,
PongLate ==
    /\ Reading("thread") /\ thread = "pong" /\ CanTimeOut
    /\ socket = "open" /\ up # <<>> /\ Mishap("late")
    /\ thread' = "pipe"
    /\ UNCHANGED <<main, told, bufferVars, socket, down, up, brokerVars,
                   published, handled>>

\* or it has, and main, which waits for an answer of its own, has read it,
PongTaken ==
    /\ Reading("thread") /\ thread = "pong" /\ CanTimeOut
    /\ socket = "open" /\ up = <<>>
    /\ thread' = "pipe"
    /\ causes' = causes \cup {"taken"}
    /\ UNCHANGED <<main, told, bufferVars, socket, down, up, brokerVars,
                   published, handled, mishaps>>

\* or the connection is gone.
PongNever ==
    /\ Reading("thread") /\ thread = "pong" /\ CanTimeOut
    /\ socket # "open"
    /\ thread' = "pipe"
    /\ UNCHANGED <<main, told, bufferVars, socket, down, up, brokerVars,
                   published, handled, histVars>>

-----------------------------------------------------------------------------
(* The broker.                                                             *)

Answer(type) == Append(down, [type |-> type, nr |-> sent])

Serve ==
    /\ up # <<>> /\ Head(up) # "garbage"
    /\ socket \in {"open", "torn"}
    /\ up' = Tail(up)
    /\ subscribed' = (subscribed \/ Head(up) = "subscribe")
    /\ down' = CASE Head(up) = "subscribe" -> Answer("suback")
                 [] Head(up) = "pingreq"   -> Answer("pingresp")
                 [] OTHER                  -> down
    /\ UNCHANGED <<appVars, bufferVars, socket, sent, published, handled,
                   histVars>>

Deliver ==
    /\ subscribed /\ sent < NumDown
    /\ socket \in {"open", "torn"}
    /\ sent' = sent + 1
    /\ \E type \in Messages :
           down' = Append(down, [type |-> type, nr |-> sent + 1])
    /\ UNCHANGED <<appVars, bufferVars, socket, up, subscribed, published,
                   handled, histVars>>

\* The broker closes with an alert of TLS or without.
Hangup ==
    /\ socket \in {"open", "torn"}
    /\ socket' \in {"eof", "alert"}
    /\ up' = <<>>
    /\ UNCHANGED <<appVars, bufferVars, down, brokerVars, published, handled>>

HangupOnGarbage ==
    /\ up # <<>> /\ Head(up) = "garbage"
    /\ Hangup
    /\ UNCHANGED histVars

HangupAnyway == Hangup /\ Mishap("closed")

-----------------------------------------------------------------------------

\* The session is not a clean one: the broker may know the subscription from
\* an earlier connection.
Init ==
    /\ main = "start" /\ thread = "pipe" /\ told = FALSE
    /\ rx = Junk /\ got = {} /\ tx = "junk"
    /\ socket = "shut"
    /\ down = <<>> /\ up = <<>>
    /\ subscribed \in BOOLEAN
    /\ sent = 0 /\ published = 0
    /\ handled = <<>>
    /\ causes = {} /\ mishaps = 0

Main ==
    \/ ConnectSucceeds \/ ConnectFails
    \/ Subscribe \/ SendSubscribe
    \/ Get("main") \/ MainHandles \/ CallbackOverruns("main") \/ MainGivesUp
    \/ SendPublish

Thread ==
    \/ Wake
    \/ Get("thread") \/ ThreadHandles \/ CallbackOverruns("thread")
    \/ ThreadFails
    \/ Ping \/ SendPing \/ PongTaken \/ PongNever

Broker == Serve \/ HangupOnGarbage

Environment ==
    Publish \/ Close \/ Deliver \/ HangupAnyway \/ PongLate
        \/ SpoilRx \/ SpoilTx \/ Tear

Next == Main \/ Thread \/ Broker \/ Environment

\* main and the thread run, and the broker serves what has been sent.
Spec ==
    Init /\ [][Next]_vars /\ WF_vars(Main) /\ WF_vars(Thread) /\ WF_vars(Broker)

-----------------------------------------------------------------------------

TypeOK ==
    /\ main \in {"start", "subscribe", "subscribing", "waiting", "idle",
                 "publishing", "exit", "crashed"}
    /\ thread \in {"pipe", "wait", "pinging", "pong"}
    /\ told \in BOOLEAN
    /\ rx \in Packets \cup {Junk}
    /\ got \in SUBSET Clients
    /\ tx \in Requests \cup {"junk"}
    /\ socket \in {"open", "torn", "eof", "alert", "reset", "shut"}
    /\ down \in Seq(Packets)
    /\ up \in Seq(Requests \cup {"garbage"})
    /\ subscribed \in BOOLEAN
    /\ sent \in 0 .. NumDown /\ published \in 0 .. NumUp
    /\ handled \in Seq(0 .. NumDown)
    /\ causes \in SUBSET Causes
    /\ mishaps \in 0 .. MaxMishaps

\* The messages are handled one by one, in the order the broker sent them,
\* although main and the thread read the same connection: they cannot only
\* when one has read while the other was not through with a packet, or when
\* one was too long (wolfMQTT_cpp.cpp:466).
InOrder ==
    causes \cap {"readers", "spoilt", "overrun"} = {} =>
        \A k \in 1 .. Len(handled) : handled[k] = k

\* The thread hears nothing, now or as soon as it has read what has come.
Deaf ==
    \/ thread = "pipe" /\ ~told
    \/ socket # "open"

\* The board does not stop listening for nothing: a pong was late or read by
\* main, the connection was closed, two met in a buffer, or a message was too
\* long for the callback (wolfMQTT_cpp.cpp:585).
DeafForCause ==
    main \notin {"start", "exit"} /\ Deaf => causes # {}

\* The subscription is in place although the thread may take the answer to it
\* from main, and although nobody looks whether it came
\* (rth_statemachine.cpp:86).
ComesUp ==
    main = "subscribe" ~> \/ subscribed /\ main \in {"idle", "publishing"}
                          \/ causes # {} \/ main = "exit"

\* Every message the broker sends is handled, unless something has gone wrong
\* or the board shuts down (wolfMQTT_cpp.cpp:577).
Delivered ==
    \A n \in 1 .. NumDown :
        sent >= n ~> Len(handled) >= n \/ causes # {} \/ main = "exit"

\* Every message the broker sends is handled, however long it is, unless
\* something other than its length has gone wrong: it is not
\* (wolfMQTT_cpp.cpp:52).
EachMessageHandled ==
    \A n \in 1 .. NumDown :
        sent >= n ~> \/ Len(handled) >= n
                     \/ causes \ {"overrun"} # {} \/ main = "exit"
=============================================================================
