------------------------------ MODULE LinkProof ------------------------------
(***************************************************************************)
(* Theorems about a board's connection to the broker, for any number of    *)
(* messages and mishaps.                                                   *)
(***************************************************************************)
EXTENDS Link, TLAPS

-----------------------------------------------------------------------------
(* The types.                                                              *)

LEMMA NoneYet ==
    /\ <<>> \in Seq(Packets)
    /\ <<>> \in Seq(Requests \cup {"garbage"})
    /\ <<>> \in Seq(0 .. NumDown)
  OBVIOUS

LEMMA InitTypes == Init => TypeOK
  <1> SUFFICES ASSUME Init PROVE TypeOK
    OBVIOUS
  <1>1. sent \in 0 .. NumDown /\ published \in 0 .. NumUp /\ mishaps \in 0 .. MaxMishaps
    BY LinkAssumption DEF Init
  <1>2. /\ down \in Seq(Packets) /\ up \in Seq(Requests \cup {"garbage"})
        /\ handled \in Seq(0 .. NumDown)
    BY NoneYet DEF Init
  <1>3. got \in SUBSET Clients /\ causes \in SUBSET Causes
    BY DEF Init
  <1> QED
    BY <1>1, <1>2, <1>3 DEF Init, TypeOK

LEMMA GetTypes ==
    ASSUME TypeOK, NEW c \in Clients, Get(c)
    PROVE  TypeOK'
  <1>1. down # <<>> /\ down \in Seq(Packets)
    BY DEF Get, CanGet, TypeOK
  <1>2. Head(down) \in Packets /\ Tail(down) \in Seq(Packets)
    BY <1>1
  <1>3. got' \in SUBSET Clients /\ causes' \in SUBSET Causes
    BY DEF Get, TypeOK, Clients, Causes
  <1> QED
    BY <1>2, <1>3 DEF Get, TypeOK, appVars, brokerVars

LEMMA SendTypes ==
    ASSUME TypeOK, NEW request \in Requests, Send(request)
    PROVE  /\ up' \in Seq(Requests \cup {"garbage"})
           /\ socket' \in {"open", "torn", "eof", "alert", "reset", "shut"}
  <1>1. /\ up \in Seq(Requests \cup {"garbage"})
        /\ (IF tx = request THEN request ELSE "garbage")
              \in Requests \cup {"garbage"}
    BY DEF TypeOK
  <1>2. Append(up, IF tx = request THEN request ELSE "garbage")
              \in Seq(Requests \cup {"garbage"})
    BY <1>1
  <1> QED
    BY <1>1, <1>2 DEF Send, TypeOK

LEMMA HandleTypes ==
    ASSUME TypeOK, Handles
    PROVE  handled' \in Seq(0 .. NumDown)
  <1>1. rx.type = "publish" => rx.nr \in 0 .. NumDown
    BY DEF TypeOK, Packets, Junk, Messages
  <1>2. handled \in Seq(0 .. NumDown)
    BY DEF TypeOK
  <1>3. CASE rx.type = "publish"
    <2>1. Append(handled, rx.nr) \in Seq(0 .. NumDown)
      BY <1>1, <1>2, <1>3
    <2> QED
      BY <1>3, <2>1 DEF Handles
  <1>4. CASE rx.type # "publish"
    BY <1>2, <1>4 DEF Handles
  <1> QED
    BY <1>3, <1>4

LEMMA ServeTypes ==
    ASSUME TypeOK, Serve
    PROVE  TypeOK'
  <1>1. up # <<>> /\ up \in Seq(Requests \cup {"garbage"})
    BY DEF Serve, TypeOK
  <1>2. up' \in Seq(Requests \cup {"garbage"})
    BY <1>1 DEF Serve
  <1>3. /\ [type |-> "suback", nr |-> sent] \in Packets
        /\ [type |-> "pingresp", nr |-> sent] \in Packets
        /\ down \in Seq(Packets)
    BY DEF TypeOK, Packets, Messages
  <1>4. down' \in Seq(Packets)
    BY <1>3 DEF Serve, Answer
  <1>5. subscribed' \in BOOLEAN
    BY DEF Serve, TypeOK
  <1> QED
    BY <1>2, <1>4, <1>5 DEF Serve, TypeOK, appVars, bufferVars, histVars

LEMMA DeliverTypes ==
    ASSUME TypeOK, Deliver
    PROVE  TypeOK'
  <1>1. sent' \in 0 .. NumDown
    BY LinkAssumption DEF Deliver, TypeOK
  <1>2. /\ \A type \in Messages : [type |-> type, nr |-> sent + 1] \in Packets
        /\ down \in Seq(Packets)
    BY <1>1 DEF Deliver, TypeOK, Packets, Messages
  <1>3. down' \in Seq(Packets)
    BY <1>2 DEF Deliver
  <1> QED
    BY <1>1, <1>3 DEF Deliver, TypeOK, appVars, bufferVars, histVars

\* What a step that sends a request leaves to be shown.
LEMMA EncodeTypes ==
    ASSUME TypeOK, NEW c \in Clients, NEW request \in Requests,
           Encode(c, request)
    PROVE  tx' \in Requests \cup {"junk"} /\ causes' \in SUBSET Causes
  BY DEF Encode, TypeOK, Causes

LEMMA SendingTypes ==
    ASSUME TypeOK, SendSubscribe \/ SendPublish \/ SendPing
    PROVE  TypeOK'
  <1>1. CASE SendSubscribe
    <2>1. "subscribe" \in Requests /\ Send("subscribe")
      BY <1>1 DEF SendSubscribe, Requests
    <2>2. /\ up' \in Seq(Requests \cup {"garbage"})
          /\ socket' \in {"open", "torn", "eof", "alert", "reset", "shut"}
      BY <2>1, SendTypes
    <2> QED
      BY <1>1, <2>1, <2>2
      DEF SendSubscribe, Send, TypeOK, bufferVars, brokerVars, histVars
  <1>2. CASE SendPublish
    <2>1. "publish" \in Requests /\ Send("publish")
      BY <1>2 DEF SendPublish, Requests
    <2>2. /\ up' \in Seq(Requests \cup {"garbage"})
          /\ socket' \in {"open", "torn", "eof", "alert", "reset", "shut"}
      BY <2>1, SendTypes
    <2> QED
      BY <1>2, <2>1, <2>2
      DEF SendPublish, Send, TypeOK, bufferVars, brokerVars, histVars
  <1>3. CASE SendPing
    <2>1. "pingreq" \in Requests /\ Send("pingreq")
      BY <1>3 DEF SendPing, Requests
    <2>2. /\ up' \in Seq(Requests \cup {"garbage"})
          /\ socket' \in {"open", "torn", "eof", "alert", "reset", "shut"}
      BY <2>1, SendTypes
    <2> QED
      BY <1>3, <2>1, <2>2
      DEF SendPing, Send, TypeOK, bufferVars, brokerVars, histVars
  <1> QED
    BY <1>1, <1>2, <1>3

LEMMA EncodingTypes ==
    ASSUME TypeOK, Subscribe \/ Publish \/ Ping
    PROVE  TypeOK'
  <1>1. CASE Subscribe
    <2>1. Encode("main", "subscribe")
      BY <1>1 DEF Subscribe
    <2>2. tx' \in Requests \cup {"junk"} /\ causes' \in SUBSET Causes
      BY <2>1, EncodeTypes DEF Requests, Clients
    <2> QED
      BY <1>1, <2>1, <2>2 DEF Subscribe, Encode, TypeOK, brokerVars
  <1>2. CASE Publish
    <2>1. Encode("main", "publish")
      BY <1>2 DEF Publish
    <2>2. tx' \in Requests \cup {"junk"} /\ causes' \in SUBSET Causes
      BY <2>1, EncodeTypes DEF Requests, Clients
    <2>3. published' \in 0 .. NumUp
      BY <1>2, LinkAssumption DEF Publish, TypeOK
    <2> QED
      BY <1>2, <2>1, <2>2, <2>3 DEF Publish, Encode, TypeOK, brokerVars
  <1>3. CASE Ping
    <2>1. Encode("thread", "pingreq")
      BY <1>3 DEF Ping
    <2>2. tx' \in Requests \cup {"junk"} /\ causes' \in SUBSET Causes
      BY <2>1, EncodeTypes DEF Requests, Clients
    <2> QED
      BY <1>3, <2>1, <2>2 DEF Ping, Encode, TypeOK, brokerVars
  <1> QED
    BY <1>1, <1>2, <1>3

LEMMA HandlingTypes ==
    ASSUME TypeOK, MainHandles \/ ThreadHandles
    PROVE  TypeOK'
  <1>1. handled' \in Seq(0 .. NumDown)
    BY HandleTypes DEF MainHandles, ThreadHandles
  <1>2. got' \in SUBSET Clients
    BY DEF MainHandles, ThreadHandles, Decoded, TypeOK
  <1>3. CASE MainHandles
    BY <1>1, <1>2, <1>3 DEF MainHandles, Decoded, TypeOK, brokerVars, histVars
  <1>4. CASE ThreadHandles
    BY <1>1, <1>2, <1>4 DEF ThreadHandles, Decoded, TypeOK, brokerVars, histVars
  <1> QED
    BY <1>3, <1>4

\* Whatever is left of the message, its number is one of those sent.
LEMMA OverrunTypes ==
    ASSUME TypeOK, NEW c \in Clients, CallbackOverruns(c)
    PROVE  TypeOK'
  <1>1. rx.nr \in 0 .. NumDown /\ handled \in Seq(0 .. NumDown)
    BY DEF CallbackOverruns, TypeOK, Packets, Junk
  <1>2. Append(handled, rx.nr) \in Seq(0 .. NumDown)
    BY <1>1
  <1>3. Append(Append(handled, rx.nr), rx.nr) \in Seq(0 .. NumDown)
    BY <1>1, <1>2
  <1>4. handled' \in Seq(0 .. NumDown)
    BY <1>1, <1>2, <1>3 DEF CallbackOverruns
  <1>5. got' \in SUBSET Clients /\ causes' \in SUBSET Causes
    BY DEF CallbackOverruns, TypeOK, Causes
  <1> QED
    BY <1>4, <1>5 DEF CallbackOverruns, TypeOK, appVars, brokerVars

LEMMA MishapTypes ==
    ASSUME TypeOK, NEW cause \in Causes, Mishap(cause)
    PROVE  mishaps' \in 0 .. MaxMishaps /\ causes' \in SUBSET Causes
  <1>1. mishaps' \in 0 .. MaxMishaps
    BY LinkAssumption DEF Mishap, TypeOK
  <1> QED
    BY <1>1 DEF Mishap, TypeOK

LEMMA FaultTypes ==
    ASSUME TypeOK,
           \/ SpoilRx \/ SpoilTx \/ Tear \/ PongLate \/ PongTaken
           \/ HangupAnyway
    PROVE  TypeOK'
  <1>1. CASE SpoilRx
    <2>1. Mishap("spoilt") /\ "spoilt" \in Causes
      BY <1>1 DEF SpoilRx, Causes
    <2> QED
      BY <1>1, <2>1, MishapTypes DEF SpoilRx, TypeOK, appVars, brokerVars
  <1>2. CASE SpoilTx
    <2>1. Mishap("spoilt") /\ "spoilt" \in Causes
      BY <1>2 DEF SpoilTx, Causes
    <2> QED
      BY <1>2, <2>1, MishapTypes DEF SpoilTx, TypeOK, appVars, brokerVars
  <1>3. CASE Tear
    <2>1. causes' \in SUBSET Causes
      BY <1>3 DEF Tear, TypeOK, Causes
    <2> QED
      BY <1>3, <2>1 DEF Tear, TypeOK, appVars, bufferVars, brokerVars
  <1>4. CASE PongLate
    <2>1. Mishap("late") /\ "late" \in Causes
      BY <1>4 DEF PongLate, Causes
    <2> QED
      BY <1>4, <2>1, MishapTypes DEF PongLate, TypeOK, bufferVars, brokerVars
  <1>5. CASE HangupAnyway
    <2>1. Mishap("closed") /\ "closed" \in Causes
      BY <1>5 DEF HangupAnyway, Causes
    <2>2. up' \in Seq(Requests \cup {"garbage"})
      BY <1>5, NoneYet DEF HangupAnyway, Hangup
    <2> QED
      BY <1>5, <2>1, <2>2, MishapTypes
      DEF HangupAnyway, Hangup, TypeOK, appVars, bufferVars, brokerVars
  <1>6. CASE PongTaken
    <2>1. causes' \in SUBSET Causes
      BY <1>6 DEF PongTaken, TypeOK, Causes
    <2> QED
      BY <1>6, <2>1 DEF PongTaken, TypeOK, bufferVars, brokerVars
  <1> QED
    BY <1>1, <1>2, <1>3, <1>4, <1>5, <1>6

\* The steps that leave the buffers and the history alone.
LEMMA PlainTypes ==
    ASSUME TypeOK,
           \/ ConnectSucceeds \/ ConnectFails \/ MainGivesUp \/ Close
           \/ Wake \/ ThreadFails \/ PongNever \/ HangupOnGarbage
           \/ UNCHANGED vars
    PROVE  TypeOK'
  <1>1. CASE HangupOnGarbage
    <2>1. up' \in Seq(Requests \cup {"garbage"})
      BY <1>1, NoneYet DEF HangupOnGarbage, Hangup
    <2> QED
      BY <1>1, <2>1
      DEF HangupOnGarbage, Hangup, TypeOK, appVars, bufferVars, brokerVars, histVars
  <1>2. CASE \/ ConnectSucceeds \/ ConnectFails \/ MainGivesUp \/ Close
             \/ Wake \/ ThreadFails \/ PongNever
    BY <1>2
    DEF ConnectSucceeds, ConnectFails, MainGivesUp, Close, Wake, ThreadFails,
        PongNever, TypeOK, bufferVars, brokerVars, histVars
  <1>3. CASE UNCHANGED vars
    BY <1>3 DEF vars, TypeOK, appVars, bufferVars, brokerVars, histVars
  <1> QED
    BY <1>1, <1>2, <1>3

LEMMA NextTypes == TypeOK /\ [Next]_vars => TypeOK'
  <1> SUFFICES ASSUME TypeOK, [Next]_vars PROVE TypeOK'
    OBVIOUS
  <1>1. CASE Main
    <2>1. CASE Get("main") \/ CallbackOverruns("main")
      BY <2>1, GetTypes, OverrunTypes DEF Clients
    <2> QED
      BY <1>1, <2>1, PlainTypes, EncodingTypes, SendingTypes, HandlingTypes
      DEF Main
  <1>2. CASE Thread
    <2>1. CASE Get("thread") \/ CallbackOverruns("thread")
      BY <2>1, GetTypes, OverrunTypes DEF Clients
    <2> QED
      BY <1>2, <2>1, PlainTypes, EncodingTypes, SendingTypes, HandlingTypes,
         FaultTypes
      DEF Thread
  <1>3. CASE Broker
    BY <1>3, ServeTypes, PlainTypes DEF Broker
  <1>4. CASE Environment
    BY <1>4, EncodingTypes, PlainTypes, DeliverTypes, FaultTypes DEF Environment
  <1> QED
    BY <1>1, <1>2, <1>3, <1>4, PlainTypes DEF Next

\* Every variable keeps its type, the numbers of the messages included.
THEOREM TypeCorrect == Spec => []TypeOK
  BY InitTypes, NextTypes, PTL DEF Spec

-----------------------------------------------------------------------------
(* While nothing has gone wrong: the buffers hold what their users put     *)
(* there, no garbage is under way, and the thread listens.                 *)

TxIsOwn ==
    /\ main = "subscribing" => tx = "subscribe"
    /\ main = "publishing" => tx = "publish"
    /\ thread = "pinging" => tx = "pingreq"

UpIsClean == \A i \in 1 .. Len(up) : up[i] # "garbage"

Listens ==
    main \notin {"start", "exit"} =>
        socket = "open" /\ (thread = "pipe" => told)

RxIsGood ==
    /\ got # {} => rx.type # "junk"
    /\ "main" \in got => main = "waiting"

Clear == causes = {} => TxIsOwn /\ RxIsGood /\ UpIsClean /\ Listens

LEMMA InitClear == Init => Clear
  BY DEF Init, Clear, TxIsOwn, RxIsGood, UpIsClean, Listens

LEMMA GetClear ==
    ASSUME TypeOK, Clear, NEW c \in Clients, Get(c)
    PROVE  Clear'
  <1>1. down # <<>> /\ down \in Seq(Packets)
    BY DEF Get, CanGet, TypeOK
  <1>2. Head(down) \in Packets
    BY <1>1
  <1>3. rx'.type # "junk"
    BY <1>2 DEF Get, Packets, Messages
  <1>4. causes' = {} => causes = {}
    BY DEF Get
  <1> QED
    BY <1>3, <1>4
    DEF Get, Reading, Clear, TxIsOwn, RxIsGood, UpIsClean, Listens, appVars

\* Who encodes spoils the request of the other, if that has one.
LEMMA EncodeClear ==
    ASSUME TypeOK, Clear, Subscribe \/ Publish \/ Ping
    PROVE  Clear'
  <1>1. causes' = {} => causes = {}
    BY DEF Subscribe, Publish, Ping, Encode
  <1>2. SUFFICES ASSUME causes' = {} PROVE Clear'
    BY DEF Clear
  <1>3. CASE Subscribe
    <2>1. thread # "pinging"
      BY <1>2, <1>3 DEF Subscribe, Encode, Writing, Other
    <2> QED
      BY <1>1, <1>2, <1>3, <2>1
      DEF Subscribe, Encode, Clear, TxIsOwn, RxIsGood, UpIsClean, Listens
  <1>4. CASE Publish
    <2>1. thread # "pinging"
      BY <1>2, <1>4 DEF Publish, Encode, Writing, Other
    <2> QED
      BY <1>1, <1>2, <1>4, <2>1
      DEF Publish, Encode, Clear, TxIsOwn, RxIsGood, UpIsClean, Listens
  <1>5. CASE Ping
    <2>1. main \notin {"subscribing", "publishing"}
      BY <1>2, <1>5 DEF Ping, Encode, Writing, Other
    <2> QED
      BY <1>1, <1>2, <1>5, <2>1
      DEF Ping, Encode, Clear, TxIsOwn, RxIsGood, UpIsClean, Listens
  <1> QED
    BY <1>3, <1>4, <1>5

LEMMA AppendClean ==
    ASSUME TypeOK, UpIsClean, NEW request \in Requests
    PROVE  \A i \in 1 .. Len(Append(up, request)) :
               Append(up, request)[i] # "garbage"
  <1>1. up \in Seq(Requests \cup {"garbage"}) /\ request # "garbage"
    BY DEF TypeOK, Requests
  <1> QED
    BY <1>1 DEF UpIsClean

LEMMA SendClean ==
    ASSUME TypeOK, UpIsClean, NEW request \in Requests, tx = request,
           Send(request)
    PROVE  UpIsClean'
  <1>1. up' = up \/ up' = Append(up, request)
    BY DEF Send
  <1> QED
    BY <1>1, AppendClean DEF UpIsClean

LEMMA SendClear ==
    ASSUME TypeOK, Clear, SendSubscribe \/ SendPublish \/ SendPing
    PROVE  Clear'
  <1>1. causes' = causes
    BY DEF SendSubscribe, SendPublish, SendPing, Send, histVars
  <1>2. SUFFICES ASSUME causes = {} PROVE Clear'
    BY <1>1 DEF Clear
  <1>3. TxIsOwn /\ RxIsGood /\ UpIsClean /\ Listens
    BY <1>2 DEF Clear
  <1>4. CASE SendSubscribe
    <2>1. tx = "subscribe" /\ Send("subscribe") /\ "subscribe" \in Requests
      BY <1>3, <1>4 DEF SendSubscribe, TxIsOwn, Requests
    <2>2. UpIsClean'
      BY <2>1, <1>3, SendClean
    <2> QED
      BY <1>3, <1>4, <2>1, <2>2
      DEF SendSubscribe, Send, Clear, TxIsOwn, RxIsGood, Listens, bufferVars
  <1>5. CASE SendPublish
    <2>1. tx = "publish" /\ Send("publish") /\ "publish" \in Requests
      BY <1>3, <1>5 DEF SendPublish, TxIsOwn, Requests
    <2>2. UpIsClean'
      BY <2>1, <1>3, SendClean
    <2> QED
      BY <1>3, <1>5, <2>1, <2>2
      DEF SendPublish, Send, Clear, TxIsOwn, RxIsGood, Listens, bufferVars
  <1>6. CASE SendPing
    <2>1. tx = "pingreq" /\ Send("pingreq") /\ "pingreq" \in Requests
      BY <1>3, <1>6 DEF SendPing, TxIsOwn, Requests
    <2>2. UpIsClean'
      BY <2>1, <1>3, SendClean
    <2> QED
      BY <1>3, <1>6, <2>1, <2>2
      DEF SendPing, Send, Clear, TxIsOwn, RxIsGood, Listens, bufferVars
  <1> QED
    BY <1>4, <1>5, <1>6

LEMMA HandleClear ==
    ASSUME TypeOK, Clear, MainHandles \/ ThreadHandles
    PROVE  Clear'
  <1>1. causes' = causes
    BY DEF MainHandles, ThreadHandles, Decoded, histVars
  <1>2. SUFFICES ASSUME causes = {} PROVE Clear'
    BY <1>1 DEF Clear
  <1>3. TxIsOwn /\ RxIsGood /\ UpIsClean /\ Listens /\ rx.type # "junk"
    BY <1>2 DEF Clear, RxIsGood, MainHandles, ThreadHandles, Decoded
  <1>4. CASE MainHandles
    BY <1>3, <1>4
    DEF MainHandles, Decoded, Clear, TxIsOwn, RxIsGood, UpIsClean, Listens
  <1>5. CASE ThreadHandles
    BY <1>3, <1>5
    DEF ThreadHandles, Decoded, Clear, TxIsOwn, RxIsGood, UpIsClean, Listens
  <1> QED
    BY <1>4, <1>5

LEMMA ServeClear ==
    ASSUME TypeOK, Clear, Serve
    PROVE  Clear'
  <1>1. up # <<>> /\ up \in Seq(Requests \cup {"garbage"})
    BY DEF Serve, TypeOK
  <1>2. UpIsClean => UpIsClean'
    BY <1>1 DEF Serve, UpIsClean
  <1> QED
    BY <1>2
    DEF Serve, Clear, TxIsOwn, RxIsGood, Listens, appVars, bufferVars, histVars

\* A fault leaves a cause behind; garbage has left one when it was sent.
LEMMA FaultClear ==
    ASSUME TypeOK, Clear,
           \/ SpoilRx \/ SpoilTx \/ Tear \/ PongLate \/ PongTaken
           \/ CallbackOverruns("main") \/ CallbackOverruns("thread")
           \/ HangupAnyway \/ HangupOnGarbage
    PROVE  causes' # {}
  <1>1. CASE SpoilRx \/ SpoilTx \/ PongLate \/ HangupAnyway
    BY <1>1 DEF SpoilRx, SpoilTx, PongLate, HangupAnyway, Mishap
  <1>2. CASE \/ Tear \/ PongTaken
             \/ CallbackOverruns("main") \/ CallbackOverruns("thread")
    BY <1>2 DEF Tear, PongTaken, CallbackOverruns
  <1>3. CASE HangupOnGarbage
    <2>1. up # <<>> /\ up \in Seq(Requests \cup {"garbage"})
      BY <1>3 DEF HangupOnGarbage, TypeOK
    <2>2. 1 \in 1 .. Len(up) /\ up[1] = Head(up)
      BY <2>1
    <2> QED
      BY <1>3, <2>2 DEF HangupOnGarbage, histVars, Clear, UpIsClean
  <1> QED
    BY <1>1, <1>2, <1>3

LEMMA PlainClear ==
    ASSUME TypeOK, Clear,
           \/ ConnectSucceeds \/ ConnectFails \/ MainGivesUp \/ Close
           \/ Wake \/ ThreadFails \/ PongNever \/ Deliver \/ UNCHANGED vars
    PROVE  Clear'
  <1>1. CASE ThreadFails \/ PongNever
    \* The connection is not open: a cause there is, or the board shuts down.
    <2>1. socket # "open"
      BY <1>1 DEF ThreadFails, PongNever, CanFail
    <2> QED
      BY <1>1, <2>1
      DEF ThreadFails, PongNever, Clear, TxIsOwn, RxIsGood, UpIsClean, Listens,
          bufferVars, histVars
  <1>2. CASE ConnectSucceeds \/ ConnectFails \/ MainGivesUp \/ Close
    BY <1>2
    DEF ConnectSucceeds, ConnectFails, MainGivesUp, Close, Reading,
        Clear, TxIsOwn, RxIsGood, UpIsClean, Listens, bufferVars, histVars
  <1>3. CASE Wake \/ Deliver
    BY <1>3
    DEF Wake, Deliver, Clear, TxIsOwn, RxIsGood, UpIsClean, Listens, appVars,
        bufferVars, histVars
  <1>4. CASE UNCHANGED vars
    BY <1>4
    DEF vars, Clear, TxIsOwn, RxIsGood, UpIsClean, Listens, appVars, bufferVars, histVars
  <1> QED
    BY <1>1, <1>2, <1>3, <1>4

LEMMA NextClear == TypeOK /\ Clear /\ [Next]_vars => Clear'
  <1> SUFFICES ASSUME TypeOK, Clear, [Next]_vars PROVE Clear'
    OBVIOUS
  <1>1. CASE Main
    <2>1. CASE Get("main")
      BY <2>1, GetClear DEF Clients
    <2>2. CASE CallbackOverruns("main")
      BY <2>2, FaultClear DEF Clear
    <2> QED
      BY <1>1, <2>1, <2>2, PlainClear, EncodeClear, SendClear, HandleClear
      DEF Main
  <1>2. CASE Thread
    <2>1. CASE Get("thread")
      BY <2>1, GetClear DEF Clients
    <2>2. CASE CallbackOverruns("thread") \/ PongTaken
      BY <2>2, FaultClear DEF Clear
    <2> QED
      BY <1>2, <2>1, <2>2, PlainClear, EncodeClear, SendClear, HandleClear
      DEF Thread
  <1>3. CASE Broker
    <2>1. CASE HangupOnGarbage
      BY <2>1, FaultClear DEF Clear
    <2> QED
      BY <1>3, <2>1, ServeClear DEF Broker
  <1>4. CASE Environment
    <2>1. CASE SpoilRx \/ SpoilTx \/ Tear \/ PongLate \/ HangupAnyway
      BY <2>1, FaultClear DEF Clear
    <2> QED
      BY <1>4, <2>1, PlainClear, EncodeClear DEF Environment
  <1> QED
    BY <1>1, <1>2, <1>3, <1>4, PlainClear DEF Next

\* A board that is up and hears nothing has had a mishap, or its main and its
\* thread have met in a buffer of the library, or main has read the pong, or a
\* message was too long (wolfMQTT_cpp.cpp:585).
THEOREM ListensUnlessCause == Spec => []DeafForCause
  <1>1. Clear => DeafForCause
    BY DEF Clear, Listens, DeafForCause, Deaf
  <1> QED
    BY <1>1, InitTypes, NextTypes, InitClear, NextClear, PTL DEF Spec

-----------------------------------------------------------------------------
(* The messages, from the broker to the callback: each packet carries the  *)
(* number of those before it, so that what is handled, what is in the      *)
(* buffer and what is on the way make up one count.                        *)

New(packet) == IF packet.type \in Messages THEN 1 ELSE 0

\* The count at the far end of the buffer, before the packet at i, at the broker.
AtBuffer == IF got # {} THEN rx.nr ELSE Len(handled)

Before(i) == IF i = 1 THEN AtBuffer ELSE down[i - 1].nr

AtBroker == IF down = <<>> THEN AtBuffer ELSE down[Len(down)].nr

Undisturbed == causes \cap {"readers", "spoilt", "overrun"} = {}

Chained ==
    /\ got \in {{}, {"main"}, {"thread"}}
    /\ \A k \in 1 .. Len(handled) : handled[k] = k
    /\ got # {} => rx \in Packets /\ rx.nr = Len(handled) + New(rx)
    /\ \A i \in 1 .. Len(down) : down[i].nr = Before(i) + New(down[i])
    /\ AtBroker = sent

Chain == Undisturbed => Chained

LEMMA InitChain == Init => Chain
  BY DEF Init, Chain, Chained, AtBroker, AtBuffer

LEMMA GetChain ==
    ASSUME TypeOK, Chain, NEW c \in Clients, Get(c)
    PROVE  Chain'
  <1>1. SUFFICES ASSUME Undisturbed' PROVE Chained'
    BY DEF Chain
  <1>2. Chained
    BY <1>1 DEF Get, Undisturbed, Chain
  <1>3. got = {}
    BY <1>1, <1>2 DEF Get, Reading, Undisturbed, Other, Clients, Chained
  <1>4. got' = {c} /\ handled' = handled /\ sent' = sent
    BY <1>3 DEF Get, brokerVars
  <1>5. down # <<>> /\ down \in Seq(Packets)
    BY DEF Get, CanGet, TypeOK
  <1>6. /\ Len(down') = Len(down) - 1
        /\ \A i \in 1 .. Len(down') : down'[i] = down[i + 1]
        /\ rx' = down[1] /\ rx' \in Packets /\ 1 \in 1 .. Len(down)
    BY <1>5 DEF Get
  <1>7. rx'.nr = Len(handled') + New(rx')
    BY <1>2, <1>3, <1>4, <1>6 DEF Chained, Before, AtBuffer
  <1>8. AtBuffer' = down[1].nr
    BY <1>4, <1>6 DEF AtBuffer
  <1>9. \A i \in 1 .. Len(down') : down'[i].nr = Before(i)' + New(down'[i])
    <2> SUFFICES ASSUME NEW i \in 1 .. Len(down')
                 PROVE  down'[i].nr = Before(i)' + New(down'[i])
      OBVIOUS
    <2>1. i + 1 \in 1 .. Len(down) /\ down'[i] = down[i + 1]
      BY <1>5, <1>6
    <2>2. Before(i)' = down[i].nr
      <3>1. CASE i = 1
        BY <3>1, <1>8 DEF Before
      <3>2. CASE i # 1
        BY <3>2, <1>6 DEF Before
      <3> QED
        BY <3>1, <3>2
    <2>3. Before(i + 1) = down[i].nr
      BY DEF Before
    <2> QED
      BY <2>1, <2>2, <2>3, <1>2 DEF Chained
  <1>10. AtBroker' = sent'
    <2>1. CASE down' = <<>>
      <3>1. Len(down) = 1
        BY <2>1, <1>5, <1>6
      <3> QED
        BY <2>1, <3>1, <1>2, <1>4, <1>5, <1>8 DEF AtBroker, Chained
    <2>2. CASE down' # <<>>
      <3>1. down' \in Seq(Packets)
        BY <1>5 DEF Get
      <3>2. Len(down') \in 1 .. Len(down')
        BY <3>1, <2>2
      <3>3. down'[Len(down')] = down[Len(down)]
        BY <3>2, <1>5, <1>6
      <3> QED
        BY <2>2, <3>3, <1>2, <1>4, <1>5 DEF AtBroker, Chained
    <2> QED
      BY <2>1, <2>2
  <1> QED
    BY <1>2, <1>4, <1>6, <1>7, <1>9, <1>10 DEF Chained, Clients

LEMMA HandleChain ==
    ASSUME TypeOK, Chain, MainHandles \/ ThreadHandles
    PROVE  Chain'
  <1>1. /\ causes' = causes /\ down' = down /\ sent' = sent /\ rx' = rx
        /\ Handles /\ rx.type # "long"
    BY DEF MainHandles, ThreadHandles, Decoded, histVars, brokerVars
  <1>2. SUFFICES ASSUME Undisturbed PROVE Chained'
    BY <1>1 DEF Undisturbed, Chain
  <1>3. Chained
    BY <1>2 DEF Chain
  <1>4. got # {} /\ got' = {}
    BY <1>3 DEF MainHandles, ThreadHandles, Decoded, Chained
  <1>5. handled \in Seq(0 .. NumDown) /\ rx \in Packets
    BY <1>3, <1>4 DEF TypeOK, Chained
  <1>6. /\ Len(handled') = rx.nr
        /\ \A k \in 1 .. Len(handled') : handled'[k] = k
    <2>1. CASE rx.type = "publish"
      <3>1. handled' = Append(handled, rx.nr) /\ rx.nr \in 0 .. NumDown
        BY <2>1, <1>1, <1>5 DEF Handles, Packets
      <3>2. rx.nr = Len(handled) + 1
        BY <2>1, <1>3, <1>4 DEF Chained, New, Messages
      <3>3. /\ Len(handled') = Len(handled) + 1
            /\ \A k \in 1 .. Len(handled) : handled'[k] = handled[k]
            /\ handled'[Len(handled) + 1] = rx.nr
        BY <3>1, <1>5
      <3> QED
        BY <3>2, <3>3, <1>3, <1>5 DEF Chained
    <2>2. CASE rx.type # "publish"
      <3>1. handled' = handled
        BY <2>2, <1>1 DEF Handles
      <3>2. rx.nr = Len(handled)
        BY <2>2, <1>1, <1>3, <1>4, <1>5 DEF Chained, New, Messages
      <3> QED
        BY <3>1, <3>2, <1>3 DEF Chained
    <2> QED
      BY <2>1, <2>2
  <1>7. AtBuffer' = AtBuffer
    BY <1>4, <1>6 DEF AtBuffer
  <1>8. AtBroker' = AtBroker /\ \A i : Before(i)' = Before(i)
    BY <1>1, <1>7 DEF AtBroker, Before
  <1> QED
    BY <1>1, <1>3, <1>4, <1>6, <1>8 DEF Chained

\* A packet at the end of the queue that carries on the count.
LEMMA AppendChain ==
    ASSUME TypeOK, Chained, NEW p \in Packets, p.nr = sent + New(p),
           down' = Append(down, p), sent' = p.nr,
           UNCHANGED <<got, rx, handled>>
    PROVE  Chained'
  <1>1. down \in Seq(Packets)
    BY DEF TypeOK
  <1>2. /\ Len(down') = Len(down) + 1
        /\ \A i \in 1 .. Len(down) : down'[i] = down[i]
        /\ down'[Len(down) + 1] = p
    BY <1>1
  <1>3. AtBuffer' = AtBuffer
    BY DEF AtBuffer
  <1>4. \A i \in 1 .. Len(down) : Before(i)' = Before(i)
    BY <1>1, <1>2, <1>3 DEF Before
  <1>5. ASSUME NEW i, i = Len(down) + 1
        PROVE  Before(i)' = sent
    <2>1. CASE down = <<>>
      <3>1. i = 1
        BY <2>1, <1>5
      <3> QED
        BY <2>1, <3>1, <1>3 DEF Before, AtBroker, Chained
    <2>2. CASE down # <<>>
      <3>1. Len(down) \in 1 .. Len(down) /\ i # 1 /\ i - 1 = Len(down)
        BY <2>2, <1>1, <1>5
      <3>2. Before(i)' = down'[i - 1].nr
        BY <3>1 DEF Before
      <3> QED
        BY <2>2, <3>1, <3>2, <1>2 DEF AtBroker, Chained
    <2> QED
      BY <2>1, <2>2
  <1>6. \A i \in 1 .. Len(down') : down'[i].nr = Before(i)' + New(down'[i])
    <2> SUFFICES ASSUME NEW i \in 1 .. Len(down')
                 PROVE  down'[i].nr = Before(i)' + New(down'[i])
      OBVIOUS
    <2>1. CASE i \in 1 .. Len(down)
      BY <2>1, <1>2, <1>4 DEF Chained
    <2>2. CASE i = Len(down) + 1
      BY <2>2, <1>2, <1>5
    <2> QED
      BY <2>1, <2>2, <1>1, <1>2
  <1>7. AtBroker' = sent'
    BY <1>1, <1>2 DEF AtBroker
  <1> QED
    BY <1>6, <1>7 DEF Chained

LEMMA BrokerChain ==
    ASSUME TypeOK, Chain, Serve \/ Deliver
    PROVE  Chain'
  <1>1. causes' = causes /\ UNCHANGED <<got, rx, handled>>
    BY DEF Serve, Deliver, histVars, bufferVars
  <1>2. SUFFICES ASSUME Undisturbed PROVE Chained'
    BY <1>1 DEF Undisturbed, Chain
  <1>3. Chained /\ sent \in 0 .. NumDown
    BY <1>2 DEF Chain, TypeOK
  <1>4. CASE Serve
    <2>1. sent' = sent
      BY <1>4 DEF Serve
    <2>2. ASSUME NEW type \in {"suback", "pingresp"}, down' = Answer(type)
          PROVE  Chained'
      <3> DEFINE p == [type |-> type, nr |-> sent]
      <3>1. p \in Packets /\ p.nr = sent + New(p)
        BY <1>3 DEF Packets, New, Messages
      <3> QED
        BY <3>1, <2>1, <2>2, <1>1, <1>3, AppendChain DEF Answer
    <2>3. CASE down' = down
      BY <2>1, <2>3, <1>1, <1>3 DEF Chained, Before, AtBroker, AtBuffer
    <2> QED
      BY <1>4, <2>2, <2>3 DEF Serve
  <1>5. CASE Deliver
    <2>1. PICK type \in Messages :
              down' = Append(down, [type |-> type, nr |-> sent + 1])
      BY <1>5 DEF Deliver
    <2> DEFINE p == [type |-> type, nr |-> sent + 1]
    <2>2. p \in Packets /\ p.nr = sent + New(p)
      BY <1>3, <1>5, LinkAssumption DEF Packets, New, Deliver
    <2>3. sent' = p.nr
      BY <1>5 DEF Deliver
    <2> QED
      BY <2>1, <2>2, <2>3, <1>1, <1>3, AppendChain
  <1> QED
    BY <1>4, <1>5

LEMMA QuietChain ==
    ASSUME Chain, UNCHANGED <<got, rx, handled, down, sent>>,
           causes \subseteq causes'
    PROVE  Chain'
  BY DEF Chain, Undisturbed, Chained, Before, AtBroker, AtBuffer

LEMMA MainChain ==
    ASSUME Chain,
           \/ ConnectSucceeds \/ ConnectFails \/ MainGivesUp \/ Close
           \/ Subscribe \/ SendSubscribe \/ Publish \/ SendPublish
    PROVE  Chain'
  BY QuietChain
  DEF ConnectSucceeds, ConnectFails, MainGivesUp, Close, Subscribe,
      SendSubscribe, Publish, SendPublish, Encode, Send, bufferVars,
      brokerVars, histVars

LEMMA ThreadChain ==
    ASSUME Chain,
           \/ Wake \/ Ping \/ SendPing \/ ThreadFails
           \/ PongNever \/ PongLate \/ PongTaken
    PROVE  Chain'
  BY QuietChain
  DEF Wake, Ping, SendPing, ThreadFails, PongNever, PongLate, PongTaken, Mishap,
      Encode, Send, bufferVars, brokerVars, histVars

LEMMA FaultChain ==
    ASSUME Chain,
           \/ SpoilTx \/ Tear \/ HangupAnyway \/ HangupOnGarbage
           \/ UNCHANGED vars
    PROVE  Chain'
  BY QuietChain
  DEF SpoilTx, Tear, HangupAnyway, HangupOnGarbage, Hangup, Mishap, vars,
      bufferVars, brokerVars, histVars

LEMMA SpoilChain ==
    ASSUME SpoilRx \/ CallbackOverruns("main") \/ CallbackOverruns("thread")
    PROVE  Chain'
  BY DEF SpoilRx, CallbackOverruns, Mishap, Chain, Undisturbed

LEMMA NextChain == TypeOK /\ Chain /\ [Next]_vars => Chain'
  <1> SUFFICES ASSUME TypeOK, Chain, [Next]_vars PROVE Chain'
    OBVIOUS
  <1>1. CASE Main
    <2>1. CASE Get("main")
      BY <2>1, GetChain DEF Clients
    <2> QED
      BY <1>1, <2>1, MainChain, HandleChain, SpoilChain DEF Main
  <1>2. CASE Thread
    <2>1. CASE Get("thread")
      BY <2>1, GetChain DEF Clients
    <2> QED
      BY <1>2, <2>1, ThreadChain, HandleChain, SpoilChain
      DEF Thread
  <1>3. CASE Broker
    BY <1>3, BrokerChain, FaultChain DEF Broker
  <1>4. CASE Environment
    BY <1>4, MainChain, ThreadChain, BrokerChain, FaultChain, SpoilChain
    DEF Environment
  <1> QED
    BY <1>1, <1>2, <1>3, <1>4, FaultChain DEF Next

\* The messages are handled in the order they were sent, none left out and
\* none twice, unless a buffer was spoilt, main and the thread read at the
\* same time or a message was too long (wolfMQTT_cpp.cpp:466).
THEOREM HandledInOrder == Spec => []InOrder
  <1>1. Chain => InOrder
    BY DEF Chain, Undisturbed, Chained, InOrder
  <1> QED
    BY <1>1, InitTypes, NextTypes, InitChain, NextChain, PTL DEF Spec
=============================================================================
