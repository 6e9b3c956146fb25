------------------------------ MODULE RelayProof ------------------------------
(***************************************************************************)
(* Theorems about remote mode, for every number of requests and mishaps.   *)
(***************************************************************************)
EXTENDS Relay, SequenceTheorems, TLAPS

\* The messages DUTs write, and what a torn read yields, are packets.
LEMMA PacketTypes ==
    /\ Torn \in Packet
    /\ <<>> \in Packet
    /\ \A n \in Nat : /\ Whole(n) \in Packet
                      /\ HeadOf(n) \in Packet
                      /\ TailOf(n) \in Packet
  BY DEF Torn, Packet, Piece, Parts, Whole, HeadOf, TailOf

\* A DUT that has read one complete message leaves a packet behind it.
LEMMA MessageTypes ==
    ASSUME NEW s \in Packet, Complete(s)
    PROVE  /\ Head(s).id \in Nat
           /\ AfterMessage(s) \in Packet
  <1>1. s \in Seq(Piece) /\ Len(s) \in Nat /\ Len(s) > 0
    BY DEF Packet, Complete
  <1>2. Head(s) = s[1] /\ s[1] \in Piece
    BY <1>1
  <1>3. Head(s).id \in Nat
    BY <1>2 DEF Piece
  <1>4. Tail(s) \in Packet /\ Len(Tail(s)) = Len(s) - 1
    BY <1>1 DEF Packet
  <1>5. Head(s).part # "whole" => Tail(Tail(s)) \in Packet
    <2> SUFFICES ASSUME Head(s).part # "whole" PROVE Tail(Tail(s)) \in Packet
      OBVIOUS
    <2>1. Len(s) > 1
      BY <1>1 DEF Complete
    <2>2. ASSUME NEW t \in Seq(Piece), Len(t) > 0
          PROVE  Tail(t) \in Seq(Piece)
      BY <2>2
    <2>3. Tail(s) \in Seq(Piece) /\ Len(Tail(s)) > 0
      BY <2>1, <1>4, <1>1 DEF Packet
    <2> QED
      BY <2>2, <2>3 DEF Packet
  <1> QED
    BY <1>3, <1>4, <1>5 DEF AfterMessage

LEMMA InitType == Init => TypeOK
  BY RelayAssumption DEF Init, TypeOK, Packet, Boards

\* A mishap leaves the two histories in their types.
LEMMA MishapType ==
    ASSUME TypeOK, NEW kind, Mishap(kind)
    PROVE  /\ mishaps' \in 0..MaxMishaps
           /\ faults' \subseteq
                 {"drop", "loss", "split", "exit", "tear", "wipe", "overrun"}
  BY RelayAssumption DEF Mishap, TypeOK

\* The steps of the MQTT thread keep every variable in its type.
LEMMA CallbackType ==
    ASSUME NEW b \in Boards, TypeOK, Callback(b)
    PROVE  TypeOK'
  <1>1. CASE RaiseFlag(b)
    BY <1>1 DEF RaiseFlag, TypeOK, threadVars, linkVars, dutVars
  <1>2. CASE ReleasePacket(b)
    BY <1>2, PacketTypes
    DEF ReleasePacket, TypeOK, threadVars, linkVars, dutVars, histVars
  <1>3. CASE StorePacket(b)
    BY <1>3 DEF StorePacket, TypeOK, threadVars, linkVars, dutVars, histVars
  <1> QED
    BY <1>1, <1>2, <1>3 DEF Callback

\* The steps the relay threads share keep every variable in its type.
LEMMA ThreadStepType ==
    ASSUME NEW b \in Boards, TypeOK,
           NEW next \in {"again", "connect", "poll", "convert", "send",
                         "receive", "publish", "clear", "exited"},
           \/ Poll(b, next) \/ Convert(b, next) \/ Send(b, next)
           \/ Receive(b, next) \/ PeerClosed(b) \/ Again(b)
           \/ Connected(b, next) \/ Publish(b, next) \/ ClearFlag(b, next)
    PROVE  TypeOK'
  <1>1. CASE Poll(b, next)
    BY <1>1 DEF Poll, TypeOK, mailVars, linkVars, dutVars, histVars
  <1>2. CASE Convert(b, next)
    BY <1>2 DEF Convert, TypeOK, mailVars, linkVars, dutVars
  <1>3. CASE Send(b, next)
    <2>1. toDut' \in [Boards -> Packet]
      BY <1>3 DEF Send, TypeOK, Packet
    <2> QED
      BY <1>3, <2>1 DEF Send, TypeOK, mailVars, dutVars, histVars
  <1>4. CASE Receive(b, next)
    BY <1>4, PacketTypes DEF Receive, TypeOK, mailVars, dutVars, histVars
  <1>5. CASE PeerClosed(b)
    BY <1>5 DEF PeerClosed, TypeOK, mailVars, linkVars, dutVars, histVars
  <1>6. CASE Again(b)
    BY <1>6, PacketTypes DEF Again, TypeOK, mailVars, dutVars, histVars
  <1>7. CASE Connected(b, next)
    BY <1>7 DEF Connected, TypeOK, mailVars, dutVars, histVars
  <1>8. CASE Publish(b, next)
    <2>1. topic' \in [Boards -> Seq(Packet)]
      <3>1. Other(b) \in Boards
        BY DEF Other, Boards
      <3>2. Append(topic[Other(b)], buffer[b]) \in Seq(Packet)
        BY <3>1 DEF TypeOK
      <3> QED
        BY <1>8, <3>1, <3>2 DEF Publish, TypeOK
    <2>2. /\ mishaps' \in 0..MaxMishaps
          /\ faults' \subseteq
                {"drop", "loss", "split", "exit", "tear", "wipe", "overrun"}
      BY <1>8, MishapType DEF Publish, TypeOK
    <2> QED
      BY <1>8, <2>1, <2>2 DEF Publish, TypeOK, mailVars, linkVars, dutVars
  <1>9. CASE ClearFlag(b, next)
    BY <1>9 DEF ClearFlag, TypeOK, linkVars, dutVars
  <1> QED
    BY <1>1, <1>2, <1>3, <1>4, <1>5, <1>6, <1>7, <1>8, <1>9

\* So does either relay thread.
LEMMA ThreadType ==
    ASSUME TypeOK, Server \/ ServerAccept \/ Client
    PROVE  TypeOK'
  <1>1. CASE Server \/ ServerAccept
    BY <1>1, ThreadStepType
    DEF Server, ServerAgain, ServerAccept, ServerReceive, ServerPeerClosed,
        ServerPublish, ServerPoll, ServerConvert, ServerSend, ServerClear,
        Boards
  <1>2. CASE Client
    BY <1>2, ThreadStepType
    DEF Client, ClientAgain, ClientConnect, ClientPoll, ClientConvert,
        ClientSend, ClientReceive, ClientPeerClosed, ClientPublish,
        ClientClear, Boards
  <1> QED
    BY <1>1, <1>2

\* So do the exit of a board and the steps of its DUT's connection.
LEMMA LinkType ==
    ASSUME NEW b \in Boards, TypeOK,
           Exit(b) \/ DutWritesTail(b) \/ DutCloses(b) \/ DutRefuses(b)
    PROVE  TypeOK'
  <1>1. GiveUp(b) \in Seq(Nat)
    BY DEF GiveUp, TypeOK
  <1>2. CASE Exit(b)
    <2>1. topic' \in [Boards -> Seq(Packet)]
      BY <1>2 DEF Exit, TypeOK
    <2> QED
      BY <1>1, <1>2, <2>1, MishapType, PacketTypes DEF Exit, TypeOK
  <1>3. CASE DutWritesTail(b)
    <2>1. toBoard' \in [Boards -> Packet]
      BY <1>3 DEF DutWritesTail, TypeOK, Packet
    <2> QED
      BY <1>3, <2>1, PacketTypes
      DEF DutWritesTail, TypeOK, mailVars, threadVars, dutVars, histVars
  <1>4. ASSUME Hangup(b),
               mishaps' \in 0..MaxMishaps,
               faults' \subseteq
                  {"drop", "loss", "split", "exit", "tear", "wipe", "overrun"}
        PROVE  TypeOK'
    <2>1. toBoard' \in [Boards -> Packet]
      BY <1>4, PacketTypes DEF Hangup, TypeOK
    <2> QED
      BY <1>1, <1>4, <2>1, PacketTypes
      DEF Hangup, TypeOK, mailVars, threadVars
  <1>5. CASE DutCloses(b)
    BY <1>4, <1>5, MishapType DEF DutCloses
  <1>6. CASE DutRefuses(b)
    BY <1>4, <1>6 DEF DutRefuses, TypeOK
  <1> QED
    BY <1>2, <1>3, <1>5, <1>6

\* A DUT that writes a message keeps the connection's variables typed.
LEMMA WriteType ==
    ASSUME NEW b \in Boards, NEW n \in Nat, TypeOK, DutWrites(b, n)
    PROVE  /\ toBoard' \in [Boards -> Packet]
           /\ owed' \in [Boards -> Packet]
           /\ mishaps' \in 0..MaxMishaps
           /\ faults' \subseteq
                 {"drop", "loss", "split", "exit", "tear", "wipe", "overrun"}
  <1>1. toBoard' \in [Boards -> Packet]
    <2>1. ASSUME NEW p \in Packet PROVE toBoard[b] \o p \in Packet
      BY DEF Packet, TypeOK
    <2>2. /\ toBoard[b] \o Whole(n) \in Packet
          /\ toBoard[b] \o HeadOf(n) \in Packet
      BY <2>1, PacketTypes
    <2> QED
      BY <2>2 DEF DutWrites, TypeOK
  <1>2. owed' \in [Boards -> Packet]
    <2>1. TailOf(n) \in Packet
      BY PacketTypes
    <2>2. owed' = owed \/ owed' = [owed EXCEPT ![b] = TailOf(n)]
      BY DEF DutWrites
    <2> QED
      BY <2>1, <2>2 DEF TypeOK
  <1> QED
    BY <1>1, <1>2, MishapType DEF DutWrites, TypeOK

\* The requests and answers of the DUTs keep every variable in its type.
LEMMA DutType ==
    ASSUME TypeOK, EvAsks \/ EvTakesAnswer \/ EvseServes
    PROVE  TypeOK'
  <1> USE DEF Boards
  <1>1. CASE EvAsks
    <2>1. asked + 1 \in Nat /\ asked' \in 0..MaxRequests
      BY <1>1, RelayAssumption DEF EvAsks, TypeOK
    <2> QED
      BY <1>1, <2>1, WriteType
      DEF EvAsks, TypeOK, mailVars, threadVars
  <1>2. CASE EvTakesAnswer
    <2>1. /\ Head(toDut["EVSE"]).id \in Nat
          /\ AfterMessage(toDut["EVSE"]) \in Packet
      BY <1>2, MessageTypes DEF EvTakesAnswer, TypeOK
    <2>2. answers' \in Seq(Nat) /\ toDut' \in [Boards -> Packet]
      BY <1>2, <2>1 DEF EvTakesAnswer, TypeOK
    <2> QED
      BY <1>2, <2>2 DEF EvTakesAnswer, TypeOK, mailVars, threadVars, histVars
  <1>3. CASE EvseServes
    <2>1. /\ Head(toDut["EV"]).id \in Nat
          /\ AfterMessage(toDut["EV"]) \in Packet
      BY <1>3, MessageTypes DEF EvseServes, TypeOK
    <2>2. seen' \in Seq(Nat) /\ toDut' \in [Boards -> Packet]
      BY <1>3, <2>1 DEF EvseServes, TypeOK
    <2> QED
      BY <1>3, <2>1, <2>2, WriteType
      DEF EvseServes, TypeOK, mailVars, threadVars
  <1> QED
    BY <1>1, <1>2, <1>3

LEMMA NextType == TypeOK /\ [Next]_vars => TypeOK'
  <1> SUFFICES ASSUME TypeOK, [Next]_vars PROVE TypeOK'
    OBVIOUS
  <1>1. CASE UNCHANGED vars
    BY <1>1
    DEF TypeOK, vars, mailVars, threadVars, linkVars, dutVars, histVars
  <1>2. CASE Next
    BY <1>2, CallbackType, ThreadType, LinkType, DutType DEF Next
  <1> QED
    BY <1>1, <1>2

\* TypeOK, the type of every variable of the relay, is an invariant: flags,
\* packets, threads and connections stay within what the code declares.
THEOREM TypeCorrect == Spec => []TypeOK
  BY InitType, NextType, PTL DEF Spec

-----------------------------------------------------------------------------
(* The inductive invariant.  Without a dropped connection or a torn packet *)
(* at most one message of the current request is under way, and where it   *)
(* is decides what has been served, flagged and left unread.               *)

Sound == faults \intersect {"drop", "tear"} = {}

\* A message in two pieces that have caught up with each other.
Joined(n) == <<[id |-> n, part |-> "head"], [id |-> n, part |-> "tail"]>>

Msg(n) == {Whole(n), HeadOf(n), Joined(n)}

\* A message is with the EVSE board or the EV DUT, or with the EV board's
\* relay thread or the EVSE DUT.
Held == pc["EVSE"] \notin {"poll", "convert", "exited"}
AtEv == pc["EV"] \in {"send", "receive", "publish"}

OneToken ==
    /\ ~(Held /\ AtEv)
    /\ Held \/ AtEv => ~fresh["EV"] /\ ~fresh["EVSE"]
    /\ ~(fresh["EV"] /\ fresh["EVSE"])
    /\ Held \/ AtEv \/ fresh["EV"] \/ fresh["EVSE"] =>
          topic["EV"] = <<>> /\ topic["EVSE"] = <<>>
    /\ topic["EV"] = <<>> \/ topic["EVSE"] = <<>>
    /\ \A b \in Boards : Len(topic[b]) <= 1

\* A flag that is up announces a packet nobody has read, or is on its way
\* down.
Flags ==
    /\ rth_data_received["EV"] =>
          fresh["EV"] \/ pc["EV"] \in {"send", "receive", "publish", "clear",
                                       "exited"}
    /\ rth_data_received["EVSE"] =>
          fresh["EVSE"] \/ pc["EVSE"] \in {"send", "clear", "exited"}
    /\ \A b \in Boards : pc[b] = "convert" => fresh[b]

Links ==
    /\ \A b \in Boards :
          /\ link[b] # "closed"
          /\ link[b] = "open" <=> pc[b] \notin {"again", "connect", "exited"}
    /\ pc["EVSE"] \in {"again", "connect"} => asked = 0

\* Requests are served in order, one behind at most; so are they answered.
Log ==
    /\ \A i \in 1..Len(seen) : seen[i] = i
    /\ \A i \in 1..Len(answers) : answers[i] \in {0, i}
    /\ Len(seen) <= asked /\ asked <= Len(seen) + 1
    /\ Len(answers) <= asked /\ asked <= Len(answers) + 1

Served == Len(seen) = asked

\* Nothing that the DUT of board b wrote is left unread.
Drained(b) == toBoard[b] = <<>> /\ owed[b] = <<>>

Quiet ==
    /\ Served => Drained("EVSE")
    /\ ~Served => Drained("EV")
    /\ ~waiting /\ pc["EVSE"] # "exited" =>
          /\ Served
          /\ Drained("EV")
          /\ pc["EVSE"] \in {"again", "connect", "clear", "receive"}

\* The DUT of board b has written the current message, or half of it.
Written(b) ==
    \/ toBoard[b] \in {Whole(asked), Joined(asked)} /\ owed[b] = <<>>
    \/ toBoard[b] = HeadOf(asked) /\ owed[b] = TailOf(asked)

\* p is the current message, as the board b read it from its DUT.
Carried(b, p) ==
    /\ p \in Msg(asked)
    /\ p # HeadOf(asked) => Drained(b)

InMailbox(b) == IF callback[b] = "idle" THEN rth_datapacket[b] ELSE message[b]

\* What is under way before the request is served is the request.
Request ==
    /\ pc["EVSE"] \in {"clear", "receive"} /\ ~Served => Written("EVSE")
    /\ pc["EVSE"] = "publish" => ~Served /\ Carried("EVSE", buffer["EVSE"])
    /\ topic["EV"] # <<>> => ~Served /\ Carried("EVSE", Head(topic["EV"]))
    /\ fresh["EV"] /\ pc["EV"] # "exited" =>
          ~Served /\ Carried("EVSE", InMailbox("EV"))
    /\ pc["EV"] = "send" => ~Served /\ Carried("EVSE", buffer["EV"])
    /\ toDut["EV"] # <<>> =>
          pc["EV"] = "receive" /\ ~Served /\ Carried("EVSE", toDut["EV"])

\* What is under way once it is served is its answer.
Answer ==
    /\ pc["EV"] = "receive" /\ toDut["EV"] = <<>> => Served /\ Written("EV")
    /\ pc["EV"] = "publish" => Served /\ Carried("EV", buffer["EV"])
    /\ topic["EVSE"] # <<>> => Served /\ Carried("EV", Head(topic["EVSE"]))
    /\ fresh["EVSE"] /\ pc["EVSE"] # "exited" =>
          Served /\ Carried("EV", InMailbox("EVSE"))
    /\ pc["EVSE"] = "send" => Served /\ Carried("EV", buffer["EVSE"])
    /\ toDut["EVSE"] # <<>> =>
          /\ pc["EVSE"] \in {"clear", "receive"}
          /\ Served
          /\ waiting
          /\ Carried("EV", toDut["EVSE"])

IInv ==
    /\ OneToken
    /\ Flags
    /\ Links
    /\ Log
    /\ Quiet
    /\ Request
    /\ Answer

\* What the shape of messages gives: the pieces join up, only a complete
\* message is read, and nothing is left behind it.
LEMMA Messages ==
    ASSUME NEW n \in Nat
    PROVE  /\ HeadOf(n) \o TailOf(n) = Joined(n)
           /\ HeadOf(n) \notin {Whole(n), Joined(n), <<>>}
           /\ Whole(n) # <<>> /\ Joined(n) # <<>> /\ TailOf(n) # <<>>
           /\ ~Complete(HeadOf(n))
           /\ \A p \in {Whole(n), Joined(n)} :
                 Head(p).id = n /\ AfterMessage(p) = <<>>
  <1>1. HeadOf(n) \o TailOf(n) = Joined(n)
    <2> DEFINE s == HeadOf(n) \o TailOf(n)
    <2>1. HeadOf(n) \in Seq(Piece) /\ TailOf(n) \in Seq(Piece)
      BY PacketTypes DEF Packet
    <2>2. s \in Seq(Piece) /\ Len(s) = 2
      BY <2>1 DEF HeadOf, TailOf
    <2>3. s[1] = HeadOf(n)[1] /\ s[2] = TailOf(n)[1]
      BY <2>1 DEF HeadOf, TailOf
    <2>4. Joined(n) \in Seq(Piece) /\ Len(Joined(n)) = 2
      BY DEF Joined, Piece, Parts
    <2>5. \A i \in 1..2 : s[i] = Joined(n)[i]
      BY <2>3 DEF HeadOf, TailOf, Joined
    <2> QED
      BY <2>2, <2>4, <2>5, SeqEqual
  <1>2. /\ HeadOf(n) \notin {Whole(n), Joined(n), <<>>}
        /\ Whole(n) # <<>> /\ Joined(n) # <<>> /\ TailOf(n) # <<>>
    BY DEF HeadOf, TailOf, Joined, Whole
  <1>3. ~Complete(HeadOf(n))
    BY DEF HeadOf, Complete
  <1>4. Head(Whole(n)).id = n /\ AfterMessage(Whole(n)) = <<>>
    BY DEF Whole, AfterMessage
  <1>5. Head(Joined(n)).id = n /\ AfterMessage(Joined(n)) = <<>>
    <2>1. /\ Head(Joined(n)) = [id |-> n, part |-> "head"]
          /\ Tail(Joined(n)) = <<[id |-> n, part |-> "tail"]>>
      BY DEF Joined
    <2>2. Tail(<<[id |-> n, part |-> "tail"]>>) = <<>>
      OBVIOUS
    <2> QED
      BY <2>1, <2>2 DEF AfterMessage
  <1> QED
    BY <1>1, <1>2, <1>3, <1>4, <1>5

\* Before the boards connect, nothing is under way.
LEMMA InitInv == Init => IInv
  BY DEF Init, IInv, OneToken, Held, AtEv, Flags, Links, Log, Quiet,
         Served, Drained, Request, Answer, waiting, Boards

\* A message that is announced moves from the topic to the mailbox.
LEMMA RaiseInv ==
    ASSUME NEW b \in Boards, TypeOK, IInv, RaiseFlag(b)
    PROVE  IInv'
  <1> USE DEF RaiseFlag, TypeOK, IInv, mailVars, threadVars, linkVars,
              dutVars, histVars, Boards, Held, AtEv
  <1>1. OneToken'
    BY DEF OneToken
  <1>2. Flags'
    BY DEF Flags
  <1>3. Links'
    BY DEF Links
  <1>4. Log'
    BY DEF Log
  <1>5. Quiet'
    BY DEF Quiet, Served, Drained, waiting
  <1>6. Request'
    BY DEF OneToken, Request, Served, Drained, Carried, InMailbox
  <1>7. Answer'
    BY DEF OneToken, Answer, Served, Drained, Carried, InMailbox
  <1> QED
    BY <1>1, <1>2, <1>3, <1>4, <1>5, <1>6, <1>7

\* The mailbox keeps it while handle_message stores it.
LEMMA StoreInv ==
    ASSUME NEW b \in Boards, TypeOK, IInv, ReleasePacket(b) \/ StorePacket(b)
    PROVE  IInv'
  <1> USE DEF ReleasePacket, StorePacket, TypeOK, IInv, mailVars, threadVars,
              linkVars, dutVars, histVars, Boards, Held, AtEv
  <1>1. OneToken'
    BY DEF OneToken
  <1>2. Flags'
    BY DEF Flags
  <1>3. Links'
    BY DEF Links
  <1>4. Log'
    BY DEF Log
  <1>5. Quiet'
    BY DEF Quiet, Served, Drained, waiting
  <1>6. Request'
    BY DEF Request, Served, Drained, Written, Carried, InMailbox
  <1>7. Answer'
    BY DEF Answer, Served, Drained, Written, Carried, InMailbox, waiting
  <1> QED
    BY <1>1, <1>2, <1>3, <1>4, <1>5, <1>6, <1>7

\* A flag that is found up announces a packet: the mailbox is full.
LEMMA PollInv ==
    ASSUME TypeOK, IInv, ServerPoll \/ ClientPoll
    PROVE  IInv'
  <1> USE DEF ServerPoll, ClientPoll, Poll, TypeOK, IInv, mailVars,
              threadVars, linkVars, dutVars, histVars, Boards, Held, AtEv
  <1>1. OneToken'
    BY DEF OneToken
  <1>2. Flags'
    BY DEF Flags
  <1>3. Links'
    BY DEF Links
  <1>4. Log'
    BY DEF Log
  <1>5. Quiet'
    BY DEF Quiet, Served, Drained, waiting
  <1>6. Request'
    BY DEF Request, Served, Drained, Written, Carried, InMailbox
  <1>7. Answer'
    BY DEF Answer, Served, Drained, Written, Carried, InMailbox, waiting
  <1> QED
    BY <1>1, <1>2, <1>3, <1>4, <1>5, <1>6, <1>7

\* Unless it is torn, the packet read is the one announced.
LEMMA ConvertInv ==
    ASSUME TypeOK, IInv, Sound', ServerConvert \/ ClientConvert
    PROVE  IInv'
  <1> USE DEF ServerConvert, ClientConvert, Convert, Sound, TypeOK, IInv,
              mailVars, threadVars, linkVars, dutVars, histVars, Boards, Held,
              AtEv
  <1>0. PICK b \in Boards : /\ Convert(b, "send")
                            /\ callback[b] = "idle"
                            /\ fresh[b]
    BY DEF Flags
  <1>1. OneToken'
    BY <1>0 DEF OneToken
  <1>2. Flags'
    BY DEF Flags
  <1>3. Links'
    BY DEF Links
  <1>4. Log'
    BY DEF Log
  <1>5. Quiet'
    BY DEF Quiet, Served, Drained, waiting
  <1>6. Request'
    BY <1>0 DEF Request, Served, Drained, Written, Carried, InMailbox
  <1>7. Answer'
    BY DEF OneToken, Flags, Links, Quiet, Request, Answer, Served, Drained,
           Written, Carried, InMailbox
  <1> QED
    BY <1>1, <1>2, <1>3, <1>4, <1>5, <1>6, <1>7

\* It is written to a connection with nothing else in it.
LEMMA SendInv ==
    ASSUME TypeOK, IInv, ServerSend \/ ClientSend
    PROVE  IInv'
  <1> USE DEF ServerSend, ClientSend, Send, TypeOK, IInv, mailVars,
              threadVars, linkVars, dutVars, histVars, Boards, Held, AtEv
  <1> DEFINE next(b) == IF b = "EV" THEN "receive" ELSE "clear"
  <1>0. PICK b \in Boards :
           /\ pc[b] = "send"
           /\ pc' = [pc EXCEPT ![b] = next(b)]
           /\ toDut' = [toDut EXCEPT ![b] = buffer[b]]
    <2>1. PICK b \in Boards :
             /\ pc[b] = "send"
             /\ pc' = [pc EXCEPT ![b] = next(b)]
             /\ toDut[b] = <<>>
             /\ toDut' = [toDut EXCEPT ![b] = toDut[b] \o buffer[b]]
      BY DEF Links, Request, Answer
    <2>2. <<>> \o buffer[b] = buffer[b]
      BY ConcatEmptySeq DEF Packet
    <2> QED
      BY <2>1, <2>2
  <1>m. \A c \in Boards : \A q \in Packet : Carried(c, q) => q # <<>>
    <2>1. asked \in Nat
      OBVIOUS
    <2> QED
      BY <2>1, Messages DEF Carried, Msg
  <1>1. OneToken'
    BY DEF OneToken
  <1>2. Flags'
    BY DEF Flags
  <1>3. Links'
    BY DEF Links
  <1>4. Log'
    BY DEF Log
  <1>5. Quiet'
    BY DEF Quiet, Served, Drained, waiting
  <1>6. Request'
    BY <1>0, <1>m DEF OneToken, Request, Answer, Served, Drained, Carried
  <1>7. Answer'
    BY <1>0, <1>m DEF Quiet, Request, Answer, Served, Drained, Written,
                      Carried, InMailbox, waiting
  <1> QED
    BY <1>1, <1>2, <1>3, <1>4, <1>5, <1>6, <1>7

\* What a board receives is the current request, or its answer.
LEMMA ReceiveInv ==
    ASSUME TypeOK, IInv, ServerReceive \/ ClientReceive
    PROVE  IInv'
  <1> USE DEF ServerReceive, ClientReceive, Receive, TypeOK, IInv, mailVars,
              threadVars, linkVars, dutVars, histVars, Boards, Held, AtEv
  <1>1. OneToken'
    BY DEF OneToken
  <1>2. Flags'
    BY DEF Flags
  <1>3. Links'
    BY DEF Links
  <1>4. Log'
    BY DEF Log
  <1>5. Quiet'
    BY DEF Quiet, Served, Drained, waiting
  <1>6. Request'
    BY DEF Quiet, Request, Served, Drained, Written, Carried, Msg, InMailbox
  <1>7. Answer'
    BY DEF Quiet, Request, Answer, Served, Drained, Written, Carried, Msg,
           InMailbox, waiting
  <1> QED
    BY <1>1, <1>2, <1>3, <1>4, <1>5, <1>6, <1>7

\* A message published reaches the other board's topic, or is lost.
LEMMA PublishInv ==
    ASSUME TypeOK, IInv, ServerPublish \/ ClientPublish
    PROVE  IInv'
  <1> USE DEF ServerPublish, ClientPublish, Publish, Other, Mishap, TypeOK,
              IInv, mailVars, threadVars, linkVars, dutVars, histVars, Boards,
              Held, AtEv
  <1>1. OneToken'
    BY DEF OneToken
  <1>2. Flags'
    BY DEF Flags
  <1>3. Links'
    BY DEF Links
  <1>4. Log'
    BY DEF Log
  <1>5. Quiet'
    BY DEF Quiet, Served, Drained, waiting
  <1>6. Request'
    BY DEF OneToken, Request, Served, Drained, Carried
  <1>7. Answer'
    BY DEF OneToken, Answer, Served, Drained, Carried
  <1> QED
    BY <1>1, <1>2, <1>3, <1>4, <1>5, <1>6, <1>7

\* Clearing the flag loses at most the message it announced.
LEMMA ClearInv ==
    ASSUME TypeOK, IInv, ServerClear \/ ClientClear
    PROVE  IInv'
  <1> USE DEF ServerClear, ClientClear, ClearFlag, TypeOK, IInv, mailVars,
              threadVars, linkVars, dutVars, histVars, Boards, Held, AtEv
  <1>1. OneToken'
    BY DEF OneToken
  <1>2. Flags'
    BY DEF Flags
  <1>3. Links'
    BY DEF Links
  <1>4. Log'
    BY DEF Log
  <1>5. Quiet'
    BY DEF Quiet, Served, Drained, waiting
  <1>6. Request'
    BY DEF Request, Served, Drained, Written, Carried, InMailbox
  <1>7. Answer'
    BY DEF Answer, Served, Drained, Written, Carried, InMailbox, waiting
  <1> QED
    BY <1>1, <1>2, <1>3, <1>4, <1>5, <1>6, <1>7

\* A thread creates a socket only before the first connection.
LEMMA AgainInv ==
    ASSUME TypeOK, IInv, ServerAgain \/ ClientAgain
    PROVE  IInv'
  <1> USE DEF ServerAgain, ClientAgain, Again, TypeOK, IInv, mailVars,
              threadVars, linkVars, dutVars, histVars, Boards, Held, AtEv
  <1>1. OneToken'
    BY DEF OneToken
  <1>2. Flags'
    BY DEF Flags
  <1>3. Links'
    BY DEF Links
  <1>4. Log'
    BY DEF Log
  <1>5. Quiet'
    BY DEF Quiet, Served, Drained, waiting
  <1>6. Request'
    BY DEF Request, Served, Drained, Written, Carried, InMailbox
  <1>7. Answer'
    BY DEF OneToken, Answer, Served, Drained, Carried, InMailbox, waiting
  <1> QED
    BY <1>1, <1>2, <1>3, <1>4, <1>5, <1>6, <1>7

\* It connects before anything is asked.
LEMMA ConnectInv ==
    ASSUME TypeOK, IInv, ServerAccept \/ ClientConnect
    PROVE  IInv'
  <1> USE DEF ServerAccept, ClientConnect, Connected, TypeOK, IInv, mailVars,
              threadVars, linkVars, dutVars, histVars, Boards, Held, AtEv
  <1>1. OneToken'
    BY DEF OneToken
  <1>2. Flags'
    BY DEF Flags
  <1>3. Links'
    BY DEF Links
  <1>4. Log'
    BY DEF Log
  <1>5. Quiet'
    BY DEF Quiet, Served, Drained, waiting
  <1>0. ServerAccept => Served
    BY DEF Links, Log, Served
  <1>6. Request'
    BY <1>0 DEF Request, Served, Drained, Written, Carried, InMailbox
  <1>7. Answer'
    BY DEF Answer, Served, Drained, Written, Carried, InMailbox, waiting
  <1> QED
    BY <1>1, <1>2, <1>3, <1>4, <1>5, <1>6, <1>7

\* No DUT closes its connection, so no thread finds it closed.
LEMMA PeerInv ==
    ASSUME TypeOK, IInv, ServerPeerClosed \/ ClientPeerClosed
    PROVE  IInv'
  <1> USE DEF ServerPeerClosed, ClientPeerClosed, PeerClosed, TypeOK, IInv,
              mailVars, threadVars, linkVars, dutVars, histVars, Boards, Held,
              AtEv
  <1>1. OneToken'
    BY DEF Links
  <1>2. Flags'
    BY DEF Links
  <1>3. Links'
    BY DEF Links
  <1>4. Log'
    BY DEF Log
  <1>5. Quiet'
    BY DEF Links
  <1>6. Request'
    BY DEF Links
  <1>7. Answer'
    BY DEF Links
  <1> QED
    BY <1>1, <1>2, <1>3, <1>4, <1>5, <1>6, <1>7

\* A board that exits takes what it holds with it.
LEMMA ExitInv ==
    ASSUME TypeOK, IInv, NEW b \in Boards, Exit(b)
    PROVE  IInv'
  <1> USE DEF Exit, GiveUp, Mishap, TypeOK, IInv, Boards, Held, AtEv
  <1>1. OneToken'
    BY DEF OneToken
  <1>2. Flags'
    BY DEF Flags
  <1>3. Links'
    BY DEF Links
  <1>4. Log'
    BY DEF Log, waiting
  <1>5. Quiet'
    BY DEF Quiet, Served, Drained, waiting
  <1>6. Request'
    BY DEF Request, Served, Drained, Written, Carried, InMailbox
  <1>7. Answer'
    BY DEF Answer, Served, Drained, Written, Carried, InMailbox, waiting
  <1> QED
    BY <1>1, <1>2, <1>3, <1>4, <1>5, <1>6, <1>7

\* The second half of a message joins the first, or is never read.
LEMMA TailInv ==
    ASSUME TypeOK, IInv, NEW b \in Boards, DutWritesTail(b)
    PROVE  IInv'
  <1> USE DEF IInv, mailVars, threadVars, linkVars, dutVars, histVars
  <1>1. /\ UNCHANGED <<mailVars, topic, threadVars, link, toDut, dutVars,
                       histVars>>
        /\ asked \in Nat
    BY DEF DutWritesTail, TypeOK
  <1>2. OneToken' /\ Flags' /\ Links' /\ Log'
    BY <1>1 DEF OneToken, Flags, Links, Log, Held, AtEv
  <1>3. ~Drained(b) /\ \A c \in Boards : Drained(c) => Drained(c)'
    BY DEF DutWritesTail, Drained, TypeOK
  <1>4. Quiet'
    BY <1>1, <1>3 DEF Quiet, Served, waiting, Boards
  <1>5. \A c \in Boards : Written(c) => Written(c)'
    <2> SUFFICES ASSUME NEW c \in Boards, Written(c) PROVE Written(c)'
      OBVIOUS
    <2>1. CASE c = b
      <3>1. toBoard[b] = HeadOf(asked) /\ owed[b] = TailOf(asked)
        BY <2>1 DEF Written, DutWritesTail
      <3>2. toBoard[b] \o owed[b] = Joined(asked)
        BY <1>1, <3>1, Messages
      <3> QED
        BY <1>1, <2>1, <3>2 DEF DutWritesTail, TypeOK, Written
    <2>2. CASE c # b
      BY <1>1, <2>2 DEF DutWritesTail, TypeOK, Written
    <2> QED
      BY <2>1, <2>2
  <1>6. \A c \in Boards, q \in Packet : Carried(c, q) => Carried(c, q)'
    BY <1>1, <1>3 DEF Carried
  <1>7. /\ buffer \in [Boards -> Packet] /\ toDut \in [Boards -> Packet]
        /\ \A c \in Boards : InMailbox(c) \in Packet
        /\ \A c \in Boards : topic[c] # <<>> => Head(topic[c]) \in Packet
    BY DEF TypeOK, InMailbox
  <1>8. \A c \in Boards : InMailbox(c)' = InMailbox(c)
    BY <1>1 DEF InMailbox
  <1>9. Request' /\ Answer'
    BY <1>1, <1>5, <1>6, <1>7, <1>8
    DEF Request, Answer, Served, waiting, Boards
  <1> QED
    BY <1>2, <1>4, <1>9

\* A new request is asked when all is quiet.
LEMMA AsksInv ==
    ASSUME TypeOK, IInv, EvAsks
    PROVE  IInv'
  <1> USE DEF IInv, mailVars, threadVars, linkVars, dutVars
  <1>1. /\ UNCHANGED <<mailVars, topic, threadVars, link, toDut, seen,
                       answers, fresh>>
        /\ asked' = asked + 1
        /\ asked \in Nat /\ Len(seen) \in Nat /\ Len(answers) \in Nat
        /\ link["EVSE"] = "open"
        /\ ~waiting
    BY DEF EvAsks, DutWrites, TypeOK
  <1>2. Served /\ Drained("EV") /\ Drained("EVSE") /\ Len(answers) = asked
    BY <1>1 DEF Links, Quiet, Log, waiting, Boards
  <1>3. pc["EVSE"] \in {"clear", "receive"}
    BY <1>1 DEF Links, Quiet, Boards
  <1>4. /\ ~AtEv /\ ~fresh["EV"] /\ ~fresh["EVSE"]
        /\ topic["EV"] = <<>> /\ topic["EVSE"] = <<>>
    BY <1>3 DEF OneToken, Held
  <1>5. toDut["EV"] = <<>> /\ toDut["EVSE"] = <<>>
    BY <1>1, <1>4 DEF Request, Answer, AtEv
  <1>6. OneToken' /\ Flags'
    BY <1>1 DEF OneToken, Flags, Held, AtEv
  <1>7. Links'
    BY <1>1, <1>3 DEF Links
  <1>8. ~Served' /\ waiting'
    BY <1>1, <1>2 DEF Served, waiting
  <1>9. Log'
    BY <1>1, <1>2 DEF Log, Served
  <1>10. /\ Drained("EV")'
         /\ toBoard["EVSE"] = <<>> /\ owed["EVSE"] = <<>>
    BY <1>2 DEF EvAsks, DutWrites, Drained, TypeOK, Boards
  <1>11. Quiet'
    BY <1>8, <1>10 DEF Quiet
  <1>12. Written("EVSE")'
    <2>1. /\ Whole(asked + 1) \in Packet
          /\ HeadOf(asked + 1) \in Packet
      BY <1>1, PacketTypes
    <2>2. /\ <<>> \o Whole(asked + 1) = Whole(asked + 1)
          /\ <<>> \o HeadOf(asked + 1) = HeadOf(asked + 1)
      BY <2>1, ConcatEmptySeq DEF Packet
    <2> QED
      BY <1>1, <1>10, <2>2 DEF EvAsks, DutWrites, Written, TypeOK, Boards
  <1>13. Request' /\ Answer'
    BY <1>1, <1>3, <1>4, <1>5, <1>8, <1>12 DEF Request, Answer, AtEv
  <1> QED
    BY <1>6, <1>7, <1>9, <1>11, <1>13

\* The EV DUT takes the answer to the request it has outstanding.
LEMMA AnswerTaken ==
    ASSUME TypeOK, IInv, EvTakesAnswer
    PROVE  /\ answers' = Append(answers, asked)
           /\ toDut' = [toDut EXCEPT !["EVSE"] = <<>>]
           /\ Len(answers) = asked - 1
           /\ Served /\ Drained("EV")
  <1>1. asked \in Nat /\ Len(answers) \in Nat /\ waiting
    BY DEF EvTakesAnswer, TypeOK
  <1>2. toDut["EVSE"] # <<>> /\ Complete(toDut["EVSE"])
    BY DEF EvTakesAnswer, Complete
  <1>3. /\ Served
        /\ toDut["EVSE"] \in {Whole(asked), Joined(asked)}
        /\ Drained("EV")
    BY <1>1, <1>2, Messages DEF IInv, Answer, Carried, Msg
  <1>4. /\ answers' = Append(answers, asked)
        /\ toDut' = [toDut EXCEPT !["EVSE"] = <<>>]
    BY <1>1, <1>3, Messages DEF EvTakesAnswer
  <1>5. Len(answers) = asked - 1
    BY <1>1 DEF IInv, waiting, Log, TypeOK
  <1> QED
    BY <1>3, <1>4, <1>5

\* All is quiet once it has.
LEMMA TakesInv ==
    ASSUME TypeOK, IInv, EvTakesAnswer
    PROVE  IInv'
  <1> USE DEF IInv, mailVars, threadVars, linkVars, dutVars
  <1>1. /\ UNCHANGED <<mailVars, topic, threadVars, link, toBoard, owed,
                       asked, seen>>
        /\ fresh' = fresh
        /\ asked \in Nat /\ Len(answers) \in Nat
    BY DEF EvTakesAnswer, TypeOK, histVars
  <1>2. /\ answers' = Append(answers, asked)
        /\ toDut' = [toDut EXCEPT !["EVSE"] = <<>>]
        /\ Len(answers) = asked - 1
        /\ Served /\ Drained("EV")
    BY AnswerTaken
  <1>3. pc["EVSE"] \in {"clear", "receive"}
    BY DEF EvTakesAnswer, Complete, Answer
  <1>4. OneToken' /\ Flags' /\ Links'
    BY <1>1 DEF OneToken, Flags, Links, Held, AtEv
  <1>5. Log'
    BY <1>1, <1>2 DEF Log, TypeOK
  <1>6. Quiet'
    BY <1>1, <1>2, <1>3 DEF Quiet, Served, Drained
  <1>7. Request' /\ Answer'
    BY <1>1, <1>2
    DEF Request, Answer, Served, Drained, Written, Carried, InMailbox, TypeOK,
        Boards
  <1> QED
    BY <1>4, <1>5, <1>6, <1>7

\* The EVSE DUT serves the request the EV DUT has outstanding.
LEMMA RequestServed ==
    ASSUME TypeOK, IInv, EvseServes
    PROVE  /\ seen' = Append(seen, asked)
           /\ Len(seen) = asked - 1
           /\ DutWrites("EV", asked)
           /\ toDut' = [toDut EXCEPT !["EV"] = <<>>]
           /\ pc["EV"] = "receive"
           /\ Drained("EVSE") /\ Drained("EV")
  <1>1. asked \in Nat /\ Len(seen) \in Nat
    BY DEF TypeOK
  <1>2. toDut["EV"] # <<>> /\ Complete(toDut["EV"])
    BY DEF EvseServes, Complete
  <1>3. /\ pc["EV"] = "receive"
        /\ ~Served
        /\ toDut["EV"] \in {Whole(asked), Joined(asked)}
        /\ Drained("EVSE")
        /\ Drained("EV")
    BY <1>1, <1>2, Messages DEF IInv, Request, Carried, Msg, Quiet
  <1>4. /\ seen' = Append(seen, asked)
        /\ DutWrites("EV", asked)
        /\ toDut' = [toDut EXCEPT !["EV"] = <<>>]
    BY <1>1, <1>3, Messages DEF EvseServes
  <1>5. Len(seen) = asked - 1
    BY <1>1, <1>3 DEF IInv, Served, Log
  <1> QED
    BY <1>3, <1>4, <1>5

\* What is under way from then on is the answer.
LEMMA ServesInv ==
    ASSUME TypeOK, IInv, EvseServes
    PROVE  IInv'
  <1> USE DEF IInv, mailVars, threadVars, linkVars, dutVars
  <1>1. /\ UNCHANGED <<mailVars, topic, threadVars, link, asked, answers,
                       fresh>>
        /\ asked \in Nat /\ Len(seen) \in Nat
    BY DEF EvseServes, TypeOK
  <1>3. /\ pc["EV"] = "receive"
        /\ Drained("EVSE") /\ Drained("EV")
    BY RequestServed
  <1>4. /\ seen' = Append(seen, asked)
        /\ DutWrites("EV", asked)
        /\ toDut' = [toDut EXCEPT !["EV"] = <<>>]
        /\ Len(seen) = asked - 1
    BY RequestServed
  <1>5. ~Served /\ Served'
    BY <1>1, <1>4 DEF Served, TypeOK
  <1>6. /\ ~Held /\ ~fresh["EV"] /\ ~fresh["EVSE"]
        /\ topic["EV"] = <<>> /\ topic["EVSE"] = <<>>
    BY <1>3 DEF OneToken, AtEv
  <1>7. OneToken' /\ Flags' /\ Links'
    BY <1>1 DEF OneToken, Flags, Links, Held, AtEv
  <1>8. Log'
    BY <1>1, <1>4 DEF Log, TypeOK
  <1>9. Drained("EVSE")'
    BY <1>3, <1>4 DEF DutWrites, Drained, TypeOK, Boards
  <1>10. ~waiting => pc["EVSE"] = "exited"
    BY <1>5 DEF Quiet
  <1>11. Quiet'
    BY <1>1, <1>5, <1>9, <1>10 DEF Quiet, waiting
  <1>12. Written("EV")'
    <2>1. /\ Whole(asked) \in Packet
          /\ HeadOf(asked) \in Packet
      BY <1>1, PacketTypes
    <2>2. /\ <<>> \o Whole(asked) = Whole(asked)
          /\ <<>> \o HeadOf(asked) = HeadOf(asked)
      BY <2>1, ConcatEmptySeq DEF Packet
    <2> QED
      BY <1>1, <1>3, <1>4, <2>2
      DEF DutWrites, Drained, Written, TypeOK, Boards
  <1>13. toDut["EVSE"] = <<>>
    BY <1>5 DEF Answer
  <1>14. Request' /\ Answer'
    BY <1>1, <1>3, <1>4, <1>5, <1>6, <1>12, <1>13
    DEF Request, Answer, Held, TypeOK, Boards
  <1> QED
    BY <1>7, <1>8, <1>11, <1>14


\* What went wrong stays on record.
LEMMA FaultsGrow == [Next]_vars => faults \subseteq faults'
  <1> SUFFICES ASSUME [Next]_vars PROVE faults \subseteq faults'
    OBVIOUS
  <1> USE DEF histVars, Mishap
  <1>1. ASSUME NEW b \in Boards, Callback(b) PROVE faults \subseteq faults'
    BY <1>1 DEF Callback, RaiseFlag, ReleasePacket, StorePacket
  <1>2. CASE Server \/ ServerAccept \/ Client
    BY <1>2
    DEF Server, ServerAgain, ServerAccept, ServerReceive, ServerPeerClosed,
        ServerPublish, ServerPoll, ServerConvert, ServerSend, ServerClear,
        Client, ClientAgain, ClientConnect, ClientPoll, ClientConvert,
        ClientSend, ClientReceive, ClientPeerClosed, ClientPublish,
        ClientClear, Poll, Convert, Send, Receive, PeerClosed, Again,
        Connected, Publish, ClearFlag
  <1>3. ASSUME NEW b \in Boards,
               Exit(b) \/ DutWritesTail(b) \/ DutCloses(b) \/ DutRefuses(b)
        PROVE  faults \subseteq faults'
    BY <1>3 DEF Exit, DutWritesTail, DutCloses, DutRefuses
  <1>4. CASE EvAsks \/ EvTakesAnswer \/ EvseServes
    BY <1>4 DEF EvAsks, EvTakesAnswer, EvseServes, DutWrites
  <1>5. CASE UNCHANGED vars
    BY <1>5 DEF vars
  <1> QED
    BY <1>1, <1>2, <1>3, <1>4, <1>5 DEF Next

\* A step that leaves the relay sound keeps the invariant.
LEMMA NextInv ==
    ASSUME TypeOK, IInv, [Next]_vars, Sound'
    PROVE  IInv'
  <1>1. ASSUME NEW b \in Boards, Callback(b) PROVE IInv'
    BY <1>1, RaiseInv, StoreInv DEF Callback
  <1>2. CASE Server \/ ServerAccept \/ Client
    BY <1>2, PollInv, ConvertInv, SendInv, ReceiveInv, PublishInv, ClearInv,
       AgainInv, ConnectInv, PeerInv
    DEF Server, Client
  <1>3. ASSUME NEW b \in Boards,
               Exit(b) \/ DutWritesTail(b) \/ DutCloses(b) \/ DutRefuses(b)
        PROVE  IInv'
    <2>1. ~(DutCloses(b) \/ DutRefuses(b))
      BY DEF DutCloses, DutRefuses, Mishap, Sound
    <2> QED
      BY <1>3, <2>1, ExitInv, TailInv
  <1>4. CASE EvAsks \/ EvTakesAnswer \/ EvseServes
    BY <1>4, AsksInv, TakesInv, ServesInv
  <1>5. CASE UNCHANGED vars
    BY <1>5
    DEF vars, mailVars, threadVars, linkVars, dutVars, histVars, IInv,
        OneToken, Held, AtEv, Flags, Links, Log, Quiet, Served, Drained,
        Request, Answer, Written, Carried, InMailbox, waiting
  <1> QED
    BY <1>1, <1>2, <1>3, <1>4, <1>5 DEF Next

\* As long as no connection is dropped and no packet torn, the relay holds
\* at most one message, and it is the right one: the inductive invariant.
THEOREM OneMessageUnderWay == Spec => [](TypeOK /\ (Sound => IInv))
  <1>1. Init => TypeOK /\ (Sound => IInv)
    BY InitType, InitInv
  <1>2. TypeOK /\ (Sound => IInv) /\ [Next]_vars
           => (TypeOK /\ (Sound => IInv))'
    <2> SUFFICES ASSUME TypeOK, Sound => IInv, [Next]_vars, Sound'
                 PROVE  IInv'
      BY NextType
    <2>1. Sound
      BY FaultsGrow DEF Sound
    <2> QED
      BY <2>1, NextInv
  <1> QED
    BY <1>1, <1>2, PTL DEF Spec

\* NoDuplicate: the EVSE DUT is served no request twice, whatever is lost,
\* cut in two, wiped, overrun or switched off, while no connection drops and
\* no packet is torn.
THEOREM ServedOnce == Spec => []NoDuplicate
  <1>1. TypeOK /\ (Sound => IInv) => NoDuplicate
    BY DEF TypeOK, Sound, IInv, Log, NoDuplicate
  <1> QED
    BY <1>1, OneMessageUnderWay, PTL

\* AnswersMatch: under the same conditions the EV DUT is never handed the
\* answer to another request.
THEOREM NoWrongAnswer == Spec => []AnswersMatch
  <1>1. TypeOK /\ (Sound => IInv) => AnswersMatch
    BY DEF Sound, IInv, Log, AnswersMatch
  <1> QED
    BY <1>1, OneMessageUnderWay, PTL

\* RelayedLikeACable: until something goes wrong, two boards, two threads
\* each, a broker and two TCP connections are the cable of Cable.tla.
THEOREM RelayIsACable == Spec => RelayedLikeACable
  <1>1. Init => Virtual!Init
    BY DEF Init, Virtual!Init
  <1>2. TypeOK /\ (Sound => IInv) /\ [Next]_vars
           => [Virtual!Next]_(Virtual!vars)
    <2> SUFFICES ASSUME TypeOK, Sound => IInv, [Next]_vars, faults' = {}
                 PROVE  [Virtual!Next]_(Virtual!vars)
      BY DEF Virtual!Next, Virtual!Break
    <2>1. faults = {}
      BY FaultsGrow
    <2>2. IInv
      BY <2>1 DEF Sound
    <2>3. UNCHANGED <<asked, seen, answers>> => UNCHANGED Virtual!vars
      BY <2>1 DEF Virtual!vars
    <2>4. ASSUME NEW b \in Boards, Callback(b)
          PROVE  UNCHANGED <<asked, seen, answers>>
      BY <2>4 DEF Callback, RaiseFlag, ReleasePacket, StorePacket, dutVars
    <2>5. CASE Server \/ ServerAccept \/ Client
      <3>1. UNCHANGED <<asked, seen, answers>>
        BY <2>5
        DEF Server, ServerAgain, ServerAccept, ServerReceive,
            ServerPeerClosed, ServerPublish, ServerPoll, ServerConvert,
            ServerSend, ServerClear, Client, ClientAgain, ClientConnect,
            ClientPoll, ClientConvert, ClientSend, ClientReceive,
            ClientPeerClosed, ClientPublish, ClientClear, Poll, Convert,
            Send, Receive, PeerClosed, Again, Connected, Publish, ClearFlag,
            dutVars
      <3> QED
        BY <2>3, <3>1
    <2>6. ASSUME NEW b \in Boards,
                 Exit(b) \/ DutWritesTail(b) \/ DutCloses(b) \/ DutRefuses(b)
          PROVE  UNCHANGED <<asked, seen, answers>>
      BY <2>6
      DEF Exit, DutWritesTail, DutCloses, DutRefuses, Mishap, dutVars
    <2>7. CASE EvAsks
      <3>1. Len(answers) = asked
        BY <2>2, <2>7 DEF EvAsks, waiting, IInv, Log, TypeOK
      <3> QED
        BY <2>1, <2>7, <3>1
        DEF EvAsks, Virtual!Next, Virtual!Carry, Virtual!Ask
    <2>8. CASE EvTakesAnswer
      <3>1. answers' = Append(answers, asked) /\ Len(answers) < Len(seen)
        BY <2>2, <2>8, AnswerTaken DEF Served, TypeOK
      <3> QED
        BY <2>1, <2>8, <3>1
        DEF EvTakesAnswer, Virtual!Next, Virtual!Carry, Virtual!Answer
    <2>9. CASE EvseServes
      <3>1. seen' = Append(seen, asked) /\ Len(seen) < asked
        BY <2>2, <2>9, RequestServed DEF TypeOK
      <3> QED
        BY <2>1, <2>9, <3>1
        DEF EvseServes, Virtual!Next, Virtual!Carry, Virtual!Serve
    <2>10. CASE UNCHANGED vars
      BY <2>3, <2>10 DEF vars, dutVars
    <2> QED
      BY <2>3, <2>4, <2>5, <2>6, <2>7, <2>8, <2>9, <2>10 DEF Next
  <1> QED
    BY <1>1, <1>2, OneMessageUnderWay, PTL
    DEF Spec, RelayedLikeACable, Virtual!Spec

-----------------------------------------------------------------------------
(* The second inductive invariant.  Connections drop and clients resend,   *)
(* but no packet is torn: then the messages on their way stand in line,    *)
(* the newest request last, from the EV DUT's connection through both      *)
(* boards and back to it, and no step lets one overtake another.           *)

\* Piece x is further than piece y: an earlier message, or the head of a
\* message whose tail is y.
Before(x, y) ==
    x.id < y.id \/ (x.id = y.id /\ x.part = "head" /\ y.part = "tail")

Ahead(S, T) == \A x \in S, y \in T : Before(x, y)

PiecesOf(s) == {s[i] : i \in 1..Len(s)}

Rising(s) == \A i, j \in 1..Len(s) : i < j => Before(s[i], s[j])

\* The same of the packets of a queue.
AllOf(q) == UNION {PiecesOf(q[i]) : i \in 1..Len(q)}

InTurn(q) ==
    /\ \A i \in 1..Len(q) : Rising(q[i])
    /\ \A i, j \in 1..Len(q) : i < j => Ahead(PiecesOf(q[i]), PiecesOf(q[j]))

\* A packet rth_datapacket holds that the relay thread may still read: the
\* flag is up, nothing is being assigned, and the thread is not about to
\* lower the flag.
Pending(b) ==
    /\ rth_data_received[b]
    /\ callback[b] = "idle"
    /\ pc[b] \notin {"clear", "exited"}
    /\ b = "EVSE" => pc[b] # "send"
    /\ b = "EV" => pc[b] # "publish"

If(c, s) == IF c THEN s ELSE <<>>

\* The EV board has read its packet and will read it again only if its DUT
\* drops the connection.
Resend == pc["EV"] \in {"send", "receive"}

Mail(b)       == If(Pending(b), rth_datapacket[b])
Unread        == If(~Resend, Mail("EV"))
Arriving(b)   == If(callback[b] # "idle", message[b])
Sending(b)    == If(pc[b] = "send", buffer[b])
Publishing(b) == If(pc[b] = "publish", buffer[b])

\* The answers handed to the EV DUT.
Given ==
    {[id |-> answers[i], part |-> "whole"] :
        i \in {j \in 1..Len(answers) : answers[j] # 0}}

\* The places a message passes, the last one first.
Stage ==
    << Given,
       PiecesOf(toDut["EVSE"]), PiecesOf(Sending("EVSE")),
       PiecesOf(Mail("EVSE")), PiecesOf(Arriving("EVSE")),
       AllOf(topic["EVSE"]),
       PiecesOf(Publishing("EV")), PiecesOf(toBoard["EV"]),
       PiecesOf(owed["EV"]),
       PiecesOf(toDut["EV"]), PiecesOf(Sending("EV")),
       PiecesOf(Unread), PiecesOf(Arriving("EV")), AllOf(topic["EV"]),
       PiecesOf(Publishing("EVSE")), PiecesOf(toBoard["EVSE"]),
       PiecesOf(owed["EVSE"]) >>

\* The line as it would stand if the EV board sent its packet again: what
\* its DUT has read or written since would be dropped with the connection.
Replay ==
    [k \in 1..17 |-> IF k \in 8..11 THEN {}
                     ELSE IF k = 12 THEN PiecesOf(Mail("EV"))
                     ELSE Stage[k]]

\* The places stand in line, and no piece belongs to a request beyond n.
Line(F, n) ==
    /\ \A k, l \in 1..17 : k < l => Ahead(F[k], F[l])
    /\ \A k \in 1..17 : \A x \in F[k] : x \in Piece /\ x.id <= n

\* Within one place the pieces stand in line too.
Straight(b) ==
    /\ Rising(toDut[b])
    /\ Rising(Sending(b))
    /\ Rising(Mail(b))
    /\ Rising(Arriving(b))
    /\ Rising(Publishing(b))
    /\ Rising(toBoard[b])
    /\ Rising(owed[b])
    /\ InTurn(topic[b])

Increasing ==
    \A i, j \in 1..Len(answers) :
        i < j /\ answers[i] # 0 /\ answers[j] # 0 => answers[i] < answers[j]

\* A connection that is not open carries nothing to the DUT.
Ends ==
    \A b \in Boards :
        /\ link[b] # "open" => toDut[b] = <<>> /\ owed[b] = <<>>
        /\ pc[b] \in {"again", "connect"} =>
              link[b] # "open" /\ toBoard[b] = <<>>
        /\ pc[b] = "convert" => rth_data_received[b]

Untorn == "tear" \notin faults

InOrder ==
    /\ Line(Stage, asked)
    /\ Line(Replay, asked)
    /\ \A b \in Boards : Straight(b)
    /\ Increasing
    /\ Ends

\* The places by name, before a step
LEMMA Places ==
    /\ Stage[1] = Given
    /\ Stage[2] = PiecesOf(toDut["EVSE"])
    /\ Stage[3] = PiecesOf(Sending("EVSE"))
    /\ Stage[4] = PiecesOf(Mail("EVSE"))
    /\ Stage[5] = PiecesOf(Arriving("EVSE"))
    /\ Stage[6] = AllOf(topic["EVSE"])
    /\ Stage[7] = PiecesOf(Publishing("EV"))
    /\ Stage[8] = PiecesOf(toBoard["EV"])
    /\ Stage[9] = PiecesOf(owed["EV"])
    /\ Stage[10] = PiecesOf(toDut["EV"])
    /\ Stage[11] = PiecesOf(Sending("EV"))
    /\ Stage[12] = PiecesOf(Unread)
    /\ Stage[13] = PiecesOf(Arriving("EV"))
    /\ Stage[14] = AllOf(topic["EV"])
    /\ Stage[15] = PiecesOf(Publishing("EVSE"))
    /\ Stage[16] = PiecesOf(toBoard["EVSE"])
    /\ Stage[17] = PiecesOf(owed["EVSE"])
  BY DEF Stage

\* and after it.
LEMMA PlacesNext ==
    /\ Stage'[1] = Given'
    /\ Stage'[2] = PiecesOf(toDut'["EVSE"])
    /\ Stage'[3] = PiecesOf(Sending("EVSE")')
    /\ Stage'[4] = PiecesOf(Mail("EVSE")')
    /\ Stage'[5] = PiecesOf(Arriving("EVSE")')
    /\ Stage'[6] = AllOf(topic'["EVSE"])
    /\ Stage'[7] = PiecesOf(Publishing("EV")')
    /\ Stage'[8] = PiecesOf(toBoard'["EV"])
    /\ Stage'[9] = PiecesOf(owed'["EV"])
    /\ Stage'[10] = PiecesOf(toDut'["EV"])
    /\ Stage'[11] = PiecesOf(Sending("EV")')
    /\ Stage'[12] = PiecesOf(Unread')
    /\ Stage'[13] = PiecesOf(Arriving("EV")')
    /\ Stage'[14] = AllOf(topic'["EV"])
    /\ Stage'[15] = PiecesOf(Publishing("EVSE")')
    /\ Stage'[16] = PiecesOf(toBoard'["EVSE"])
    /\ Stage'[17] = PiecesOf(owed'["EVSE"])
  BY DEF Stage

\* Taking pieces out of the places keeps the line.
LEMMA LineShrink ==
    ASSUME NEW F, NEW G, NEW n, Line(F, n),
           \A k \in 1..17 : G[k] \subseteq F[k]
    PROVE  Line(G, n)
  BY DEF Line, Ahead

\* A place may take in pieces that stand before all that is behind it and
\* after all that is in front.
LEMMA LineInsert ==
    ASSUME NEW F, NEW G, NEW A, NEW m \in 1..17, NEW n, Line(F, n),
           \A k \in 1..17 : k # m => G[k] \subseteq F[k],
           G[m] \subseteq F[m] \union A,
           \A k \in 1..17 : k < m => Ahead(F[k], A),
           \A k \in 1..17 : k > m => Ahead(A, G[k]),
           \A x \in A : x \in Piece /\ x.id <= n
    PROVE  Line(G, n)
  BY DEF Line, Ahead

\* A place may take in the next one.
LEMMA LineShift ==
    ASSUME NEW F, NEW G, NEW m \in 1..16, NEW n, Line(F, n),
           \A k \in 1..17 : k # m => G[k] \subseteq F[k],
           G[m] \subseteq F[m] \union F[m + 1],
           G[m + 1] = {}
    PROVE  Line(G, n)
  BY DEF Line, Ahead

\* It may take in the front of the next one.
LEMMA LineTake ==
    ASSUME NEW F, NEW G, NEW A, NEW m \in 1..16, NEW n, Line(F, n),
           \A k \in 1..17 : k # m => G[k] \subseteq F[k],
           G[m] \subseteq F[m] \union A,
           A \subseteq F[m + 1],
           Ahead(A, G[m + 1])
    PROVE  Line(G, n)
  <1>1. m \in 1..17 /\ m + 1 \in 1..17
    OBVIOUS
  <1>2. ASSUME NEW k \in 1..17, k < m PROVE Ahead(F[k], A)
    BY <1>1, <1>2 DEF Line, Ahead
  <1>3. ASSUME NEW k \in 1..17, k > m PROVE Ahead(A, G[k])
    BY <1>1, <1>3 DEF Line, Ahead
  <1>4. \A x \in A : x \in Piece /\ x.id <= n
    BY <1>1 DEF Line
  <1> QED
    BY <1>1, <1>2, <1>3, <1>4, LineInsert

\* An empty packet has no pieces.
LEMMA EmptyPieces == PiecesOf(<<>>) = {} /\ Rising(<<>>)
  BY DEF PiecesOf, Rising

\* What is appended to a place that stands in line follows it.
LEMMA CatPieces ==
    ASSUME NEW s \in Packet, NEW t \in Packet
    PROVE  /\ PiecesOf(s \o t) = PiecesOf(s) \union PiecesOf(t)
           /\ Rising(s) /\ Rising(t) /\ Ahead(PiecesOf(s), PiecesOf(t))
                => Rising(s \o t)
  <1> DEFINE u == s \o t
  <1>1. /\ Len(s) \in Nat /\ Len(t) \in Nat /\ Len(u) = Len(s) + Len(t)
        /\ \A i \in 1..Len(s) : u[i] = s[i]
        /\ \A i \in 1..Len(t) : u[Len(s) + i] = t[i]
        /\ \A i \in Len(s) + 1..Len(u) :
              i - Len(s) \in 1..Len(t) /\ u[i] = t[i - Len(s)]
    BY DEF Packet
  <1> HIDE DEF u
  <1>2. PiecesOf(u) = PiecesOf(s) \union PiecesOf(t)
    <2>1. PiecesOf(u) \subseteq PiecesOf(s) \union PiecesOf(t)
      BY <1>1 DEF PiecesOf
    <2>2. PiecesOf(s) \subseteq PiecesOf(u)
      BY <1>1 DEF PiecesOf
    <2>3. PiecesOf(t) \subseteq PiecesOf(u)
      BY <1>1 DEF PiecesOf
    <2> QED
      BY <2>1, <2>2, <2>3
  <1>3. ASSUME Rising(s), Rising(t), Ahead(PiecesOf(s), PiecesOf(t))
        PROVE  Rising(u)
    <2> SUFFICES ASSUME NEW i \in 1..Len(u), NEW j \in 1..Len(u), i < j
                 PROVE  Before(u[i], u[j])
      BY DEF Rising
    <2>1. CASE j \in 1..Len(s)
      BY <1>1, <1>3, <2>1 DEF Rising
    <2>2. CASE i \in Len(s) + 1..Len(u)
      <3>1. /\ i - Len(s) \in 1..Len(t) /\ j - Len(s) \in 1..Len(t)
            /\ i - Len(s) < j - Len(s)
            /\ u[i] = t[i - Len(s)] /\ u[j] = t[j - Len(s)]
        BY <1>1, <2>2
      <3> QED
        BY <3>1, <1>3 DEF Rising
    <2>3. CASE i \in 1..Len(s) /\ j \in Len(s) + 1..Len(u)
      <3>1. s[i] \in PiecesOf(s) /\ t[j - Len(s)] \in PiecesOf(t)
        BY <1>1, <2>3 DEF PiecesOf
      <3> QED
        BY <1>1, <1>3, <2>3, <3>1 DEF Ahead
    <2> QED
      BY <1>1, <2>1, <2>2, <2>3
  <1> QED
    BY <1>2, <1>3 DEF u

\* The pieces of the messages DUTs write.
LEMMA MessagePieces ==
    ASSUME NEW n \in Nat
    PROVE  /\ PiecesOf(Whole(n)) = {[id |-> n, part |-> "whole"]}
           /\ PiecesOf(HeadOf(n)) = {[id |-> n, part |-> "head"]}
           /\ PiecesOf(TailOf(n)) = {[id |-> n, part |-> "tail"]}
           /\ Rising(Whole(n)) /\ Rising(HeadOf(n)) /\ Rising(TailOf(n))
  BY DEF PiecesOf, Rising, Whole, HeadOf, TailOf

\* The complete message in front is followed by later ones only.
LEMMA FrontMessage ==
    ASSUME NEW s \in Packet, Complete(s), Rising(s)
    PROVE  /\ AfterMessage(s) \in Packet
           /\ PiecesOf(AfterMessage(s)) \subseteq PiecesOf(s)
           /\ Rising(AfterMessage(s))
           /\ Head(s) \in PiecesOf(s)
           /\ Head(s).id \in Nat
           /\ Head(s).part \in {"whole", "head"}
           /\ \A y \in PiecesOf(AfterMessage(s)) : Head(s).id < y.id
           /\ \E z \in PiecesOf(s) :
                 z.id = Head(s).id /\ z.part \in {"whole", "tail"}
  <1>1. /\ s \in Seq(Piece) /\ Len(s) \in Nat /\ Len(s) > 0
        /\ Head(s) = s[1] /\ 1 \in 1..Len(s)
        /\ \A i \in 1..Len(s) : s[i] \in Piece
    BY DEF Packet, Complete
  <1>2. Head(s) \in PiecesOf(s) /\ Head(s) \in Piece
    BY <1>1 DEF PiecesOf
  <1>3. CASE Head(s).part = "whole"
    <2> DEFINE r == Tail(s)
    <2>1. /\ r \in Seq(Piece) /\ Len(r) = Len(s) - 1
          /\ \A i \in 1..Len(r) : i + 1 \in 1..Len(s) /\ r[i] = s[i + 1]
      BY <1>1
    <2> HIDE DEF r
    <2>2. PiecesOf(r) \subseteq PiecesOf(s)
      BY <2>1 DEF PiecesOf
    <2>3. Rising(r)
      <3> SUFFICES ASSUME NEW i \in 1..Len(r), NEW j \in 1..Len(r), i < j
                   PROVE  Before(r[i], r[j])
        BY DEF Rising
      <3>1. /\ i + 1 \in 1..Len(s) /\ j + 1 \in 1..Len(s) /\ i + 1 < j + 1
            /\ r[i] = s[i + 1] /\ r[j] = s[j + 1]
        BY <1>1, <2>1
      <3> QED
        BY <3>1 DEF Rising
    <2>4. ASSUME NEW y \in PiecesOf(r) PROVE Head(s).id < y.id
      <3>1. PICK i \in 1..Len(r) : y = r[i]
        BY DEF PiecesOf
      <3>2. Before(s[1], s[i + 1])
        BY <1>1, <2>1 DEF Rising
      <3> QED
        BY <1>1, <1>3, <2>1, <3>1, <3>2 DEF Before
    <2>5. AfterMessage(s) = r
      BY <1>3 DEF AfterMessage, r
    <2> QED
      BY <1>2, <1>3, <2>1, <2>2, <2>3, <2>4, <2>5 DEF Packet, Piece
  <1>4. CASE Head(s).part # "whole"
    <2> DEFINE r == Tail(Tail(s))
    <2>1. /\ Len(s) > 1 /\ 2 \in 1..Len(s) /\ s[1].part = "head"
          /\ s[2].id = s[1].id /\ s[2].part = "tail"
      BY <1>1, <1>4 DEF Complete
    <2>2. /\ Tail(s) \in Seq(Piece) /\ Len(Tail(s)) = Len(s) - 1
          /\ \A i \in 1..Len(s) - 1 : Tail(s)[i] = s[i + 1]
      BY <1>1
    <2>3. ASSUME NEW t \in Seq(Piece), Len(t) > 0
          PROVE  /\ Tail(t) \in Seq(Piece) /\ Len(Tail(t)) = Len(t) - 1
                 /\ \A i \in 1..Len(t) - 1 : Tail(t)[i] = t[i + 1]
      BY <2>3
    <2>4. /\ r \in Seq(Piece) /\ Len(r) = Len(s) - 2
          /\ \A i \in 1..Len(s) - 2 : r[i] = Tail(s)[i + 1]
      <3>1. Len(Tail(s)) > 0 /\ Len(Tail(s)) - 1 = Len(s) - 2
        BY <1>1, <2>1, <2>2
      <3> HIDE DEF r
      <3>2. /\ r \in Seq(Piece) /\ Len(r) = Len(Tail(s)) - 1
            /\ \A i \in 1..Len(Tail(s)) - 1 : r[i] = Tail(s)[i + 1]
        BY <2>2, <2>3, <3>1, Zenon DEF r
      <3> QED
        BY <3>1, <3>2
    <2> HIDE DEF r
    <2>5. \A i \in 1..Len(r) : i + 2 \in 1..Len(s) /\ r[i] = s[i + 2]
      <3> TAKE i \in 1..Len(r)
      <3>1. i \in 1..Len(s) - 2 /\ i + 1 \in 1..Len(s) - 1
        BY <1>1, <2>4
      <3>2. r[i] = Tail(s)[i + 1] /\ Tail(s)[i + 1] = s[(i + 1) + 1]
        BY <3>1, <2>2, <2>4
      <3> QED
        BY <1>1, <3>1, <3>2
    <2>6. PiecesOf(r) \subseteq PiecesOf(s)
      BY <2>5 DEF PiecesOf
    <2>7. Rising(r)
      <3> SUFFICES ASSUME NEW i \in 1..Len(r), NEW j \in 1..Len(r), i < j
                   PROVE  Before(r[i], r[j])
        BY DEF Rising
      <3>1. /\ i + 2 \in 1..Len(s) /\ j + 2 \in 1..Len(s) /\ i + 2 < j + 2
            /\ r[i] = s[i + 2] /\ r[j] = s[j + 2]
        BY <1>1, <2>4, <2>5
      <3> QED
        BY <3>1 DEF Rising
    <2>8. ASSUME NEW y \in PiecesOf(r) PROVE Head(s).id < y.id
      <3>1. PICK i \in 1..Len(r) : y = r[i]
        BY DEF PiecesOf
      <3>2. i + 2 \in 1..Len(s) /\ 2 < i + 2 /\ y = s[i + 2]
        BY <2>4, <2>5, <3>1
      <3>3. Before(s[2], y)
        BY <2>1, <3>2 DEF Rising
      <3> QED
        BY <1>1, <2>1, <3>3 DEF Before
    <2>9. s[2] \in PiecesOf(s)
      BY <2>1 DEF PiecesOf
    <2>10. AfterMessage(s) = r
      BY <1>4 DEF AfterMessage, r
    <2> QED
      BY <1>1, <1>2, <2>1, <2>4, <2>6, <2>7, <2>8, <2>9, <2>10
      DEF Packet, Piece
  <1> QED
    BY <1>3, <1>4

\* The packet in front of a queue that stands in line, and the rest.
LEMMA QueueFront ==
    ASSUME NEW q \in Seq(Packet), q # <<>>, InTurn(q)
    PROVE  /\ PiecesOf(Head(q)) \subseteq AllOf(q)
           /\ AllOf(Tail(q)) \subseteq AllOf(q)
           /\ Rising(Head(q))
           /\ InTurn(Tail(q))
           /\ Ahead(PiecesOf(Head(q)), AllOf(Tail(q)))
  <1> DEFINE r == Tail(q)
  <1>1. /\ Len(q) \in Nat /\ Len(q) > 0
        /\ Head(q) = q[1] /\ 1 \in 1..Len(q)
        /\ Len(r) = Len(q) - 1
        /\ \A i \in 1..Len(r) :
              i + 1 \in 1..Len(q) /\ 1 < i + 1 /\ r[i] = q[i + 1]
    OBVIOUS
  <1> HIDE DEF r
  <1>2. PiecesOf(Head(q)) \subseteq AllOf(q) /\ Rising(Head(q))
    BY <1>1 DEF AllOf, InTurn
  <1>3. AllOf(r) \subseteq AllOf(q)
    BY <1>1 DEF AllOf
  <1>4. InTurn(r)
    <2>1. ASSUME NEW i \in 1..Len(r) PROVE Rising(r[i])
      BY <1>1 DEF InTurn
    <2>2. ASSUME NEW i \in 1..Len(r), NEW j \in 1..Len(r), i < j
          PROVE  Ahead(PiecesOf(r[i]), PiecesOf(r[j]))
      <3>1. /\ i + 1 \in 1..Len(q) /\ j + 1 \in 1..Len(q) /\ i + 1 < j + 1
            /\ r[i] = q[i + 1] /\ r[j] = q[j + 1]
        BY <1>1, <2>2
      <3> QED
        BY <3>1 DEF InTurn
    <2> QED
      BY <2>1, <2>2 DEF InTurn
  <1>5. Ahead(PiecesOf(q[1]), AllOf(r))
    <2> SUFFICES ASSUME NEW x \in PiecesOf(q[1]), NEW y \in AllOf(r)
                 PROVE  Before(x, y)
      BY DEF Ahead
    <2>1. PICK i \in 1..Len(r) : y \in PiecesOf(r[i])
      BY DEF AllOf
    <2>2. Ahead(PiecesOf(q[1]), PiecesOf(q[i + 1])) /\ r[i] = q[i + 1]
      BY <1>1 DEF InTurn
    <2> QED
      BY <2>1, <2>2 DEF Ahead
  <1> QED
    BY <1>1, <1>2, <1>3, <1>4, <1>5 DEF r

\* A packet that stands behind a queue may join it.
LEMMA QueueBack ==
    ASSUME NEW q \in Seq(Packet), NEW p \in Packet, InTurn(q), Rising(p),
           Ahead(AllOf(q), PiecesOf(p))
    PROVE  /\ AllOf(Append(q, p)) = AllOf(q) \union PiecesOf(p)
           /\ InTurn(Append(q, p))
  <1> DEFINE r == Append(q, p)
  <1>1. /\ Len(q) \in Nat /\ Len(r) = Len(q) + 1
        /\ r[Len(r)] = p
        /\ \A i \in 1..Len(q) : r[i] = q[i] /\ i \in 1..Len(r)
        /\ \A i \in 1..Len(r) : i = Len(r) \/ i \in 1..Len(q)
    OBVIOUS
  <1> HIDE DEF r
  <1>2. AllOf(r) = AllOf(q) \union PiecesOf(p)
    <2>1. AllOf(r) \subseteq AllOf(q) \union PiecesOf(p)
      BY <1>1 DEF AllOf
    <2>2. AllOf(q) \subseteq AllOf(r)
      BY <1>1 DEF AllOf
    <2>3. PiecesOf(p) \subseteq AllOf(r)
      <3>1. Len(r) \in 1..Len(r)
        BY <1>1
      <3> QED
        BY <1>1, <3>1 DEF AllOf
    <2> QED
      BY <2>1, <2>2, <2>3
  <1>3. InTurn(r)
    <2>1. ASSUME NEW i \in 1..Len(r) PROVE Rising(r[i])
      BY <1>1 DEF InTurn
    <2>2. ASSUME NEW i \in 1..Len(r), NEW j \in 1..Len(r), i < j
          PROVE  Ahead(PiecesOf(r[i]), PiecesOf(r[j]))
      <3>1. i \in 1..Len(q)
        BY <1>1, <2>2
      <3>2. CASE j \in 1..Len(q)
        BY <1>1, <2>2, <3>1, <3>2 DEF InTurn
      <3>3. CASE j = Len(r)
        <4>1. PiecesOf(q[i]) \subseteq AllOf(q)
          BY <3>1 DEF AllOf
        <4> QED
          BY <1>1, <3>1, <3>3, <4>1 DEF Ahead
      <3> QED
        BY <1>1, <3>2, <3>3
    <2> QED
      BY <2>1, <2>2 DEF InTurn
  <1> QED
    BY <1>2, <1>3 DEF r

\* A place that is left as it was, or emptied.
Less(s, t) == s = t \/ s = <<>>

\* A place left as it was, or emptied, has no more pieces than before.
LEMMA LessPieces ==
    ASSUME NEW s, NEW t, Less(s, t)
    PROVE  /\ PiecesOf(s) \subseteq PiecesOf(t)
           /\ Rising(t) => Rising(s)
  BY EmptyPieces DEF Less

\* Nor has a queue.
LEMMA LessQueue ==
    ASSUME NEW s, NEW t, Less(s, t)
    PROVE  /\ AllOf(s) \subseteq AllOf(t)
           /\ InTurn(t) => InTurn(s)
  <1>1. AllOf(<<>>) = {} /\ InTurn(<<>>)
    BY DEF AllOf, InTurn
  <1> QED
    BY <1>1 DEF Less

\* Places 2 to 17 of one board, all but the packet to be read.
Fewer(b) ==
    /\ Less(toDut'[b], toDut[b])
    /\ Less(Sending(b)', Sending(b))
    /\ Less(Mail(b)', Mail(b))
    /\ Less(Arriving(b)', Arriving(b))
    /\ Less(topic'[b], topic[b])
    /\ Less(Publishing(b)', Publishing(b))
    /\ Less(toBoard'[b], toBoard[b])
    /\ Less(owed'[b], owed[b])

\* The places of the second line.
LEMMA Replays ==
    /\ \A k \in 1..17 :
          Replay[k] = IF k \in 8..11 THEN {}
                      ELSE IF k = 12 THEN PiecesOf(Mail("EV"))
                      ELSE Stage[k]
    /\ \A k \in 1..17 :
          Replay'[k] = IF k \in 8..11 THEN {}
                       ELSE IF k = 12 THEN PiecesOf(Mail("EV")')
                       ELSE Stage'[k]
  BY DEF Replay

\* Emptying places keeps the invariant.
LEMMA ShrinkInv ==
    ASSUME InOrder, asked' = asked, Given' \subseteq Given,
           \A b \in Boards : Fewer(b),
           Less(Unread', Unread),
           Increasing', Ends'
    PROVE  InOrder'
  <1>1. \A b \in Boards :
           /\ PiecesOf(toDut'[b]) \subseteq PiecesOf(toDut[b])
           /\ PiecesOf(Sending(b)') \subseteq PiecesOf(Sending(b))
           /\ PiecesOf(Mail(b)') \subseteq PiecesOf(Mail(b))
           /\ PiecesOf(Arriving(b)') \subseteq PiecesOf(Arriving(b))
           /\ AllOf(topic'[b]) \subseteq AllOf(topic[b])
           /\ PiecesOf(Publishing(b)') \subseteq PiecesOf(Publishing(b))
           /\ PiecesOf(toBoard'[b]) \subseteq PiecesOf(toBoard[b])
           /\ PiecesOf(owed'[b]) \subseteq PiecesOf(owed[b])
    BY LessPieces, LessQueue DEF Fewer
  <1>2. \A k \in 1..17 : Stage'[k] \subseteq Stage[k]
    BY <1>1, LessPieces, Places, PlacesNext DEF Boards
  <1>3. \A k \in 1..17 : Replay'[k] \subseteq Replay[k]
    BY <1>1, <1>2, Replays DEF Boards
  <1>4. Line(Stage', asked') /\ Line(Replay', asked')
    BY <1>2, <1>3, LineShrink DEF InOrder
  <1>5. \A b \in Boards : Straight(b)'
    BY LessPieces, LessQueue DEF InOrder, Fewer, Straight
  <1> QED
    BY <1>4, <1>5 DEF InOrder

\* The steps of a relay thread and of the MQTT thread that move no piece.
LEMMA StillOrder ==
    ASSUME NEW b \in Boards, NEW next, TypeOK, InOrder,
           \/ ReleasePacket(b)
           \/ Poll(b, "convert")
           \/ Again(b)
           \/ Connected(b, next) /\ b = "EV" /\ next = "poll"
           \/ Connected(b, next) /\ b = "EVSE" /\ next = "receive"
           \/ ClearFlag(b, next) /\ b = "EV" /\ next = "poll"
           \/ ClearFlag(b, next) /\ b = "EVSE" /\ next = "receive"
           \/ PeerClosed(b) /\ b = "EVSE"
    PROVE  InOrder'
  <1> USE DEF ReleasePacket, Poll, Again, Connected, ClearFlag, PeerClosed,
              mailVars, threadVars, linkVars, dutVars, histVars, TypeOK,
              Boards
  <1>1. asked' = asked /\ answers' = answers
    OBVIOUS
  <1>2. Given' \subseteq Given /\ Increasing'
    BY <1>1 DEF Given, InOrder, Increasing
  <1>3. \A c \in Boards : Less(toDut'[c], toDut[c])
    BY DEF Less
  <1>4. \A c \in Boards : Less(Sending(c)', Sending(c))
    BY DEF Less, Sending, If
  <1>5. \A c \in Boards : Less(Mail(c)', Mail(c))
    BY DEF Less, Mail, If, Pending
  <1>6. \A c \in Boards : Less(Arriving(c)', Arriving(c))
    BY DEF Less, Arriving, If
  <1>7. \A c \in Boards : Less(Publishing(c)', Publishing(c))
    BY DEF Less, Publishing, If
  <1>8. \A c \in Boards : /\ Less(topic'[c], topic[c])
                          /\ Less(toBoard'[c], toBoard[c])
                          /\ Less(owed'[c], owed[c])
    BY DEF Less
  <1>9. Less(Unread', Unread)
    BY DEF Less, Unread, Mail, If, Pending, Resend
  <1>10. Ends'
    <2>1. \A c \in Boards :
             link'[c] # "open" => toDut'[c] = <<>> /\ owed'[c] = <<>>
      BY DEF Ends, InOrder
    <2>2. \A c \in Boards :
             pc'[c] \in {"again", "connect"} =>
                link'[c] # "open" /\ toBoard'[c] = <<>>
      BY DEF Ends, InOrder
    <2>3. \A c \in Boards : pc'[c] = "convert" => rth_data_received'[c]
      BY DEF Ends, InOrder
    <2> QED
      BY <2>1, <2>2, <2>3 DEF Ends
  <1> QED
    BY <1>1, <1>2, <1>3, <1>4, <1>5, <1>6, <1>7, <1>8, <1>9, <1>10,
       ShrinkInv DEF Fewer

\* A request given up is handed no answer.
LEMMA GiveUpOrder ==
    ASSUME NEW b \in Boards, TypeOK, Increasing, answers' = GiveUp(b)
    PROVE  Given' \subseteq Given /\ Increasing'
  <1>1. answers \in Seq(Nat) /\ Len(answers) \in Nat
    BY DEF TypeOK
  <1>2. CASE answers' = answers
    BY <1>2 DEF Given, Increasing
  <1>3. CASE answers' = Append(answers, 0)
    <2>1. /\ Len(answers') = Len(answers) + 1
          /\ answers'[Len(answers')] = 0
          /\ \A i \in 1..Len(answers') :
                i = Len(answers') \/ i \in 1..Len(answers)
          /\ \A i \in 1..Len(answers) : answers'[i] = answers[i]
      BY <1>1, <1>3
    <2>2. Given' \subseteq Given
      BY <1>1, <2>1 DEF Given
    <2>3. Increasing'
      BY <1>1, <2>1 DEF Increasing
    <2> QED
      BY <2>2, <2>3
  <1> QED
    BY <1>2, <1>3 DEF GiveUp

\* A board that exits and a connection that ends take their pieces along.
LEMMA EndOrder ==
    ASSUME NEW b \in Boards, TypeOK, InOrder, Exit(b) \/ Hangup(b)
    PROVE  InOrder'
  <1> USE DEF Exit, Hangup, mailVars, threadVars, TypeOK, Boards
  <1>1. asked' = asked /\ answers' = GiveUp(b)
    OBVIOUS
  <1>2. Given' \subseteq Given /\ Increasing'
    BY <1>1, GiveUpOrder DEF InOrder
  <1>3. \A c \in Boards : Less(toDut'[c], toDut[c])
    BY DEF Less
  <1>4. \A c \in Boards : Less(Sending(c)', Sending(c))
    BY DEF Less, Sending, If
  <1>5. \A c \in Boards : Less(Mail(c)', Mail(c))
    BY DEF Less, Mail, If, Pending
  <1>6. \A c \in Boards : Less(Arriving(c)', Arriving(c))
    BY DEF Less, Arriving, If
  <1>7. \A c \in Boards : Less(Publishing(c)', Publishing(c))
    BY DEF Less, Publishing, If
  <1>8. \A c \in Boards : /\ Less(topic'[c], topic[c])
                          /\ Less(toBoard'[c], toBoard[c])
                          /\ Less(owed'[c], owed[c])
    BY DEF Less
  <1>9. Less(Unread', Unread)
    BY DEF Less, Unread, Mail, If, Pending, Resend
  <1>10. Ends'
    BY DEF Ends, InOrder
  <1> QED
    BY <1>1, <1>2, <1>3, <1>4, <1>5, <1>6, <1>7, <1>8, <1>9, <1>10,
       ShrinkInv DEF Fewer

\* Most moves are the same in both lines.
LEMMA TakeBoth ==
    ASSUME InOrder, asked' = asked, NEW A, NEW m \in 1..6 \union 13..16,
           \A k \in 1..17 : k # m => Stage'[k] \subseteq Stage[k],
           Stage'[m] \subseteq Stage[m] \union A,
           A \subseteq Stage[m + 1],
           Ahead(A, Stage'[m + 1]),
           Less(Mail("EV")', Mail("EV"))
    PROVE  Line(Stage', asked') /\ Line(Replay', asked')
  <1> m \in 1..16
    OBVIOUS
  <1>1. Line(Stage', asked')
    BY LineTake DEF InOrder
  <1>2. PiecesOf(Mail("EV")') \subseteq PiecesOf(Mail("EV"))
    BY LessPieces
  <1>3. /\ \A k \in 1..17 : k # m => Replay'[k] \subseteq Replay[k]
        /\ Replay'[m] \subseteq Replay[m] \union A
        /\ A \subseteq Replay[m + 1]
        /\ Ahead(A, Replay'[m + 1])
    BY <1>2, Replays
  <1>4. Line(Replay', asked')
    BY <1>3, LineTake DEF InOrder
  <1> QED
    BY <1>1, <1>4

\* Where the next place moves up whole, what it held is the front.
LEMMA ShiftBoth ==
    ASSUME InOrder, asked' = asked, NEW m \in 1..6 \union 13..16,
           \A k \in 1..17 : k # m => Stage'[k] \subseteq Stage[k],
           Stage'[m] \subseteq Stage[m] \union Stage[m + 1],
           Stage'[m + 1] = {},
           Less(Mail("EV")', Mail("EV"))
    PROVE  Line(Stage', asked') /\ Line(Replay', asked')
  <1> DEFINE A == Stage[m + 1]
  <1>1. /\ Stage'[m] \subseteq Stage[m] \union A
        /\ A \subseteq Stage[m + 1]
        /\ Ahead(A, Stage'[m + 1])
    BY DEF Ahead
  <1> HIDE DEF A
  <1> QED
    BY <1>1, TakeBoth

\* The same of one line at a time, wherever the place.
LEMMA ShiftStage ==
    ASSUME InOrder, asked' = asked, NEW m \in 1..16,
           \A k \in 1..17 : k # m => Stage'[k] \subseteq Stage[k],
           Stage'[m] \subseteq Stage[m] \union Stage[m + 1],
           Stage'[m + 1] = {}
    PROVE  Line(Stage', asked')
  BY LineShift DEF InOrder

LEMMA ShiftReplay ==
    ASSUME InOrder, asked' = asked, NEW m \in 1..16,
           \A k \in 1..17 : k # m => Replay'[k] \subseteq Replay[k],
           Replay'[m] \subseteq Replay[m] \union Replay[m + 1],
           Replay'[m + 1] = {}
    PROVE  Line(Replay', asked')
  BY LineShift DEF InOrder

\* What is in a place is a piece of a request that has been asked.
LEMMA InPlace ==
    ASSUME InOrder, NEW m \in 1..17, NEW x \in Stage[m]
    PROVE  x \in Piece /\ x.id <= asked
  BY DEF InOrder, Line

\* The first place may take in what stands before all the others.
LEMMA LineFront ==
    ASSUME NEW F, NEW G, NEW A, NEW n, Line(F, n),
           \A k \in 1..17 : k # 1 => G[k] \subseteq F[k],
           G[1] \subseteq F[1] \union A,
           \A k \in 1..17 : k > 1 => Ahead(A, G[k]),
           \A x \in A : x \in Piece /\ x.id <= n
    PROVE  Line(G, n)
  <1>1. \A k \in 1..17 : k = 1 \/ k > 1
    OBVIOUS
  <1> QED
    BY <1>1 DEF Line, Ahead

\* Two places that touch.
LEMMA NextTo ==
    ASSUME InOrder, NEW m \in 1..16
    PROVE  Ahead(Stage[m], Stage[m + 1])
  <1> m \in 1..17 /\ m + 1 \in 1..17 /\ m < m + 1
    OBVIOUS
  <1> QED
    BY DEF InOrder, Line

\* The packet in front of the queue is announced.
LEMMA RaiseOrder ==
    ASSUME NEW b \in Boards, TypeOK, InOrder, RaiseFlag(b)
    PROVE  InOrder'
  <1> DEFINE p == Head(topic[b])
  <1> USE DEF RaiseFlag, threadVars, linkVars, dutVars, TypeOK, Boards
  <1>1. /\ PiecesOf(p) \subseteq AllOf(topic[b])
        /\ AllOf(topic'[b]) \subseteq AllOf(topic[b])
        /\ Rising(p)
        /\ InTurn(topic'[b])
        /\ Ahead(PiecesOf(p), AllOf(topic'[b]))
    BY QueueFront DEF InOrder, Straight
  <1>2. asked' = asked /\ Given' = Given /\ Increasing'
    BY DEF Given, InOrder, Increasing
  <1>3. Arriving(b)' = p
    BY DEF Arriving, If
  <1> HIDE DEF p
  <1>4. /\ \A c \in Boards : /\ Sending(c)' = Sending(c)
                             /\ Publishing(c)' = Publishing(c)
                             /\ Less(Mail(c)', Mail(c))
                             /\ c # b => Arriving(c)' = Arriving(c)
                             /\ c # b => topic'[c] = topic[c]
        /\ toDut' = toDut /\ toBoard' = toBoard /\ owed' = owed
        /\ Less(Unread', Unread)
    <2>1. \A c \in Boards : Sending(c)' = Sending(c)
      BY DEF Sending, If
    <2>2. \A c \in Boards : Publishing(c)' = Publishing(c)
      BY DEF Publishing, If
    <2>3. \A c \in Boards : Less(Mail(c)', Mail(c))
      BY DEF Less, Mail, If, Pending
    <2>4. \A c \in Boards : c # b => /\ Arriving(c)' = Arriving(c)
                                     /\ topic'[c] = topic[c]
      BY DEF Arriving, If
    <2>5. Less(Unread', Unread)
      BY DEF Less, Unread, Mail, If, Pending, Resend
    <2> QED
      BY <2>1, <2>2, <2>3, <2>4, <2>5
  <1>5. Ends'
    BY DEF Ends, InOrder
  <1> HIDE DEF RaiseFlag, threadVars, linkVars, dutVars, TypeOK
  <1>6. /\ \A c \in Boards : PiecesOf(Mail(c)') \subseteq PiecesOf(Mail(c))
        /\ PiecesOf(Unread') \subseteq PiecesOf(Unread)
    BY <1>4, LessPieces
  <1>7. Line(Stage', asked') /\ Line(Replay', asked')
    <2>1. CASE b = "EVSE"
      <3>1. /\ \A k \in 1..17 : k # 5 => Stage'[k] \subseteq Stage[k]
            /\ Stage'[5] = PiecesOf(p)
            /\ PiecesOf(p) \subseteq Stage[5 + 1]
            /\ Ahead(PiecesOf(p), Stage'[5 + 1])
        BY <1>1, <1>2, <1>3, <1>4, <1>6, <2>1, Places, PlacesNext
      <3> QED
        BY <1>2, <1>4, <3>1, TakeBoth
    <2>2. CASE b = "EV"
      <3>1. /\ \A k \in 1..17 : k # 13 => Stage'[k] \subseteq Stage[k]
            /\ Stage'[13] = PiecesOf(p)
            /\ PiecesOf(p) \subseteq Stage[13 + 1]
            /\ Ahead(PiecesOf(p), Stage'[13 + 1])
        BY <1>1, <1>2, <1>3, <1>4, <1>6, <2>2, Places, PlacesNext
      <3> QED
        BY <1>2, <1>4, <3>1, TakeBoth
    <2> QED
      BY <2>1, <2>2
  <1>8. \A c \in Boards : Straight(c)'
    BY <1>1, <1>3, <1>4, LessPieces DEF InOrder, Straight
  <1> QED
    BY <1>2, <1>5, <1>7, <1>8 DEF InOrder

\* It is stored where the relay thread finds it: for the EV board that may
\* be while an earlier packet is still with its DUT.
LEMMA StoreOrder ==
    ASSUME NEW b \in Boards, TypeOK, InOrder, StorePacket(b)
    PROVE  InOrder'
  <1> USE DEF StorePacket, threadVars, linkVars, dutVars, histVars, TypeOK,
              Boards
  <1>1. asked' = asked /\ Given' = Given /\ Increasing'
    BY DEF Given, InOrder, Increasing
  <1>2. /\ Arriving(b)' = <<>>
        /\ Mail(b) = <<>>
        /\ Less(Mail(b)', Arriving(b))
        /\ b = "EV" =>
              /\ Resend => Unread' = <<>>
              /\ ~Resend => Less(Unread', Arriving(b)) /\ Mail(b)' = Unread'
        /\ b # "EV" => Unread' = Unread /\ Mail("EV")' = Mail("EV")
    <2>1. Arriving(b)' = <<>> /\ Mail(b) = <<>>
      BY DEF Arriving, Mail, If, Pending
    <2>2. Less(Mail(b)', Arriving(b))
      BY DEF Arriving, Mail, If, Less
    <2>3. Resend' = Resend
      BY DEF Resend
    <2>4. ASSUME b = "EV"
          PROVE  /\ Resend => Unread' = <<>>
                 /\ ~Resend => Less(Unread', Arriving(b)) /\ Mail(b)' = Unread'
      BY <2>2, <2>3, <2>4 DEF Unread, If
    <2>5. ASSUME b # "EV"
          PROVE  Unread' = Unread /\ Mail("EV")' = Mail("EV")
      BY <2>3, <2>5 DEF Unread, If, Mail, Pending
    <2> QED
      BY <2>1, <2>2, <2>4, <2>5
  <1>3. /\ \A c \in Boards : /\ Sending(c)' = Sending(c)
                             /\ Publishing(c)' = Publishing(c)
                             /\ c # b => Mail(c)' = Mail(c)
                             /\ c # b => Arriving(c)' = Arriving(c)
        /\ toDut' = toDut /\ toBoard' = toBoard /\ owed' = owed
        /\ topic' = topic
    <2>1. \A c \in Boards : Sending(c)' = Sending(c)
      BY DEF Sending, If
    <2>2. \A c \in Boards : Publishing(c)' = Publishing(c)
      BY DEF Publishing, If
    <2>3. \A c \in Boards : c # b => Mail(c)' = Mail(c)
      BY DEF Mail, If, Pending
    <2>4. \A c \in Boards : c # b => Arriving(c)' = Arriving(c)
      BY DEF Arriving, If
    <2> QED
      BY <2>1, <2>2, <2>3, <2>4
  <1>4. Ends'
    BY DEF Ends, InOrder
  <1> HIDE DEF StorePacket, threadVars, linkVars, dutVars, histVars, TypeOK
  <1>5. PiecesOf(<<>>) = {} /\ Rising(<<>>)
    BY EmptyPieces
  <1>6. PiecesOf(Mail(b)') \subseteq PiecesOf(Arriving(b))
    BY <1>2, LessPieces
  <1>7. Line(Stage', asked') /\ Line(Replay', asked')
    <2>1. CASE b = "EVSE"
      <3>1. /\ \A k \in 1..17 : k # 4 => Stage'[k] \subseteq Stage[k]
            /\ Stage'[4] \subseteq Stage[4] \union Stage[4 + 1]
            /\ Stage'[4 + 1] = {}
        BY <1>1, <1>2, <1>3, <1>5, <1>6, <2>1, Places, PlacesNext
      <3>2. Less(Mail("EV")', Mail("EV"))
        BY <1>2, <2>1 DEF Less
      <3> QED
        BY <1>1, <3>1, <3>2, ShiftBoth
    <2>2. CASE b = "EV"
      <3>1. /\ \A k \in 1..17 : k # 12 => Stage'[k] \subseteq Stage[k]
            /\ Stage'[12] \subseteq Stage[12] \union Stage[12 + 1]
            /\ Stage'[12 + 1] = {}
        BY <1>1, <1>2, <1>3, <1>5, <1>6, <2>2, Places, PlacesNext
      <3>2. Line(Stage', asked')
        BY <1>1, <3>1, ShiftStage
      <3>3. /\ \A k \in 1..17 : k # 12 => Replay'[k] \subseteq Replay[k]
            /\ Replay'[12] \subseteq Replay[12] \union Replay[12 + 1]
            /\ Replay'[12 + 1] = {}
        BY <1>6, <2>2, <3>1, Replays, Places
      <3>4. Line(Replay', asked')
        BY <1>1, <3>3, ShiftReplay
      <3> QED
        BY <3>2, <3>4
    <2> QED
      BY <2>1, <2>2
  <1>8. \A c \in Boards : Straight(c)'
    <2>1. Rising(Mail(b)') /\ Rising(Arriving(b)')
      BY <1>2, <1>5, LessPieces DEF InOrder, Straight
    <2> QED
      BY <1>3, <2>1 DEF InOrder, Straight
  <1> QED
    BY <1>1, <1>4, <1>7, <1>8 DEF InOrder

\* The relay thread reads it, unless the MQTT thread is at work on it.
LEMMA ConvertOrder ==
    ASSUME NEW b \in Boards, TypeOK, InOrder, Convert(b, "send"), Untorn'
    PROVE  InOrder'
  <1> USE DEF Convert, mailVars, linkVars, dutVars, TypeOK, Boards
  <1>1. asked' = asked /\ Given' = Given /\ Increasing'
    BY DEF Given, InOrder, Increasing
  <1>2. callback[b] = "idle" /\ rth_data_received[b]
    BY DEF Untorn, InOrder, Ends
  <1>3. /\ Sending(b)' = Mail(b)
        /\ b = "EVSE" => Mail(b)' = <<>>
        /\ b = "EV" => Mail(b)' = Mail(b) /\ Unread = Mail(b)
                       /\ Unread' = <<>>
        /\ b # "EV" => Unread' = Unread
    BY <1>2 DEF Sending, Mail, Unread, If, Pending, Resend
  <1>4. /\ \A c \in Boards : /\ Arriving(c)' = Arriving(c)
                             /\ Publishing(c)' = Publishing(c)
                             /\ c # b => Mail(c)' = Mail(c)
                             /\ c # b => Sending(c)' = Sending(c)
        /\ toDut' = toDut /\ toBoard' = toBoard /\ owed' = owed
        /\ topic' = topic
    <2>1. \A c \in Boards : c # b => Sending(c)' = Sending(c)
      BY DEF Sending, If
    <2>2. \A c \in Boards : Publishing(c)' = Publishing(c)
      BY DEF Publishing, If
    <2>3. \A c \in Boards : c # b => Mail(c)' = Mail(c)
      BY DEF Mail, If, Pending
    <2>4. \A c \in Boards : Arriving(c)' = Arriving(c)
      BY DEF Arriving, If
    <2> QED
      BY <2>1, <2>2, <2>3, <2>4
  <1>5. Ends'
    BY DEF Ends, InOrder
  <1> HIDE DEF Convert, mailVars, linkVars, dutVars, TypeOK
  <1>6. PiecesOf(<<>>) = {} /\ Rising(<<>>)
    BY EmptyPieces
  <1>7. Line(Stage', asked') /\ Line(Replay', asked')
    <2>1. CASE b = "EVSE"
      <3>1. /\ \A k \in 1..17 : k # 3 => Stage'[k] \subseteq Stage[k]
            /\ Stage'[3] \subseteq Stage[3] \union Stage[3 + 1]
            /\ Stage'[3 + 1] = {}
        BY <1>1, <1>3, <1>4, <1>6, <2>1, Places, PlacesNext
      <3>2. Less(Mail("EV")', Mail("EV"))
        BY <1>4, <2>1 DEF Less
      <3> QED
        BY <1>1, <3>1, <3>2, ShiftBoth
    <2>2. CASE b = "EV"
      <3>1. /\ \A k \in 1..17 : k # 11 => Stage'[k] \subseteq Stage[k]
            /\ Stage'[11] \subseteq Stage[11] \union Stage[11 + 1]
            /\ Stage'[11 + 1] = {}
        BY <1>1, <1>3, <1>4, <1>6, <2>2, Places, PlacesNext
      <3>2. Line(Stage', asked')
        BY <1>1, <3>1, ShiftStage
      <3>3. \A k \in 1..17 : Replay'[k] \subseteq Replay[k]
        BY <1>3, <2>2, <3>1, Replays
      <3>4. Line(Replay', asked')
        BY <1>1, <3>3, LineShrink DEF InOrder
      <3> QED
        BY <3>2, <3>4
    <2> QED
      BY <2>1, <2>2
  <1>8. \A c \in Boards : Straight(c)'
    BY <1>3, <1>4, <1>6 DEF InOrder, Straight
  <1> QED
    BY <1>1, <1>5, <1>7, <1>8 DEF InOrder

\* It is sent on to the DUT, behind what the DUT has not read yet.
LEMMA SendOrder ==
    ASSUME NEW b \in Boards, NEW next, TypeOK, InOrder, Send(b, next),
           next = IF b = "EV" THEN "receive" ELSE "clear"
    PROVE  InOrder'
  <1> USE DEF Send, mailVars, dutVars, histVars, TypeOK, Boards
  <1>1. asked' = asked /\ Given' = Given /\ Increasing'
    BY DEF Given, InOrder, Increasing
  <1>2. /\ Sending(b) = buffer[b]
        /\ Sending(b)' = <<>>
        /\ toDut'[b] \in {toDut[b], toDut[b] \o buffer[b]}
        /\ toDut[b] \in Packet /\ buffer[b] \in Packet
    BY DEF Sending, If
  <1>3. /\ \A c \in Boards : /\ Arriving(c)' = Arriving(c)
                             /\ Publishing(c)' = Publishing(c)
                             /\ Mail(c)' = Mail(c)
                             /\ c # b => Sending(c)' = Sending(c)
                             /\ c # b => toDut'[c] = toDut[c]
        /\ toBoard' = toBoard /\ owed' = owed /\ topic' = topic
        /\ Unread' = Unread
    <2>1. \A c \in Boards : c # b => Sending(c)' = Sending(c)
      BY DEF Sending, If
    <2>2. \A c \in Boards : Publishing(c)' = Publishing(c)
      BY DEF Publishing, If
    <2>3. \A c \in Boards : Mail(c)' = Mail(c)
      BY DEF Mail, If, Pending
    <2>4. \A c \in Boards : Arriving(c)' = Arriving(c)
      BY DEF Arriving, If
    <2>5. Unread' = Unread
      BY <2>3 DEF Unread, If, Resend
    <2>6. \A c \in Boards : c # b => toDut'[c] = toDut[c]
      OBVIOUS
    <2> QED
      BY <2>1, <2>2, <2>3, <2>4, <2>5, <2>6
  <1>4. Ends'
    BY DEF Ends, InOrder
  <1> HIDE DEF Send, mailVars, dutVars, histVars, TypeOK
  <1>5. PiecesOf(<<>>) = {} /\ Rising(<<>>)
    BY EmptyPieces
  <1>6. Ahead(PiecesOf(toDut[b]), PiecesOf(Sending(b)))
    <2>1. Ahead(Stage[2], Stage[2 + 1]) /\ Ahead(Stage[10], Stage[10 + 1])
      BY NextTo
    <2> QED
      BY <2>1, Places
  <1>7. /\ PiecesOf(toDut'[b])
              \subseteq PiecesOf(toDut[b]) \union PiecesOf(Sending(b))
        /\ Rising(toDut'[b])
    BY <1>2, <1>6, CatPieces DEF InOrder, Straight
  <1>8. Line(Stage', asked') /\ Line(Replay', asked')
    <2>1. CASE b = "EVSE"
      <3>1. /\ \A k \in 1..17 : k # 2 => Stage'[k] \subseteq Stage[k]
            /\ Stage'[2] \subseteq Stage[2] \union Stage[2 + 1]
            /\ Stage'[2 + 1] = {}
        BY <1>1, <1>2, <1>3, <1>5, <1>7, <2>1, Places, PlacesNext
      <3>2. Less(Mail("EV")', Mail("EV"))
        BY <1>3 DEF Less
      <3> QED
        BY <1>1, <3>1, <3>2, ShiftBoth
    <2>2. CASE b = "EV"
      <3>1. /\ \A k \in 1..17 : k # 10 => Stage'[k] \subseteq Stage[k]
            /\ Stage'[10] \subseteq Stage[10] \union Stage[10 + 1]
            /\ Stage'[10 + 1] = {}
        BY <1>1, <1>2, <1>3, <1>5, <1>7, <2>2, Places, PlacesNext
      <3>2. Line(Stage', asked')
        BY <1>1, <3>1, ShiftStage
      <3>3. \A k \in 1..17 : Replay'[k] \subseteq Replay[k]
        BY <1>3, <2>2, <3>1, Replays
      <3>4. Line(Replay', asked')
        BY <1>1, <3>3, LineShrink DEF InOrder
      <3> QED
        BY <3>2, <3>4
    <2> QED
      BY <2>1, <2>2
  <1>9. \A c \in Boards : Straight(c)'
    BY <1>2, <1>3, <1>5, <1>7 DEF InOrder, Straight
  <1> QED
    BY <1>1, <1>4, <1>8, <1>9 DEF InOrder

\* What the DUT wrote is read by the board.
LEMMA ReceiveOrder ==
    ASSUME NEW b \in Boards, TypeOK, InOrder, Receive(b, "publish")
    PROVE  InOrder'
  <1> USE DEF Receive, mailVars, dutVars, histVars, TypeOK, Boards
  <1>1. asked' = asked /\ Given' = Given /\ Increasing'
    BY DEF Given, InOrder, Increasing
  <1>2. /\ Publishing(b)' = toBoard[b]
        /\ toBoard'[b] = <<>>
        /\ b = "EV" => Mail("EV")' = <<>> /\ Unread' = <<>>
        /\ b # "EV" => Mail("EV")' = Mail("EV") /\ Unread' = Unread
        /\ Less(Mail("EVSE")', Mail("EVSE"))
    BY DEF Publishing, If, Mail, Unread, Pending, Resend, Less
  <1>3. /\ \A c \in Boards : /\ Arriving(c)' = Arriving(c)
                             /\ Sending(c)' = Sending(c)
                             /\ c # b => Publishing(c)' = Publishing(c)
                             /\ c # b => toBoard'[c] = toBoard[c]
        /\ toDut' = toDut /\ owed' = owed /\ topic' = topic
    <2>1. \A c \in Boards : Sending(c)' = Sending(c)
      BY DEF Sending, If
    <2>2. \A c \in Boards : c # b => Publishing(c)' = Publishing(c)
      BY DEF Publishing, If
    <2>3. \A c \in Boards : Arriving(c)' = Arriving(c)
      BY DEF Arriving, If
    <2>4. \A c \in Boards : c # b => toBoard'[c] = toBoard[c]
      OBVIOUS
    <2> QED
      BY <2>1, <2>2, <2>3, <2>4
  <1>4. Ends'
    BY DEF Ends, InOrder
  <1> HIDE DEF Receive, mailVars, dutVars, histVars, TypeOK
  <1>5. PiecesOf(<<>>) = {} /\ Rising(<<>>)
    BY EmptyPieces
  <1>6. PiecesOf(Mail("EVSE")') \subseteq PiecesOf(Mail("EVSE"))
    BY <1>2, LessPieces
  <1>7. Line(Stage', asked') /\ Line(Replay', asked')
    <2>1. CASE b = "EVSE"
      <3>1. /\ \A k \in 1..17 : k # 15 => Stage'[k] \subseteq Stage[k]
            /\ Stage'[15] \subseteq Stage[15] \union Stage[15 + 1]
            /\ Stage'[15 + 1] = {}
        BY <1>1, <1>2, <1>3, <1>5, <1>6, <2>1, Places, PlacesNext
      <3>2. Less(Mail("EV")', Mail("EV"))
        BY <1>2, <2>1 DEF Less
      <3> QED
        BY <1>1, <3>1, <3>2, ShiftBoth
    <2>2. CASE b = "EV"
      <3>1. /\ \A k \in 1..17 : k # 7 => Stage'[k] \subseteq Stage[k]
            /\ Stage'[7] \subseteq Stage[7] \union Stage[7 + 1]
            /\ Stage'[7 + 1] = {}
        BY <1>1, <1>2, <1>3, <1>5, <1>6, <2>2, Places, PlacesNext
      <3>2. Line(Stage', asked')
        BY <1>1, <3>1, ShiftStage
      <3>3. \A k \in 1..17 : Replay'[k] \subseteq Stage'[k]
        BY <1>2, <1>5, <2>2, Replays
      <3>4. Line(Replay', asked')
        BY <3>2, <3>3, LineShrink
      <3> QED
        BY <3>2, <3>4
    <2> QED
      BY <2>1, <2>2
  <1>8. \A c \in Boards : Straight(c)'
    <2>1. \A c \in Boards : Less(Mail(c)', Mail(c))
      BY <1>2 DEF Less, Boards
    <2> QED
      BY <1>2, <1>3, <1>5, <2>1, LessPieces DEF InOrder, Straight
  <1> QED
    BY <1>1, <1>4, <1>7, <1>8 DEF InOrder

\* The EV board's connection is dropped with the flag up: its packet will be
\* read again, and nothing that came of the first reading is left.
LEMMA ResendOrder ==
    ASSUME TypeOK, InOrder, PeerClosed("EV")
    PROVE  InOrder'
  <1> USE DEF PeerClosed, mailVars, linkVars, dutVars, histVars, TypeOK,
              Boards
  <1>1. asked' = asked /\ Given' = Given /\ Increasing'
    BY DEF Given, InOrder, Increasing
  <1>2. /\ toBoard["EV"] = <<>> /\ owed["EV"] = <<>> /\ toDut["EV"] = <<>>
        /\ Sending("EV")' = <<>>
        /\ Unread' = Mail("EV")
    BY DEF InOrder, Ends, Sending, If, Mail, Unread, Pending, Resend
  <1>3. /\ \A c \in Boards : /\ Arriving(c)' = Arriving(c)
                             /\ Publishing(c)' = Publishing(c)
                             /\ Mail(c)' = Mail(c)
                             /\ Sending(c)' = Sending(c)
        /\ toDut' = toDut /\ toBoard' = toBoard /\ owed' = owed
        /\ topic' = topic
    <2>1. \A c \in Boards : Sending(c)' = Sending(c)
      BY DEF Sending, If
    <2>2. \A c \in Boards : Publishing(c)' = Publishing(c)
      BY DEF Publishing, If
    <2>3. \A c \in Boards : Mail(c)' = Mail(c)
      BY DEF Mail, If, Pending
    <2>4. \A c \in Boards : Arriving(c)' = Arriving(c)
      BY DEF Arriving, If
    <2> QED
      BY <2>1, <2>2, <2>3, <2>4
  <1>4. Ends'
    BY DEF Ends, InOrder
  <1> HIDE DEF PeerClosed, mailVars, linkVars, dutVars, histVars, TypeOK
  <1>5. PiecesOf(<<>>) = {}
    BY EmptyPieces
  <1>6. \A k \in 1..17 : Stage'[k] \subseteq Replay[k]
    BY <1>1, <1>2, <1>3, <1>5, Replays, Places, PlacesNext
  <1>7. \A k \in 1..17 : Replay'[k] \subseteq Replay[k]
    BY <1>3, <1>6, Replays
  <1>8. Line(Stage', asked') /\ Line(Replay', asked')
    BY <1>1, <1>6, <1>7, LineShrink DEF InOrder
  <1>9. \A c \in Boards : Straight(c)'
    BY <1>3 DEF InOrder, Straight
  <1> QED
    BY <1>1, <1>4, <1>8, <1>9 DEF InOrder

\* It is published: it joins the other board's queue, or is lost.
LEMMA PublishOrder ==
    ASSUME NEW b \in Boards, NEW next, TypeOK, InOrder, Publish(b, next),
           next = IF b = "EV" THEN "clear" ELSE "poll"
    PROVE  InOrder'
  <1> DEFINE o == Other(b)
  <1> USE DEF Publish, mailVars, linkVars, dutVars, TypeOK, Boards
  <1>1. asked' = asked /\ Given' = Given /\ Increasing'
    BY DEF Given, InOrder, Increasing
  <1>2. /\ o \in Boards
        /\ Publishing(b) = buffer[b]
        /\ Publishing(b)' = <<>>
        /\ topic'[o] \in {topic[o], Append(topic[o], buffer[b])}
        /\ topic[o] \in Seq(Packet) /\ buffer[b] \in Packet
    BY DEF Publishing, If, Other
  <1>3. /\ \A c \in Boards : /\ Arriving(c)' = Arriving(c)
                             /\ Sending(c)' = Sending(c)
                             /\ Mail(c)' = Mail(c)
                             /\ c # b => Publishing(c)' = Publishing(c)
                             /\ c # o => topic'[c] = topic[c]
        /\ toDut' = toDut /\ toBoard' = toBoard /\ owed' = owed
        /\ Unread' = Unread
    <2>1. \A c \in Boards : c # b => Publishing(c)' = Publishing(c)
      BY DEF Publishing, If
    <2>2. \A c \in Boards : Sending(c)' = Sending(c)
      BY DEF Sending, If
    <2>3. \A c \in Boards : Mail(c)' = Mail(c)
      BY DEF Mail, If, Pending
    <2>4. \A c \in Boards : Arriving(c)' = Arriving(c)
      BY DEF Arriving, If
    <2>5. Unread' = Unread
      BY <2>3 DEF Unread, If, Resend
    <2>6. \A c \in Boards : c # o => topic'[c] = topic[c]
      BY DEF Other
    <2> QED
      BY <2>1, <2>2, <2>3, <2>4, <2>5, <2>6
  <1>4. Ends'
    BY DEF Ends, InOrder
  <1> HIDE DEF o, Publish, mailVars, linkVars, dutVars, TypeOK
  <1>5. PiecesOf(<<>>) = {} /\ Rising(<<>>)
    BY EmptyPieces
  <1>6. Ahead(AllOf(topic[o]), PiecesOf(Publishing(b)))
    <2>1. Ahead(Stage[6], Stage[6 + 1]) /\ Ahead(Stage[14], Stage[14 + 1])
      BY NextTo
    <2> QED
      BY <2>1, Places DEF o, Other
  <1>7. /\ AllOf(topic'[o])
              \subseteq AllOf(topic[o]) \union PiecesOf(Publishing(b))
        /\ InTurn(topic'[o])
    <2>1. Rising(buffer[b]) /\ InTurn(topic[o])
      BY <1>2 DEF InOrder, Straight
    <2> QED
      BY <1>2, <1>6, <2>1, QueueBack
  <1>8. Line(Stage', asked') /\ Line(Replay', asked')
    <2>1. Less(Mail("EV")', Mail("EV"))
      BY <1>3 DEF Less
    <2>2. CASE b = "EVSE"
      <3>1. o = "EV"
        BY <2>2 DEF o, Other
      <3>2. /\ \A k \in 1..17 : k # 14 => Stage'[k] \subseteq Stage[k]
            /\ Stage'[14] \subseteq Stage[14] \union Stage[14 + 1]
            /\ Stage'[14 + 1] = {}
        <4>1. /\ AllOf(topic'["EV"])
                    \subseteq AllOf(topic["EV"])
                                \union PiecesOf(Publishing("EVSE"))
              /\ topic'["EVSE"] = topic["EVSE"]
              /\ Publishing("EVSE")' = <<>>
              /\ Publishing("EV")' = Publishing("EV")
          BY <1>2, <1>3, <1>7, <2>2, <3>1
        <4> QED
          BY <1>1, <1>3, <1>5, <4>1, Places, PlacesNext
      <3> QED
        BY <1>1, <2>1, <3>2, ShiftBoth
    <2>3. CASE b = "EV"
      <3>1. o = "EVSE"
        BY <2>3 DEF o, Other
      <3>2. /\ \A k \in 1..17 : k # 6 => Stage'[k] \subseteq Stage[k]
            /\ Stage'[6] \subseteq Stage[6] \union Stage[6 + 1]
            /\ Stage'[6 + 1] = {}
        <4>1. /\ AllOf(topic'["EVSE"])
                    \subseteq AllOf(topic["EVSE"])
                                \union PiecesOf(Publishing("EV"))
              /\ topic'["EV"] = topic["EV"]
              /\ Publishing("EV")' = <<>>
              /\ Publishing("EVSE")' = Publishing("EVSE")
          BY <1>2, <1>3, <1>7, <2>3, <3>1
        <4> QED
          BY <1>1, <1>3, <1>5, <4>1, Places, PlacesNext
      <3> QED
        BY <1>1, <2>1, <3>2, ShiftBoth
    <2> QED
      BY <2>2, <2>3
  <1>9. \A c \in Boards : Straight(c)'
    BY <1>2, <1>3, <1>5, <1>7 DEF InOrder, Straight
  <1> QED
    BY <1>1, <1>4, <1>8, <1>9 DEF InOrder

\* A DUT writes the tail it owes behind what it has written.
LEMMA TailOrder ==
    ASSUME NEW b \in Boards, TypeOK, InOrder, DutWritesTail(b)
    PROVE  InOrder'
  <1> USE DEF DutWritesTail, mailVars, threadVars, dutVars, histVars, TypeOK,
              Boards
  <1>1. asked' = asked /\ Given' = Given /\ Increasing'
    BY DEF Given, InOrder, Increasing
  <1>2. /\ owed'[b] = <<>>
        /\ toBoard'[b] = toBoard[b] \o owed[b]
        /\ toBoard[b] \in Packet /\ owed[b] \in Packet
        /\ \A c \in Boards :
              c # b => toBoard'[c] = toBoard[c] /\ owed'[c] = owed[c]
    OBVIOUS
  <1>3. /\ \A c \in Boards : /\ Arriving(c)' = Arriving(c)
                             /\ Sending(c)' = Sending(c)
                             /\ Mail(c)' = Mail(c)
                             /\ Publishing(c)' = Publishing(c)
        /\ toDut' = toDut /\ topic' = topic
        /\ Unread' = Unread
    BY DEF Arriving, Sending, Mail, Publishing, Unread, Pending, Resend, If
  <1>4. Ends'
    BY DEF Ends, InOrder
  <1> HIDE DEF DutWritesTail, mailVars, threadVars, dutVars, histVars, TypeOK
  <1>5. PiecesOf(<<>>) = {} /\ Rising(<<>>)
    BY EmptyPieces
  <1>6. Ahead(PiecesOf(toBoard[b]), PiecesOf(owed[b]))
    <2>1. Ahead(Stage[8], Stage[8 + 1]) /\ Ahead(Stage[16], Stage[16 + 1])
      BY NextTo
    <2> QED
      BY <2>1, Places
  <1>7. /\ PiecesOf(toBoard'[b])
              = PiecesOf(toBoard[b]) \union PiecesOf(owed[b])
        /\ Rising(toBoard'[b])
    BY <1>2, <1>6, CatPieces DEF InOrder, Straight
  <1>8. Line(Stage', asked') /\ Line(Replay', asked')
    <2>1. CASE b = "EVSE"
      <3>1. /\ \A k \in 1..17 : k # 16 => Stage'[k] \subseteq Stage[k]
            /\ Stage'[16] \subseteq Stage[16] \union Stage[16 + 1]
            /\ Stage'[16 + 1] = {}
        <4>1. /\ PiecesOf(toBoard'["EVSE"])
                    = PiecesOf(toBoard["EVSE"]) \union PiecesOf(owed["EVSE"])
              /\ toBoard'["EV"] = toBoard["EV"]
              /\ owed'["EVSE"] = <<>>
              /\ owed'["EV"] = owed["EV"]
          BY <1>2, <1>7, <2>1
        <4> QED
          BY <1>1, <1>3, <1>5, <4>1, Places, PlacesNext
      <3>2. Less(Mail("EV")', Mail("EV"))
        BY <1>3 DEF Less
      <3> QED
        BY <1>1, <3>1, <3>2, ShiftBoth
    <2>2. CASE b = "EV"
      <3>1. /\ \A k \in 1..17 : k # 8 => Stage'[k] \subseteq Stage[k]
            /\ Stage'[8] \subseteq Stage[8] \union Stage[8 + 1]
            /\ Stage'[8 + 1] = {}
        <4>1. /\ PiecesOf(toBoard'["EV"])
                    = PiecesOf(toBoard["EV"]) \union PiecesOf(owed["EV"])
              /\ toBoard'["EVSE"] = toBoard["EVSE"]
              /\ owed'["EV"] = <<>>
              /\ owed'["EVSE"] = owed["EVSE"]
          BY <1>2, <1>7, <2>2
        <4> QED
          BY <1>1, <1>3, <1>5, <4>1, Places, PlacesNext
      <3>2. Line(Stage', asked')
        BY <1>1, <3>1, ShiftStage
      <3>3. \A k \in 1..17 : Replay'[k] \subseteq Replay[k]
        BY <1>3, <2>2, <3>1, Replays
      <3>4. Line(Replay', asked')
        BY <1>1, <3>3, LineShrink DEF InOrder
      <3> QED
        BY <3>2, <3>4
    <2> QED
      BY <2>1, <2>2
  <1>9. \A c \in Boards : Straight(c)'
    BY <1>2, <1>3, <1>5, <1>7 DEF InOrder, Straight
  <1> QED
    BY <1>1, <1>4, <1>8, <1>9 DEF InOrder

\* What lies beyond the end of a message belongs to later ones.
LEMMA Beyond ==
    ASSUME NEW F, NEW n, Line(F, n), NEW m \in 1..17, NEW z \in F[m],
           z.part # "head",
           NEW k \in 1..17, m < k, NEW y \in F[k]
    PROVE  z.id < y.id
  BY DEF Line, Ahead, Before

\* And what lies before its beginning, to earlier ones.
LEMMA Behind ==
    ASSUME NEW F, NEW n, Line(F, n), NEW m \in 1..17, NEW z \in F[m],
           z.part # "tail",
           NEW k \in 1..17, k < m, NEW x \in F[k]
    PROVE  x.id < z.id
  BY DEF Line, Ahead, Before

\* Two places that touch may take in a message whose place in line it is.
LEMMA LineWrite ==
    ASSUME NEW F, NEW G, NEW A, NEW B, NEW n, NEW last, Line(F, last),
           NEW m \in 1..16,
           \A x \in A \union B : x \in Piece /\ x.id = n,
           n <= last,
           Ahead(A, B),
           \A k \in 1..17 : k \notin {m, m + 1} => G[k] \subseteq F[k],
           G[m] \subseteq F[m] \union A,
           G[m + 1] \subseteq B,
           \A k \in 1..17 : k <= m => \A x \in F[k] : x.id < n,
           \A k \in 1..17 : k > m + 1 => \A y \in G[k] : n < y.id
    PROVE  Line(G, last)
  <1>1. \A k \in 1..17 : k \in {m, m + 1} \/ k < m \/ k > m + 1
    OBVIOUS
  <1>2. \A k \in 1..17 : \A x \in G[k] : x \in Piece /\ x.id <= last
    BY <1>1 DEF Line
  <1>3. ASSUME NEW k \in 1..17, NEW l \in 1..17, k < l,
               NEW x \in G[k], NEW y \in G[l]
        PROVE  Before(x, y)
    <2>1. CASE k <= m /\ x \in F[k]
      <3>1. CASE l <= m /\ y \in F[l]
        BY <1>3, <2>1, <3>1 DEF Line, Ahead
      <3>2. CASE y \in A \union B
        BY <2>1, <3>2 DEF Before
      <3>3. CASE l > m + 1
        BY <1>3, <2>1, <3>3 DEF Line, Ahead
      <3> QED
        BY <1>1, <3>1, <3>2, <3>3
    <2>2. CASE k = m /\ x \in A
      <3>1. CASE l = m + 1
        BY <2>2, <3>1 DEF Ahead
      <3>2. CASE l > m + 1
        BY <2>2, <3>2 DEF Before
      <3> QED
        BY <1>3, <2>2, <3>1, <3>2
    <2>3. CASE k = m + 1 /\ x \in B
      <3>1. l > m + 1
        BY <1>3, <2>3
      <3> QED
        BY <2>3, <3>1 DEF Before
    <2>4. CASE k > m + 1
      <3>1. l > m + 1 /\ x \in F[k] /\ y \in F[l]
        BY <1>3, <2>4
      <3> QED
        BY <1>3, <3>1 DEF Line, Ahead
    <2> QED
      BY <1>1, <2>1, <2>2, <2>3, <2>4
  <1> QED
    BY <1>2, <1>3 DEF Line, Ahead

\* A DUT writes a message behind earlier ones, whole or its head first.
LEMMA WriteOrder ==
    ASSUME NEW b \in Boards, NEW n \in Nat, TypeOK, DutWrites(b, n),
           Straight(b),
           \A x \in PiecesOf(toBoard[b]) : x.id < n
    PROVE  \E A, B :
              /\ \A x \in A \union B : x \in Piece /\ x.id = n
              /\ Ahead(A, B)
              /\ PiecesOf(toBoard'[b]) = PiecesOf(toBoard[b]) \union A
              /\ PiecesOf(owed'[b]) = B
              /\ Rising(toBoard'[b])
              /\ Rising(owed'[b])
              /\ \A c \in Boards : /\ c # b => toBoard'[c] = toBoard[c]
                                   /\ c # b => owed'[c] = owed[c]
  <1> DEFINE w == [id |-> n, part |-> "whole"]
             h == [id |-> n, part |-> "head"]
             t == [id |-> n, part |-> "tail"]
  <1>1. w \in Piece /\ h \in Piece /\ t \in Piece
    BY DEF Piece, Parts
  <1>2. /\ toBoard[b] \in Packet /\ owed[b] = <<>>
        /\ Rising(toBoard[b])
        /\ Whole(n) \in Packet /\ HeadOf(n) \in Packet
    BY PacketTypes DEF TypeOK, DutWrites, Straight
  <1>3. CASE toBoard' = [toBoard EXCEPT ![b] = @ \o Whole(n)] /\ owed' = owed
    <2>1. toBoard'[b] = toBoard[b] \o Whole(n) /\ owed'[b] = <<>>
      BY <1>2, <1>3 DEF TypeOK
    <2>2. Ahead(PiecesOf(toBoard[b]), PiecesOf(Whole(n)))
      BY MessagePieces DEF Ahead, Before
    <2>3. /\ PiecesOf(toBoard'[b]) = PiecesOf(toBoard[b]) \union {w}
          /\ Rising(toBoard'[b])
      BY <1>2, <2>1, <2>2, CatPieces, MessagePieces
    <2>4. PiecesOf(owed'[b]) = {} /\ Rising(owed'[b])
      BY <2>1, EmptyPieces
    <2>5. /\ Ahead({w}, {})
          /\ \A x \in {w} \union {} : x \in Piece /\ x.id = n
      BY <1>1 DEF Ahead
    <2>6. \A c \in Boards : /\ c # b => toBoard'[c] = toBoard[c]
                            /\ c # b => owed'[c] = owed[c]
      BY <1>3 DEF TypeOK
    <2> QED
      BY <2>3, <2>4, <2>5, <2>6
  <1>4. CASE /\ toBoard' = [toBoard EXCEPT ![b] = @ \o HeadOf(n)]
             /\ owed' = [owed EXCEPT ![b] = TailOf(n)]
    <2>1. toBoard'[b] = toBoard[b] \o HeadOf(n) /\ owed'[b] = TailOf(n)
      BY <1>4 DEF TypeOK
    <2>2. Ahead(PiecesOf(toBoard[b]), PiecesOf(HeadOf(n)))
      BY MessagePieces DEF Ahead, Before
    <2>3. /\ PiecesOf(toBoard'[b]) = PiecesOf(toBoard[b]) \union {h}
          /\ Rising(toBoard'[b])
      BY <1>2, <2>1, <2>2, CatPieces, MessagePieces
    <2>4. PiecesOf(owed'[b]) = {t} /\ Rising(owed'[b])
      BY <2>1, MessagePieces
    <2>5. /\ Ahead({h}, {t})
          /\ \A x \in {h} \union {t} : x \in Piece /\ x.id = n
      BY <1>1 DEF Ahead, Before
    <2>6. \A c \in Boards : /\ c # b => toBoard'[c] = toBoard[c]
                            /\ c # b => owed'[c] = owed[c]
      BY <1>4 DEF TypeOK
    <2> QED
      BY <2>3, <2>4, <2>5, <2>6
  <1> QED
    BY <1>3, <1>4 DEF DutWrites

\* The EV DUT reads the message in front: an answer later than all it has
\* been handed and earlier than all that is under way.
LEMMA TakesOrder ==
    ASSUME TypeOK, InOrder, EvTakesAnswer
    PROVE  InOrder'
  <1> DEFINE s == toDut["EVSE"]
             a == Head(s).id
             w == [id |-> a, part |-> "whole"]
  <1> USE DEF Boards
  <1>1. /\ asked' = asked /\ answers' = Append(answers, a)
        /\ answers \in Seq(Nat) /\ Len(answers) \in Nat
        /\ toDut'["EVSE"] = AfterMessage(s) /\ toDut'["EV"] = toDut["EV"]
        /\ s \in Packet /\ Complete(s) /\ Rising(s)
    BY DEF EvTakesAnswer, TypeOK, InOrder, Straight
  <1>2. /\ AfterMessage(s) \in Packet
        /\ PiecesOf(AfterMessage(s)) \subseteq PiecesOf(s)
        /\ Rising(AfterMessage(s))
        /\ Head(s) \in PiecesOf(s)
        /\ a \in Nat
        /\ Head(s).part \in {"whole", "head"}
        /\ \A y \in PiecesOf(AfterMessage(s)) : a < y.id
        /\ \E z \in PiecesOf(s) : z.id = a /\ z.part \in {"whole", "tail"}
    BY <1>1, FrontMessage
  <1>3. /\ \A c \in Boards : /\ Arriving(c)' = Arriving(c)
                             /\ Sending(c)' = Sending(c)
                             /\ Mail(c)' = Mail(c)
                             /\ Publishing(c)' = Publishing(c)
        /\ toBoard' = toBoard /\ owed' = owed /\ topic' = topic
        /\ Unread' = Unread
    BY DEF EvTakesAnswer, mailVars, threadVars, Arriving, Sending, Mail,
           Publishing, Unread, Pending, Resend, If
  <1>4. Ends'
    <2>1. \A c \in Boards : toDut[c] = <<>> => toDut'[c] = <<>>
      BY <1>1 DEF Complete
    <2> QED
      BY <2>1 DEF Ends, InOrder, EvTakesAnswer, mailVars, threadVars
  <1>5. \A x \in Given : x.id < a
    <2>1. Line(Stage, asked) /\ Head(s) \in Stage[2] /\ Head(s).part # "tail"
      BY <1>2, Places DEF InOrder
    <2> QED
      BY <2>1, Behind, Places
  <1>6. \A k \in 1..17 : 2 < k => \A y \in Stage[k] : a < y.id
    <2>1. PICK z \in PiecesOf(s) : z.id = a /\ z.part \in {"whole", "tail"}
      BY <1>2
    <2>2. Line(Stage, asked) /\ z \in Stage[2] /\ z.part # "head"
      BY <2>1, Places DEF InOrder
    <2> QED
      BY <2>1, <2>2, Beyond
  <1>7. a <= asked /\ w \in Piece
    <2>1. Head(s) \in Stage[2]
      BY <1>2, Places
    <2> QED
      BY <1>2, <2>1, InPlace DEF Piece, Parts
  <1> DEFINE W == {w}
  <1> HIDE DEF s, a, W
  <1>14. /\ PiecesOf(toDut'["EVSE"]) \subseteq PiecesOf(toDut["EVSE"])
         /\ \A y \in PiecesOf(toDut'["EVSE"]) : a < y.id
         /\ toDut'["EV"] = toDut["EV"]
    BY <1>1, <1>2 DEF s
  <1>8. /\ Len(answers') = Len(answers) + 1
        /\ answers'[Len(answers')] = a
        /\ \A i \in 1..Len(answers') :
              i = Len(answers') \/ i \in 1..Len(answers)
        /\ \A i \in 1..Len(answers) : answers'[i] = answers[i]
    BY <1>1, <1>2
  <1>9. Given' \subseteq Given \union W
    BY <1>1, <1>8 DEF Given, W
  <1>10. Increasing'
    <2> SUFFICES ASSUME NEW i \in 1..Len(answers'), NEW j \in 1..Len(answers'),
                        i < j, answers'[i] # 0, answers'[j] # 0
                 PROVE  answers'[i] < answers'[j]
      BY DEF Increasing
    <2>1. i \in 1..Len(answers)
      BY <1>1, <1>8
    <2>2. CASE j \in 1..Len(answers)
      BY <1>8, <2>1, <2>2 DEF InOrder, Increasing
    <2>3. CASE j = Len(answers')
      <3>1. [id |-> answers[i], part |-> "whole"] \in Given
        BY <1>8, <2>1 DEF Given
      <3> QED
        BY <1>5, <1>8, <2>1, <2>3, <3>1
    <2> QED
      BY <1>8, <2>2, <2>3
  <1>11. Line(Stage', asked')
    <2>1. \A k \in 1..17 : k # 1 => Stage'[k] \subseteq Stage[k]
      BY <1>3, <1>14, Places, PlacesNext
    <2>2. Stage'[1] \subseteq Stage[1] \union W
      BY <1>9, Places, PlacesNext
    <2>3. \A k \in 1..17 : k > 1 => Ahead(W, Stage'[k])
      <3> SUFFICES ASSUME NEW k \in 1..17, k > 1, NEW y \in Stage'[k]
                   PROVE  a < y.id
        BY DEF Ahead, Before, W
      <3>1. CASE k = 2
        BY <1>14, <3>1, PlacesNext
      <3>2. CASE k > 2
        BY <1>6, <2>1, <3>2
      <3> QED
        BY <3>1, <3>2
    <2>4. \A x \in W : x \in Piece /\ x.id <= asked
      BY <1>7 DEF W
    <2>5. Line(Stage, asked)
      BY DEF InOrder
    <2>6. Line(Stage', asked)
      BY <2>1, <2>2, <2>3, <2>4, <2>5, LineFront
    <2> QED
      BY <1>1, <2>6
  <1>12. Line(Replay', asked')
    <2>1. \A k \in 1..17 : k # 1 => Replay'[k] \subseteq Replay[k]
      BY <1>3, <1>14, Places, PlacesNext, Replays
    <2>2. Replay'[1] \subseteq Replay[1] \union W
      BY <1>9, Places, PlacesNext, Replays
    <2>3. \A k \in 1..17 : k > 1 => Ahead(W, Replay'[k])
      <3>1. PICK z \in PiecesOf(s) : z.id = a /\ z.part \in {"whole", "tail"}
        BY <1>2
      <3>2. Line(Replay, asked) /\ z \in Replay[2] /\ z.part # "head"
        BY <3>1, Places, Replays DEF InOrder, s
      <3>3. \A k \in 1..17 : 2 < k => \A y \in Replay[k] : a < y.id
        BY <3>1, <3>2, Beyond
      <3> SUFFICES ASSUME NEW k \in 1..17, k > 1, NEW y \in Replay'[k]
                   PROVE  a < y.id
        BY DEF Ahead, Before, W
      <3>4. CASE k = 2
        BY <1>14, <3>4, PlacesNext, Replays
      <3>5. CASE k > 2
        BY <2>1, <3>3, <3>5
      <3> QED
        BY <3>4, <3>5
    <2>4. \A x \in W : x \in Piece /\ x.id <= asked
      BY <1>7 DEF W
    <2>5. Line(Replay, asked)
      BY DEF InOrder
    <2>6. Line(Replay', asked)
      BY <2>1, <2>2, <2>3, <2>4, <2>5, LineFront
    <2> QED
      BY <1>1, <2>6
  <1>13. \A c \in Boards : Straight(c)'
    BY <1>1, <1>2, <1>3 DEF InOrder, Straight, s
  <1> QED
    BY <1>1, <1>4, <1>10, <1>11, <1>12, <1>13 DEF InOrder

\* The EVSE DUT reads the message in front and answers it.
LEMMA ServesOrder ==
    ASSUME TypeOK, InOrder, EvseServes
    PROVE  InOrder'
  <1> DEFINE s == toDut["EV"]
             n == Head(s).id
  <1> USE DEF Boards
  <1>1. /\ asked' = asked /\ answers' = answers
        /\ DutWrites("EV", n)
        /\ toDut'["EV"] = AfterMessage(s) /\ toDut'["EVSE"] = toDut["EVSE"]
        /\ s \in Packet /\ Complete(s) /\ Rising(s)
    BY DEF EvseServes, TypeOK, InOrder, Straight
  <1>2. /\ AfterMessage(s) \in Packet
        /\ PiecesOf(AfterMessage(s)) \subseteq PiecesOf(s)
        /\ Rising(AfterMessage(s))
        /\ Head(s) \in PiecesOf(s)
        /\ n \in Nat
        /\ Head(s).part \in {"whole", "head"}
        /\ \A y \in PiecesOf(AfterMessage(s)) : n < y.id
        /\ \E z \in PiecesOf(s) : z.id = n /\ z.part \in {"whole", "tail"}
    BY <1>1, FrontMessage
  <1>3. /\ \A c \in Boards : /\ Arriving(c)' = Arriving(c)
                             /\ Sending(c)' = Sending(c)
                             /\ Mail(c)' = Mail(c)
                             /\ Publishing(c)' = Publishing(c)
        /\ topic' = topic
        /\ Unread' = Unread
    BY DEF EvseServes, mailVars, threadVars, Arriving, Sending, Mail,
           Publishing, Unread, Pending, Resend, If
  <1>4. Given' = Given /\ Increasing'
    BY <1>1 DEF Given, InOrder, Increasing
  <1>5. \A k \in 1..17 : k < 10 => \A x \in Stage[k] : x.id < n
    <2>1. Line(Stage, asked) /\ Head(s) \in Stage[10] /\ Head(s).part # "tail"
      BY <1>2, Places DEF InOrder
    <2> QED
      BY <2>1, Behind
  <1>6. \A k \in 1..17 : 10 < k => \A y \in Stage[k] : n < y.id
    <2>1. PICK z \in PiecesOf(s) : z.id = n /\ z.part \in {"whole", "tail"}
      BY <1>2
    <2>2. Line(Stage, asked) /\ z \in Stage[10] /\ z.part # "head"
      BY <2>1, Places DEF InOrder
    <2> QED
      BY <2>1, <2>2, Beyond
  <1>7. n <= asked
    <2>1. Head(s) \in Stage[10]
      BY <1>2, Places
    <2> QED
      BY <2>1, InPlace
  <1> HIDE DEF s, n
  <1>8. \A x \in PiecesOf(toBoard["EV"]) : x.id < n
    BY <1>5, Places
  <1>9. PICK A, B :
           /\ \A x \in A \union B : x \in Piece /\ x.id = n
           /\ Ahead(A, B)
           /\ PiecesOf(toBoard'["EV"]) = PiecesOf(toBoard["EV"]) \union A
           /\ PiecesOf(owed'["EV"]) = B
           /\ Rising(toBoard'["EV"])
           /\ Rising(owed'["EV"])
           /\ toBoard'["EVSE"] = toBoard["EVSE"]
           /\ owed'["EVSE"] = owed["EVSE"]
    BY <1>1, <1>2, <1>8, WriteOrder DEF InOrder
  <1>10. Ends'
    <2>1. link' = link /\ pc' = pc /\ rth_data_received' = rth_data_received
      BY DEF EvseServes, threadVars, mailVars
    <2>2. link["EV"] = "open"
      BY <1>1 DEF DutWrites
    <2> QED
      BY <1>1, <1>9, <2>1, <2>2 DEF Ends, InOrder
  <1>11. Line(Stage', asked')
    <2>1. \A k \in 1..17 : k \notin {8, 8 + 1} => Stage'[k] \subseteq Stage[k]
      BY <1>1, <1>2, <1>3, <1>4, <1>9, Places, PlacesNext DEF s
    <2>2. /\ Stage'[8] \subseteq Stage[8] \union A
          /\ Stage'[8 + 1] \subseteq B
      BY <1>9, Places, PlacesNext
    <2>3. \A k \in 1..17 : k <= 8 => \A x \in Stage[k] : x.id < n
      BY <1>5
    <2>4. \A k \in 1..17 : k > 8 + 1 => \A y \in Stage'[k] : n < y.id
      <3>1. \A y \in Stage'[10] : n < y.id
        BY <1>1, <1>2, PlacesNext
      <3> QED
        BY <1>6, <2>1, <3>1
    <2> QED
      BY <1>1, <1>7, <1>9, <2>1, <2>2, <2>3, <2>4, LineWrite DEF InOrder
  <1>12. Line(Replay', asked')
    <2>1. \A k \in 1..17 : Replay'[k] \subseteq Replay[k]
      BY <1>1, <1>2, <1>3, <1>4, <1>9, Places, PlacesNext, Replays
    <2> QED
      BY <1>1, <2>1, LineShrink DEF InOrder
  <1>13. \A c \in Boards : Straight(c)'
    BY <1>1, <1>2, <1>3, <1>9 DEF InOrder, Straight
  <1> QED
    BY <1>1, <1>4, <1>10, <1>11, <1>12, <1>13 DEF InOrder

\* The EV DUT's request is the newest message.
LEMMA AsksOrder ==
    ASSUME TypeOK, InOrder, EvAsks
    PROVE  InOrder'
  <1> DEFINE n == asked + 1
  <1> USE DEF Boards
  <1>1. /\ asked \in Nat /\ n \in Nat
        /\ asked' = n /\ answers' = answers
        /\ DutWrites("EVSE", n)
    BY RelayAssumption DEF EvAsks, TypeOK
  <1>2. /\ \A c \in Boards : /\ Arriving(c)' = Arriving(c)
                             /\ Sending(c)' = Sending(c)
                             /\ Mail(c)' = Mail(c)
                             /\ Publishing(c)' = Publishing(c)
        /\ toDut' = toDut /\ topic' = topic
        /\ Unread' = Unread
    BY DEF EvAsks, mailVars, threadVars, Arriving, Sending, Mail,
           Publishing, Unread, Pending, Resend, If
  <1>3. Given' = Given /\ Increasing'
    BY <1>1 DEF Given, InOrder, Increasing
  <1>4. ASSUME NEW F, Line(F, asked)
        PROVE  /\ Line(F, n)
               /\ \A k \in 1..17 : \A x \in F[k] : x.id < n
    BY <1>1, <1>4 DEF Line, Piece
  <1> HIDE DEF n
  <1>5. /\ Line(Stage, n) /\ Line(Replay, n)
        /\ \A k \in 1..17 : \A x \in Stage[k] : x.id < n
        /\ \A k \in 1..17 : \A x \in Replay[k] : x.id < n
    BY <1>4 DEF InOrder
  <1>6. \A x \in PiecesOf(toBoard["EVSE"]) : x.id < n
    BY <1>5, Places
  <1>7. PICK A, B :
           /\ \A x \in A \union B : x \in Piece /\ x.id = n
           /\ Ahead(A, B)
           /\ PiecesOf(toBoard'["EVSE"]) = PiecesOf(toBoard["EVSE"]) \union A
           /\ PiecesOf(owed'["EVSE"]) = B
           /\ Rising(toBoard'["EVSE"])
           /\ Rising(owed'["EVSE"])
           /\ toBoard'["EV"] = toBoard["EV"]
           /\ owed'["EV"] = owed["EV"]
    BY <1>1, <1>6, WriteOrder DEF InOrder
  <1>8. Ends'
    <2>1. link' = link /\ pc' = pc /\ rth_data_received' = rth_data_received
      BY DEF EvAsks, threadVars, mailVars
    <2>2. link["EVSE"] = "open"
      BY <1>1 DEF DutWrites
    <2> QED
      BY <1>2, <1>7, <2>1, <2>2 DEF Ends, InOrder
  <1>9. n <= n /\ \A k \in 1..17 : ~(k > 16 + 1)
    BY <1>1
  <1>10. Line(Stage', asked')
    <2>1. /\ \A k \in 1..17 :
                k \notin {16, 16 + 1} => Stage'[k] \subseteq Stage[k]
          /\ Stage'[16] \subseteq Stage[16] \union A
          /\ Stage'[16 + 1] \subseteq B
      BY <1>2, <1>3, <1>7, Places, PlacesNext
    <2>2. /\ \A k \in 1..17 : k <= 16 => \A x \in Stage[k] : x.id < n
          /\ \A k \in 1..17 : k > 16 + 1 => \A y \in Stage'[k] : n < y.id
      BY <1>5, <1>9
    <2>3. Line(Stage', n)
      BY <1>5, <1>7, <1>9, <2>1, <2>2, LineWrite
    <2> QED
      BY <1>1, <2>3
  <1>11. Line(Replay', asked')
    <2>1. /\ \A k \in 1..17 :
                k \notin {16, 16 + 1} => Replay'[k] \subseteq Replay[k]
          /\ Replay'[16] \subseteq Replay[16] \union A
          /\ Replay'[16 + 1] \subseteq B
      BY <1>2, <1>3, <1>7, Places, PlacesNext, Replays
    <2>2. /\ \A k \in 1..17 : k <= 16 => \A x \in Replay[k] : x.id < n
          /\ \A k \in 1..17 : k > 16 + 1 => \A y \in Replay'[k] : n < y.id
      BY <1>5, <1>9
    <2>3. Line(Replay', n)
      BY <1>5, <1>7, <1>9, <2>1, <2>2, LineWrite
    <2> QED
      BY <1>1, <2>3
  <1>12. \A c \in Boards : Straight(c)'
    BY <1>2, <1>7 DEF InOrder, Straight
  <1> QED
    BY <1>3, <1>8, <1>10, <1>11, <1>12 DEF InOrder

\* Before the boards connect the places are empty.
LEMMA InitOrder == Init => InOrder
  <1> SUFFICES ASSUME Init PROVE InOrder
    OBVIOUS
  <1>1. PiecesOf(<<>>) = {} /\ Rising(<<>>) /\ AllOf(<<>>) = {} /\ InTurn(<<>>)
    BY EmptyPieces DEF AllOf, InTurn
  <1>2. /\ \A b \in Boards :
              /\ toDut[b] = <<>> /\ Sending(b) = <<>> /\ Mail(b) = <<>>
              /\ Arriving(b) = <<>> /\ topic[b] = <<>>
              /\ Publishing(b) = <<>> /\ toBoard[b] = <<>> /\ owed[b] = <<>>
        /\ Unread = <<>>
    BY DEF Init, Sending, Mail, Arriving, Publishing, Unread, Pending, If,
           Boards
  <1>3. Given = {} /\ Increasing
    BY DEF Init, Given, Increasing
  <1>4. \A k \in 1..17 : Stage[k] = {}
    BY <1>1, <1>2, <1>3, Places DEF Boards
  <1>5. \A k \in 1..17 : Replay[k] = {}
    BY <1>1, <1>2, <1>4, Replays DEF Boards
  <1>6. Line(Stage, asked) /\ Line(Replay, asked)
    BY <1>4, <1>5 DEF Line, Ahead
  <1>7. \A b \in Boards : Straight(b)
    BY <1>1, <1>2 DEF Straight
  <1>8. Ends
    BY DEF Init, Ends
  <1> QED
    BY <1>3, <1>6, <1>7, <1>8 DEF InOrder

\* Every step that tears no packet keeps the invariant.
LEMMA NextOrder ==
    ASSUME TypeOK, InOrder, Untorn', [Next]_vars
    PROVE  InOrder'
  <1>1. ASSUME NEW b \in Boards, Callback(b) PROVE InOrder'
    BY <1>1, RaiseOrder, StillOrder, StoreOrder DEF Callback
  <1>2. CASE Server \/ ServerAccept
    <2>1. CASE ServerAgain \/ ServerAccept \/ ServerPeerClosed \/ ServerPoll
                  \/ ServerClear
      BY <2>1, StillOrder
      DEF ServerAgain, ServerAccept, ServerPeerClosed, ServerPoll,
          ServerClear, Boards
    <2>2. CASE ServerReceive \/ ServerConvert
      BY <2>2, ReceiveOrder, ConvertOrder
      DEF ServerReceive, ServerConvert, Boards
    <2>3. CASE ServerSend
      BY <2>3, SendOrder DEF ServerSend, Boards
    <2>4. CASE ServerPublish
      BY <2>4, PublishOrder DEF ServerPublish, Boards
    <2> QED
      BY <1>2, <2>1, <2>2, <2>3, <2>4 DEF Server
  <1>3. CASE Client
    <2>1. CASE ClientAgain \/ ClientConnect \/ ClientPoll \/ ClientClear
      BY <2>1, StillOrder
      DEF ClientAgain, ClientConnect, ClientPoll, ClientClear, Boards
    <2>2. CASE ClientReceive \/ ClientConvert \/ ClientPeerClosed
      BY <2>2, ReceiveOrder, ConvertOrder, ResendOrder
      DEF ClientReceive, ClientConvert, ClientPeerClosed, Boards
    <2>3. CASE ClientSend
      BY <2>3, SendOrder DEF ClientSend, Boards
    <2>4. CASE ClientPublish
      BY <2>4, PublishOrder DEF ClientPublish, Boards
    <2> QED
      BY <1>3, <2>1, <2>2, <2>3, <2>4 DEF Client
  <1>4. ASSUME NEW b \in Boards,
               Exit(b) \/ DutWritesTail(b) \/ DutCloses(b) \/ DutRefuses(b)
        PROVE  InOrder'
    BY <1>4, EndOrder, TailOrder DEF DutCloses, DutRefuses
  <1>5. CASE EvAsks \/ EvTakesAnswer \/ EvseServes
    BY <1>5, AsksOrder, TakesOrder, ServesOrder
  <1>6. CASE UNCHANGED vars
    <2>1. /\ asked' = asked /\ Given' = Given /\ Unread' = Unread
          /\ Increasing' = Increasing /\ Ends' = Ends
          /\ \A b \in Boards : Fewer(b)
      BY <1>6
      DEF vars, mailVars, threadVars, linkVars, dutVars, histVars, Given,
          Unread, Increasing, Ends, Fewer, Less, Sending, Mail, Arriving,
          Publishing, Pending, Resend, If
    <2> QED
      BY <2>1, ShrinkInv DEF InOrder, Less
  <1> QED
    BY <1>1, <1>2, <1>3, <1>4, <1>5, <1>6 DEF Next

\* As long as no packet is torn, messages keep their order in every place
\* and from place to place, however often connections drop and packets are
\* sent again: the inductive invariant.
THEOREM MessagesInLine == Spec => [](TypeOK /\ (Untorn => InOrder))
  <1>1. Init => TypeOK /\ (Untorn => InOrder)
    BY InitType, InitOrder
  <1>2. TypeOK /\ (Untorn => InOrder) /\ [Next]_vars
           => (TypeOK /\ (Untorn => InOrder))'
    <2> SUFFICES ASSUME TypeOK, Untorn => InOrder, [Next]_vars, Untorn'
                 PROVE  InOrder'
      BY NextType
    <2>1. Untorn
      BY FaultsGrow DEF Untorn
    <2> QED
      BY <2>1, NextOrder
  <1> QED
    BY <1>1, <1>2, PTL DEF Spec

\* AnswersOnce: unless a packet is torn, the EV DUT is never handed the same
\* answer for two requests, whatever is lost, cut in two, sent again, wiped,
\* overrun or switched off.
THEOREM AnsweredOnce == Spec => []AnswersOnce
  <1>1. TypeOK /\ (Untorn => InOrder) => AnswersOnce
    <2> SUFFICES ASSUME TypeOK, Increasing PROVE AnswersOnce
      BY DEF Untorn, InOrder, AnswersOnce
    <2>1. \A i \in 1..Len(answers) : answers[i] \in Nat
      BY DEF TypeOK
    <2> QED
      BY <2>1 DEF Increasing, AnswersOnce
  <1> QED
    BY <1>1, MessagesInLine, PTL
=============================================================================
