------------------------------ MODULE Handshake ------------------------------
(***************************************************************************)
(* rth_handshake: the two boards find out over the MQTT broker that the    *)
(* other one is up.  The EVSE board publishes "1" on evse_message until it *)
(* hears from the EV board; the EV board, once it has heard "1", publishes *)
(* "1" on ev_message and decides by itself when that has been enough.      *)
(* rth_hs is written by the MQTT thread (handle_message) between any two   *)
(* steps of the loop, and QoS 0 publications get lost.                     *)
(***************************************************************************)
EXTENDS Naturals

CONSTANTS
    RetryLimit,     \* 10 in the code: give up when num_retries > RetryLimit
    ReplyRounds,    \* 3 in the code: the EV board's wait for success
    MaxLosses,      \* bound: publications lost in a behaviour
    MaxSkew         \* bound: rounds by which one board starts later (timed)

ASSUME HandshakeAssumption ==
    /\ RetryLimit \in Nat
    /\ ReplyRounds \in Nat
    /\ ReplyRounds <= RetryLimit + 1
    /\ MaxLosses \in Nat
    /\ MaxSkew \in Nat

Boards == {"EV", "EVSE"}

VARIABLES
    pc,             \* per board: next step of the loop
    rth_hs,         \* per board: NO_HS, FIRST_HS or BOTH_HS
    num_retries,    \* per board
    inbox,          \* per board: "1"s published to it and not yet delivered
    hellos,         \* history: "1"s the EVSE board has published
    replies,        \* history: "1"s the EV board has published
    lost,           \* history: publications lost
    overwritten,    \* history: a late "1" undid the EV board's BOTH_HS
    skew,           \* history: the clock at the latest start
    clock           \* rounds of sleep(3) since the first board started

history == <<hellos, replies, lost, overwritten, skew>>

vars == <<pc, rth_hs, num_retries, inbox, history, clock>>

Subscribed(b) == pc[b] \notin {"off", "failed", "exited"}

Goto(b, step) == pc' = [pc EXCEPT ![b] = step]

\* Publications reach only a board that has subscribed.
Publish(b) ==
    inbox' = IF Subscribed(b) THEN [inbox EXCEPT ![b] = @ + 1] ELSE inbox

-----------------------------------------------------------------------------

\* broker_check succeeded: subscribed, and in state RTH_HANDSHAKE.
Start(b) ==
    /\ pc[b] = "off"
    /\ Goto(b, "top")
    /\ skew' = clock
    /\ UNCHANGED <<rth_hs, num_retries, inbox, hellos, replies, lost,
                   overwritten, clock>>

\* The MQTT thread takes a "1" for the handshake state hs.
HandleAs(b, hs) ==
    /\ Subscribed(b)
    /\ inbox[b] > 0
    /\ inbox' = [inbox EXCEPT ![b] = @ - 1]
    /\ rth_hs' = [rth_hs EXCEPT ![b] = hs]
    /\ overwritten' =
          (overwritten \/ (b = "EV" /\ pc[b] = "check"
                                   /\ rth_hs[b] = "BOTH_HS"))
    /\ UNCHANGED <<pc, num_retries, hellos, replies, lost, skew, clock>>

\* (A slip for the runs to find: the topic is not looked at.)
HandleAnyTopic(b) == HandleAs(b, "BOTH_HS")

\* From the EVSE board it means FIRST_HS, from the EV board BOTH_HS.
HandleMessage(b) == HandleAs(b, IF b = "EV" THEN "FIRST_HS" ELSE "BOTH_HS")

\* The EVSE board issues the first handshake message until it is answered.
EvseAnnounce ==
    /\ pc["EVSE"] = "top"
    /\ Goto("EVSE", "check")
    /\ IF rth_hs["EVSE"] = "NO_HS"
       THEN Publish("EV") /\ hellos' = hellos + 1
       ELSE UNCHANGED <<inbox, hellos>>
    /\ UNCHANGED <<rth_hs, num_retries, replies, lost, overwritten, skew,
                   clock>>

\* The EV board replies to it...
EvReply ==
    /\ pc["EV"] = "top"
    /\ IF rth_hs["EV"] = "FIRST_HS"
       THEN /\ Publish("EVSE")
            /\ replies' = replies + 1
            /\ Goto("EV", "settle")
       ELSE /\ Goto("EV", "check")
            /\ UNCHANGED <<inbox, replies>>
    /\ UNCHANGED <<rth_hs, num_retries, hellos, lost, overwritten, skew,
                   clock>>

\* ...and goes on to take its replies for a success, or not yet.
SettleIf(enough) ==
    /\ pc["EV"] = "settle"
    /\ Goto("EV", "check")
    /\ rth_hs' = IF enough THEN [rth_hs EXCEPT !["EV"] = "BOTH_HS"] ELSE rth_hs
    /\ UNCHANGED <<num_retries, inbox, history, clock>>

\* (A slip for the runs to find: the round is missed.)
EvSettleExactly == SettleIf(num_retries["EV"] = ReplyRounds)

\* num_retries counts every round of the loop, not only those with a reply.
EvSettle == SettleIf(num_retries["EV"] >= ReplyRounds)

\* if (rth_hs == BOTH_HS) break
Check(b) ==
    /\ pc[b] = "check"
    /\ Goto(b, IF rth_hs[b] = "BOTH_HS" THEN "done" ELSE "count")
    /\ UNCHANGED <<rth_hs, num_retries, inbox, history, clock>>

\* The end of a round: give up (return -1, and main exits the application)
\* or go round again.
CountIf(b, giveUp) ==
    /\ pc[b] = "count"
    /\ IF giveUp
       THEN Goto(b, "failed") /\ UNCHANGED num_retries
       ELSE /\ Goto(b, "sleep")
            /\ num_retries' = [num_retries EXCEPT ![b] = @ + 1]
    /\ UNCHANGED <<rth_hs, inbox, history, clock>>

\* (Slips for the runs to find: a round too few, no limit, no counting.)
CountEarly(b) == CountIf(b, num_retries[b] >= RetryLimit)
CountForever(b) == CountIf(b, FALSE)
CountNothing(b) ==
    /\ pc[b] = "count"
    /\ Goto(b, "sleep")
    /\ UNCHANGED <<rth_hs, num_retries, inbox, history, clock>>

Count(b) == CountIf(b, num_retries[b] > RetryLimit)

\* sleep(3) is over, and no signal was captured meanwhile.
Wake(b) ==
    /\ pc[b] = "sleep"
    /\ Goto(b, "top")
    /\ UNCHANGED <<rth_hs, num_retries, inbox, history, clock>>

\* if (signal_captured) exit_app(0)
Interrupted(b) ==
    /\ pc[b] = "sleep"
    /\ Goto(b, "exited")
    /\ UNCHANGED <<rth_hs, num_retries, inbox, history, clock>>

Lose(b) ==
    /\ inbox[b] > 0
    /\ lost < MaxLosses
    /\ lost' = lost + 1
    /\ inbox' = [inbox EXCEPT ![b] = @ - 1]
    /\ UNCHANGED <<pc, rth_hs, num_retries, hellos, replies, overwritten, skew,
                   clock>>

\* The three seconds outlast the delivery of every message and the rest of
\* the loop on both boards, which therefore go round together.
Tick ==
    /\ \A b \in Boards :
          /\ pc[b] \in {"off", "sleep", "done", "failed", "exited"}
          /\ Subscribed(b) => inbox[b] = 0
          /\ pc[b] = "off" => clock < MaxSkew
    /\ \E b \in Boards : pc[b] = "sleep"
    /\ pc' = [b \in Boards |-> IF pc[b] = "sleep" THEN "top" ELSE pc[b]]
    /\ clock' = clock + 1
    /\ UNCHANGED <<rth_hs, num_retries, inbox, history>>

-----------------------------------------------------------------------------

Init ==
    /\ pc = [b \in Boards |-> "off"]
    /\ rth_hs = [b \in Boards |-> "NO_HS"]
    /\ num_retries = [b \in Boards |-> 0]
    /\ inbox = [b \in Boards |-> 0]
    /\ hellos = 0
    /\ replies = 0
    /\ lost = 0
    /\ overwritten = FALSE
    /\ skew = 0
    /\ clock = 0

Loop(b) == Check(b) \/ Count(b)

Step ==
    \/ EvseAnnounce \/ EvReply \/ EvSettle
    \/ \E b \in Boards : Start(b) \/ HandleMessage(b) \/ Loop(b) \/ Lose(b)

\* The boards run at their own pace, messages take as long as they like.
Next == Step \/ \E b \in Boards : Wake(b) \/ Interrupted(b)

\* The boards run at the pace of sleep(3) and nobody interrupts them.
TimedNext == Step \/ Tick

\* The threads of a started board run; no message has to arrive.
Fairness ==
    /\ WF_vars(EvseAnnounce) /\ WF_vars(EvReply) /\ WF_vars(EvSettle)
    /\ \A b \in Boards : WF_vars(Loop(b)) /\ WF_vars(Wake(b) \/ Interrupted(b))

Spec == Init /\ [][Next]_vars /\ Fairness

TimedSpec == Init /\ [][TimedNext]_vars

-----------------------------------------------------------------------------

TypeOK ==
    /\ pc \in [Boards -> {"off", "top", "settle", "check", "count", "sleep",
                          "done", "failed", "exited"}]
    /\ rth_hs \in [Boards -> {"NO_HS", "FIRST_HS", "BOTH_HS"}]
    /\ num_retries \in [Boards -> 0..RetryLimit + 1]
    /\ inbox \in [Boards -> Nat]
    /\ hellos \in Nat
    /\ replies \in Nat
    /\ lost \in 0..MaxLosses
    /\ overwritten \in BOOLEAN
    /\ skew \in Nat
    /\ clock \in Nat

\* Neither board believes in a handshake the other had no part in: whichever
\* is done, the EVSE board has announced itself and the EV board has replied.
BothTookPart ==
    \A b \in Boards : pc[b] = "done" => hellos > 0 /\ replies > 0

\* A board publishes at most one message for each round of its loop, however
\* the MQTT thread rewrites rth_hs under it.
BoundedTraffic ==
    /\ hellos <= num_retries["EVSE"] + 1
    /\ replies <= num_retries["EV"] + 1

\* The EV board fails under an EVSE board that is done only when a late "1"
\* overwrote BOTH_HS between its being set and its being checked.
EvFailsOnlyIfOverwritten ==
    pc["EVSE"] = "done" /\ pc["EV"] = "failed" => overwritten

\* A started board leaves the loop, with either result, whatever is lost.
HandshakeEnds ==
    \A b \in Boards :
        pc[b] = "top" ~> pc[b] \in {"done", "failed", "exited"}

\* At the pace of sleep(3) no board gives up when nothing is lost and the
\* boards start at most RetryLimit - 2 rounds apart, nor when one message is
\* lost and they start at most ReplyRounds - 2 rounds apart.
HandshakeSucceeds ==
    \/ lost = 0 /\ skew + 2 <= RetryLimit
    \/ lost = 1 /\ skew + 2 <= ReplyRounds
    => \A b \in Boards : pc[b] # "failed"

=============================================================================
