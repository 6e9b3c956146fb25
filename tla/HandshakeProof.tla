---------------------------- MODULE HandshakeProof ----------------------------
(***************************************************************************)
(* Theorems about the handshake, for every retry limit, number of reply    *)
(* rounds and number of losses.                                            *)
(***************************************************************************)
EXTENDS Handshake, Integers, TLAPS

\* Who has heard what: a "1" known or under way to a board was published by
\* the other one, and the EV board replies only to a "1" it has heard.
Causality ==
    /\ rth_hs["EV"] # "NO_HS" \/ inbox["EV"] > 0 \/ replies > 0 => hellos > 0
    /\ rth_hs["EVSE"] # "NO_HS" \/ inbox["EVSE"] > 0 => replies > 0
    /\ rth_hs["EV"] = "BOTH_HS" \/ pc["EV"] = "settle" => replies > 0
    /\ rth_hs["EVSE"] # "FIRST_HS"
    /\ pc["EVSE"] # "settle"
    /\ pc["EV"] = "done" => replies > 0
    /\ pc["EVSE"] = "done" => replies > 0

\* In the round a board is in, it has published at most one message more
\* than rounds are counted.
Traffic ==
    LET inRound(b) == pc[b] \in {"settle", "check", "count", "done", "failed"}
    IN  /\ hellos <= num_retries["EVSE"] + (IF inRound("EVSE") THEN 1 ELSE 0)
        /\ replies <= num_retries["EV"] + (IF inRound("EV") THEN 1 ELSE 0)

\* Once the EV board has replied it has FIRST_HS or BOTH_HS, and past
\* ReplyRounds it leaves the loop at the next check unless overwritten.
Settled ==
    /\ replies > 0 => rth_hs["EV"] # "NO_HS"
    /\ rth_hs["EV"] = "BOTH_HS" => pc["EV"] \in {"check", "done"}
    /\ /\ replies > 0
       /\ num_retries["EV"] >= ReplyRounds
       /\ ~overwritten
       /\ pc["EV"] \in {"check", "count"}
       => pc["EV"] = "check" /\ rth_hs["EV"] = "BOTH_HS"
    /\ pc["EV"] = "failed" /\ ~overwritten => replies = 0

IInv == TypeOK /\ Causality /\ Traffic /\ Settled

LEMMA InitIInv == Init => IInv
  <1> SUFFICES ASSUME Init PROVE IInv
    OBVIOUS
  <1>1. TypeOK
    <2>1. 0 \in 0..RetryLimit + 1 /\ 0 \in 0..MaxLosses /\ 0 \in Nat
      BY HandshakeAssumption
    <2> QED
      BY <2>1 DEF Init, TypeOK
  <1>2. Causality /\ Settled
    BY DEF Init, Causality, Settled, Boards
  <1>3. Traffic
    BY DEF Init, Traffic, Boards
  <1> QED
    BY <1>1, <1>2, <1>3 DEF IInv

\* The steps the boards take at any pace keep it.
LEMMA StepIInv == IInv /\ Step => IInv'
  <1> SUFFICES ASSUME IInv, Step PROVE IInv'
    OBVIOUS
  <1> USE HandshakeAssumption
      DEF IInv, TypeOK, Causality, Traffic, Settled, Boards, Goto, Subscribed,
          Publish, history
  <1>1. ASSUME NEW b \in Boards, Start(b) PROVE IInv'
    BY <1>1 DEF Start
  <1>2. ASSUME NEW b \in Boards, HandleMessage(b) PROVE IInv'
    <2>1. CASE b = "EV"
      <3>1. /\ inbox["EV"] > 0
            /\ rth_hs' = [rth_hs EXCEPT !["EV"] = "FIRST_HS"]
            /\ inbox' = [inbox EXCEPT !["EV"] = @ - 1]
            /\ overwritten' = (overwritten \/
                  (pc["EV"] = "check" /\ rth_hs["EV"] = "BOTH_HS"))
            /\ UNCHANGED <<pc, num_retries, hellos, replies, lost, skew,
                           clock>>
        BY <1>2, <2>1 DEF HandleMessage, HandleAs
      <3>2. TypeOK' /\ Traffic'
        BY <3>1
      <3>3. Causality'
        BY <3>1
      <3>4. Settled'
        BY <3>1
      <3> QED
        BY <3>2, <3>3, <3>4
    <2>2. CASE b = "EVSE"
      <3>1. /\ inbox["EVSE"] > 0
            /\ rth_hs' = [rth_hs EXCEPT !["EVSE"] = "BOTH_HS"]
            /\ inbox' = [inbox EXCEPT !["EVSE"] = @ - 1]
            /\ overwritten' = overwritten
            /\ UNCHANGED <<pc, num_retries, hellos, replies, lost, skew,
                           clock>>
        BY <1>2, <2>2 DEF HandleMessage, HandleAs
      <3>2. TypeOK' /\ Traffic'
        BY <3>1
      <3>3. Causality' /\ Settled'
        BY <3>1
      <3> QED
        BY <3>2, <3>3
    <2> QED
      BY <2>1, <2>2
  <1>3. ASSUME NEW b \in Boards, Check(b) PROVE IInv'
    BY <1>3 DEF Check
  <1>4. ASSUME NEW b \in Boards, Count(b) PROVE IInv'
    BY <1>4 DEF Count, CountIf
  <1>5. ASSUME NEW b \in Boards, Lose(b) PROVE IInv'
    BY <1>5 DEF Lose
  <1>6. CASE EvseAnnounce
    BY <1>6 DEF EvseAnnounce
  <1>7. CASE EvReply
    BY <1>7 DEF EvReply
  <1>8. CASE EvSettle
    BY <1>8 DEF EvSettle, SettleIf
  <1> QED
    BY <1>1, <1>2, <1>3, <1>4, <1>5, <1>6, <1>7, <1>8 DEF Step, Loop

LEMMA NextIInv == IInv /\ [Next]_vars => IInv'
  <1> SUFFICES ASSUME IInv, [Next]_vars PROVE IInv'
    OBVIOUS
  <1> USE DEF IInv, TypeOK, Causality, Traffic, Settled, Boards, Goto, history
  <1>1. ASSUME NEW b \in Boards, Wake(b) \/ Interrupted(b) PROVE IInv'
    BY <1>1 DEF Wake, Interrupted
  <1>2. CASE UNCHANGED vars
    BY <1>2 DEF vars
  <1> QED
    BY <1>1, <1>2, StepIInv DEF Next

\* IInv is inductive, so it holds throughout.
LEMMA Invariance == Spec => []IInv
  BY InitIInv, NextIInv, PTL DEF Spec

\* TypeOK: every variable of the handshake keeps its type; in particular
\* num_retries never passes RetryLimit + 1 on either board.
THEOREM TypeCorrect == Spec => []TypeOK
  <1>1. IInv => TypeOK
    BY DEF IInv
  <1> QED
    BY <1>1, Invariance, PTL

\* BothTookPart: whatever is lost or late, no board is done with a handshake
\* the other one had no part in.
THEOREM Agreement == Spec => []BothTookPart
  <1>1. IInv => BothTookPart
    BY DEF IInv, Causality, BothTookPart, Boards
  <1> QED
    BY <1>1, Invariance, PTL

\* BoundedTraffic: each board publishes at most once per counted round.
THEOREM TrafficBounded == Spec => []BoundedTraffic
  <1>1. IInv => BoundedTraffic
    BY DEF IInv, Traffic, BoundedTraffic, TypeOK, Boards
  <1> QED
    BY <1>1, Invariance, PTL

\* EvFailsOnlyIfOverwritten: the EV board gives up under an EVSE board that
\* is done only when BOTH_HS was overwritten between lines 127 and 131.
THEOREM OneSidedFailure == Spec => []EvFailsOnlyIfOverwritten
  <1>1. IInv => EvFailsOnlyIfOverwritten
    BY DEF IInv, Causality, Settled, EvFailsOnlyIfOverwritten, TypeOK, Boards
  <1> QED
    BY <1>1, Invariance, PTL

-----------------------------------------------------------------------------
(* At the pace of sleep(3): what the boards owe to going round together.   *)

InLoop(b) == pc[b] \in {"top", "settle", "check", "count", "sleep"}

\* The EVSE board has had its turn to announce itself in this round.
Announced == pc["EVSE"] \in {"check", "count", "sleep"}

BothUp == \A b \in Boards : pc[b] # "off"

\* Full rounds of board b, and of both boards together.
Age(b) == IF pc[b] = "sleep" THEN num_retries[b] - 1 ELSE num_retries[b]
Together == clock - skew

\* The EV board has heard the EVSE board by the end of this round of its
\* own, unless a message is lost.
Headstart == IF skew > 1 THEN skew ELSE 1

Pace ==
    /\ skew <= clock
    /\ \A b \in Boards :
          /\ InLoop(b) => Together <= Age(b) /\ Age(b) <= clock
          /\ pc[b] # "exited"
          /\ pc[b] = "off" => /\ skew = 0
                              /\ clock <= MaxSkew
                              /\ num_retries[b] = 0
                              /\ inbox[b] = 0
                              /\ rth_hs[b] = "NO_HS"
    /\ pc["EVSE"] = "off" => hellos = 0
    /\ pc["EV"] = "off" => replies = 0
    /\ (\A b \in Boards : pc[b] = "off") => clock = 0

\* What HandshakeSucceeds allows for.
InTime ==
    \/ lost = 0 /\ skew + 2 <= RetryLimit
    \/ lost = 1 /\ skew + 2 <= ReplyRounds

\* Of the replies, missed have not reached the EVSE board and never will.
Heard(missed) ==
    rth_hs["EVSE"] = "NO_HS" => replies <= inbox["EVSE"] + missed

\* No announcement was lost: the EV board hears the first one made in a
\* round it starts, and has replied twice by the time it settles.
Greeted ==
    /\ Announced /\ InLoop("EV") /\ Age("EV") >= 1
          => rth_hs["EV"] # "NO_HS" \/ inbox["EV"] > 0
    /\ rth_hs["EV"] = "NO_HS" => Together <= 1 /\ Age("EV") <= Headstart
    /\ InLoop("EV") =>
          Age("EV") <=
             replies + Headstart + (IF pc["EV"] = "top" THEN 1 ELSE 0)
    /\ rth_hs["EV"] = "BOTH_HS" \/ pc["EV"] = "done"
          => replies + Headstart >= ReplyRounds
    /\ Together = 2 /\ pc["EV"] # "top" => replies >= 1
    /\ Together = 3 => replies >= 1
    /\ Together = 3 /\ pc["EV"] # "top" /\ skew + 2 <= ReplyRounds
          => replies >= 2

\* An announcement was lost: the EV board hears the next one.
GreetedLate ==
    /\ Announced /\ Together >= 2
          => rth_hs["EV"] # "NO_HS" \/ inbox["EV"] > 0
    /\ rth_hs["EV"] = "NO_HS" => Together <= 2
    /\ Together = 3 /\ pc["EV"] # "top" => replies >= 1

\* After n rounds together the EVSE board knows, no "1" is left to undo the
\* EV board's BOTH_HS, and the EV board settles as soon as it may.
Decided(n) ==
    Together > n =>
        /\ rth_hs["EVSE"] = "BOTH_HS"
        /\ pc["EVSE"] \in {"top", "check", "done"}
        /\ inbox["EV"] = 0
        /\ pc["EV"] = "check" /\ num_retries["EV"] >= ReplyRounds
              => rth_hs["EV"] = "BOTH_HS"
        /\ pc["EV"] = "count" => num_retries["EV"] < ReplyRounds

Prompt ==
    /\ \A b \in Boards : pc[b] # "failed"
    /\ BothUp =>
          \/ lost = 0 /\ Greeted /\ Heard(0) /\ Decided(2)
          \/ lost = 1 /\ Greeted /\ Heard(1) /\ Decided(3)
          \/ lost = 1 /\ GreetedLate /\ Heard(0) /\ Decided(3)

\* A limit that leaves time for three replies, and bounds a board's wait for
\* the other one to start.
Limits ==
    /\ 3 <= ReplyRounds
    /\ ReplyRounds < RetryLimit
    /\ MaxSkew <= RetryLimit

\* The boards' going round together keeps it too.
LEMMA TickIInv ==
    ASSUME IInv, Tick
    PROVE  IInv'
  BY DEF Tick, IInv, TypeOK, Causality, Traffic, Settled, Boards, history

\* Nobody has started.
LEMMA InitPace == Init => Pace
  BY HandshakeAssumption DEF Init, Pace, InLoop, Boards

\* The boards stay in step, at most the head start apart.
LEMMA NextPace ==
    ASSUME IInv, Pace, [TimedNext]_vars
    PROVE  Pace'
  <1> USE HandshakeAssumption
      DEF IInv, TypeOK, Causality, Pace, InLoop, Age, Together, Boards, Goto,
          Subscribed, Publish, history
  <1>1. ASSUME NEW b \in Boards, Start(b) PROVE Pace'
    BY <1>1 DEF Start
  <1>2. ASSUME NEW b \in Boards, HandleMessage(b) PROVE Pace'
    BY <1>2 DEF HandleMessage, HandleAs
  <1>3. ASSUME NEW b \in Boards, Check(b) PROVE Pace'
    BY <1>3 DEF Check
  <1>4. ASSUME NEW b \in Boards, Count(b) PROVE Pace'
    BY <1>4 DEF Count, CountIf
  <1>5. ASSUME NEW b \in Boards, Lose(b) PROVE Pace'
    BY <1>5 DEF Lose
  <1>6. CASE EvseAnnounce
    BY <1>6 DEF EvseAnnounce
  <1>7. CASE EvReply
    BY <1>7 DEF EvReply
  <1>8. CASE EvSettle
    BY <1>8 DEF EvSettle, SettleIf
  <1>9. CASE Tick
    BY <1>9 DEF Tick
  <1>10. CASE UNCHANGED vars
    BY <1>10 DEF vars
  <1> QED
    BY <1>1, <1>2, <1>3, <1>4, <1>5, <1>6, <1>7, <1>8, <1>9, <1>10
    DEF TimedNext, Step, Loop

\* Nobody has failed before it has started.
LEMMA InitPrompt == Init => Prompt
  BY DEF Init, Prompt, BothUp, Boards

\* What HandshakeSucceeds allows for was allowed for a step earlier.
LEMMA InTimeBefore ==
    ASSUME Limits, IInv, Pace, [TimedNext]_vars, InTime'
    PROVE  InTime
  <1> USE HandshakeAssumption DEF Limits, InTime
  <1>1. /\ skew <= skew' /\ skew \in Nat /\ skew' \in Nat
        /\ lost = lost' \/ lost' = lost + 1
        /\ lost \in Nat /\ lost' \in Nat
    BY DEF TimedNext, Step, Loop, Start, HandleMessage, HandleAs, Check, Count,
       CountIf, Lose, EvseAnnounce, EvReply, EvSettle, SettleIf, Tick, vars,
       history, IInv, TypeOK, Pace
  <1>2. ASSUME NEW k \in Nat, NEW l \in Nat,
               skew <= k, lost = l \/ l = lost + 1,
               \/ l = 0 /\ k + 2 <= RetryLimit
               \/ l = 1 /\ k + 2 <= ReplyRounds
        PROVE  InTime
    BY <1>1, <1>2
  <1> QED
    BY <1>1, <1>2

\* While it is, every step keeps the boards prompt.
LEMMA NextPrompt ==
    ASSUME Limits, IInv, Pace, InTime, InTime', Prompt, [TimedNext]_vars
    PROVE  Prompt'
  <1> USE HandshakeAssumption
      DEF Limits, IInv, TypeOK, Causality, Settled, Pace, InTime, Prompt,
          BothUp, Announced, Heard, Greeted, GreetedLate, Decided, Headstart,
          InLoop, Age, Together, Boards, Goto, Subscribed, Publish, history
  <1>1. ASSUME NEW b \in Boards, Start(b) PROVE Prompt'
    BY <1>1 DEF Start
  <1>2. ASSUME NEW b \in Boards, HandleMessage(b) PROVE Prompt'
    BY <1>2 DEF HandleMessage, HandleAs
  <1>3. ASSUME NEW b \in Boards, Check(b) PROVE Prompt'
    BY <1>3 DEF Check
  <1>4. ASSUME NEW b \in Boards, Count(b) PROVE Prompt'
    BY <1>4 DEF Count, CountIf
  <1>5. ASSUME NEW b \in Boards, Lose(b) PROVE Prompt'
    BY <1>5 DEF Lose
  <1>6. CASE EvseAnnounce
    BY <1>6 DEF EvseAnnounce
  <1>7. CASE EvReply
    BY <1>7 DEF EvReply
  <1>8. CASE EvSettle
    BY <1>8 DEF EvSettle, SettleIf
  <1>9. CASE Tick
    BY <1>9 DEF Tick
  <1>10. CASE UNCHANGED vars
    BY <1>10 DEF vars
  <1> QED
    BY <1>1, <1>2, <1>3, <1>4, <1>5, <1>6, <1>7, <1>8, <1>9, <1>10
    DEF TimedNext, Step, Loop

\* HandshakeSucceeds: going round at the pace of sleep(3), no board gives up
\* when nothing is lost and the boards start in time, nor when one message is
\* lost and they start closer together, for every limit that leaves time for
\* three replies.
THEOREM Success ==
    ASSUME Limits
    PROVE  TimedSpec => []HandshakeSucceeds
  <1>1. Init => IInv /\ Pace /\ (InTime => Prompt)
    BY InitIInv, InitPace, InitPrompt
  <1>2. IInv /\ Pace /\ (InTime => Prompt) /\ [TimedNext]_vars
           => (IInv /\ Pace /\ (InTime => Prompt))'
    <2> SUFFICES ASSUME IInv, Pace, InTime => Prompt, [TimedNext]_vars
                 PROVE  IInv' /\ Pace' /\ (InTime' => Prompt')
      OBVIOUS
    <2>1. IInv'
      <3>1. CASE UNCHANGED vars
        BY <3>1 DEF vars, history, IInv, TypeOK, Causality, Traffic, Settled
      <3> QED
        BY <3>1, StepIInv, TickIInv DEF TimedNext
    <2> QED
      BY <2>1, NextPace, InTimeBefore, NextPrompt
  <1>3. IInv /\ Pace /\ (InTime => Prompt) => HandshakeSucceeds
    BY DEF InTime, Prompt, HandshakeSucceeds
  <1> QED
    BY <1>1, <1>2, <1>3, PTL DEF TimedSpec
=============================================================================
