-------------------------------- MODULE Slac --------------------------------
(***************************************************************************)
(* SLAC: the vehicle side (PEVSlac) and the station side (EVSESlac) of     *)
(* slacify.cpp find out over the power line that they share a cable, and   *)
(* the station hands the key of its network to the vehicle.  Each side is  *)
(* one process that works through its states, sending frames and waiting   *)
(* in readmessage for the frame it expects next.  Frames get lost, come    *)
(* after the wait is over, or belong to another vehicle on the same line.  *)
(***************************************************************************)
EXTENDS Naturals, Sequences

CONSTANTS
    NumRetries,     \* per side: slac_retries, 10 and 3 in the code
    NumSounds,      \* SLAC_MSOUNDS, 10 in the code
    Levels,         \* attenuations that can be measured: good, far
    LineLength,     \* frames a socket buffers; one more is dropped
    MaxRuns,        \* bound: values of the vehicle's RunID
    MaxCrosstalk    \* bound: frames of other vehicles in a behaviour, those
                    \* apart that the station waits for after their first

Sides == {"pev", "evse"}

ASSUME SlacAssumption ==
    /\ NumRetries \in [Sides -> Nat]
    /\ NumSounds \in Nat \ {0}
    /\ Levels \subseteq {"good", "far"} /\ Levels # {}
    /\ LineLength \in Nat
    /\ MaxRuns \in Nat
    /\ MaxCrosstalk \in Nat

\* The RunID of any other vehicle; the vehicle's own ones are 1, 2, ...
Other == 0

\* The steps that wait in readmessage, and for which frame.
PevWaits == {"param", "atten", "confirm"}
EvseWaits == {"listen", "start", "respond", "match"}

Waits == PevWaits \cup EvseWaits

Awaited(step) ==
    CASE step = "param"   -> "PARAM_CNF"
      [] step = "atten"   -> "ATTEN_IND"
      [] step = "confirm" -> "MATCH_CNF"
      [] step = "listen"  -> "PARAM_REQ"
      [] step = "start"   -> "START_IND"
      [] step = "respond" -> "ATTEN_RSP"
      [] step = "match"   -> "MATCH_REQ"

PevSteps == {"begin", "probe", "param", "indicate", "emit", "atten",
             "request", "confirm", "key", "join", "done", "exited"}
EvseSteps == {"listen", "start", "sound", "report", "respond", "match",
              "join", "done", "exited"}

Frames == [type : {"PARAM_REQ", "PARAM_CNF", "START_IND", "PROFILE_IND",
                   "ATTEN_IND", "ATTEN_RSP", "MATCH_REQ", "MATCH_CNF"},
           RunID : Nat, attn : {"none", "good", "far"}]

Measured(type, run, level) == [type |-> type, RunID |-> run, attn |-> level]

Frame(type, run) == Measured(type, run, "none")

VARIABLES
    pc,             \* per side: next step
    state,          \* per side: Session.state
    RunID,          \* per side: Session.RunID
    C_sequ_retry,   \* per side: searches given up so far
    line,           \* per side: frames its socket has buffered
    sounds,         \* station: attenuation profiles counted
    keyed,          \* the vehicle's modem has the station's key
    judged,         \* history: runs whose attenuation the vehicle accepted
    asked,          \* history: runs in which the key was asked for
    crosstalk,      \* history: frames of other vehicles so far
    faults          \* history: loss, late, far

sideVars == <<pc, state, RunID, C_sequ_retry>>

vars == <<sideVars, line, sounds, keyed, judged, asked, crosstalk, faults>>

Goto(s, step) == pc' = [pc EXCEPT ![s] = step]

Move(s, st, step) ==
    /\ state' = [state EXCEPT ![s] = st]
    /\ Goto(s, step)

-----------------------------------------------------------------------------
(* The line.                                                               *)

\* The frames of side s without the one it has just read.
Rest(s) == [line EXCEPT ![s] = Tail(@)]

\* n copies of a frame go out to side s over the line l; any number of them
\* arrives.  The more is what else went wrong in the step.
Transmit(l, s, frame, n, more) ==
    \E arriving \in 0 .. n :
        /\ arriving > 0 => Len(l[s]) + arriving <= LineLength
        /\ line' = [l EXCEPT ![s] = @ \o [i \in 1 .. arriving |-> frame]]
        /\ faults' = faults \cup more
                       \cup (IF arriving < n THEN {"loss"} ELSE {})

\* The station answers the vehicle it talks to, which may be another one.
EvseAnswers(l, frame) ==
    IF frame.RunID = Other
    THEN line' = l /\ UNCHANGED faults
    ELSE Transmit(l, "pev", frame, 1, {})

\* readmessage returns the frame awaited.
Reads(s) ==
    /\ pc[s] \in Waits
    /\ line[s] # <<>>
    /\ Head(line[s]).type = Awaited(pc[s])

Unwanted(s) ==
    /\ pc[s] \in Waits
    /\ line[s] # <<>>
    /\ Head(line[s]).type # Awaited(pc[s])

OfThisRun(s) == Head(line[s]).RunID = RunID[s]

\* A slip for the runs to find: an unwanted frame ends the attempt.
SkipGivesUp(s) ==
    /\ Unwanted(s)
    /\ line' = Rest(s)
    /\ IF state[s] # "UNMATCHED" THEN UNCHANGED <<pc, state>>
       ELSE IF s = "pev" THEN Move(s, "DISCONNECTED", "begin")
       ELSE Move(s, "UNOCCUPIED", "listen")
    /\ UNCHANGED <<RunID, C_sequ_retry, sounds, keyed, judged, asked,
                   crosstalk, faults>>

\* readmessage drops a frame it does not wait for.
Skip(s) ==
    /\ Unwanted(s)
    /\ line' = Rest(s)
    /\ UNCHANGED <<sideVars, sounds, keyed, judged, asked, crosstalk, faults>>

\* readmessage returns 0: it looks at the clock after an unwanted frame, or
\* when nothing has come.
ReadTimesOut(s) ==
    \/ pc[s] \in Waits /\ line[s] = <<>> /\ UNCHANGED line
    \/ Unwanted(s) /\ line' = Rest(s)

\* A frame that cannot be sent ends the whole process: slac_debug exits.
CannotSend(s) ==
    /\ \/ pc[s] \in {"probe", "indicate", "emit", "request", "key", "report"}
       \/ pc[s] = "listen" /\ Reads(s)
       \/ pc[s] \in {"atten", "match"} /\ Reads(s) /\ OfThisRun(s)
    /\ Goto(s, "exited")
    /\ UNCHANGED <<state, RunID, C_sequ_retry, line, sounds, keyed, judged,
                   asked, crosstalk, faults>>

\* The other vehicle has begun, the station has answered it and waits for the
\* next frame of its sequence.
GoesOn(s, step) ==
    /\ crosstalk # 0
    /\ s = "evse" /\ RunID[s] = Other
    /\ pc[s] = step /\ step # "listen"
    /\ \A i \in 1 .. Len(line[s]) : line[s][i].type # Awaited(step)

\* Frames of another vehicle, or of the station that vehicle talks to.  It
\* need not keep to the sequence, nor judge anything before it asks.
Crosstalk(s) ==
    /\ Len(line[s]) < LineLength
    /\ \E step \in (IF s = "pev" THEN PevWaits ELSE EvseWaits) :
           /\ line' = [line EXCEPT ![s] =
                          Append(@, Measured(Awaited(step), Other, "good"))]
           /\ asked' = IF step = "match" THEN asked \cup {Other} ELSE asked
           /\ \/ crosstalk < MaxCrosstalk /\ crosstalk' = crosstalk + 1
              \/ GoesOn(s, step) /\ UNCHANGED crosstalk
    /\ UNCHANGED <<sideVars, sounds, keyed, judged, faults>>

\* A slip for the runs to find: the retries are counted the wrong way.
SearchCountsDown(s, again, step) ==
    /\ Move(s, again, step)
    /\ C_sequ_retry' = [C_sequ_retry EXCEPT ![s] = @ - 1]

\* No answer within slac_timeout_sec: once more, or never again.
SearchEnds(s, again, step) ==
    IF C_sequ_retry[s] >= NumRetries[s]
    THEN /\ Move(s, "UNAVAILABLE", "done")
         /\ C_sequ_retry' = [C_sequ_retry EXCEPT ![s] = 0]
    ELSE /\ Move(s, again, step)
         /\ C_sequ_retry' = [C_sequ_retry EXCEPT ![s] = @ + 1]

-----------------------------------------------------------------------------
(* The vehicle.                                                            *)

\* PEV_DisconnectedState is entered: a new RunID.
PevBegin ==
    /\ pc["pev"] = "begin"
    /\ RunID["pev"] < MaxRuns
    /\ RunID' = [RunID EXCEPT !["pev"] = @ + 1]
    /\ Goto("pev", "probe")
    /\ UNCHANGED <<state, C_sequ_retry, line, sounds, keyed, judged, asked,
                   crosstalk, faults>>

PevProbe ==
    /\ pc["pev"] = "probe"
    /\ Transmit(line, "evse", Frame("PARAM_REQ", RunID["pev"]), 1, {})
    /\ Goto("pev", "param")
    /\ UNCHANGED <<state, RunID, C_sequ_retry, sounds, keyed, judged, asked,
                   crosstalk>>

PevSlacParam ==
    /\ pc["pev"] = "param"
    /\ Reads("pev")
    /\ line' = Rest("pev")
    /\ IF OfThisRun("pev")
       THEN Move("pev", "UNMATCHED", "indicate")
       ELSE UNCHANGED <<pc, state>>
    /\ UNCHANGED <<RunID, C_sequ_retry, sounds, keyed, judged, asked,
                   crosstalk, faults>>

PevProbeAgain ==
    /\ pc["pev"] = "param"
    /\ ReadTimesOut("pev")
    /\ Goto("pev", "probe")
    /\ UNCHANGED <<state, RunID, C_sequ_retry, sounds, keyed, judged, asked,
                   crosstalk, faults>>

\* A slip for the runs to find: the limit starts the search again, uncounted.
PevSearchRestarts == PevProbeAgain

PevSearchEnds ==
    /\ pc["pev"] = "param"
    /\ ReadTimesOut("pev")
    /\ SearchEnds("pev", "DISCONNECTED", "begin")
    /\ UNCHANGED <<RunID, sounds, keyed, judged, asked, crosstalk, faults>>

\* CM_START_ATTEN_CHAR.IND is sent three times.
PevStartAttenChar ==
    /\ pc["pev"] = "indicate"
    /\ Transmit(line, "evse", Frame("START_IND", RunID["pev"]), 3, {})
    /\ Goto("pev", "emit")
    /\ UNCHANGED <<state, RunID, C_sequ_retry, sounds, keyed, judged, asked,
                   crosstalk>>

\* The station's modem turns each sound it hears into a profile.
PevMnbcSound ==
    /\ pc["pev"] = "emit"
    /\ Transmit(line, "evse", Frame("PROFILE_IND", RunID["pev"]), NumSounds,
                {})
    /\ Goto("pev", "atten")
    /\ UNCHANGED <<state, RunID, C_sequ_retry, sounds, keyed, judged, asked,
                   crosstalk>>

\* The attenuation is acknowledged, and judged by slac_connect.
PevAttenChar ==
    /\ pc["pev"] = "atten"
    /\ Reads("pev")
    /\ OfThisRun("pev")
    /\ LET near == Head(line["pev"]).attn = "good"
       IN  /\ Transmit(Rest("pev"), "evse",
                       Frame("ATTEN_RSP", RunID["pev"]), 1,
                       IF near THEN {} ELSE {"far"})
           /\ IF near
              THEN /\ Goto("pev", "request")
                   /\ judged' = judged \cup {RunID["pev"]}
                   /\ UNCHANGED state
              ELSE /\ Move("pev", "DISCONNECTED", "begin")
                   /\ UNCHANGED judged
    /\ UNCHANGED <<RunID, C_sequ_retry, sounds, keyed, asked, crosstalk>>

PevIgnoresAtten ==
    /\ pc["pev"] = "atten"
    /\ Reads("pev")
    /\ ~ OfThisRun("pev")
    /\ line' = Rest("pev")
    /\ UNCHANGED <<sideVars, sounds, keyed, judged, asked, crosstalk, faults>>

PevSlacMatchRequest ==
    /\ pc["pev"] = "request"
    /\ Transmit(line, "evse", Frame("MATCH_REQ", RunID["pev"]), 1, {})
    /\ Goto("pev", "confirm")
    /\ asked' = asked \cup {RunID["pev"]}
    /\ UNCHANGED <<state, RunID, C_sequ_retry, sounds, keyed, judged,
                   crosstalk>>

PevSlacMatchConfirm ==
    /\ pc["pev"] = "confirm"
    /\ Reads("pev")
    /\ line' = Rest("pev")
    /\ IF OfThisRun("pev")
       THEN Move("pev", "MATCHED", "key")
       ELSE Move("pev", "DISCONNECTED", "begin")
    /\ UNCHANGED <<RunID, C_sequ_retry, sounds, keyed, judged, asked,
                   crosstalk, faults>>

PevMatchingTimesOut ==
    /\ pc["pev"] \in {"atten", "confirm"}
    /\ ReadTimesOut("pev")
    /\ Move("pev", "DISCONNECTED", "begin")
    /\ faults' = faults \cup {"late"}
    /\ UNCHANGED <<RunID, C_sequ_retry, sounds, keyed, judged, asked,
                   crosstalk>>

\* The modem takes the key or does not; its confirmation may not come.
\* Without it PEVSlac leaves its loop with the state PEV_MatchedState set.
PevSetKey ==
    /\ pc["pev"] = "key"
    /\ keyed' \in BOOLEAN
    /\ \/ keyed' /\ Goto("pev", "join") /\ UNCHANGED state
       \/ Move("pev", "DISCONNECTED", "done")
    /\ UNCHANGED <<RunID, C_sequ_retry, line, sounds, judged, asked,
                   crosstalk, faults>>

\* NetInfo2 finds the network, whenever that is.
PevJoin ==
    /\ pc["pev"] = "join"
    /\ Move("pev", "END", "done")
    /\ UNCHANGED <<RunID, C_sequ_retry, line, sounds, keyed, judged, asked,
                   crosstalk, faults>>

-----------------------------------------------------------------------------
(* The station.                                                            *)

EvseSlacParam ==
    /\ pc["evse"] = "listen"
    /\ Reads("evse")
    /\ LET run == Head(line["evse"]).RunID
       IN  /\ RunID' = [RunID EXCEPT !["evse"] = run]
           /\ EvseAnswers(Rest("evse"), Frame("PARAM_CNF", run))
    /\ Move("evse", "UNMATCHED", "start")
    /\ UNCHANGED <<C_sequ_retry, sounds, keyed, judged, asked, crosstalk>>

EvseListensOn ==
    /\ pc["evse"] = "listen"
    /\ ReadTimesOut("evse")
    /\ UNCHANGED <<sideVars, sounds, keyed, judged, asked, crosstalk, faults>>

\* A slip for the runs to find: likewise for the station.
EvseSearchRestarts == EvseListensOn

EvseSearchEnds ==
    /\ pc["evse"] = "listen"
    /\ ReadTimesOut("evse")
    /\ SearchEnds("evse", "UNOCCUPIED", "listen")
    /\ UNCHANGED <<RunID, sounds, keyed, judged, asked, crosstalk, faults>>

\* One frame is read; a frame of another run ends the attempt.
EvseStartAttenChar ==
    /\ pc["evse"] = "start"
    /\ Reads("evse")
    /\ line' = Rest("evse")
    /\ IF OfThisRun("evse")
       THEN Goto("evse", "sound") /\ UNCHANGED state
       ELSE Move("evse", "UNOCCUPIED", "listen")
    /\ sounds' = 0
    /\ UNCHANGED <<RunID, C_sequ_retry, keyed, judged, asked, crosstalk,
                   faults>>

\* Profiles name the vehicle and not the run.
Counted(frame) ==
    /\ frame.type = "PROFILE_IND"
    /\ (frame.RunID = Other) = (RunID["evse"] = Other)

\* Until all sounds are counted or the time for them is over.
EvseMnbcSound ==
    /\ pc["evse"] = "sound"
    /\ IF line["evse"] = <<>>
       THEN UNCHANGED <<line, sounds>>
       ELSE /\ line' = Rest("evse")
            /\ sounds' = IF Counted(Head(line["evse"])) THEN sounds + 1
                                                        ELSE sounds
    /\ \/ sounds' < NumSounds /\ UNCHANGED <<pc, faults>>
       \/ sounds' < NumSounds /\ Goto("evse", "report")
                              /\ faults' = faults \cup {"late"}
       \/ sounds' >= NumSounds /\ Goto("evse", "report")
                               /\ UNCHANGED faults
    /\ UNCHANGED <<state, RunID, C_sequ_retry, keyed, judged, asked,
                   crosstalk>>

\* The average of what was heard; nothing heard averages to nothing.
EvseAttenChar ==
    /\ pc["evse"] = "report"
    /\ \E level \in (IF sounds > 0 THEN Levels ELSE {"none"}) :
           EvseAnswers(line, Measured("ATTEN_IND", RunID["evse"], level))
    /\ Goto("evse", "respond")
    /\ UNCHANGED <<state, RunID, C_sequ_retry, sounds, keyed, judged, asked,
                   crosstalk>>

EvseAttenResponse ==
    /\ pc["evse"] = "respond"
    /\ Reads("evse")
    /\ line' = Rest("evse")
    /\ IF OfThisRun("evse")
       THEN Goto("evse", "match") /\ UNCHANGED state
       ELSE Move("evse", "UNOCCUPIED", "listen")
    /\ UNCHANGED <<RunID, C_sequ_retry, sounds, keyed, judged, asked,
                   crosstalk, faults>>

\* A slip for the runs to find: any request for the key is granted.
EvseMatchesAnyone ==
    /\ pc["evse"] = "match"
    /\ Reads("evse")
    /\ EvseAnswers(Rest("evse"), Frame("MATCH_CNF", RunID["evse"]))
    /\ Move("evse", "MATCHED", "join")
    /\ UNCHANGED <<RunID, C_sequ_retry, sounds, keyed, judged, asked,
                   crosstalk>>

\* The key goes out with the confirmation.
EvseSlacMatch ==
    /\ pc["evse"] = "match"
    /\ Reads("evse")
    /\ OfThisRun("evse")
    /\ EvseAnswers(Rest("evse"), Frame("MATCH_CNF", RunID["evse"]))
    /\ Move("evse", "MATCHED", "join")
    /\ UNCHANGED <<RunID, C_sequ_retry, sounds, keyed, judged, asked,
                   crosstalk>>

\* A request of another run: wait on, for ten seconds in all.
EvseIgnoresMatch ==
    /\ pc["evse"] = "match"
    /\ Reads("evse")
    /\ ~ OfThisRun("evse")
    /\ line' = Rest("evse")
    /\ \/ UNCHANGED <<pc, state, faults>>
       \/ /\ Move("evse", "UNOCCUPIED", "listen")
          /\ faults' = faults \cup {"late"}
    /\ UNCHANGED <<RunID, C_sequ_retry, sounds, keyed, judged, asked,
                   crosstalk>>

EvseMatchingTimesOut ==
    /\ pc["evse"] \in {"start", "respond", "match"}
    /\ ReadTimesOut("evse")
    /\ Move("evse", "UNOCCUPIED", "listen")
    /\ faults' = faults \cup {"late"}
    /\ UNCHANGED <<RunID, C_sequ_retry, sounds, keyed, judged, asked,
                   crosstalk>>

EvseJoin ==
    /\ pc["evse"] = "join"
    /\ keyed \/ RunID["evse"] = Other
    /\ Goto("evse", "done")
    /\ UNCHANGED <<state, RunID, C_sequ_retry, line, sounds, keyed, judged,
                   asked, crosstalk, faults>>

\* A slip for the runs to find: the station listens again.
EvseJoinResets ==
    /\ pc["evse"] = "join"
    /\ Move("evse", "UNOCCUPIED", "listen")
    /\ UNCHANGED <<RunID, C_sequ_retry, line, sounds, keyed, judged, asked,
                   crosstalk, faults>>

\* MatchedState sets UNOCCUPIED, and EVSESlac leaves its loop all the same.
EvseJoinTimesOut ==
    /\ pc["evse"] = "join"
    /\ Move("evse", "UNOCCUPIED", "done")
    /\ UNCHANGED <<RunID, C_sequ_retry, line, sounds, keyed, judged, asked,
                   crosstalk, faults>>

-----------------------------------------------------------------------------

Init ==
    /\ pc = [s \in Sides |-> IF s = "pev" THEN "begin" ELSE "listen"]
    /\ state = [s \in Sides |-> IF s = "pev" THEN "DISCONNECTED"
                                             ELSE "UNOCCUPIED"]
    /\ RunID = [s \in Sides |-> 0]
    /\ C_sequ_retry = [s \in Sides |-> 0]
    /\ line = [s \in Sides |-> <<>>]
    /\ sounds = 0
    /\ keyed = FALSE
    /\ judged = {}
    /\ asked = {}
    /\ crosstalk = 0
    /\ faults = {}

PevMatching == PevStartAttenChar \/ PevMnbcSound \/ PevAttenChar
               \/ PevIgnoresAtten \/ PevSlacMatchRequest
               \/ PevSlacMatchConfirm \/ PevMatchingTimesOut

PevNext == PevBegin \/ PevProbe \/ PevSlacParam \/ PevProbeAgain
           \/ PevSearchEnds \/ PevMatching \/ PevSetKey \/ Skip("pev")

EvseMatching == EvseStartAttenChar \/ EvseMnbcSound \/ EvseAttenChar
                \/ EvseAttenResponse \/ EvseSlacMatch \/ EvseIgnoresMatch
                \/ EvseMatchingTimesOut

EvseNext == EvseSlacParam \/ EvseListensOn \/ EvseSearchEnds
            \/ EvseMatching \/ EvseJoin \/ EvseJoinTimesOut \/ Skip("evse")

Next == \/ PevNext \/ PevJoin \/ EvseNext
        \/ \E s \in Sides : CannotSend(s) \/ Crosstalk(s)

Ended(s) == pc[s] \in {"done", "exited"}

(***************************************************************************)
(* Both processes run.  A search that gets no answer reaches its limit of  *)
(* slac_timeout_sec, and the time for the sounds ends, however the frames  *)
(* fall.  Nothing is assumed of the line or of the modem finding the       *)
(* network (PevJoin).                                                      *)
(***************************************************************************)
Fairness ==
    /\ WF_vars(PevNext) /\ SF_vars(PevSearchEnds)
    /\ WF_vars(EvseNext) /\ SF_vars(EvseSearchEnds)
    /\ SF_vars(EvseMnbcSound /\ pc' # pc)

Spec == Init /\ [][Next]_vars /\ Fairness

-----------------------------------------------------------------------------

\* Every variable has its type (slacify.cpp, struct session).
TypeOK ==
    /\ pc \in [Sides -> PevSteps \cup EvseSteps]
    /\ pc["pev"] \in PevSteps /\ pc["evse"] \in EvseSteps
    /\ state \in [Sides -> {"DISCONNECTED", "UNOCCUPIED", "UNMATCHED",
                            "MATCHED", "UNAVAILABLE", "END"}]
    /\ RunID \in [Sides -> Nat]
    /\ C_sequ_retry \in [Sides -> Nat]
    /\ line \in [Sides -> Seq(Frames)]
    /\ sounds \in Nat
    /\ keyed \in BOOLEAN
    /\ judged \subseteq Nat
    /\ asked \subseteq Nat
    /\ crosstalk \in Nat
    /\ faults \subseteq {"loss", "late", "far"}

\* The station hands its key only to a vehicle that asks for it in the run
\* the station is in (evse_cm_slac_match.c:82), and this program's vehicle
\* asks only in a run whose attenuation it has accepted
\* (slacify.cpp:540-557).  The station decides nothing of its own: a vehicle
\* that asks without having judged anything gets the key, as the comment in
\* evse_cm_atten_char.c:83 says it would.
KeyOnlyOnRequest ==
    pc["evse"] = "join"
        => /\ RunID["evse"] \in asked
           /\ RunID["evse"] # Other => RunID["evse"] \in judged

\* A vehicle that has the key is matched with a station that is in the same
\* run and has finished matching as well: it is joining, has joined, or has
\* given up joining (slacify.cpp:432-436), and never matches anyone again.
MatchedTogether ==
    pc["pev"] \in {"key", "join"} \/ keyed
        => /\ RunID["pev"] = RunID["evse"]
           /\ pc["evse"] \in {"join", "done"}
           /\ state["evse"] # "UNAVAILABLE"

\* If nothing is lost, late or too far and nobody else is on the line, an
\* attempt that gets past the search does not fail: repeated requests and
\* threefold indications left in the buffers never disturb it
\* (slacify.cpp:523-560).  New runs then come from counted searches only.
OnlySearchesFail ==
    faults = {} /\ crosstalk = 0 /\ state["pev"] # "UNAVAILABLE"
        => RunID["pev"] <= 1 + C_sequ_retry["pev"]

\* A station whose vehicle has left PEVSlac leaves EVSESlac as well
\* (slacify.cpp:262-295).
EvseFollows == Ended("pev") ~> Ended("evse")

\* A vehicle whose station has left EVSESlac leaves PEVSlac as well, unless it
\* has the key and waits for a network without a limit (slacify.cpp:591).
\* MaxRuns is where the model stops counting.
PevFollows ==
    Ended("evse")
        ~> \/ Ended("pev") \/ pc["pev"] = "join"
           \/ pc["pev"] = "begin" /\ RunID["pev"] = MaxRuns

=============================================================================
