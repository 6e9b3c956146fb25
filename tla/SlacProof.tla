------------------------------ MODULE SlacProof ------------------------------
(***************************************************************************)
(* Theorems about SLAC, for every number of retries, sounds, runs and      *)
(* frames of other vehicles, and every size of the socket buffers.         *)
(***************************************************************************)
EXTENDS Slac, TLAPS

\* The frames a socket has buffered.
In(q) == {q[i] : i \in 1 .. Len(q)}

Types == line \in [Sides -> Seq(Frames)]

\* A request for the key is in the station's buffer only if its vehicle has
\* asked in that run, and this program's vehicle asks only in a run it has
\* judged.
Verdict ==
    /\ pc["pev"] = "request" => RunID["pev"] \in judged
    /\ \A f \in In(line["evse"]) :
           f.type = "MATCH_REQ" =>
              f.RunID \in asked /\ (f.RunID = Other \/ f.RunID \in judged)
    /\ KeyOnlyOnRequest

\* A confirmation under way is from a station that stays in its run.
Granted(run) ==
    /\ run = RunID["evse"]
    /\ pc["evse"] \in {"join", "done"}
    /\ state["evse"] # "UNAVAILABLE"

Pairing ==
    /\ pc["pev"] # "begin" => RunID["pev"] # Other
    /\ \A f \in In(line["pev"]) :
           f.type = "MATCH_CNF" => f.RunID = Other \/ Granted(f.RunID)
    /\ keyed => pc["pev"] \in {"join", "done"}
    /\ MatchedTogether

\* MatchedTogether and KeyOnlyOnRequest say nothing of the frames that
\* bring their conditions about; the inductive invariant does.
IInv == TypeOK /\ Verdict /\ Pairing

-----------------------------------------------------------------------------
(* What the operations of the line do to the frames in the buffers.        *)

\* Reading a frame leaves the ones behind it.
LEMMA TailFrames ==
    ASSUME NEW q \in Seq(Frames), q # <<>>
    PROVE  /\ Head(q) \in Frames /\ Head(q) \in In(q)
           /\ Tail(q) \in Seq(Frames)
           /\ In(Tail(q)) \subseteq In(q)
  <1>1. Len(q) \in Nat \ {0} /\ Head(q) = q[1]
    OBVIOUS
  <1>2. /\ Tail(q) \in Seq(Frames)
        /\ Len(Tail(q)) = Len(q) - 1
        /\ \A i \in 1 .. Len(Tail(q)) : Tail(q)[i] = q[i + 1]
    BY <1>1
  <1>3. \A i \in 1 .. Len(Tail(q)) : i + 1 \in 1 .. Len(q)
    BY <1>1, <1>2
  <1> QED
    BY <1>1, <1>2, <1>3 DEF In

\* Copies that arrive are added behind what is there.
LEMMA SentFrames ==
    ASSUME NEW q \in Seq(Frames), NEW f \in Frames, NEW n \in Nat
    PROVE  LET sent == q \o [i \in 1 .. n |-> f]
           IN  sent \in Seq(Frames) /\ In(sent) \subseteq In(q) \cup {f}
  <1> DEFINE copies == [i \in 1 .. n |-> f]
             sent == q \o copies
  <1>1. copies \in Seq(Frames) /\ Len(copies) = n
    OBVIOUS
  <1>2. /\ sent \in Seq(Frames)
        /\ Len(sent) = Len(q) + n
        /\ \A i \in 1 .. Len(sent) :
              sent[i] = IF i <= Len(q) THEN q[i] ELSE copies[i - Len(q)]
    BY <1>1
  <1>3. \A i \in 1 .. Len(sent) :
           \/ i \in 1 .. Len(q) /\ sent[i] = q[i]
           \/ sent[i] = f
    <2> SUFFICES ASSUME NEW i \in 1 .. Len(sent)
                 PROVE  \/ i \in 1 .. Len(q) /\ sent[i] = q[i]
                        \/ sent[i] = f
      OBVIOUS
    <2>1. Len(q) \in Nat
      OBVIOUS
    <2>2. CASE i <= Len(q)
      BY <2>1, <2>2, <1>2
    <2>3. CASE i > Len(q)
      <3>1. i - Len(q) \in 1 .. n
        BY <2>1, <2>3, <1>2
      <3>2. sent[i] = copies[i - Len(q)]
        BY <2>1, <2>3, <1>2
      <3> QED
        BY <3>1, <3>2
    <2> QED
      BY <2>1, <2>2, <2>3
  <1> QED
    BY <1>2, <1>3 DEF In

\* Rest(s) is the line with one frame of s taken off.
LEMMA RestFrames ==
    ASSUME NEW s \in Sides, Types, line[s] # <<>>
    PROVE  /\ Rest(s) \in [Sides -> Seq(Frames)]
           /\ \A t \in Sides : In(Rest(s)[t]) \subseteq In(line[t])
           /\ Head(line[s]) \in Frames /\ Head(line[s]) \in In(line[s])
  <1>1. line[s] \in Seq(Frames)
    BY DEF Types
  <1> QED
    BY <1>1, TailFrames DEF Types, Rest

\* Transmit adds nothing but the frame sent, on one side.
LEMMA TransmitFrames ==
    ASSUME NEW l \in [Sides -> Seq(Frames)], NEW s \in Sides,
           NEW f \in Frames, NEW n \in Nat,
           NEW more \in SUBSET {"loss", "late", "far"},
           faults \subseteq {"loss", "late", "far"},
           Transmit(l, s, f, n, more)
    PROVE  /\ Types'
           /\ In(line'[s]) \subseteq In(l[s]) \cup {f}
           /\ \A t \in Sides \ {s} : line'[t] = l[t]
           /\ faults' \subseteq {"loss", "late", "far"}
  <1>1. PICK arriving \in 0 .. n :
            line' = [l EXCEPT ![s] = @ \o [i \in 1 .. arriving |-> f]]
    BY DEF Transmit
  <1>2. arriving \in Nat /\ l[s] \in Seq(Frames)
    OBVIOUS
  <1>3. /\ line'[s] \in Seq(Frames)
        /\ In(line'[s]) \subseteq In(l[s]) \cup {f}
    BY <1>1, <1>2, SentFrames
  <1>4. faults' \subseteq {"loss", "late", "far"}
    BY DEF Transmit
  <1> QED
    BY <1>1, <1>3, <1>4 DEF Types

\* Every frame built by the two sides is a frame.
LEMMA FrameTypes ==
    ASSUME NEW run \in Nat
    PROVE  \A type \in {"PARAM_REQ", "PARAM_CNF", "START_IND",
                        "PROFILE_IND", "ATTEN_IND", "ATTEN_RSP",
                        "MATCH_REQ", "MATCH_CNF"} :
               \A level \in {"none", "good", "far"} :
                   /\ Frame(type, run) \in Frames
                   /\ Frame(type, run).type = type
                   /\ Frame(type, run).RunID = run
                   /\ Measured(type, run, level) \in Frames
                   /\ Measured(type, run, level).type = type
                   /\ Measured(type, run, level).RunID = run
  BY DEF Frame, Measured, Frames

\* A wait that ends without a frame adds none.
LEMMA TimeOutFrames ==
    ASSUME NEW s \in Sides, Types, ReadTimesOut(s)
    PROVE  /\ Types'
           /\ \A t \in Sides : In(line'[t]) \subseteq In(line[t])
  BY RestFrames DEF ReadTimesOut, Unwanted, Types

-----------------------------------------------------------------------------
(* The inductive invariant is kept by every step.                          *)

LEMMA InitInv == Init => IInv
  <1> SUFFICES ASSUME Init PROVE IInv
    OBVIOUS
  <1>1. TypeOK
    <2>1. <<>> \in Seq(Frames)
      OBVIOUS
    <2>2. line \in [Sides -> Seq(Frames)]
      BY <2>1 DEF Init
    <2> QED
      BY <2>2 DEF Init, TypeOK, Sides, PevSteps, EvseSteps
  <1>2. \A s \in Sides : In(line[s]) = {}
    BY DEF Init, In
  <1>3. Verdict
    BY <1>2
    DEF Init, Verdict, KeyOnlyOnRequest, Sides
  <1>4. Pairing
    BY <1>2 DEF Init, Pairing, MatchedTogether, Sides
  <1> QED
    BY <1>1, <1>3, <1>4 DEF IInv

\* Steps that read no frame and send none.
LEMMA QuietStep ==
    ASSUME IInv,
           PevBegin \/ PevSetKey \/ PevJoin \/ EvseJoin \/ EvseJoinTimesOut
    PROVE  IInv'
  <1>1. CASE PevBegin
    BY <1>1
    DEF PevBegin, IInv, TypeOK, Verdict, Pairing, KeyOnlyOnRequest,
        MatchedTogether, Granted, Goto, Move, Sides, PevSteps, EvseSteps,
        Other
  <1>2. CASE PevSetKey
    BY <1>2
    DEF PevSetKey, IInv, TypeOK, Verdict, Pairing, KeyOnlyOnRequest,
        MatchedTogether, Granted, Goto, Move, Sides, PevSteps, EvseSteps,
        Other
  <1>3. CASE PevJoin
    BY <1>3
    DEF PevJoin, IInv, TypeOK, Verdict, Pairing, KeyOnlyOnRequest,
        MatchedTogether, Granted, Goto, Move, Sides, PevSteps, EvseSteps,
        Other
  <1>4. CASE EvseJoin
    BY <1>4
    DEF EvseJoin, IInv, TypeOK, Verdict, Pairing, KeyOnlyOnRequest,
        MatchedTogether, Granted, Goto, Move, Sides, PevSteps, EvseSteps,
        Other
  <1>5. CASE EvseJoinTimesOut
    BY <1>5
    DEF EvseJoinTimesOut, IInv, TypeOK, Verdict, Pairing, KeyOnlyOnRequest,
        MatchedTogether, Granted, Goto, Move, Sides, PevSteps, EvseSteps,
        Other
  <1> QED
    BY <1>1, <1>2, <1>3, <1>4, <1>5

Lines == [Sides -> Seq(Frames)]

MessageTypes == {"PARAM_REQ", "PARAM_CNF", "START_IND", "PROFILE_IND",
                 "ATTEN_IND", "ATTEN_RSP", "MATCH_REQ", "MATCH_CNF"}

\* Some copies of a frame of a run are sent.
Sends(l, s, type, run, level) ==
    \E n \in Nat : \E more \in SUBSET {"loss", "late", "far"} :
        Transmit(l, s, Measured(type, run, level), n, more)

\* A frame of one side's run, sent over the line as it is or as reading has
\* left it, is the only one that is new.
LEMMA SideSends ==
    ASSUME IInv, NEW s \in Sides, NEW l \in Lines,
           \A t \in Sides : In(l[t]) \subseteq In(line[t]),
           NEW type \in MessageTypes, NEW level \in {"none", "good", "far"},
           NEW run \in Nat, Sends(l, s, type, run, level)
    PROVE  /\ line' \in Lines
           /\ \A t \in Sides : \A f \in In(line'[t]) :
                  \/ f \in In(line[t])
                  \/ t = s /\ f.type = type /\ f.RunID = run
           /\ faults' \subseteq {"loss", "late", "far"}
  <1> DEFINE f0 == Measured(type, run, level)
  <1>1. f0 \in Frames /\ f0.type = type /\ f0.RunID = run
    BY FrameTypes DEF MessageTypes
  <1>2. faults \subseteq {"loss", "late", "far"}
    BY DEF IInv, TypeOK
  <1> HIDE DEF f0
  <1>3. PICK n \in Nat, more \in SUBSET {"loss", "late", "far"} :
            Transmit(l, s, f0, n, more)
    BY DEF f0, Sends
  <1>4. /\ Types'
        /\ In(line'[s]) \subseteq In(l[s]) \cup {f0}
        /\ \A t \in Sides \ {s} : line'[t] = l[t]
        /\ faults' \subseteq {"loss", "late", "far"}
    BY <1>1, <1>2, <1>3, TransmitFrames DEF Lines
  <1> QED
    BY <1>1, <1>4 DEF Types, Lines

\* Steps in which the vehicle sends a frame.
LEMMA PevSends ==
    ASSUME IInv,
           PevProbe \/ PevStartAttenChar \/ PevMnbcSound \/ PevSlacMatchRequest
    PROVE  IInv'
  <1> USE SlacAssumption
  <1>0. /\ line \in Lines /\ RunID["pev"] \in Nat
        /\ "evse" \in Sides /\ "pev" \in Sides
        /\ \A type \in {"PARAM_REQ", "START_IND", "PROFILE_IND", "MATCH_REQ"} :
              type \in MessageTypes
    BY DEF IInv, TypeOK, Sides, MessageTypes, Lines
  <1>1. CASE PevProbe
    <2>1. Sends(line, "evse", "PARAM_REQ", RunID["pev"], "none")
      BY <1>1 DEF PevProbe, Frame, Sends
    <2>2. /\ line' \in Lines
          /\ \A t \in Sides : \A f \in In(line'[t]) :
                 \/ f \in In(line[t])
                 \/ /\ t = "evse"
                    /\ f.type = "PARAM_REQ" /\ f.RunID = RunID["pev"]
          /\ faults' \subseteq {"loss", "late", "far"}
      BY <1>0, <2>1, SideSends
    <2> QED
      BY <1>1, <2>2
      DEF PevProbe, Lines, IInv, TypeOK, Verdict, Pairing,
          KeyOnlyOnRequest, MatchedTogether, Granted, Goto, Move, Sides,
          PevSteps, EvseSteps, Other
  <1>2. CASE PevStartAttenChar
    <2>1. Sends(line, "evse", "START_IND", RunID["pev"], "none")
      BY <1>2 DEF PevStartAttenChar, Frame, Sends
    <2>2. /\ line' \in Lines
          /\ \A t \in Sides : \A f \in In(line'[t]) :
                 \/ f \in In(line[t])
                 \/ /\ t = "evse"
                    /\ f.type = "START_IND" /\ f.RunID = RunID["pev"]
          /\ faults' \subseteq {"loss", "late", "far"}
      BY <1>0, <2>1, SideSends
    <2> QED
      BY <1>2, <2>2
      DEF PevStartAttenChar, Lines, IInv, TypeOK, Verdict, Pairing,
          KeyOnlyOnRequest, MatchedTogether, Granted, Goto, Move, Sides,
          PevSteps, EvseSteps, Other
  <1>3. CASE PevMnbcSound
    <2>1. Sends(line, "evse", "PROFILE_IND", RunID["pev"], "none")
      BY <1>3 DEF PevMnbcSound, Frame, Sends
    <2>2. /\ line' \in Lines
          /\ \A t \in Sides : \A f \in In(line'[t]) :
                 \/ f \in In(line[t])
                 \/ /\ t = "evse"
                    /\ f.type = "PROFILE_IND" /\ f.RunID = RunID["pev"]
          /\ faults' \subseteq {"loss", "late", "far"}
      BY <1>0, <2>1, SideSends
    <2> QED
      BY <1>3, <2>2
      DEF PevMnbcSound, Lines, IInv, TypeOK, Verdict, Pairing,
          KeyOnlyOnRequest, MatchedTogether, Granted, Goto, Move, Sides,
          PevSteps, EvseSteps, Other
  <1>4. CASE PevSlacMatchRequest
    <2>1. Sends(line, "evse", "MATCH_REQ", RunID["pev"], "none")
      BY <1>4 DEF PevSlacMatchRequest, Frame, Sends
    <2>2. /\ line' \in Lines
          /\ \A t \in Sides : \A f \in In(line'[t]) :
                 \/ f \in In(line[t])
                 \/ /\ t = "evse"
                    /\ f.type = "MATCH_REQ" /\ f.RunID = RunID["pev"]
          /\ faults' \subseteq {"loss", "late", "far"}
      BY <1>0, <2>1, SideSends
    <2> QED
      BY <1>4, <2>2
      DEF PevSlacMatchRequest, Lines, IInv, TypeOK, Verdict, Pairing,
          KeyOnlyOnRequest, MatchedTogether, Granted, Goto, Move, Sides,
          PevSteps, EvseSteps, Other
  <1> QED
    BY <1>1, <1>2, <1>3, <1>4

\* Steps in which the vehicle reads a frame, or stops waiting for one.
LEMMA PevReads ==
    ASSUME IInv,
           \/ PevSlacParam \/ PevProbeAgain \/ PevSearchEnds
           \/ PevIgnoresAtten \/ PevSlacMatchConfirm \/ PevMatchingTimesOut
    PROVE  IInv'
  <1>1. CASE PevSlacParam
    BY <1>1, RestFrames
    DEF PevSlacParam, Reads, OfThisRun, Types, IInv, TypeOK, Verdict, Pairing,
        KeyOnlyOnRequest, MatchedTogether, Granted, Goto, Move, sideVars,
        Sides, PevSteps, EvseSteps, Other
  <1>2. CASE PevProbeAgain
    BY <1>2, TimeOutFrames
    DEF PevProbeAgain, SearchEnds, Types, IInv, TypeOK, Verdict, Pairing,
        KeyOnlyOnRequest, MatchedTogether, Granted, Goto, Move, sideVars,
        Sides, PevSteps, EvseSteps, Other
  <1>3. CASE PevSearchEnds
    BY <1>3, TimeOutFrames
    DEF PevSearchEnds, SearchEnds, Types, IInv, TypeOK, Verdict, Pairing,
        KeyOnlyOnRequest, MatchedTogether, Granted, Goto, Move, sideVars,
        Sides, PevSteps, EvseSteps, Other
  <1>4. CASE PevIgnoresAtten
    BY <1>4, RestFrames
    DEF PevIgnoresAtten, Reads, OfThisRun, Types, IInv, TypeOK, Verdict,
        Pairing, KeyOnlyOnRequest, MatchedTogether, Granted, Goto, Move,
        sideVars, Sides, PevSteps, EvseSteps, Other
  <1>5. CASE PevSlacMatchConfirm
    BY <1>5, RestFrames
    DEF PevSlacMatchConfirm, Reads, OfThisRun, Types, IInv, TypeOK, Verdict,
        Pairing, KeyOnlyOnRequest, MatchedTogether, Granted, Goto, Move,
        sideVars, Sides, PevSteps, EvseSteps, Other, Awaited
  <1>6. CASE PevMatchingTimesOut
    BY <1>6, TimeOutFrames
    DEF PevMatchingTimesOut, SearchEnds, Types, IInv, TypeOK, Verdict,
        Pairing, KeyOnlyOnRequest, MatchedTogether, Granted, Goto, Move,
        sideVars, Sides, PevSteps, EvseSteps, Other
  <1> QED
    BY <1>1, <1>2, <1>3, <1>4, <1>5, <1>6

\* What reading leaves of the line can be sent over.
LEMMA RestLines ==
    ASSUME IInv, NEW s \in Sides, line[s] # <<>>
    PROVE  /\ Rest(s) \in Lines
           /\ \A t \in Sides : In(Rest(s)[t]) \subseteq In(line[t])
           /\ Head(line[s]) \in Frames /\ Head(line[s]) \in In(line[s])
  BY RestFrames DEF Types, Lines, IInv, TypeOK

\* The vehicle acknowledges the attenuation and judges it.
LEMMA PevAttenCharStep ==
    ASSUME IInv, PevAttenChar
    PROVE  IInv'
  <1>1. line["pev"] # <<>> /\ pc["pev"] = "atten"
    BY DEF PevAttenChar, Reads
  <1>2. /\ "evse" \in Sides /\ "pev" \in Sides /\ RunID["pev"] \in Nat
        /\ "ATTEN_RSP" \in MessageTypes
        /\ {} \in SUBSET {"loss", "late", "far"}
        /\ {"far"} \in SUBSET {"loss", "late", "far"}
    BY DEF Sides, IInv, TypeOK, MessageTypes
  <1>3. Sends(Rest("pev"), "evse", "ATTEN_RSP", RunID["pev"], "none")
    BY <1>2 DEF PevAttenChar, Sends, Frame
  <1>4. /\ line' \in Lines
        /\ \A t \in Sides : \A f \in In(line'[t]) :
               \/ f \in In(line[t])
               \/ t = "evse" /\ f.type = "ATTEN_RSP" /\ f.RunID = RunID["pev"]
        /\ faults' \subseteq {"loss", "late", "far"}
    BY <1>1, <1>2, <1>3, RestLines, SideSends
  <1>5. judged' \subseteq Nat
    BY <1>2 DEF PevAttenChar, IInv, TypeOK
  <1>6. /\ pc' \in [Sides -> PevSteps \cup EvseSteps]
        /\ pc'["pev"] \in PevSteps /\ pc'["evse"] = pc["evse"]
        /\ state' \in [Sides -> {"DISCONNECTED", "UNOCCUPIED", "UNMATCHED",
                                 "MATCHED", "UNAVAILABLE", "END"}]
    BY <1>2 DEF PevAttenChar, IInv, TypeOK, Goto, Move, Sides, PevSteps
  <1>7. TypeOK'
    BY <1>1, <1>4, <1>5, <1>6
    DEF PevAttenChar, IInv, TypeOK, Goto, Move, Lines, Sides, PevSteps,
        EvseSteps
  <1>8. Verdict'
    BY <1>1, <1>4
    DEF PevAttenChar, IInv, TypeOK, Verdict, KeyOnlyOnRequest, Goto, Move,
        Sides, Other, PevSteps, EvseSteps
  <1>9. Pairing'
    BY <1>1, <1>4 DEF PevAttenChar, IInv, TypeOK, Pairing, MatchedTogether,
       Granted, Goto, Move, Sides, Other, PevSteps, EvseSteps
  <1> QED
    BY <1>7, <1>8, <1>9 DEF IInv

\* Frames dropped, frames that cannot be sent, and frames of other vehicles.
LEMMA LineStep ==
    ASSUME IInv, NEW s \in Sides, Skip(s) \/ CannotSend(s) \/ Crosstalk(s)
    PROVE  IInv'
  <1>1. CASE Skip(s)
    BY <1>1, RestFrames
    DEF Skip, Unwanted, Types, IInv, TypeOK, Verdict, Pairing,
        KeyOnlyOnRequest, MatchedTogether, Granted, Goto, Move, sideVars,
        Sides, PevSteps, EvseSteps, Other
  <1>2. CASE Crosstalk(s)
    <2>1. PICK step \in (IF s = "pev" THEN PevWaits ELSE EvseWaits) :
              /\ line' = [line EXCEPT ![s] =
                             Append(@, Measured(Awaited(step), Other, "good"))]
              /\ asked' = IF step = "match" THEN asked \cup {Other} ELSE asked
      BY <1>2 DEF Crosstalk
    <2> DEFINE f0 == Measured(Awaited(step), Other, "good")
    <2>2. f0 \in Frames /\ f0.RunID = Other
      BY FrameTypes DEF Measured, Frames, Awaited, PevWaits, EvseWaits, Other
    <2>6. f0.type = "MATCH_REQ" => step = "match"
      BY DEF Measured, Awaited, PevWaits, EvseWaits
    <2>7. asked \subseteq asked' /\ asked' \subseteq Nat
      BY <2>1 DEF IInv, TypeOK, Other
    <2> HIDE DEF f0
    <2>3. line[s] \in Seq(Frames)
      BY DEF IInv, TypeOK
    <2>4. /\ Append(line[s], f0) \in Seq(Frames)
          /\ In(Append(line[s], f0)) \subseteq In(line[s]) \cup {f0}
      BY <2>2, <2>3 DEF In
    <2>5. /\ line' \in [Sides -> Seq(Frames)]
          /\ \A t \in Sides : \A f \in In(line'[t]) :
                 \/ f \in In(line[t])
                 \/ /\ f.RunID = Other
                    /\ f.type = "MATCH_REQ" => Other \in asked'
      BY <2>1, <2>2, <2>4, <2>6 DEF IInv, TypeOK, f0
    <2> QED
      BY <1>2, <2>5, <2>7
      DEF Crosstalk, IInv, TypeOK, Verdict, Pairing, KeyOnlyOnRequest,
        MatchedTogether, Granted, Goto, Move, sideVars, Sides, PevSteps,
        EvseSteps, Other
  <1>3. CASE CannotSend(s)
    BY <1>3
    DEF CannotSend, IInv, TypeOK, Verdict, Pairing, KeyOnlyOnRequest,
        MatchedTogether, Granted, Goto, Sides, PevSteps, EvseSteps, Other
  <1> QED
    BY <1>1, <1>2, <1>3

\* Steps in which the station reads a frame, or stops waiting for one.
LEMMA EvseReads ==
    ASSUME IInv,
           \/ EvseListensOn \/ EvseSearchEnds \/ EvseStartAttenChar
           \/ EvseMnbcSound \/ EvseAttenResponse \/ EvseIgnoresMatch
           \/ EvseMatchingTimesOut
    PROVE  IInv'
  <1>1. CASE EvseListensOn
    BY <1>1, TimeOutFrames
    DEF EvseListensOn, SearchEnds, Types, IInv, TypeOK, Verdict, Pairing,
        KeyOnlyOnRequest, MatchedTogether, Granted, Goto, Move, sideVars,
        Sides, PevSteps, EvseSteps, Other
  <1>2. CASE EvseSearchEnds
    BY <1>2, TimeOutFrames
    DEF EvseSearchEnds, SearchEnds, Types, IInv, TypeOK, Verdict, Pairing,
        KeyOnlyOnRequest, MatchedTogether, Granted, Goto, Move, sideVars,
        Sides, PevSteps, EvseSteps, Other
  <1>3. CASE EvseStartAttenChar
    <2>1. /\ line' \in Lines
          /\ \A t \in Sides : In(line'[t]) \subseteq In(line[t])
      BY <1>3, RestLines
      DEF EvseStartAttenChar, Reads, Lines, IInv, TypeOK, Sides
    <2>7. TypeOK'
      BY <1>3, <2>1
      DEF EvseStartAttenChar, IInv, TypeOK, Goto, Move, Lines, Sides,
          PevSteps, EvseSteps
    <2>8. Verdict'
      BY <1>3, <2>1
      DEF EvseStartAttenChar, IInv, TypeOK, Verdict, KeyOnlyOnRequest,
          Goto, Move, Sides, Other, PevSteps, EvseSteps
    <2>9. Pairing'
      BY <1>3, <2>1
      DEF EvseStartAttenChar, IInv, TypeOK, Pairing, MatchedTogether, Granted,
          Goto, Move, Sides, Other, PevSteps, EvseSteps
    <2> QED
      BY <2>7, <2>8, <2>9 DEF IInv
  <1>4. CASE EvseMnbcSound
    <2>1. /\ line' \in Lines
          /\ \A t \in Sides : In(line'[t]) \subseteq In(line[t])
      BY <1>4, RestLines DEF EvseMnbcSound, Reads, Lines, IInv, TypeOK, Sides
    <2>2. sounds' \in Nat
      BY <1>4 DEF EvseMnbcSound, IInv, TypeOK
    <2>3. faults' \subseteq {"loss", "late", "far"}
      BY <1>4 DEF EvseMnbcSound, IInv, TypeOK
    <2>7. TypeOK'
      BY <1>4, <2>1, <2>2, <2>3
      DEF EvseMnbcSound, IInv, TypeOK, Goto, Move, Lines, Sides, PevSteps,
          EvseSteps
    <2>8. Verdict'
      BY <1>4, <2>1
      DEF EvseMnbcSound, IInv, TypeOK, Verdict, KeyOnlyOnRequest, Goto,
          Move, Sides, Other, PevSteps, EvseSteps
    <2>9. Pairing'
      BY <1>4, <2>1 DEF EvseMnbcSound, IInv, TypeOK, Pairing, MatchedTogether,
         Granted, Goto, Move, Sides, Other, PevSteps, EvseSteps
    <2> QED
      BY <2>7, <2>8, <2>9 DEF IInv
  <1>5. CASE EvseAttenResponse
    <2>1. /\ line' \in Lines
          /\ \A t \in Sides : In(line'[t]) \subseteq In(line[t])
      BY <1>5, RestLines
      DEF EvseAttenResponse, Reads, Lines, IInv, TypeOK, Sides
    <2>7. TypeOK'
      BY <1>5, <2>1
      DEF EvseAttenResponse, IInv, TypeOK, Goto, Move, Lines, Sides, PevSteps,
          EvseSteps
    <2>8. Verdict'
      BY <1>5, <2>1
      DEF EvseAttenResponse, IInv, TypeOK, Verdict, KeyOnlyOnRequest, Goto,
          Move, Sides, Other, PevSteps, EvseSteps
    <2>9. Pairing'
      BY <1>5, <2>1
      DEF EvseAttenResponse, IInv, TypeOK, Pairing, MatchedTogether, Granted,
          Goto, Move, Sides, Other, PevSteps, EvseSteps
    <2> QED
      BY <2>7, <2>8, <2>9 DEF IInv
  <1>6. CASE EvseIgnoresMatch
    <2>1. /\ line' \in Lines
          /\ \A t \in Sides : In(line'[t]) \subseteq In(line[t])
      BY <1>6, RestLines
      DEF EvseIgnoresMatch, Reads, Lines, IInv, TypeOK, Sides
    <2>7. TypeOK'
      BY <1>6, <2>1
      DEF EvseIgnoresMatch, IInv, TypeOK, Goto, Move, Lines, Sides, PevSteps,
          EvseSteps
    <2>8. Verdict'
      BY <1>6, <2>1
      DEF EvseIgnoresMatch, IInv, TypeOK, Verdict, KeyOnlyOnRequest, Goto,
          Move, Sides, Other, PevSteps, EvseSteps
    <2>9. Pairing'
      BY <1>6, <2>1
      DEF EvseIgnoresMatch, IInv, TypeOK, Pairing, MatchedTogether, Granted,
          Goto, Move, Sides, Other, PevSteps, EvseSteps
    <2> QED
      BY <2>7, <2>8, <2>9 DEF IInv
  <1>7. CASE EvseMatchingTimesOut
    BY <1>7, TimeOutFrames
    DEF EvseMatchingTimesOut, SearchEnds, Types, IInv, TypeOK, Verdict,
        Pairing, KeyOnlyOnRequest, MatchedTogether, Granted, Goto, Move,
        sideVars, Sides, PevSteps, EvseSteps, Other
  <1> QED
    BY <1>1, <1>2, <1>3, <1>4, <1>5, <1>6, <1>7

\* An answer of the station adds at most that answer, to the vehicle's line.
LEMMA AnswerFrames ==
    ASSUME IInv, NEW l \in Lines,
           \A t \in Sides : In(l[t]) \subseteq In(line[t]),
           NEW type \in MessageTypes, NEW level \in {"none", "good", "far"},
           NEW run \in Nat,
           EvseAnswers(l, Measured(type, run, level))
    PROVE  /\ line' \in Lines
           /\ \A t \in Sides : \A f \in In(line'[t]) :
                  \/ f \in In(line[t])
                  \/ t = "pev" /\ f.type = type /\ f.RunID = run
           /\ faults' \subseteq {"loss", "late", "far"}
  <1>1. CASE run = Other
    <2>1. line' = l /\ UNCHANGED faults
      BY <1>1 DEF EvseAnswers, Measured
    <2> QED
      BY <2>1 DEF IInv, TypeOK
  <1>2. CASE run # Other
    <2>1. Sends(l, "pev", type, run, level)
      BY <1>2 DEF EvseAnswers, Measured, Sends
    <2>2. "pev" \in Sides
      BY DEF Sides
    <2> QED
      BY <2>1, <2>2, SideSends
  <1> QED
    BY <1>1, <1>2

\* Steps in which the station sends a frame.
LEMMA EvseSends ==
    ASSUME IInv, EvseSlacParam \/ EvseAttenChar \/ EvseSlacMatch
    PROVE  IInv'
  <1>0. /\ line \in Lines /\ RunID["evse"] \in Nat /\ "evse" \in Sides
        /\ \A type \in {"PARAM_CNF", "ATTEN_IND", "MATCH_CNF"} :
              type \in MessageTypes
    BY DEF IInv, TypeOK, Lines, Sides, MessageTypes
  <1>1. CASE EvseSlacParam
    <2> DEFINE run == Head(line["evse"]).RunID
    <2>1. line["evse"] # <<>>
      BY <1>1 DEF EvseSlacParam, Reads
    <2>2. /\ Rest("evse") \in Lines /\ run \in Nat
          /\ \A t \in Sides : In(Rest("evse")[t]) \subseteq In(line[t])
      BY <1>0, <2>1, RestLines DEF Frames
    <2>3. EvseAnswers(Rest("evse"), Measured("PARAM_CNF", run, "none"))
      BY <1>1 DEF EvseSlacParam, Frame
    <2>4. RunID' = [RunID EXCEPT !["evse"] = run]
      BY <1>1 DEF EvseSlacParam
    <2> HIDE DEF run
    <2>5. /\ line' \in Lines
          /\ \A t \in Sides : \A f \in In(line'[t]) :
                 \/ f \in In(line[t])
                 \/ t = "pev" /\ f.type = "PARAM_CNF" /\ f.RunID = run
          /\ faults' \subseteq {"loss", "late", "far"}
      BY <1>0, <2>2, <2>3, AnswerFrames
    <2>7. TypeOK'
      BY <1>1, <2>2, <2>4, <2>5
      DEF EvseSlacParam, IInv, TypeOK, Goto, Move, Lines, Sides, PevSteps,
          EvseSteps
    <2>8. Verdict'
      BY <1>1, <2>2, <2>4, <2>5
      DEF EvseSlacParam, IInv, TypeOK, Verdict, KeyOnlyOnRequest, Goto,
          Move, Sides, Other, PevSteps, EvseSteps
    <2>9. Pairing'
      BY <1>1, <2>2, <2>4, <2>5
      DEF EvseSlacParam, IInv, TypeOK, Pairing, MatchedTogether, Granted,
          Goto, Move, Sides, Other, PevSteps, EvseSteps
    <2> QED
      BY <2>7, <2>8, <2>9 DEF IInv
  <1>2. CASE EvseAttenChar
    <2>1. PICK level \in {"none", "good", "far"} :
              EvseAnswers(line, Measured("ATTEN_IND", RunID["evse"], level))
      BY <1>2, SlacAssumption DEF EvseAttenChar
    <2>2. /\ line' \in Lines
          /\ \A t \in Sides : \A f \in In(line'[t]) :
                 \/ f \in In(line[t])
                 \/ /\ t = "pev"
                    /\ f.type = "ATTEN_IND" /\ f.RunID = RunID["evse"]
          /\ faults' \subseteq {"loss", "late", "far"}
      BY <1>0, <2>1, AnswerFrames
    <2>7. TypeOK'
      BY <1>2, <2>2 DEF EvseAttenChar, IInv, TypeOK, Goto, Move, Lines, Sides,
         PevSteps, EvseSteps
    <2>8. Verdict'
      BY <1>2, <2>2
      DEF EvseAttenChar, IInv, TypeOK, Verdict, KeyOnlyOnRequest, Goto,
          Move, Sides, Other, PevSteps, EvseSteps
    <2>9. Pairing'
      BY <1>2, <2>2 DEF EvseAttenChar, IInv, TypeOK, Pairing, MatchedTogether,
         Granted, Goto, Move, Sides, Other, PevSteps, EvseSteps
    <2> QED
      BY <2>7, <2>8, <2>9 DEF IInv
  <1>3. CASE EvseSlacMatch
    <2>1. line["evse"] # <<>> /\ pc["evse"] = "match"
      BY <1>3 DEF EvseSlacMatch, Reads
    <2>2. /\ Rest("evse") \in Lines
          /\ \A t \in Sides : In(Rest("evse")[t]) \subseteq In(line[t])
      BY <1>0, <2>1, RestLines
    <2>6. Head(line["evse"]) \in In(line["evse"])
      BY <1>0, <2>1, RestLines
    <2>3. EvseAnswers(Rest("evse"),
                      Measured("MATCH_CNF", RunID["evse"], "none"))
      BY <1>3 DEF EvseSlacMatch, Frame
    <2>4. /\ RunID["evse"] \in asked
          /\ RunID["evse"] = Other \/ RunID["evse"] \in judged
      BY <1>3, <2>1, <2>6
      DEF EvseSlacMatch, Reads, OfThisRun, Awaited, IInv, Verdict
    <2>5. /\ line' \in Lines
          /\ \A t \in Sides : \A f \in In(line'[t]) :
                 \/ f \in In(line[t])
                 \/ /\ t = "pev"
                    /\ f.type = "MATCH_CNF" /\ f.RunID = RunID["evse"]
          /\ faults' \subseteq {"loss", "late", "far"}
      BY <1>0, <2>2, <2>3, AnswerFrames
    <2>7. TypeOK'
      BY <1>3, <2>1, <2>4, <2>5
      DEF EvseSlacMatch, IInv, TypeOK, Goto, Move, Lines, Sides, PevSteps,
          EvseSteps
    <2>8. Verdict'
      BY <1>3, <2>1, <2>4, <2>5
      DEF EvseSlacMatch, IInv, TypeOK, Verdict, KeyOnlyOnRequest, Goto,
          Move, Sides, Other, PevSteps, EvseSteps
    <2>9. Pairing'
      BY <1>3, <2>1, <2>4, <2>5
      DEF EvseSlacMatch, IInv, TypeOK, Pairing, MatchedTogether, Granted,
          Goto, Move, Sides, Other, PevSteps, EvseSteps
    <2> QED
      BY <2>7, <2>8, <2>9 DEF IInv
  <1> QED
    BY <1>1, <1>2, <1>3

LEMMA NextInv == IInv /\ [Next]_vars => IInv'
  <1> SUFFICES ASSUME IInv, [Next]_vars PROVE IInv'
    OBVIOUS
  <1>1. ASSUME UNCHANGED vars PROVE IInv'
    BY <1>1
    DEF vars, sideVars, IInv, TypeOK, Verdict, Pairing, Granted,
        KeyOnlyOnRequest, MatchedTogether
  <1>2. ASSUME PevNext PROVE IInv'
    BY <1>2, QuietStep, PevSends, PevReads, PevAttenCharStep, LineStep
    DEF PevNext, PevMatching, Sides
  <1>3. ASSUME EvseNext PROVE IInv'
    BY <1>3, QuietStep, EvseReads, EvseSends, LineStep
    DEF EvseNext, EvseMatching, Sides
  <1> QED
    BY <1>1, <1>2, <1>3, QuietStep, LineStep DEF Next

THEOREM Invariant == Spec => []IInv
  BY InitInv, NextInv, PTL DEF Spec

-----------------------------------------------------------------------------

\* Every variable keeps its type.
THEOREM TypeCorrect == Spec => []TypeOK
  <1>1. IInv => TypeOK
    BY DEF IInv
  <1> QED
    BY <1>1, Invariant, PTL

\* KeyOnlyOnRequest: the station hands its key only to a vehicle that has
\* asked for it in the station's run (evse_cm_slac_match.c:82), whether it is
\* this program's, which asks only after accepting the attenuation of that run
\* (slacify.cpp:540-557), or another one, which need not have judged anything
\* (evse_cm_atten_char.c:83).
THEOREM KeyOnRequest == Spec => []KeyOnlyOnRequest
  <1>1. IInv => KeyOnlyOnRequest
    BY DEF IInv, Verdict
  <1> QED
    BY <1>1, Invariant, PTL

\* A vehicle that has the key and its station are in the same run, and the
\* station never matches anyone again (slacify.cpp:432-436).
THEOREM Matched == Spec => []MatchedTogether
  <1>1. IInv => MatchedTogether
    BY DEF IInv, Pairing
  <1> QED
    BY <1>1, Invariant, PTL

-----------------------------------------------------------------------------
(* On a quiet line only searches fail.                                     *)

Clean == faults = {} /\ crosstalk = 0

Matching == {"MATCH_REQ", "MATCH_CNF"}

\* Where the vehicle is once it has asked for the key.
Asked == {"confirm", "key", "join", "done", "exited"}

\* Runs the vehicle has begun or is about to begin.
Begun == RunID["pev"] + (IF pc["pev"] = "begin" THEN 1 ELSE 0)

\* The frames that could end an attempt are from the only one that has got
\* so far, and the vehicle does not leave it.
Undisturbed ==
    Clean =>
        /\ IF state["pev"] = "UNAVAILABLE" THEN pc["pev"] = "done"
           ELSE Begun <= 1 + C_sequ_retry["pev"]
        /\ \A t \in Sides : \A f \in In(line[t]) :
               f.type \in Matching
                   => f.RunID = RunID["pev"] /\ pc["pev"] \in Asked

\* The frames of the match that are in the buffers were there before.
NoNewMatching ==
    \A t \in Sides : \A f \in In(line'[t]) :
        f \in In(line[t]) \/ f.type \notin Matching

\* What has gone wrong is not forgotten.
LEMMA StaysClean ==
    ASSUME IInv, [Next]_vars, Clean'
    PROVE  Clean
  <1>1. faults \subseteq faults'
    <2>1. ASSUME NEW l, NEW s \in Sides, NEW f, NEW n, NEW more,
                 Transmit(l, s, f, n, more)
          PROVE  faults \subseteq faults'
      BY <2>1 DEF Transmit
    <2>2. ASSUME NEW l, NEW f, EvseAnswers(l, f)
          PROVE  faults \subseteq faults'
      BY <2>2, <2>1 DEF EvseAnswers, Sides
    <2>3. PevNext => faults \subseteq faults'
      BY <2>1
      DEF PevNext, PevMatching, PevBegin, PevProbe, PevSlacParam,
          PevProbeAgain, PevSearchEnds, PevStartAttenChar, PevMnbcSound,
          PevAttenChar, PevIgnoresAtten, PevSlacMatchRequest,
          PevSlacMatchConfirm, PevMatchingTimesOut, PevSetKey, Skip, Sides
    <2>4. EvseNext => faults \subseteq faults'
      BY <2>2
      DEF EvseNext, EvseMatching, EvseSlacParam, EvseListensOn,
          EvseSearchEnds, EvseStartAttenChar, EvseMnbcSound, EvseAttenChar,
          EvseAttenResponse, EvseSlacMatch, EvseIgnoresMatch,
          EvseMatchingTimesOut, EvseJoin, EvseJoinTimesOut, Skip
    <2> QED
      BY <2>3, <2>4 DEF Next, PevJoin, CannotSend, Crosstalk, vars
  <1>2. crosstalk' = crosstalk \/ crosstalk' = crosstalk + 1
    BY DEF Next, PevNext, EvseNext, PevMatching, EvseMatching, PevBegin,
       PevProbe, PevSlacParam, PevProbeAgain, PevSearchEnds,
       PevStartAttenChar, PevMnbcSound, PevAttenChar, PevIgnoresAtten,
       PevSlacMatchRequest, PevSlacMatchConfirm, PevMatchingTimesOut,
       PevSetKey, PevJoin, EvseSlacParam, EvseListensOn, EvseSearchEnds,
       EvseStartAttenChar, EvseMnbcSound, EvseAttenChar, EvseAttenResponse,
       EvseSlacMatch, EvseIgnoresMatch, EvseMatchingTimesOut, EvseJoin,
       EvseJoinTimesOut, Skip, CannotSend, Crosstalk, vars
  <1> QED
    BY <1>1, <1>2 DEF Clean, IInv, TypeOK

\* The only steps that put frames of the match on a quiet line.
LEMMA WhoMatches ==
    ASSUME IInv, [Next]_vars, Clean'
    PROVE  PevSlacMatchRequest \/ EvseSlacMatch \/ NoNewMatching
  <1> USE SlacAssumption
  <1>0. /\ line \in Lines /\ RunID \in [Sides -> Nat]
        /\ "evse" \in Sides /\ "pev" \in Sides
        /\ {"PARAM_REQ", "START_IND", "PROFILE_IND", "ATTEN_RSP",
            "PARAM_CNF", "ATTEN_IND"} \subseteq MessageTypes \ Matching
        /\ {} \in SUBSET {"loss", "late", "far"}
        /\ {"far"} \in SUBSET {"loss", "late", "far"}
    BY DEF IInv, TypeOK, Sides, MessageTypes, Lines, Matching
  <1>1. ASSUME NEW s \in Sides, NEW l \in Lines,
               \A t \in Sides : In(l[t]) \subseteq In(line[t]),
               NEW type \in MessageTypes \ Matching,
               NEW level \in {"none", "good", "far"}, NEW run \in Nat,
               Sends(l, s, type, run, level)
        PROVE  NoNewMatching
    BY <1>1, SideSends DEF NoNewMatching
  <1>2. ASSUME NEW l \in Lines,
               \A t \in Sides : In(l[t]) \subseteq In(line[t]),
               NEW type \in MessageTypes \ Matching,
               NEW level \in {"none", "good", "far"}, NEW run \in Nat,
               EvseAnswers(l, Measured(type, run, level))
        PROVE  NoNewMatching
    BY <1>2, AnswerFrames DEF NoNewMatching
  <1>3. ASSUME NEW s \in Sides, ReadTimesOut(s)
        PROVE  NoNewMatching
    BY <1>0, <1>3, TimeOutFrames DEF NoNewMatching, Types, Lines
  <1>4. ASSUME NEW s \in Sides, line[s] # <<>>, line' = Rest(s)
        PROVE  NoNewMatching
    BY <1>4, RestLines DEF NoNewMatching
  <1>5. ASSUME line' = line
        PROVE  NoNewMatching
    BY <1>5 DEF NoNewMatching
  <1>6. CASE PevProbe \/ PevStartAttenChar \/ PevMnbcSound
    <2>1. PICK type \in {"PARAM_REQ", "START_IND", "PROFILE_IND"} :
              Sends(line, "evse", type, RunID["pev"], "none")
      BY <1>6 DEF PevProbe, PevStartAttenChar, PevMnbcSound, Frame, Sends
    <2> QED
      BY <1>0, <1>1, <2>1
  <1>7. CASE PevAttenChar
    <2>1. line["pev"] # <<>>
      BY <1>7 DEF PevAttenChar, Reads
    <2>2. Sends(Rest("pev"), "evse", "ATTEN_RSP", RunID["pev"], "none")
      BY <1>0, <1>7 DEF PevAttenChar, Sends, Frame
    <2> QED
      BY <1>0, <1>1, <2>1, <2>2, RestLines
  <1>8. CASE EvseSlacParam
    <2> DEFINE run == Head(line["evse"]).RunID
    <2>1. line["evse"] # <<>>
      BY <1>8 DEF EvseSlacParam, Reads
    <2>2. /\ Rest("evse") \in Lines /\ run \in Nat
          /\ \A t \in Sides : In(Rest("evse")[t]) \subseteq In(line[t])
      BY <1>0, <2>1, RestLines DEF Frames
    <2>3. EvseAnswers(Rest("evse"), Measured("PARAM_CNF", run, "none"))
      BY <1>8 DEF EvseSlacParam, Frame
    <2> HIDE DEF run
    <2> QED
      BY <1>0, <1>2, <2>2, <2>3
  <1>9. CASE EvseAttenChar
    <2>1. PICK level \in {"none", "good", "far"} :
              EvseAnswers(line, Measured("ATTEN_IND", RunID["evse"], level))
      BY <1>9 DEF EvseAttenChar
    <2> QED
      BY <1>0, <1>2, <2>1
  <1>10. CASE \/ PevProbeAgain \/ PevSearchEnds \/ PevMatchingTimesOut
              \/ EvseListensOn \/ EvseSearchEnds \/ EvseMatchingTimesOut
    BY <1>0, <1>3, <1>10
    DEF PevProbeAgain, PevSearchEnds, PevMatchingTimesOut, EvseListensOn,
        EvseSearchEnds, EvseMatchingTimesOut
  <1>11. CASE \/ PevSlacParam \/ PevIgnoresAtten \/ PevSlacMatchConfirm
              \/ EvseStartAttenChar \/ EvseAttenResponse
              \/ EvseIgnoresMatch \/ Skip("pev") \/ Skip("evse")
    BY <1>0, <1>4, <1>11
    DEF PevSlacParam, PevIgnoresAtten, PevSlacMatchConfirm,
        EvseStartAttenChar, EvseAttenResponse, EvseIgnoresMatch, Skip,
        Unwanted, Reads
  <1>12. CASE EvseMnbcSound
    BY <1>0, <1>4, <1>5, <1>12 DEF EvseMnbcSound
  <1>13. CASE \/ PevBegin \/ PevSetKey \/ PevJoin \/ EvseJoin
              \/ EvseJoinTimesOut \/ UNCHANGED vars
              \/ \E s \in Sides : CannotSend(s)
    BY <1>5, <1>13
    DEF PevBegin, PevSetKey, PevJoin, EvseJoin, EvseJoinTimesOut,
        CannotSend, vars
  <1>14. \A s \in Sides : ~ Crosstalk(s)
    BY DEF Crosstalk, GoesOn, Clean, IInv, TypeOK
  <1> QED
    BY <1>6, <1>7, <1>8, <1>9, <1>10, <1>11, <1>12, <1>13, <1>14
    DEF Next, PevNext, PevMatching, EvseNext, EvseMatching

\* The station's steps leave the vehicle where it is.
LEMMA EvseStays ==
    ASSUME IInv, EvseNext
    PROVE  /\ pc'["pev"] = pc["pev"] /\ state'["pev"] = state["pev"]
           /\ RunID'["pev"] = RunID["pev"]
           /\ C_sequ_retry'["pev"] = C_sequ_retry["pev"]
  BY DEF EvseNext, EvseMatching, EvseSlacParam, EvseListensOn,
     EvseSearchEnds, SearchEnds, EvseStartAttenChar, EvseMnbcSound,
     EvseAttenChar, EvseAttenResponse, EvseSlacMatch, EvseIgnoresMatch,
     EvseMatchingTimesOut, EvseJoin, EvseJoinTimesOut, Skip, Goto, Move,
     sideVars, IInv, TypeOK, Sides

\* A new run needs a counted search.
LEMMA RunsCounted ==
    ASSUME IInv, Undisturbed, [Next]_vars, Clean'
    PROVE  IF state'["pev"] = "UNAVAILABLE" THEN pc'["pev"] = "done"
           ELSE Begun' <= 1 + C_sequ_retry'["pev"]
  <1>0. /\ Clean
        /\ RunID["pev"] \in Nat /\ C_sequ_retry["pev"] \in Nat
        /\ pc \in [Sides -> PevSteps \cup EvseSteps]
        /\ RunID \in [Sides -> Nat] /\ C_sequ_retry \in [Sides -> Nat]
        /\ state \in [Sides -> {"DISCONNECTED", "UNOCCUPIED", "UNMATCHED",
                                "MATCHED", "UNAVAILABLE", "END"}]
        /\ "pev" \in Sides /\ "evse" \in Sides
    BY StaysClean DEF IInv, TypeOK, Sides
  <1>1. IF state["pev"] = "UNAVAILABLE" THEN pc["pev"] = "done"
        ELSE Begun <= 1 + C_sequ_retry["pev"]
    BY <1>0 DEF Undisturbed
  <1>2. CASE PevBegin
    BY <1>0, <1>1, <1>2 DEF PevBegin, Goto, Begun
  <1>3. CASE PevSearchEnds
    BY <1>0, <1>1, <1>3 DEF PevSearchEnds, SearchEnds, Goto, Move, Begun
  <1>4. CASE PevSlacMatchConfirm
    <2>1. line["pev"] # <<>> /\ Head(line["pev"]).type = "MATCH_CNF"
      BY <1>4 DEF PevSlacMatchConfirm, Reads, Awaited
    <2>2. Head(line["pev"]) \in In(line["pev"])
      BY <1>0, <2>1, RestLines
    <2>3. OfThisRun("pev")
      BY <1>0, <2>1, <2>2 DEF Undisturbed, Matching, OfThisRun
    <2> QED
      BY <1>0, <1>1, <1>4, <2>3 DEF PevSlacMatchConfirm, Move, Goto, Begun
  <1>5. CASE PevAttenChar
    <2>1. Head(line["pev"]).attn = "good"
      BY <1>5 DEF PevAttenChar, Transmit, Clean
    <2> QED
      BY <1>0, <1>1, <1>5, <2>1 DEF PevAttenChar, Goto, Begun
  <1>6. ~ PevMatchingTimesOut
    BY DEF PevMatchingTimesOut, Clean
  <1>7. CASE \/ PevProbe \/ PevSlacParam \/ PevProbeAgain
             \/ PevStartAttenChar \/ PevMnbcSound \/ PevIgnoresAtten
             \/ PevSlacMatchRequest \/ PevSetKey \/ PevJoin \/ Skip("pev")
    BY <1>0, <1>1, <1>7
    DEF PevProbe, PevSlacParam, PevProbeAgain, PevStartAttenChar,
        PevMnbcSound, PevIgnoresAtten, PevSlacMatchRequest, PevSetKey,
        PevJoin, Skip, sideVars, Goto, Move, Begun
  <1>8. CASE EvseNext
    BY <1>1, <1>8, EvseStays DEF Begun
  <1>9. CASE \E s \in Sides : CannotSend(s)
    BY <1>0, <1>1, <1>9 DEF CannotSend, Reads, Goto, Begun, Sides
  <1>10. \A s \in Sides : ~ Crosstalk(s)
    BY DEF Crosstalk, GoesOn, Clean, IInv, TypeOK
  <1>11. CASE UNCHANGED vars
    BY <1>1, <1>11 DEF vars, sideVars, Begun
  <1> QED
    BY <1>2, <1>3, <1>4, <1>5, <1>6, <1>7, <1>8, <1>9, <1>10, <1>11
    DEF Next, PevNext, PevMatching

\* A vehicle that has asked for the key has come to the end of its attempts.
LEMMA StaysAsked ==
    ASSUME IInv, Undisturbed, [Next]_vars, Clean', pc["pev"] \in Asked
    PROVE  pc'["pev"] \in Asked /\ RunID'["pev"] = RunID["pev"]
  <1>0. /\ Clean /\ "pev" \in Sides /\ "evse" \in Sides
        /\ pc \in [Sides -> PevSteps \cup EvseSteps]
    BY StaysClean DEF IInv, TypeOK, Sides
  <1>1. CASE PevSlacMatchConfirm
    <2>1. line["pev"] # <<>> /\ Head(line["pev"]).type = "MATCH_CNF"
      BY <1>1 DEF PevSlacMatchConfirm, Reads, Awaited
    <2>2. Head(line["pev"]) \in In(line["pev"])
      BY <1>0, <2>1, RestLines
    <2>3. OfThisRun("pev")
      BY <1>0, <2>1, <2>2 DEF Undisturbed, Matching, OfThisRun
    <2> QED
      BY <1>0, <1>1, <2>3 DEF PevSlacMatchConfirm, Move, Goto, Asked
  <1>2. ~ PevMatchingTimesOut
    BY DEF PevMatchingTimesOut, Clean
  <1>3. CASE PevSetKey \/ PevJoin \/ Skip("pev")
    BY <1>0, <1>3 DEF PevSetKey, PevJoin, Skip, sideVars, Goto, Move, Asked
  <1>4. ~ (\/ PevBegin \/ PevProbe \/ PevSlacParam \/ PevProbeAgain
           \/ PevSearchEnds \/ PevStartAttenChar \/ PevMnbcSound
           \/ PevAttenChar \/ PevIgnoresAtten \/ PevSlacMatchRequest)
    BY DEF Asked, PevBegin, PevProbe, PevSlacParam, PevProbeAgain,
       PevSearchEnds, PevStartAttenChar, PevMnbcSound, PevAttenChar,
       PevIgnoresAtten, PevSlacMatchRequest
  <1>5. CASE EvseNext
    BY <1>5, EvseStays
  <1>6. CASE \E s \in Sides : CannotSend(s)
    BY <1>0, <1>6 DEF CannotSend, Goto, Asked, Sides
  <1>7. \A s \in Sides : ~ Crosstalk(s)
    BY DEF Crosstalk, GoesOn, Clean, IInv, TypeOK
  <1>8. CASE UNCHANGED vars
    BY <1>8 DEF vars, sideVars
  <1> QED
    BY <1>1, <1>2, <1>3, <1>4, <1>5, <1>6, <1>7, <1>8
    DEF Next, PevNext, PevMatching

\* Frames of the match are from the attempt that has got that far.
LEMMA MatchingOfThisRun ==
    ASSUME IInv, Undisturbed, [Next]_vars, Clean'
    PROVE  \A t \in Sides : \A f \in In(line'[t]) :
               f.type \in Matching
                   => f.RunID = RunID'["pev"] /\ pc'["pev"] \in Asked
  <1> SUFFICES ASSUME NEW t \in Sides, NEW f \in In(line'[t]),
                      f.type \in Matching
               PROVE  f.RunID = RunID'["pev"] /\ pc'["pev"] \in Asked
    OBVIOUS
  <1>0. /\ Clean /\ "pev" \in Sides /\ "evse" \in Sides
        /\ line \in Lines /\ RunID["pev"] \in Nat /\ RunID["evse"] \in Nat
        /\ "MATCH_REQ" \in MessageTypes /\ "MATCH_CNF" \in MessageTypes
    BY StaysClean DEF IInv, TypeOK, Sides, Lines, MessageTypes
  <1>1. CASE f \in In(line[t])
    <2>1. f.RunID = RunID["pev"] /\ pc["pev"] \in Asked
      BY <1>0, <1>1 DEF Undisturbed
    <2> QED
      BY <2>1, StaysAsked
  <1>2. CASE f \notin In(line[t]) /\ PevSlacMatchRequest
    <2>1. Sends(line, "evse", "MATCH_REQ", RunID["pev"], "none")
      BY <1>2 DEF PevSlacMatchRequest, Frame, Sends
    <2>2. f.RunID = RunID["pev"]
      BY <1>0, <1>2, <2>1, SideSends
    <2> QED
      BY <1>0, <1>2, <2>2
      DEF PevSlacMatchRequest, Goto, Asked, IInv, TypeOK
  <1>3. CASE f \notin In(line[t]) /\ EvseSlacMatch
    <2>1. /\ line["evse"] # <<>> /\ Head(line["evse"]).type = "MATCH_REQ"
          /\ Head(line["evse"]).RunID = RunID["evse"]
      BY <1>3 DEF EvseSlacMatch, Reads, Awaited, OfThisRun
    <2>2. /\ Rest("evse") \in Lines
          /\ \A u \in Sides : In(Rest("evse")[u]) \subseteq In(line[u])
          /\ Head(line["evse"]) \in In(line["evse"])
      BY <1>0, <2>1, RestLines
    <2>3. RunID["evse"] = RunID["pev"] /\ pc["pev"] \in Asked
      BY <1>0, <2>1, <2>2 DEF Undisturbed, Matching
    <2>4. EvseAnswers(Rest("evse"),
                      Measured("MATCH_CNF", RunID["evse"], "none"))
      BY <1>3 DEF EvseSlacMatch, Frame
    <2>5. f.RunID = RunID["evse"]
      BY <1>0, <1>3, <2>2, <2>4, AnswerFrames
    <2> QED
      BY <2>3, <2>5, StaysAsked
  <1>4. CASE NoNewMatching
    BY <1>1, <1>4 DEF NoNewMatching
  <1> QED
    BY <1>1, <1>2, <1>3, <1>4, WhoMatches

LEMMA InitUndisturbed == Init => Undisturbed
  <1> SUFFICES ASSUME Init PROVE Undisturbed
    OBVIOUS
  <1>1. \A s \in Sides : In(line[s]) = {}
    BY DEF Init, In
  <1> QED
    BY <1>1 DEF Init, Undisturbed, Begun, Sides

LEMMA NextUndisturbed == IInv /\ Undisturbed /\ [Next]_vars => Undisturbed'
  BY RunsCounted, MatchingOfThisRun DEF Undisturbed

\* With nothing lost, late or too far and nobody else on the line, the vehicle
\* begins a new run only after a counted search (slacify.cpp:523-560).
THEOREM OnlySearches == Spec => []OnlySearchesFail
  <1>1. IInv /\ Undisturbed => OnlySearchesFail
    BY DEF IInv, TypeOK, Undisturbed, Begun, Clean, OnlySearchesFail, Sides
  <1>2. Spec => []Undisturbed
    BY Invariant, InitUndisturbed, NextUndisturbed, PTL DEF Spec
  <1> QED
    BY <1>1, <1>2, Invariant, PTL

=============================================================================
