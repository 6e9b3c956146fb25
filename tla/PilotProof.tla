----------------------------- MODULE PilotProof -----------------------------
(***************************************************************************)
(* Theorems about the sampling of the pilot, for any readings, delays and  *)
(* cuts.                                                                   *)
(***************************************************************************)
EXTENDS Pilot, FiniteSetTheorems, SequenceTheorems, WellFoundedInduction,
        TLAPS

\* A measurement of the controller, whose range is 12 bits, survives the
\* conversion although it is bit 11 that is tested (J1772.cpp:91).
THEOREM SignIsKept ==
    ASSUME NEW m \in Int, -2048 <= m, m <= 2047
    PROVE  hex_to_signed_decimal(Word(m)) = m
  <1>1. CASE m >= 0
    <2>1. Word(m) = m
      BY <1>1 DEF Word
    <2>2. m \div 2048 = 0
      BY <1>1
    <2> QED
      BY <2>1, <2>2 DEF hex_to_signed_decimal
  <1>2. CASE m < 0
    <2>1. Word(m) = m + 65536
      BY <1>2 DEF Word
    <2>2. (m + 65536) \div 2048 = 31
      BY <1>2
    <2> QED
      BY <2>1, <2>2 DEF hex_to_signed_decimal
  <1> QED
    BY <1>1, <1>2

\* What the comment at J1772.cpp:90 says, that bit 15 decides, would treat
\* these the same way; the positive ones from 2048 to 4095 it would not.
THEOREM SignIsLost ==
    ASSUME NEW m \in Int, 2048 <= m, m <= 4095
    PROVE  hex_to_signed_decimal(Word(m)) = m - 65536
  <1>1. Word(m) = m /\ m \div 2048 = 1
    BY DEF Word
  <1> QED
    BY <1>1 DEF hex_to_signed_decimal

\* A reading judged again, after its own state has been remembered, gives that
\* state: only where no band fits does the last state count.
LEMMA Idempotent ==
    ASSUME NEW V, NEW last
    PROVE  LET s == get_pilot_state(V, last) IN get_pilot_state(V, s) = s
  BY DEF get_pilot_state

\* The voltages that main goes by give the state it remembers.
Settled == get_pilot_state(Vpilot, last_pilot_state) = last_pilot_state

\* What is measured again was taken, in this sample, to be a new state.
Suspected(r) ==
    /\ taken = <<r>>
    /\ r.state = get_pilot_state(Vpilot, last_pilot_state)
    /\ heard => r.source # "none"

IInv ==
    /\ heard \in BOOLEAN
    /\ step \in {"pwm", "first"} => taken = <<>>
    /\ heard /\ step # "again" => Settled
    /\ step = "again" => \E r : Suspected(r)

\* The first and the second reading of a sample.
LEMMA AppendFirst ==
    ASSUME NEW r
    PROVE  Append(<<>>, r) = <<r>>
  <1>1. r \in {r}
    OBVIOUS
  <1> QED
    BY <1>1

LEMMA AppendSecond ==
    ASSUME NEW q, NEW r
    PROVE  LET s == Append(<<q>>, r)
           IN  Len(s) = 2 /\ s[1] = q /\ s[2] = r
  <1>1. <<q>> \in Seq({q, r}) /\ r \in {q, r} /\ Len(<<q>>) = 1
    OBVIOUS
  <1> QED
    BY <1>1

\* The invariant holds at the start.
LEMMA InitSettled == Init => IInv
  BY DEF Init, IInv

\* A step that leaves the voltages and the state alone, and gives back what
\* the sample has found so far unless it begins a new one.
LEMMA QuietStep ==
    ASSUME IInv, UNCHANGED <<Vpilot, last_pilot_state, heard>>,
           step' \in {"pwm", "first"} => taken' = <<>>,
           step' = "again" <=> step = "again",
           step = "again" => taken' = taken
    PROVE  IInv'
  BY DEF IInv, Settled, Suspected

\* No step of the line or of a read without a voltage disturbs it,
LEMMA LineSteps ==
    ASSUME IInv, DelayEnds \/ ReadSet \/ ReadPwm \/ Controller
    PROVE  IInv'
  <1>1. CASE DelayEnds
    BY <1>1, QuietStep DEF IInv, DelayEnds, DelayEndsWith
  <1>2. CASE ReadSet
    BY <1>2, QuietStep DEF ReadSet, CanRead, Finish
  <1>3. CASE ReadPwm
    BY <1>3, QuietStep DEF IInv, ReadPwm, CanRead, Issue
  <1>4. CASE Controller
    BY <1>4, QuietStep DEF IInv, Controller, Answer, Arrive, mainVars, histVars
  <1> QED
    BY <1>1, <1>2, <1>3, <1>4

\* nor does a new command;
LEMMA CommandSteps ==
    ASSUME IInv, SetPwm \/ Sample
    PROVE  IInv'
  BY QuietStep DEF SetPwm, Sample, Issue

\* What TakeReading appends.
Taken == [source |-> Source, state |-> Measured, backlog |-> backlog]

\* What matches comes from somewhere.
LEMMA SourceOfMatch == Matching # {} => Source # "none"
  BY DEF Source

\* the first reading establishes what the second one needs,
LEMMA FirstReading ==
    ASSUME IInv, ReadPilot
    PROVE  IInv'
  <1>1. /\ step = "first" /\ taken' = Append(taken, Taken)
        /\ Vpilot' = NewVpilot /\ last_pilot_state' = last_pilot_state
        /\ heard' = (heard \/ Matching # {})
    BY DEF ReadPilot, CanRead, TakeReading, Taken
  <1>2. taken' = <<Taken>>
    BY <1>1, AppendFirst DEF IInv
  <1>3. Taken.state = Measured /\ Taken.source = Source
    BY DEF Taken
  <1>4. Measured = get_pilot_state(Vpilot', last_pilot_state')
    BY <1>1 DEF Measured
  <1>5. heard' \in BOOLEAN
    BY <1>1 DEF IInv
  <1>6. CASE Measured = last_pilot_state
    <2>1. step' = "idle"
      BY <1>6 DEF ReadPilot, Finish
    <2> QED
      BY <1>1, <1>4, <1>5, <1>6, <2>1 DEF IInv, Settled
  <1>7. CASE Measured # last_pilot_state
    <2>1. step' = "again"
      BY <1>7 DEF ReadPilot, Issue
    <2>2. heard' => Matching # {}
      \* Without a match the old voltages would have given the last state.
      <3>1. CASE heard /\ Matching = {}
        <4>1. NewVpilot = Vpilot
          BY <3>1 DEF NewVpilot
        <4>2. Settled
          BY <3>1, <1>1 DEF IInv
        <4> QED
          BY <4>1, <4>2, <1>7 DEF Settled, Measured
      <3> QED
        BY <3>1, <1>1 DEF IInv
    <2>3. heard' => Taken.source # "none"
      BY <2>2, <1>3, SourceOfMatch
    <2>4. \E r : Suspected(r)'
      BY <1>2, <1>3, <1>4, <2>3 DEF Suspected
    <2> QED
      BY <1>5, <2>1, <2>4 DEF IInv
  <1> QED
    BY <1>6, <1>7

\* and the second one gives the state that is remembered.
LEMMA SecondReading ==
    ASSUME IInv, ReadAgain
    PROVE  /\ IInv'
           /\ heard' => \E k \in 1 .. Len(taken') :
                            /\ taken'[k].source # "none"
                            /\ taken'[k].state = last_pilot_state'
  <1>1. /\ step = "again" /\ step' = "idle"
        /\ taken' = Append(taken, Taken)
        /\ Vpilot' = NewVpilot /\ last_pilot_state' = Measured
        /\ heard' = (heard \/ Matching # {})
    BY DEF ReadAgain, ReadOnceMore, CanRead, TakeReading, Taken, Finish
  <1>2. PICK r : Suspected(r)
    BY <1>1 DEF IInv
  <1>3. Len(taken') = 2 /\ taken'[1] = r /\ taken'[2] = Taken
    BY <1>1, <1>2, AppendSecond DEF Suspected
  <1>4. Taken.state = Measured /\ Taken.source = Source
    BY DEF Taken
  <1>5. IInv'
    <2>1. get_pilot_state(Vpilot', last_pilot_state') = last_pilot_state'
      BY <1>1, Idempotent DEF Measured
    <2> QED
      BY <1>1, <2>1 DEF IInv, Settled
  <1>6. CASE Matching # {}
    <2>1. 2 \in 1 .. Len(taken')
      BY <1>3
    <2> QED
      BY <1>1, <1>3, <1>4, <1>5, <1>6, <2>1, SourceOfMatch
  <1>7. CASE Matching = {}
    <2>1. NewVpilot = Vpilot
      BY <1>7 DEF NewVpilot
    <2>2. r.state = last_pilot_state'
      BY <1>1, <1>2, <2>1 DEF Suspected, Measured
    <2>3. heard' => r.source # "none"
      BY <1>1, <1>2, <1>7 DEF Suspected, IInv
    <2>4. 1 \in 1 .. Len(taken')
      BY <1>3
    <2> QED
      BY <1>3, <1>5, <2>2, <2>3, <2>4
  <1> QED
    BY <1>6, <1>7

\* Every step preserves it.
LEMMA NextSettled == IInv /\ [Next]_vars => IInv'
  <1> SUFFICES ASSUME IInv, [Next]_vars PROVE IInv'
    OBVIOUS
  <1>1. CASE UNCHANGED vars
    BY <1>1 DEF vars, mainVars, histVars, IInv, Settled, Suspected
  <1>2. CASE DelayEnds \/ ReadSet \/ ReadPwm \/ Controller
    BY <1>2, LineSteps
  <1>3. CASE SetPwm \/ Sample
    BY <1>3, CommandSteps
  <1>4. CASE ReadPilot
    BY <1>4, FirstReading
  <1>5. CASE ReadAgain
    BY <1>5, SecondReading
  <1> QED
    BY <1>1, <1>2, <1>3, <1>4, <1>5 DEF Next, Main

\* The state that main remembers changes only to one that an answer of the
\* controller has given in that very sample, unless none has ever come
\* (J1772.cpp:498).
THEOREM ChangeMeasured == Spec => ChangeIsMeasured
  <1>1. IInv /\ [Next]_vars =>
          [last_pilot_state' # last_pilot_state =>
             \/ ~heard'
             \/ \E k \in 1 .. Len(taken') :
                   taken'[k].source # "none" /\ taken'[k].state = last_pilot_state'
          ]_vars
    <2> SUFFICES ASSUME IInv, Next, last_pilot_state' # last_pilot_state, heard'
                 PROVE  \E k \in 1 .. Len(taken') :
                            /\ taken'[k].source # "none"
                            /\ taken'[k].state = last_pilot_state'
      BY DEF vars, mainVars
    <2>1. ReadAgain
      BY DEF Next, Main, Controller, DelayEnds, DelayEndsWith, ReadSet, ReadPwm,
             ReadPilot, SetPwm, Sample, Answer, Arrive, mainVars
    <2> QED
      BY <2>1, SecondReading
  <1> QED
    BY <1>1, InitSettled, NextSettled, PTL DEF Spec, ChangeIsMeasured

-----------------------------------------------------------------------------
\* Pilot messages carry a measurement.
Genuine(s) ==
    \A i \in 1 .. Len(s) : s[i].kind = "pilot" => s[i].hex \in Words

\* The parts under way are the rest of one answer, the last one whole; what
\* precedes them has been received, and whatever is left in the buffer is
\* the beginning of an answer.
Shape ==
    /\ \A i \in 1 .. Len(coming) : coming[i].whole <=> i = Len(coming)
    /\ \A i \in 1 .. Len(coming) : coming[i].kind = coming[1].kind
    /\ Wholes(incomingBuffer) = {}
    /\ Len(Unfinished(Stream)) =
          IF coming = <<>> THEN 0 ELSE NumParts - Len(coming)
    /\ Genuine(incomingBuffer) /\ Genuine(input) /\ Genuine(coming)

\* How many answers may be outstanding, at each point of a command.
Lag ==
    /\ step = "idle" => Outstanding <= lates
    /\ step # "idle" /\ phase = "delay" => Outstanding <= lates + 1
    /\ step # "idle" /\ phase = "read" =>
          \/ Outstanding <= lates
          \/ lates = 0 /\ InTime /\ Outstanding <= MaxLate + 1

\* The answer to the command just given is outstanding, and the last one.
Own ==
    step # "idle" =>
        \/ /\ questions # <<>>
           /\ questions[Len(questions)] = Command(step)
        \/ /\ questions = <<>> /\ coming # <<>>
           /\ coming[1].kind = Command(step)
        \/ /\ InTime
           /\ \E i \in Wholes(input) :
                 /\ input[i].kind = Command(step)
                 /\ \A j \in Wholes(input) : j <= i

\* The pilot messages received.
Pilots == {i \in Wholes(input) : input[i].kind = "pilot"}

\* No other outstanding answer is one to `pilot'.
Alone ==
    /\ \A i \in 1 .. Len(questions) - 1 : questions[i] # "pilot"
    /\ questions # <<>> /\ coming # <<>> => coming[1].kind # "pilot"
    /\ ~InTime => Pilots = {}
    /\ \A i, j \in Pilots : i = j

\* At most this answer was outstanding when the voltage was asked for, and the
\* first reading of this sample was not empty.
Prompt ==
    /\ backlog < 2
    /\ \/ step = "first"
       \/ step = "again" /\ taken[1].source # "none"

\* A command to set the duty cycle begins with an empty sample.
OneTaken == step = "set" => taken = <<>>

-----------------------------------------------------------------------------
(* The sequences of parts.                                                 *)

\* A set of natural numbers that is not empty has a least element.
LEMMA Least ==
    ASSUME NEW T \in SUBSET Nat, T # {}
    PROVE  \E n \in T : \A m \in T : n <= m
  <1> DEFINE R == OpToRel(<, Nat)
  <1>1. IsWellFoundedOn(R, Nat)
    BY NatLessThanWellFounded
  <1>2. \A i, j \in Nat : i < j => <<i, j>> \in R
    BY DEF OpToRel
  <1> HIDE DEF R
  <1>3. PICK n \in T : \A m \in T : <<m, n>> \notin R
    BY <1>1, WFMin
  <1>4. ASSUME NEW m \in T PROVE n <= m
    <2>1. n \in Nat /\ m \in Nat
      OBVIOUS
    <2>2. ~(m < n)
      BY <1>2, <1>3, <2>1
    <2> QED
      BY <2>1, <2>2
  <1> QED
    BY <1>4

\* i is where the last whole answer of s ends.
LastWhole(s, i) ==
    /\ i = 0 \/ s[i].whole
    /\ \A j \in i + 1 .. Len(s) : ~s[j].whole

\* There is such a place, or none of the answers is whole.
LEMMA LastWholeExists ==
    ASSUME NEW s \in Seq(Parts)
    PROVE  \E i \in 0 .. Len(s) : LastWhole(s, i)
  <1> DEFINE T == {n \in 0 .. Len(s) : \A j \in n + 1 .. Len(s) : ~s[j].whole}
  <1>1. Len(s) \in Nat /\ Len(s) \in T /\ T \in SUBSET Nat
    OBVIOUS
  <1>2. PICK n \in T : \A m \in T : n <= m
    BY <1>1, Least
  <1>3. n = 0 \/ s[n].whole
    <2> SUFFICES ASSUME n # 0, ~s[n].whole PROVE FALSE
      OBVIOUS
    <2>1. n - 1 \in 0 .. Len(s) /\ n \in 1 .. Len(s)
      BY <1>1, <1>2
    <2>2. \A j \in (n - 1) + 1 .. Len(s) : j = n \/ j \in n + 1 .. Len(s)
      BY <2>1
    <2>3. n - 1 \in T
      BY <2>1, <2>2
    <2>4. n <= n - 1 /\ n \in Nat
      BY <1>1, <1>2, <2>3
    <2> QED
      BY <2>4
  <1> QED
    BY <1>2, <1>3 DEF LastWhole

\* What Unfinished chooses is determined.
LEMMA UnfinishedIs ==
    ASSUME NEW s \in Seq(Parts), NEW i \in 0 .. Len(s), LastWhole(s, i)
    PROVE  /\ Unfinished(s) = SubSeq(s, i + 1, Len(s))
           /\ Len(Unfinished(s)) = Len(s) - i
  <1> DEFINE C(k) == /\ k = 0 \/ s[k].whole
                     /\ \A j \in k + 1 .. Len(s) : ~s[j].whole
             last == CHOOSE k \in 0 .. Len(s) : C(k)
  <1>1. C(i)
    BY DEF LastWhole
  <1>2. last \in 0 .. Len(s) /\ C(last)
    BY <1>1
  <1>3. last = i
    <2>1. Len(s) \in Nat
      OBVIOUS
    <2>2. ASSUME last < i PROVE FALSE
      <3>1. i \in last + 1 .. Len(s) /\ i # 0
        BY <1>2, <2>1, <2>2
      <3> QED
        BY <1>1, <1>2, <3>1
    <2>3. ASSUME i < last PROVE FALSE
      <3>1. last \in i + 1 .. Len(s) /\ last # 0
        BY <1>2, <2>1, <2>3
      <3> QED
        BY <1>1, <1>2, <3>1
    <2> QED
      BY <1>2, <2>1, <2>2, <2>3
  <1>4. Unfinished(s) = SubSeq(s, last + 1, Len(s))
    BY DEF Unfinished
  <1> HIDE DEF last
  <1>5. Unfinished(s) = SubSeq(s, i + 1, Len(s))
    BY <1>3, <1>4
  <1>6. Len(SubSeq(s, i + 1, Len(s))) = Len(s) - i
    OBVIOUS
  <1> QED
    BY <1>5, <1>6

\* The unfinished parts are parts, and none ends an answer.
LEMMA UnfinishedParts ==
    ASSUME NEW s \in Seq(Parts)
    PROVE  /\ Unfinished(s) \in Seq(Parts)
           /\ Wholes(Unfinished(s)) = {}
           /\ \A k \in 1 .. Len(Unfinished(s)) :
                 \E l \in 1 .. Len(s) : Unfinished(s)[k] = s[l]
  <1>1. PICK i \in 0 .. Len(s) : LastWhole(s, i)
    BY LastWholeExists
  <1> DEFINE u == SubSeq(s, i + 1, Len(s))
  <1>2. Unfinished(s) = u
    BY <1>1, UnfinishedIs
  <1>3. /\ u \in Seq(Parts) /\ Len(u) = Len(s) - i
        /\ \A k \in 1 .. Len(u) :
              k + i \in i + 1 .. Len(s) /\ k + i \in 1 .. Len(s)
                 /\ u[k] = s[k + i]
    OBVIOUS
  <1> HIDE DEF u
  <1>4. Wholes(u) = {}
    BY <1>1, <1>3 DEF Wholes, LastWhole
  <1> QED
    BY <1>2, <1>3, <1>4

\* A sequence no part of which ends an answer is unfinished.
LEMMA NothingFinished ==
    ASSUME NEW s \in Seq(Parts), Wholes(s) = {}
    PROVE  Len(Unfinished(s)) = Len(s)
  <1>1. 0 \in 0 .. Len(s) /\ LastWhole(s, 0)
    BY DEF LastWhole, Wholes
  <1> QED
    BY <1>1, UnfinishedIs

\* One more part either ends the answer or is one more unfinished part.
LEMMA UnfinishedAppend ==
    ASSUME NEW s \in Seq(Parts), NEW p \in Parts
    PROVE  Len(Unfinished(Append(s, p)))
              = IF p.whole THEN 0 ELSE Len(Unfinished(s)) + 1
  <1> DEFINE t == Append(s, p)
  <1>1. /\ t \in Seq(Parts) /\ Len(s) \in Nat /\ Len(t) = Len(s) + 1
        /\ t[Len(t)] = p
        /\ \A k \in 1 .. Len(s) : t[k] = s[k]
    OBVIOUS
  <1> HIDE DEF t
  <1>2. CASE p.whole
    <2>1. Len(t) \in 0 .. Len(t) /\ LastWhole(t, Len(t))
      BY <1>1, <1>2 DEF LastWhole
    <2>2. Len(Unfinished(t)) = Len(t) - Len(t)
      BY <1>1, <2>1, UnfinishedIs
    <2> QED
      BY <1>1, <1>2, <2>2 DEF t
  <1>3. CASE ~p.whole
    <2>1. PICK i \in 0 .. Len(s) : LastWhole(s, i)
      BY LastWholeExists
    <2>2. i \in 0 .. Len(t)
      BY <1>1
    <2>3. LastWhole(t, i)
      <3>1. i = 0 \/ t[i].whole
        BY <1>1, <2>1 DEF LastWhole
      <3>2. ASSUME NEW j \in i + 1 .. Len(t) PROVE ~t[j].whole
        <4>1. CASE j = Len(t)
          BY <1>1, <1>3, <4>1
        <4>2. CASE j \in i + 1 .. Len(s)
          BY <1>1, <2>1, <4>2 DEF LastWhole
        <4> QED
          BY <1>1, <4>1, <4>2
      <3> QED
        BY <3>1, <3>2 DEF LastWhole
    <2>4. /\ Len(Unfinished(t)) = Len(t) - i
          /\ Len(Unfinished(s)) = Len(s) - i
      BY <1>1, <2>1, <2>2, <2>3, UnfinishedIs
    <2> QED
      BY <1>1, <1>3, <2>4 DEF t
  <1> QED
    BY <1>2, <1>3 DEF Parts

\* The whole answers can be counted; one more part is one more if it ends
\* an answer.
LEMMA CountWholes ==
    ASSUME NEW s \in Seq(Parts)
    PROVE  /\ IsFiniteSet(Wholes(s))
           /\ Cardinality(Wholes(s)) \in Nat
           /\ Cardinality(Wholes(s)) = 0 <=> Wholes(s) = {}
  <1>1. IsFiniteSet(1 .. Len(s)) /\ Wholes(s) \in SUBSET (1 .. Len(s))
    BY FS_Interval DEF Wholes
  <1>2. IsFiniteSet(Wholes(s))
    BY <1>1, FS_Subset
  <1> QED
    BY <1>2, FS_CardinalityType, FS_EmptySet

\* A part that is appended adds its place, if it ends an answer.
LEMMA WholesAppend ==
    ASSUME NEW s \in Seq(Parts), NEW p \in Parts
    PROVE  /\ Wholes(Append(s, p)) = IF p.whole
                                     THEN Wholes(s) \cup {Len(s) + 1}
                                     ELSE Wholes(s)
           /\ Cardinality(Wholes(Append(s, p)))
                 = Cardinality(Wholes(s)) + (IF p.whole THEN 1 ELSE 0)
  <1> DEFINE t == Append(s, p)
  <1>1. /\ Len(s) \in Nat /\ Len(t) = Len(s) + 1
        /\ t[Len(s) + 1] = p
        /\ \A k \in 1 .. Len(s) : t[k] = s[k]
        /\ \A k \in 1 .. Len(t) : k = Len(s) + 1 \/ k \in 1 .. Len(s)
        /\ \A k \in 1 .. Len(s) : k \in 1 .. Len(t)
        /\ Len(s) + 1 \in 1 .. Len(t)
        /\ Len(s) + 1 \notin 1 .. Len(s)
    OBVIOUS
  <1> HIDE DEF t
  <1>2. CASE p.whole
    <2>1. Wholes(t) = Wholes(s) \cup {Len(s) + 1}
      BY <1>1, <1>2 DEF Wholes
    <2>2. Len(s) + 1 \notin Wholes(s)
      BY <1>1 DEF Wholes
    <2>3. Cardinality(Wholes(t)) = Cardinality(Wholes(s)) + 1
      BY <2>1, <2>2, CountWholes, FS_AddElement
    <2> QED
      BY <1>2, <2>1, <2>3 DEF t
  <1>3. CASE ~p.whole
    <2>1. Wholes(t) = Wholes(s)
      BY <1>1, <1>3 DEF Wholes
    <2>2. Cardinality(Wholes(s)) \in Nat
      BY CountWholes
    <2> QED
      BY <1>3, <2>1, <2>2 DEF t
  <1> QED
    BY <1>2, <1>3

\* The elements of a sequence with one more,
LEMMA AppendElements ==
    ASSUME NEW s \in Seq(Parts), NEW p \in Parts
    PROVE  /\ Len(Append(s, p)) = Len(s) + 1
           /\ Append(s, p)[Len(s) + 1] = p
           /\ \A i \in 1 .. Len(s) : Append(s, p)[i] = s[i]
           /\ \A i \in 1 .. Len(Append(s, p)) :
                 \/ Append(s, p)[i] = p
                 \/ i \in 1 .. Len(s) /\ Append(s, p)[i] = s[i]
  OBVIOUS

\* and how an element that comes behind s and t goes with t.
LEMMA ConcatAppend ==
    ASSUME NEW s \in Seq(Parts), NEW t \in Seq(Parts), NEW p \in Parts
    PROVE  s \o Append(t, p) = Append(s \o t, p)
  <1>1. s \o (t \o <<p>>) = (s \o t) \o <<p>>
    <2>1. \A x, y, z \in Seq(Parts) : (x \o y) \o z = x \o (y \o z)
      BY ConcatAssociative
    <2>2. <<p>> \in Seq(Parts)
      OBVIOUS
    <2> QED
      BY <2>1, <2>2, Zenon
  <1>2. Append(t, p) = t \o <<p>>
    OBVIOUS
  <1>3. Append(s \o t, p) = (s \o t) \o <<p>>
    OBVIOUS
  <1> QED
    BY <1>1, <1>2, <1>3

-----------------------------------------------------------------------------
(* The line: what is outstanding, and how it moves.                        *)

\* The type of the line without its bounds.
Typed ==
    /\ incomingBuffer \in Seq(Parts)
    /\ input \in Seq(Parts)
    /\ coming \in Seq(Parts)
    /\ questions \in Seq(Kinds)

\* TypeOK says as much.
LEMMA LineTyped == TypeOK => Typed
  BY DEF TypeOK, Typed

\* Of the parts under way one ends an answer.
LEMMA ComingWholes ==
    ASSUME Typed, Shape
    PROVE  /\ coming = <<>> => Wholes(coming) = {}
           /\ coming # <<>> => Wholes(coming) = {Len(coming)}
           /\ Cardinality(Wholes(coming)) = IF coming = <<>> THEN 0 ELSE 1
  <1>1. Len(coming) \in Nat /\ (coming # <<>> => Len(coming) > 0)
    BY DEF Typed
  <1>2. coming = <<>> => Wholes(coming) = {}
    BY DEF Wholes
  <1>3. coming # <<>> => Wholes(coming) = {Len(coming)}
    BY <1>1 DEF Wholes, Shape
  <1> QED
    BY <1>2, <1>3, FS_EmptySet, FS_Singleton

\* What is outstanding, in numbers.
LEMMA OutstandingIs ==
    ASSUME Typed, Shape
    PROVE  /\ Outstanding = Len(questions) + (IF coming = <<>> THEN 0 ELSE 1)
                               + Cardinality(Wholes(input))
           /\ Len(questions) \in Nat
           /\ Cardinality(Wholes(input)) \in Nat
           /\ Outstanding \in Nat
  <1>1. Len(questions) \in Nat /\ Cardinality(Wholes(input)) \in Nat
    BY CountWholes DEF Typed
  <1> QED
    BY <1>1, ComingWholes DEF Outstanding

\* Nothing has been received: what is outstanding then.
LEMMA EmptyInput ==
    Wholes(<<>>) = {} /\ Cardinality(Wholes(<<>>)) = 0
  <1>1. Wholes(<<>>) = {}
    BY DEF Wholes
  <1> QED
    BY <1>1, FS_EmptySet

\* What a read looks at is a sequence of parts.
LEMMA StreamTyped == Typed => Stream \in Seq(Parts)
  BY DEF Typed, Stream

\* The controller gives an answer.
LEMMA AnswerShape ==
    ASSUME Typed, Shape, Answer
    PROVE  /\ Typed' /\ Shape'
           /\ Len(coming') = NumParts
           /\ coming' # <<>>
           /\ coming'[1].kind = Head(questions)
           /\ Outstanding' = Outstanding
  <1>1. PICK hex \in IF Head(questions) = "pilot" THEN Words ELSE {Unused} :
           coming' = [i \in 1 .. NumParts |->
                        [kind |-> Head(questions), hex |-> hex,
                         whole |-> i = NumParts]]
    BY DEF Answer
  <1>2. /\ questions # <<>> /\ coming = <<>>
        /\ questions' = Tail(questions)
        /\ incomingBuffer' = incomingBuffer /\ input' = input
    BY DEF Answer, mainVars
  <1>3. Head(questions) \in Kinds /\ hex \in Words \cup {Unused}
    BY <1>1, <1>2 DEF Typed
  <1>4. /\ coming' \in Seq(Parts) /\ Len(coming') = NumParts
        /\ coming' # <<>>
    <2>1. NumParts \in Nat /\ NumParts > 0
      BY PilotAssumption
    <2>2. \A i \in 1 .. NumParts :
             [kind |-> Head(questions), hex |-> hex, whole |-> i = NumParts]
                \in Parts
      BY <1>3 DEF Parts
    <2>3. coming' \in Seq(Parts)
      BY <1>1, <2>1, <2>2
    <2>4. Len(coming') = NumParts
      BY <1>1, <2>1
    <2> QED
      BY <2>1, <2>3, <2>4
  <1>5. \A i \in 1 .. NumParts : /\ coming'[i].kind = Head(questions)
                                 /\ coming'[i].hex = hex
                                 /\ coming'[i].whole <=> i = NumParts
    BY <1>1
  <1>6. 1 \in 1 .. NumParts
    BY PilotAssumption
  <1>7. Typed'
    BY <1>2, <1>4 DEF Typed
  <1>8. Shape'
    <2>1. /\ \A i \in 1 .. Len(coming') : coming'[i].whole <=> i = Len(coming')
          /\ \A i \in 1 .. Len(coming') : coming'[i].kind = coming'[1].kind
      BY <1>4, <1>5, <1>6
    <2>2. Len(Unfinished(Stream))' = NumParts - Len(coming')
      <3>1. Stream' = Stream /\ Len(Unfinished(Stream)) = 0
        BY <1>2 DEF Stream, Shape
      <3> QED
        BY <1>4, <3>1, PilotAssumption
    <2>3. Genuine(coming)'
      BY <1>1, <1>4, <1>5 DEF Genuine
    <2>4. (Wholes(incomingBuffer) = {} /\ Genuine(incomingBuffer)
             /\ Genuine(input))'
      BY <1>2 DEF Shape, Genuine, Wholes
    <2> QED
      BY <1>4, <2>1, <2>2, <2>3, <2>4 DEF Shape
  <1>9. Outstanding' = Outstanding
    <2>1. Len(questions') = Len(questions) - 1
      BY <1>2 DEF Typed
    <2>2. /\ Cardinality(Wholes(coming)) = 0
          /\ Cardinality(Wholes(coming')) = 1
      <3>1. Wholes(coming') = {NumParts}
        BY <1>4, <1>5, PilotAssumption DEF Wholes
      <3> QED
        BY <1>2, <3>1, EmptyInput, FS_Singleton
    <2>3. Len(questions) \in Nat /\ Cardinality(Wholes(input)) \in Nat
      BY OutstandingIs
    <2> QED
      BY <1>2, <2>1, <2>2, <2>3 DEF Outstanding
  <1> QED
    BY <1>4, <1>5, <1>6, <1>7, <1>8, <1>9

\* A part arrives.
LEMMA ArriveShape ==
    ASSUME Typed, Shape, Arrive
    PROVE  /\ Typed' /\ Shape'
           /\ Head(coming) = coming[1] /\ coming[1] \in Parts
           /\ coming[1].whole <=> coming' = <<>>
           /\ coming' # <<>> => coming'[1].kind = coming[1].kind
           /\ Len(coming') = Len(coming) - 1
           /\ Outstanding' = Outstanding
  <1>1. /\ coming # <<>> /\ input' = Append(input, Head(coming))
        /\ coming' = Tail(coming)
        /\ incomingBuffer' = incomingBuffer /\ questions' = questions
    BY DEF Arrive, mainVars
  <1>2. /\ Len(coming) \in Nat /\ Len(coming) > 0 /\ 1 \in 1 .. Len(coming)
        /\ Head(coming) = coming[1] /\ coming[1] \in Parts
        /\ coming' \in Seq(Parts) /\ Len(coming') = Len(coming) - 1
        /\ \A i \in 1 .. Len(coming') :
              i + 1 \in 1 .. Len(coming) /\ coming'[i] = coming[i + 1]
    BY <1>1 DEF Typed
  <1>3. coming[1].whole <=> Len(coming) = 1
    BY <1>2 DEF Shape
  <1>4. coming' = <<>> <=> Len(coming) = 1
    BY <1>2
  <1>5. Typed'
    BY <1>1, <1>2 DEF Typed
  <1>6. coming' # <<>> => coming'[1].kind = coming[1].kind
    <2> SUFFICES ASSUME coming' # <<>> PROVE coming'[1].kind = coming[1].kind
      OBVIOUS
    <2>1. 1 \in 1 .. Len(coming')
      BY <1>2
    <2> QED
      BY <1>2, <2>1 DEF Shape
  <1>7. Shape'
    <2>1. \A i \in 1 .. Len(coming') : coming'[i].whole <=> i = Len(coming')
      BY <1>2 DEF Shape
    <2>2. \A i \in 1 .. Len(coming') : coming'[i].kind = coming'[1].kind
      BY <1>2, <1>6 DEF Shape
    <2>3. Len(Unfinished(Stream))' = IF coming' = <<>> THEN 0
                                     ELSE NumParts - Len(coming')
      <3>1. Stream' = Append(Stream, coming[1])
        <4>1. Stream' = incomingBuffer \o Append(input, coming[1])
          BY <1>1, <1>2 DEF Stream
        <4>2. incomingBuffer \in Seq(Parts) /\ input \in Seq(Parts)
          BY DEF Typed
        <4>3. incomingBuffer \o Append(input, coming[1])
                 = Append(incomingBuffer \o input, coming[1])
          BY <1>2, <4>2, ConcatAppend
        <4> QED
          BY <4>1, <4>3 DEF Stream
      <3>2. Len(Unfinished(Stream'))
               = IF coming[1].whole THEN 0 ELSE Len(Unfinished(Stream)) + 1
        BY <1>2, <3>1, StreamTyped, UnfinishedAppend
      <3>3. Len(Unfinished(Stream)) = NumParts - Len(coming)
        BY <1>1 DEF Shape
      <3> QED
        BY <1>2, <1>3, <1>4, <3>2, <3>3, PilotAssumption
    <2>4. Genuine(coming)'
      BY <1>2 DEF Shape, Genuine
    <2>5. Genuine(input)'
      <3>1. \A i \in 1 .. Len(input') :
               \/ input'[i] = coming[1]
               \/ i \in 1 .. Len(input) /\ input'[i] = input[i]
        <4>1. input \in Seq(Parts) /\ input' = Append(input, coming[1])
          BY <1>1, <1>2 DEF Typed
        <4> QED
          BY <1>2, <4>1, AppendElements
      <3>2. coming[1].kind = "pilot" => coming[1].hex \in Words
        BY <1>2 DEF Shape, Genuine
      <3>3. ASSUME NEW i \in 1 .. Len(input'), input'[i].kind = "pilot"
            PROVE  input'[i].hex \in Words
        <4>1. CASE input'[i] = coming[1]
          BY <3>2, <3>3, <4>1
        <4>2. CASE i \in 1 .. Len(input) /\ input'[i] = input[i]
          BY <3>3, <4>2 DEF Shape, Genuine
        <4> QED
          BY <3>1, <4>1, <4>2
      <3> QED
        BY <3>3 DEF Genuine
    <2>6. (Wholes(incomingBuffer) = {} /\ Genuine(incomingBuffer))'
      BY <1>1 DEF Shape, Genuine, Wholes
    <2> QED
      BY <2>1, <2>2, <2>3, <2>4, <2>5, <2>6 DEF Shape
  <1>8. Outstanding' = Outstanding
    <2>1. Cardinality(Wholes(input'))
             = Cardinality(Wholes(input)) + (IF coming[1].whole THEN 1 ELSE 0)
      BY <1>1, <1>2, WholesAppend DEF Typed
    <2>2. /\ Outstanding = Len(questions) + 1 + Cardinality(Wholes(input))
          /\ Len(questions) \in Nat /\ Cardinality(Wholes(input)) \in Nat
      BY <1>1, OutstandingIs
    <2>3. Outstanding' = Len(questions) + (IF coming' = <<>> THEN 0 ELSE 1)
                            + Cardinality(Wholes(input'))
      <3>1. Cardinality(Wholes(coming')) = IF coming' = <<>> THEN 0 ELSE 1
        <4>1. coming' # <<>> => Wholes(coming') = {Len(coming')}
          BY <1>2, <1>7 DEF Wholes, Shape
        <4> QED
          BY <4>1, EmptyInput, FS_Singleton
      <3> QED
        BY <1>1, <3>1 DEF Outstanding
    <2> QED
      BY <1>3, <1>4, <2>1, <2>2, <2>3
  <1> QED
    BY <1>2, <1>3, <1>4, <1>5, <1>6, <1>7, <1>8

-----------------------------------------------------------------------------
(* A read.                                                                 *)

\* The elements of two sequences in a row.
LEMMA ConcatElements ==
    ASSUME NEW s \in Seq(Parts), NEW t \in Seq(Parts)
    PROVE  /\ Len(s \o t) = Len(s) + Len(t)
           /\ \A i \in 1 .. Len(s) : (s \o t)[i] = s[i]
           /\ \A i \in 1 .. Len(t) : (s \o t)[Len(s) + i] = t[i]
           /\ \A i \in 1 .. Len(s \o t) :
                 \/ i \in 1 .. Len(s) /\ (s \o t)[i] = s[i]
                 \/ i - Len(s) \in 1 .. Len(t) /\ (s \o t)[i] = t[i - Len(s)]
  OBVIOUS

\* The line is read: all of it but an unfinished answer.
LEMMA ReceiveShape ==
    ASSUME Typed, Shape, Receive, questions' \in Seq(Kinds)
    PROVE  /\ Typed' /\ Shape'
           /\ input' = <<>> /\ coming' = coming
           /\ Len(incomingBuffer') < NumParts
           /\ Outstanding' = Len(questions') + (IF coming = <<>> THEN 0 ELSE 1)
  <1>1. /\ incomingBuffer' = Unfinished(Stream)
        /\ input' = <<>> /\ coming' = coming
    BY DEF Receive, Receives, Stream
  <1>2. Stream \in Seq(Parts)
    BY StreamTyped
  <1>3. /\ incomingBuffer' \in Seq(Parts) /\ Wholes(incomingBuffer') = {}
        /\ \A k \in 1 .. Len(incomingBuffer') :
              \E l \in 1 .. Len(Stream) : incomingBuffer'[k] = Stream[l]
    BY <1>1, <1>2, UnfinishedParts
  <1>4. Typed'
    BY <1>1, <1>3, EmptySeq DEF Typed
  <1>5. Len(incomingBuffer') = IF coming = <<>> THEN 0
                               ELSE NumParts - Len(coming)
    BY <1>1 DEF Shape
  <1>6. Len(incomingBuffer') < NumParts
    <2>1. Len(coming) \in Nat /\ (coming # <<>> => Len(coming) > 0)
      BY DEF Typed
    <2> QED
      BY <1>5, <2>1, PilotAssumption
  <1>7. Genuine(Stream)
    <2> SUFFICES ASSUME NEW i \in 1 .. Len(Stream), Stream[i].kind = "pilot"
                 PROVE  Stream[i].hex \in Words
      BY DEF Genuine
    <2>1. incomingBuffer \in Seq(Parts) /\ input \in Seq(Parts)
      BY DEF Typed
    <2>2. \/ i \in 1 .. Len(incomingBuffer) /\ Stream[i] = incomingBuffer[i]
          \/ /\ i - Len(incomingBuffer) \in 1 .. Len(input)
             /\ Stream[i] = input[i - Len(incomingBuffer)]
      BY <2>1, ConcatElements DEF Stream
    <2> QED
      BY <2>2 DEF Shape, Genuine
  <1>8. Genuine(incomingBuffer')
    BY <1>3, <1>7 DEF Genuine
  <1>9. Stream' = incomingBuffer'
    BY <1>1, <1>3 DEF Stream
  <1>10. Shape'
    <2>1. Len(Unfinished(Stream')) = Len(incomingBuffer')
      BY <1>3, <1>9, NothingFinished
    <2>2. Genuine(input')
      BY <1>1 DEF Genuine
    <2>3. Genuine(coming') /\ Genuine(incomingBuffer')
      BY <1>1, <1>8 DEF Shape
    <2>4. /\ \A i \in 1 .. Len(coming') :
                coming'[i].whole <=> i = Len(coming')
          /\ \A i \in 1 .. Len(coming') : coming'[i].kind = coming'[1].kind
      BY <1>1 DEF Shape
    <2> QED
      BY <1>1, <1>3, <1>5, <2>1, <2>2, <2>3, <2>4 DEF Shape, Genuine
  <1>11. Outstanding' = Len(questions') + (IF coming = <<>> THEN 0 ELSE 1)
    <2>1. Cardinality(Wholes(input')) = 0
      BY <1>1, EmptyInput
    <2>2. Cardinality(Wholes(coming')) = IF coming = <<>> THEN 0 ELSE 1
      BY <1>1, ComingWholes
    <2>3. Len(questions') \in Nat
      OBVIOUS
    <2> QED
      BY <2>1, <2>2, <2>3 DEF Outstanding
  <1> QED
    BY <1>1, <1>4, <1>6, <1>10, <1>11

\* What matches has all been received since the last read.
LEMMA MatchInput ==
    ASSUME Typed, Shape
    PROVE  /\ Matching \in SUBSET Nat
           /\ \A i \in Matching : i - Len(incomingBuffer) \in Pilots
           /\ \A i \in Matching : Stream[i].hex \in Words
  <1>1. /\ incomingBuffer \in Seq(Parts) /\ input \in Seq(Parts)
        /\ Stream \in Seq(Parts) /\ Len(Stream) \in Nat
    BY StreamTyped DEF Typed
  <1>2. ASSUME NEW i \in Matching
        PROVE  /\ i \in Nat /\ i - Len(incomingBuffer) \in Pilots
               /\ Stream[i].hex \in Words
    <2>1. /\ i \in 1 .. Len(Stream) /\ Stream[i].whole
          /\ Stream[i].kind = "pilot"
      BY DEF Matching, Messages, Wholes
    <2>2. \/ i \in 1 .. Len(incomingBuffer) /\ Stream[i] = incomingBuffer[i]
          \/ /\ i - Len(incomingBuffer) \in 1 .. Len(input)
             /\ Stream[i] = input[i - Len(incomingBuffer)]
      BY <1>1, <2>1, ConcatElements DEF Stream
    <2>3. ~(i \in 1 .. Len(incomingBuffer) /\ Stream[i] = incomingBuffer[i])
      BY <2>1 DEF Shape, Wholes
    <2>4. i - Len(incomingBuffer) \in Pilots
      BY <2>1, <2>2, <2>3 DEF Pilots, Wholes
    <2>5. Stream[i].hex \in Words
      BY <2>1, <2>2, <2>3 DEF Shape, Genuine
    <2> QED
      BY <1>1, <2>1, <2>4, <2>5
  <1> QED
    BY <1>2

\* The answers of a prompt controller are taken for what they are.
LEMMA AloneIsOwn ==
    ASSUME Typed, Shape, Alone
    PROVE  Source # "stale"
  <1> SUFFICES ASSUME Matching # {} PROVE InTime /\ Cardinality(Matching) = 1
    BY DEF Source
  <1>1. PICK m \in Matching : TRUE
    OBVIOUS
  <1>2. \A i \in Matching : i = m
    <2>1. Len(incomingBuffer) \in Nat
      BY DEF Typed
    <2> QED
      BY <2>1, MatchInput DEF Alone
  <1>3. Matching = {m}
    BY <1>1, <1>2
  <1>4. InTime
    BY <1>1, MatchInput DEF Alone
  <1> QED
    BY <1>3, <1>4, FS_Singleton

\* The voltages are measured ones, or still those of the start.
LEMMA VoltageTyped ==
    ASSUME Typed, Shape, Vpilot \in Readings \cup {<<0, 0>>}
    PROVE  NewVpilot \in Readings \cup {<<0, 0>>}
  <1>1. CASE Matching = {}
    BY <1>1 DEF NewVpilot
  <1>2. CASE Matching # {}
    <2>1. PICK n \in Matching : \A m \in Matching : n <= m
      BY <1>2, MatchInput, Least
    <2>2. Min(Matching) \in Matching
      BY <2>1 DEF Min
    <2>3. PICK r \in Readings :
             Stream[Min(Matching)].hex = <<Word(r[1]), Word(r[2])>>
      BY <2>2, MatchInput DEF Words
    <2> DEFINE a == r[1]
               b == r[2]
    <2>4. r = <<a, b>> /\ a \in -2048 .. 2047 /\ b \in -2048 .. 2047
      BY PilotAssumption
    <2>5. Stream[Min(Matching)].hex = <<Word(a), Word(b)>>
      BY <2>3
    <2> HIDE DEF a, b
    <2>6. /\ a \in Int /\ -2048 <= a /\ a <= 2047
          /\ b \in Int /\ -2048 <= b /\ b <= 2047
      BY <2>4
    <2>7. /\ hex_to_signed_decimal(Word(a)) = a
          /\ hex_to_signed_decimal(Word(b)) = b
      BY <2>6, SignIsKept
    <2>8. Decoded(Stream[Min(Matching)].hex) = r
      BY <2>4, <2>5, <2>7 DEF Decoded
    <2> QED
      BY <1>2, <2>8 DEF NewVpilot
  <1> QED
    BY <1>1, <1>2

-----------------------------------------------------------------------------
(* The inductive invariant, action by action.                              *)

\* The answers under way and received are in one line, one after the other;
\* it is no longer than the lates allow, it ends with the answer to the last
\* command, and a prompt controller has no other answer to `pilot' in it.
PInv ==
    /\ TypeOK /\ IInv /\ Shape
    /\ Lag /\ Own /\ (Prompt => Alone)
    /\ StaleNeedsBacklog /\ OneTaken

\* The invariant holds at the start,
LEMMA InitInv == Init => PInv
  <1> SUFFICES ASSUME Init PROVE PInv
    OBVIOUS
  <1>1. /\ step = "idle" /\ phase = "delay" /\ Vpilot = <<0, 0>>
        /\ last_pilot_state = "A1" /\ lates = 0 /\ backlog = 0
        /\ heard = FALSE
        /\ incomingBuffer = <<>> /\ input = <<>> /\ coming = <<>>
        /\ questions = <<>> /\ taken = <<>>
    BY DEF Init
  <1>2. Typed
    BY <1>1, EmptySeq DEF Typed
  <1>3. TypeOK
    <2>1. \A S : <<>> \in Seq(S)
      BY EmptySeq
    <2>2. Len(<<>>) = 0 /\ NumParts > 0 /\ MaxLate \in Nat /\ NumParts \in Nat
      BY PilotAssumption
    <2>3. /\ last_pilot_state \in PilotStates
          /\ Vpilot \in Readings \cup {<<0, 0>>}
          /\ heard \in BOOLEAN /\ phase \in {"delay", "read"}
          /\ step \in {"idle", "set", "pwm", "first", "again"}
      BY <1>1 DEF PilotStates
    <2>4. /\ Len(incomingBuffer) < NumParts /\ Len(coming) <= NumParts
          /\ Len(taken) <= 2
          /\ lates \in 0 .. MaxLate /\ backlog \in 0 .. MaxLate + 1
      BY <1>1, <2>2
    <2> QED
      BY <1>1, <1>2, <2>1, <2>3, <2>4 DEF TypeOK, Typed
  <1>4. Shape
    <2>1. /\ Wholes(incomingBuffer) = {} /\ Stream = <<>>
      BY <1>1, EmptyInput DEF Stream
    <2>2. Stream \in Seq(Parts) /\ Len(Stream) = 0 /\ Wholes(Stream) = {}
      BY <1>2, <2>1, StreamTyped, EmptyInput
    <2>3. Len(Unfinished(Stream)) = 0
      BY <2>2, NothingFinished
    <2> QED
      BY <1>1, <2>1, <2>3 DEF Shape, Genuine
  <1>5. Lag
    BY <1>1, <1>2, <1>4, OutstandingIs, EmptyInput DEF Lag
  <1>6. Own /\ (Prompt => Alone) /\ StaleNeedsBacklog /\ OneTaken
    BY <1>1 DEF Own, Prompt, StaleNeedsBacklog, OneTaken
  <1> QED
    BY <1>3, <1>4, <1>5, <1>6, InitSettled DEF PInv

\* What the invariant says of the counts.
LEMMA CountsTyped ==
    ASSUME PInv
    PROVE  /\ Typed /\ lates \in Nat /\ lates <= MaxLate /\ MaxLate \in Nat
           /\ Outstanding \in Nat /\ Outstanding <= MaxLate + 1
  <1>1. Typed /\ lates \in 0 .. MaxLate /\ MaxLate \in Nat
    BY LineTyped, PilotAssumption DEF PInv, TypeOK
  <1>2. Outstanding \in Nat
    BY <1>1, OutstandingIs DEF PInv
  <1>3. Outstanding <= lates \/ Outstanding <= lates + 1
           \/ Outstanding <= MaxLate + 1
    BY DEF PInv, TypeOK, Lag
  <1> QED
    BY <1>1, <1>2, <1>3

\* A command that main gives between two samples.
LEMMA CommandInv ==
    ASSUME PInv, SetPwm \/ Sample
    PROVE  PInv'
  <1>1. /\ step = "idle" /\ phase' = "delay" /\ taken' = <<>>
        /\ step' \in {"set", "pwm"}
        /\ questions' = Append(questions, Command(step'))
        /\ backlog' = Outstanding
        /\ UNCHANGED <<Vpilot, last_pilot_state, incomingBuffer, input, coming,
                       lates, heard>>
    BY DEF SetPwm, Sample, Issue
  <1>2. Command(step') \in Kinds
    BY <1>1 DEF Command, Kinds
  <1>3. /\ questions \in Seq(Kinds) /\ questions' \in Seq(Kinds)
        /\ Len(questions') = Len(questions) + 1
        /\ questions'[Len(questions')] = Command(step') /\ questions' # <<>>
    BY <1>1, <1>2, CountsTyped DEF Typed
  <1>4. TypeOK'
    BY <1>1, <1>3, CountsTyped, EmptySeq DEF PInv, TypeOK
  <1>5. Shape'
    BY <1>1 DEF PInv, Shape, Stream, Genuine, Unfinished, Wholes
  <1>6. Outstanding' = Outstanding + 1
    <2>1. Len(questions) \in Nat /\ Cardinality(Wholes(input)) \in Nat
             /\ Cardinality(Wholes(coming)) \in Nat
      BY CountsTyped, CountWholes DEF Typed
    <2> QED
      BY <1>1, <1>3, <2>1 DEF Outstanding
  <1>7. Lag'
    <2>1. Outstanding <= lates
      BY <1>1 DEF PInv, Lag
    <2> QED
      BY <1>1, <1>6, <2>1, CountsTyped DEF Lag
  <1>8. Own' /\ OneTaken' /\ StaleNeedsBacklog'
    BY <1>1, <1>3 DEF Own, OneTaken, StaleNeedsBacklog
  <1>9. ~Prompt'
    BY <1>1 DEF Prompt
  <1>10. IInv'
    BY CommandSteps DEF PInv
  <1> QED
    BY <1>4, <1>5, <1>7, <1>8, <1>9, <1>10 DEF PInv

\* The delay ends.
LEMMA DelayInv ==
    ASSUME PInv, DelayEnds
    PROVE  PInv'
  <1>1. /\ step # "idle" /\ phase = "delay" /\ phase' = "read"
        /\ lates' = (IF InTime THEN 0 ELSE lates + 1) /\ lates' <= MaxLate
        /\ UNCHANGED <<step, Vpilot, last_pilot_state, incomingBuffer, input,
                       coming, questions, backlog, taken, heard>>
    BY DEF DelayEnds, DelayEndsWith
  <1>2. lates' \in 0 .. MaxLate
    BY <1>1, CountsTyped
  <1>3. TypeOK'
    BY <1>1, <1>2 DEF PInv, TypeOK
  <1>4. Shape'
    BY <1>1 DEF PInv, Shape, Stream, Genuine, Unfinished, Wholes
  <1>5. Outstanding' = Outstanding /\ InTime' = InTime
    BY <1>1 DEF Outstanding, InTime
  <1>6. Lag'
    <2>1. Outstanding <= lates + 1
      BY <1>1 DEF PInv, Lag
    <2> QED
      BY <1>1, <1>5, <2>1, CountsTyped DEF Lag
  <1>7. Own'
    BY <1>1 DEF PInv, Own, InTime, Wholes
  <1>8. Prompt' => Alone'
    BY <1>1 DEF PInv, Prompt, Alone, InTime, Pilots, Wholes
  <1>9. StaleNeedsBacklog' /\ OneTaken'
    BY <1>1 DEF PInv, StaleNeedsBacklog, OneTaken
  <1>10. IInv'
    BY LineSteps DEF PInv
  <1> QED
    BY <1>3, <1>4, <1>6, <1>7, <1>8, <1>9, <1>10 DEF PInv

\* The elements of a sequence without its first.
LEMMA TailElements ==
    ASSUME NEW s \in Seq(Kinds), s # <<>>
    PROVE  /\ Len(s) \in Nat /\ Len(s) > 0
           /\ Head(s) = s[1]
           /\ Len(Tail(s)) = Len(s) - 1
           /\ Tail(s) = <<>> <=> Len(s) = 1
           /\ \A i \in 1 .. Len(Tail(s)) :
                 i + 1 \in 1 .. Len(s) /\ Tail(s)[i] = s[i + 1]
  <1>1. /\ Len(s) \in Nat /\ Len(s) > 0 /\ Head(s) = s[1]
        /\ Tail(s) \in Seq(Kinds) /\ Len(Tail(s)) = Len(s) - 1
    OBVIOUS
  <1>2. \A t \in Seq(Kinds) : t = <<>> <=> Len(t) = 0
    OBVIOUS
  <1>3. Tail(s) = <<>> <=> Len(Tail(s)) = 0
    BY <1>1, <1>2, Zenon
  <1>4. Tail(s) = <<>> <=> Len(s) = 1
    <2> DEFINE n == Len(Tail(s))
    <2>1. n = Len(s) - 1 /\ Len(s) \in Nat
      BY <1>1
    <2>2. n = 0 <=> Len(s) = 1
      BY <2>1
    <2> QED
      BY <1>3, <2>2
  <1> QED
    BY <1>1, <1>4

\* The controller takes up the next command, whose answer has not been among
\* those on their way or received.
LEMMA AnswerInv ==
    ASSUME PInv, Answer
    PROVE  PInv'
  <1> USE CountsTyped
  <1>1. /\ questions # <<>> /\ coming = <<>> /\ questions' = Tail(questions)
        /\ UNCHANGED <<step, phase, Vpilot, last_pilot_state, incomingBuffer,
                       input, lates, backlog, taken, heard>>
    BY DEF Answer, mainVars, histVars
  <1>2. /\ Typed' /\ Shape'
        /\ Len(coming') = NumParts /\ coming' # <<>>
        /\ coming'[1].kind = Head(questions)
        /\ Outstanding' = Outstanding
    BY AnswerShape DEF PInv
  <1>3. /\ Len(questions) \in Nat /\ Len(questions) > 0
        /\ Head(questions) = questions[1]
        /\ Len(questions') = Len(questions) - 1
        /\ questions' = <<>> <=> Len(questions) = 1
        /\ \A i \in 1 .. Len(questions') :
              i + 1 \in 1 .. Len(questions) /\ questions'[i] = questions[i + 1]
    BY <1>1, TailElements DEF Typed
  <1>4. ~InTime /\ ~InTime'
    BY <1>1, <1>2 DEF InTime
  <1>5. TypeOK'
    BY <1>1, <1>2, PilotAssumption DEF PInv, TypeOK, Typed
  <1>6. Lag'
    BY <1>1, <1>2, <1>4 DEF PInv, Lag
  <1>7. Own'
    <2> SUFFICES ASSUME step # "idle" PROVE Own'
      BY <1>1 DEF Own
    <2>1. questions[Len(questions)] = Command(step)
      BY <1>1 DEF PInv, Own, InTime
    <2>2. CASE Len(questions) = 1
      BY <1>1, <1>2, <1>3, <2>1, <2>2 DEF Own
    <2>3. CASE Len(questions) > 1
      <3>1. Len(questions') \in 1 .. Len(questions')
        BY <1>3, <2>3
      <3>2. questions'[Len(questions')] = Command(step')
        BY <1>1, <1>3, <2>1, <3>1
      <3> QED
        BY <1>3, <2>3, <3>2 DEF Own
    <2> QED
      BY <1>3, <2>2, <2>3
  <1>8. ASSUME Prompt' PROVE Alone'
    <2>1. Alone
      BY <1>1, <1>8 DEF PInv, Prompt
    <2>2. Pilots' = Pilots /\ Pilots = {}
      BY <1>1, <1>4, <2>1 DEF Pilots, Wholes, Alone
    <2>3. ASSUME NEW i \in 1 .. Len(questions') - 1
          PROVE  questions'[i] # "pilot"
      <3>1. i + 1 \in 1 .. Len(questions) - 1 /\ i \in 1 .. Len(questions')
        BY <1>3
      <3> QED
        BY <1>3, <2>1, <3>1 DEF Alone
    <2>4. questions' # <<>> => coming'[1].kind # "pilot"
      <3>1. questions' # <<>> => 1 \in 1 .. Len(questions) - 1
        BY <1>3
      <3> QED
        BY <1>2, <1>3, <2>1, <3>1 DEF Alone
    <2> QED
      BY <2>2, <2>3, <2>4 DEF Alone
  <1>9. StaleNeedsBacklog' /\ OneTaken'
    BY <1>1 DEF PInv, StaleNeedsBacklog, OneTaken
  <1>10. IInv'
    BY LineSteps DEF PInv, Controller
  <1> QED
    BY <1>2, <1>5, <1>6, <1>7, <1>8, <1>9, <1>10 DEF PInv

\* A part arrives, perhaps the last one of the answer.
LEMMA ArriveInv ==
    ASSUME PInv, Arrive
    PROVE  PInv'
  <1> USE CountsTyped
  <1>1. /\ coming # <<>> /\ input' = Append(input, Head(coming))
        /\ UNCHANGED <<step, phase, Vpilot, last_pilot_state, incomingBuffer,
                       questions, lates, backlog, taken, heard>>
    BY DEF Arrive, mainVars, histVars
  <1>2. /\ Typed' /\ Shape'
        /\ Head(coming) = coming[1] /\ coming[1] \in Parts
        /\ coming[1].whole <=> coming' = <<>>
        /\ coming' # <<>> => coming'[1].kind = coming[1].kind
        /\ Len(coming') = Len(coming) - 1
        /\ Outstanding' = Outstanding
    BY ArriveShape DEF PInv
  <1>3. ~InTime /\ (InTime' <=> questions = <<>> /\ coming' = <<>>)
    BY <1>1 DEF InTime
  <1>4. input \in Seq(Parts) /\ Len(input) \in Nat
    BY DEF Typed
  <1>5. /\ input'[Len(input) + 1] = coming[1]
        /\ \A i \in 1 .. Len(input) : input'[i] = input[i]
    BY <1>1, <1>2, <1>4, AppendElements
  <1>6. Wholes(input') = IF coming[1].whole
                         THEN Wholes(input) \cup {Len(input) + 1}
                         ELSE Wholes(input)
    BY <1>1, <1>2, <1>4, WholesAppend
  <1>7. \A i \in Wholes(input) : i \in 1 .. Len(input)
    BY DEF Wholes
  <1>8. TypeOK'
    <2>1. Len(coming) \in Nat /\ Len(coming) <= NumParts /\ NumParts \in Nat
      BY PilotAssumption DEF PInv, TypeOK
    <2> QED
      BY <1>1, <1>2, <2>1 DEF PInv, TypeOK, Typed
  <1>9. Lag'
    BY <1>1, <1>2, <1>3 DEF PInv, Lag
  <1>10. Own'
    <2> SUFFICES ASSUME step # "idle" PROVE Own'
      BY <1>1 DEF Own
    <2>1. CASE questions # <<>>
      BY <1>1, <2>1 DEF PInv, Own, InTime
    <2>2. CASE questions = <<>>
      <3>1. coming[1].kind = Command(step)
        BY <1>3, <2>2 DEF PInv, Own
      <3>2. CASE coming' # <<>>
        BY <1>1, <1>2, <2>2, <3>1, <3>2 DEF Own
      <3>3. CASE coming' = <<>>
        <4>1. Len(input) + 1 \in Wholes(input')
          BY <1>2, <1>6, <3>3
        <4>2. \A j \in Wholes(input') : j <= Len(input) + 1
          BY <1>4, <1>6, <1>7
        <4>3. input'[Len(input) + 1].kind = Command(step')
          BY <1>1, <1>5, <3>1
        <4> QED
          BY <1>1, <1>3, <2>2, <3>3, <4>1, <4>2, <4>3 DEF Own
      <3> QED
        BY <3>2, <3>3
    <2> QED
      BY <2>1, <2>2
  <1>11. ASSUME Prompt' PROVE Alone'
    <2>1. Alone
      BY <1>1, <1>11 DEF PInv, Prompt
    <2>2. Pilots = {}
      BY <1>3, <2>1 DEF Alone
    <2>3. ASSUME NEW i \in Pilots'
          PROVE  i = Len(input) + 1 /\ coming' = <<>>
                    /\ coming[1].kind = "pilot"
      <3>1. i \in Wholes(input') /\ input'[i].kind = "pilot"
        BY DEF Pilots
      <3>2. i \notin Wholes(input)
        BY <1>5, <1>7, <2>2, <3>1 DEF Pilots
      <3> QED
        BY <1>2, <1>5, <1>6, <3>1, <3>2
    <2>4. ~InTime' => Pilots' = {}
      <3>1. ASSUME ~InTime', NEW i \in Pilots' PROVE FALSE
        <4>1. questions # <<>>
          BY <1>3, <2>3, <3>1
        <4> QED
          BY <1>1, <2>1, <2>3, <4>1 DEF Alone
      <3> QED
        BY <3>1
    <2> QED
      BY <1>1, <1>2, <2>1, <2>3, <2>4 DEF Alone
  <1>12. StaleNeedsBacklog' /\ OneTaken'
    BY <1>1 DEF PInv, StaleNeedsBacklog, OneTaken
  <1>13. IInv'
    BY LineSteps DEF PInv, Controller
  <1> QED
    BY <1>2, <1>8, <1>9, <1>10, <1>11, <1>12, <1>13 DEF PInv

\* The next command is the last question, and none is between two of them.
LEMMA IssueTyped ==
    ASSUME PInv, NEW next \in {"set", "pwm", "first", "again"}, Issue(next)
    PROVE  /\ step' = next /\ phase' = "delay"
           /\ backlog' = Outstanding /\ backlog' \in 0 .. MaxLate + 1
           /\ questions' \in Seq(Kinds) /\ questions' # <<>>
           /\ Len(questions') = Len(questions) + 1
           /\ questions'[Len(questions')] = Command(next)
           /\ \A i \in 1 .. Len(questions') - 1 :
                 i \in 1 .. Len(questions) /\ questions'[i] = questions[i]
           /\ Own'
  <1>1. /\ step' = next /\ phase' = "delay"
        /\ backlog' = Outstanding /\ backlog' \in 0 .. MaxLate + 1
    BY CountsTyped DEF Issue
  <1>2. Command(next) \in Kinds /\ questions \in Seq(Kinds)
    BY CountsTyped DEF Command, Kinds, Typed
  <1>3. /\ questions' = Append(questions, Command(next))
    BY DEF Issue
  <1>4. /\ questions' \in Seq(Kinds) /\ questions' # <<>>
        /\ Len(questions') = Len(questions) + 1
        /\ questions'[Len(questions')] = Command(next)
        /\ \A i \in 1 .. Len(questions') - 1 :
              i \in 1 .. Len(questions) /\ questions'[i] = questions[i]
    BY <1>2, <1>3
  <1>5. Own'
    BY <1>1, <1>4 DEF Own
  <1> QED
    BY <1>1, <1>4, <1>5

\* A read takes what was outstanding: what is asked next is all that may be
\* outstanding beyond the lates.
LEMMA ReadCounts ==
    ASSUME PInv, Receive, questions' \in Seq(Kinds), step # "idle",
           phase = "read"
    PROVE  /\ questions' = questions => Outstanding' <= lates
           /\ Len(questions') = Len(questions) + 1 => Outstanding' <= lates + 1
  <1>1. /\ Outstanding = Len(questions) + (IF coming = <<>> THEN 0 ELSE 1)
                            + Cardinality(Wholes(input))
        /\ Len(questions) \in Nat /\ Cardinality(Wholes(input)) \in Nat
        /\ lates \in Nat
    BY CountsTyped, OutstandingIs DEF PInv
  <1>2. Outstanding' = Len(questions') + (IF coming = <<>> THEN 0 ELSE 1)
    BY CountsTyped, ReceiveShape DEF PInv
  <1>3. Len(questions') \in Nat
    OBVIOUS
  <1>4. \/ Outstanding <= lates
        \/ questions = <<>> /\ coming = <<>>
    BY DEF PInv, Lag, InTime
  <1>5. Len(questions) + (IF coming = <<>> THEN 0 ELSE 1) <= lates
    BY <1>1, <1>4
  <1> QED
    BY <1>1, <1>2, <1>3, <1>5

\* What a set command is answered is thrown away.
LEMMA ReadSetInv ==
    ASSUME PInv, ReadSet
    PROVE  PInv'
  <1>1. /\ step = "set" /\ phase = "read" /\ step' = "idle" /\ Receive
        /\ UNCHANGED <<phase, Vpilot, last_pilot_state, questions, lates,
                       backlog, taken, heard>>
    BY DEF ReadSet, CanRead, Finish
  <1>2. questions' \in Seq(Kinds)
    BY <1>1, CountsTyped DEF Typed
  <1>3. /\ Typed' /\ Shape' /\ coming' = coming /\ input' = <<>>
        /\ Len(incomingBuffer') < NumParts
    BY <1>1, <1>2, CountsTyped, ReceiveShape DEF PInv
  <1>4. TypeOK'
    BY <1>1, <1>3 DEF PInv, TypeOK, Typed
  <1>5. Lag'
    <2>1. Outstanding' <= lates
      BY <1>1, <1>2, ReadCounts
    <2> QED
      BY <1>1, <2>1 DEF Lag
  <1>6. Own' /\ ~Prompt' /\ OneTaken'
    BY <1>1 DEF Own, Prompt, OneTaken
  <1>7. StaleNeedsBacklog'
    BY <1>1 DEF PInv, StaleNeedsBacklog
  <1>8. IInv'
    BY LineSteps DEF PInv
  <1> QED
    BY <1>3, <1>4, <1>5, <1>6, <1>7, <1>8 DEF PInv

\* The duty cycle is read and the voltage asked for.  If no more than one
\* answer was outstanding, it is the one to `pwm'.
LEMMA ReadPwmInv ==
    ASSUME PInv, ReadPwm
    PROVE  PInv'
  <1>1. /\ step = "pwm" /\ phase = "read" /\ Receive /\ Issue("first")
        /\ UNCHANGED <<Vpilot, last_pilot_state, lates, taken, heard>>
    BY DEF ReadPwm, CanRead
  <1>2. /\ step' = "first" /\ phase' = "delay"
        /\ backlog' = Outstanding /\ backlog' \in 0 .. MaxLate + 1
        /\ questions' \in Seq(Kinds)
        /\ Len(questions') = Len(questions) + 1
        /\ \A i \in 1 .. Len(questions') - 1 :
              i \in 1 .. Len(questions) /\ questions'[i] = questions[i]
        /\ Own'
    BY <1>1, IssueTyped
  <1>3. /\ Typed' /\ Shape' /\ coming' = coming /\ input' = <<>>
        /\ Len(incomingBuffer') < NumParts
    BY <1>1, <1>2, CountsTyped, ReceiveShape DEF PInv
  <1>4. TypeOK'
    BY <1>1, <1>2, <1>3 DEF PInv, TypeOK, Typed
  <1>5. taken = <<>> /\ taken' = <<>>
    BY <1>1 DEF PInv, IInv
  <1>6. Lag'
    <2>1. Outstanding' <= lates + 1
      BY <1>1, <1>2, ReadCounts
    <2> QED
      BY <1>1, <1>2, <2>1 DEF Lag
  <1>7. ASSUME Outstanding < 2 PROVE Alone'
    <2>1. /\ Outstanding = Len(questions) + (IF coming = <<>> THEN 0 ELSE 1)
                              + Cardinality(Wholes(input))
          /\ Len(questions) \in Nat /\ Cardinality(Wholes(input)) \in Nat
      BY CountsTyped, OutstandingIs DEF PInv
    <2>2. Command(step) = "pwm"
      BY <1>1 DEF Command
    <2>3. \A i \in 1 .. Len(questions) : questions[i] # "pilot"
      <3>1. SUFFICES ASSUME NEW i \in 1 .. Len(questions)
                     PROVE  questions[i] = "pwm"
        OBVIOUS
      <3>2. Len(questions) < 2 /\ Len(questions) \in Nat
        BY <1>7, <2>1
      <3>3. Len(questions) = 1 /\ i = Len(questions)
        <4>1. \A n \in Nat : n < 2 => \A j \in 1 .. n : n = 1 /\ j = n
          OBVIOUS
        <4> QED
          BY <3>1, <3>2, <4>1, Zenon
      <3> QED
        BY <1>1, <2>2, <3>3 DEF PInv, Own, InTime
    <2>4. coming # <<>> => coming[1].kind = "pwm"
      <3>1. ASSUME coming # <<>> PROVE questions = <<>>
        <4>1. Len(questions) = 0
          BY <1>7, <2>1, <3>1
        <4> QED
          BY <4>1, CountsTyped, EmptySeq DEF Typed
      <3> QED
        BY <1>1, <2>2, <3>1 DEF PInv, Own, InTime
    <2>5. Pilots' = {}
      BY <1>3 DEF Pilots, Wholes
    <2> QED
      BY <1>2, <1>3, <2>3, <2>4, <2>5 DEF Alone
  <1>8. Prompt' => Alone'
    BY <1>2, <1>7 DEF Prompt
  <1>9. StaleNeedsBacklog' /\ OneTaken'
    BY <1>2, <1>5 DEF StaleNeedsBacklog, OneTaken
  <1>10. IInv'
    BY LineSteps DEF PInv
  <1> QED
    BY <1>2, <1>3, <1>4, <1>6, <1>8, <1>9, <1>10 DEF PInv

\* What a read of the voltage appends to the sample.
LEMMA TakenTyped ==
    ASSUME PInv, step \in {"first", "again"}, TakeReading
    PROVE  /\ taken' = Append(taken, Taken)
           /\ Vpilot' \in Readings \cup {<<0, 0>>}
           /\ Measured \in PilotStates
           /\ Taken \in [source : {"own", "stale", "none"},
                         state : PilotStates, backlog : 0 .. MaxLate + 1]
           /\ heard' \in BOOLEAN
           /\ StaleNeedsBacklog'
           /\ step = "first" => taken' = <<Taken>>
           /\ Len(taken') <= 2
           /\ taken' \in Seq([source : {"own", "stale", "none"},
                              state : PilotStates, backlog : 0 .. MaxLate + 1])
  <1>1. /\ taken' = Append(taken, Taken) /\ Vpilot' = NewVpilot
        /\ heard' = (heard \/ Matching # {})
    BY DEF TakeReading, Taken
  <1>2. /\ Taken.source = Source /\ Taken.state = Measured
        /\ Taken.backlog = backlog
    BY DEF Taken
  <1>3. NewVpilot \in Readings \cup {<<0, 0>>}
    BY CountsTyped, VoltageTyped DEF PInv, TypeOK
  <1>4. Measured \in PilotStates
    BY DEF PInv, TypeOK, Measured, get_pilot_state, PilotStates
  <1>5. Source \in {"own", "stale", "none"}
    BY DEF Source
  <1>6. Taken \in [source : {"own", "stale", "none"},
                   state : PilotStates, backlog : 0 .. MaxLate + 1]
    BY <1>4, <1>5 DEF PInv, TypeOK, Taken
  <1>7. heard' \in BOOLEAN
    BY <1>1 DEF PInv, IInv
  <1>8. Source = "stale" => \/ backlog >= 2
                            \/ step = "again" /\ taken[1].source = "none"
    <2>1. ~Alone => ~Prompt
      BY DEF PInv
    <2>2. ~Prompt => \/ ~(backlog < 2)
                     \/ step = "again" /\ taken[1].source = "none"
      BY DEF Prompt
    <2>3. ~(backlog < 2) => backlog >= 2
      BY PilotAssumption DEF PInv, TypeOK
    <2> QED
      BY <2>1, <2>2, <2>3, CountsTyped, AloneIsOwn DEF PInv
  <1>9. CASE step = "first"
    <2>1. taken' = <<Taken>>
      BY <1>1, <1>9, AppendFirst DEF PInv, IInv
    <2>2. Len(taken') = 1 /\ taken'[1] = Taken
      BY <2>1
    <2>3. StaleNeedsBacklog'
      BY <1>2, <1>8, <1>9, <2>2 DEF StaleNeedsBacklog
    <2> QED
      BY <1>1, <1>3, <1>4, <1>6, <1>7, <1>9, <2>1, <2>2, <2>3
  <1>10. CASE step = "again"
    <2>1. PICK r : Suspected(r)
      BY <1>10 DEF PInv, IInv
    <2>2. taken = <<r>>
      BY <2>1 DEF Suspected
    <2>3. Len(taken') = 2 /\ taken'[1] = r /\ taken'[2] = Taken
      BY <1>1, <2>2, AppendSecond
    <2>4. Len(taken) = 1 /\ taken[1] = r
      BY <2>2
    <2>5. StaleNeedsBacklog'
      <3>1. r.source = "stale" => r.backlog >= 2
        BY <2>4 DEF PInv, StaleNeedsBacklog
      <3>2. Taken.source = "stale" => \/ Taken.backlog >= 2
                                      \/ r.source = "none"
        BY <1>2, <1>8, <2>4
      <3>3. \A k \in 1 .. Len(taken') : k = 1 \/ k = 2
        BY <2>3
      <3> QED
        BY <2>3, <3>1, <3>2, <3>3 DEF StaleNeedsBacklog
    <2>6. taken \in Seq([source : {"own", "stale", "none"},
                         state : PilotStates, backlog : 0 .. MaxLate + 1])
      BY DEF PInv, TypeOK
    <2> QED
      BY <1>1, <1>3, <1>4, <1>6, <1>7, <1>10, <2>3, <2>5, <2>6
  <1> QED
    BY <1>9, <1>10

\* The voltage is read, and asked for again if it gives a new state.  When
\* the answer was among no more than one outstanding, none is outstanding any
\* more.
LEMMA ReadPilotInv ==
    ASSUME PInv, ReadPilot
    PROVE  PInv'
  <1>1. /\ step = "first" /\ phase = "read" /\ Receive /\ TakeReading
        /\ UNCHANGED <<last_pilot_state, lates>>
        /\ (IF Measured # last_pilot_state THEN Issue("again") ELSE Finish)
    BY DEF ReadPilot, CanRead, TakeReading
  <1>2. /\ Vpilot' \in Readings \cup {<<0, 0>>}
        /\ heard' \in BOOLEAN /\ StaleNeedsBacklog'
        /\ taken' = <<Taken>> /\ Len(taken') <= 2
        /\ taken' \in Seq([source : {"own", "stale", "none"},
                           state : PilotStates, backlog : 0 .. MaxLate + 1])
    BY <1>1, TakenTyped
  <1>3. IInv'
    BY FirstReading DEF PInv
  <1>4. CASE Finish
    <2>1. step' = "idle" /\ UNCHANGED <<phase, questions, backlog>>
      BY <1>4 DEF Finish
    <2>2. questions' \in Seq(Kinds)
      BY <2>1, CountsTyped DEF Typed
    <2>3. /\ Typed' /\ Shape' /\ coming' = coming
          /\ Len(incomingBuffer') < NumParts
      BY <1>1, <2>2, CountsTyped, ReceiveShape DEF PInv
    <2>4. TypeOK'
      BY <1>1, <1>2, <2>1, <2>3 DEF PInv, TypeOK, Typed
    <2>5. Outstanding' <= lates
      BY <1>1, <2>1, <2>2, ReadCounts
    <2>6. Lag'
      BY <1>1, <2>1, <2>5 DEF Lag
    <2>7. Own' /\ ~Prompt' /\ OneTaken'
      BY <2>1 DEF Own, Prompt, OneTaken
    <2> QED
      BY <1>2, <1>3, <2>3, <2>4, <2>6, <2>7 DEF PInv
  <1>5. CASE Issue("again")
    <2>1. /\ step' = "again" /\ phase' = "delay"
          /\ backlog' = Outstanding /\ backlog' \in 0 .. MaxLate + 1
          /\ questions' \in Seq(Kinds)
          /\ Len(questions') = Len(questions) + 1
          /\ Own'
      BY <1>5, IssueTyped
    <2>2. /\ Typed' /\ Shape' /\ coming' = coming /\ input' = <<>>
          /\ Len(incomingBuffer') < NumParts
      BY <1>1, <2>1, CountsTyped, ReceiveShape DEF PInv
    <2>3. TypeOK'
      BY <1>1, <1>2, <2>1, <2>2 DEF PInv, TypeOK, Typed
    <2>4. Outstanding' <= lates + 1
      BY <1>1, <2>1, ReadCounts
    <2>5. Lag'
      BY <1>1, <2>1, <2>4 DEF Lag
    <2>6. ASSUME Prompt' PROVE Alone'
      <3>1. Outstanding < 2 /\ taken'[1].source # "none"
        BY <2>1, <2>6 DEF Prompt
      <3>2. Source # "none"
        BY <1>2, <3>1 DEF Taken
      <3>3. PICK m \in Matching : TRUE
        BY <3>2 DEF Source
      <3>4. Wholes(input) # {}
        BY <3>3, CountsTyped, MatchInput DEF PInv, Pilots
      <3>5. /\ Cardinality(Wholes(input)) \in Nat
            /\ Cardinality(Wholes(input)) # 0
        BY <3>4, CountsTyped, CountWholes DEF Typed
      <3>6. /\ Outstanding = Len(questions) + (IF coming = <<>> THEN 0 ELSE 1)
                                + Cardinality(Wholes(input))
            /\ Len(questions) \in Nat
        BY CountsTyped, OutstandingIs DEF PInv
      <3>7. Len(questions) = 0 /\ coming = <<>>
        BY <3>1, <3>5, <3>6
      <3>8. Pilots' = {}
        BY <2>2 DEF Pilots, Wholes
      <3>9. Len(questions') = 1 /\ coming' = <<>>
        BY <2>1, <2>2, <3>7
      <3> QED
        BY <3>8, <3>9 DEF Alone
    <2>7. OneTaken'
      BY <2>1 DEF OneTaken
    <2> QED
      BY <1>2, <1>3, <2>1, <2>2, <2>3, <2>5, <2>6, <2>7 DEF PInv
  <1> QED
    BY <1>1, <1>4, <1>5

\* The voltage is read once more.
LEMMA ReadAgainInv ==
    ASSUME PInv, ReadAgain
    PROVE  PInv'
  <1>1. /\ step = "again" /\ phase = "read" /\ Receive /\ TakeReading
        /\ last_pilot_state' = Measured /\ step' = "idle"
        /\ UNCHANGED <<lates, phase, questions, backlog>>
    BY DEF ReadAgain, ReadOnceMore, CanRead, TakeReading, Finish
  <1>2. /\ Vpilot' \in Readings \cup {<<0, 0>>} /\ Measured \in PilotStates
        /\ heard' \in BOOLEAN /\ StaleNeedsBacklog'
        /\ Len(taken') <= 2
        /\ taken' \in Seq([source : {"own", "stale", "none"},
                           state : PilotStates, backlog : 0 .. MaxLate + 1])
    BY <1>1, TakenTyped
  <1>3. questions' \in Seq(Kinds)
    BY <1>1, CountsTyped DEF Typed
  <1>4. /\ Typed' /\ Shape' /\ coming' = coming
        /\ Len(incomingBuffer') < NumParts
    BY <1>1, <1>3, CountsTyped, ReceiveShape DEF PInv
  <1>5. TypeOK'
    BY <1>1, <1>2, <1>4 DEF PInv, TypeOK, Typed
  <1>6. Lag'
    <2>1. Outstanding' <= lates
      BY <1>1, <1>3, ReadCounts
    <2> QED
      BY <1>1, <2>1 DEF Lag
  <1>7. Own' /\ ~Prompt' /\ OneTaken'
    BY <1>1 DEF Own, Prompt, OneTaken
  <1>8. IInv'
    BY SecondReading DEF PInv
  <1> QED
    BY <1>2, <1>4, <1>5, <1>6, <1>7, <1>8 DEF PInv

\* Every step preserves the invariant.
LEMMA NextInv == PInv /\ [Next]_vars => PInv'
  <1> SUFFICES ASSUME PInv, [Next]_vars PROVE PInv'
    OBVIOUS
  <1>1. CASE UNCHANGED vars
    <2>1. UNCHANGED <<step, phase, Vpilot, last_pilot_state, incomingBuffer,
                      input, coming, questions, lates, backlog, taken, heard>>
      BY <1>1 DEF vars, mainVars, lineVars, histVars
    <2>2. TypeOK' /\ IInv'
      BY <2>1 DEF PInv, TypeOK, IInv, Settled, Suspected
    <2>3. Shape'
      BY <2>1 DEF PInv, Shape, Stream, Genuine, Unfinished, Wholes
    <2>4. Lag' /\ Own'
      BY <2>1 DEF PInv, Lag, Own, Outstanding, InTime, Wholes
    <2>5. Prompt' => Alone'
      BY <2>1 DEF PInv, Prompt, Alone, InTime, Pilots, Wholes
    <2>6. StaleNeedsBacklog' /\ OneTaken'
      BY <2>1 DEF PInv, StaleNeedsBacklog, OneTaken
    <2> QED
      BY <2>2, <2>3, <2>4, <2>5, <2>6 DEF PInv
  <1>2. CASE SetPwm \/ Sample
    BY <1>2, CommandInv
  <1>3. CASE DelayEnds
    BY <1>3, DelayInv
  <1>4. CASE ReadSet
    BY <1>4, ReadSetInv
  <1>5. CASE ReadPwm
    BY <1>5, ReadPwmInv
  <1>6. CASE ReadPilot
    BY <1>6, ReadPilotInv
  <1>7. CASE ReadAgain
    BY <1>7, ReadAgainInv
  <1>8. CASE Answer
    BY <1>8, AnswerInv
  <1>9. CASE Arrive
    BY <1>9, ArriveInv
  <1> QED
    BY <1>1, <1>2, <1>3, <1>4, <1>5, <1>6, <1>7, <1>8, <1>9
    DEF Next, Main, Controller

\* Every variable keeps its type: what is left in the buffer is less than an
\* answer (io.cpp:65), a sample takes one or two readings, and the voltages
\* are ones that the controller has measured, however its answers were cut.
THEOREM PilotTypes == Spec => []TypeOK
  <1>1. PInv => TypeOK
    BY DEF PInv
  <1> QED
    BY <1>1, InitInv, NextInv, PTL DEF Spec

\* Between two commands no more answers are outstanding than delays in a row
\* were too short: one answer in time and the line is empty (io.cpp:65).
THEOREM LagIsBounded == Spec => []LagBounded
  <1>1. PInv => LagBounded
    BY DEF PInv, Lag, LagBounded
  <1> QED
    BY <1>1, InitInv, NextInv, PTL DEF Spec

\* An answer to an earlier command is taken for this one's only when two or
\* more were outstanding, or when the sample had found nothing before
\* (J1772.cpp:137).
THEOREM StaleOnlyWithBacklog == Spec => []StaleNeedsBacklog
  <1>1. PInv => StaleNeedsBacklog
    BY DEF PInv
  <1> QED
    BY <1>1, InitInv, NextInv, PTL DEF Spec
=============================================================================
