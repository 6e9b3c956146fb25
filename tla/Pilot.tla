-------------------------------- MODULE Pilot -------------------------------
(***************************************************************************)
(* The sampling of the control pilot by main: a command to the board's     *)
(* micro controller, a fixed delay, one read of the serial line, and the   *)
(* first message in it that fits.  The controller answers every command,   *)
(* in order, but not always within the delay, and reads may cut an answer  *)
(* in pieces: what comes late is in the next read.  Where a message can be *)
(* cut is the subject of Serial; here it has a number of parts.            *)
(***************************************************************************)
EXTENDS Integers, Sequences, FiniteSetsExt

CONSTANTS
    Readings,       \* what the controller measures: <<high, low>>, 29 mV each
    NumParts,       \* in how many parts an answer comes at most
    MaxLate         \* bound: delays in a row that were too short

ASSUME PilotAssumption ==
    /\ Readings \subseteq (-2048 .. 2047) \X (-2048 .. 2047)
    /\ NumParts \in Nat \ {0} /\ MaxLate \in Nat

-----------------------------------------------------------------------------
(* From the bytes of an answer to a pilot state.                           *)

\* A measurement travels as a 16-bit two's complement.
Word(measured) == measured % 65536

\* Bit 11 is taken for the sign.
hex_to_signed_decimal(hex_value) ==
    IF (hex_value \div 2048) % 2 = 1 THEN hex_value - 65536 ELSE hex_value

\* A band of high voltages, in mV; the bits are 29 mV.
In(raw, from, to) == 29 * raw >= from /\ 29 * raw <= to

PilotStates == {"A1", "A2", "B1", "B2", "C1", "C2", "D1", "D2", "F"}

get_pilot_state(V, last) ==
    LET high   == V[1]
        low_ok == 29 * V[2] > -13000 /\ 29 * V[2] <= -10000
    IN  IF In(high, 11400, 12600) THEN IF low_ok THEN "A2" ELSE "A1"
        ELSE IF In(high, 8360, 9560) THEN IF low_ok THEN "B2" ELSE "B1"
        ELSE IF In(high, 5480, 6490) THEN IF low_ok THEN "C2" ELSE "C1"
        ELSE IF In(high, 2620, 3250) THEN IF low_ok THEN "D2" ELSE "D1"
        ELSE IF In(high, 0, 250) THEN IF low_ok THEN "A1" ELSE "F"
        ELSE last

-----------------------------------------------------------------------------

\* What main asks the controller for, by the step of main that asks.
Command(s) == IF s \in {"first", "again"} THEN "pilot" ELSE s

\* A part of an answer; with the last one it is whole.  What `set' and `pwm'
\* are answered decides nothing.
Kinds == {"set", "pwm", "pilot"}
Words == {<<Word(r[1]), Word(r[2])>> : r \in Readings}
Unused == <<0, 0>>
Parts == [kind : Kinds, hex : Words \cup {Unused}, whole : BOOLEAN]

VARIABLES
    step,       \* what main is doing
    phase,      \* it waits for the delay to end, or for the line to be read
    Vpilot,     \* Vpilot and Vpilot_min, in bits
    last_pilot_state,
    incomingBuffer, \* the parts of an answer left there by the last read
    input,      \* parts the serial driver has received
    coming,     \* the other parts of an answer under way
    questions,  \* commands not answered yet
    lates,      \* history: delays in a row that were too short
    backlog,    \* history: answers outstanding when the command was given
    taken,      \* history: the readings of this sample
    heard       \* history: some reading was taken from an answer

mainVars == <<step, phase, Vpilot, last_pilot_state, incomingBuffer>>
lineVars == <<input, coming, questions>>
histVars == <<lates, backlog, taken, heard>>

vars == <<mainVars, lineVars, histVars>>

\* Where an answer is whole.
Wholes(s) == {i \in 1 .. Len(s) : s[i].whole}

\* Answers that main has not taken out of the line.
Outstanding ==
    Len(questions) + Cardinality(Wholes(coming)) + Cardinality(Wholes(input))

InTime == questions = <<>> /\ coming = <<>>

-----------------------------------------------------------------------------
(* main.                                                                   *)

\* write_to_serial, and the delay begins.
Issue(next) ==
    /\ step' = next
    /\ phase' = "delay"
    /\ questions' = Append(questions, Command(next))
    /\ backlog' = Outstanding

Finish ==
    /\ step' = "idle"
    /\ UNCHANGED <<phase, questions, backlog>>

\* set_pwm or control_pwm, by main or by the state machine.
SetPwm ==
    /\ step = "idle"
    /\ Issue("set")
    /\ taken' = <<>>
    /\ UNCHANGED <<Vpilot, last_pilot_state, incomingBuffer, input, coming,
                   lates, heard>>

\* sample_J1772 begins with the duty cycle.
Sample ==
    /\ step = "idle"
    /\ Issue("pwm")
    /\ taken' = <<>>
    /\ UNCHANGED <<Vpilot, last_pilot_state, incomingBuffer, input, coming,
                   lates, heard>>

\* The delay is over, whether the controller has answered or not.
DelayEndsWith(received) ==
    /\ step # "idle" /\ phase = "delay"
    /\ phase' = "read"
    /\ input' = received
    /\ lates' = IF InTime THEN 0 ELSE lates + 1
    /\ lates' <= MaxLate
    /\ UNCHANGED <<step, Vpilot, last_pilot_state, incomingBuffer, coming,
                   questions, backlog, taken, heard>>

\* (A slip for the runs to find: flush_read_buffer comes after the delay.)
DelayThenFlush == DelayEndsWith(<<>>)

DelayEnds == DelayEndsWith(input)

\* read_serial_data blocks until something is there, and then takes it all.
Stream == incomingBuffer \o input

\* Where in the stream a message is whole.
Messages == Wholes(Stream)

\* The parts of s behind its last whole answer.
Unfinished(s) ==
    LET last == CHOOSE i \in 0 .. Len(s) :
                    /\ i = 0 \/ s[i].whole
                    /\ \A j \in i + 1 .. Len(s) : ~s[j].whole
    IN  SubSeq(s, last + 1, Len(s))

Receives(parts, rest) ==
    /\ incomingBuffer' = Unfinished(incomingBuffer \o parts)
    /\ input' = rest
    /\ UNCHANGED coming

\* (A slip for the runs to find: no more than one part is taken.)
ReceiveLittle == Receives(<<Head(input)>>, Tail(input))

Receive == Receives(input, <<>>)

CanRead(s) == step = s /\ phase = "read" /\ input # <<>>

\* The answer is thrown away, or its values are only published.
ReadSet ==
    /\ CanRead("set")
    /\ Receive
    /\ Finish
    /\ UNCHANGED <<Vpilot, last_pilot_state, lates, taken, heard>>

ReadPwm ==
    /\ CanRead("pwm")
    /\ Receive
    /\ Issue("first")
    /\ UNCHANGED <<Vpilot, last_pilot_state, lates, taken, heard>>

\* (A slip for the runs to find: the type of the message is not looked at.)
MatchingAny == Messages

\* The pilot messages of a read; the first counts.
Matching == {i \in Messages : Stream[i].kind = "pilot"}

Decoded(hex) == <<hex_to_signed_decimal(hex[1]), hex_to_signed_decimal(hex[2])>>

\* (A slip for the runs to find: without a match there is no voltage.)
ZeroVpilot ==
    IF Matching # {} THEN Decoded(Stream[Min(Matching)].hex) ELSE <<0, 0>>

\* read_pilot_voltage: without a match the old voltages stay.
NewVpilot ==
    IF Matching # {} THEN Decoded(Stream[Min(Matching)].hex) ELSE Vpilot

Measured == get_pilot_state(NewVpilot, last_pilot_state)

\* The answer to the command just given is the last of all.
Source ==
    IF Matching = {} THEN "none"
    ELSE IF InTime /\ Cardinality(Matching) = 1 THEN "own" ELSE "stale"

TakeReading ==
    /\ Receive
    /\ Vpilot' = NewVpilot
    /\ taken' = Append(taken, [source |-> Source, state |-> Measured,
                               backlog |-> backlog])
    /\ heard' = (heard \/ Matching # {})
    /\ UNCHANGED lates

\* A state that is not the last one is measured again,
ReadPilot ==
    /\ CanRead("first")
    /\ TakeReading
    /\ UNCHANGED last_pilot_state
    /\ IF Measured # last_pilot_state THEN Issue("again") ELSE Finish

ReadOnceMore ==
    /\ CanRead("again")
    /\ TakeReading
    /\ last_pilot_state' = Measured

\* (A slip for the runs to find: until two measurements agree.)
ReadUntilSame ==
    /\ ReadOnceMore
    /\ IF Measured # taken[Len(taken)].state THEN Issue("again") ELSE Finish

\* and what is measured then is the new state, whatever it is.
ReadAgain == ReadOnceMore /\ Finish

-----------------------------------------------------------------------------
(* The micro controller and the line.                                      *)

Answer ==
    /\ questions # <<>> /\ coming = <<>>
    /\ \E hex \in IF Head(questions) = "pilot" THEN Words ELSE {Unused} :
          coming' = [i \in 1 .. NumParts |->
                        [kind |-> Head(questions), hex |-> hex,
                         whole |-> i = NumParts]]
    /\ questions' = Tail(questions)
    /\ UNCHANGED <<mainVars, input, histVars>>

Arrive ==
    /\ coming # <<>>
    /\ input' = Append(input, Head(coming))
    /\ coming' = Tail(coming)
    /\ UNCHANGED <<mainVars, questions, histVars>>

-----------------------------------------------------------------------------

Init ==
    /\ step = "idle" /\ phase = "delay"
    /\ Vpilot = <<0, 0>>
    /\ last_pilot_state = "A1"
    /\ incomingBuffer = <<>>
    /\ input = <<>> /\ coming = <<>> /\ questions = <<>>
    /\ lates = 0 /\ backlog = 0
    /\ taken = <<>>
    /\ heard = FALSE

Main == DelayEnds \/ ReadSet \/ ReadPwm \/ ReadPilot \/ ReadAgain

Controller == Answer \/ Arrive

Next == Main \/ SetPwm \/ Sample \/ Controller

\* The delay is finite, main runs, and the controller answers every command.
Spec == Init /\ [][Next]_vars /\ WF_vars(Main) /\ WF_vars(Controller)

-----------------------------------------------------------------------------

TypeOK ==
    /\ step \in {"idle", "set", "pwm", "first", "again"}
    /\ phase \in {"delay", "read"}
    /\ Vpilot \in Readings \cup {<<0, 0>>}
    /\ last_pilot_state \in PilotStates
    /\ incomingBuffer \in Seq(Parts) /\ Len(incomingBuffer) < NumParts
    /\ input \in Seq(Parts)
    /\ coming \in Seq(Parts) /\ Len(coming) <= NumParts
    /\ questions \in Seq(Kinds)
    /\ lates \in 0 .. MaxLate /\ backlog \in 0 .. MaxLate + 1
    /\ taken \in Seq([source : {"own", "stale", "none"}, state : PilotStates,
                      backlog : 0 .. MaxLate + 1])
    /\ Len(taken) <= 2
    /\ heard \in BOOLEAN

\* Answers pile up only as long as the delay keeps being too short: no more
\* of them are outstanding than there were late ones in a row, and none as
\* soon as one has come in time (io.cpp:65).
LagBounded == step = "idle" => Outstanding <= lates

\* The first pilot message of a read may be the answer to an earlier command:
\* only when two answers are outstanding, or the very first one was late
\* (J1772.cpp:137).
StaleNeedsBacklog ==
    \A k \in 1 .. Len(taken) :
        taken[k].source = "stale" =>
            \/ taken[k].backlog >= 2
            \/ k = 2 /\ taken[1].source = "none"

\* A new state is one that the controller's answers have given, in this
\* sample, unless none has ever come (J1772.cpp:498).
ChangeIsMeasured ==
    [][last_pilot_state' # last_pilot_state =>
          \/ ~heard'
          \/ \E k \in 1 .. Len(taken') :
                taken'[k].source # "none" /\ taken'[k].state = last_pilot_state'
      ]_vars

\* A sample comes to its end if the controller answers: no read waits for
\* what has been read already (io.cpp:55).
SampleEnds == step # "idle" ~> step = "idle"
=============================================================================
