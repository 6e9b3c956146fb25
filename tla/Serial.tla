------------------------------- MODULE Serial -------------------------------
(***************************************************************************)
(* read_serial_data of io.cpp, byte by byte: what has come over the serial *)
(* line is read in chunks of any length, and complete messages are cut out *)
(* of a buffer that outlives the call.  A message is a start byte, the     *)
(* number of bytes that follow, and these.                                 *)
(***************************************************************************)
EXTENDS Integers, Sequences

CONSTANTS
    Byte,           \* the bytes that come over the line
    Lines,          \* what may come over it, as a whole
    BufferSize      \* how much one call of read returns at most

\* The start byte of a message.
STX == 2

ASSUME SerialAssumption ==
    /\ Byte \subseteq Nat /\ STX \in Byte
    /\ Lines \subseteq Seq(Byte)
    /\ BufferSize \in Nat \ {0}

VARIABLES
    pc,                 \* inside read, or in the loop over the buffer
    line,               \* bytes that read has not returned yet
    incomingBuffer,     \* the static buffer
    messages,           \* all messages handed out so far
    received            \* history: all bytes that read has returned

vars == <<pc, line, incomingBuffer, messages, received>>

Starts == {i \in 1 .. Len(incomingBuffer) : incomingBuffer[i] = STX}

\* The position std::find returns.
IsStart(i) == i \in Starts /\ \A j \in Starts : i <= j

\* Where the message that starts at i ends, if its length byte is there.
LastByte(i) == i + 1 + incomingBuffer[i + 1]

IsComplete(i) ==
    i < Len(incomingBuffer) /\ LastByte(i) <= Len(incomingBuffer)

Rest(s, i) == SubSeq(s, i + 1, Len(s))

-----------------------------------------------------------------------------

\* read returns at least one byte, or blocks.
Read(n) ==
    /\ pc = "read"
    /\ line' = Rest(line, n)
    /\ incomingBuffer' = incomingBuffer \o SubSeq(line, 1, n)
    /\ received' = received \o SubSeq(line, 1, n)
    /\ pc' = "loop"
    /\ UNCHANGED messages

LeaveLoop(buffer) ==
    /\ pc = "loop"
    /\ pc' = "read"
    /\ incomingBuffer' = buffer
    /\ UNCHANGED <<line, messages, received>>

TooShort == Len(incomingBuffer) < 2 /\ LeaveLoop(incomingBuffer)

NoStart ==
    /\ Len(incomingBuffer) >= 2
    /\ Starts = {}
    /\ LeaveLoop(<<>>)

WaitForMore(buffer) ==
    /\ Len(incomingBuffer) >= 2
    /\ \E i \in Starts : IsStart(i) /\ ~IsComplete(i)
    /\ LeaveLoop(buffer)

\* (A slip for the runs to find: a message cut in two is given up.)
DropIncomplete == WaitForMore(<<>>)

Incomplete == WaitForMore(incomingBuffer)

\* The message that starts at i is handed out, and the buffer loses its first
\* `erased' bytes.
TakeMessage(i, erased) ==
    /\ pc = "loop"
    /\ IsStart(i)
    /\ IsComplete(i)
    /\ messages' = Append(messages, SubSeq(incomingBuffer, i, LastByte(i)))
    /\ incomingBuffer' = Rest(incomingBuffer, erased)
    /\ UNCHANGED <<pc, line, received>>

\* (A slip for the runs to find: what precedes the message is forgotten.)
ExtractLength == \E i \in Starts : TakeMessage(i, LastByte(i) - i + 1)

Extract == \E i \in Starts : TakeMessage(i, LastByte(i))

-----------------------------------------------------------------------------

Init ==
    /\ pc = "read"
    /\ line \in Lines
    /\ incomingBuffer = <<>>
    /\ messages = <<>>
    /\ received = <<>>

Next ==
    \/ \E n \in 1 .. BufferSize : n <= Len(line) /\ Read(n)
    \/ TooShort \/ NoStart \/ Incomplete \/ Extract

Spec == Init /\ [][Next]_vars

-----------------------------------------------------------------------------

TypeOK ==
    /\ pc \in {"read", "loop"}
    /\ line \in Seq(Byte)
    /\ incomingBuffer \in Seq(Byte)
    /\ messages \in Seq(Seq(Byte))
    /\ received \in Seq(Byte)

\* The reference: the messages in s, found by walking over all of it; those
\* from position i on are Walk(s)[i].
Walk(s) ==
    LET from[i \in 1 .. Len(s) + 1] ==
            IF i > Len(s) THEN <<>>
            ELSE IF s[i] # STX THEN from[i + 1]
            ELSE IF i = Len(s) \/ i + 1 + s[i + 1] > Len(s) THEN <<>>
            ELSE <<SubSeq(s, i, i + 1 + s[i + 1])>> \o from[i + 2 + s[i + 1]]
    IN  from

Frames(s) == Walk(s)[1]

\* Wherever the line is cut into reads, and whatever stray bytes precede a
\* message, the messages handed out are those of the line as a whole
\* (io.cpp:65).
FramedAsAWhole == pc = "read" => messages = Frames(received)

\* A message that the readers index up to byte 7 is as long as its second
\* byte says (J1772.cpp:137, io.cpp:80).
LengthIsTrue ==
    \A k \in 1 .. Len(messages) :
        LET m == messages[k]
        IN  Len(m) >= 2 /\ m[1] = STX /\ Len(m) = m[2] + 2
=============================================================================
