---------------------------- MODULE SerialProof -----------------------------
(***************************************************************************)
(* Theorems about the framing, for every line, alphabet and chunk size.    *)
(***************************************************************************)
EXTENDS Serial, SequenceTheorems, WellFoundedInduction, TLAPS

LEMMA SubSeqType ==
    ASSUME NEW S, NEW s \in Seq(S), NEW m \in Nat \ {0}, NEW n \in Nat,
           n <= Len(s)
    PROVE  /\ SubSeq(s, m, n) \in Seq(S)
           /\ Len(SubSeq(s, m, n)) = IF m <= n THEN n - m + 1 ELSE 0
           /\ \A i \in 1 .. n - m + 1 : SubSeq(s, m, n)[i] = s[m + i - 1]
  OBVIOUS

LEMMA Regroup ==
    ASSUME NEW S
    PROVE  \A a, b, c \in Seq(S) : (a \o b) \o c = a \o (b \o c)
  BY ConcatAssociative

\* The message that starts at i, and what is left behind its end.
LEMMA CutOut ==
    ASSUME incomingBuffer \in Seq(Byte), NEW i \in Starts, IsComplete(i)
    PROVE  LET m == SubSeq(incomingBuffer, i, LastByte(i))
           IN  /\ m \in Seq(Byte)
               /\ Len(m) >= 2 /\ m[1] = STX /\ Len(m) = m[2] + 2
               /\ Rest(incomingBuffer, LastByte(i)) \in Seq(Byte)
  <1>1. /\ i \in Nat \ {0} /\ i + 1 \in 1 .. Len(incomingBuffer)
        /\ incomingBuffer[i] = STX
    BY DEF Starts, IsComplete
  <1>2. incomingBuffer[i + 1] \in Nat
    <2>1. incomingBuffer[i + 1] \in Byte
      BY <1>1
    <2> QED
      BY <2>1, SerialAssumption
  <1>3. /\ LastByte(i) \in Nat /\ i < LastByte(i)
        /\ LastByte(i) <= Len(incomingBuffer)
        /\ LastByte(i) - i + 1 = incomingBuffer[i + 1] + 2
    BY <1>1, <1>2 DEF LastByte, IsComplete
  <1> DEFINE last == LastByte(i)
             m    == SubSeq(incomingBuffer, i, last)
  <1>4. /\ m \in Seq(Byte) /\ Len(m) = last - i + 1
        /\ m[1] = incomingBuffer[i] /\ m[2] = incomingBuffer[i + 1]
    <2> HIDE DEF last
    <2> QED
      BY <1>1, <1>3, SubSeqType DEF last
  <1>5. Rest(incomingBuffer, last) \in Seq(Byte)
    <2> HIDE DEF last
    <2> QED
      BY <1>3, SubSeqType DEF Rest, last
  <1> QED
    BY <1>1, <1>2, <1>3, <1>4, <1>5

IInv == TypeOK /\ LengthIsTrue

LEMMA InitInv == Init => IInv
  BY SerialAssumption DEF Init, IInv, TypeOK, LengthIsTrue

LEMMA ReadInv ==
    ASSUME IInv, NEW n \in 1 .. BufferSize, n <= Len(line), Read(n)
    PROVE  IInv'
  <1>1. line \in Seq(Byte) /\ n \in Nat /\ n <= Len(line)
    BY SerialAssumption DEF IInv, TypeOK
  <1>2. SubSeq(line, 1, n) \in Seq(Byte) /\ Rest(line, n) \in Seq(Byte)
    BY <1>1, SubSeqType DEF Rest
  <1>3. /\ incomingBuffer \o SubSeq(line, 1, n) \in Seq(Byte)
        /\ received \o SubSeq(line, 1, n) \in Seq(Byte)
    BY <1>2 DEF IInv, TypeOK
  <1> QED
    BY <1>2, <1>3 DEF Read, IInv, TypeOK, LengthIsTrue

LEMMA LoopInv ==
    ASSUME IInv, TooShort \/ NoStart \/ Incomplete
    PROVE  IInv'
  <1>1. /\ incomingBuffer' \in {incomingBuffer, <<>>} /\ pc' = "read"
        /\ UNCHANGED <<line, messages, received>>
    BY DEF TooShort, NoStart, Incomplete, WaitForMore, LeaveLoop
  <1>2. incomingBuffer \in Seq(Byte) /\ <<>> \in Seq(Byte)
    BY DEF IInv, TypeOK
  <1>3. incomingBuffer' \in Seq(Byte)
    BY <1>1, <1>2
  <1> QED
    BY <1>1, <1>3 DEF IInv, TypeOK, LengthIsTrue

LEMMA ExtractInv ==
    ASSUME IInv, Extract
    PROVE  IInv'
  <1>1. PICK i \in Starts : TakeMessage(i, LastByte(i))
    BY DEF Extract
  <1> DEFINE m == SubSeq(incomingBuffer, i, LastByte(i))
  <1>2. /\ m \in Seq(Byte) /\ Len(m) >= 2 /\ m[1] = STX /\ Len(m) = m[2] + 2
        /\ Rest(incomingBuffer, LastByte(i)) \in Seq(Byte)
    BY <1>1, CutOut DEF IInv, TypeOK, TakeMessage
  <1>3. messages' = Append(messages, m)
    BY <1>1 DEF TakeMessage
  <1> HIDE DEF m
  <1>4. messages' \in Seq(Seq(Byte))
    BY <1>2, <1>3 DEF IInv, TypeOK
  <1>5. \A k \in 1 .. Len(messages') :
            messages'[k] = m
            \/ (k \in 1 .. Len(messages) /\ messages'[k] = messages[k])
    BY <1>3 DEF IInv, TypeOK
  <1>6. LengthIsTrue'
    BY <1>2, <1>5 DEF IInv, LengthIsTrue
  <1> QED
    BY <1>1, <1>2, <1>4, <1>6 DEF IInv, TypeOK, TakeMessage

LEMMA Invariant == Spec => []IInv
  <1>1. IInv /\ UNCHANGED vars => IInv'
    BY DEF vars, IInv, TypeOK, LengthIsTrue
  <1>2. IInv /\ [Next]_vars => IInv'
    BY <1>1, ReadInv, LoopInv, ExtractInv DEF Next
  <1> QED
    BY InitInv, <1>2, PTL DEF Spec

\* Every message handed out starts with the start byte and is as long as its
\* length byte says, whatever comes over the line and however it is cut.
THEOREM MessagesAreWellFormed == Spec => []LengthIsTrue
  <1>1. IInv => LengthIsTrue
    BY DEF IInv
  <1> QED
    BY <1>1, Invariant, PTL

\* What the buffer holds are bytes, and messages are made of these.
THEOREM TypeCorrect == Spec => []TypeOK
  <1>1. IInv => TypeOK
    BY DEF IInv
  <1> QED
    BY <1>1, Invariant, PTL

-----------------------------------------------------------------------------
(* Induction over the positions of a line: the numbers have a least-element *)
(* principle that takes a set and no operator.                             *)

LEMMA Least ==
    ASSUME NEW T \in SUBSET Nat, T # {}
    PROVE  \E n \in T : \A m \in T : n <= m
  <1> DEFINE R == OpToRel(<, Nat)
  <1>1. IsWellFoundedOn(R, Nat)
    BY NatLessThanWellFounded
  <1>2. \A i, j \in Nat : i < j => <<i, j>> \in R
    BY DEF OpToRel
  <1> HIDE DEF R
  <1>3. PICK n \in T : \A m \in T : <<m, n>> \notin R
    BY <1>1, WFMin
  <1>4. ASSUME NEW m \in T PROVE n <= m
    <2>1. n \in Nat /\ m \in Nat
      OBVIOUS
    <2>2. ~(m < n)
      BY <1>2, <1>3, <2>1
    <2> QED
      BY <2>1, <2>2
  <1> QED
    BY <1>4

\* What holds of a position if it holds of all behind it holds of all.
LEMMA Backwards ==
    ASSUME NEW n \in Nat, NEW T,
           \A i \in 1 .. n : (\A j \in i + 1 .. n : j \in T) => i \in T
    PROVE  1 .. n \subseteq T
  <1> DEFINE B == {k \in Nat : k < n /\ n - k \notin T}
  <1> SUFFICES ASSUME NEW i \in 1 .. n, i \notin T PROVE FALSE
    OBVIOUS
  <1>1. n - i \in B
    BY n - i \in Nat, n - (n - i) = i
  <1>2. PICK k \in B : \A m \in B : k <= m
    BY <1>1, Least
  <1>3. n - k \in 1 .. n /\ n - k \notin T
    BY <1>2
  <1>4. ASSUME NEW j \in n - k + 1 .. n PROVE j \in T
    <2>1. n - j \in Nat /\ n - j < k /\ n - (n - j) = j /\ k \in Nat
      BY <1>2
    <2>2. n - j \notin B
      BY <1>2, <2>1
    <2> QED
      BY <2>1, <2>2, <1>2
  <1> QED
    BY <1>3, <1>4

-----------------------------------------------------------------------------
(* The reference walk.                                                     *)

\* What Walk(s) says of position i, in terms of the positions behind it.
Found(s, g, i) ==
    IF i > Len(s) THEN <<>>
    ELSE IF s[i] # STX THEN g[i + 1]
    ELSE IF i = Len(s) \/ i + 1 + s[i + 1] > Len(s) THEN <<>>
    ELSE <<SubSeq(s, i, i + 1 + s[i + 1])>> \o g[i + 2 + s[i + 1]]

LEMMA ByteNat ==
    ASSUME NEW s \in Seq(Byte), NEW i \in 1 .. Len(s)
    PROVE  s[i] \in Nat
  <1>1. s[i] \in Byte
    OBVIOUS
  <1> QED
    BY <1>1, SerialAssumption

\* Only the positions behind i matter.
LEMMA FoundBehind ==
    ASSUME NEW s \in Seq(Byte), NEW g, NEW h, NEW i \in 1 .. Len(s) + 1,
           \A j \in i + 1 .. Len(s) + 1 : g[j] = h[j]
    PROVE  Found(s, g, i) = Found(s, h, i)
  <1>1. CASE i > Len(s)
    BY <1>1 DEF Found
  <1>2. CASE i <= Len(s) /\ s[i] # STX
    BY <1>2 DEF Found
  <1>3. CASE i = Len(s)
    BY <1>3 DEF Found
  <1>4. CASE i < Len(s) /\ s[i] = STX
    <2>1. s[i + 1] \in Nat
      BY <1>4, ByteNat
    <2>2. CASE i + 1 + s[i + 1] > Len(s)
      BY <1>4, <2>1, <2>2 DEF Found
    <2>3. CASE i + 1 + s[i + 1] <= Len(s)
      <3>1. i + 2 + s[i + 1] \in i + 1 .. Len(s) + 1
        BY <2>1, <2>3
      <3>2. g[i + 2 + s[i + 1]] = h[i + 2 + s[i + 1]]
        BY <3>1
      <3> QED
        BY <1>4, <3>2 DEF Found
    <2> QED
      BY <2>1, <2>2, <2>3
  <1> QED
    BY <1>1, <1>2, <1>3, <1>4

\* g is a walk over s from position i on.
WalksFrom(s, g, i) ==
    g = [j \in i .. Len(s) + 1 |-> Found(s, g, j)]

LEMMA WalkExists ==
    ASSUME NEW s \in Seq(Byte)
    PROVE  \E g : WalksFrom(s, g, 1)
  <1> DEFINE T == {i \in 1 .. Len(s) + 1 : \E g : WalksFrom(s, g, i)}
  <1>1. ASSUME NEW i \in 1 .. Len(s) + 1,
               \A j \in i + 1 .. Len(s) + 1 : j \in T
        PROVE  i \in T
    <2>1. \E h : \A j \in i + 1 .. Len(s) + 1 : h[j] = Found(s, h, j)
      <3>1. CASE i = Len(s) + 1
        BY <3>1
      <3>2. CASE i < Len(s) + 1
        <4>1. PICK h : WalksFrom(s, h, i + 1)
          BY <3>2, <1>1
        <4> QED
          BY <4>1 DEF WalksFrom
      <3> QED
        BY <3>1, <3>2
    <2>2. PICK h : \A j \in i + 1 .. Len(s) + 1 : h[j] = Found(s, h, j)
      BY <2>1
    <2> DEFINE g == [j \in i .. Len(s) + 1 |-> Found(s, h, j)]
    <2>3. \A j \in i + 1 .. Len(s) + 1 : g[j] = h[j]
      BY <2>2
    <2>4. \A j \in i .. Len(s) + 1 : g[j] = Found(s, h, j)
      OBVIOUS
    <2>5. g = [j \in i .. Len(s) + 1 |-> g[j]]
      OBVIOUS
    <2> HIDE DEF g
    <2>6. ASSUME NEW j \in i .. Len(s) + 1
          PROVE  Found(s, g, j) = Found(s, h, j)
      BY <2>3, FoundBehind
    <2>7. WalksFrom(s, g, i)
      BY <2>4, <2>5, <2>6 DEF WalksFrom
    <2> QED
      BY <2>7
  <1> HIDE DEF T
  <1>2. Len(s) + 1 \in Nat /\ 1 \in 1 .. Len(s) + 1
    OBVIOUS
  <1>3. 1 \in T
    BY <1>1, <1>2, Backwards
  <1> QED
    BY <1>3 DEF T

\* The recursion of Walk has a solution, so Walk is one.
LEMMA WalkDef ==
    ASSUME NEW s \in Seq(Byte)
    PROVE  \A i \in 1 .. Len(s) + 1 : Walk(s)[i] = Found(s, Walk(s), i)
  <1>1. PICK g : WalksFrom(s, g, 1)
    BY WalkExists
  <1>2. g = [i \in 1 .. Len(s) + 1 |-> Found(s, g, i)]
    BY <1>1 DEF WalksFrom
  <1>3. Walk(s) = [i \in 1 .. Len(s) + 1 |-> Found(s, Walk(s), i)]
    BY <1>2 DEF Walk, Found
  <1> DEFINE w == Walk(s)
  <1>4. w = [i \in 1 .. Len(s) + 1 |-> Found(s, w, i)]
    BY <1>3
  <1> HIDE DEF w
  <1>5. \A i \in 1 .. Len(s) + 1 : w[i] = Found(s, w, i)
    BY <1>4
  <1> QED
    BY <1>5 DEF w

\* What the walk finds at a position: nothing more, a stray byte to step over,
\* or a message to step behind.
LEMMA WalkCases ==
    ASSUME NEW s \in Seq(Byte), NEW i \in 1 .. Len(s) + 1
    PROVE  /\ i > Len(s) => Walk(s)[i] = <<>>
           /\ i <= Len(s) /\ s[i] # STX => Walk(s)[i] = Walk(s)[i + 1]
           /\ i = Len(s) /\ s[i] = STX => Walk(s)[i] = <<>>
           /\ i < Len(s) /\ s[i] = STX /\ i + 1 + s[i + 1] > Len(s) =>
                 Walk(s)[i] = <<>>
           /\ i < Len(s) /\ s[i] = STX /\ i + 1 + s[i + 1] <= Len(s) =>
                 Walk(s)[i] = <<SubSeq(s, i, i + 1 + s[i + 1])>>
                                 \o Walk(s)[i + 1 + s[i + 1] + 1]
  <1> DEFINE w == Walk(s)
  <1>1. w[i] = Found(s, w, i)
    BY WalkDef
  <1> HIDE DEF w
  <1>2. i > Len(s) => w[i] = <<>>
    BY <1>1 DEF Found
  <1>3. i <= Len(s) /\ s[i] # STX => w[i] = w[i + 1]
    BY <1>1 DEF Found
  <1>4. i = Len(s) /\ s[i] = STX => w[i] = <<>>
    BY <1>1 DEF Found
  <1>5. ASSUME i < Len(s), s[i] = STX
        PROVE  IF i + 1 + s[i + 1] > Len(s) THEN w[i] = <<>>
               ELSE w[i] = <<SubSeq(s, i, i + 1 + s[i + 1])>>
                              \o w[i + 1 + s[i + 1] + 1]
    <2>1. s[i + 1] \in Nat
      BY <1>5, ByteNat
    <2>2. i + 2 + s[i + 1] = i + 1 + s[i + 1] + 1
      BY <2>1
    <2>3. ~(i > Len(s)) /\ i # Len(s)
      BY <1>5
    <2>4. w[i] = IF i + 1 + s[i + 1] > Len(s) THEN <<>>
                 ELSE <<SubSeq(s, i, i + 1 + s[i + 1])>> \o w[i + 2 + s[i + 1]]
      BY <1>1, <1>5, <2>3, Zenon DEF Found
    <2> QED
      BY <2>2, <2>4, Zenon
  <1>6. i < Len(s) /\ s[i] = STX /\ i + 1 + s[i + 1] > Len(s) => w[i] = <<>>
    BY <1>5, Zenon
  <1>7. ASSUME i < Len(s), s[i] = STX, i + 1 + s[i + 1] <= Len(s)
        PROVE  w[i] = <<SubSeq(s, i, i + 1 + s[i + 1])>>
                         \o w[i + 1 + s[i + 1] + 1]
    <2>1. s[i + 1] \in Nat
      BY <1>7, ByteNat
    <2>2. ~(i + 1 + s[i + 1] > Len(s))
      BY <1>7, <2>1
    <2> QED
      BY <1>5, <1>7, <2>2, Zenon
  <1> QED
    BY <1>2, <1>3, <1>4, <1>6, <1>7 DEF w

LEMMA WalkType ==
    ASSUME NEW s \in Seq(Byte)
    PROVE  \A i \in 1 .. Len(s) + 1 : Walk(s)[i] \in Seq(Seq(Byte))
  <1> DEFINE w == Walk(s)
             T == {i \in 1 .. Len(s) + 1 : w[i] \in Seq(Seq(Byte))}
  <1>1. ASSUME NEW i \in 1 .. Len(s) + 1,
               \A j \in i + 1 .. Len(s) + 1 : j \in T
        PROVE  i \in T
    <2>1. \A j \in i + 1 .. Len(s) + 1 : w[j] \in Seq(Seq(Byte))
      BY <1>1
    <2>2. <<>> \in Seq(Seq(Byte))
      OBVIOUS
    <2>3. ASSUME i > Len(s) \/ (i = Len(s) /\ s[i] = STX)
          PROVE  w[i] \in Seq(Seq(Byte))
      BY <2>2, <2>3, WalkCases
    <2>4. ASSUME i <= Len(s), s[i] # STX
          PROVE  w[i] \in Seq(Seq(Byte))
      <3>1. i + 1 \in i + 1 .. Len(s) + 1
        BY <2>4
      <3> QED
        BY <2>1, <2>4, <3>1, WalkCases
    <2>5. ASSUME i < Len(s), s[i] = STX
          PROVE  w[i] \in Seq(Seq(Byte))
      <3>1. s[i + 1] \in Nat
        BY <2>5, ByteNat
      <3>2. CASE i + 1 + s[i + 1] > Len(s)
        BY <2>2, <2>5, <3>2, WalkCases
      <3>3. CASE i + 1 + s[i + 1] <= Len(s)
        <4> DEFINE last == i + 1 + s[i + 1]
        <4>1. last \in Nat /\ last <= Len(s) /\ i <= last
              /\ last + 1 \in i + 1 .. Len(s) + 1
          BY <3>1, <3>3
        <4>2. w[i] = <<SubSeq(s, i, last)>> \o w[last + 1]
          BY <2>5, <3>3, WalkCases
        <4> HIDE DEF last
        <4>3. SubSeq(s, i, last) \in Seq(Byte)
          BY <4>1, SubSeqType
        <4>4. <<SubSeq(s, i, last)>> \in Seq(Seq(Byte))
          BY <4>3
        <4>5. w[last + 1] \in Seq(Seq(Byte))
          BY <2>1, <4>1
        <4>6. w[i] \in Seq(Seq(Byte))
          BY <4>2, <4>4, <4>5, ConcatProperties
        <4> QED
          BY <4>6
      <3> QED
        BY <3>1, <3>2, <3>3
    <2>6. w[i] \in Seq(Seq(Byte))
      <3>1. /\ i > Len(s) \/ i = Len(s) \/ i < Len(s)
            /\ i <= Len(s) <=> i = Len(s) \/ i < Len(s)
        OBVIOUS
      <3> QED
        BY <2>3, <2>4, <2>5, <3>1, Zenon
    <2> QED
      BY <2>6
  <1> HIDE DEF T
  <1>2. Len(s) + 1 \in Nat
    OBVIOUS
  <1>3. 1 .. Len(s) + 1 \subseteq T
    BY <1>1, <1>2, Backwards
  <1> QED
    BY <1>3 DEF T

LEMMA FramesType ==
    ASSUME NEW s \in Seq(Byte)
    PROVE  Frames(s) \in Seq(Seq(Byte))
  BY WalkType, 1 \in 1 .. Len(s) + 1 DEF Frames

\* Bytes without a start byte say nothing.
LEMMA SkipStray ==
    ASSUME NEW s \in Seq(Byte), NEW n \in 0 .. Len(s),
           \A i \in 1 .. n : s[i] # STX
    PROVE  Frames(s) = Walk(s)[n + 1]
  <1> DEFINE w == Walk(s)
             T == {i \in 1 .. n + 1 : w[i] = w[n + 1]}
  <1>1. ASSUME NEW i \in 1 .. n + 1, \A j \in i + 1 .. n + 1 : j \in T
        PROVE  i \in T
    <2>1. CASE i = n + 1
      BY <2>1
    <2>2. CASE i <= n
      <3>1. i \in 1 .. Len(s) + 1 /\ i <= Len(s) /\ s[i] # STX
            /\ i + 1 \in i + 1 .. n + 1
        BY <2>2
      <3>2. w[i] = w[i + 1]
        BY <3>1, WalkCases
      <3> QED
        BY <1>1, <3>1, <3>2
    <2> QED
      BY <2>1, <2>2
  <1> HIDE DEF T
  <1>2. n + 1 \in Nat /\ 1 \in 1 .. n + 1
    OBVIOUS
  <1>3. 1 \in T
    BY <1>1, <1>2, Backwards
  <1> QED
    BY <1>3 DEF T, Frames

LEMMA RestType ==
    ASSUME NEW s \in Seq(Byte), NEW n \in 0 .. Len(s)
    PROVE  /\ Rest(s, n) \in Seq(Byte)
           /\ Len(Rest(s, n)) = Len(s) - n
           /\ \A i \in 1 .. Len(s) - n : Rest(s, n)[i] = s[n + i]
  <1>1. n + 1 \in Nat \ {0} /\ Len(s) \in Nat
    OBVIOUS
  <1> DEFINE r == SubSeq(s, n + 1, Len(s))
  <1>2. /\ r \in Seq(Byte)
        /\ Len(r) = IF n + 1 <= Len(s) THEN Len(s) - (n + 1) + 1 ELSE 0
        /\ \A i \in 1 .. Len(s) - (n + 1) + 1 : r[i] = s[n + 1 + i - 1]
    BY <1>1, SubSeqType
  <1> HIDE DEF r
  <1>3. Len(r) = Len(s) - n
    BY <1>2
  <1>4. \A i \in 1 .. Len(s) - n : r[i] = s[n + i]
    BY <1>2
  <1> QED
    BY <1>2, <1>3, <1>4 DEF Rest, r

\* A message lies in the rest of a line as it does in the line.
LEMMA RestCut ==
    ASSUME NEW s \in Seq(Byte), NEW n \in 0 .. Len(s),
           NEW i \in Nat \ {0}, NEW k \in i .. Len(s) - n
    PROVE  SubSeq(Rest(s, n), i, k) = SubSeq(s, n + i, n + k)
  <1>1. /\ Rest(s, n) \in Seq(Byte) /\ Len(Rest(s, n)) = Len(s) - n
        /\ \A j \in 1 .. Len(s) - n : Rest(s, n)[j] = s[n + j]
    BY RestType
  <1> DEFINE r == Rest(s, n)
             a == SubSeq(r, i, k)
             b == SubSeq(s, n + i, n + k)
  <1> HIDE DEF r
  <1>2. /\ a \in Seq(Byte) /\ Len(a) = k - i + 1
        /\ \A j \in 1 .. k - i + 1 : a[j] = r[i + j - 1]
    BY <1>1, SubSeqType DEF r
  <1>3. /\ b \in Seq(Byte) /\ Len(b) = k - i + 1
        /\ \A j \in 1 .. k - i + 1 : b[j] = s[n + i + j - 1]
    <2>1. n + i \in Nat \ {0} /\ n + k \in Nat /\ n + k <= Len(s)
          /\ n + i <= n + k /\ n + k - (n + i) + 1 = k - i + 1
      OBVIOUS
    <2> QED
      BY <2>1, SubSeqType
  <1> HIDE DEF a, b
  <1>4. \A j \in 1 .. Len(a) : a[j] = b[j]
    <2> TAKE j \in 1 .. Len(a)
    <2>1. j \in 1 .. k - i + 1 /\ i + j - 1 \in 1 .. Len(s) - n
          /\ n + (i + j - 1) = n + i + j - 1
      BY <1>2
    <2>2. a[j] = r[i + j - 1] /\ b[j] = s[n + i + j - 1]
      BY <1>2, <1>3, <2>1
    <2>3. r[i + j - 1] = s[n + (i + j - 1)]
      BY <1>1, <2>1 DEF r
    <2> QED
      BY <2>1, <2>2, <2>3
  <1>5. a = b
    BY <1>2, <1>3, <1>4, SeqEqual
  <1> QED
    BY <1>5 DEF a, b, r

\* The messages behind the first n bytes are those of what is left of them.
LEMMA WalkOfRest ==
    ASSUME NEW s \in Seq(Byte), NEW n \in 0 .. Len(s)
    PROVE  Frames(Rest(s, n)) = Walk(s)[n + 1]
  <1> DEFINE r == Rest(s, n)
             w == Walk(s)
             v == Walk(r)
             T == {i \in 1 .. Len(r) + 1 : v[i] = w[n + i]}
  <1>1. /\ r \in Seq(Byte) /\ Len(r) = Len(s) - n /\ Len(s) \in Nat
        /\ \A i \in 1 .. Len(s) - n : r[i] = s[n + i]
    BY RestType
  <1>2. ASSUME NEW i \in 1 .. Len(r) + 1,
               \A j \in i + 1 .. Len(r) + 1 : j \in T
        PROVE  i \in T
    <2>1. \A j \in i + 1 .. Len(r) + 1 : v[j] = w[n + j]
      BY <1>2
    <2> HIDE DEF r
    <2>2. /\ i \in Nat \ {0} /\ n + i \in 1 .. Len(s) + 1
          /\ i > Len(r) <=> n + i > Len(s)
          /\ i = Len(r) <=> n + i = Len(s)
          /\ i < Len(r) <=> n + i < Len(s)
          /\ i > Len(r) \/ i = Len(r) \/ i < Len(r)
      BY <1>1
    <2>3. ASSUME i > Len(r) PROVE v[i] = w[n + i]
      <3>1. v[i] = <<>>
        BY <1>1, <2>3, WalkCases
      <3>2. n + i > Len(s)
        BY <2>2, <2>3
      <3>3. w[n + i] = <<>>
        BY <2>2, <3>2, WalkCases
      <3> QED
        BY <3>1, <3>3
    <2>4. ASSUME i = Len(r) \/ i < Len(r), r[i] # STX PROVE v[i] = w[n + i]
      <3>1. i <= Len(r) /\ n + i <= Len(s) /\ s[n + i] # STX
        BY <1>1, <2>2, <2>4
      <3>2. v[i] = v[i + 1] /\ w[n + i] = w[n + i + 1]
        BY <1>1, <2>2, <2>4, <3>1, WalkCases
      <3>3. i + 1 \in i + 1 .. Len(r) + 1 /\ n + (i + 1) = n + i + 1
        BY <1>1, <3>1
      <3> QED
        BY <2>1, <3>2, <3>3
    <2>5. ASSUME i = Len(r), r[i] = STX PROVE v[i] = w[n + i]
      <3>1. n + i = Len(s) /\ s[n + i] = STX
        BY <1>1, <2>2, <2>5
      <3>2. v[i] = <<>>
        BY <1>1, <2>5, WalkCases
      <3>3. w[n + i] = <<>>
        BY <2>2, <3>1, WalkCases
      <3> QED
        BY <3>2, <3>3
    <2>6. ASSUME i < Len(r), r[i] = STX PROVE v[i] = w[n + i]
      <3> DEFINE last == i + 1 + r[i + 1]
      <3>1. /\ n + i < Len(s) /\ s[n + i] = STX
            /\ r[i + 1] = s[n + i + 1] /\ s[n + i + 1] \in Nat
        <4>1. i + 1 \in 1 .. Len(s) - n /\ n + (i + 1) = n + i + 1
              /\ n + i + 1 \in 1 .. Len(s)
          BY <1>1, <2>2, <2>6
        <4> QED
          BY <1>1, <2>2, <2>6, <4>1, ByteNat
      <3>2. n + i + 1 + s[n + i + 1] = n + last /\ last \in Nat /\ i < last
        <4>1. \A x \in Nat : /\ n + i + 1 + x = n + (i + 1 + x)
                             /\ i + 1 + x \in Nat /\ i < i + 1 + x
          BY <2>2
        <4>2. last = i + 1 + s[n + i + 1]
          BY <3>1
        <4> HIDE DEF last
        <4> QED
          BY <3>1, <4>1, <4>2
      <3>3. CASE last > Len(r)
        <4>1. n + i + 1 + s[n + i + 1] > Len(s)
          BY <1>1, <3>2, <3>3
        <4>2. v[i] = <<>>
          BY <1>1, <2>6, <3>3, WalkCases
        <4>3. w[n + i] = <<>>
          BY <2>2, <3>1, <4>1, WalkCases
        <4> QED
          BY <4>2, <4>3
      <3>4. CASE last <= Len(r)
        <4>1. n + i + 1 + s[n + i + 1] <= Len(s)
          BY <1>1, <3>2, <3>4
        <4>2. v[i] = <<SubSeq(r, i, last)>> \o v[last + 1]
          BY <1>1, <2>2, <2>6, <3>4, WalkCases
        <4>3. w[n + i] = <<SubSeq(s, n + i, n + last)>> \o w[n + last + 1]
          <5>1. w[n + i] = <<SubSeq(s, n + i, n + i + 1 + s[n + i + 1])>>
                              \o w[n + i + 1 + s[n + i + 1] + 1]
            BY <2>2, <3>1, <4>1, WalkCases
          <5> HIDE DEF last
          <5> QED
            BY <3>2, <5>1
        <4> HIDE DEF last
        <4>4. SubSeq(r, i, last) = SubSeq(s, n + i, n + last)
          <5>1. last \in i .. Len(s) - n
            BY <1>1, <3>2, <3>4
          <5> QED
            BY <2>2, <5>1, RestCut DEF r
        <4>5. v[last + 1] = w[n + last + 1]
          <5>1. last + 1 \in i + 1 .. Len(r) + 1 /\ n + (last + 1) = n + last + 1
            BY <1>1, <3>2, <3>4
          <5> QED
            BY <2>1, <5>1
        <4> QED
          BY <4>2, <4>3, <4>4, <4>5
      <3> QED
        BY <1>1, <3>2, <3>3, <3>4
    <2>7. v[i] = w[n + i]
      BY <2>2, <2>3, <2>4, <2>5, <2>6, Zenon
    <2> QED
      BY <2>7 DEF r
  <1> HIDE DEF r, T
  <1>3. Len(r) + 1 \in Nat /\ 1 \in 1 .. Len(r) + 1
    BY <1>1
  <1>4. 1 \in T
    BY <1>2, <1>3, Backwards
  <1> QED
    BY <1>4 DEF T, r, Frames

\* No message has come whole.
LEMMA NoFrame ==
    ASSUME NEW s \in Seq(Byte), NEW i \in 1 .. Len(s) + 1,
           \A j \in 1 .. i - 1 : s[j] # STX,
           i <= Len(s) => s[i] = STX,
           i < Len(s) => i + 1 + s[i + 1] > Len(s)
    PROVE  Frames(s) = <<>>
  <1>1. i - 1 \in 0 .. Len(s) /\ i - 1 + 1 = i
    OBVIOUS
  <1>2. Frames(s) = Walk(s)[i]
    BY <1>1, SkipStray
  <1>3. CASE i > Len(s)
    BY <1>2, <1>3, WalkCases
  <1>4. CASE i = Len(s)
    <2>1. i <= Len(s) /\ s[i] = STX
      BY <1>4
    <2>2. Walk(s)[i] = <<>>
      BY <1>4, <2>1, WalkCases
    <2> QED
      BY <1>2, <2>2
  <1>5. CASE i < Len(s)
    <2>1. i <= Len(s) /\ s[i] = STX /\ i + 1 + s[i + 1] > Len(s)
      BY <1>5
    <2>2. Walk(s)[i] = <<>>
      BY <1>5, <2>1, WalkCases
    <2> QED
      BY <1>2, <2>2
  <1> QED
    BY <1>3, <1>4, <1>5

\* The first message of a line, whatever follows it.
LEMMA FirstFrame ==
    ASSUME NEW s \in Seq(Byte), NEW i \in 1 .. Len(s) - 1, s[i] = STX,
           \A j \in 1 .. i - 1 : s[j] # STX,
           NEW last, last = i + 1 + s[i + 1], last <= Len(s)
    PROVE  Frames(s) = <<SubSeq(s, i, last)>> \o Frames(Rest(s, last))
  <1>1. i - 1 \in 0 .. Len(s) /\ i - 1 + 1 = i /\ i \in 1 .. Len(s) + 1
        /\ i < Len(s) /\ i + 1 \in 1 .. Len(s)
    OBVIOUS
  <1>2. Frames(s) = Walk(s)[i]
    BY <1>1, SkipStray
  <1>3. last \in 0 .. Len(s)
    BY <1>1, ByteNat
  <1>4. Walk(s)[i] = <<SubSeq(s, i, last)>> \o Walk(s)[last + 1]
    BY <1>1, WalkCases
  <1> QED
    BY <1>2, <1>3, <1>4, WalkOfRest

-----------------------------------------------------------------------------
(* What has been handed out, and what the buffer will give with whatever    *)
(* may still come, is what the whole line gives.                           *)

Chunks ==
    \A t \in Seq(Byte) :
        Frames(received \o t) = messages \o Frames(incomingBuffer \o t)

\* When read is called, no complete message is left in the buffer.
Dry == pc = "read" => Frames(incomingBuffer) = <<>>

FInv == TypeOK /\ Chunks /\ Dry

LEMMA InitFrames == Init => FInv
  <1> SUFFICES ASSUME Init PROVE FInv
    OBVIOUS
  <1>1. TypeOK
    BY InitInv DEF IInv
  <1>2. received = <<>> /\ messages = <<>> /\ incomingBuffer = <<>>
    BY DEF Init
  <1>3. Chunks
    <2> SUFFICES ASSUME NEW t \in Seq(Byte)
                 PROVE  Frames(<<>> \o t) = <<>> \o Frames(<<>> \o t)
      BY <1>2 DEF Chunks
    <2>1. <<>> \o t = t
      BY ConcatEmptySeq
    <2>2. Frames(t) \in Seq(Seq(Byte))
      BY FramesType
    <2>3. <<>> \o Frames(t) = Frames(t)
      BY <2>2, ConcatEmptySeq
    <2> QED
      BY <2>1, <2>3
  <1>4. Dry
    <2>1. /\ incomingBuffer \in Seq(Byte) /\ Len(incomingBuffer) = 0
          /\ 1 \in 1 .. Len(incomingBuffer) + 1 /\ 1 .. 1 - 1 = {}
      BY <1>2
    <2>2. /\ ~(1 <= Len(incomingBuffer)) /\ ~(1 < Len(incomingBuffer))
      BY <2>1
    <2>3. Frames(incomingBuffer) = <<>>
      BY <2>1, <2>2, NoFrame
    <2> QED
      BY <2>3 DEF Dry
  <1> QED
    BY <1>1, <1>3, <1>4 DEF FInv

\* A chunk moves from what may still come to what has come.
LEMMA ReadFrames ==
    ASSUME FInv, LengthIsTrue, NEW n \in 1 .. BufferSize, n <= Len(line), Read(n)
    PROVE  FInv'
  <1>1. TypeOK'
    BY ReadInv DEF IInv, FInv
  <1> DEFINE c == SubSeq(line, 1, n)
  <1>2. c \in Seq(Byte)
    BY SubSeqType, SerialAssumption DEF FInv, TypeOK
  <1>3. /\ received' = received \o c
        /\ incomingBuffer' = incomingBuffer \o c
        /\ messages' = messages /\ pc' = "loop"
    BY DEF Read
  <1> HIDE DEF c
  <1>4. received \in Seq(Byte) /\ incomingBuffer \in Seq(Byte)
    BY DEF FInv, TypeOK
  <1>5. Chunks'
    <2> SUFFICES ASSUME NEW t \in Seq(Byte)
                 PROVE  Frames((received \o c) \o t)
                           = messages \o Frames((incomingBuffer \o c) \o t)
      BY <1>3 DEF Chunks
    <2>1. c \o t \in Seq(Byte)
      BY <1>2
    <2>2. Frames(received \o (c \o t)) = messages \o Frames(incomingBuffer \o (c \o t))
      BY <2>1 DEF FInv, Chunks
    <2>3. \A x, y, z \in Seq(Byte) : (x \o y) \o z = x \o (y \o z)
      BY Regroup
    <2>4. (received \o c) \o t = received \o (c \o t)
      BY <1>2, <1>4, <2>3, Zenon
    <2>5. (incomingBuffer \o c) \o t = incomingBuffer \o (c \o t)
      BY <1>2, <1>4, <2>3, Zenon
    <2> QED
      BY <2>2, <2>4, <2>5
  <1> QED
    BY <1>1, <1>3, <1>5 DEF FInv, Dry

\* The loop is left with the buffer as it is, because no message is complete.
LEMMA WaitFrames ==
    ASSUME FInv, LengthIsTrue, TooShort \/ Incomplete
    PROVE  FInv'
  <1>1. TypeOK'
    BY LoopInv DEF IInv, FInv
  <1>2. UNCHANGED <<incomingBuffer, received, messages>>
    BY DEF TooShort, Incomplete, WaitForMore, LeaveLoop
  <1>3. incomingBuffer \in Seq(Byte)
    BY DEF FInv, TypeOK
  <1>4. Frames(incomingBuffer) = <<>>
    <2>1. CASE Incomplete
      <3>1. PICK i \in Starts : IsStart(i) /\ ~IsComplete(i)
        BY <2>1 DEF Incomplete, WaitForMore
      <3>2. /\ i \in 1 .. Len(incomingBuffer) + 1 /\ incomingBuffer[i] = STX
            /\ \A j \in 1 .. i - 1 : incomingBuffer[j] # STX
        BY <1>3, <3>1 DEF IsStart, Starts
      <3>3. ASSUME i < Len(incomingBuffer)
            PROVE  i + 1 + incomingBuffer[i + 1] > Len(incomingBuffer)
        <4>1. incomingBuffer[i + 1] \in Nat
          BY <1>3, <3>2, <3>3, ByteNat
        <4>2. ~(i + 1 + incomingBuffer[i + 1] <= Len(incomingBuffer))
          BY <3>1, <3>3 DEF IsComplete, LastByte
        <4> QED
          BY <1>3, <3>2, <4>1, <4>2
      <3> QED
        BY <1>3, <3>2, <3>3, NoFrame
    <2>2. CASE TooShort
      <3>1. Len(incomingBuffer) = 0 \/ Len(incomingBuffer) = 1
        <4>1. Len(incomingBuffer) < 2
          BY <2>2 DEF TooShort
        <4>2. Len(incomingBuffer) \in Nat
          BY <1>3
        <4>3. \A k \in Nat : k < 2 => k = 0 \/ k = 1
          OBVIOUS
        <4> QED
          BY <4>1, <4>2, <4>3, Zenon
      <3>2. CASE Len(incomingBuffer) = 0 \/ incomingBuffer[1] = STX
        <4>1. 1 \in 1 .. Len(incomingBuffer) + 1 /\ ~(1 < Len(incomingBuffer))
              /\ (1 <= Len(incomingBuffer) => incomingBuffer[1] = STX)
              /\ 1 .. 1 - 1 = {}
          BY <3>1, <3>2
        <4> QED
          BY <1>3, <4>1, NoFrame
      <3>3. CASE Len(incomingBuffer) = 1 /\ incomingBuffer[1] # STX
        <4>1. 2 \in 1 .. Len(incomingBuffer) + 1 /\ ~(2 <= Len(incomingBuffer))
              /\ ~(2 < Len(incomingBuffer))
              /\ \A j \in 1 .. 2 - 1 : incomingBuffer[j] # STX
          BY <3>3
        <4> QED
          BY <1>3, <4>1, NoFrame
      <3> QED
        BY <3>1, <3>2, <3>3
    <2> QED
      BY <2>1, <2>2
  <1> QED
    BY <1>1, <1>2, <1>4 DEF FInv, Chunks, Dry

\* Bytes without a start byte are thrown away, and were nobody's.
LEMMA StrayFrames ==
    ASSUME FInv, LengthIsTrue, NoStart
    PROVE  FInv'
  <1>1. TypeOK'
    BY LoopInv DEF IInv, FInv
  <1>2. incomingBuffer' = <<>> /\ UNCHANGED <<received, messages>>
    BY DEF NoStart, LeaveLoop
  <1>3. /\ incomingBuffer \in Seq(Byte) /\ Len(incomingBuffer) \in Nat
        /\ \A i \in 1 .. Len(incomingBuffer) : incomingBuffer[i] # STX
    BY DEF FInv, TypeOK, NoStart, Starts
  <1>4. Frames(incomingBuffer') = <<>>
    <2>1. /\ incomingBuffer' \in Seq(Byte) /\ Len(incomingBuffer') = 0
          /\ 1 \in 1 .. Len(incomingBuffer') + 1 /\ 1 .. 1 - 1 = {}
      BY <1>2
    <2>2. ~(1 <= Len(incomingBuffer')) /\ ~(1 < Len(incomingBuffer'))
      BY <2>1
    <2> QED
      BY <2>1, <2>2, NoFrame
  <1>5. Chunks'
    <2> SUFFICES ASSUME NEW t \in Seq(Byte)
                 PROVE  Frames(received \o t) = messages \o Frames(<<>> \o t)
      BY <1>2 DEF Chunks
    <2> DEFINE n == Len(incomingBuffer)
               s == incomingBuffer \o t
    <2>1. /\ s \in Seq(Byte) /\ Len(s) = n + Len(t)
          /\ \A i \in 1 .. n : s[i] = incomingBuffer[i]
          /\ \A i \in 1 .. Len(t) : s[n + i] = t[i]
      BY <1>3
    <2>2. n \in 0 .. Len(s) /\ \A i \in 1 .. n : s[i] # STX
      BY <1>3, <2>1
    <2> HIDE DEF s, n
    <2>3. Frames(s) = Frames(Rest(s, n))
      BY <2>1, <2>2, SkipStray, WalkOfRest
    <2>4. Rest(s, n) = t
      <3>1. /\ Rest(s, n) \in Seq(Byte) /\ Len(Rest(s, n)) = Len(t)
            /\ \A i \in 1 .. Len(t) : Rest(s, n)[i] = t[i]
        <4>1. Len(s) - n = Len(t)
          BY <2>1, <1>3 DEF n
        <4> QED
          BY <2>1, <2>2, <4>1, RestType
      <3> QED
        BY <3>1, SeqEqual
    <2>5. <<>> \o t = t
      BY ConcatEmptySeq
    <2>6. Frames(received \o t) = messages \o Frames(s)
      BY DEF FInv, Chunks, s
    <2> QED
      BY <2>3, <2>4, <2>5, <2>6
  <1> QED
    BY <1>1, <1>4, <1>5 DEF FInv, Dry

\* The message taken out is the first of those the buffer gives, now or with
\* whatever may still come.
LEMMA ExtractFrames ==
    ASSUME FInv, LengthIsTrue, Extract
    PROVE  FInv'
  <1>1. TypeOK'
    BY ExtractInv DEF IInv, FInv
  <1>2. PICK i \in Starts : TakeMessage(i, LastByte(i))
    BY DEF Extract
  <1> DEFINE b    == incomingBuffer
             last == LastByte(i)
             m    == SubSeq(b, i, last)
  <1>3. /\ b \in Seq(Byte) /\ Len(b) \in Nat
        /\ messages \in Seq(Seq(Byte))
    BY DEF FInv, TypeOK
  <1>4. /\ i \in 1 .. Len(b) - 1 /\ b[i] = STX
        /\ \A j \in 1 .. i - 1 : b[j] # STX
        /\ last = i + 1 + b[i + 1] /\ last <= Len(b)
    BY <1>2, <1>3 DEF TakeMessage, IsStart, IsComplete, Starts, LastByte
  <1>5. b[i + 1] \in Nat /\ last \in i .. Len(b) /\ last \in 0 .. Len(b)
    <2>1. i + 1 \in 1 .. Len(b)
      BY <1>3, <1>4
    <2>2. b[i + 1] \in Nat
      BY <1>3, <2>1, ByteNat
    <2> QED
      BY <1>3, <1>4, <2>2
  <1>6. /\ messages' = Append(messages, m)
        /\ incomingBuffer' = Rest(b, last)
        /\ received' = received /\ pc' = "loop"
    BY <1>2 DEF TakeMessage
  <1> HIDE DEF last
  <1>7. m \in Seq(Byte)
    BY <1>3, <1>4, <1>5, SubSeqType
  <1>8. Chunks'
    <2> SUFFICES ASSUME NEW t \in Seq(Byte)
                 PROVE  Frames(received \o t)
                           = Append(messages, m) \o Frames(Rest(b, last) \o t)
      BY <1>6 DEF Chunks
    <2> DEFINE s == b \o t
    <2>1. /\ s \in Seq(Byte) /\ Len(s) = Len(b) + Len(t) /\ Len(t) \in Nat
          /\ \A j \in 1 .. Len(b) : s[j] = b[j]
          /\ \A j \in 1 .. Len(t) : s[Len(b) + j] = t[j]
      BY <1>3
    <2> HIDE DEF s
    <2>2. /\ i \in 1 .. Len(s) - 1 /\ s[i] = STX
          /\ \A j \in 1 .. i - 1 : s[j] # STX
          /\ last = i + 1 + s[i + 1] /\ last <= Len(s)
          /\ last \in 0 .. Len(s)
      <3>1. /\ i \in 1 .. Len(b) /\ i + 1 \in 1 .. Len(b)
            /\ i \in 1 .. Len(s) - 1 /\ last <= Len(s) /\ last \in 0 .. Len(s)
            /\ \A j \in 1 .. i - 1 : j \in 1 .. Len(b)
        BY <1>3, <1>4, <1>5, <2>1
      <3>2. s[i] = b[i] /\ s[i + 1] = b[i + 1]
            /\ \A j \in 1 .. i - 1 : s[j] = b[j]
        BY <2>1, <3>1
      <3> QED
        BY <1>4, <3>1, <3>2
    <2>3. Frames(s) = <<SubSeq(s, i, last)>> \o Frames(Rest(s, last))
      BY <2>1, <2>2, FirstFrame
    <2>4. SubSeq(s, i, last) = m
      <3>1. i \in 1 .. Len(b) /\ last \in 1 .. Len(b)
        BY <1>3, <1>4, <1>5
      <3> QED
        BY <1>3, <3>1, SubSeqOfConcat1 DEF s
    <2>5. Rest(s, last) = Rest(b, last) \o t
      <3>1. /\ Rest(b, last) \in Seq(Byte) /\ Len(Rest(b, last)) = Len(b) - last
            /\ \A j \in 1 .. Len(b) - last : Rest(b, last)[j] = b[last + j]
        BY <1>3, <1>5, RestType
      <3>2. /\ Rest(s, last) \in Seq(Byte) /\ Len(Rest(s, last)) = Len(s) - last
            /\ \A j \in 1 .. Len(s) - last : Rest(s, last)[j] = s[last + j]
        BY <2>1, <2>2, RestType
      <3> DEFINE p == Rest(b, last)
                 q == Rest(s, last)
      <3> HIDE DEF p, q
      <3>3. /\ p \o t \in Seq(Byte) /\ Len(p \o t) = Len(p) + Len(t)
            /\ \A j \in 1 .. Len(p) + Len(t) :
                  (p \o t)[j] = IF j <= Len(p) THEN p[j] ELSE t[j - Len(p)]
        BY <3>1, ConcatProperties DEF p
      <3>4. Len(p \o t) = Len(q) /\ Len(q) \in Nat
        BY <1>3, <1>5, <2>1, <3>1, <3>2, <3>3 DEF p, q
      <3>5. \A j \in 1 .. Len(q) : q[j] = (p \o t)[j]
        <4> TAKE j \in 1 .. Len(q)
        <4>1. /\ j \in Nat \ {0} /\ Len(p) = Len(b) - last /\ last \in Nat
              /\ j \in 1 .. Len(p) + Len(t) /\ j \in 1 .. Len(s) - last
          BY <1>3, <1>5, <2>1, <3>1, <3>2, <3>3, <3>4 DEF p, q
        <4>2. q[j] = s[last + j]
          BY <3>2, <4>1 DEF q
        <4>3. CASE j <= Len(p)
          <5>1. last + j \in 1 .. Len(b) /\ j \in 1 .. Len(b) - last
            BY <1>3, <1>5, <4>1, <4>3
          <5>2. s[last + j] = b[last + j] /\ p[j] = b[last + j]
            BY <2>1, <3>1, <5>1 DEF p
          <5> QED
            BY <3>3, <4>1, <4>2, <4>3, <5>2
        <4>4. CASE j > Len(p)
          <5>1. j - Len(p) \in 1 .. Len(t) /\ Len(b) + (j - Len(p)) = last + j
            BY <1>3, <1>5, <2>1, <4>1, <4>4
          <5>2. s[last + j] = t[j - Len(p)]
            BY <2>1, <5>1
          <5>3. ~(j <= Len(p))
            BY <4>1, <4>4, <1>3, <1>5
          <5> QED
            BY <3>3, <4>1, <4>2, <5>2, <5>3
        <4> QED
          BY <4>1, <4>3, <4>4, <1>3, <1>5
      <3> QED
        BY <3>2, <3>3, <3>4, <3>5, SeqEqual DEF p, q
    <2>6. Frames(received \o t) = messages \o Frames(s)
      BY DEF FInv, Chunks, s
    <2> DEFINE f == Frames(Rest(b, last) \o t)
    <2>7. f \in Seq(Seq(Byte))
      <3>1. Rest(b, last) \in Seq(Byte)
        BY <1>3, <1>5, RestType
      <3>2. Rest(b, last) \o t \in Seq(Byte)
        BY <3>1, ConcatProperties
      <3> QED
        BY <3>2, FramesType
    <2>8. Frames(received \o t) = messages \o (<<m>> \o f)
      BY <2>3, <2>4, <2>5, <2>6
    <2> HIDE DEF f, m
    <2>9. <<m>> \in Seq(Seq(Byte))
      BY <1>7 DEF m
    <2>10. messages \o (<<m>> \o f) = (messages \o <<m>>) \o f
      <3> DEFINE M == Seq(Byte)
      <3> HIDE DEF M
      <3>1. \A x, y, z \in Seq(M) : (x \o y) \o z = x \o (y \o z)
        BY Regroup
      <3>2. \A x, y, z \in Seq(Seq(Byte)) : (x \o y) \o z = x \o (y \o z)
        BY <3>1 DEF M
      <3>3. (messages \o <<m>>) \o f = messages \o (<<m>> \o f)
        BY <1>3, <2>7, <2>9, <3>2, Zenon
      <3> QED
        BY <3>3
    <2>11. Append(messages, m) = messages \o <<m>>
      BY <1>3, <1>7, AppendIsConcat DEF m
    <2> QED
      BY <2>8, <2>10, <2>11 DEF f
  <1> QED
    BY <1>1, <1>6, <1>8 DEF FInv, Dry

LEMMA NextFrames == IInv /\ FInv /\ [Next]_vars => FInv'
  <1> SUFFICES ASSUME IInv, FInv, [Next]_vars PROVE FInv'
    OBVIOUS
  <1>1. LengthIsTrue
    BY DEF IInv
  <1>2. CASE UNCHANGED vars
    BY <1>2 DEF vars, FInv, TypeOK, Chunks, Dry
  <1>3. CASE \E n \in 1 .. BufferSize : n <= Len(line) /\ Read(n)
    BY <1>1, <1>3, ReadFrames
  <1>4. CASE TooShort \/ Incomplete
    BY <1>1, <1>4, WaitFrames
  <1>5. CASE NoStart
    BY <1>1, <1>5, StrayFrames
  <1>6. CASE Extract
    BY <1>1, <1>6, ExtractFrames
  <1> QED
    BY <1>2, <1>3, <1>4, <1>5, <1>6 DEF Next

\* However the line is cut into reads, the messages handed out are those that
\* the walk over the line as a whole finds, none lost, none made up and none
\* cut differently (io.cpp:65).
THEOREM Framed == Spec => []FramedAsAWhole
  <1>1. FInv => FramedAsAWhole
    <2> SUFFICES ASSUME FInv, pc = "read" PROVE messages = Frames(received)
      BY DEF FramedAsAWhole
    <2>1. /\ received \in Seq(Byte) /\ incomingBuffer \in Seq(Byte)
          /\ messages \in Seq(Seq(Byte)) /\ <<>> \in Seq(Byte)
      BY DEF FInv, TypeOK
    <2>2. Frames(received \o <<>>) = messages \o Frames(incomingBuffer \o <<>>)
      BY <2>1 DEF FInv, Chunks
    <2>3. /\ received \o <<>> = received
          /\ incomingBuffer \o <<>> = incomingBuffer
          /\ messages \o <<>> = messages
      BY <2>1, ConcatEmptySeq
    <2>4. Frames(incomingBuffer) = <<>>
      BY DEF FInv, Dry
    <2> QED
      BY <2>2, <2>3, <2>4
  <1> QED
    BY <1>1, InitFrames, NextFrames, Invariant, PTL DEF Spec
=============================================================================
