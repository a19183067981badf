------------------------- MODULE FrameParserProofs -------------------------
(* FrameParser for every alphabet, sync byte, payload bound and check sum:   *)
(* the buffer's invariant, and that the parser splits its input.             *)
EXTENDS FrameParser, SequenceTheorems, TLAPS

\* A buffer as every push leaves it: BufferShape with the type of the buffer.
Open(s) ==
    /\ s \in Seq(Byte)
    /\ s # <<>> =>
         /\ s[1] = SYNC
         /\ Len(s) > 1 => s[2] <= MAX_PAYLOAD /\ Len(s) < Need(s)

-----------------------------------------------------------------------------
\* An open buffer is shorter than a frame: there is room for one more byte,
\* and nothing in it can be reported.
LEMMA OpenIsShort ==
    ASSUME NEW s, Open(s)
    PROVE  Len(s) < MAX_FRAME
  <1>1. s \in Seq(Byte) /\ Len(s) \in Nat
    BY DEF Open
  <1>2. CASE Len(s) <= 1
    BY <1>1, <1>2, FrameAssumption DEF MAX_FRAME
  <1>3. CASE Len(s) > 1
    <2>1. s # <<>> /\ s[2] \in Nat
      <3>1. s[2] \in Byte /\ s # <<>>
        BY <1>1, <1>3
      <3> QED  BY <3>1, FrameAssumption
    <2>2. s[2] <= MAX_PAYLOAD /\ Len(s) < 3 + s[2]
      BY <2>1, <1>3 DEF Open, Need
    <2> QED  BY <1>1, <2>1, <2>2, FrameAssumption DEF MAX_FRAME
  <1> QED  BY <1>1, <1>2, <1>3

\* extract on a buffer that starts with SYNC, by how much of the frame it has.
LEMMA ExtractAtSync ==
    ASSUME NEW s \in Seq(Byte), s # <<>>, s[1] = SYNC
    PROVE  /\ Len(s) = 1 => extract(s) = [buf |-> s, out |-> Nothing]
           /\ Len(s) > 1 /\ s[2] > MAX_PAYLOAD =>
                extract(s) = [buf |-> <<>>, out |-> Garbage]
           /\ Len(s) > 1 /\ s[2] <= MAX_PAYLOAD /\ Len(s) < Need(s) =>
                extract(s) = [buf |-> s, out |-> Nothing]
           /\ Len(s) > 1 /\ s[2] <= MAX_PAYLOAD /\ Len(s) = Need(s) =>
                extract(s) = [buf |-> <<>>, out |-> Verdict(s)]
  <1>1. Len(s) \in Nat /\ Len(s) >= 1
    OBVIOUS
  <1>2. extract(s) = FromSync(s)
    <2>1. 1 \in SyncsIn(s)
      BY <1>1 DEF SyncsIn
    <2> QED  BY <2>1 DEF extract
  <1>3. ASSUME Len(s) > 1
        PROVE  s[2] \in Nat /\ MAX_PAYLOAD \in Nat /\ Need(s) \in Nat
    <2>1. s[2] \in Byte
      BY <1>1, <1>3
    <2>2. s[2] \in Nat /\ MAX_PAYLOAD \in Nat
      BY <2>1, FrameAssumption
    <2> QED  BY <2>2 DEF Need
  <1>4. Len(s) = 1 => extract(s) = [buf |-> s, out |-> Nothing]
    BY <1>2 DEF FromSync, Absurd, Rest, Keeps
  <1>5. ASSUME Len(s) > 1, s[2] > MAX_PAYLOAD
        PROVE  extract(s) = [buf |-> <<>>, out |-> Garbage]
    BY <1>1, <1>2, <1>3, <1>5 DEF FromSync, Absurd, Rest, Keeps
  <1>6. ASSUME Len(s) > 1, s[2] <= MAX_PAYLOAD, Len(s) < Need(s)
        PROVE  extract(s) = [buf |-> s, out |-> Nothing]
    BY <1>1, <1>2, <1>3, <1>6 DEF FromSync, Absurd, Rest, Keeps
  <1>7. ASSUME Len(s) > 1, s[2] <= MAX_PAYLOAD, Len(s) = Need(s)
        PROVE  extract(s) = [buf |-> <<>>, out |-> Verdict(s)]
    <2>1. extract(s) = Keeps(SubSeq(s, Need(s) + 1, Len(s)),
                             Verdict(SubSeq(s, 1, Need(s))))
      BY <1>1, <1>2, <1>3, <1>7 DEF FromSync, Absurd, Rest
    <2>2. SubSeq(s, 1, Len(s)) = s
      BY SubSeqFull
    <2>3. SubSeq(s, Len(s) + 1, Len(s)) = <<>>
      BY <1>1
    <2> QED  BY <1>7, <2>1, <2>2, <2>3 DEF Keeps
  <1> QED  BY <1>4, <1>5, <1>6, <1>7

\* The lengths that extract tells apart.
LEMMA OneOrMore ==
    ASSUME NEW s \in Seq(Byte), s # <<>>
    PROVE  Len(s) = 1 \/ Len(s) > 1
  <1>1. Len(s) \in Nat /\ Len(s) >= 1
    OBVIOUS
  <1> DEFINE n == Len(s)
  <1> HIDE DEF n
  <1>2. n \in Nat /\ n >= 1 => n = 1 \/ n > 1
    OBVIOUS
  <1> QED  BY <1>1, <1>2 DEF n

\* extract finds nothing to report in an open buffer.
LEMMA OpenOwesNothing ==
    ASSUME NEW s, Open(s)
    PROVE  extract(s) = [buf |-> s, out |-> Nothing]
  <1>1. CASE s = <<>>
    BY <1>1 DEF extract, SyncsIn, Keeps
  <1>2. CASE s # <<>>
    <2>1. s \in Seq(Byte) /\ s[1] = SYNC
      BY <1>2 DEF Open
    <2>2. Len(s) = 1 \/ Len(s) > 1
      BY <1>2, <2>1, OneOrMore
    <2>3. Len(s) > 1 => s[2] <= MAX_PAYLOAD /\ Len(s) < Need(s)
      BY <1>2 DEF Open
    <2> QED  BY <1>2, <2>1, <2>2, <2>3, ExtractAtSync
  <1> QED  BY <1>1, <1>2

-----------------------------------------------------------------------------
\* What one push does to an open buffer, byte by byte of the frame: the three
\* alternatives of ByteSplitter, on the buffer instead of the input.
Opens(s, b)   == /\ Splitter!IsOpen(Append(s, b))
                 /\ push(s, b) = [buf |-> Append(s, b), out |-> Nothing]
Rejects(s, b) == /\ Splitter!IsJunk(Append(s, b))
                 /\ push(s, b) = [buf |-> <<>>, out |-> Garbage]
Settles(s, b) == /\ Splitter!IsFramed(Append(s, b))
                 /\ push(s, b) = [buf |-> <<>>, out |-> Verdict(Append(s, b))]

\* push never takes its branch for a full buffer.
LEMMA PushAppends ==
    ASSUME NEW s, Open(s), NEW b
    PROVE  push(s, b) = extract(Append(s, b))
  BY OpenIsShort DEF push

\* The first byte of a stretch opens a frame or is junk.
LEMMA PushToEmpty ==
    ASSUME NEW b \in Byte
    PROVE  Opens(<<>>, b) \/ Rejects(<<>>, b)
  <1> DEFINE t == Append(<<>>, b)
  <1>1. t = <<b>> /\ t # <<>> /\ Len(t) = 1 /\ t[1] = b
    OBVIOUS
  <1>2. push(<<>>, b) = extract(t)
    <2>1. Open(<<>>)
      BY DEF Open
    <2> QED  BY <2>1, PushAppends
  <1>3. CASE b = SYNC
    <2>1. t \in Seq(Byte)
      OBVIOUS
    <2>2. extract(t) = [buf |-> t, out |-> Nothing]
      BY <1>1, <1>3, <2>1, ExtractAtSync
    <2> QED  BY <1>1, <1>2, <1>3, <2>2 DEF Opens, Splitter!IsOpen
  <1>4. CASE b # SYNC
    <2>1. SyncsIn(t) = {}
      BY <1>1, <1>4 DEF SyncsIn
    <2>2. extract(t) = [buf |-> <<>>, out |-> Garbage]
      BY <1>1, <2>1 DEF extract, Keeps
    <2> QED  BY <1>1, <1>2, <1>4, <2>2 DEF Rejects, Splitter!IsJunk
  <1> QED  BY <1>3, <1>4

\* A later byte keeps the frame open, shows its length absurd, or completes it.
LEMMA PushToOpen ==
    ASSUME NEW s, Open(s), s # <<>>, NEW b \in Byte
    PROVE  Opens(s, b) \/ Rejects(s, b) \/ Settles(s, b)
  <1> DEFINE t == Append(s, b)
  <1>1. /\ s \in Seq(Byte) /\ Len(s) \in Nat /\ Len(s) >= 1
        /\ s[1] = SYNC
    BY DEF Open
  <1>2. /\ t \in Seq(Byte) /\ Len(t) = Len(s) + 1 /\ t # <<>>
        /\ t[1] = SYNC /\ t[2] \in Nat /\ Len(t) > 1
    <2>1. t \in Seq(Byte) /\ Len(t) = Len(s) + 1 /\ t # <<>> /\ t[1] = SYNC
      BY <1>1
    <2>2. t[2] \in Byte /\ Len(t) > 1
      BY <1>1, <2>1
    <2> QED  BY <2>1, <2>2, FrameAssumption
  <1>3. push(s, b) = extract(t)
    BY PushAppends
  <1>4. t[2] \in Nat /\ Need(t) \in Nat
    BY <1>2 DEF Need
  <1> HIDE DEF t
  <1>5. CASE t[2] > MAX_PAYLOAD
    <2>1. Len(s) = 1
      <3>1. CASE Len(s) > 1
        <4>1. t[2] = s[2] /\ s[2] <= MAX_PAYLOAD
          BY <1>1, <3>1 DEF t, Open
        <4> QED  BY <1>2, <1>5, <4>1, FrameAssumption
      <3> QED  BY <1>1, <3>1, OneOrMore
    <2>2. extract(t) = [buf |-> <<>>, out |-> Garbage]
      BY <1>2, <1>5, ExtractAtSync
    <2> QED  BY <1>2, <1>3, <1>5, <2>1, <2>2 DEF t, Rejects, Splitter!IsJunk
  <1>6. CASE t[2] <= MAX_PAYLOAD /\ Len(t) < Need(t)
    <2>1. extract(t) = [buf |-> t, out |-> Nothing]
      BY <1>2, <1>6, ExtractAtSync
    <2> QED  BY <1>2, <1>3, <1>6, <2>1 DEF t, Opens, Splitter!IsOpen, Need
  <1>7. CASE t[2] <= MAX_PAYLOAD /\ Len(t) >= Need(t)
    <2>1. Len(t) = Need(t)
      <3>1. CASE Len(s) = 1
        BY <1>2, <1>7, <3>1 DEF Need
      <3>2. CASE Len(s) > 1
        <4>1. t[2] = s[2] /\ Len(s) < 3 + s[2]
          BY <1>1, <3>2 DEF t, Open, Need
        <4> QED  BY <1>1, <1>2, <1>7, <4>1 DEF Need
      <3> QED  BY <1>1, <3>1, <3>2, OneOrMore
    <2>2. extract(t) = [buf |-> <<>>, out |-> Verdict(t)]
      BY <1>2, <1>7, <2>1, ExtractAtSync
    <2> QED
      BY <1>2, <1>3, <1>7, <2>1, <2>2 DEF t, Settles, Splitter!IsFramed, Need
  <1>8. t[2] <= MAX_PAYLOAD \/ t[2] > MAX_PAYLOAD
    BY <1>2, FrameAssumption
  <1>9. Len(t) < Need(t) \/ Len(t) >= Need(t)
    BY <1>2 DEF Need
  <1> QED  BY <1>5, <1>6, <1>7, <1>8, <1>9

\* So these three are all that a push can do.
LEMMA PushCases ==
    ASSUME NEW s, Open(s), NEW b \in Byte
    PROVE  Opens(s, b) \/ Rejects(s, b) \/ Settles(s, b)
  BY PushToEmpty, PushToOpen

-----------------------------------------------------------------------------
\* One more byte at the end of a sequence is one more at the end of its tail.
LEMMA TailGrows ==
    ASSUME NEW s \in Seq(Byte), NEW b \in Byte, NEW n \in Nat, n <= Len(s)
    PROVE  SubSeq(Append(s, b), n + 1, Len(s) + 1)
             = Append(SubSeq(s, n + 1, Len(s)), b)
  <1> DEFINE whole == SubSeq(Append(s, b), n + 1, Len(s) + 1)
             part  == SubSeq(s, n + 1, Len(s))
  <1>1. /\ Len(s) \in Nat /\ Append(s, b) \in Seq(Byte)
        /\ Len(Append(s, b)) = Len(s) + 1
    OBVIOUS
  <1>2. part \in Seq(Byte) /\ Len(part) = Len(s) - n
    BY <1>1
  <1>3. whole \in Seq(Byte) /\ Len(whole) = Len(s) - n + 1
    BY <1>1
  <1>4. \A i \in 1..(Len(s) - n + 1) : whole[i] = Append(part, b)[i]
    BY <1>1, <1>2
  <1>5. Append(part, b) \in Seq(Byte) /\ Len(Append(part, b)) = Len(s) - n + 1
    BY <1>2
  <1> HIDE DEF whole, part
  <1>6. whole = Append(part, b)
    BY <1>3, <1>4, <1>5, SeqEqual
  <1> QED  BY <1>6 DEF whole, part

\* The kind and payload of a framed stretch are a byte and a payload.
LEMMA VerdictIsOutcome ==
    ASSUME NEW t \in Seq(Byte), Splitter!IsFramed(t)
    PROVE  Verdict(t) \in Outcome
  <1>1. /\ Len(t) >= 3 /\ t[2] <= MAX_PAYLOAD /\ Len(t) = 3 + t[2]
        /\ Len(t) \in Nat
    BY DEF Splitter!IsFramed
  <1>2. t[2] \in Byte /\ t[3] \in Byte
    BY <1>1
  <1>3. t[2] \in 0..MAX_PAYLOAD
    <2>1. t[2] \in Nat /\ MAX_PAYLOAD \in Nat
      BY <1>2, FrameAssumption
    <2> QED  BY <1>1, <2>1
  <1>4. SubSeq(t, 4, Len(t)) \in [1..t[2] -> Byte]
    <2> DEFINE p == SubSeq(t, 4, Len(t))
    <2>1. t[2] \in Nat /\ Len(t) = 3 + t[2]
      BY <1>1, <1>3, FrameAssumption
    <2>2. p \in Seq(Byte) /\ Len(p) = Len(t) - 3
      BY <1>1
    <2> HIDE DEF p
    <2>3. p \in [1..Len(p) -> Byte]
      BY <2>2
    <2>4. Len(p) = t[2]
      BY <2>1, <2>2
    <2> QED  BY <2>3, <2>4 DEF p
  <1>5. SubSeq(t, 4, Len(t)) \in Payload
    BY <1>3, <1>4 DEF Payload
  <1> QED  BY <1>2, <1>5 DEF Verdict, Outcome

\* The inductive invariant. TypeOK and BufferShape alone are inductive; that
\* the buffer holds the tail of the input is what the refinement needs.
Inv == TypeOK /\ BufferShape /\ HoldsTail

\* The invariant makes the buffer an open one.
LEMMA InvOpens == Inv => Open(buf)
  BY DEF Inv, TypeOK, BufferShape, Open

\* A new parser is empty.
LEMMA InitInv == Init => Inv
  <1> SUFFICES ASSUME Init PROVE Inv
    OBVIOUS
  <1>1. TypeOK
    BY FrameAssumption DEF Init, TypeOK, MAX_FRAME, Outcome
  <1>2. BufferShape
    BY DEF Init, BufferShape
  <1>3. HoldsTail
    BY DEF Init, HoldsTail
  <1> QED  BY <1>1, <1>2, <1>3 DEF Inv

\* A step from a state of the invariant, in the terms of ByteSplitter.
LEMMA PushStep ==
    ASSUME Inv, NEW b \in Byte, Push(b)
    PROVE  /\ input' = Append(input, b)
           /\ \/ Splitter!IsOpen(Append(buf, b)) /\ buf' = Append(buf, b)
                 /\ out' = Nothing
              \/ Splitter!IsJunk(Append(buf, b)) /\ buf' = <<>>
                 /\ out' = Garbage
              \/ Splitter!IsFramed(Append(buf, b)) /\ buf' = <<>>
                 /\ out' = Verdict(Append(buf, b))
  <1>1. /\ input' = Append(input, b)
        /\ buf' = push(buf, b).buf /\ out' = push(buf, b).out
    BY DEF Push
  <1>2. Opens(buf, b) \/ Rejects(buf, b) \/ Settles(buf, b)
    BY InvOpens, PushCases
  <1> QED  BY <1>1, <1>2 DEF Opens, Rejects, Settles

\* One more byte keeps the invariant.
LEMMA NextInv == Inv /\ [Next]_vars => Inv'
  <1> SUFFICES ASSUME Inv, [Next]_vars PROVE Inv'
    OBVIOUS
  <1>1. CASE UNCHANGED vars
    BY <1>1 DEF Inv, TypeOK, BufferShape, HoldsTail, vars, Need, MAX_FRAME,
                Outcome
  <1>2. ASSUME NEW b \in Byte, Push(b)
        PROVE  Inv'
    <2>1. /\ buf \in Seq(Byte) /\ input \in Seq(Byte)
          /\ Append(buf, b) \in Seq(Byte) /\ Append(input, b) \in Seq(Byte)
          /\ Len(buf) <= Len(input)
          /\ buf = SubSeq(input, Len(input) - Len(buf) + 1, Len(input))
      BY <1>2 DEF Inv, TypeOK, HoldsTail
    <2>2. input' = Append(input, b)
      BY <1>2, PushStep
    <2>3. CASE /\ Splitter!IsOpen(Append(buf, b)) /\ buf' = Append(buf, b)
               /\ out' = Nothing
      <3>1. Open(Append(buf, b))
        <4>1. Append(buf, b) \in Seq(Byte) /\ Append(buf, b) # <<>>
          BY <2>1
        <4> DEFINE t == Append(buf, b)
        <4> HIDE DEF t
        <4>2. t \in Seq(Byte) /\ t # <<>> /\ Splitter!IsOpen(t)
          BY <2>3, <4>1 DEF t
        <4>3. Open(t)
          BY <4>2 DEF Splitter!IsOpen, Open, Need
        <4> QED  BY <4>3 DEF t
      <3>2. TypeOK'
        <4>1. Len(Append(buf, b)) < MAX_FRAME /\ MAX_FRAME \in Nat
          <5>1. Len(Append(buf, b)) < MAX_FRAME
            BY <3>1, OpenIsShort
          <5>2. MAX_FRAME \in Nat
            BY FrameAssumption DEF MAX_FRAME
          <5> QED  BY <5>1, <5>2
        <4>2. Len(buf') <= MAX_FRAME
          BY <2>1, <2>3, <4>1
        <4> QED
          BY <2>1, <2>2, <2>3, <4>2 DEF TypeOK, Outcome, MAX_FRAME
      <3>3. BufferShape'
        BY <2>3, <3>1 DEF BufferShape, Open, Need
      <3>4. HoldsTail'
        <4> DEFINE n == Len(input) - Len(buf)
        <4>1. /\ n \in Nat /\ n <= Len(input) /\ Len(input) \in Nat
              /\ Len(input') = Len(input) + 1 /\ Len(buf') = Len(buf) + 1
              /\ Len(buf') <= Len(input')
              /\ Len(input') - Len(buf') = n
          BY <2>1, <2>2, <2>3
        <4>2. buf = SubSeq(input, n + 1, Len(input))
          BY <2>1
        <4> HIDE DEF n
        <4>3. buf' = SubSeq(input', n + 1, Len(input'))
          BY <2>1, <2>2, <2>3, <4>1, <4>2, TailGrows
        <4> QED  BY <4>1, <4>3 DEF HoldsTail
      <3> QED  BY <3>2, <3>3, <3>4 DEF Inv
    <2>4. CASE buf' = <<>> /\ out' \in Outcome
      <3>1. TypeOK'
        BY <2>1, <2>2, <2>4, FrameAssumption DEF TypeOK, MAX_FRAME
      <3>2. BufferShape'
        BY <2>4 DEF BufferShape
      <3>3. HoldsTail'
        BY <2>1, <2>2, <2>4 DEF HoldsTail
      <3> QED  BY <3>1, <3>2, <3>3 DEF Inv
    <2>5. Garbage \in Outcome
      BY DEF Outcome
    <2>6. Splitter!IsFramed(Append(buf, b)) => Verdict(Append(buf, b)) \in Outcome
      BY <2>1, VerdictIsOutcome
    <2> QED  BY <1>2, <2>3, <2>4, <2>5, <2>6, PushStep
  <1> QED  BY <1>1, <1>2 DEF Next

\* The variables keep their types and the buffer fits its array, for every
\* alphabet, payload bound and check sum.
THEOREM TypeCorrect == Spec => []TypeOK
  <1>1. Inv => TypeOK
    BY DEF Inv
  <1> QED  BY <1>1, InitInv, NextInv, PTL DEF Spec

\* Between calls the buffer is an incomplete frame behind a SYNC.
THEOREM BufferAlwaysShaped == Spec => []BufferShape
  <1>1. Inv => BufferShape
    BY DEF Inv
  <1> QED  BY <1>1, InitInv, NextInv, PTL DEF Spec

\* The buffer is the end of the input.
THEOREM BufferHoldsTail == Spec => []HoldsTail
  <1>1. Inv => HoldsTail
    BY DEF Inv
  <1> QED  BY <1>1, InitInv, NextInv, PTL DEF Spec

\* No call leaves an outcome behind for the next one.
THEOREM NeverOwes == Spec => []NothingOwed
  <1>1. Inv => NothingOwed
    BY InvOpens, OpenOwesNothing DEF NothingOwed
  <1> QED  BY <1>1, InitInv, NextInv, PTL DEF Spec

\* push never finds the buffer full: no byte is ever dropped.
THEOREM NeverFull == Spec => [](Len(buf) < MAX_FRAME)
  <1>1. Inv => Len(buf) < MAX_FRAME
    BY InvOpens, OpenIsShort
  <1> QED  BY <1>1, InitInv, NextInv, PTL DEF Spec

\* The outcomes of ByteSplitter are those of the parser.
LEMMA SameOutcomes ==
    /\ Splitter!Nothing = Nothing /\ Splitter!Garbage = Garbage
    /\ \A t : Splitter!Verdict(t) = Verdict(t)
  BY DEF Nothing, Splitter!Nothing, Garbage, Splitter!Garbage,
         Verdict, Splitter!Verdict, Frame, Splitter!Frame, BadCrc, Splitter!BadCrc

\* FrameParser implements ByteSplitter, with the cut behind the buffer.
THEOREM SplitsInput == Spec => SplitsItsInput
  <1>1. Init => Splitter!Init
    BY SameOutcomes DEF Init, Splitter!Init
  <1>2. ASSUME Inv, NEW b \in Byte, Push(b)
        PROVE  Splitter!Arrive(b)
    <2> DEFINE n == Len(input) - Len(buf)
    <2>1. /\ buf \in Seq(Byte) /\ input \in Seq(Byte)
          /\ buf = SubSeq(input, n + 1, Len(input))
          /\ Len(buf) <= Len(input)
      BY <1>2 DEF Inv, TypeOK, HoldsTail
    <2>2. input' = Append(input, b) /\ Len(input) < MaxBytes
      BY <1>2 DEF Push
    <2>3. buf' = Append(buf, b) => Len(input') - Len(buf') = n
      BY <2>1, <2>2
    <2>4. buf' = <<>> => Len(input') - Len(buf') = Len(input')
      BY <2>1, <2>2
    <2>5. /\ n' = Len(input') - Len(buf')
          /\ Append(SubSeq(input, n + 1, Len(input)), b) = Append(buf, b)
      BY <2>1
    <2> QED
      BY <1>2, <2>2, <2>3, <2>4, <2>5, PushStep, SameOutcomes
         DEF Splitter!Arrive
  <1>3. Inv /\ [Next]_vars
          => [Splitter!Next]_<<input, Len(input) - Len(buf), out>>
    BY <1>2 DEF Next, Splitter!Next, vars
  <1> QED
    BY <1>1, <1>3, InitInv, NextInv, PTL DEF Spec, SplitsItsInput, Splitter!Spec
=============================================================================
