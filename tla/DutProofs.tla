----------------------------- MODULE DutProofs ------------------------------
(* Proofs about the detector, for every range of sequence numbers, cadence   *)
(* and length of the stream.                                                 *)
EXTENDS Dut, FiniteSetTheorems, TLAPS

DetectionRecord == [kind : DetKind, seq : Seqno, at : Nat, frame_idx : Nat]

DutRecord ==
    [cadence_ms : Nat, last_seq : Seqno \cup {NoSeq}, last_time : Nat,
     junk_run : Nat, burst_flagged : BOOLEAN, frame_idx : Nat,
     detections : Seq(DetectionRecord)]

FrameRecord == [kind : 0..255, seq : Seqno, bad_crc : BOOLEAN, garbage : BOOLEAN]

\* e is d with detections added, all made on d's current frame.
Extends(d, e) ==
    /\ e \in DutRecord
    /\ e.frame_idx = d.frame_idx
    /\ Len(d.detections) <= Len(e.detections)
    /\ \A i \in DOMAIN d.detections : e.detections[i] = d.detections[i]
    /\ \A i \in DOMAIN e.detections :
          i > Len(d.detections) => e.detections[i].frame_idx = d.frame_idx

-----------------------------------------------------------------------------
\* The operators of the detector.

\* The number expected next is a sequence number, at the wrap too.
LEMMA SuccessorType == ASSUME NEW s \in Seqno PROVE Successor(s) \in Seqno
  BY ModulusAssumption DEF Seqno, Successor

\* So is the number that an unreadable frame is guessed to have.
LEMMA GuessType == ASSUME NEW d \in DutRecord PROVE GuessSeq(d) \in Seqno
  BY SuccessorType, ModulusAssumption DEF DutRecord, GuessSeq, Seqno

\* Recording changes the list of detections only.
LEMMA RecordExtends ==
  ASSUME NEW d \in DutRecord, NEW kind \in DetKind, NEW s \in Seqno, NEW t \in Nat
  PROVE  LET e == Record(d, kind, s, t)
         IN  /\ Extends(d, e)
             /\ e.last_seq = d.last_seq /\ e.last_time = d.last_time
             /\ e.junk_run = d.junk_run /\ e.burst_flagged = d.burst_flagged
<1> DEFINE new == [kind |-> kind, seq |-> s, at |-> t, frame_idx |-> d.frame_idx]
           e == Record(d, kind, s, t)
<1>1. new \in DetectionRecord
  BY DEF DetectionRecord, DutRecord
<1>2. e = [d EXCEPT !.detections = Append(@, new)]
  BY DEF Record
<1>3. d.detections \in Seq(DetectionRecord)
  BY DEF DutRecord
<1>4. Append(d.detections, new) \in Seq(DetectionRecord)
  BY <1>1, <1>3
<1>5. /\ e \in DutRecord /\ e.detections = Append(d.detections, new)
      /\ e.frame_idx = d.frame_idx
      /\ e.last_seq = d.last_seq /\ e.last_time = d.last_time
      /\ e.junk_run = d.junk_run /\ e.burst_flagged = d.burst_flagged
  BY <1>2, <1>4 DEF DutRecord
<1>6. Extends(d, e)
  BY <1>1, <1>3, <1>5 DEF Extends
<1> QED BY <1>5, <1>6

\* Additions made one after the other on the same frame are one addition.
LEMMA ExtendsTransitive ==
  ASSUME NEW c \in DutRecord, NEW d \in DutRecord, NEW e, Extends(c, d), Extends(d, e)
  PROVE  Extends(c, e)
<1>1. /\ c.detections \in Seq(DetectionRecord) /\ d.detections \in Seq(DetectionRecord)
      /\ e.detections \in Seq(DetectionRecord)
  BY DEF DutRecord, Extends
<1>2. \A i \in DOMAIN e.detections :
         i > Len(c.detections) => e.detections[i].frame_idx = c.frame_idx
  BY <1>1 DEF Extends
<1>3. \A i \in DOMAIN c.detections : e.detections[i] = c.detections[i]
  BY <1>1 DEF Extends
<1> QED BY <1>1, <1>2, <1>3 DEF Extends

\* Junk lengthens the run and lowers the flag.
LEMMA JunkType ==
  ASSUME NEW d \in DutRecord
  PROVE  LET e == Junk(d)
         IN  /\ e \in DutRecord /\ e.junk_run = d.junk_run + 1 /\ ~e.burst_flagged
             /\ e.frame_idx = d.frame_idx /\ e.detections = d.detections
             /\ e.last_seq = d.last_seq /\ e.last_time = d.last_time
<1> DEFINE more == d.junk_run + 1
           counted == [d EXCEPT !.junk_run = more]
           e == [counted EXCEPT !.burst_flagged = FALSE]
<1>1. more \in Nat
  BY DEF DutRecord
<1>2. Junk(d) = e
  BY DEF Junk
<1> HIDE DEF more
<1>3. /\ counted \in DutRecord /\ counted.junk_run = more
      /\ counted.frame_idx = d.frame_idx /\ counted.detections = d.detections
      /\ counted.last_seq = d.last_seq /\ counted.last_time = d.last_time
  BY <1>1 DEF DutRecord
<1> HIDE DEF counted
<1>4. /\ e \in DutRecord /\ e.junk_run = more /\ e.burst_flagged = FALSE
      /\ e.frame_idx = d.frame_idx /\ e.detections = d.detections
      /\ e.last_seq = d.last_seq /\ e.last_time = d.last_time
  BY <1>3 DEF DutRecord
<1> QED BY <1>2, <1>4 DEF more

\* Whatever ends a run of junk: the run is over, and the rest is kept.
LEMMA CloseRunExtends ==
  ASSUME NEW d \in DutRecord, NEW t \in Nat
  PROVE  LET e == CloseRun(d, t)
         IN  /\ Extends(d, e) /\ e.junk_run = 0
             /\ e.last_seq = d.last_seq /\ e.last_time = d.last_time
<1> DEFINE quiet == [d EXCEPT !.junk_run = 0]
           flagged == [d EXCEPT !.junk_run = 0, !.burst_flagged = TRUE]
<1>1. CASE d.junk_run = 0
  BY <1>1 DEF CloseRun, Extends, DutRecord
<1>2. CASE d.junk_run # 0 /\ d.burst_flagged
  <2>1. /\ quiet \in DutRecord /\ quiet.junk_run = 0 /\ quiet.frame_idx = d.frame_idx
        /\ quiet.detections = d.detections
        /\ quiet.last_seq = d.last_seq /\ quiet.last_time = d.last_time
    BY DEF DutRecord
  <2>2. CloseRun(d, t) = quiet
    BY <1>2 DEF CloseRun
  <2> QED BY <2>1, <2>2 DEF Extends, DutRecord
<1>3. CASE d.junk_run # 0 /\ ~d.burst_flagged
  <2>1. /\ flagged \in DutRecord /\ flagged.junk_run = 0
        /\ flagged.frame_idx = d.frame_idx /\ flagged.detections = d.detections
        /\ flagged.last_seq = d.last_seq /\ flagged.last_time = d.last_time
    BY DEF DutRecord
  <2>2. CloseRun(d, t) = Record(flagged, "Burst", GuessSeq(d), t)
    BY <1>3 DEF CloseRun
  <2>3. GuessSeq(d) \in Seqno /\ "Burst" \in DetKind
    BY GuessType DEF DetKind
  <2>4. /\ Extends(flagged, CloseRun(d, t)) /\ CloseRun(d, t).junk_run = 0
        /\ CloseRun(d, t).last_seq = d.last_seq
        /\ CloseRun(d, t).last_time = d.last_time
    <3> HIDE DEF flagged
    <3>1. LET e == Record(flagged, "Burst", GuessSeq(d), t)
          IN  /\ Extends(flagged, e)
              /\ e.last_seq = flagged.last_seq /\ e.last_time = flagged.last_time
              /\ e.junk_run = flagged.junk_run
      BY <2>1, <2>3, RecordExtends
    <3> QED BY <2>1, <2>2, <3>1
  <2>5. Extends(d, CloseRun(d, t))
    <3> HIDE DEF flagged
    <3> QED BY <2>1, <2>4 DEF Extends
  <2> QED BY <2>4, <2>5
<1> QED BY <1>1, <1>2, <1>3 DEF DutRecord

\* What a measurement may show are kinds of detections.
LEMMA AnomaliesType ==
  ASSUME NEW d \in DutRecord, NEW s \in Seqno, NEW t \in Nat
  PROVE  Anomalies(d, s, t) \subseteq DetKind
<1> USE DEF DetKind
<1>1. CASE d.last_seq = NoSeq
  BY <1>1 DEF Anomalies
<1>2. CASE d.last_seq # NoSeq /\ s = Successor(d.last_seq)
  BY <1>2 DEF Anomalies
<1>3. CASE d.last_seq # NoSeq /\ s # Successor(d.last_seq)
  BY <1>3 DEF Anomalies
<1> QED BY <1>1, <1>2, <1>3

\* A measurement becomes the last one, and a run of junk stays as it was.
LEMMA MeasureExtends ==
  ASSUME NEW d \in DutRecord, NEW s \in Seqno, NEW t \in Nat
  PROVE  LET e == Measure(d, s, t)
         IN  /\ Extends(d, e) /\ e.junk_run = d.junk_run
             /\ e.last_seq = s /\ e.last_time = t
<1> DEFINE shown == Anomalies(d, s, t)
           chosen == CHOOSE k \in shown : TRUE
           noted == IF shown = {} THEN d ELSE Record(d, chosen, s, t)
           e == [noted EXCEPT !.last_seq = s, !.last_time = t]
<1>1. Measure(d, s, t) = e
  BY DEF Measure
<1>2. noted \in DutRecord /\ Extends(d, noted) /\ noted.junk_run = d.junk_run
  <2>1. CASE shown = {}
    BY <2>1 DEF Extends, DutRecord
  <2>2. CASE shown # {}
    <3>1. chosen \in DetKind
      BY <2>2, AnomaliesType
    <3>2. Extends(d, Record(d, chosen, s, t)) /\ Record(d, chosen, s, t).junk_run = d.junk_run
      BY <3>1, RecordExtends
    <3> QED BY <2>2, <3>2 DEF Extends
  <2> QED BY <2>1, <2>2
<1>3. /\ e \in DutRecord /\ e.last_seq = s /\ e.last_time = t
      /\ e.junk_run = d.junk_run /\ e.frame_idx = noted.frame_idx
      /\ e.detections = noted.detections
  BY <1>2 DEF DutRecord
<1> QED BY <1>1, <1>2, <1>3 DEF Extends

\* One frame: what it adds to the record, to the run of junk and its flag,
\* and to the last measurement.
LEMMA ProcessExtends ==
  ASSUME NEW d \in DutRecord, NEW f \in FrameRecord, NEW t \in Nat
  PROVE  LET e == process(d, f, t)
         IN  /\ Extends([d EXCEPT !.frame_idx = @ + 1], e)
             /\ f.garbage => e.junk_run = d.junk_run + 1 /\ ~e.burst_flagged
             /\ ~f.garbage => e.junk_run = 0
             /\ IsMeasurement(f) => e.last_seq = f.seq /\ e.last_time = t
             /\ ~IsMeasurement(f) => e.last_seq = d.last_seq /\ e.last_time = d.last_time
<1> DEFINE came == [d EXCEPT !.frame_idx = @ + 1]
           closed == CloseRun(came, t)
           e == process(d, f, t)
<1>1. /\ came \in DutRecord /\ came.junk_run = d.junk_run
      /\ came.last_seq = d.last_seq /\ came.last_time = d.last_time
  BY DEF DutRecord
<1>2. /\ f.garbage \in BOOLEAN /\ f.bad_crc \in BOOLEAN /\ f.seq \in Seqno
  BY DEF FrameRecord
<1>3. CASE f.garbage
  <2>1. e = Junk(came) /\ ~IsMeasurement(f)
    BY <1>3 DEF process, IsMeasurement
  <2>2. /\ e \in DutRecord /\ e.junk_run = came.junk_run + 1 /\ ~e.burst_flagged
        /\ e.frame_idx = came.frame_idx /\ e.detections = came.detections
        /\ e.last_seq = came.last_seq /\ e.last_time = came.last_time
    <3> HIDE DEF came, e
    <3> QED BY <1>1, <2>1, JunkType
  <2>3. Extends(came, e)
    <3> HIDE DEF came, e
    <3> QED BY <1>1, <2>2 DEF Extends, DutRecord
  <2> QED BY <1>1, <1>3, <2>1, <2>2, <2>3
<1>4. CASE ~f.garbage
  <2>1. /\ Extends(came, closed) /\ closed.junk_run = 0 /\ closed \in DutRecord
        /\ closed.last_seq = d.last_seq /\ closed.last_time = d.last_time
    <3> HIDE DEF came
    <3>1. /\ Extends(came, closed) /\ closed.junk_run = 0
          /\ closed.last_seq = came.last_seq /\ closed.last_time = came.last_time
      BY <1>1, CloseRunExtends
    <3> QED BY <1>1, <3>1 DEF Extends
  <2>2. CASE f.bad_crc
    <3>1. e = Record(closed, "Crc", GuessSeq(closed), t) /\ ~IsMeasurement(f)
      BY <1>4, <2>2 DEF process, IsMeasurement, Unverified
    <3>2. GuessSeq(closed) \in Seqno /\ "Crc" \in DetKind
      BY <2>1, GuessType DEF DetKind
    <3> HIDE DEF came, closed, e
    <3>3. /\ Extends(closed, e) /\ e.junk_run = closed.junk_run
          /\ e.last_seq = closed.last_seq /\ e.last_time = closed.last_time
      BY <2>1, <3>1, <3>2, RecordExtends
    <3>4. Extends(came, e)
      BY <1>1, <2>1, <3>3, ExtendsTransitive
    <3> QED BY <1>4, <2>1, <3>1, <3>3, <3>4 DEF came, e
  <2>3. CASE ~f.bad_crc /\ f.kind = K_SENSOR
    <3>1. e = Measure(closed, f.seq, t) /\ IsMeasurement(f)
      BY <1>4, <2>3 DEF process, IsMeasurement
    <3> HIDE DEF came, closed, e
    <3>2. /\ Extends(closed, e) /\ e.junk_run = closed.junk_run
          /\ e.last_seq = f.seq /\ e.last_time = t
      BY <1>2, <2>1, <3>1, MeasureExtends
    <3>3. Extends(came, e)
      BY <1>1, <2>1, <3>2, ExtendsTransitive
    <3> QED BY <1>4, <2>1, <3>1, <3>2, <3>3 DEF came, e
  <2>4. CASE ~f.bad_crc /\ f.kind # K_SENSOR
    <3>1. e = closed /\ ~IsMeasurement(f)
      BY <1>4, <2>4 DEF process, IsMeasurement
    <3> HIDE DEF closed
    <3> QED BY <1>4, <2>1, <3>1
  <2> QED BY <1>2, <2>2, <2>3, <2>4
<1> QED BY <1>2, <1>3, <1>4

-----------------------------------------------------------------------------
\* The inductive invariant.

\* The measurements seen have a last one: MeasuredBefore is empty or has a
\* maximum, which is what LastBefore chooses.
HasLast ==
    LET n == Len(arrived) + 1
    IN  MeasuredBefore(n) # {} =>
            \E j \in MeasuredBefore(n) : \A k \in MeasuredBefore(n) : k <= j

DutInv ==
    /\ dut \in DutRecord /\ now \in Nat
    /\ arrived \in Seq([frame : FrameRecord, at : Nat])
    /\ dut.last_time <= now
    /\ dut.frame_idx = Len(arrived) /\ dut.junk_run <= dut.frame_idx
    /\ \A i \in DOMAIN dut.detections : dut.detections[i].frame_idx \in 1..dut.frame_idx
    /\ DetectionsInOrder
    /\ FlagHidesNoBurst
    /\ HasLast /\ RemembersLastMeasurement

\* The frames that arrive are frames as parse_stream makes them.
LEMMA FramesType == Frames \subseteq FrameRecord
<1>1. DuGarbage \in FrameRecord
  BY ModulusAssumption DEF DuGarbage, FrameRecord, Seqno
<1>2. \A k \in {K_SENSOR} \cup OtherKinds : DuBadCrc(k) \in FrameRecord
  BY ModulusAssumption, DutAssumption DEF DuBadCrc, FrameRecord, Seqno
<1>3. \A k \in {K_SENSOR} \cup OtherKinds, s \in Seqno : DuFrame(k, s) \in FrameRecord
  BY DutAssumption DEF DuFrame, FrameRecord
<1>4. 0 \in Seqno
  BY ModulusAssumption DEF Seqno
<1> QED BY <1>1, <1>2, <1>3, <1>4 DEF Frames

\* A new detector has seen nothing and remembers nothing.
LEMMA InitInv == DutInit => DutInv
<1> SUFFICES ASSUME DutInit PROVE DutInv
  OBVIOUS
<1>1. dut \in DutRecord /\ dut.detections = <<>> /\ dut.frame_idx = 0
  BY DutAssumption DEF DutInit, NewDut, DutRecord, NoSeq
<1>2. MeasuredBefore(Len(arrived) + 1) = {}
  BY DEF DutInit, MeasuredBefore
<1> QED
  BY <1>1, <1>2 DEF DutInit, NewDut, DutInv, DetectionsInOrder, FlagHidesNoBurst, HasLast,
                    RemembersLastMeasurement

\* One more frame: the last measurement is that frame, or the one it was.
LEMMA StepRemembers ==
  ASSUME DutInv, NEW f \in FrameRecord, NEW t \in Nat, 
         arrived' = Append(arrived, [frame |-> f, at |-> t]),
         IsMeasurement(f) => dut'.last_seq = f.seq /\ dut'.last_time = t,
         ~IsMeasurement(f) =>
            dut'.last_seq = dut.last_seq /\ dut'.last_time = dut.last_time
  PROVE  HasLast' /\ RemembersLastMeasurement'
<1> DEFINE n == Len(arrived) + 1
           old == MeasuredBefore(n)
           new == {j \in 1..n : IsMeasurement(arrived'[j].frame)}
<1>1. /\ n \in Nat /\ Len(arrived') = n /\ arrived'[n] = [frame |-> f, at |-> t]
      /\ \A j \in 1..(n - 1) : arrived'[j] = arrived[j]
  BY DEF DutInv
<1>2. MeasuredBefore(Len(arrived) + 1)' = new
  BY <1>1 DEF MeasuredBefore
<1>3. old \subseteq 1..(n - 1) /\ \A j \in old : arrived'[j] = arrived[j]
  BY <1>1 DEF MeasuredBefore
<1>4. CASE IsMeasurement(f)
  <2>1. n \in new /\ \A k \in new : k <= n
    BY <1>1, <1>4
  <2>2. LastBefore(Len(arrived) + 1)' = n
    <3>1. \A j \in new : (\A k \in new : k <= j) => j = n
      BY <1>1, <2>1
    <3> QED BY <1>2, <2>1, <3>1 DEF LastBefore
  <2>3. /\ MeasuredBefore(Len(arrived) + 1)' # {}
        /\ arrived'[LastBefore(Len(arrived) + 1)'] = [frame |-> f, at |-> t]
    BY <1>1, <1>2, <2>1, <2>2
  <2>4. RemembersLastMeasurement'
    <3>1. /\ dut'.last_seq = arrived'[LastBefore(Len(arrived) + 1)'].frame.seq
          /\ dut'.last_time = arrived'[LastBefore(Len(arrived) + 1)'].at
      <4>1. dut'.last_seq = f.seq /\ dut'.last_time = t
        BY <1>4
      <4>2. /\ arrived'[LastBefore(Len(arrived) + 1)'].frame = f
            /\ arrived'[LastBefore(Len(arrived) + 1)'].at = t
        <5> DEFINE r == [frame |-> f, at |-> t]
        <5>1. r.frame = f /\ r.at = t
          OBVIOUS
        <5>2. arrived'[LastBefore(Len(arrived) + 1)'] = r
          BY <2>3
        <5> HIDE DEF r
        <5> QED BY <5>1, <5>2, Zenon
      <4> QED BY <4>1, <4>2, Zenon
    <3>2. (MeasuredBefore(Len(arrived) + 1) # {})'
      BY <2>3
    <3> QED BY <3>1, <3>2, Zenon DEF RemembersLastMeasurement
  <2>5. HasLast'
    BY <1>2, <2>1 DEF HasLast
  <2> QED BY <2>4, <2>5
<1>5. CASE ~IsMeasurement(f)
  <2>1. new = old
    BY <1>1, <1>5 DEF MeasuredBefore
  <2>2. HasLast'
    BY <1>2, <2>1 DEF DutInv, HasLast
  <2>3. LastBefore(Len(arrived) + 1)' = LastBefore(n)
    BY <1>2, <2>1 DEF LastBefore
  <2>4. CASE old = {}
    BY <1>2, <1>5, <2>1, <2>2, <2>4 DEF DutInv, RemembersLastMeasurement
  <2>5. CASE old # {}
    <3>1. LastBefore(n) \in old
      BY <2>5 DEF DutInv, HasLast, LastBefore
    <3> QED BY <1>2, <1>3, <1>5, <2>1, <2>2, <2>3, <2>5, <3>1
            DEF DutInv, RemembersLastMeasurement
  <2> QED BY <2>4, <2>5
<1> QED BY <1>4, <1>5

\* One frame keeps each part of the invariant.
LEMMA NextInv == DutInv /\ [DutNext]_dutVars => DutInv'
<1> SUFFICES ASSUME DutInv, [DutNext]_dutVars PROVE DutInv'
  OBVIOUS
<1>1. CASE DutNext
  <2>1. PICK f \in Frames, delay \in Delays : Process(f, delay)
    BY <1>1 DEF DutNext
  <2> DEFINE came == [dut EXCEPT !.frame_idx = @ + 1]
  <2>2. f \in FrameRecord /\ delay \in Nat /\ now' \in Nat /\ now <= now'
    BY <2>1, FramesType, DutAssumption DEF Process, DutInv
  <2>3. /\ Extends(came, dut')
        /\ f.garbage => dut'.junk_run = dut.junk_run + 1 /\ ~dut'.burst_flagged
        /\ ~f.garbage => dut'.junk_run = 0
        /\ IsMeasurement(f) => dut'.last_seq = f.seq /\ dut'.last_time = now'
        /\ ~IsMeasurement(f) =>
              dut'.last_seq = dut.last_seq /\ dut'.last_time = dut.last_time
    <3>1. dut' = process(dut, f, now') /\ dut \in DutRecord
      BY <2>1 DEF Process, DutInv
    <3>2. LET e == process(dut, f, now')
          IN  /\ Extends([dut EXCEPT !.frame_idx = @ + 1], e)
              /\ f.garbage => e.junk_run = dut.junk_run + 1 /\ ~e.burst_flagged
              /\ ~f.garbage => e.junk_run = 0
              /\ IsMeasurement(f) => e.last_seq = f.seq /\ e.last_time = now'
              /\ ~IsMeasurement(f) =>
                    e.last_seq = dut.last_seq /\ e.last_time = dut.last_time
      <4> DEFINE t == now'
      <4>1. t \in Nat
        BY <2>2
      <4> HIDE DEF t
      <4>2. LET e == process(dut, f, t)
            IN  /\ Extends([dut EXCEPT !.frame_idx = @ + 1], e)
                /\ f.garbage => e.junk_run = dut.junk_run + 1 /\ ~e.burst_flagged
                /\ ~f.garbage => e.junk_run = 0
                /\ IsMeasurement(f) => e.last_seq = f.seq /\ e.last_time = t
                /\ ~IsMeasurement(f) =>
                      e.last_seq = dut.last_seq /\ e.last_time = dut.last_time
        BY <2>2, <3>1, <4>1, ProcessExtends
      <4> QED BY <4>2 DEF t
    <3> QED BY <3>1, <3>2
  <2>4. /\ came \in DutRecord /\ came.frame_idx = Len(arrived) + 1
        /\ came.detections = dut.detections
    BY DEF DutInv, DutRecord
  <2>5. /\ arrived' = Append(arrived, [frame |-> f, at |-> now'])
        /\ arrived' \in Seq([frame : FrameRecord, at : Nat])
        /\ Len(arrived') = Len(arrived) + 1
    BY <2>1, <2>2 DEF Process, DutInv
  <2> HIDE DEF came
  <2>6. /\ dut' \in DutRecord /\ dut'.frame_idx = Len(arrived')
        /\ dut'.detections \in Seq(DetectionRecord)
        /\ dut.detections \in Seq(DetectionRecord)
        /\ Len(dut.detections) <= Len(dut'.detections)
        /\ \A i \in DOMAIN dut.detections : dut'.detections[i] = dut.detections[i]
        /\ \A i \in DOMAIN dut'.detections :
              i > Len(dut.detections) => dut'.detections[i].frame_idx = Len(arrived')
    BY <2>3, <2>4, <2>5 DEF Extends, DutInv, DutRecord
  <2>7. dut'.last_time <= now'
    BY <2>2, <2>3 DEF DutInv, DutRecord
  <2>8. dut'.junk_run <= dut'.frame_idx /\ FlagHidesNoBurst'
    BY <2>2, <2>3, <2>5, <2>6 DEF DutInv, DutRecord, FrameRecord, FlagHidesNoBurst
  <2>9. \A i \in DOMAIN dut'.detections :
           dut'.detections[i].frame_idx \in 1..dut'.frame_idx
    <3> SUFFICES ASSUME NEW i \in DOMAIN dut'.detections
                 PROVE  dut'.detections[i].frame_idx \in 1..dut'.frame_idx
      OBVIOUS
    <3>1. Len(arrived) \in Nat
      BY DEF DutInv
    <3>2. CASE i > Len(dut.detections)
      BY <2>5, <2>6, <3>1, <3>2
    <3>3. CASE i <= Len(dut.detections)
      <4>1. i \in DOMAIN dut.detections
        BY <2>6, <3>3
      <4>2. dut.detections[i].frame_idx \in 1..Len(arrived)
        BY <4>1 DEF DutInv
      <4> QED BY <2>5, <2>6, <3>1, <4>1, <4>2
    <3>4. i \in Nat /\ Len(dut.detections) \in Nat
      BY <2>6
    <3> QED BY <3>2, <3>3, <3>4
  <2>10. DetectionsInOrder'
    <3> SUFFICES ASSUME NEW i \in DOMAIN dut'.detections,
                        NEW j \in DOMAIN dut'.detections, i < j
                 PROVE  dut'.detections[i].frame_idx <= dut'.detections[j].frame_idx
      BY DEF DetectionsInOrder
    <3>1. CASE j > Len(dut.detections)
      BY <2>6, <2>9, <3>1
    <3>2. CASE j <= Len(dut.detections)
      <4>1. i \in DOMAIN dut.detections /\ j \in DOMAIN dut.detections
        BY <2>6, <3>2
      <4>2. dut.detections[i].frame_idx <= dut.detections[j].frame_idx
        BY <4>1 DEF DutInv, DetectionsInOrder
      <4> QED BY <2>6, <4>1, <4>2
    <3> QED BY <2>6, <3>1, <3>2
  <2>11. HasLast' /\ RemembersLastMeasurement'
    BY <2>2, <2>3, <2>5, StepRemembers
  <2> QED BY <2>2, <2>5, <2>6, <2>7, <2>8, <2>9, <2>10, <2>11 DEF DutInv
<1>2. CASE UNCHANGED dutVars
  BY <1>2 DEF dutVars, DutInv, DetectionsInOrder, FlagHidesNoBurst, HasLast,
              RemembersLastMeasurement, MeasuredBefore, LastBefore
<1> QED BY <1>1, <1>2

\* The invariant holds of every state the detector can reach.
LEMMA AlwaysInv == DutSpec => []DutInv
  BY InitInv, NextInv, PTL DEF DutSpec

-----------------------------------------------------------------------------
(* What one frame adds to the list, exactly.                                 *)

Note(kind, s, t, i) == [kind |-> kind, seq |-> s, at |-> t, frame_idx |-> i]

\* The frame closes a run of junk that no Burst stands for yet.
Bursts(d) == d.junk_run # 0 /\ ~d.burst_flagged

\* The list once the run of junk before frame i is closed.
Closed(d, t, i) ==
    IF Bursts(d) THEN Append(d.detections, Note("Burst", GuessSeq(d), t, i))
    ELSE d.detections

\* The list after the measurement s as frame i.
Measured(d, s, t, i) ==
    IF Anomalies(d, s, t) = {} THEN Closed(d, t, i)
    ELSE Append(Closed(d, t, i), Note(CHOOSE k \in Anomalies(d, s, t) : TRUE, s, t, i))

\* The list after frame f as frame i.
Listed(d, f, t, i) ==
    CASE f.garbage -> d.detections
      [] ~f.garbage /\ f.bad_crc ->
            Append(Closed(d, t, i), Note("Crc", GuessSeq(d), t, i))
      [] IsMeasurement(f) -> Measured(d, f.seq, t, i)
      [] ~f.garbage /\ ~f.bad_crc /\ ~IsMeasurement(f) -> Closed(d, t, i)

\* Recording appends one note of the current frame.
LEMMA RecordNotes ==
  ASSUME NEW d \in DutRecord, NEW kind \in DetKind, NEW s \in Seqno, NEW t \in Nat
  PROVE  LET e == Record(d, kind, s, t)
         IN  /\ e.detections = Append(d.detections, Note(kind, s, t, d.frame_idx))
             /\ e.cadence_ms = d.cadence_ms
<1> DEFINE new == Note(kind, s, t, d.frame_idx)
           e == Record(d, kind, s, t)
<1>1. e = [d EXCEPT !.detections = Append(@, new)]
  BY DEF Record, Note
<1> HIDE DEF new
<1>2. e.detections = Append(d.detections, new) /\ e.cadence_ms = d.cadence_ms
  BY <1>1 DEF DutRecord
<1> QED BY <1>2 DEF new

\* Closing a run appends its Burst, unless one is flagged.
LEMMA CloseRunNotes ==
  ASSUME NEW d \in DutRecord, NEW t \in Nat
  PROVE  LET e == CloseRun(d, t)
         IN  e.detections = Closed(d, t, d.frame_idx) /\ e.cadence_ms = d.cadence_ms
<1> DEFINE quiet == [d EXCEPT !.junk_run = 0]
           flagged == [d EXCEPT !.junk_run = 0, !.burst_flagged = TRUE]
<1>1. CASE d.junk_run = 0
  BY <1>1 DEF CloseRun, Closed, Bursts
<1>2. CASE d.junk_run # 0 /\ d.burst_flagged
  <2>1. quiet.detections = d.detections /\ quiet.cadence_ms = d.cadence_ms
    BY DEF DutRecord
  <2>2. CloseRun(d, t) = quiet
    BY <1>2 DEF CloseRun
  <2> QED BY <1>2, <2>1, <2>2 DEF Closed, Bursts
<1>3. CASE d.junk_run # 0 /\ ~d.burst_flagged
  <2>1. /\ flagged \in DutRecord /\ flagged.frame_idx = d.frame_idx
        /\ flagged.detections = d.detections /\ flagged.cadence_ms = d.cadence_ms
    BY DEF DutRecord
  <2>2. CloseRun(d, t) = Record(flagged, "Burst", GuessSeq(d), t)
    BY <1>3 DEF CloseRun
  <2>3. GuessSeq(d) \in Seqno /\ "Burst" \in DetKind
    BY GuessType DEF DetKind
  <2> HIDE DEF flagged
  <2>4. LET e == Record(flagged, "Burst", GuessSeq(d), t)
        IN  /\ e.detections = Append(flagged.detections,
                                     Note("Burst", GuessSeq(d), t, flagged.frame_idx))
            /\ e.cadence_ms = flagged.cadence_ms
    BY <2>1, <2>3, RecordNotes
  <2> QED BY <1>3, <2>1, <2>2, <2>4 DEF Closed, Bursts
<1> QED BY <1>1, <1>2, <1>3 DEF DutRecord

\* A measurement appends the anomaly it shows, if any.
LEMMA MeasureNotes ==
  ASSUME NEW d \in DutRecord, NEW s \in Seqno, NEW t \in Nat
  PROVE  LET e == Measure(d, s, t)
         IN  /\ e.detections =
                  IF Anomalies(d, s, t) = {} THEN d.detections
                  ELSE Append(d.detections,
                              Note(CHOOSE k \in Anomalies(d, s, t) : TRUE, s, t, d.frame_idx))
             /\ e.cadence_ms = d.cadence_ms
<1> DEFINE shown == Anomalies(d, s, t)
           chosen == CHOOSE k \in shown : TRUE
           noted == IF shown = {} THEN d ELSE Record(d, chosen, s, t)
           e == [noted EXCEPT !.last_seq = s, !.last_time = t]
<1>1. Measure(d, s, t) = e
  BY DEF Measure
<1>2. /\ noted \in DutRecord
      /\ noted.detections = IF shown = {} THEN d.detections
                            ELSE Append(d.detections, Note(chosen, s, t, d.frame_idx))
      /\ noted.cadence_ms = d.cadence_ms
  <2>1. CASE shown = {}
    BY <2>1
  <2>2. CASE shown # {}
    <3>1. chosen \in DetKind
      BY <2>2, AnomaliesType
    <3>2. /\ Record(d, chosen, s, t).detections
               = Append(d.detections, Note(chosen, s, t, d.frame_idx))
          /\ Record(d, chosen, s, t).cadence_ms = d.cadence_ms
      BY <3>1, RecordNotes
    <3>3. Extends(d, Record(d, chosen, s, t))
      BY <3>1, RecordExtends
    <3> QED BY <2>2, <3>2, <3>3 DEF Extends
  <2> QED BY <2>1, <2>2
<1>3. e.detections = noted.detections /\ e.cadence_ms = noted.cadence_ms
  BY <1>2 DEF DutRecord
<1> QED BY <1>1, <1>2, <1>3

\* One frame appends at most a Burst and one note of its own.
LEMMA ProcessNotes ==
  ASSUME NEW d \in DutRecord, NEW f \in FrameRecord, NEW t \in Nat
  PROVE  LET e == process(d, f, t)
         IN  e.detections = Listed(d, f, t, d.frame_idx + 1) /\ e.cadence_ms = d.cadence_ms
<1> DEFINE came == [d EXCEPT !.frame_idx = @ + 1]
           closed == CloseRun(came, t)
           e == process(d, f, t)
           i == d.frame_idx + 1
<1>1. /\ came \in DutRecord /\ came.frame_idx = i /\ came.cadence_ms = d.cadence_ms
      /\ came.detections = d.detections /\ came.junk_run = d.junk_run
      /\ came.burst_flagged = d.burst_flagged
      /\ came.last_seq = d.last_seq /\ came.last_time = d.last_time
  BY DEF DutRecord
<1>2. /\ f.garbage \in BOOLEAN /\ f.bad_crc \in BOOLEAN /\ f.seq \in Seqno
  BY DEF FrameRecord
<1> HIDE DEF came
<1>3. GuessSeq(came) = GuessSeq(d) /\ Closed(came, t, i) = Closed(d, t, i)
  BY <1>1 DEF GuessSeq, Closed, Bursts
<1>4. /\ closed \in DutRecord /\ closed.frame_idx = i
      /\ closed.last_seq = d.last_seq /\ closed.last_time = d.last_time
      /\ closed.detections = Closed(d, t, i) /\ closed.cadence_ms = d.cadence_ms
  <2>1. /\ Extends(came, closed)
        /\ closed.last_seq = came.last_seq /\ closed.last_time = came.last_time
    BY <1>1, CloseRunExtends
  <2>2. /\ closed.detections = Closed(came, t, came.frame_idx)
        /\ closed.cadence_ms = came.cadence_ms
    BY <1>1, CloseRunNotes
  <2> QED BY <1>1, <1>3, <2>1, <2>2 DEF Extends
<1>5. CASE f.garbage
  <2>1. e = Junk(came)
    BY <1>5 DEF process, came
  <2>2. e.detections = came.detections /\ e.cadence_ms = came.cadence_ms
    BY <1>1, <2>1 DEF Junk, DutRecord
  <2>3. Listed(d, f, t, i) = d.detections
    BY <1>5 DEF Listed, IsMeasurement
  <2> QED BY <1>1, <2>2, <2>3
<1>6. CASE ~f.garbage /\ f.bad_crc
  <2>1. e = Record(closed, "Crc", GuessSeq(closed), t)
    BY <1>6 DEF process, Unverified, came
  <2>2. GuessSeq(closed) = GuessSeq(d) /\ GuessSeq(d) \in Seqno /\ "Crc" \in DetKind
    BY <1>4, GuessType DEF GuessSeq, DetKind
  <2>3. Listed(d, f, t, i) = Append(Closed(d, t, i), Note("Crc", GuessSeq(d), t, i))
    BY <1>6 DEF Listed, IsMeasurement
  <2> HIDE DEF closed, e
  <2>4. /\ e.detections = Append(closed.detections,
                                 Note("Crc", GuessSeq(d), t, closed.frame_idx))
        /\ e.cadence_ms = closed.cadence_ms
    BY <1>4, <2>1, <2>2, RecordNotes
  <2> QED BY <1>4, <2>3, <2>4 DEF e
<1>7. CASE IsMeasurement(f)
  <2>1. e = Measure(closed, f.seq, t)
    BY <1>7 DEF process, IsMeasurement, came
  <2>2. Anomalies(closed, f.seq, t) = Anomalies(d, f.seq, t)
    <3> HIDE DEF closed
    <3> QED BY <1>4 DEF Anomalies, late_budget_ms
  <2>3. Listed(d, f, t, i) = Measured(d, f.seq, t, i)
    BY <1>7 DEF Listed, IsMeasurement
  <2> HIDE DEF closed, e
  <2>4. /\ e.detections =
             IF Anomalies(closed, f.seq, t) = {} THEN closed.detections
             ELSE Append(closed.detections,
                         Note(CHOOSE k \in Anomalies(closed, f.seq, t) : TRUE, f.seq, t,
                              closed.frame_idx))
        /\ e.cadence_ms = closed.cadence_ms
    BY <1>2, <1>4, <2>1, MeasureNotes
  <2>5. e.detections = Measured(d, f.seq, t, i)
    BY <1>4, <2>2, <2>4 DEF Measured
  <2> QED BY <1>4, <2>3, <2>4, <2>5 DEF e
<1>8. CASE ~f.garbage /\ ~f.bad_crc /\ ~IsMeasurement(f)
  <2>1. e = closed
    BY <1>8 DEF process, IsMeasurement, came
  <2>2. Listed(d, f, t, i) = Closed(d, t, i)
    BY <1>8 DEF Listed
  <2> QED BY <1>4, <2>1, <2>2
<1> QED BY <1>2, <1>5, <1>6, <1>7, <1>8 DEF IsMeasurement

-----------------------------------------------------------------------------
(* The list and the set of the detections the stream deserves.               *)

\* The list holds each note of the set R once.
Lists(list, R) ==
    /\ list \in Seq(DetectionRecord)
    /\ \A i \in DOMAIN list : list[i] \in R
    /\ \A x \in R : \E i \in DOMAIN list : list[i] = x
    /\ \A i, j \in DOMAIN list : list[i] = list[j] => i = j

\* A list with a new element at its end lists that element too.
LEMMA AppendLists ==
  ASSUME NEW list, NEW R, Lists(list, R), NEW x \in DetectionRecord, x \notin R
  PROVE  Lists(Append(list, x), R \cup {x})
<1> DEFINE more == Append(list, x)
           n == Len(list)
<1>1. list \in Seq(DetectionRecord) /\ n \in Nat /\ DOMAIN list = 1..n
  BY DEF Lists
<1>2. /\ more \in Seq(DetectionRecord) /\ DOMAIN more = 1..(n + 1)
      /\ \A i \in 1..n : more[i] = list[i]
      /\ more[n + 1] = x
  BY <1>1
<1> HIDE DEF more, n
<1>3. \A i \in 1..n : list[i] # x
  BY <1>1 DEF Lists
<1>4. \A i \in DOMAIN more : more[i] \in R \cup {x}
  BY <1>1, <1>2 DEF Lists
<1>5. \A y \in R \cup {x} : \E i \in DOMAIN more : more[i] = y
  <2> SUFFICES ASSUME NEW y \in R \cup {x} PROVE \E i \in DOMAIN more : more[i] = y
    OBVIOUS
  <2>1. CASE y = x
    BY <1>1, <1>2, <2>1
  <2>2. CASE y \in R
    <3>1. PICK i \in DOMAIN list : list[i] = y
      BY <2>2 DEF Lists
    <3> QED BY <1>1, <1>2, <3>1
  <2> QED BY <2>1, <2>2
<1>6. \A i, j \in DOMAIN more : more[i] = more[j] => i = j
  <2> SUFFICES ASSUME NEW i \in 1..(n + 1), NEW j \in 1..(n + 1), more[i] = more[j]
               PROVE  i = j
    BY <1>2
  <2>1. CASE i \in 1..n /\ j \in 1..n
    BY <1>1, <1>2, <2>1 DEF Lists
  <2>2. CASE i = n + 1 \/ j = n + 1
    BY <1>1, <1>2, <1>3, <2>2
  <2> QED BY <1>1, <2>1, <2>2
<1> QED BY <1>2, <1>4, <1>5, <1>6 DEF Lists, more

\* Such a list is as long as its set is large.
LEMMA ListsCard ==
  ASSUME NEW list, NEW R, Lists(list, R)
  PROVE  {list[i] : i \in DOMAIN list} = R /\ Len(list) = Cardinality(R)
<1> DEFINE n == Len(list)
           f == [i \in 1..n |-> list[i]]
<1>1. n \in Nat /\ DOMAIN list = 1..n
  BY DEF Lists
<1>2. {list[i] : i \in DOMAIN list} = R
  BY DEF Lists
<1>3. f \in Bijection(1..n, R)
  <2>1. f \in [1..n -> R]
    BY <1>1 DEF Lists
  <2>2. \A i, j \in 1..n : f[i] = f[j] => i = j
    BY <1>1 DEF Lists
  <2>3. \A y \in R : \E i \in 1..n : f[i] = y
    BY <1>1 DEF Lists
  <2> HIDE DEF f
  <2> QED BY <2>1, <2>2, <2>3 DEF Bijection, Injection, IsInjective, Surjection
<1>4. IsFiniteSet(1..n) /\ Cardinality(1..n) = n
  <2>1. 1 \in Int /\ n \in Int
    BY <1>1
  <2>2. IsFiniteSet(1..n) /\ Cardinality(1..n) = IF 1 > n THEN 0 ELSE n - 1 + 1
    BY <2>1, FS_Interval
  <2> QED BY <1>1, <2>2
<1>5. Cardinality(1..n) = Cardinality(R)
  <2> HIDE DEF n, f
  <2>1. ExistsBijection(1..n, R)
    BY <1>3 DEF ExistsBijection
  <2> QED BY <1>4, <2>1, FS_Bijection
<1> QED BY <1>2, <1>4, <1>5

\* What the stream deserves for its i-th frame.
DeservedAt(i) ==
    (IF EndsJunk(i) THEN {Note("Burst", GuessAt(i), arrived[i].at, i)} ELSE {})
    \cup
    (IF arrived[i].frame.bad_crc THEN {Note("Crc", GuessAt(i), arrived[i].at, i)} ELSE {})
    \cup
    (IF IsMeasurement(arrived[i].frame) /\ MeasuredBefore(i) # {}
     THEN {Note(k, arrived[i].frame.seq, arrived[i].at, i) : k \in Shows(i)} ELSE {})

ByFrame == \A x : x \in Deserved <=> \E i \in DOMAIN arrived : x \in DeservedAt(i)

\* The detections deserved are those of each frame.
LEMMA DeservedByFrame == ByFrame
<1>1. ASSUME NEW x \in Deserved PROVE \E i \in DOMAIN arrived : x \in DeservedAt(i)
  <2>1. CASE \E i \in DOMAIN arrived : EndsJunk(i) /\ x = Note("Burst", GuessAt(i), arrived[i].at, i)
    BY <2>1 DEF DeservedAt
  <2>2. CASE \E i \in DOMAIN arrived :
               arrived[i].frame.bad_crc /\ x = Note("Crc", GuessAt(i), arrived[i].at, i)
    BY <2>2 DEF DeservedAt
  <2>3. CASE \E i \in DOMAIN arrived :
               /\ IsMeasurement(arrived[i].frame) /\ MeasuredBefore(i) # {}
               /\ \E k \in Shows(i) : x = Note(k, arrived[i].frame.seq, arrived[i].at, i)
    BY <2>3 DEF DeservedAt
  <2> QED BY <1>1, <2>1, <2>2, <2>3 DEF Deserved, Note
<1>2. ASSUME NEW i \in DOMAIN arrived, NEW x \in DeservedAt(i) PROVE x \in Deserved
  <2>1. CASE EndsJunk(i) /\ x = Note("Burst", GuessAt(i), arrived[i].at, i)
    BY <2>1 DEF Deserved, Note
  <2>2. CASE arrived[i].frame.bad_crc /\ x = Note("Crc", GuessAt(i), arrived[i].at, i)
    BY <2>2 DEF Deserved, Note
  <2>3. CASE /\ IsMeasurement(arrived[i].frame) /\ MeasuredBefore(i) # {}
             /\ \E k \in Shows(i) : x = Note(k, arrived[i].frame.seq, arrived[i].at, i)
    BY <2>3 DEF Deserved, Note
  <2> QED BY <1>2, <2>1, <2>2, <2>3 DEF DeservedAt
<1> QED BY <1>1, <1>2 DEF ByFrame

\* Every stream with a measurement before a frame has a last one before it.
LastExists(i) ==
    MeasuredBefore(i) # {} => \E j \in MeasuredBefore(i) : \A k \in MeasuredBefore(i) : k <= j

\* Junk is pending while the newest frame is junk.
JunkPending ==
    dut.junk_run # 0 <=> (Len(arrived) > 0 /\ arrived[Len(arrived)].frame.garbage)

ExactInv ==
    /\ dut.cadence_ms = Cadence
    /\ JunkPending
    /\ \A i \in 1..(Len(arrived) + 1) : LastExists(i)
    /\ Lists(dut.detections, Deserved)

\* Before the first frame nothing is deserved and nothing is listed.
LEMMA ExactInit == DutInit => ExactInv
<1> SUFFICES ASSUME DutInit PROVE ExactInv
  OBVIOUS
<1>1. /\ arrived = <<>> /\ Len(arrived) = 0 /\ DOMAIN arrived = {}
      /\ dut.detections = <<>> /\ dut.junk_run = 0 /\ dut.cadence_ms = Cadence
  BY DEF DutInit, NewDut
<1>2. \A i \in 1..(Len(arrived) + 1) : MeasuredBefore(i) = {}
  BY <1>1 DEF MeasuredBefore
<1>3. Deserved = {}
  BY <1>1, DeservedByFrame DEF ByFrame
<1>4. Lists(<<>>, {})
  BY DEF Lists
<1> QED BY <1>1, <1>2, <1>3, <1>4 DEF ExactInv, JunkPending, LastExists

\* A measurement shows at most one anomaly, told from the last one alone.
LEMMA AnomaliesShown ==
  ASSUME NEW d \in DutRecord, NEW s \in Seqno, NEW t \in Nat
  PROVE  /\ d.last_seq = NoSeq => Anomalies(d, s, t) = {}
         /\ d.last_seq # NoSeq =>
              /\ "Late" \in Anomalies(d, s, t) <=>
                    s = Successor(d.last_seq) /\ t - d.last_time >= 4 * d.cadence_ms + 5
              /\ "Gap" \in Anomalies(d, s, t) <=> s > Successor(d.last_seq) /\ s # d.last_seq
              /\ "Replay" \in Anomalies(d, s, t) <=>
                    s < Successor(d.last_seq) \/ s = d.last_seq
              /\ Anomalies(d, s, t) \subseteq {"Late", "Gap", "Replay"}
         /\ \A k, l \in Anomalies(d, s, t) : k = l
<1> DEFINE e == Successor(d.last_seq)
           shown == Anomalies(d, s, t)
<1>1. CASE d.last_seq = NoSeq
  BY <1>1 DEF Anomalies
<1>2. CASE d.last_seq # NoSeq /\ s = e
  <2>1. s # d.last_seq
    BY <1>2, ModulusAssumption DEF Successor, Seqno
  <2>2. /\ d.cadence_ms \in Nat /\ d.last_time \in Nat /\ s \in Nat
    BY DEF DutRecord, Seqno
  <2>3. shown = IF t - d.last_time < 4 * d.cadence_ms + 5 THEN {} ELSE {"Late"}
    BY <1>2, <2>2 DEF Anomalies, late_budget_ms
  <2>4. e \in Nat
    BY <1>2, <2>2
  <2> HIDE DEF e, shown
  <2> QED BY <1>2, <2>1, <2>2, <2>3, <2>4 DEF e, shown
<1>3. CASE d.last_seq # NoSeq /\ s # e
  <2>1. shown = IF s # d.last_seq /\ s > e THEN {"Gap"} ELSE {"Replay"}
    BY <1>3 DEF Anomalies
  <2>2. e \in Nat /\ s \in Nat
    BY <1>3, SuccessorType DEF Seqno, DutRecord
  <2> HIDE DEF e, shown
  <2> QED BY <1>3, <2>1, <2>2 DEF e, shown
<1> QED BY <1>1, <1>2, <1>3

\* The frames before the i-th are all that the i-th is judged by.
LEMMA SamePast ==
  ASSUME NEW i \in Nat, \A j \in 1..(i - 1) : arrived'[j] = arrived[j]
  PROVE  /\ MeasuredBefore(i)' = MeasuredBefore(i) /\ LastBefore(i)' = LastBefore(i)
         /\ LastExists(i)' = LastExists(i)
         /\ LastExists(i) => /\ GuessAt(i)' = GuessAt(i)
                             /\ MeasuredBefore(i) # {} =>
                                  arrived'[LastBefore(i)] = arrived[LastBefore(i)]
<1>1. MeasuredBefore(i)' = MeasuredBefore(i)
  BY DEF MeasuredBefore
<1>2. LastBefore(i)' = LastBefore(i)
  BY <1>1 DEF LastBefore
<1>3. LastExists(i)' = LastExists(i)
  BY <1>1 DEF LastExists
<1>4. ASSUME LastExists(i), MeasuredBefore(i) # {}
      PROVE  arrived'[LastBefore(i)] = arrived[LastBefore(i)]
  <2>1. LastBefore(i) \in MeasuredBefore(i)
    BY <1>4 DEF LastExists, LastBefore
  <2>2. MeasuredBefore(i) \subseteq 1..(i - 1)
    BY DEF MeasuredBefore
  <2> QED BY <2>1, <2>2
<1>5. LastExists(i) => GuessAt(i)' = GuessAt(i)
  BY <1>1, <1>2, <1>4 DEF GuessAt
<1> QED BY <1>1, <1>2, <1>3, <1>4, <1>5

\* What an earlier frame deserved stays as it was.
LEMMA DeservedStays ==
  ASSUME NEW i \in Nat, \A j \in 1..i : arrived'[j] = arrived[j], i > 0, LastExists(i)
  PROVE  DeservedAt(i)' = DeservedAt(i)
<1>1. \A j \in 1..(i - 1) : arrived'[j] = arrived[j]
  OBVIOUS
<1>2. /\ MeasuredBefore(i)' = MeasuredBefore(i) /\ LastBefore(i)' = LastBefore(i)
      /\ GuessAt(i)' = GuessAt(i)
      /\ MeasuredBefore(i) # {} => arrived'[LastBefore(i)] = arrived[LastBefore(i)]
  BY <1>1, SamePast
<1>3. arrived'[i] = arrived[i]
  OBVIOUS
<1>4. EndsJunk(i)' = EndsJunk(i)
  <2>1. CASE i > 1
    <3>1. arrived'[i - 1] = arrived[i - 1]
      BY <1>1, <2>1
    <3> QED BY <1>3, <3>1 DEF EndsJunk
  <2>2. CASE ~(i > 1)
    BY <1>3, <2>2 DEF EndsJunk
  <2> QED BY <2>1, <2>2
<1>5. MeasuredBefore(i) # {} => Shows(i)' = Shows(i)
  BY <1>2, <1>3 DEF Shows
<1> QED BY <1>2, <1>3, <1>4, <1>5 DEF DeservedAt

\* What the new frame deserves, told from the detector before it.
DeservedNow(d, f, t, i) ==
    (IF ~f.garbage /\ Bursts(d) THEN {Note("Burst", GuessSeq(d), t, i)} ELSE {})
    \cup (IF f.bad_crc THEN {Note("Crc", GuessSeq(d), t, i)} ELSE {})
    \cup (IF IsMeasurement(f) THEN {Note(k, f.seq, t, i) : k \in Anomalies(d, f.seq, t)}
          ELSE {})

\* What the newest frame deserves is told by the detector before it.
LEMMA DeservedNew ==
  ASSUME DutInv, ExactInv, NEW f \in FrameRecord, NEW t \in Nat,
         arrived' = Append(arrived, [frame |-> f, at |-> t]),
         NEW i \in Nat, i = Len(arrived) + 1
  PROVE  DeservedAt(i)' = DeservedNow(dut, f, t, i)
<1>1. /\ arrived'[i].frame = f /\ arrived'[i].at = t
      /\ \A j \in 1..(i - 1) : arrived'[j] = arrived[j]
  BY DEF DutInv
<1>2. LastExists(i)
  BY DEF ExactInv, DutInv
<1>3. /\ MeasuredBefore(i)' = MeasuredBefore(i) /\ LastBefore(i)' = LastBefore(i)
      /\ GuessAt(i)' = GuessAt(i)
      /\ MeasuredBefore(i) # {} => arrived'[LastBefore(i)] = arrived[LastBefore(i)]
  BY <1>1, <1>2, SamePast
<1>4. IF MeasuredBefore(i) = {} THEN dut.last_seq = NoSeq
      ELSE /\ dut.last_seq = arrived[LastBefore(i)].frame.seq
           /\ dut.last_time = arrived[LastBefore(i)].at
  BY DEF DutInv, RemembersLastMeasurement
<1>5. MeasuredBefore(i) # {} => dut.last_seq # NoSeq
  <2>1. ASSUME MeasuredBefore(i) # {} PROVE LastBefore(i) \in DOMAIN arrived
    <3>1. LastBefore(i) \in MeasuredBefore(i)
      BY <1>2, <2>1 DEF LastExists, LastBefore
    <3> QED BY <3>1 DEF MeasuredBefore, DutInv
  <2>2. \A j \in DOMAIN arrived : arrived[j].frame.seq \in Seqno
    <3> DEFINE Timed == [frame : FrameRecord, at : Nat]
    <3>1. arrived \in Seq(Timed)
      BY DEF DutInv
    <3>2. \A r \in Timed : r.frame \in FrameRecord
      OBVIOUS
    <3> HIDE DEF Timed
    <3>3. \A j \in DOMAIN arrived : arrived[j] \in Timed
      BY <3>1
    <3>4. \A r \in FrameRecord : r.seq \in Seqno
      BY DEF FrameRecord
    <3> QED BY <3>2, <3>3, <3>4
  <2> QED BY <1>4, <2>1, <2>2 DEF Seqno, NoSeq
<1>6. GuessAt(i)' = GuessSeq(dut)
  BY <1>3, <1>4, <1>5 DEF GuessAt, GuessSeq
<1>7. EndsJunk(i)' <=> ~f.garbage /\ Bursts(dut)
  <2>1. i > 1 => arrived'[i - 1] = arrived[Len(arrived)]
    BY <1>1 DEF DutInv
  <2>2. EndsJunk(i)' <=> ~f.garbage /\ Len(arrived) > 0 /\ arrived[Len(arrived)].frame.garbage
    BY <1>1, <2>1 DEF EndsJunk, DutInv
  <2>3. dut.junk_run # 0 <=> Bursts(dut)
    BY DEF Bursts, DutInv, DutRecord, FlagHidesNoBurst
  <2> QED BY <2>2, <2>3 DEF ExactInv, JunkPending
<1>8. IsMeasurement(f) /\ MeasuredBefore(i) # {} => Shows(i)' = Anomalies(dut, f.seq, t)
  <2> SUFFICES ASSUME MeasuredBefore(i) # {} PROVE Shows(i)' = Anomalies(dut, f.seq, t)
    OBVIOUS
  <2> DEFINE e == Successor(dut.last_seq)
  <2>1. /\ f.seq \in Seqno /\ dut \in DutRecord /\ dut.cadence_ms = Cadence
    BY DEF FrameRecord, DutInv, ExactInv
  <2>2. Shows(i)' =
          {kind \in {"Late", "Gap", "Replay"} :
            CASE kind = "Late" -> f.seq = e /\ t - dut.last_time >= 4 * Cadence + 5
              [] kind = "Gap" -> f.seq > e /\ f.seq # dut.last_seq
              [] kind = "Replay" -> f.seq < e \/ f.seq = dut.last_seq}
    BY <1>1, <1>3, <1>4 DEF Shows
  <2>3. /\ "Late" \in Anomalies(dut, f.seq, t) <=>
              f.seq = e /\ t - dut.last_time >= 4 * Cadence + 5
        /\ "Gap" \in Anomalies(dut, f.seq, t) <=> f.seq > e /\ f.seq # dut.last_seq
        /\ "Replay" \in Anomalies(dut, f.seq, t) <=> f.seq < e \/ f.seq = dut.last_seq
        /\ Anomalies(dut, f.seq, t) \subseteq {"Late", "Gap", "Replay"}
    BY <1>5, <2>1, AnomaliesShown
  <2> HIDE DEF e
  <2>4. /\ "Late" \in Shows(i)' <=> f.seq = e /\ t - dut.last_time >= 4 * Cadence + 5
        /\ "Gap" \in Shows(i)' <=> f.seq > e /\ f.seq # dut.last_seq
        /\ "Replay" \in Shows(i)' <=> f.seq < e \/ f.seq = dut.last_seq
        /\ Shows(i)' \subseteq {"Late", "Gap", "Replay"}
    BY <2>2
  <2> DEFINE shows == Shows(i)'
             shown == Anomalies(dut, f.seq, t)
  <2> HIDE DEF shows, shown
  <2>5. \A k \in {"Late", "Gap", "Replay"} : k \in shows <=> k \in shown
    BY <2>3, <2>4 DEF shows, shown
  <2>6. shows \subseteq {"Late", "Gap", "Replay"} /\ shown \subseteq {"Late", "Gap", "Replay"}
    BY <2>3, <2>4 DEF shows, shown
  <2>7. shows = shown
    <3>1. \A k \in shows : k \in shown
      BY <2>5, <2>6
    <3>2. \A k \in shown : k \in shows
      BY <2>5, <2>6
    <3> QED BY ONLY <3>1, <3>2
  <2> QED BY <2>7 DEF shows, shown
<1>9. MeasuredBefore(i) = {} => Anomalies(dut, f.seq, t) = {}
  <2>1. f.seq \in Seqno /\ dut \in DutRecord
    BY DEF FrameRecord, DutInv
  <2> QED BY <1>4, <2>1, AnomaliesShown
<1>10. (IF IsMeasurement(arrived[i].frame) /\ MeasuredBefore(i) # {}
        THEN {Note(k, arrived[i].frame.seq, arrived[i].at, i) : k \in Shows(i)} ELSE {})'
         = IF IsMeasurement(f) THEN {Note(k, f.seq, t, i) : k \in Anomalies(dut, f.seq, t)}
           ELSE {}
  <2>1. (IF IsMeasurement(arrived[i].frame) /\ MeasuredBefore(i) # {}
         THEN {Note(k, arrived[i].frame.seq, arrived[i].at, i) : k \in Shows(i)} ELSE {})'
         = IF IsMeasurement(f) /\ MeasuredBefore(i) # {}
           THEN {Note(k, f.seq, t, i) : k \in Shows(i)'} ELSE {}
    BY <1>1, <1>3 DEF IsMeasurement
  <2>2. CASE MeasuredBefore(i) = {}
    BY <1>9, <2>1, <2>2
  <2>3. CASE MeasuredBefore(i) # {} /\ IsMeasurement(f)
    BY <1>8, <2>1, <2>3
  <2>4. CASE ~IsMeasurement(f)
    BY <2>1, <2>4
  <2> QED BY <2>2, <2>3, <2>4
<1> QED BY <1>1, <1>6, <1>7, <1>10 DEF DeservedAt, DeservedNow

\* The list after the frame holds what was there and what the frame deserves.
LEMMA ListedLists ==
  ASSUME NEW d \in DutRecord, NEW f \in FrameRecord, f.garbage => ~f.bad_crc,
         NEW t \in Nat, NEW i \in Nat,
         NEW R, Lists(d.detections, R), \A x \in R : x.frame_idx # i
  PROVE  Lists(Listed(d, f, t, i), R \cup DeservedNow(d, f, t, i))
<1> DEFINE burst == Note("Burst", GuessSeq(d), t, i)
           crc == Note("Crc", GuessSeq(d), t, i)
           B == IF Bursts(d) THEN R \cup {burst} ELSE R
<1>1. /\ f.garbage \in BOOLEAN /\ f.bad_crc \in BOOLEAN /\ f.seq \in Seqno
  BY DEF FrameRecord
<1>2. GuessSeq(d) \in Seqno
  BY GuessType
<1>3. \A k \in DetKind, s \in Seqno : Note(k, s, t, i) \in DetectionRecord
  BY DEF Note, DetectionRecord
<1>4. \A k, s : Note(k, s, t, i) \notin R
  <2>1. \A k, s : Note(k, s, t, i).frame_idx = i
    BY DEF Note
  <2> QED BY <2>1
<1>5. \A k, s, l, r : Note(k, s, t, i) = Note(l, r, t, i) => k = l
  <2>1. \A k, s : Note(k, s, t, i).kind = k
    BY DEF Note
  <2> QED BY <2>1
<1>6. Lists(Closed(d, t, i), B)
  <2>1. burst \in DetectionRecord /\ burst \notin R
    BY <1>2, <1>3, <1>4 DEF DetKind
  <2> HIDE DEF burst
  <2>2. Lists(Append(d.detections, burst), R \cup {burst})
    BY <2>1, AppendLists
  <2> QED BY <2>2 DEF Closed, burst
<1>7. \A k, s : k # "Burst" => Note(k, s, t, i) \notin B
  BY <1>4, <1>5
<1> HIDE DEF B
<1>8. CASE f.garbage
  <2>1. Listed(d, f, t, i) = d.detections
    BY <1>8 DEF Listed, IsMeasurement
  <2>2. DeservedNow(d, f, t, i) = {}
    BY <1>8 DEF DeservedNow, IsMeasurement
  <2> QED BY <2>1, <2>2
<1>9. CASE ~f.garbage /\ f.bad_crc
  <2>1. Listed(d, f, t, i) = Append(Closed(d, t, i), crc)
    BY <1>9 DEF Listed, IsMeasurement
  <2>2. R \cup DeservedNow(d, f, t, i) = B \cup {crc}
    BY <1>9 DEF DeservedNow, IsMeasurement, B
  <2>3. crc \in DetectionRecord /\ crc \notin B
    BY <1>2, <1>3, <1>7 DEF DetKind
  <2> HIDE DEF crc
  <2> QED BY <1>6, <2>1, <2>2, <2>3, AppendLists
<1>10. CASE IsMeasurement(f)
  <2> DEFINE shown == Anomalies(d, f.seq, t)
             k == CHOOSE k \in shown : TRUE
             x == Note(k, f.seq, t, i)
  <2>1. Listed(d, f, t, i) = IF shown = {} THEN Closed(d, t, i) ELSE Append(Closed(d, t, i), x)
    BY <1>10 DEF Listed, IsMeasurement, Measured
  <2>2. R \cup DeservedNow(d, f, t, i) = B \cup {Note(l, f.seq, t, i) : l \in shown}
    BY <1>10 DEF DeservedNow, IsMeasurement, B
  <2>3. CASE shown = {}
    BY <1>6, <2>1, <2>2, <2>3
  <2>4. CASE shown # {}
    <3>1. k \in shown
      BY <2>4
    <3>2. shown = {k}
      <4>1. \A a, b \in shown : a = b
        BY <1>1, AnomaliesShown
      <4> HIDE DEF shown, k
      <4> QED BY <3>1, <4>1
    <3>3. k \in DetKind /\ k # "Burst"
      <4>1. shown \subseteq {"Late", "Gap", "Replay"}
        <5>1. CASE d.last_seq = NoSeq
          BY <1>1, <5>1, AnomaliesShown
        <5>2. CASE d.last_seq # NoSeq
          BY <1>1, <5>2, AnomaliesShown
        <5> QED BY <5>1, <5>2
      <4> HIDE DEF shown, k
      <4> QED BY <3>1, <4>1 DEF DetKind
    <3> HIDE DEF shown, k
    <3>4. {Note(l, f.seq, t, i) : l \in shown} = {x}
      BY <3>2
    <3>5. x \in DetectionRecord /\ x \notin B
      BY <1>1, <1>3, <1>7, <3>3
    <3> HIDE DEF x
    <3>6. Lists(Append(Closed(d, t, i), x), B \cup {x})
      BY <1>6, <3>5, AppendLists
    <3> QED BY <2>1, <2>2, <2>4, <3>4, <3>6
  <2> QED BY <2>3, <2>4
<1>11. CASE ~f.garbage /\ ~f.bad_crc /\ ~IsMeasurement(f)
  <2>1. Listed(d, f, t, i) = Closed(d, t, i)
    BY <1>11 DEF Listed
  <2>2. R \cup DeservedNow(d, f, t, i) = B
    BY <1>11 DEF DeservedNow, B
  <2> QED BY <1>6, <2>1, <2>2
<1> QED BY <1>1, <1>8, <1>9, <1>10, <1>11 DEF IsMeasurement

\* Junk has no check sum to fail.
LEMMA GarbageUnread == \A f \in Frames : f.garbage => ~f.bad_crc
  BY DEF Frames, DuGarbage, DuBadCrc, DuFrame

\* One frame adds to the list exactly what it deserves.
LEMMA ExactNext == DutInv /\ ExactInv /\ [DutNext]_dutVars => ExactInv'
<1> SUFFICES ASSUME DutInv, ExactInv, [DutNext]_dutVars PROVE ExactInv'
  OBVIOUS
<1>1. CASE DutNext
  <2>1. PICK f \in Frames, delay \in Delays : Process(f, delay)
    BY <1>1 DEF DutNext
  <2>2. f \in FrameRecord /\ delay \in Nat /\ (f.garbage => ~f.bad_crc)
    BY <2>1, FramesType, GarbageUnread, DutAssumption
  <2>3. PICK t \in Nat : t = now'
    BY <2>1, <2>2 DEF Process, DutInv
  <2>4. PICK i \in Nat : i = Len(arrived) + 1
    BY DEF DutInv
  <2>5. /\ arrived' = Append(arrived, [frame |-> f, at |-> t])
        /\ dut' = process(dut, f, t)
        /\ dut \in DutRecord /\ dut.frame_idx + 1 = i
    BY <2>1, <2>3, <2>4 DEF Process, DutInv
  <2>6. /\ Len(arrived') = i /\ DOMAIN arrived' = DOMAIN arrived \cup {i}
        /\ DOMAIN arrived = 1..(i - 1) /\ i > 0
        /\ \A j \in 1..(i - 1) : arrived'[j] = arrived[j]
        /\ arrived'[i].frame = f
    BY <2>4, <2>5 DEF DutInv
  <2>7. dut'.detections = Listed(dut, f, t, i) /\ dut'.cadence_ms = dut.cadence_ms
    <3>1. LET e == process(dut, f, t)
          IN  /\ e.detections = Listed(dut, f, t, dut.frame_idx + 1)
              /\ e.cadence_ms = dut.cadence_ms
      BY <2>2, <2>5, ProcessNotes
    <3> QED BY <2>5, <3>1
  <2>8. DeservedAt(i)' = DeservedNow(dut, f, t, i)
    BY <2>2, <2>4, <2>5, DeservedNew
  <2>9. \A j \in 1..(i - 1) : DeservedAt(j)' = DeservedAt(j)
    <3> SUFFICES ASSUME NEW j \in 1..(i - 1) PROVE DeservedAt(j)' = DeservedAt(j)
      OBVIOUS
    <3>1. j \in Nat /\ j > 0 /\ \A k \in 1..j : arrived'[k] = arrived[k]
      BY <2>6
    <3>2. LastExists(j)
      BY <2>4, <2>6 DEF ExactInv
    <3> QED BY <3>1, <3>2, DeservedStays
  <2>10. Deserved' = Deserved \cup DeservedNow(dut, f, t, i)
    <3>1. ByFrame'
      BY DeservedByFrame, PTL
    <3>2. \A x : x \in Deserved' <=> \E j \in (DOMAIN arrived)' : x \in DeservedAt(j)'
      BY <3>1 DEF ByFrame
    <3>3. \A x : x \in Deserved <=> \E j \in DOMAIN arrived : x \in DeservedAt(j)
      BY DeservedByFrame DEF ByFrame
    <3>4. ASSUME NEW x \in Deserved' PROVE x \in Deserved \cup DeservedNow(dut, f, t, i)
      <4>1. PICK j \in (DOMAIN arrived)' : x \in DeservedAt(j)'
        BY <3>2, <3>4
      <4>2. CASE j = i
        BY <2>8, <4>1, <4>2
      <4>3. CASE j \in DOMAIN arrived
        <5>1. x \in DeservedAt(j)
          BY <2>6, <2>9, <4>1, <4>3
        <5> QED BY <3>3, <4>3, <5>1
      <4> QED BY <2>6, <4>2, <4>3
    <3>5. ASSUME NEW x \in DeservedNow(dut, f, t, i) PROVE x \in Deserved'
      <4>1. x \in DeservedAt(i)' /\ i \in (DOMAIN arrived)'
        BY <2>6, <2>8, <3>5
      <4> QED BY <3>2, <4>1
    <3>6. ASSUME NEW x \in Deserved PROVE x \in Deserved'
      <4>1. PICK j \in DOMAIN arrived : x \in DeservedAt(j)
        BY <3>3, <3>6
      <4>2. x \in DeservedAt(j)' /\ j \in (DOMAIN arrived)'
        BY <2>6, <2>9, <4>1
      <4> QED BY <3>2, <4>2
    <3> QED BY <3>4, <3>5, <3>6
  <2>11. \A x \in Deserved : x.frame_idx # i
    <3> SUFFICES ASSUME NEW x \in Deserved PROVE x.frame_idx # i
      OBVIOUS
    <3>1. PICK j \in DOMAIN dut.detections : dut.detections[j] = x
      BY DEF ExactInv, Lists
    <3>2. x.frame_idx \in 1..dut.frame_idx /\ dut.frame_idx = i - 1
      BY <2>4, <3>1 DEF DutInv
    <3> QED BY <3>2
  <2>12. Lists(dut'.detections, Deserved')
    <3>1. Lists(dut.detections, Deserved)
      BY DEF ExactInv
    <3>2. Lists(Listed(dut, f, t, i), Deserved \cup DeservedNow(dut, f, t, i))
      BY <2>2, <2>5, <2>11, <3>1, ListedLists
    <3> QED BY <2>7, <2>10, <3>2
  <2>13. JunkPending'
    <3>1. LET e == process(dut, f, t)
          IN  /\ f.garbage => e.junk_run = dut.junk_run + 1 /\ ~e.burst_flagged
              /\ ~f.garbage => e.junk_run = 0
      BY <2>2, <2>5, ProcessExtends
    <3>2. /\ f.garbage => dut'.junk_run = dut.junk_run + 1
          /\ ~f.garbage => dut'.junk_run = 0
          /\ f.garbage \in BOOLEAN /\ dut.junk_run \in Nat
      BY <2>2, <2>5, <3>1 DEF FrameRecord, DutRecord
    <3> QED BY <2>6, <3>2 DEF JunkPending
  <2>14. \A j \in 1..(i + 1) : LastExists(j)'
    <3> SUFFICES ASSUME NEW j \in 1..(i + 1) PROVE LastExists(j)'
      OBVIOUS
    <3>1. CASE j = i + 1
      <4>1. HasLast'
        <5>1. DutInv'
          BY NextInv
        <5> QED BY <5>1 DEF DutInv
      <4>2. HasLast' = LastExists(i + 1)'
        BY <2>6 DEF HasLast, LastExists
      <4> QED BY <3>1, <4>1, <4>2
    <3>2. CASE j # i + 1
      <4>1. j \in Nat /\ \A k \in 1..(j - 1) : arrived'[k] = arrived[k]
        BY <2>6, <3>2
      <4>2. LastExists(j)
        BY <2>4, <3>2 DEF ExactInv
      <4> QED BY <4>1, <4>2, SamePast
    <3> QED BY <3>1, <3>2
  <2>15. \A j \in 1..(Len(arrived') + 1) : LastExists(j)'
    BY <2>6, <2>14
  <2> QED BY <2>7, <2>12, <2>13, <2>15 DEF ExactInv
<1>2. CASE UNCHANGED dutVars
  <2>1. Deserved' = Deserved
    BY <1>2 DEF dutVars, Deserved, EndsJunk, GuessAt, Shows, MeasuredBefore, LastBefore
  <2>2. \A i \in Nat : LastExists(i)' = LastExists(i)
    BY <1>2 DEF dutVars, LastExists, MeasuredBefore
  <2>3. Len(arrived') = Len(arrived) /\ Len(arrived) \in Nat
    BY <1>2 DEF dutVars, DutInv
  <2>4. dut' = dut /\ JunkPending'
    BY <1>2 DEF dutVars, ExactInv, JunkPending
  <2>5. \A i \in 1..(Len(arrived') + 1) : LastExists(i)'
    BY <2>2, <2>3 DEF ExactInv
  <2> QED BY <2>1, <2>4, <2>5 DEF ExactInv
<1> QED BY <1>1, <1>2

-----------------------------------------------------------------------------
\* The record keeps its types: times do not run ahead of the clock, numbers
\* stay in their range, and no detection is of a frame that has not come.
THEOREM TypeCorrect == DutSpec => []TypeOK
<1>1. DutInv => TypeOK
  <2> SUFFICES ASSUME DutInv PROVE TypeOK
    OBVIOUS
  <2>1. /\ dut.last_seq \in Seqno \cup {NoSeq} /\ dut.burst_flagged \in BOOLEAN
        /\ dut.last_time \in Nat /\ dut.junk_run \in Nat
        /\ dut.detections \in Seq(DetectionRecord)
    BY DEF DutInv, DutRecord
  <2>2. dut.last_time \in 0..now /\ dut.junk_run \in 0..dut.frame_idx
    <3>1. dut.frame_idx \in Nat /\ now \in Nat
      BY DEF DutInv, DutRecord
    <3> QED BY <2>1, <3>1 DEF DutInv
  <2>3. \A i \in DOMAIN dut.detections : dut.detections[i] \in DetectionRecord
    BY <2>1
  <2> QED BY <2>1, <2>2, <2>3 DEF DutInv, DetectionRecord, TypeOK
<1> QED BY <1>1, AlwaysInv, PTL

\* The detections are always in the order of their frames.
THEOREM AlwaysInOrder == DutSpec => []DetectionsInOrder
<1>1. DutInv => DetectionsInOrder
  BY DEF DutInv
<1> QED BY <1>1, AlwaysInv, PTL

\* For every stream: each anomaly is detected once, with the right number, and
\* nothing else is detected.
THEOREM AlwaysExact == DutSpec => []DetectionsExact
<1>1. DutInit => DutInv /\ ExactInv
  BY InitInv, ExactInit
<1>2. DutInv /\ ExactInv /\ [DutNext]_dutVars => (DutInv /\ ExactInv)'
  BY NextInv, ExactNext
<1>3. ExactInv => DetectionsExact
  BY ListsCard DEF ExactInv, DetectionsExact
<1> QED BY <1>1, <1>2, <1>3, PTL DEF DutSpec

\* While junk is pending, the flag that would hide its Burst is down.
THEOREM NoBurstHidden == DutSpec => []FlagHidesNoBurst
<1>1. DutInv => FlagHidesNoBurst
  BY DEF DutInv
<1> QED BY <1>1, AlwaysInv, PTL

\* The detector always compares with the last verified measurement of the
\* stream, whatever came since.
THEOREM AlwaysRemembers == DutSpec => []RemembersLastMeasurement
<1>1. DutInv => RemembersLastMeasurement
  BY DEF DutInv
<1> QED BY <1>1, AlwaysInv, PTL
=============================================================================
