----------------------------- MODULE BenchProofs -----------------------------
(* Proofs about the bench from end to end, for campaigns of any length, any  *)
(* cadence, mix of faults and stalls, and any number of spoiled frames.      *)
EXTENDS Bench, FiniteSetTheorems, SequenceTheorems, TLAPS

Packets == Config.packets
Cadence == Config.cadence_ms

DetKind == {"Crc", "Gap", "Replay", "Late", "Burst"}

DetectionRecord == [kind : DetKind, seq : Int, at : Nat, frame_idx : Nat]

DutRecord ==
    [cadence_ms : Nat, last_seq : Int, last_time : Nat,
     junk_run : Nat, burst_flagged : BOOLEAN, frame_idx : Nat,
     detections : Seq(DetectionRecord)]

Kinds == FAULT_NONE..FAULT_DUTY

Frame ==
    [type : {"SENSOR"}, seq : Nat, fault_id : Nat]
      \cup [type : {"FAULT"}, fault_id : Nat, kind : Kinds, seq : Nat]
      \cup [type : {"JUNK"}] \cup [type : {"END"}, packets : Nat, faults : Nat]

TruthRecord == [kind : Kinds, at_seq : Nat, fault_id : Nat, at : Nat]

-----------------------------------------------------------------------------
\* The slot that is being sent, and the last measurement read.
Cur == Len(slots) - 1
Last == IF accepted = <<>> THEN -1 ELSE accepted[Len(accepted)]

\* The time between the first frames of slot s and of the slot before it.
Spacing(s) ==
    Cadence + lateness[s + 1] + (IF slots[s + 1] = FAULT_DELAY THEN 2 * Cadence ELSE 0)

TypeOK ==
    /\ slots \in Seq(Kinds) /\ lateness \in Seq(Nat) /\ Len(lateness) = Len(slots)
    /\ Len(slots) <= Packets
    /\ now \in Nat /\ running \in BOOLEAN
    /\ emitted \in Seq(Frame) /\ accepted \in Seq(Nat)
    /\ dut \in DutRecord /\ dut.cadence_ms = Cadence

\* The engine counts the slots and the faults among them.
Engine ==
    engine = [packets |-> Packets, cadence_ms |-> Cadence, kinds |-> Config.kinds,
              seq |-> Len(slots), fault_id |-> Cardinality(InjectedIn(Len(slots))),
              sent |-> Len(slots)]

\* What is still to arrive is of the slot being sent; its notice is the last.
Arriving ==
    \A i \in DOMAIN emitted :
        /\ emitted[i].type # "END" => slots # <<>>
        /\ emitted[i].type = "SENSOR" => emitted[i].seq = Cur
        /\ emitted[i].type = "FAULT" =>
              /\ i = Len(emitted) /\ IsInjected(slots[Len(slots)])
              /\ emitted[i] = Notice(engine.fault_id, slots[Len(slots)], Cur)

\* A slot has a second measurement to send only if it is a replay.
SecondIsReplay ==
    \A i \in DOMAIN emitted : emitted[i].type = "SENSOR" =>
        /\ Last = Cur => slots[Len(slots)] = FAULT_REPLAY
        /\ \A j \in 1..(i - 1) :
              emitted[j].type = "SENSOR" => slots[Len(slots)] = FAULT_REPLAY

\* Measurements are read in order, a number twice only if it was replayed.
ReadInOrder ==
    /\ \A i \in DOMAIN accepted : accepted[i] <= Cur
    /\ \A i \in 2..Len(accepted) :
          /\ accepted[i - 1] <= accepted[i]
          /\ accepted[i - 1] = accepted[i] => slots[accepted[i] + 1] = FAULT_REPLAY

\* The detector compares with the last measurement read, and with its time.
Compares ==
    /\ dut.last_seq = Last
    /\ accepted # <<>> /\ Last = Cur => dut.last_time = now
    /\ accepted # <<>> /\ Last = Cur - 1 => now - dut.last_time = Spacing(Cur)

\* The measurements read that leave numbers out.
Jumps == {accepted[i] : i \in {i \in 2..Len(accepted) : accepted[i] > accepted[i - 1] + 1}}

GapsExact == Flagged("Gap") = Jumps

\* Only a stall makes a measurement late: no delay of the injector does.
LateIsStall ==
    /\ Flagged("Late") \subseteq InTurn(1)
    /\ InTurn(3 * Config.cadence_ms + 5) \subseteq Flagged("Late")

\* What the line and the detector make of a campaign.
LineInv ==
    /\ TypeOK /\ Engine /\ Arriving /\ SecondIsReplay /\ ReadInOrder /\ Compares
    /\ GapsExact /\ ReplaysExact /\ LateIsStall

\* The notices in the order of their ids, none ahead of the engine.
TruthsBehind ==
    /\ truths \in Seq(TruthRecord)
    /\ \A i \in DOMAIN truths :
          /\ truths[i].at_seq <= Cur
          /\ truths[i].fault_id <= engine.fault_id
    /\ (\E i \in DOMAIN emitted : emitted[i].type = "FAULT") =>
          \A i \in DOMAIN truths : truths[i].fault_id < engine.fault_id

TruthInv == TruthsBehind /\ TruthsAreTrue

-----------------------------------------------------------------------------
\* The operators of the detector.

\* The numbers of the detections of a kind in a list.
Told(ds, kind) == {ds[i].seq : i \in {i \in DOMAIN ds : ds[i].kind = kind}}

\* The kinds that a measurement may be flagged with.
Shown == {"Gap", "Replay", "Late"}

\* e compares as d does, and differs in no detection made of a measurement.
Keeps(d, e) ==
    /\ e \in DutRecord /\ e.cadence_ms = d.cadence_ms
    /\ e.last_seq = d.last_seq /\ e.last_time = d.last_time
    /\ \A k \in Shown : Told(e.detections, k) = Told(d.detections, k)

\* One more detection of one kind and number.
LEMMA ToldAppend ==
    ASSUME NEW ds \in Seq(DetectionRecord), NEW det \in DetectionRecord, NEW k
    PROVE  Told(Append(ds, det), k) = Told(ds, k) \cup (IF det.kind = k THEN {det.seq} ELSE {})
  <1> DEFINE more == Append(ds, det)
  <1>1. /\ DOMAIN more = 1..(Len(ds) + 1) /\ DOMAIN ds = 1..Len(ds) /\ Len(ds) \in Nat
        /\ \A i \in 1..Len(ds) : more[i] = ds[i]
        /\ more[Len(ds) + 1] = det
    OBVIOUS
  <1> HIDE DEF more
  <1>2. \A i \in 1..(Len(ds) + 1) : i \in 1..Len(ds) \/ i = Len(ds) + 1
    BY <1>1
  <1>3. ASSUME NEW s PROVE s \in Told(more, k) <=>
             s \in Told(ds, k) \/ (det.kind = k /\ s = det.seq)
    BY <1>1, <1>2 DEF Told
  <1> QED BY <1>3 DEF more

\* The number a frame that cannot be read is guessed to have is a number.
LEMMA GuessType == ASSUME NEW d \in DutRecord PROVE Detector!GuessSeq(d) \in Int
  BY DEF DutRecord, Detector!GuessSeq, Detector!Successor, Detector!NoSeq

\* e was told of s, as one of a kind, and compares as d does.
Notes(d, e, kind, s) ==
    /\ e \in DutRecord /\ e.cadence_ms = d.cadence_ms
    /\ e.last_seq = d.last_seq /\ e.last_time = d.last_time
    /\ \A k : Told(e.detections, k) =
                 Told(d.detections, k) \cup (IF kind = k THEN {s} ELSE {})

\* Recording adds to one kind.
LEMMA Recorded ==
    ASSUME NEW d \in DutRecord, NEW kind \in DetKind, NEW s \in Int, NEW t \in Nat
    PROVE  Notes(d, Detector!Record(d, kind, s, t), kind, s)
  <1> DEFINE det == [kind |-> kind, seq |-> s, at |-> t, frame_idx |-> d.frame_idx]
             e == [d EXCEPT !.detections = Append(@, det)]
  <1>1. Detector!Record(d, kind, s, t) = e
    BY DEF Detector!Record
  <1>2. det \in DetectionRecord /\ det.kind = kind /\ det.seq = s
    BY DEF DetectionRecord, DutRecord
  <1>3. d.detections \in Seq(DetectionRecord)
    BY DEF DutRecord
  <1> HIDE DEF det
  <1>4. Append(d.detections, det) \in Seq(DetectionRecord)
    BY <1>2, <1>3
  <1>5. /\ e \in DutRecord /\ e.detections = Append(d.detections, det)
        /\ e.cadence_ms = d.cadence_ms
        /\ e.last_seq = d.last_seq /\ e.last_time = d.last_time
    BY <1>4 DEF DutRecord
  <1> HIDE DEF e
  <1>6. \A k : Told(e.detections, k) =
                 Told(d.detections, k) \cup (IF kind = k THEN {s} ELSE {})
    BY <1>2, <1>3, <1>5, ToldAppend
  <1>7. Notes(d, e, kind, s)
    BY <1>5, <1>6 DEF Notes
  <1> QED BY <1>1, <1>7

\* Counting the frame changes nothing else.
LEMMA Counted ==
    ASSUME NEW d \in DutRecord
    PROVE  Keeps(d, [d EXCEPT !.frame_idx = @ + 1])
  <1> DEFINE e == [d EXCEPT !.frame_idx = d.frame_idx + 1]
  <1>1. /\ e \in DutRecord /\ e.cadence_ms = d.cadence_ms
        /\ e.last_seq = d.last_seq /\ e.last_time = d.last_time /\ e.detections = d.detections
    BY DEF DutRecord
  <1> QED BY <1>1 DEF Keeps

\* Junk tells nothing yet.
LEMMA JunkKeeps == ASSUME NEW d \in DutRecord PROVE Keeps(d, Detector!Junk(d))
  <1> DEFINE more == d.junk_run + 1
             e == [d EXCEPT !.junk_run = more, !.burst_flagged = FALSE]
  <1>1. more \in Nat /\ Detector!Junk(d) = e
    BY DEF DutRecord, Detector!Junk
  <1> HIDE DEF more
  <1>2. /\ e \in DutRecord /\ e.cadence_ms = d.cadence_ms
        /\ e.last_seq = d.last_seq /\ e.last_time = d.last_time /\ e.detections = d.detections
    BY <1>1 DEF DutRecord
  <1> QED BY <1>1, <1>2 DEF Keeps

\* A run of junk that ends may tell of a burst.
LEMMA CloseKeeps ==
    ASSUME NEW d \in DutRecord, NEW t \in Nat
    PROVE  Keeps(d, Detector!CloseRun(d, t))
  <1> DEFINE quiet == [d EXCEPT !.junk_run = 0]
             flagged == [d EXCEPT !.junk_run = 0, !.burst_flagged = TRUE]
  <1>1. CASE d.junk_run = 0
    BY <1>1 DEF Detector!CloseRun, Keeps
  <1>2. CASE d.junk_run # 0 /\ d.burst_flagged
    <2>1. /\ quiet \in DutRecord /\ quiet.detections = d.detections
          /\ quiet.cadence_ms = d.cadence_ms
          /\ quiet.last_seq = d.last_seq /\ quiet.last_time = d.last_time
      BY DEF DutRecord
    <2> QED BY <1>2, <2>1 DEF Keeps, Detector!CloseRun
  <1>3. CASE d.junk_run # 0 /\ ~d.burst_flagged
    <2>1. /\ flagged \in DutRecord /\ flagged.detections = d.detections
          /\ flagged.cadence_ms = d.cadence_ms
          /\ flagged.last_seq = d.last_seq /\ flagged.last_time = d.last_time
      BY DEF DutRecord
    <2>2. Detector!CloseRun(d, t) = Detector!Record(flagged, "Burst", Detector!GuessSeq(d), t)
      BY <1>3 DEF Detector!CloseRun
    <2> HIDE DEF flagged
    <2>3. Notes(flagged, Detector!CloseRun(d, t), "Burst", Detector!GuessSeq(d))
      <3>1. "Burst" \in DetKind
        BY DEF DetKind
      <3> QED BY <2>1, <2>2, <3>1, GuessType, Recorded
    <2> QED BY <2>1, <2>3 DEF Keeps, Notes, Shown
  <1> QED BY <1>1, <1>2, <1>3

\* What keeps the comparison twice keeps it.
LEMMA KeepsTransitive ==
    ASSUME NEW c, NEW d, NEW e, Keeps(c, d), Keeps(d, e)
    PROVE  Keeps(c, e)
  BY DEF Keeps

\* Every frame but a measurement that can be read leaves the comparison alone.
LEMMA TrailedKeeps == ASSUME NEW d \in DutRecord, now \in Nat PROVE Keeps(d, Trailed(d))
  <1> DEFINE counted == [d EXCEPT !.frame_idx = @ + 1]
  <1>1. Keeps(d, counted)
    BY Counted
  <1>2. Trailed(d) = Detector!Junk(counted)
    BY DEF Trailed, Detector!process, Detector!DuGarbage
  <1> HIDE DEF counted
  <1>3. Keeps(counted, Detector!Junk(counted))
    BY <1>1, JunkKeeps DEF Keeps
  <1> QED BY <1>1, <1>2, <1>3, KeepsTransitive

\* A frame that fails its check changes nothing the comparisons use.
LEMMA SpoiledKeeps ==
    ASSUME NEW d \in DutRecord, now \in Nat
    PROVE  Keeps(d, Detector!process(d, Detector!DuBadCrc(K_SENSOR), now))
  <1> DEFINE counted == [d EXCEPT !.frame_idx = @ + 1]
             closed == Detector!CloseRun(counted, now)
             noted == Detector!Record(closed, "Crc", Detector!GuessSeq(closed), now)
  <1>1. Detector!process(d, Detector!DuBadCrc(K_SENSOR), now) = noted
    BY DEF Detector!process, Detector!DuBadCrc, Detector!Unverified
  <1>2. Keeps(d, counted)
    BY Counted
  <1> HIDE DEF counted
  <1>3. Keeps(counted, closed)
    BY <1>2, CloseKeeps DEF Keeps
  <1> HIDE DEF closed
  <1>4. closed \in DutRecord /\ Detector!GuessSeq(closed) \in Int /\ "Crc" \in DetKind
    BY <1>3, GuessType DEF Keeps, DetKind
  <1>5. Notes(closed, noted, "Crc", Detector!GuessSeq(closed))
    BY <1>4, Recorded
  <1>6. Keeps(closed, noted)
    BY <1>5 DEF Keeps, Notes, Shown
  <1> QED BY <1>1, <1>2, <1>3, <1>6, KeepsTransitive

\* What a measurement shows against the last one, without a wrap.
Shows(d, s, t) ==
    CASE d.last_seq = -1     -> {}
      [] d.last_seq # -1 /\ s = d.last_seq + 1 ->
            IF t - d.last_time < 4 * Cadence + 5 THEN {} ELSE {"Late"}
      [] d.last_seq # -1 /\ s > d.last_seq + 1 -> {"Gap"}
      [] d.last_seq # -1 /\ s < d.last_seq + 1 -> {"Replay"}

\* What is compared with is set on its own.
NowLast(d, s, t) == [d EXCEPT !.last_seq = s, !.last_time = t]

\* Noting a measurement leaves the detections and the cadence as they are.
LEMMA Compared ==
    ASSUME NEW d \in DutRecord, NEW s \in Int, NEW t \in Nat
    PROVE  LET e == NowLast(d, s, t)
           IN  /\ e \in DutRecord /\ e.cadence_ms = d.cadence_ms
               /\ e.last_seq = s /\ e.last_time = t /\ e.detections = d.detections
  BY DEF DutRecord, NowLast

\* The detector e is d after measurement s: it compares with s from now on, and
\* was told what s shows.
Measured(d, e, s) ==
    /\ e \in DutRecord /\ e.cadence_ms = d.cadence_ms
    /\ e.last_seq = s /\ e.last_time = now
    /\ \A k \in Shown : Told(e.detections, k) =
          Told(d.detections, k) \cup (IF k \in Shows(d, s, now) THEN {s} ELSE {})

\* A measurement that can be read is the one compared with from now on.
LEMMA MeasuredShows ==
    ASSUME NEW d \in DutRecord, NEW s \in Nat, now \in Nat, s <= 65534,
           d.last_seq >= -1, d.last_seq <= 65534, d.cadence_ms = Cadence
    PROVE  Measured(d, Detector!process(d, Detector!DuFrame(K_SENSOR, s), now), s)
  <1> DEFINE counted == [d EXCEPT !.frame_idx = @ + 1]
             closed == Detector!CloseRun(counted, now)
             shown == Detector!Anomalies(closed, s, now)
             kind == CHOOSE k \in shown : TRUE
             noted == IF shown = {} THEN closed ELSE Detector!Record(closed, kind, s, now)
             e == [noted EXCEPT !.last_seq = s, !.last_time = now]
  <1>1. Detector!process(d, Detector!DuFrame(K_SENSOR, s), now) = e
    BY DEF Detector!process, Detector!DuFrame, Detector!Measure
  <1>2. Keeps(d, counted)
    BY Counted
  <1> HIDE DEF counted
  <1>3. Keeps(counted, closed)
    BY <1>2, CloseKeeps DEF Keeps
  <1> HIDE DEF closed
  <1>4. Keeps(d, closed) /\ closed \in DutRecord
    BY <1>2, <1>3, KeepsTransitive DEF Keeps
  <1>5. shown = Shows(d, s, now) /\ (shown = {} \/ \E k \in Shown : shown = {k})
    <2>1. /\ d.last_seq \in Int /\ closed.last_seq = d.last_seq
          /\ closed.last_time = d.last_time /\ closed.cadence_ms = Cadence
      BY <1>4 DEF Keeps, DutRecord
    <2>2. (d.last_seq + 1) % 65536 = d.last_seq + 1
      BY <2>1
    <2>3. CASE d.last_seq = -1
      BY <2>1, <2>3 DEF Shows, Detector!Anomalies, Detector!NoSeq
    <2>4. CASE d.last_seq # -1 /\ s = d.last_seq + 1
      BY <2>1, <2>2, <2>4, BenchAssumption
         DEF Shows, Shown, Detector!Anomalies, Detector!NoSeq, Detector!Successor,
             Detector!late_budget_ms
    <2>5. CASE d.last_seq # -1 /\ s # d.last_seq + 1
      BY <2>1, <2>2, <2>5
         DEF Shows, Shown, Detector!Anomalies, Detector!NoSeq, Detector!Successor
    <2> QED BY <2>3, <2>4, <2>5
  <1> HIDE DEF shown
  <1>6. /\ noted \in DutRecord /\ noted.cadence_ms = closed.cadence_ms
        /\ \A k \in Shown : Told(noted.detections, k) =
              Told(closed.detections, k) \cup (IF k \in shown THEN {s} ELSE {})
    <2>1. CASE shown = {}
      BY <1>4, <2>1
    <2>2. CASE shown # {}
      <3>1. kind \in DetKind /\ shown = {kind}
        BY <1>5, <2>2 DEF Shown, DetKind
      <3>2. noted = Detector!Record(closed, kind, s, now)
        BY <2>2
      <3> HIDE DEF kind
      <3>3. Notes(closed, noted, kind, s)
        BY <1>4, <3>1, <3>2, Recorded
      <3> QED BY <3>1, <3>3 DEF Notes
    <2> QED BY <2>1, <2>2
  <1> HIDE DEF noted
  <1>7. /\ e \in DutRecord /\ e.cadence_ms = noted.cadence_ms
        /\ e.last_seq = s /\ e.last_time = now /\ e.detections = noted.detections
    <2>1. noted \in DutRecord /\ s \in Int /\ now \in Nat
      BY <1>6
    <2>2. e = NowLast(noted, s, now)
      BY DEF NowLast
    <2> HIDE DEF e
    <2> QED BY <2>1, <2>2, Compared
  <1> HIDE DEF e
  <1>8. Measured(d, e, s)
    BY <1>4, <1>5, <1>6, <1>7 DEF Keeps, Measured
  <1> QED BY <1>1, <1>8

-----------------------------------------------------------------------------
\* One slot of the engine.

\* A tuple behind a tuple.
LEMMA Behind ==
    ASSUME NEW a, NEW b, NEW c
    PROVE  <<a>> \o <<c>> = <<a, c>> /\ <<a, b>> \o <<c>> = <<a, b, c>>
  <1> DEFINE S == {a, b, c}
  <1>1. <<a>> \in Seq(S) /\ <<a, b>> \in Seq(S) /\ c \in S
    OBVIOUS
  <1> HIDE DEF S
  <1>2. Append(<<a>>, c) = <<a>> \o <<c>> /\ Append(<<a, b>>, c) = <<a, b>> \o <<c>>
    BY <1>1, AppendIsConcat
  <1>3. Append(<<a>>, c) = <<a, c>>
    <2> DEFINE s == Append(<<a>>, c)
               t == <<a, c>>
    <2>1. s \in Seq(S) /\ Len(s) = 2 /\ s[1] = a /\ s[2] = c
      BY <1>1
    <2>2. t \in Seq(S) /\ Len(t) = 2 /\ t[1] = a /\ t[2] = c
      BY DEF S
    <2> HIDE DEF s, t
    <2>3. \A i \in 1..Len(s) : s[i] = t[i]
      BY <2>1, <2>2
    <2>4. s = t
      BY <2>1, <2>2, <2>3, SeqEqual
    <2> QED BY <2>4 DEF s, t
  <1>4. Append(<<a, b>>, c) = <<a, b, c>>
    <2> DEFINE s == Append(<<a, b>>, c)
               t == <<a, b, c>>
    <2>1. s \in Seq(S) /\ Len(s) = 3 /\ s[1] = a /\ s[2] = b /\ s[3] = c
      BY <1>1
    <2>2. t \in Seq(S) /\ Len(t) = 3 /\ t[1] = a /\ t[2] = b /\ t[3] = c
      BY DEF S
    <2> HIDE DEF s, t
    <2>3. \A i \in 1..Len(s) : s[i] = t[i]
      BY <2>1, <2>2
    <2>4. s = t
      BY <2>1, <2>2, <2>3, SeqEqual
    <2> QED BY <2>4 DEF s, t
  <1> QED BY <1>2, <1>3, <1>4

\* What a slot sends: measurements of its number, two only in a replay, and at
\* last the notice of its fault.
LEMMA SlotSends ==
    ASSUME NEW c, c.seq \in Nat, c.fault_id \in Nat, NEW kind \in Kinds
    PROVE  /\ Emits(c, kind) \in Seq(Frame)
           /\ \A i \in DOMAIN Emits(c, kind) :
                 /\ Emits(c, kind)[i].type = "SENSOR" => Emits(c, kind)[i].seq = c.seq
                 /\ Emits(c, kind)[i].type = "FAULT" =>
                       /\ i = Len(Emits(c, kind)) /\ IsInjected(kind)
                       /\ Emits(c, kind)[i] = Notice(c.fault_id + 1, kind, c.seq)
                 /\ Emits(c, kind)[i].type = "SENSOR" => \A j \in 1..(i - 1) :
                       Emits(c, kind)[j].type = "SENSOR" => kind = FAULT_REPLAY
  <1> DEFINE clean == Sensor(c.seq, 0)
             bad == Sensor(c.seq, c.fault_id + 1)
             notice == Notice(c.fault_id + 1, kind, c.seq)
             Holds(e) ==
                /\ e \in Seq(Frame)
                /\ \A i \in DOMAIN e :
                      /\ e[i].type = "SENSOR" => e[i].seq = c.seq
                      /\ e[i].type = "FAULT" =>
                            i = Len(e) /\ IsInjected(kind) /\ e[i] = notice
                      /\ e[i].type = "SENSOR" => \A j \in 1..(i - 1) :
                            e[j].type = "SENSOR" => kind = FAULT_REPLAY
  <1>1. /\ clean \in Frame /\ clean.type = "SENSOR" /\ clean.seq = c.seq
        /\ bad \in Frame /\ bad.type = "SENSOR" /\ bad.seq = c.seq
        /\ notice \in Frame /\ notice.type = "FAULT"
        /\ Junk \in Frame /\ Junk.type = "JUNK"
    BY DEF Frame, Sensor, Notice, Junk
  <1>2. kind \in Int
    BY DEF Kinds, FAULT_NONE, FAULT_DUTY
  <1> USE DEF FAULT_NONE, FAULT_BITFLIP, FAULT_BYTE, FAULT_DROP, FAULT_DELAY,
              FAULT_REPLAY, FAULT_BURST, FAULT_DUTY
  <1>3. CASE kind = 1 \/ kind = 2
    <2>1. Emits(c, kind) = <<bad, notice>> /\ IsInjected(kind)
      <3>1. FramesOf(c, kind) = <<bad>> /\ IsInjected(kind)
        BY <1>3 DEF FramesOf, IsInjected
      <3>2. NoticesOf(c, kind) = <<notice>>
        BY <3>1 DEF NoticesOf
      <3> HIDE DEF bad, clean, notice
      <3> QED BY <3>1, <3>2, Behind DEF Emits
    <2> HIDE DEF bad, notice
    <2>2. Holds(<<bad, notice>>)
      BY <1>1, <2>1
    <2> QED BY <2>1, <2>2 DEF notice
  <1>4. CASE kind = 3
    <2>1. Emits(c, kind) = <<notice>> /\ IsInjected(kind)
      BY <1>4 DEF Emits, FramesOf, NoticesOf, IsInjected
    <2> HIDE DEF notice
    <2>2. Holds(<<notice>>)
      BY <1>1, <2>1
    <2> QED BY <2>1, <2>2 DEF notice
  <1>5. CASE kind = 4
    <2>1. Emits(c, kind) = <<clean, notice>> /\ IsInjected(kind)
      <3>1. FramesOf(c, kind) = <<clean>> /\ IsInjected(kind)
        BY <1>5 DEF FramesOf, IsInjected
      <3>2. NoticesOf(c, kind) = <<notice>>
        BY <3>1 DEF NoticesOf
      <3> HIDE DEF bad, clean, notice
      <3> QED BY <3>1, <3>2, Behind DEF Emits
    <2> HIDE DEF clean, notice
    <2>2. Holds(<<clean, notice>>)
      BY <1>1, <2>1
    <2> QED BY <2>1, <2>2 DEF notice
  <1>6. CASE kind = 5
    <2>1. Emits(c, kind) = <<clean, clean, notice>> /\ IsInjected(kind)
      <3>1. FramesOf(c, kind) = <<clean, clean>> /\ IsInjected(kind)
        BY <1>6 DEF FramesOf, IsInjected
      <3>2. NoticesOf(c, kind) = <<notice>>
        BY <3>1 DEF NoticesOf
      <3> HIDE DEF bad, clean, notice
      <3> QED BY <3>1, <3>2, Behind DEF Emits
    <2> HIDE DEF clean, notice
    <2>2. Holds(<<clean, clean, notice>>)
      BY <1>1, <2>1, <1>6
    <2> QED BY <2>1, <2>2 DEF notice
  <1>7. CASE kind = 6
    <2>1. Emits(c, kind) = <<Junk, clean, notice>> /\ IsInjected(kind)
      <3>1. FramesOf(c, kind) = <<Junk, clean>> /\ IsInjected(kind)
        BY <1>7 DEF FramesOf, IsInjected
      <3>2. NoticesOf(c, kind) = <<notice>>
        BY <3>1 DEF NoticesOf
      <3> HIDE DEF bad, clean, notice
      <3> QED BY <3>1, <3>2, Behind DEF Emits
    <2> HIDE DEF clean, notice
    <2>2. Holds(<<Junk, clean, notice>>)
      BY <1>1, <2>1
    <2> QED BY <2>1, <2>2 DEF notice
  <1>8. CASE kind \notin 1..6
    <2>1. Emits(c, kind) = <<clean>>
      BY <1>8 DEF Emits, FramesOf, NoticesOf, IsInjected
    <2> HIDE DEF clean
    <2>2. Holds(<<clean>>)
      BY <1>1, <2>1
    <2> QED BY <2>1, <2>2 DEF notice
  <1> QED BY <1>2, <1>3, <1>4, <1>5, <1>6, <1>7, <1>8
\* The faults of the slots so far can be counted.
LEMMA FaultsFinite ==
    ASSUME TypeOK, NEW n \in Nat
    PROVE  IsFiniteSet(InjectedIn(n)) /\ Cardinality(InjectedIn(n)) \in Nat
  <1>1. IsFiniteSet(1..n) /\ InjectedIn(n) \in SUBSET (1..n)
    BY FS_Interval DEF InjectedIn
  <1> QED BY <1>1, FS_Subset, FS_CardinalityType

\* A slot appends to the history, and leaves the faults before it what they were.
LEMMA SlotGrows ==
    ASSUME LineInv, NEW kind \in Kinds, NEW jitter \in Nat, RunSlot(kind, jitter)
    PROVE  /\ slots' \in Seq(Kinds) /\ Len(slots') = Len(slots) + 1
           /\ lateness' \in Seq(Nat) /\ Len(lateness') = Len(slots) + 1
           /\ slots'[Len(slots) + 1] = kind /\ lateness'[Len(slots) + 1] = jitter
           /\ \A i \in 1..Len(slots) : slots'[i] = slots[i] /\ lateness'[i] = lateness[i]
           /\ \A n \in 0..Len(slots) : InjectedIn(n)' = InjectedIn(n)
           /\ Len(slots) \in Nat /\ Len(slots) + 1 <= Packets
  <1>1. /\ slots \in Seq(Kinds) /\ lateness \in Seq(Nat) /\ Len(lateness) = Len(slots)
        /\ slots' = Append(slots, kind) /\ lateness' = Append(lateness, jitter)
    BY DEF LineInv, TypeOK, RunSlot
  <1>2. /\ slots' \in Seq(Kinds) /\ Len(slots') = Len(slots) + 1
        /\ lateness' \in Seq(Nat) /\ Len(lateness') = Len(slots) + 1
        /\ slots'[Len(slots) + 1] = kind /\ lateness'[Len(slots) + 1] = jitter
        /\ \A i \in 1..Len(slots) : slots'[i] = slots[i] /\ lateness'[i] = lateness[i]
        /\ Len(slots) \in Nat
    BY <1>1
  <1>3. \A n \in 0..Len(slots) : InjectedIn(n)' = InjectedIn(n)
    BY <1>2 DEF InjectedIn
  <1>4. engine.sent = Len(slots) /\ engine.packets = Packets
    BY DEF LineInv, Engine
  <1>5. Len(slots) + 1 <= Packets
    BY <1>2, <1>4, BenchAssumption DEF RunSlot, Exhausted, Packets
  <1> QED BY <1>2, <1>3, <1>5

\* The engine counts the new slot, and its fault if there is one.
LEMMA EngineCounts ==
    ASSUME LineInv, NEW kind \in Kinds, NEW jitter \in Nat, RunSlot(kind, jitter)
    PROVE  /\ Engine' /\ engine.fault_id \in Nat
           /\ engine'.fault_id = engine.fault_id + (IF IsInjected(kind) THEN 1 ELSE 0)
  <1> SUFFICES ASSUME NEW n, n = Len(slots)
               PROVE  /\ Engine' /\ engine.fault_id \in Nat
                      /\ engine'.fault_id =
                           engine.fault_id + (IF IsInjected(kind) THEN 1 ELSE 0)
    OBVIOUS
  <1>1. /\ Len(slots') = n + 1 /\ slots'[n + 1] = kind /\ n \in Nat
        /\ \A i \in 1..n : slots'[i] = slots[i]
        /\ InjectedIn(n)' = InjectedIn(n)
    BY SlotGrows
  <1>2. InjectedIn(n + 1)' =
           IF IsInjected(kind) THEN InjectedIn(n) \cup {n + 1} ELSE InjectedIn(n)
    BY <1>1 DEF InjectedIn
  <1>3. /\ IsFiniteSet(InjectedIn(n)) /\ Cardinality(InjectedIn(n)) \in Nat
        /\ n + 1 \notin InjectedIn(n)
    <2>1. TypeOK
      BY DEF LineInv
    <2>2. n + 1 \notin InjectedIn(n)
      BY <1>1 DEF InjectedIn
    <2> QED BY <1>1, <2>1, <2>2, FaultsFinite
  <1>4. Cardinality(InjectedIn(n + 1)') =
           Cardinality(InjectedIn(n)) + (IF IsInjected(kind) THEN 1 ELSE 0)
    <2>1. Cardinality(InjectedIn(n) \cup {n + 1}) = Cardinality(InjectedIn(n)) + 1
      BY <1>3, FS_AddElement
    <2> QED BY <1>2, <1>3, <2>1
  <1>5. engine = [packets |-> Packets, cadence_ms |-> Cadence, kinds |-> Config.kinds,
                  seq |-> n, fault_id |-> Cardinality(InjectedIn(n)), sent |-> n]
    BY DEF LineInv, Engine
  <1>6. engine' = [packets |-> Packets, cadence_ms |-> Cadence, kinds |-> Config.kinds,
                   seq |-> n + 1, sent |-> n + 1,
                   fault_id |-> Cardinality(InjectedIn(n))
                                  + (IF IsInjected(kind) THEN 1 ELSE 0)]
    <2> DEFINE more == IF IsInjected(kind) THEN engine.fault_id + 1 ELSE engine.fault_id
    <2>1. engine' = [engine EXCEPT !.seq = engine.seq + 1, !.sent = engine.sent + 1,
                                   !.fault_id = more]
      BY DEF RunSlot, AfterSlot
    <2>2. /\ engine.seq = n /\ engine.sent = n
          /\ more = Cardinality(InjectedIn(n)) + (IF IsInjected(kind) THEN 1 ELSE 0)
      BY <1>3, <1>5
    <2> HIDE DEF more
    <2>3. engine' = [packets |-> Packets, cadence_ms |-> Cadence, kinds |-> Config.kinds,
                     seq |-> n + 1, sent |-> n + 1, fault_id |-> more]
      BY <1>5, <2>1, <2>2
    <2> QED BY <2>2, <2>3
  <1>7. Engine'
    BY <1>1, <1>4, <1>6 DEF Engine, Packets, Cadence
  <1> QED BY <1>3, <1>5, <1>6, <1>7
\* The last measurement read is a number, and none is ahead of the current slot.
LEMMA LastIsRead ==
    ASSUME TypeOK, ReadInOrder
    PROVE  /\ Last \in Int /\ Last >= -1 /\ Cur \in Int
           /\ accepted # <<>> => Last >= 0 /\ Last <= Cur
           /\ accepted = <<>> => Last = -1
  <1>1. /\ accepted \in Seq(Nat) /\ slots \in Seq(Kinds)
        /\ \A i \in DOMAIN accepted : accepted[i] <= Cur
    BY DEF TypeOK, ReadInOrder
  <1>2. accepted # <<>> => accepted[Len(accepted)] \in Nat /\ Len(accepted) \in DOMAIN accepted
    BY <1>1
  <1> QED BY <1>1, <1>2 DEF Last, Cur

\* Every measurement read is of a slot.
LEMMA ReadIsSlot ==
    ASSUME TypeOK, ReadInOrder
    PROVE  /\ Len(accepted) \in Nat /\ DOMAIN accepted = 1..Len(accepted)
           /\ \A i \in 1..Len(accepted) :
                 accepted[i] \in Nat /\ accepted[i] + 1 \in 1..Len(slots)
  <1>1. /\ accepted \in Seq(Nat) /\ Len(slots) \in Nat
        /\ \A i \in DOMAIN accepted : accepted[i] <= Len(slots) - 1
    BY DEF TypeOK, ReadInOrder, Cur
  <1> QED BY <1>1

\* The stalls in front of the slots so far are not touched by a new slot.
LEMMA StallsKept ==
    ASSUME LineInv, UNCHANGED accepted, Len(lateness') >= Len(lateness),
           \A i \in 1..Len(slots) : lateness'[i] = lateness[i]
    PROVE  \A ms : InTurn(ms)' = InTurn(ms)
  <1>1. \A i \in 2..Len(accepted) : lateness'[accepted[i] + 1] = lateness[accepted[i] + 1]
    BY ReadIsSlot DEF LineInv
  <1> QED BY <1>1 DEF InTurn

\* The slot that the injector emits keeps what is said of the line.
LEMMA RunSlotLine ==
    ASSUME LineInv, NEW kind \in Kinds, NEW jitter \in Nat, RunSlot(kind, jitter)
    PROVE  LineInv'
  <1>1. /\ slots' \in Seq(Kinds) /\ Len(slots') = Len(slots) + 1
        /\ lateness' \in Seq(Nat) /\ Len(lateness') = Len(slots) + 1
        /\ slots'[Len(slots) + 1] = kind /\ lateness'[Len(slots) + 1] = jitter
        /\ \A i \in 1..Len(slots) : slots'[i] = slots[i] /\ lateness'[i] = lateness[i]
        /\ Len(slots) \in Nat /\ Len(slots) + 1 <= Packets
    BY SlotGrows
  <1>2. /\ Cur' = Cur + 1 /\ Cur \in Int /\ Cur' = Len(slots) /\ Last' = Last
        /\ emitted' = Emits(engine, kind)
        /\ UNCHANGED <<dut, accepted, running>>
    BY <1>1 DEF RunSlot, hostVars, Cur, Last
  <1>3. /\ engine.seq = Cur' /\ engine.seq \in Nat /\ engine.fault_id \in Nat
        /\ engine.cadence_ms = Cadence
        /\ Engine' /\ engine'.fault_id = engine.fault_id + (IF IsInjected(kind) THEN 1 ELSE 0)
    BY <1>1, <1>2, EngineCounts DEF LineInv, Engine
  <1>4. /\ emitted' \in Seq(Frame)
        /\ \A i \in DOMAIN emitted' :
              /\ emitted'[i].type = "SENSOR" => emitted'[i].seq = Cur'
              /\ emitted'[i].type = "FAULT" =>
                    /\ i = Len(emitted') /\ IsInjected(kind)
                    /\ emitted'[i] = Notice(engine.fault_id + 1, kind, Cur')
              /\ emitted'[i].type = "SENSOR" => \A j \in 1..(i - 1) :
                    emitted'[j].type = "SENSOR" => kind = FAULT_REPLAY
    BY <1>2, <1>3, SlotSends
  <1>5. now' \in Nat /\ now' = now + jitter
              + (IF kind = FAULT_DELAY THEN 2 * Cadence ELSE 0)
              + (IF slots = <<>> THEN 0 ELSE Cadence)
    <2>1. now \in Nat /\ Cadence \in Nat
      BY BenchAssumption DEF LineInv, TypeOK, Cadence
    <2> QED BY <1>3, <2>1 DEF RunSlot, PauseBefore, PauseAfter
  <1>6. TypeOK'
    BY <1>1, <1>2, <1>4, <1>5 DEF LineInv, TypeOK, Packets, Cadence
  <1>7. Arriving'
    BY <1>1, <1>3, <1>4 DEF Arriving
  <1>8. Last <= Cur
    BY LastIsRead, <1>1 DEF LineInv, Cur
  <1>9. SecondIsReplay'
    BY <1>1, <1>2, <1>4, <1>8, LastIsRead DEF SecondIsReplay, LineInv
  <1>10. ReadInOrder'
    <2>1. /\ Len(accepted) \in Nat /\ DOMAIN accepted = 1..Len(accepted)
          /\ \A i \in 1..Len(accepted) :
                accepted[i] \in Nat /\ slots'[accepted[i] + 1] = slots[accepted[i] + 1]
      BY <1>1, ReadIsSlot DEF LineInv
    <2>2. /\ \A i \in DOMAIN accepted : accepted[i] <= Cur
          /\ \A i \in 2..Len(accepted) :
                /\ accepted[i - 1] <= accepted[i]
                /\ accepted[i - 1] = accepted[i] => slots[accepted[i] + 1] = FAULT_REPLAY
      BY DEF LineInv, ReadInOrder
    <2>3. \A i \in DOMAIN accepted : accepted[i] <= Cur'
      BY <1>2, <2>1, <2>2
    <2>4. \A i \in 2..Len(accepted) :
             accepted[i - 1] = accepted[i] => slots'[accepted[i] + 1] = FAULT_REPLAY
      BY <2>1, <2>2
    <2> QED BY <1>2, <2>2, <2>3, <2>4 DEF ReadInOrder
  <1>11. Compares'
    <2>1. Last \in Int /\ (accepted # <<>> => Last >= 0 /\ Last <= Cur)
      BY LastIsRead DEF LineInv
    <2>2. accepted # <<>> /\ Last = Cur => dut.last_time = now /\ slots # <<>>
      BY <2>1 DEF LineInv, Compares, Cur
    <2>3. Spacing(Cur)' = Cadence + jitter + (IF kind = FAULT_DELAY THEN 2 * Cadence ELSE 0)
      BY <1>1, <1>2 DEF Spacing, Cadence
    <2>4. Cadence \in Nat /\ now \in Nat
      BY BenchAssumption DEF LineInv, TypeOK, Cadence
    <2>5. dut.last_seq = Last /\ dut' = dut /\ accepted' = accepted
      BY <1>2 DEF LineInv, Compares
    <2>6. accepted # <<>> /\ Last = Cur' - 1 => now' - dut.last_time = Spacing(Cur)'
      BY <1>2, <1>5, <2>2, <2>3, <2>4
    <2> QED BY <1>2, <2>1, <2>5, <2>6 DEF Compares
  <1>12. GapsExact' /\ ReplaysExact'
    <2>1. dut' = dut /\ accepted' = accepted
      BY <1>2
    <2>2. GapsExact /\ ReplaysExact
      BY DEF LineInv
    <2>3. Jumps' = Jumps /\ Flagged("Gap")' = Flagged("Gap")
      BY <2>1 DEF Jumps, Flagged
    <2>4. ReplaysExact <=> ReplaysExact'
      BY <2>1 DEF ReplaysExact, Flagged
    <2> QED BY <2>2, <2>3, <2>4 DEF GapsExact
  <1>13. LateIsStall'
    <2>1. \A ms : InTurn(ms)' = InTurn(ms)
      BY <1>1, <1>2, StallsKept DEF LineInv, TypeOK
    <2> QED BY <1>2, <2>1 DEF LineInv, LateIsStall, Flagged
  <1> QED BY <1>3, <1>6, <1>7, <1>9, <1>10, <1>11, <1>12, <1>13 DEF LineInv

\* The slot that the injector emits keeps what is said of the notices.
LEMMA RunSlotTruths ==
    ASSUME LineInv, TruthInv, NEW kind \in Kinds, NEW jitter \in Nat, RunSlot(kind, jitter)
    PROVE  TruthInv'
  <1>1. /\ slots' \in Seq(Kinds) /\ Len(slots') = Len(slots) + 1
        /\ \A i \in 1..Len(slots) : slots'[i] = slots[i]
        /\ \A n \in 0..Len(slots) : InjectedIn(n)' = InjectedIn(n)
        /\ Len(slots) \in Nat
    BY SlotGrows
  <1>2. /\ engine.fault_id \in Nat
        /\ engine'.fault_id = engine.fault_id + (IF IsInjected(kind) THEN 1 ELSE 0)
        /\ engine.seq \in Nat
    BY <1>1, EngineCounts DEF LineInv, Engine
  <1>3. \A i \in DOMAIN emitted' : emitted'[i].type = "FAULT" => IsInjected(kind)
    BY <1>2, SlotSends DEF RunSlot
  <1>4. /\ truths \in Seq(TruthRecord) /\ truths' = truths
        /\ \A i \in DOMAIN truths :
              /\ truths[i].at_seq + 1 \in 1..Len(slots) /\ truths[i].at_seq \in Nat
              /\ truths[i].fault_id \in Nat /\ truths[i].fault_id <= engine.fault_id
    <2>1. /\ truths \in Seq(TruthRecord) /\ truths' = truths
          /\ \A i \in DOMAIN truths :
                truths[i].at_seq <= Len(slots) - 1 /\ truths[i].fault_id <= engine.fault_id
      BY DEF TruthInv, TruthsBehind, Cur, RunSlot, hostVars
    <2>2. \A i \in DOMAIN truths : truths[i] \in TruthRecord
      BY <2>1
    <2>3. \A i \in DOMAIN truths : truths[i].at_seq \in Nat /\ truths[i].fault_id \in Nat
      BY <2>2 DEF TruthRecord
    <2> QED BY <1>1, <2>1, <2>3
  <1>5. TruthsBehind'
    BY <1>1, <1>2, <1>3, <1>4 DEF TruthsBehind, Cur
  <1>6. TruthsAreTrue'
    <2> SUFFICES ASSUME NEW i \in DOMAIN truths
                 PROVE  /\ slots'[truths[i].at_seq + 1] = truths[i].kind
                        /\ truths[i].fault_id =
                              Cardinality(InjectedIn(truths[i].at_seq + 1)')
                        /\ i > 1 => truths[i - 1].fault_id < truths[i].fault_id
      BY <1>4 DEF TruthsAreTrue
    <2>1. /\ slots[truths[i].at_seq + 1] = truths[i].kind
          /\ truths[i].fault_id = Cardinality(InjectedIn(truths[i].at_seq + 1))
          /\ i > 1 => truths[i - 1].fault_id < truths[i].fault_id
      BY DEF TruthInv, TruthsAreTrue
    <2>2. truths[i].at_seq + 1 \in 1..Len(slots)
      BY <1>4
    <2>3. ASSUME NEW n, n = truths[i].at_seq + 1
          PROVE  InjectedIn(n)' = InjectedIn(n)
      BY <1>1, <2>2, <2>3
    <2>4. InjectedIn(truths[i].at_seq + 1)' = InjectedIn(truths[i].at_seq + 1)
      BY <1>4, <2>3
    <2> QED BY <1>1, <2>1, <2>2, <2>4
  <1> QED BY <1>5, <1>6 DEF TruthInv
-----------------------------------------------------------------------------
\* The steps that read no measurement.

\* A detector that keeps what it compares with, told nothing of measurements.
LEMMA QuietKeeps ==
    ASSUME LineInv, Keeps(dut, dut'), UNCHANGED <<now, slots, lateness, accepted>>
    PROVE  /\ ReadInOrder' /\ Compares' /\ GapsExact' /\ ReplaysExact' /\ LateIsStall'
           /\ Last' = Last /\ Cur' = Cur
  <1>1. /\ now' = now /\ slots' = slots /\ lateness' = lateness /\ accepted' = accepted
        /\ dut'.last_seq = dut.last_seq /\ dut'.last_time = dut.last_time
    BY DEF Keeps
  <1>2. Last' = Last /\ Cur' = Cur /\ Spacing(Cur)' = Spacing(Cur)
    BY <1>1 DEF Last, Cur, Spacing, Cadence
  <1>3. ReadInOrder' /\ Compares'
    <2>1. ReadInOrder /\ Compares
      BY DEF LineInv
    <2> QED BY <1>1, <1>2, <2>1 DEF ReadInOrder, Compares
  <1>4. Jumps' = Jumps /\ \A ms : InTurn(ms)' = InTurn(ms)
    BY <1>1 DEF Jumps, InTurn
  <1>5. \A k \in Shown : Flagged(k)' = Flagged(k)
    BY DEF Keeps, Flagged, Told
  <1>6. Flagged("Gap")' = Flagged("Gap") /\ Flagged("Replay")' = Flagged("Replay")
        /\ Flagged("Late")' = Flagged("Late")
    BY <1>5 DEF Shown
  <1>7. GapsExact /\ ReplaysExact /\ LateIsStall
    BY DEF LineInv
  <1>8. GapsExact' /\ LateIsStall'
    BY <1>4, <1>6, <1>7 DEF GapsExact, LateIsStall
  <1>9. ReplaysExact'
    BY <1>1, <1>6, <1>7 DEF ReplaysExact
  <1> QED BY <1>2, <1>3, <1>8, <1>9

\* A detector that is not touched keeps everything.
LEMMA SameKeeps == ASSUME NEW d \in DutRecord PROVE Keeps(d, d)
  BY DEF Keeps

\* The frames that are left are the last ones of those before.
LEMMA TailShifts ==
    ASSUME NEW S, NEW q \in Seq(S), q # <<>>
    PROVE  /\ Tail(q) \in Seq(S) /\ Len(Tail(q)) = Len(q) - 1 /\ Len(q) \in Nat
           /\ \A i \in DOMAIN Tail(q) :
                 i \in Nat /\ i + 1 \in DOMAIN q /\ Tail(q)[i] = q[i + 1]
  <1>1. /\ Tail(q) \in Seq(S) /\ Len(Tail(q)) = Len(q) - 1
        /\ \A i \in 1..Len(Tail(q)) : Tail(q)[i] = q[i + 1]
    BY HeadTailProperties
  <1>2. Len(q) \in Nat /\ DOMAIN q = 1..Len(q) /\ DOMAIN Tail(q) = 1..Len(Tail(q))
    BY <1>1
  <1> QED BY <1>1, <1>2

\* What is left of a slot is no less in order than all of it.
LEMMA TailArrives ==
    ASSUME LineInv, emitted # <<>>, emitted' = Tail(emitted),
           UNCHANGED <<engine, slots>>
    PROVE  /\ emitted' \in Seq(Frame) /\ Arriving'
           /\ \A i \in DOMAIN emitted' : emitted'[i].type = "SENSOR" =>
                 \A j \in 1..(i - 1) :
                    emitted'[j].type = "SENSOR" => slots[Len(slots)] = FAULT_REPLAY
  <1>1. /\ emitted' \in Seq(Frame) /\ Len(emitted') = Len(emitted) - 1 /\ Len(emitted) \in Nat
        /\ \A i \in DOMAIN emitted' :
              i \in Nat /\ i + 1 \in DOMAIN emitted /\ emitted'[i] = emitted[i + 1]
    BY TailShifts DEF LineInv, TypeOK
  <1>2. slots' = slots /\ engine' = engine /\ Cur' = Cur
    BY DEF Cur
  <1>3. Arriving'
    <2> SUFFICES ASSUME NEW i \in DOMAIN emitted'
                 PROVE  /\ emitted'[i].type # "END" => slots' # <<>>
                        /\ emitted'[i].type = "SENSOR" => emitted'[i].seq = Cur'
                        /\ emitted'[i].type = "FAULT" =>
                              /\ i = Len(emitted') /\ IsInjected(slots'[Len(slots')])
                              /\ emitted'[i] =
                                   Notice(engine'.fault_id, slots'[Len(slots')], Cur')
      BY DEF Arriving
    <2>1. i + 1 \in DOMAIN emitted /\ emitted'[i] = emitted[i + 1] /\ i \in Nat
      BY <1>1
    <2> QED BY <1>1, <1>2, <2>1 DEF LineInv, Arriving
  <1>4. ASSUME NEW i \in DOMAIN emitted', NEW j \in 1..(i - 1),
               emitted'[i].type = "SENSOR", emitted'[j].type = "SENSOR"
        PROVE  slots[Len(slots)] = FAULT_REPLAY
    <2>1. /\ i \in Nat /\ i + 1 \in DOMAIN emitted /\ emitted'[i] = emitted[i + 1]
          /\ j \in DOMAIN emitted'
      BY <1>1
    <2>2. j + 1 \in 1..((i + 1) - 1) /\ emitted'[j] = emitted[j + 1]
      BY <1>1, <2>1
    <2>3. emitted[i + 1].type = "SENSOR" /\ emitted[j + 1].type = "SENSOR"
      BY <1>4, <2>1, <2>2
    <2> QED BY <2>1, <2>2, <2>3 DEF LineInv, SecondIsReplay
  <1> QED BY <1>1, <1>3, <1>4

\* A frame that is no measurement for the detector.
LEMMA QuietStep ==
    ASSUME LineInv, emitted # <<>>, emitted' = Tail(emitted), Keeps(dut, dut'),
           UNCHANGED <<engine, running, now, slots, lateness, accepted>>
    PROVE  LineInv'
  <1>1. ReadInOrder' /\ Compares' /\ GapsExact' /\ ReplaysExact' /\ LateIsStall'
        /\ Last' = Last /\ Cur' = Cur
    BY QuietKeeps
  <1>2. /\ emitted' \in Seq(Frame) /\ Arriving'
        /\ \A i \in DOMAIN emitted' : emitted'[i].type = "SENSOR" =>
              \A j \in 1..(i - 1) :
                 emitted'[j].type = "SENSOR" => slots[Len(slots)] = FAULT_REPLAY
    BY TailArrives
  <1>3. TypeOK'
    BY <1>2 DEF LineInv, TypeOK, Keeps, Packets, Cadence
  <1>4. SecondIsReplay'
    <2>1. \A i \in DOMAIN emitted' : i + 1 \in DOMAIN emitted /\ emitted'[i] = emitted[i + 1]
      BY TailShifts DEF LineInv, TypeOK
    <2>2. SecondIsReplay
      BY DEF LineInv
    <2> QED BY <1>1, <1>2, <2>1, <2>2 DEF SecondIsReplay
  <1>5. Engine'
    BY DEF LineInv, Engine, InjectedIn, Packets, Cadence
  <1> QED BY <1>1, <1>2, <1>3, <1>4, <1>5 DEF LineInv

\* The notices stay what they are while frames of their slot arrive.
LEMMA TruthsKept ==
    ASSUME LineInv, TruthInv, emitted # <<>>, emitted' = Tail(emitted),
           UNCHANGED <<engine, slots, truths>>
    PROVE  TruthInv'
  <1>1. \A i \in DOMAIN emitted' : i + 1 \in DOMAIN emitted /\ emitted'[i] = emitted[i + 1]
    BY TailShifts DEF LineInv, TypeOK
  <1>2. TruthsBehind /\ TruthsAreTrue
    BY DEF TruthInv
  <1>3. TruthsBehind'
    BY <1>1, <1>2 DEF TruthsBehind, Cur
  <1>4. TruthsAreTrue'
    BY <1>2 DEF TruthsAreTrue, InjectedIn
  <1> QED BY <1>3, <1>4 DEF TruthInv

\* The END says nothing of a slot.
LEMMA RunEndInv ==
    ASSUME LineInv, TruthInv, RunEnd
    PROVE  LineInv' /\ TruthInv'
  <1>1. /\ UNCHANGED <<engine, now, slots, lateness, accepted, dut, truths>>
        /\ emitted' = <<End(engine.packets, engine.fault_id)>> /\ running' = FALSE
    BY DEF RunEnd, hostVars
  <1>2. Keeps(dut, dut')
    BY <1>1, SameKeeps DEF LineInv, TypeOK
  <1>3. ReadInOrder' /\ Compares' /\ GapsExact' /\ ReplaysExact' /\ LateIsStall'
    BY <1>1, <1>2, QuietKeeps
  <1>4. emitted' \in Seq(Frame) /\ \A i \in DOMAIN emitted' : emitted'[i].type = "END"
    <2>1. engine.packets \in Nat /\ engine.fault_id \in Nat
      <3>1. slots \in Seq(Kinds) /\ TypeOK
        BY DEF LineInv, TypeOK
      <3> QED BY <3>1, FaultsFinite, BenchAssumption DEF LineInv, Engine, Packets
    <2>2. End(engine.packets, engine.fault_id) \in Frame
          /\ End(engine.packets, engine.fault_id).type = "END"
      BY <2>1 DEF End, Frame
    <2> QED BY <1>1, <2>2
  <1>5. TypeOK'
    BY <1>1, <1>4 DEF LineInv, TypeOK, Packets, Cadence
  <1>6. Arriving' /\ SecondIsReplay'
    BY <1>4 DEF Arriving, SecondIsReplay
  <1>7. Engine'
    BY <1>1 DEF LineInv, Engine, InjectedIn, Packets, Cadence
  <1>8. TruthsBehind /\ TruthsAreTrue
    BY DEF TruthInv
  <1>9. TruthsBehind'
    BY <1>1, <1>4, <1>8 DEF TruthsBehind, Cur
  <1>10. TruthsAreTrue'
    BY <1>1, <1>8 DEF TruthsAreTrue, InjectedIn
  <1> QED BY <1>3, <1>5, <1>6, <1>7, <1>9, <1>10 DEF LineInv, TruthInv

-----------------------------------------------------------------------------
\* A measurement that can be read.

\* What it is, and what the detector makes of it.
LEMMA ReadsCur ==
    ASSUME LineInv, ReadSensor
    PROVE  /\ emitted # <<>> /\ emitted[1].type = "SENSOR" /\ slots # <<>>
           /\ Cur \in Nat /\ accepted' = Append(accepted, Cur)
           /\ dut' \in DutRecord /\ dut'.cadence_ms = Cadence
           /\ dut'.last_seq = Cur /\ dut'.last_time = now
           /\ \A k \in Shown : Flagged(k)' =
                 Flagged(k) \cup (IF k \in Shows(dut, Cur, now) THEN {Cur} ELSE {})
  <1>1. emitted # <<>> /\ emitted[1].type = "SENSOR" /\ 1 \in DOMAIN emitted
    BY DEF ReadSensor, NextFrame, LineInv, TypeOK
  <1>2. slots # <<>> /\ emitted[1].seq = Cur
    BY <1>1 DEF LineInv, Arriving
  <1>3. Cur \in Nat /\ Cur <= 65534
    <2>1. slots \in Seq(Kinds) /\ Len(slots) <= Packets /\ Packets \in Nat /\ Packets < 65536
      BY BenchAssumption DEF LineInv, TypeOK, Packets
    <2> QED BY <1>2, <2>1 DEF Cur
  <1>4. /\ dut \in DutRecord /\ dut.cadence_ms = Cadence /\ now \in Nat
        /\ dut.last_seq = Last
    BY DEF LineInv, TypeOK, Compares
  <1>5. dut.last_seq >= -1 /\ dut.last_seq <= 65534
    <2>1. TypeOK /\ ReadInOrder
      BY DEF LineInv
    <2> QED BY <1>3, <1>4, <2>1, LastIsRead
  <1> DEFINE e == Detector!process(dut, Detector!DuFrame(K_SENSOR, Cur), now)
  <1>6. Measured(dut, e, Cur)
    BY <1>3, <1>4, <1>5, MeasuredShows
  <1>7. dut' = Trailed(e) /\ accepted' = Append(accepted, Cur)
    BY <1>2 DEF ReadSensor, ProcessAll
  <1> HIDE DEF e
  <1>8. Keeps(e, dut')
    BY <1>4, <1>6, <1>7, TrailedKeeps DEF Measured
  <1>9. \A k : Flagged(k) = Told(dut.detections, k) /\ Flagged(k)' = Told(dut'.detections, k)
    BY DEF Flagged, Told
  <1>10. Measured(dut, dut', Cur)
    BY <1>6, <1>8 DEF Keeps, Measured
  <1> QED BY <1>1, <1>2, <1>3, <1>4, <1>7, <1>9, <1>10 DEF Measured

\* One more measurement read, and how it stands to the one before it.
LEMMA OneMoreRead ==
    ASSUME LineInv, Cur \in Nat, accepted' = Append(accepted, Cur),
           UNCHANGED <<slots, lateness>>
    PROVE  /\ accepted' \in Seq(Nat) /\ Last' = Cur
           /\ Jumps' = Jumps \cup (IF Last # -1 /\ Cur > Last + 1 THEN {Cur} ELSE {})
           /\ {accepted'[i] : i \in {i \in 2..Len(accepted') : accepted'[i] = accepted'[i - 1]}}
                = {accepted[i] : i \in {i \in 2..Len(accepted) : accepted[i] = accepted[i - 1]}}
                    \cup (IF Cur = Last THEN {Cur} ELSE {})
           /\ \A ms : InTurn(ms)' =
                 InTurn(ms) \cup (IF Last # -1 /\ Cur = Last + 1 /\ lateness[Cur + 1] >= ms
                                 THEN {Cur} ELSE {})
           /\ ReadInOrder' <=> (Cur = Last => slots[Cur + 1] = FAULT_REPLAY)
  <1> SUFFICES ASSUME NEW more, more = accepted', NEW c, c = Cur, NEW n, n = Len(accepted),
                      NEW last, last = Last
               PROVE  /\ accepted' \in Seq(Nat) /\ Last' = Cur
                      /\ Jumps' = Jumps \cup (IF Last # -1 /\ Cur > Last + 1 THEN {Cur} ELSE {})
                      /\ {accepted'[i] : i \in {i \in 2..Len(accepted') :
                                                   accepted'[i] = accepted'[i - 1]}}
                           = {accepted[i] : i \in {i \in 2..Len(accepted) :
                                                     accepted[i] = accepted[i - 1]}}
                               \cup (IF Cur = Last THEN {Cur} ELSE {})
                      /\ \A ms : InTurn(ms)' =
                            InTurn(ms) \cup
                              (IF Last # -1 /\ Cur = Last + 1 /\ lateness[Cur + 1] >= ms
                               THEN {Cur} ELSE {})
                      /\ ReadInOrder' <=> (Cur = Last => slots[Cur + 1] = FAULT_REPLAY)
    OBVIOUS
  <1>1. TypeOK /\ ReadInOrder
    BY DEF LineInv
  <1>2. accepted \in Seq(Nat) /\ DOMAIN accepted = 1..n
    BY <1>1 DEF TypeOK
  <1>3. /\ more \in Seq(Nat) /\ Len(more) = n + 1 /\ n \in Nat /\ c \in Nat
        /\ more[n + 1] = c /\ \A i \in 1..n : more[i] = accepted[i]
    BY <1>2
  <1>4. Last' = Cur
    BY <1>3 DEF Last
  <1>5. last \in Int /\ last <= c /\ (n = 0 => last = -1)
        /\ (n > 0 => last >= 0 /\ last = accepted[n])
    <2>1. accepted = <<>> <=> n = 0
      BY <1>2
    <2> QED BY <1>1, <1>3, <2>1, LastIsRead DEF Last
  <1>6. \A i \in 2..(n + 1) : \/ i \in 2..n /\ i \in 1..n /\ i - 1 \in 1..n
                              \/ i = n + 1 /\ n > 0 /\ more[i] = c /\ more[i - 1] = last
    <2> SUFFICES ASSUME NEW i \in 2..(n + 1), i \notin 2..n
                 PROVE  i = n + 1 /\ n > 0 /\ more[i] = c /\ more[i - 1] = last
      BY <1>3
    <2>1. i = n + 1 /\ n > 0 /\ i - 1 = n
      BY <1>3
    <2> QED BY <1>3, <1>5, <2>1
  <1>7. n > 0 => n + 1 \in 2..(n + 1) /\ more[n + 1] = c /\ more[(n + 1) - 1] = last
    BY <1>3, <1>5
  <1>8. 2..n \subseteq 2..(n + 1) /\ \A i \in 2..n : more[i] = accepted[i]
                                               /\ more[i - 1] = accepted[i - 1]
    BY <1>3
  <1>9. Jumps' = Jumps \cup (IF last # -1 /\ c > last + 1 THEN {c} ELSE {})
    <2> SUFFICES ASSUME NEW x
                 PROVE  x \in Jumps' <=>
                          x \in Jumps \/ (n > 0 /\ c > last + 1 /\ x = c)
      BY <1>5, <1>3
    <2>1. x \in Jumps' <=> \E i \in 2..(n + 1) : more[i] > more[i - 1] + 1 /\ x = more[i]
      BY <1>3 DEF Jumps
    <2>2. x \in Jumps <=> \E i \in 2..n : accepted[i] > accepted[i - 1] + 1 /\ x = accepted[i]
      BY DEF Jumps
    <2> QED BY <1>6, <1>7, <1>8, <2>1, <2>2
  <1>10. {accepted'[i] : i \in {i \in 2..Len(accepted') : accepted'[i] = accepted'[i - 1]}}
           = {accepted[i] : i \in {i \in 2..Len(accepted) : accepted[i] = accepted[i - 1]}}
               \cup (IF c = last THEN {c} ELSE {})
    <2> DEFINE new == {more[i] : i \in {i \in 2..(n + 1) : more[i] = more[i - 1]}}
               old == {accepted[i] : i \in {i \in 2..n : accepted[i] = accepted[i - 1]}}
    <2>1. ASSUME NEW x PROVE x \in new <=> x \in old \/ (n > 0 /\ c = last /\ x = c)
      <3>1. x \in new <=> \E i \in 2..(n + 1) : more[i] = more[i - 1] /\ x = more[i]
        OBVIOUS
      <3>2. x \in old <=> \E i \in 2..n : accepted[i] = accepted[i - 1] /\ x = accepted[i]
        OBVIOUS
      <3> QED BY <1>6, <1>7, <1>8, <3>1, <3>2
    <2>2. new = old \cup (IF c = last THEN {c} ELSE {})
      <3>1. c = last => n > 0
        BY <1>3, <1>5
      <3> HIDE DEF new, old
      <3> QED BY <2>1, <3>1
    <2> QED BY <1>3, <2>2
  <1>11. ASSUME NEW ms
         PROVE  InTurn(ms)' =
                   InTurn(ms) \cup
                      (IF last # -1 /\ c = last + 1 /\ lateness[c + 1] >= ms THEN {c} ELSE {})
    <2> SUFFICES ASSUME NEW x
                 PROVE  x \in InTurn(ms)' <=>
                          x \in InTurn(ms)
                            \/ (n > 0 /\ c = last + 1 /\ lateness[c + 1] >= ms /\ x = c)
      BY <1>5, <1>3
    <2>1. x \in InTurn(ms)' <=> \E i \in 2..(n + 1) :
              more[i] = more[i - 1] + 1 /\ lateness[more[i] + 1] >= ms /\ x = more[i]
      BY <1>3 DEF InTurn
    <2>2. x \in InTurn(ms) <=> \E i \in 2..n :
              /\ accepted[i] = accepted[i - 1] + 1 /\ lateness[accepted[i] + 1] >= ms
              /\ x = accepted[i]
      BY DEF InTurn
    <2> QED BY <1>6, <1>7, <1>8, <2>1, <2>2
  <1>12. ReadInOrder' <=> (c = last => slots[c + 1] = FAULT_REPLAY)
    <2>1. ReadInOrder' <=>
            /\ \A i \in 1..(n + 1) : more[i] <= c
            /\ \A i \in 2..(n + 1) :
                  /\ more[i - 1] <= more[i]
                  /\ more[i - 1] = more[i] => slots[more[i] + 1] = FAULT_REPLAY
      <3>1. DOMAIN more = 1..(n + 1) /\ slots' = slots /\ Cur' = c /\ accepted' = more
        BY <1>3 DEF Cur
      <3> QED BY <1>3, <3>1 DEF ReadInOrder
    <2>2. /\ \A i \in 1..n : accepted[i] <= c
          /\ \A i \in 2..n :
                /\ accepted[i - 1] <= accepted[i]
                /\ accepted[i - 1] = accepted[i] => slots[accepted[i] + 1] = FAULT_REPLAY
      BY <1>1, <1>2 DEF ReadInOrder
    <2>3. \A i \in 1..(n + 1) : more[i] <= c
      BY <1>3, <2>2
    <2>4. c = last => n > 0
      BY <1>3, <1>5
    <2> QED BY <1>5, <1>6, <1>7, <1>8, <2>1, <2>2, <2>3, <2>4
  <1> QED BY <1>3, <1>4, <1>9, <1>10, <1>11, <1>12

\* A measurement that the detector reads keeps what is said of the line.
LEMMA ReadSensorLine ==
    ASSUME LineInv, ReadSensor
    PROVE  LineInv'
  <1>1. /\ emitted # <<>> /\ emitted[1].type = "SENSOR" /\ slots # <<>>
        /\ Cur \in Nat /\ accepted' = Append(accepted, Cur)
        /\ dut' \in DutRecord /\ dut'.cadence_ms = Cadence
        /\ dut'.last_seq = Cur /\ dut'.last_time = now
        /\ \A k \in Shown : Flagged(k)' =
              Flagged(k) \cup (IF k \in Shows(dut, Cur, now) THEN {Cur} ELSE {})
    BY ReadsCur
  <1>2. /\ emitted' = Tail(emitted)
        /\ UNCHANGED <<engine, running, now, slots, lateness>>
    BY DEF ReadSensor
  <1>3. /\ accepted' \in Seq(Nat) /\ Last' = Cur
        /\ Jumps' = Jumps \cup (IF Last # -1 /\ Cur > Last + 1 THEN {Cur} ELSE {})
        /\ {accepted'[i] : i \in {i \in 2..Len(accepted') : accepted'[i] = accepted'[i - 1]}}
             = {accepted[i] : i \in {i \in 2..Len(accepted) : accepted[i] = accepted[i - 1]}}
                 \cup (IF Cur = Last THEN {Cur} ELSE {})
        /\ \A ms : InTurn(ms)' =
              InTurn(ms) \cup (IF Last # -1 /\ Cur = Last + 1 /\ lateness[Cur + 1] >= ms
                              THEN {Cur} ELSE {})
        /\ ReadInOrder' <=> (Cur = Last => slots[Cur + 1] = FAULT_REPLAY)
    BY <1>1, <1>2, OneMoreRead
  <1>4. /\ emitted' \in Seq(Frame) /\ Arriving'
        /\ \A i \in DOMAIN emitted' : emitted'[i].type = "SENSOR" =>
              \A j \in 1..(i - 1) :
                 emitted'[j].type = "SENSOR" => slots[Len(slots)] = FAULT_REPLAY
    BY <1>1, <1>2, TailArrives
  <1>5. /\ TypeOK /\ Engine /\ SecondIsReplay /\ ReadInOrder /\ Compares
        /\ GapsExact /\ ReplaysExact /\ LateIsStall
    BY DEF LineInv
  <1>6. /\ Last \in Int /\ Last >= -1 /\ Last <= Cur
        /\ accepted = <<>> <=> Last = -1
        /\ Cur + 1 = Len(slots) /\ Len(slots) = Len(lateness) /\ lateness \in Seq(Nat)
    <2>1. Cur + 1 = Len(slots) /\ Len(slots) = Len(lateness) /\ lateness \in Seq(Nat)
      BY <1>5 DEF TypeOK, Cur
    <2> QED BY <1>1, <1>5, <2>1, LastIsRead
  <1>7. slots' = slots /\ Cur' = Cur /\ now' = now
    BY <1>2 DEF Cur
  <1>8. TypeOK'
    BY <1>1, <1>2, <1>3, <1>4, <1>5 DEF TypeOK, Packets, Cadence
  <1>9. Engine'
    BY <1>2, <1>5 DEF Engine, InjectedIn, Packets, Cadence
  <1>10. SecondIsReplay'
    <2> SUFFICES ASSUME NEW i \in DOMAIN emitted', emitted'[i].type = "SENSOR"
                 PROVE  slots[Len(slots)] = FAULT_REPLAY
      BY <1>4, <1>7 DEF SecondIsReplay
    <2>1. i + 1 \in DOMAIN emitted /\ emitted'[i] = emitted[i + 1] /\ i \in Nat /\ i # 0
          /\ 1 \in 1..((i + 1) - 1)
      <3>1. emitted' \in Seq(Frame) /\ emitted \in Seq(Frame)
        BY <1>4, <1>5 DEF TypeOK
      <3>2. i + 1 \in DOMAIN emitted /\ emitted'[i] = emitted[i + 1]
        BY <1>1, <1>2, <3>1, TailShifts
      <3>3. i \in Nat /\ i # 0
        BY <3>1
      <3> QED BY <3>2, <3>3
    <2> QED BY <1>1, <1>5, <2>1 DEF SecondIsReplay
  <1>11. ReadInOrder'
    <2>1. 1 \in DOMAIN emitted
      BY <1>1, <1>5 DEF TypeOK
    <2> QED BY <1>1, <1>3, <1>5, <1>6, <2>1 DEF SecondIsReplay
  <1>12. Compares'
    <2>1. Last' = Cur' /\ dut'.last_seq = Last' /\ dut'.last_time = now'
      BY <1>1, <1>3, <1>7
    <2>2. Cur' # Cur' - 1
      BY <1>1, <1>7
    <2>3. /\ dut'.last_seq = Last' /\ (Last' = Cur' => dut'.last_time = now')
          /\ Last' # Cur' - 1
      BY <2>1, <2>2
    <2> QED BY <2>3 DEF Compares
  <1>13. /\ dut.last_seq = Last
         /\ Last # -1 /\ Last = Cur - 1 => now - dut.last_time = Spacing(Cur)
    BY <1>5, <1>6 DEF Compares
  <1>14. /\ "Gap" \in Shows(dut, Cur, now) <=> Last # -1 /\ Cur > Last + 1
         /\ "Replay" \in Shows(dut, Cur, now) <=> Cur = Last
         /\ "Late" \in Shows(dut, Cur, now) <=>
               Last # -1 /\ Cur = Last + 1 /\ now - dut.last_time >= 4 * Cadence + 5
    <2>0. Cur \in Nat
      BY <1>1
    <2>1. Cadence \in Nat /\ now - dut.last_time \in Int
      BY <1>5, BenchAssumption DEF TypeOK, DutRecord, Cadence
    <2>2. CASE Last = -1
      <3>1. Shows(dut, Cur, now) = {} /\ ~(Cur = Last)
        BY <1>13, <2>0, <2>2 DEF Shows
      <3> QED BY <2>2, <3>1
    <2>3. CASE Last # -1 /\ Cur = Last + 1
      BY <1>1, <1>6, <1>13, <2>1, <2>3 DEF Shows
    <2>4. CASE Last # -1 /\ Cur > Last + 1
      BY <1>1, <1>6, <1>13, <2>4 DEF Shows
    <2>5. CASE Last # -1 /\ Cur = Last
      <3>1. Shows(dut, Cur, now) = {"Replay"}
        BY <1>13, <2>0, <2>5 DEF Shows
      <3> QED BY <2>0, <2>5, <3>1
    <2> QED BY <1>6, <2>0, <2>2, <2>3, <2>4, <2>5
  <1>15. GapsExact'
    <2>1. Flagged("Gap")' = Flagged("Gap")
                               \cup (IF Last # -1 /\ Cur > Last + 1 THEN {Cur} ELSE {})
      BY <1>1, <1>14 DEF Shown
    <2> QED BY <1>3, <1>5, <2>1 DEF GapsExact
  <1>16. ReplaysExact'
    <2>1. Flagged("Replay")' = Flagged("Replay") \cup (IF Cur = Last THEN {Cur} ELSE {})
      BY <1>1, <1>14 DEF Shown
    <2> QED BY <1>3, <1>5, <2>1 DEF ReplaysExact
  <1>17. LateIsStall'
    <2> DEFINE late == now - dut.last_time >= 4 * Cadence + 5
               stall == lateness[Cur + 1]
    <2>1. Flagged("Late")' = Flagged("Late")
                                \cup (IF Last # -1 /\ Cur = Last + 1 /\ late THEN {Cur} ELSE {})
      BY <1>1, <1>14 DEF Shown
    <2>2. Last # -1 /\ Cur = Last + 1 =>
             (late => stall >= 1) /\ (stall >= 3 * Cadence + 5 => late)
      <3>1. Cadence \in Nat /\ stall \in Nat
        BY <1>1, <1>6, BenchAssumption DEF Cadence
      <3>2. Spacing(Cur) = Cadence + stall
                             + (IF slots[Cur + 1] = FAULT_DELAY THEN 2 * Cadence ELSE 0)
        BY DEF Spacing
      <3> HIDE DEF stall
      <3> QED BY <1>1, <1>6, <1>13, <3>1, <3>2
    <2>3. /\ InTurn(1)' = InTurn(1) \cup
                (IF Last # -1 /\ Cur = Last + 1 /\ stall >= 1 THEN {Cur} ELSE {})
          /\ InTurn(3 * Config.cadence_ms + 5)' = InTurn(3 * Config.cadence_ms + 5) \cup
                (IF Last # -1 /\ Cur = Last + 1 /\ stall >= 3 * Config.cadence_ms + 5
                 THEN {Cur} ELSE {})
      BY <1>3
    <2> HIDE DEF late, stall
    <2> QED BY <1>5, <2>1, <2>2, <2>3 DEF LateIsStall, Cadence
  <1> QED BY <1>4, <1>8, <1>9, <1>10, <1>11, <1>12, <1>15, <1>16, <1>17 DEF LineInv

\* A measurement that the detector reads keeps what is said of the notices.
LEMMA ReadSensorTruths ==
    ASSUME LineInv, TruthInv, ReadSensor
    PROVE  TruthInv'
  <1>1. emitted # <<>> /\ emitted' = Tail(emitted) /\ UNCHANGED <<engine, slots, truths>>
    BY DEF ReadSensor, NextFrame
  <1> QED BY <1>1, TruthsKept

-----------------------------------------------------------------------------
\* A notice that can be read: the last frame of its slot, under the newest id.
LEMMA HearNoticeInv ==
    ASSUME LineInv, TruthInv, HearNotice
    PROVE  LineInv' /\ TruthInv'
  <1>1. /\ emitted # <<>> /\ emitted[1].type = "FAULT" /\ emitted' = Tail(emitted)
        /\ dut' = Trailed(dut)
        /\ truths' = Append(truths, [kind |-> emitted[1].kind, at_seq |-> emitted[1].seq,
                                     fault_id |-> emitted[1].fault_id, at |-> now])
        /\ UNCHANGED <<engine, running, now, slots, lateness, accepted>>
    BY DEF HearNotice, NextFrame
  <1>2. TypeOK /\ Engine /\ TruthsBehind /\ TruthsAreTrue
    BY DEF LineInv, TruthInv
  <1>3. LineInv'
    <2>1. Keeps(dut, dut')
      BY <1>1, <1>2, TrailedKeeps DEF TypeOK
    <2> QED BY <1>1, <2>1, QuietStep
  <1>4. /\ emitted \in Seq(Frame) /\ 1 \in DOMAIN emitted /\ slots # <<>>
        /\ slots \in Seq(Kinds) /\ now \in Nat
    BY <1>1, <1>2 DEF TypeOK, LineInv, Arriving
  <1>5. /\ Len(emitted) = 1
        /\ emitted[1] = Notice(engine.fault_id, slots[Len(slots)], Cur)
    <2>1. 1 = Len(emitted) /\ emitted[1] = Notice(engine.fault_id, slots[Len(slots)], Cur)
      BY <1>1, <1>4 DEF LineInv, Arriving
    <2> QED BY <2>1
  <1>6. DOMAIN emitted' = {}
    <2>1. emitted' \in Seq(Frame) /\ Len(emitted') = 0
      BY <1>1, <1>4, <1>5, TailShifts
    <2> QED BY <2>1
  <1> DEFINE told == [kind |-> slots[Len(slots)], at_seq |-> Cur,
                      fault_id |-> engine.fault_id, at |-> now]
  <1>7. truths' = Append(truths, told)
    BY <1>1, <1>5 DEF Notice
  <1>8. /\ Cur \in Nat /\ Cur + 1 = Len(slots) /\ slots[Len(slots)] \in Kinds
        /\ engine.fault_id \in Nat
        /\ engine.fault_id = Cardinality(InjectedIn(Len(slots)))
    <2>1. Len(slots) \in Nat /\ Cur \in Nat /\ Cur + 1 = Len(slots)
          /\ slots[Len(slots)] \in Kinds
      BY <1>4 DEF Cur
    <2>2. engine.fault_id = Cardinality(InjectedIn(Len(slots)))
      BY <1>2 DEF Engine
    <2> QED BY <1>2, <2>1, <2>2, FaultsFinite
  <1>9. /\ told \in TruthRecord /\ told.at_seq = Cur /\ told.kind = slots[Len(slots)]
        /\ told.fault_id = engine.fault_id
    BY <1>4, <1>8 DEF TruthRecord
  <1> HIDE DEF told
  <1>10. /\ truths \in Seq(TruthRecord) /\ Len(truths) \in Nat
         /\ \A i \in 1..Len(truths) :
               truths[i].at_seq <= Cur /\ truths[i].fault_id < engine.fault_id
    BY <1>1, <1>2, <1>4 DEF TruthsBehind
  <1>11. /\ truths' \in Seq(TruthRecord) /\ DOMAIN truths' = 1..(Len(truths) + 1)
         /\ truths'[Len(truths) + 1] = told
         /\ \A i \in 1..Len(truths) : truths'[i] = truths[i]
    BY <1>7, <1>9, <1>10
  <1>12. \A i \in DOMAIN truths' :
            \/ i \in 1..Len(truths) /\ truths'[i] = truths[i]
            \/ i = Len(truths) + 1 /\ truths'[i] = told
    BY <1>10, <1>11
  <1>13. \A i \in 1..Len(truths) : truths[i].fault_id \in Nat
    <2>1. \A i \in 1..Len(truths) : truths[i] \in TruthRecord
      BY <1>10
    <2> QED BY <2>1 DEF TruthRecord
  <1>14. TruthsBehind'
    <2>1. Cur' = Cur /\ engine' = engine
      BY <1>1 DEF Cur
    <2>2. \A i \in DOMAIN truths' :
             truths'[i].at_seq <= Cur' /\ truths'[i].fault_id <= engine'.fault_id
      BY <1>8, <1>9, <1>10, <1>12, <1>13, <2>1
    <2> QED BY <1>6, <1>11, <2>2 DEF TruthsBehind
  <1>15. TruthsAreTrue'
    <2>1. slots' = slots /\ \A n : InjectedIn(n)' = InjectedIn(n)
      BY <1>1 DEF InjectedIn
    <2> SUFFICES ASSUME NEW i \in DOMAIN truths'
                 PROVE  /\ slots[truths'[i].at_seq + 1] = truths'[i].kind
                        /\ truths'[i].fault_id =
                              Cardinality(InjectedIn(truths'[i].at_seq + 1))
                        /\ i > 1 => truths'[i - 1].fault_id < truths'[i].fault_id
      <3>1. \A j \in DOMAIN truths' :
               InjectedIn(truths[j].at_seq + 1)' = InjectedIn(truths'[j].at_seq + 1)
        BY <2>1 DEF InjectedIn
      <3> QED BY <2>1, <3>1 DEF TruthsAreTrue
    <2>2. CASE i \in 1..Len(truths)
      <3>1. i \in DOMAIN truths /\ truths'[i] = truths[i]
            /\ (i > 1 => truths'[i - 1] = truths[i - 1])
        BY <1>10, <1>11, <2>2
      <3> QED BY <1>2, <3>1 DEF TruthsAreTrue
    <2>3. CASE i = Len(truths) + 1
      <3>1. truths'[i] = told
        BY <1>11, <2>3
      <3>2. i > 1 => i - 1 \in 1..Len(truths) /\ truths'[i - 1] = truths[i - 1]
        BY <1>10, <1>11, <2>3
      <3> QED BY <1>8, <1>9, <1>10, <3>1, <3>2
    <2> QED BY <1>12, <2>2, <2>3
  <1> QED BY <1>3, <1>14, <1>15 DEF TruthInv

\* The frames that the line spoils, the bursts and the END.
LEMMA OtherFrames ==
    ASSUME LineInv, TruthInv,
           SpoilSensor \/ FallApart \/ ReadBurst \/ SpoilNotice \/ HearEnd
    PROVE  LineInv' /\ TruthInv'
  <1>1. /\ emitted # <<>> /\ emitted' = Tail(emitted)
        /\ UNCHANGED <<engine, running, now, slots, lateness, accepted, truths>>
    BY DEF SpoilSensor, FallApart, ReadBurst, SpoilNotice, HearEnd, NextFrame
  <1>2. dut \in DutRecord /\ now \in Nat
    BY DEF LineInv, TypeOK
  <1>3. Keeps(dut, dut')
    <2>1. CASE SpoilSensor
      <3> DEFINE d == Detector!process(dut, Detector!DuBadCrc(K_SENSOR), now)
      <3>1. Keeps(dut, d)
        BY <1>2, SpoiledKeeps
      <3>2. dut' = Trailed(d)
        BY <2>1 DEF SpoilSensor, ProcessAll
      <3> HIDE DEF d
      <3>3. Keeps(d, Trailed(d))
        BY <1>2, <3>1, TrailedKeeps DEF Keeps
      <3> QED BY <3>1, <3>2, <3>3, KeepsTransitive
    <2>2. CASE FallApart \/ ReadBurst \/ SpoilNotice
      <3>1. dut' = Trailed(dut)
        BY <2>2 DEF FallApart, ReadBurst, SpoilNotice
      <3> QED BY <1>2, <3>1, TrailedKeeps
    <2>3. CASE HearEnd
      <3>1. dut' = dut
        BY <2>3 DEF HearEnd
      <3> QED BY <1>2, <3>1, SameKeeps
    <2> QED BY <2>1, <2>2, <2>3
  <1> QED BY <1>1, <1>3, QuietStep, TruthsKept

-----------------------------------------------------------------------------
\* Both invariants.
Inv == LineInv /\ TruthInv

\* A new campaign has sent and told nothing.
LEMMA InitInv == Init => Inv
  <1> SUFFICES ASSUME Init PROVE Inv
    OBVIOUS
  <1>1. /\ slots = <<>> /\ lateness = <<>> /\ accepted = <<>> /\ emitted = <<>>
        /\ truths = <<>> /\ now = 0 /\ running = TRUE
        /\ engine = NewCampaign(Config) /\ dut = Detector!NewDut(Cadence)
    BY DEF Init, Cadence
  <1>2. Cadence \in Nat /\ Packets \in Nat
    BY BenchAssumption DEF Cadence, Packets
  <1>3. /\ dut \in DutRecord /\ dut.cadence_ms = Cadence /\ dut.last_seq = -1
        /\ dut.detections = <<>>
    BY <1>1, <1>2 DEF DutRecord, Detector!NewDut, Detector!NoSeq
  <1>4. Cur = -1 /\ Last = -1
    BY <1>1 DEF Cur, Last
  <1>5. TypeOK
    BY <1>1, <1>2, <1>3 DEF TypeOK
  <1>6. Engine
    <2>1. InjectedIn(Len(slots)) = {}
      BY <1>1 DEF InjectedIn
    <2>2. Cardinality(InjectedIn(Len(slots))) = 0
      BY <2>1, FS_EmptySet
    <2> QED BY <1>1, <2>2 DEF Engine, NewCampaign, Packets, Cadence
  <1>7. Arriving /\ SecondIsReplay /\ ReadInOrder /\ Compares
    BY <1>1, <1>3, <1>4 DEF Arriving, SecondIsReplay, ReadInOrder, Compares
  <1>8. (\A k : Flagged(k) = {}) /\ Jumps = {} /\ (\A ms : InTurn(ms) = {})
    BY <1>1, <1>3 DEF Flagged, Jumps, InTurn
  <1>9. GapsExact /\ ReplaysExact /\ LateIsStall
    <2>1. {accepted[i] : i \in {i \in 2..Len(accepted) : accepted[i] = accepted[i - 1]}} = {}
      BY <1>1
    <2> QED BY <1>8, <2>1 DEF GapsExact, ReplaysExact, LateIsStall
  <1>10. TruthsBehind /\ TruthsAreTrue
    BY <1>1 DEF TruthsBehind, TruthsAreTrue
  <1> QED BY <1>5, <1>6, <1>7, <1>9, <1>10 DEF Inv, LineInv, TruthInv

\* Every step of the bench keeps both halves.
LEMMA NextInv == Inv /\ [Next]_vars => Inv'
  <1> SUFFICES ASSUME LineInv, TruthInv, [Next]_vars PROVE LineInv' /\ TruthInv'
    BY DEF Inv
  <1>1. CASE \E kind \in pick(engine), jitter \in Jitters : RunSlot(kind, jitter)
    <2>1. PICK kind \in pick(engine), jitter \in Jitters : RunSlot(kind, jitter)
      BY <1>1
    <2>2. kind \in Kinds /\ jitter \in Nat
      <3>1. engine.kinds = Config.kinds
        BY DEF LineInv, Engine
      <3>2. pick(engine) \subseteq Kinds
        BY <3>1, BenchAssumption
           DEF pick, Kinds, FAULT_NONE, FAULT_BITFLIP, FAULT_DUTY
      <3> QED BY <2>1, <3>2, BenchAssumption
    <2> QED BY <2>1, <2>2, RunSlotLine, RunSlotTruths
  <1>2. CASE RunEnd
    BY <1>2, RunEndInv
  <1>3. CASE ReadSensor
    BY <1>3, ReadSensorLine, ReadSensorTruths
  <1>4. CASE HearNotice
    BY <1>4, HearNoticeInv
  <1>5. CASE SpoilSensor \/ FallApart \/ ReadBurst \/ SpoilNotice \/ HearEnd
    BY <1>5, OtherFrames
  <1>6. CASE UNCHANGED vars
    <2>1. UNCHANGED <<engine, running, emitted, now, dut, truths, slots, lateness, accepted>>
      BY <1>6 DEF vars
    <2>2. LineInv'
      <3>1. dut \in DutRecord
        BY DEF LineInv, TypeOK
      <3>2. ReadInOrder' /\ Compares' /\ GapsExact' /\ ReplaysExact' /\ LateIsStall'
            /\ Last' = Last /\ Cur' = Cur
        BY <2>1, <3>1, SameKeeps, QuietKeeps
      <3>3. TypeOK /\ Engine /\ Arriving /\ SecondIsReplay
        BY DEF LineInv
      <3>4. TypeOK' /\ Engine'
        BY <2>1, <3>3 DEF TypeOK, Engine, InjectedIn, Packets, Cadence
      <3>5. Arriving' /\ SecondIsReplay'
        BY <2>1, <3>2, <3>3 DEF Arriving, SecondIsReplay
      <3> QED BY <3>2, <3>4, <3>5 DEF LineInv
    <2>3. TruthInv'
      <3>1. TruthsBehind /\ TruthsAreTrue
        BY DEF TruthInv
      <3>2. TruthsBehind' /\ TruthsAreTrue'
        BY <2>1, <3>1 DEF TruthsBehind, TruthsAreTrue, InjectedIn, Cur
      <3> QED BY <3>2 DEF TruthInv
    <2> QED BY <2>2, <2>3
  <1> QED BY <1>1, <1>2, <1>3, <1>4, <1>5, <1>6 DEF Next

\* The inductive invariant: what is still to arrive belongs to the slot being
\* sent, the detector compares with the last measurement read at the time of
\* its slot, and the notices told are behind the engine.
THEOREM BenchInvariant == Spec => []Inv
  BY InitInv, NextInv, PTL DEF Spec

\* A replay is flagged for every measurement that the parser reads twice in a
\* row, and for no other (Dut::process, the branch of an older number).
THEOREM ReplaysAreExact == Spec => []ReplaysExact
  <1>1. Inv => ReplaysExact
    BY DEF Inv, LineInv
  <1> QED BY <1>1, BenchInvariant, PTL

\* No frame that is spoiled, lost or late makes the detector flag a replay: a
\* slot flagged as one was a replay (run_next, FAULT_REPLAY).
THEOREM NoFalseReplay == Spec => []ReplaysAreInjected
  <1>1. Inv => ReplaysAreInjected
    <2> SUFFICES ASSUME Inv, NEW seq \in Flagged("Replay")
                 PROVE  slots[seq + 1] = FAULT_REPLAY
      BY DEF ReplaysAreInjected
    <2>1. ReplaysExact /\ ReadInOrder
      BY DEF Inv, LineInv
    <2>2. PICK i \in 2..Len(accepted) : accepted[i] = accepted[i - 1] /\ seq = accepted[i]
      BY <2>1 DEF ReplaysExact
    <2> QED BY <2>1, <2>2 DEF ReadInOrder
  <1> QED BY <1>1, BenchInvariant, PTL

\* A dropped slot between two measurements that are read is covered by a gap
\* (run_next, FAULT_DROP, and the branch of a newer number in Dut::process).
THEOREM NoDropUnseen == Spec => []DropsAreCovered
  <1>1. Inv => DropsAreCovered
    <2> SUFFICES ASSUME Inv, NEW drop \in DOMAIN slots, NEW i \in 2..Len(accepted),
                        accepted[i - 1] < drop - 1, drop - 1 < accepted[i]
                 PROVE  accepted[i] \in Flagged("Gap")
      BY DEF DropsAreCovered
    <2>1. TypeOK /\ GapsExact
      BY DEF Inv, LineInv
    <2>2. slots \in Seq(Kinds) /\ accepted \in Seq(Nat)
      BY <2>1 DEF TypeOK
    <2>3. drop \in Nat /\ accepted[i] \in Nat /\ accepted[i - 1] \in Nat
      BY <2>2
    <2>4. accepted[i] > accepted[i - 1] + 1
      BY <2>3
    <2>5. accepted[i] \in Jumps
      BY <2>4 DEF Jumps
    <2> QED BY <2>1, <2>5 DEF GapsExact
  <1> QED BY <1>1, BenchInvariant, PTL

\* What the scorer is told is what happened: the notices read name the slot,
\* its kind and the number of faults so far, in the order of the faults.
THEOREM NoticesAreTrue == Spec => []TruthsAreTrue
  <1>1. Inv => TruthsAreTrue
    BY DEF Inv, TruthInv
  <1> QED BY <1>1, BenchInvariant, PTL

\* For every campaign and cadence: the line has to stall, by whatever little,
\* for a measurement to be flagged as late. What DelaysAreLate finds of one
\* delay is so of all: by itself it never reaches the late budget.
THEOREM LateMeansStalled == Spec => []LateIsStall
  <1>1. Inv => LateIsStall
    BY DEF Inv, LineInv
  <1> QED BY <1>1, BenchInvariant, PTL

\* A measurement flagged as late stalled or was delayed, and one that stalled
\* for three cadences and 5 ms is flagged.
THEOREM LatesAreCaused == Spec => []LatesHaveACause
  <1>1. LateIsStall => LatesHaveACause
    BY DEF LateIsStall, LatesHaveACause
  <1> QED BY <1>1, LateMeansStalled, PTL
=============================================================================
