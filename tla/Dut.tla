--------------------------------- MODULE Dut ---------------------------------
(* The detector of src/host/src/dut.rs as a state machine over any stream of *)
(* frames: garbage, unverified frames, other kinds and measurements of any   *)
(* number, at any times. The history of what arrived is kept, so that the    *)
(* detections can be compared with what the stream shows.                    *)
EXTENDS DutOps, FiniteSets

CONSTANTS Cadence,      \* the campaign's cadence in milliseconds
          Delays,       \* the milliseconds that may pass between two frames
          OtherKinds,   \* kinds of frames that reach process besides K_SENSOR
          MaxFrames     \* the bound on the frames that arrive

ASSUME DutAssumption ==
    /\ K_SENSOR \in 0..254 /\ OtherKinds \subseteq 0..254 \ {K_SENSOR}
    /\ Cadence \in Nat /\ Delays \subseteq Nat /\ MaxFrames \in Nat

VARIABLES dut,          \* the detector
          now,          \* the clock
          arrived       \* history: the frames, each with its time of arrival

dutVars == <<dut, now, arrived>>

Frames ==
    {DuGarbage}
      \cup {DuBadCrc(k) : k \in {K_SENSOR} \cup OtherKinds}
      \cup {DuFrame(k, 0) : k \in OtherKinds}
      \cup {DuFrame(K_SENSOR, s) : s \in Seqno}

DutInit == dut = NewDut(Cadence) /\ now = 0 /\ arrived = <<>>

Process(f, delay) ==
    /\ Len(arrived) < MaxFrames
    /\ now' = now + delay
    /\ dut' = process(dut, f, now')
    /\ arrived' = Append(arrived, [frame |-> f, at |-> now'])

DutNext == \E f \in Frames, delay \in Delays : Process(f, delay)

DutSpec == DutInit /\ [][DutNext]_dutVars

-----------------------------------------------------------------------------
\* The record keeps its types; no time is ahead of the clock, no run of junk is
\* longer than the stream, and no detection is of a frame yet to come.
TypeOK ==
    /\ dut.last_seq \in Seqno \cup {NoSeq}
    /\ dut.last_time \in 0..now
    /\ dut.junk_run \in 0..dut.frame_idx
    /\ dut.burst_flagged \in BOOLEAN
    /\ dut.frame_idx = Len(arrived)
    /\ \A i \in DOMAIN dut.detections :
          /\ dut.detections[i].kind \in DetKind
          /\ dut.detections[i].seq \in Seqno
          /\ dut.detections[i].frame_idx \in 1..dut.frame_idx

\* The detections, told from the stream alone.

MeasuredBefore(i) == {j \in 1..(i - 1) : IsMeasurement(arrived[j].frame)}

\* The last verified measurement before the i-th frame.
LastBefore(i) == CHOOSE j \in MeasuredBefore(i) : \A k \in MeasuredBefore(i) : k <= j

\* The number expected next, when a frame cannot be read.
GuessAt(i) ==
    IF MeasuredBefore(i) = {} THEN 0
    ELSE Successor(arrived[LastBefore(i)].frame.seq)

\* The i-th frame is the first after a run of junk.
EndsJunk(i) == ~arrived[i].frame.garbage /\ i > 1 /\ arrived[i - 1].frame.garbage

\* What the i-th frame, a measurement with one before it, shows.
Shows(i) ==
    LET last     == arrived[LastBefore(i)]
        seq      == arrived[i].frame.seq
        expected == Successor(last.frame.seq)
    IN  {kind \in {"Late", "Gap", "Replay"} :
            CASE kind = "Late" ->
                    seq = expected /\ arrived[i].at - last.at >= 4 * Cadence + 5
              [] kind = "Gap" -> seq > expected /\ seq # last.frame.seq
              [] kind = "Replay" -> seq < expected \/ seq = last.frame.seq}

Deserved ==
    {[kind |-> "Burst", seq |-> GuessAt(i), at |-> arrived[i].at, frame_idx |-> i] :
        i \in {i \in DOMAIN arrived : EndsJunk(i)}}
    \cup
    {[kind |-> "Crc", seq |-> GuessAt(i), at |-> arrived[i].at, frame_idx |-> i] :
        i \in {i \in DOMAIN arrived : arrived[i].frame.bad_crc}}
    \cup UNION
    {{[kind |-> k, seq |-> arrived[i].frame.seq, at |-> arrived[i].at, frame_idx |-> i] :
        k \in Shows(i)} :
        i \in {i \in DOMAIN arrived :
                 IsMeasurement(arrived[i].frame) /\ MeasuredBefore(i) # {}}}

\* Every anomaly of the stream is detected, once, with the right number, and
\* nothing else is: one Burst for a run of junk however long, one Crc for an
\* unverified frame, Gap, Replay or Late against the last verified measurement
\* however many frames of other kinds came in between.
DetectionsExact ==
    /\ {dut.detections[i] : i \in DOMAIN dut.detections} = Deserved
    /\ Len(dut.detections) = Cardinality(Deserved)

\* The detections stand in the order of the frames they were made on, which
\* is the order the scorer's one-way cursor walks them in.
DetectionsInOrder ==
    \A i, j \in DOMAIN dut.detections :
        i < j => dut.detections[i].frame_idx <= dut.detections[j].frame_idx

\* The flag that coalesces a burst is down whenever junk is pending: it never
\* hides a second burst.
FlagHidesNoBurst == dut.junk_run > 0 => ~dut.burst_flagged

\* Only a verified measurement moves the expected number: whatever came since,
\* the detector compares with the last one.
RemembersLastMeasurement ==
    LET i == Len(arrived) + 1
    IN  IF MeasuredBefore(i) = {} THEN dut.last_seq = NoSeq
        ELSE /\ dut.last_seq = arrived[LastBefore(i)].frame.seq
             /\ dut.last_time = arrived[LastBefore(i)].at
=============================================================================
