------------------------------- MODULE DutOps -------------------------------
(* The device under test of the host, src/host/src/dut.rs: what Dut::process *)
(* does with one frame, as operators over the Dut record. Frames carry the   *)
(* fields the detector looks at; times are milliseconds.                     *)
EXTENDS Integers, Sequences

CONSTANTS Modulus,       \* sequence numbers count modulo this: 2^16 in the code
          K_SENSOR      \* the kind of a measurement frame

ASSUME ModulusAssumption == Modulus \in Nat /\ Modulus > 1

Seqno == 0..(Modulus - 1)

\* No measurement has been accepted yet: Option::None.
NoSeq == -1

DetKind == {"Crc", "Gap", "Replay", "Late", "Burst"}

-----------------------------------------------------------------------------
\* DuFrame, as parse_stream makes it of an outcome of the parser. Garbage has
\* kind u8::MAX; the payload of an unverified frame is not kept.
DuGarbage     == [kind |-> 255, seq |-> 0, bad_crc |-> FALSE, garbage |-> TRUE]
DuBadCrc(k)   == [kind |-> k, seq |-> 0, bad_crc |-> TRUE, garbage |-> FALSE]
DuFrame(k, s) == [kind |-> k, seq |-> s, bad_crc |-> FALSE, garbage |-> FALSE]

IsMeasurement(f) == ~f.garbage /\ ~f.bad_crc /\ f.kind = K_SENSOR

-----------------------------------------------------------------------------
NewDut(cadence) ==
    [cadence_ms |-> cadence, last_seq |-> NoSeq, last_time |-> 0, junk_run |-> 0,
     burst_flagged |-> FALSE, frame_idx |-> 0, detections |-> <<>>]

Successor(seq) == (seq + 1) % Modulus

\* The number a frame that cannot be read is guessed to have.
GuessSeq(d) == IF d.last_seq = NoSeq THEN 0 ELSE Successor(d.last_seq)

\* Mutant of Record: the newest detection comes first.
RecordNewestFirst(d, kind, seq, now) ==
    [d EXCEPT !.detections =
        <<[kind |-> kind, seq |-> seq, at |-> now, frame_idx |-> d.frame_idx]>> \o @]

Record(d, kind, seq, now) ==
    [d EXCEPT !.detections =
        Append(@, [kind |-> kind, seq |-> seq, at |-> now, frame_idx |-> d.frame_idx])]

\* Mutant of late_budget_ms: room for one more cadence.
late_budgetOfFive(d) == d.cadence_ms * 5 + 5

late_budget_ms(d) == d.cadence_ms * 4 + 5

\* Mutant of Junk: the flag of the last burst survives into the next one.
JunkKeepsFlag(d) == [d EXCEPT !.junk_run = @ + 1]

Junk(d) == [d EXCEPT !.junk_run = @ + 1, !.burst_flagged = FALSE]

\* A frame after junk: one Burst for the whole run, unless one is flagged.
CloseRun(d, now) ==
    IF d.junk_run = 0 THEN d
    ELSE IF d.burst_flagged THEN [d EXCEPT !.junk_run = 0]
    ELSE Record([d EXCEPT !.junk_run = 0, !.burst_flagged = TRUE],
                "Burst", GuessSeq(d), now)

\* What a verified measurement shows against the last one, if anything.
\* Newer than expected is a gap, older a replay: the order is that of the
\* numbers, not of their distance.
Anomalies(d, seq, now) ==
    LET expected == Successor(d.last_seq)
    IN  CASE d.last_seq = NoSeq                   -> {}
          [] d.last_seq # NoSeq /\ seq = expected ->
                IF now - d.last_time < late_budget_ms(d) THEN {} ELSE {"Late"}
          [] d.last_seq # NoSeq /\ seq # expected ->
                IF seq # d.last_seq /\ seq > expected THEN {"Gap"} ELSE {"Replay"}

\* Mutant of Measure: a frame that shows an anomaly is not taken as the last.
MeasureKeepsLast(d, seq, now) ==
    IF Anomalies(d, seq, now) = {}
    THEN [d EXCEPT !.last_seq = seq, !.last_time = now]
    ELSE Record(d, CHOOSE k \in Anomalies(d, seq, now) : TRUE, seq, now)

Measure(d, seq, now) ==
    LET shown == Anomalies(d, seq, now)
        noted == IF shown = {} THEN d
                 ELSE Record(d, CHOOSE k \in shown : TRUE, seq, now)
    IN  [noted EXCEPT !.last_seq = seq, !.last_time = now]

\* Mutant of Unverified: the expected number moves on.
UnverifiedMovesOn(d, now) ==
    [Record(d, "Crc", GuessSeq(d), now) EXCEPT !.last_seq = GuessSeq(d)]

Unverified(d, now) == Record(d, "Crc", GuessSeq(d), now)

\* Dut::process: junk only counts; every other frame ends the run of junk
\* first, and only a verified measurement moves the expected number.
process(d, f, now) ==
    LET arrived == [d EXCEPT !.frame_idx = @ + 1]
        closed  == CloseRun(arrived, now)
    IN  IF f.garbage THEN Junk(arrived)
        ELSE IF f.bad_crc THEN Unverified(closed, now)
        ELSE IF f.kind = K_SENSOR THEN Measure(closed, f.seq, now) ELSE closed
=============================================================================
