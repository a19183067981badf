-------------------------------- MODULE Score --------------------------------
(* The scorer of src/host/src/campaign.rs: one pass pairs the injections the *)
(* injector announced (truths) with the detections of the device under test, *)
(* a second pass counts. The two lists are whatever the campaign collected.  *)
EXTENDS Integers, Sequences, FiniteSets

CONSTANTS Modulus,           \* sequence numbers count modulo this: 2^16 in the code
          TruthLists,       \* what the injector may have announced
          DetectionLists,   \* what the device under test may have detected
          Cadences          \* the campaign's cadences, in milliseconds

DetKind == {"Crc", "Gap", "Replay", "Late", "Burst"}
Seqno == 0..(Modulus - 1)

GroundTruth == [kind : 0..255, at_seq : Seqno, at : Nat]
Detection   == [kind : DetKind, seq : Seqno, at : Nat]

ASSUME ScoreAssumption ==
    /\ Modulus \in Nat /\ Modulus > 1
    /\ \A list \in TruthLists : list \in Seq(GroundTruth)
    /\ \A list \in DetectionLists : list \in Seq(Detection)
    /\ \A c \in Cadences : c \in Nat

VARIABLES truths,       \* Vec<GroundTruth>
          detections,   \* Vec<Detection>
          cadence,      \* opts.cadence_ms
          cursor,       \* det_cursor: how many detections are used up or passed
          matches,      \* for each truth so far its detection, or Unmatched
          tally         \* the counters of the second pass

inputs == <<truths, detections, cadence>>
scoreVars == <<truths, detections, cadence, cursor, matches, tally>>

Unmatched == 0

-----------------------------------------------------------------------------
expected_dets(kind) ==
    CASE kind \in {1, 2} -> {"Crc", "Burst"}    \* FAULT_BITFLIP, FAULT_BYTE
      [] kind = 3        -> {"Gap"}             \* FAULT_DROP
      [] kind = 4        -> {"Late"}            \* FAULT_DELAY
      [] kind = 5        -> {"Replay"}          \* FAULT_REPLAY
      [] kind = 6        -> {"Burst"}           \* FAULT_BURST
      [] kind \notin 1..6 -> {}                 \* FAULT_DUTY and the rest

\* The distance of two numbers on their circle: a.wrapping_sub(b) as i16.
dseq_diff(a, b) ==
    LET d == (a - b) % Modulus IN IF 2 * d < Modulus THEN d ELSE Modulus - d

Since(d, t) == IF d.at >= t.at THEN d.at - t.at ELSE 0

\* duration_since is zero, not negative, for a detection before its truth.
time_ok(d, t) == Since(d, t) > -(2 * cadence)

Plausible(d, t) ==
    d.kind \in expected_dets(t.kind) /\ dseq_diff(d.seq, t.at_seq) <= 2 /\ time_ok(d, t)

-----------------------------------------------------------------------------
NoCounts == [injected |-> 0, detected |-> 0, physical |-> 0,
             lat_total |-> 0, lat_max |-> 0, counts |-> [k \in {} |-> 0]]

ScoreInit ==
    /\ truths \in TruthLists /\ detections \in DetectionLists /\ cadence \in Cadences
    /\ cursor = 0 /\ matches = <<>> /\ tally = NoCounts

Current == truths[Len(matches) + 1]

\* The unused detections that fit the current truth.
Fits == {j \in DOMAIN detections : j > cursor /\ Plausible(detections[j], Current)}

Matching == Len(matches) < Len(truths)

\* The current truth is credited detection j, and the search goes on behind c.
Credit(j, c) ==
    /\ cursor' = c /\ matches' = Append(matches, j)
    /\ UNCHANGED <<inputs, tally>>

\* Mutant of MatchFirst: the last detection that fits is taken.
MatchLast ==
    Matching /\ \E j \in Fits : (\A k \in Fits : j >= k) /\ Credit(j, j)

\* Mutant of MatchFirst: the cursor stays on the detection just used.
MatchKeepsCursor ==
    Matching /\ \E j \in Fits : (\A k \in Fits : j <= k) /\ Credit(j, j - 1)

\* Mutant of MatchFirst: the cursor passes the next detection too.
MatchPassesNext ==
    Matching /\ \E j \in Fits : (\A k \in Fits : j <= k) /\ Credit(j, j + 1)

\* A truth takes the first detection behind the cursor that fits it.
MatchFirst ==
    Matching /\ \E j \in Fits : (\A k \in Fits : j <= k) /\ Credit(j, j)

\* A physical fault, or one that nothing fits, leaves the cursor where it is.
MatchNone ==
    /\ Matching /\ Fits = {}
    /\ matches' = Append(matches, Unmatched)
    /\ UNCHANGED <<inputs, cursor, tally>>

IsPhysical(t) == expected_dets(t.kind) = {}

\* Mutant of RowOf: a kind's row is started anew each time.
RowOfNew(kind) == [injected |-> 0, detected |-> 0]

\* The row of a kind, zero if there is none yet.
RowOf(kind) ==
    IF kind \in DOMAIN tally.counts THEN tally.counts[kind]
    ELSE [injected |-> 0, detected |-> 0]

\* The counters after one more row: truth t with match m.
Counted(t, m) ==
    LET ok  == m # Unmatched
        lat == IF ok THEN Since(detections[m], t) ELSE 0
        hit == IF ok THEN 1 ELSE 0
        old == RowOf(t.kind)
        new == [injected |-> old.injected + 1, detected |-> old.detected + hit]
    IN  [injected |-> tally.injected + 1,
         detected |-> tally.detected + hit,
         physical |-> tally.physical + (IF IsPhysical(t) THEN 1 ELSE 0),
         lat_total |-> tally.lat_total + lat,
         lat_max |-> IF lat > tally.lat_max THEN lat ELSE tally.lat_max,
         counts |-> [k \in DOMAIN tally.counts \cup {t.kind} |->
                        IF k = t.kind THEN new ELSE tally.counts[k]]]

\* The second pass, row by row.
CountRow ==
    /\ ~Matching /\ tally.injected < Len(matches)
    /\ LET row == tally.injected + 1
       IN  tally' = Counted(truths[row], matches[row])
    /\ UNCHANGED <<inputs, cursor, matches>>

ScoreNext == MatchFirst \/ MatchNone \/ CountRow

ScoreSpec == ScoreInit /\ [][ScoreNext]_scoreVars

Done == ~Matching /\ tally.injected = Len(matches)

\* The field missed of the CampaignResult; the subtractions saturate.
missed ==
    LET minus(a, b) == IF a >= b THEN a - b ELSE 0
    IN  minus(minus(tally.injected, tally.detected), tally.physical)

-----------------------------------------------------------------------------
Matched == {i \in DOMAIN matches : matches[i] # Unmatched}

\* The cursor stays in the list, each match names a detection or none, and
\* neither pass runs ahead of the one before it.
TypeOK ==
    /\ cursor \in 0..Len(detections)
    /\ matches \in Seq({Unmatched} \cup DOMAIN detections)
    /\ Len(matches) <= Len(truths)
    /\ tally.injected \in 0..Len(matches)
    /\ tally.detected \in 0..tally.injected /\ tally.physical \in 0..tally.injected

\* No detection is credited to two injections, and they are used in order.
EachDetectionOnce ==
    \A i, j \in Matched : i < j => matches[i] < matches[j]

\* The greedy pass is complete where the doc's "time-ordered match" exists: if
\* the scored injections have detections that fit them, each its own and in
\* the same order, then every one of them is credited. A clean campaign log is
\* never scored with a miss because an earlier choice was too greedy.
Scored == {i \in DOMAIN truths : ~IsPhysical(truths[i])}

InOrder(f) ==
    /\ \A i \in Scored : Plausible(detections[f[i]], truths[i])
    /\ \A i, j \in Scored : i < j => f[i] < f[j]

GreedyIsComplete ==
    (\E f \in [DOMAIN truths -> DOMAIN detections] : InOrder(f))
        => \A i \in DOMAIN matches \cap Scored : i \in Matched

\* An injection is missed for one reason only: whatever detection fits it was
\* behind the one-way cursor already, credited to an earlier injection or
\* passed over on the way to the one that was.
MissedWereTaken ==
    \A i \in (DOMAIN matches \cap Scored) \ Matched : \A j \in DOMAIN detections :
        Plausible(detections[j], truths[i]) => \E k \in Matched : k < i /\ j <= matches[k]

\* Each injection ends up in exactly one of detected, missed and physical, in
\* the totals and, but for missed, in its kind's row; no subtraction saturates.
EveryFaultCounted ==
    Done =>
        /\ tally.injected = Len(truths)
        /\ tally.detected = Cardinality(Matched)
        /\ missed = Cardinality(Scored \ Matched)
        /\ tally.physical = Cardinality(DOMAIN truths \ Scored)
        /\ \A i \in DOMAIN truths :
             LET same == {j \in DOMAIN truths : truths[j].kind = truths[i].kind}
             IN  tally.counts[truths[i].kind] =
                    [injected |-> Cardinality(same),
                     detected |-> Cardinality(same \cap Matched)]
=============================================================================
