---------------------------- MODULE ScoreProofs ----------------------------
(* The two passes of the scorer, for every list of injections and every list *)
(* of detections: no detection is credited twice, and the greedy choice      *)
(* never misses an injection that a match in order would credit. The second  *)
(* pass counts every injection once, in the totals and in its kind's row.    *)
EXTENDS Score, FiniteSetTheorems, TLAPS

\* The lists stay sequences; the cursor and the matches stay inside them.
ListsOK ==
    /\ truths \in Seq(GroundTruth) /\ detections \in Seq(Detection)
    /\ cursor \in 0..Len(detections)
    /\ matches \in Seq({Unmatched} \cup DOMAIN detections)
    /\ Len(matches) <= Len(truths)

CountersOK ==
    /\ tally.injected \in 0..Len(matches)
    /\ tally.detected \in 0..tally.injected /\ tally.physical \in 0..tally.injected

\* What is credited lies at or before the cursor.
CursorBehindMatches == \A i \in Matched : matches[i] <= cursor

\* Any match in order still has its detections for the truths to come.
RoomFor(f) == \A i \in Scored : i > Len(matches) => cursor < f[i]

AllScoredMatched == \A i \in DOMAIN matches \cap Scored : i \in Matched

KeepsUp ==
    \A f \in [DOMAIN truths -> DOMAIN detections] :
        InOrder(f) => RoomFor(f) /\ AllScoredMatched

\* The cursor stands at the last credit.
CursorIsMatch == cursor = 0 \/ \E k \in Matched : cursor = matches[k]

Inv ==
    /\ ListsOK /\ CountersOK /\ EachDetectionOnce /\ CursorBehindMatches /\ CursorIsMatch
    /\ MissedWereTaken /\ KeepsUp

-----------------------------------------------------------------------------
\* Before the first pass nothing is matched and every match in order has room.
LEMMA InitInv == ScoreInit => Inv
  <1> SUFFICES ASSUME ScoreInit PROVE Inv
    OBVIOUS
  <1>1. matches = <<>> /\ cursor = 0 /\ tally = NoCounts /\ Matched = {}
    BY DEF ScoreInit, Matched
  <1>2. ListsOK
    BY <1>1, ScoreAssumption DEF ScoreInit, ListsOK
  <1>3. CountersOK
    BY <1>1 DEF CountersOK, NoCounts
  <1>4. EachDetectionOnce /\ CursorBehindMatches /\ CursorIsMatch /\ MissedWereTaken
    BY <1>1 DEF EachDetectionOnce, CursorBehindMatches, CursorIsMatch, MissedWereTaken
  <1>5. KeepsUp
    <2> SUFFICES ASSUME NEW f \in [DOMAIN truths -> DOMAIN detections]
                 PROVE  RoomFor(f) /\ AllScoredMatched
      BY DEF KeepsUp
    <2>1. \A i \in Scored : f[i] \in DOMAIN detections
      BY DEF Scored
    <2>2. DOMAIN detections = 1..Len(detections)
      BY <1>2 DEF ListsOK
    <2> QED  BY <1>1, <2>1, <2>2 DEF RoomFor, AllScoredMatched
  <1> QED  BY <1>2, <1>3, <1>4, <1>5 DEF Inv

\* The row of the current truth joins those matched before, or does not.
LEMMA AppendMatch ==
    ASSUME ListsOK, Matching, NEW m \in {Unmatched} \cup DOMAIN detections,
           matches' = Append(matches, m), UNCHANGED <<truths, detections>>
    PROVE  /\ Len(matches') = Len(matches) + 1 /\ Len(matches') <= Len(truths)
           /\ matches' \in Seq({Unmatched} \cup DOMAIN detections)
           /\ DOMAIN matches' = DOMAIN matches \cup {Len(matches) + 1}
           /\ \A i \in DOMAIN matches : matches'[i] = matches[i]
           /\ matches'[Len(matches) + 1] = m
           /\ Len(matches) + 1 \in DOMAIN truths
  BY DEF ListsOK, Matching

\* A match keeps the invariant: the first fit leaves the most room.
LEMMA MatchFirstInv == Inv /\ MatchFirst => Inv'
  <1> SUFFICES ASSUME Inv, MatchFirst PROVE Inv'
    OBVIOUS
  <1> DEFINE n == Len(matches) + 1
  <1>1. PICK j \in Fits : /\ \A k \in Fits : j <= k
                          /\ cursor' = j /\ matches' = Append(matches, j)
    BY DEF MatchFirst, Credit
  <1>2. /\ Matching /\ UNCHANGED <<truths, detections, cadence, tally>>
        /\ ListsOK /\ j \in DOMAIN detections /\ j > cursor
        /\ Plausible(detections[j], truths[n])
    BY <1>1 DEF MatchFirst, Credit, Inv, Fits, Current, inputs
  <1>3. /\ DOMAIN detections = 1..Len(detections) /\ Len(detections) \in Nat
        /\ j \in Nat /\ j # Unmatched /\ n \in Nat /\ cursor \in Nat
        /\ DOMAIN matches = 1..Len(matches)
    BY <1>2 DEF ListsOK, Unmatched
  <1>4. /\ Len(matches') = n /\ Len(matches') <= Len(truths)
        /\ matches' \in Seq({Unmatched} \cup DOMAIN detections)
        /\ DOMAIN matches' = DOMAIN matches \cup {n}
        /\ \A i \in DOMAIN matches : matches'[i] = matches[i]
        /\ matches'[n] = j
        /\ n \in DOMAIN truths
    BY <1>1, <1>2, AppendMatch
  <1>5. Matched' = Matched \cup {n} /\ Matched \subseteq DOMAIN matches
    BY <1>3, <1>4 DEF Matched
  <1>6. ListsOK'
    BY <1>1, <1>2, <1>3, <1>4 DEF ListsOK
  <1>7. CountersOK'
    BY <1>2, <1>3, <1>4 DEF CountersOK, Inv
  <1>8. \A i \in Matched : matches[i] \in Nat /\ matches[i] <= cursor
    <2>1. \A i \in Matched : matches[i] \in DOMAIN detections
      BY <1>2, <1>5 DEF ListsOK, Matched
    <2> QED  BY <1>3, <2>1 DEF Inv, CursorBehindMatches
  <1>9. EachDetectionOnce'
    <2> SUFFICES ASSUME NEW i \in Matched', NEW k \in Matched', i < k
                 PROVE  matches'[i] < matches'[k]
      BY DEF EachDetectionOnce
    <2>1. i \in Matched
      BY <1>3, <1>5
    <2>2. CASE k \in Matched
      BY <1>4, <1>5, <2>1, <2>2 DEF Inv, EachDetectionOnce
    <2>3. CASE k = n
      BY <1>2, <1>3, <1>4, <1>5, <1>8, <2>1, <2>3
    <2> QED  BY <1>5, <2>2, <2>3
  <1>10. CursorBehindMatches'
    BY <1>1, <1>2, <1>3, <1>4, <1>5, <1>8 DEF CursorBehindMatches
  <1>11. CursorIsMatch'
    BY <1>1, <1>4, <1>5 DEF CursorIsMatch
  <1>12. MissedWereTaken'
    <2>1. Scored' = Scored
      BY <1>2 DEF Scored, IsPhysical
    <2> SUFFICES ASSUME NEW i \in ((DOMAIN matches \cap Scored) \ Matched)',
                        NEW k \in DOMAIN detections, Plausible(detections[k], truths[i])
                 PROVE  \E l \in Matched' : l < i /\ k <= matches'[l]
      BY <1>2 DEF MissedWereTaken, Plausible, time_ok
    <2>2. i \in (DOMAIN matches \cap Scored) \ Matched
      BY <1>4, <1>5, <2>1
    <2>3. PICK l \in Matched : l < i /\ k <= matches[l]
      BY <2>2 DEF Inv, MissedWereTaken
    <2> QED  BY <1>4, <1>5, <2>3
  <1>13. KeepsUp'
    <2> SUFFICES ASSUME NEW f \in [DOMAIN truths -> DOMAIN detections], InOrder(f)'
                 PROVE  RoomFor(f)' /\ AllScoredMatched'
      BY <1>2 DEF KeepsUp
    <2>1. InOrder(f) /\ Scored' = Scored
      BY <1>2 DEF InOrder, Scored, IsPhysical, Plausible, time_ok
    <2>2. RoomFor(f) /\ AllScoredMatched
      BY <2>1 DEF Inv, KeepsUp
    <2>3. n \in Scored
      BY <1>2, <1>4 DEF Scored, IsPhysical, Plausible
    <2>4. \A i \in Scored : f[i] \in DOMAIN detections
      BY DEF Scored
    <2>5. f[n] \in Fits
      BY <1>3, <2>1, <2>2, <2>3, <2>4 DEF Fits, Current, InOrder, RoomFor
    <2>6. RoomFor(f)'
      <3> SUFFICES ASSUME NEW i \in Scored, i > n PROVE j < f[i]
        BY <1>1, <1>4, <2>1 DEF RoomFor
      <3>1. f[n] < f[i] /\ j <= f[n]
        BY <1>1, <2>1, <2>3, <2>5 DEF InOrder
      <3> QED  BY <1>3, <2>3, <2>4, <3>1
    <2>7. AllScoredMatched'
      BY <1>4, <1>5, <2>1, <2>2 DEF AllScoredMatched
    <2> QED  BY <2>6, <2>7
  <1> QED  BY <1>6, <1>7, <1>9, <1>10, <1>11, <1>12, <1>13 DEF Inv

\* A truth without a fit keeps it: no match in order has one either.
LEMMA MatchNoneInv == Inv /\ MatchNone => Inv'
  <1> SUFFICES ASSUME Inv, MatchNone PROVE Inv'
    OBVIOUS
  <1> DEFINE n == Len(matches) + 1
  <1>1. /\ Matching /\ Fits = {} /\ matches' = Append(matches, Unmatched)
        /\ UNCHANGED <<truths, detections, cadence, cursor, tally>> /\ ListsOK
    BY DEF MatchNone, Inv, inputs
  <1>2. /\ Len(matches') = n /\ Len(matches') <= Len(truths)
        /\ matches' \in Seq({Unmatched} \cup DOMAIN detections)
        /\ DOMAIN matches' = DOMAIN matches \cup {n}
        /\ \A i \in DOMAIN matches : matches'[i] = matches[i]
        /\ matches'[n] = Unmatched
        /\ n \in DOMAIN truths
    BY <1>1, AppendMatch
  <1>3. /\ DOMAIN detections = 1..Len(detections) /\ Len(detections) \in Nat
        /\ n \in Nat /\ cursor \in Nat /\ DOMAIN matches = 1..Len(matches)
    BY <1>1 DEF ListsOK
  <1>4. Matched' = Matched /\ Matched \subseteq DOMAIN matches
    BY <1>2, <1>3 DEF Matched
  <1>5. ListsOK'
    BY <1>1, <1>2 DEF ListsOK
  <1>6. CountersOK'
    BY <1>1, <1>2, <1>3 DEF CountersOK, Inv
  <1>7. EachDetectionOnce' /\ CursorBehindMatches' /\ CursorIsMatch'
    BY <1>1, <1>2, <1>4 DEF EachDetectionOnce, CursorBehindMatches, CursorIsMatch, Inv
  <1>9. MissedWereTaken'
    <2> SUFFICES ASSUME NEW i \in (DOMAIN matches)', i \in Scored, i \notin Matched,
                        NEW k \in DOMAIN detections, Plausible(detections[k], truths[i])
                 PROVE  \E l \in Matched : l < i /\ k <= matches'[l]
      BY <1>1, <1>4 DEF MissedWereTaken, Scored, IsPhysical, Plausible, time_ok
    <2>1. CASE i \in DOMAIN matches
      BY <1>2, <1>4, <2>1 DEF Inv, MissedWereTaken
    <2>2. CASE i = n
      <3>1. k <= cursor /\ k \in Nat /\ k > 0
        BY <1>1, <1>3, <2>2 DEF Fits, Current
      <3>2. PICK l \in Matched : cursor = matches[l]
        BY <1>3, <3>1 DEF Inv, CursorIsMatch
      <3>3. l < n /\ matches'[l] = matches[l]
        BY <1>2, <1>3, <1>4
      <3> QED  BY <2>2, <3>1, <3>2, <3>3
    <2> QED  BY <1>2, <2>1, <2>2
  <1>8. KeepsUp'
    <2> SUFFICES ASSUME NEW f \in [DOMAIN truths -> DOMAIN detections], InOrder(f)'
                 PROVE  RoomFor(f)' /\ AllScoredMatched'
      BY <1>1 DEF KeepsUp
    <2>1. InOrder(f) /\ Scored' = Scored
      BY <1>1 DEF InOrder, Scored, IsPhysical, Plausible, time_ok
    <2>2. RoomFor(f) /\ AllScoredMatched
      BY <2>1 DEF Inv, KeepsUp
    <2>3. n \notin Scored
      <3> SUFFICES ASSUME n \in Scored PROVE FALSE
        OBVIOUS
      <3>1. f[n] \in DOMAIN detections
        BY DEF Scored
      <3> QED
        BY <1>1, <1>3, <2>1, <2>2, <3>1 DEF Fits, Current, InOrder, RoomFor
    <2>4. RoomFor(f)'
      <3> SUFFICES ASSUME NEW i \in Scored, i > n PROVE cursor < f[i]
        BY <1>1, <1>2, <2>1 DEF RoomFor
      <3>1. i \in Nat
        BY <1>1 DEF Scored, ListsOK
      <3>2. i > Len(matches)
        BY <1>1, <3>1 DEF ListsOK
      <3> QED  BY <2>2, <3>2 DEF RoomFor
    <2>5. AllScoredMatched'
      BY <1>2, <1>4, <2>1, <2>2, <2>3 DEF AllScoredMatched
    <2> QED  BY <2>4, <2>5
  <1> QED  BY <1>5, <1>6, <1>7, <1>8, <1>9 DEF Inv

\* The second pass moves the counters only.
LEMMA CountRowInv == Inv /\ CountRow => Inv'
  <1> SUFFICES ASSUME Inv, CountRow PROVE Inv'
    OBVIOUS
  <1>1. UNCHANGED <<truths, detections, cadence, cursor, matches>>
    BY DEF CountRow, inputs
  <1>2. ListsOK' /\ EachDetectionOnce' /\ CursorBehindMatches' /\ CursorIsMatch'
        /\ MissedWereTaken' /\ KeepsUp'
    BY <1>1 DEF Inv, ListsOK, EachDetectionOnce, CursorBehindMatches, CursorIsMatch,
                MissedWereTaken, KeepsUp, RoomFor, AllScoredMatched, InOrder, Matched, Scored, IsPhysical,
                Plausible, time_ok
  <1>3. CountersOK'
    <2> DEFINE row == tally.injected + 1
               hit == IF matches[row] # Unmatched THEN 1 ELSE 0
               oob == IF IsPhysical(truths[row]) THEN 1 ELSE 0
    <2>1. /\ tally'.injected = row
          /\ tally'.detected = tally.detected + hit
          /\ tally'.physical = tally.physical + oob
      BY DEF CountRow, Counted
    <2>2. hit \in 0..1 /\ oob \in 0..1
      OBVIOUS
    <2>3. /\ tally.injected < Len(matches) /\ Len(matches) \in Nat
          /\ tally.injected \in 0..Len(matches)
          /\ tally.detected \in 0..tally.injected
          /\ tally.physical \in 0..tally.injected
      BY DEF CountRow, Inv, CountersOK, ListsOK
    <2> HIDE DEF hit, oob
    <2>4. /\ tally'.injected \in 0..Len(matches)
          /\ tally'.detected \in 0..tally'.injected
          /\ tally'.physical \in 0..tally'.injected
      <3>1. tally.injected \in Nat /\ tally.detected \in Nat /\ tally.physical \in Nat
        BY <2>3
      <3>2. row \in 0..Len(matches)
        BY <2>3, <3>1
      <3>3. tally.detected + hit \in 0..row
        BY <2>2, <2>3, <3>1
      <3>4. tally.physical + oob \in 0..row
        BY <2>2, <2>3, <3>1
      <3> QED  BY <2>1, <3>2, <3>3, <3>4
    <2> QED  BY <1>1, <2>4 DEF CountersOK
  <1> QED  BY <1>2, <1>3 DEF Inv

\* Every step of both passes keeps the invariant.
LEMMA NextInv == Inv /\ [ScoreNext]_scoreVars => Inv'
  <1>1. Inv /\ UNCHANGED scoreVars => Inv'
    BY DEF scoreVars, Inv, ListsOK, CountersOK, EachDetectionOnce, CursorBehindMatches,
           CursorIsMatch, MissedWereTaken, KeepsUp, RoomFor, AllScoredMatched, InOrder, Matched, Scored,
           IsPhysical, Plausible, time_ok
  <1> QED  BY <1>1, MatchFirstInv, MatchNoneInv, CountRowInv DEF ScoreNext

-----------------------------------------------------------------------------
(* The second pass: each counter is the number of rows of its sort so far.   *)

Hits(n)      == {i \in 1..n : matches[i] # Unmatched}
Physicals(n) == {i \in 1..n : IsPhysical(truths[i])}
Row(k, n)    == {i \in 1..n : truths[i].kind = k}
RowHits(k, n) == {i \in Row(k, n) : matches[i] # Unmatched}

\* What the row of a kind holds after n injections.
RowIs(k, n) == [injected |-> Cardinality(Row(k, n)), detected |-> Cardinality(RowHits(k, n))]

KindsOf(n) == {truths[i].kind : i \in 1..n}

TotalsOK ==
    /\ tally.detected = Cardinality(Hits(tally.injected))
    /\ tally.physical = Cardinality(Physicals(tally.injected))

RowsOK ==
    /\ DOMAIN tally.counts = KindsOf(tally.injected)
    /\ \A k \in KindsOf(tally.injected) : tally.counts[k] = RowIs(k, tally.injected)

\* The second pass has not begun; a physical fault is never matched.
PassesInTurn == Matching => tally = NoCounts
ScoredOnly   == Matched \subseteq Scored

CountInv == TotalsOK /\ RowsOK /\ PassesInTurn /\ ScoredOnly

\* Sets of rows are finite, and one more row counts one more.
LEMMA RowSets ==
    ASSUME NEW n \in Nat, NEW S \in SUBSET (1..n)
    PROVE  /\ IsFiniteSet(S) /\ Cardinality(S) \in Nat
           /\ Cardinality(S \cup {n + 1}) = Cardinality(S) + 1
  <1>1. IsFiniteSet(S)
    <2>1. 1 \in Int /\ n \in Int
      OBVIOUS
    <2>2. IsFiniteSet(1..n)
      BY <2>1, FS_Interval
    <2> QED  BY <2>2, FS_Subset
  <1>2. n + 1 \notin S
    OBVIOUS
  <1> QED  BY <1>1, <1>2, FS_CardinalityType, FS_AddElement

\* A set of no rows counts nothing.
LEMMA NoRows == Cardinality({}) = 0
  BY FS_EmptySet

\* Nothing is counted before the second pass.
LEMMA NoCountsOK == tally = NoCounts => TotalsOK /\ RowsOK
  <1> SUFFICES ASSUME tally = NoCounts PROVE TotalsOK /\ RowsOK
    OBVIOUS
  <1>1. /\ tally.injected = 0 /\ tally.detected = 0 /\ tally.physical = 0
        /\ tally.counts = [k \in {} |-> 0]
    BY DEF NoCounts
  <1>2. Hits(0) = {} /\ Physicals(0) = {} /\ KindsOf(0) = {}
    BY DEF Hits, Physicals, KindsOf
  <1> QED  BY <1>1, <1>2, NoRows DEF TotalsOK, RowsOK

\* The counts are right before the first pass, when there are none.
LEMMA CountInit == ScoreInit => CountInv
  <1> SUFFICES ASSUME ScoreInit PROVE CountInv
    OBVIOUS
  <1>1. tally = NoCounts /\ matches = <<>>
    BY DEF ScoreInit
  <1>2. Matched = {}
    BY <1>1 DEF Matched
  <1> QED  BY <1>1, <1>2, NoCountsOK DEF CountInv, PassesInTurn, ScoredOnly

\* The first pass leaves the counters alone and matches scored faults only.
LEMMA CountMatch == Inv /\ CountInv /\ (MatchFirst \/ MatchNone) => CountInv'
  <1> SUFFICES ASSUME Inv, CountInv, MatchFirst \/ MatchNone PROVE CountInv'
    OBVIOUS
  <1> DEFINE n == Len(matches) + 1
  <1>1. /\ Matching /\ UNCHANGED <<truths, detections, cadence, tally>> /\ ListsOK
    BY DEF MatchFirst, MatchNone, Credit, inputs, Inv
  <1>2. tally' = NoCounts
    BY <1>1 DEF CountInv, PassesInTurn
  <1>3. TotalsOK' /\ RowsOK'
    <2>1. /\ tally'.injected = 0 /\ tally'.detected = 0 /\ tally'.physical = 0
          /\ tally'.counts = [k \in {} |-> 0]
      BY <1>2 DEF NoCounts
    <2>2. Hits(0)' = {} /\ Physicals(0)' = {} /\ KindsOf(0)' = {}
      BY DEF Hits, Physicals, KindsOf
    <2> QED  BY <2>1, <2>2, NoRows DEF TotalsOK, RowsOK, Hits, Physicals, KindsOf
  <1>4. PICK m \in {Unmatched} \cup DOMAIN detections :
          /\ matches' = Append(matches, m)
          /\ m # Unmatched => Plausible(detections[m], truths[n])
    BY DEF MatchFirst, MatchNone, Credit, Fits, Current
  <1>5. /\ DOMAIN matches' = DOMAIN matches \cup {n}
        /\ \A i \in DOMAIN matches : matches'[i] = matches[i]
        /\ matches'[n] = m
        /\ n \in DOMAIN truths
    BY <1>1, <1>4, AppendMatch
  <1>6. m # Unmatched => n \in Scored
    BY <1>4, <1>5 DEF Plausible, Scored, IsPhysical
  <1>7. Matched' \subseteq Scored /\ Scored' = Scored
    BY <1>1, <1>5, <1>6 DEF CountInv, ScoredOnly, Matched, Scored, IsPhysical
  <1> QED  BY <1>2, <1>3, <1>7 DEF CountInv, PassesInTurn, ScoredOnly

\* One more row adds to the totals and to its kind's row, and to no other.
LEMMA CountNext == Inv /\ CountInv /\ CountRow => CountInv'
  <1> SUFFICES ASSUME Inv, CountInv, CountRow PROVE CountInv'
    OBVIOUS
  <1> DEFINE n == tally.injected
             row == n + 1
             t == truths[row]
             hit == IF matches[row] # Unmatched THEN 1 ELSE 0
             one == IF IsPhysical(t) THEN 1 ELSE 0
  <1>1. /\ UNCHANGED <<truths, detections, cadence, cursor, matches>>
        /\ ~Matching /\ n \in Nat
    BY DEF CountRow, inputs, Inv, CountersOK
  <1>2. /\ tally'.injected = row
        /\ tally'.detected = tally.detected + hit
        /\ tally'.physical = tally.physical + one
        /\ tally'.counts = [k \in DOMAIN tally.counts \cup {t.kind} |->
             IF k = t.kind THEN [injected |-> RowOf(t.kind).injected + 1,
                                 detected |-> RowOf(t.kind).detected + hit]
             ELSE tally.counts[k]]
    BY DEF CountRow, Counted
  <1>3. 1..row = (1..n) \cup {row} /\ row \notin 1..n
    BY <1>1
  <1> HIDE DEF row, t
  <1>4. Cardinality(Hits(row)) = Cardinality(Hits(n)) + hit
    <2>1. Hits(n) \in SUBSET (1..n)
      BY DEF Hits
    <2>2. Hits(row) = IF matches[row] # Unmatched THEN Hits(n) \cup {row} ELSE Hits(n)
      BY <1>3 DEF Hits
    <2> QED  BY <1>1, <2>1, <2>2, RowSets DEF row
  <1>5. Cardinality(Physicals(row)) = Cardinality(Physicals(n)) + one
    <2>1. Physicals(n) \in SUBSET (1..n)
      BY DEF Physicals
    <2>2. Physicals(row) = IF IsPhysical(t) THEN Physicals(n) \cup {row} ELSE Physicals(n)
      BY <1>3 DEF Physicals, t
    <2> QED  BY <1>1, <2>1, <2>2, RowSets DEF row
  <1>6. TotalsOK'
    <2>1. tally.detected = Cardinality(Hits(n)) /\ tally.physical = Cardinality(Physicals(n))
      BY DEF CountInv, TotalsOK
    <2>2. \A i \in Nat : Hits(i)' = Hits(i) /\ Physicals(i)' = Physicals(i)
      BY <1>1 DEF Hits, Physicals, IsPhysical
    <2>3. row \in Nat
      BY <1>1 DEF row
    <2>4. /\ tally'.detected = Cardinality(Hits(row))
          /\ tally'.physical = Cardinality(Physicals(row))
      BY <1>2, <1>4, <1>5, <2>1
    <2> QED  BY <1>1, <1>2, <2>3, <2>4 DEF TotalsOK, Hits, Physicals, IsPhysical
  <1>7. KindsOf(row) = KindsOf(n) \cup {t.kind}
    BY <1>3 DEF KindsOf, t
  <1>8. /\ DOMAIN tally.counts = KindsOf(n)
        /\ \A k \in KindsOf(n) : tally.counts[k] = RowIs(k, n)
    BY DEF CountInv, RowsOK
  <1>9. \A k : k # t.kind => RowIs(k, row) = RowIs(k, n)
    <2> SUFFICES ASSUME NEW k, k # t.kind PROVE RowIs(k, row) = RowIs(k, n)
      OBVIOUS
    <2>1. Row(k, row) = Row(k, n)
      BY <1>3 DEF Row, t
    <2> QED  BY <2>1 DEF RowIs, RowHits
  <1>10. RowOf(t.kind) = RowIs(t.kind, n)
    <2>1. CASE t.kind \in KindsOf(n)
      BY <1>8, <2>1 DEF RowOf
    <2>2. CASE t.kind \notin KindsOf(n)
      <3>1. Row(t.kind, n) = {}
        BY <2>2 DEF Row, KindsOf
      <3>2. RowHits(t.kind, n) = {}
        BY <3>1 DEF RowHits
      <3> QED  BY <1>8, <2>2, <3>1, <3>2, NoRows DEF RowOf, RowIs
    <2> QED  BY <2>1, <2>2
  <1>11. RowIs(t.kind, row) = [injected |-> RowIs(t.kind, n).injected + 1,
                               detected |-> RowIs(t.kind, n).detected + hit]
    <2>1. Row(t.kind, n) \in SUBSET (1..n) /\ RowHits(t.kind, n) \in SUBSET (1..n)
      BY DEF Row, RowHits
    <2>2. Row(t.kind, row) = Row(t.kind, n) \cup {row}
      BY <1>3 DEF Row, t
    <2>3. RowHits(t.kind, row) = IF matches[row] # Unmatched
                                 THEN RowHits(t.kind, n) \cup {row} ELSE RowHits(t.kind, n)
      BY <2>2 DEF RowHits
    <2>4. Cardinality(Row(t.kind, row)) = Cardinality(Row(t.kind, n)) + 1
      BY <1>1, <2>1, <2>2, RowSets DEF row
    <2>5. Cardinality(RowHits(t.kind, row)) = Cardinality(RowHits(t.kind, n)) + hit
      BY <1>1, <2>1, <2>3, RowSets DEF row
    <2> QED  BY <2>4, <2>5 DEF RowIs
  <1>12. /\ DOMAIN tally'.counts = KindsOf(row)
         /\ \A k \in KindsOf(row) : tally'.counts[k] = RowIs(k, row)
    <2>1. tally'.counts = [k \in KindsOf(n) \cup {t.kind} |->
                             IF k = t.kind THEN RowIs(t.kind, row) ELSE tally.counts[k]]
      BY <1>2, <1>8, <1>10, <1>11
    <2>2. DOMAIN tally'.counts = KindsOf(row)
      BY <1>7, <2>1
    <2>3. \A k \in KindsOf(row) : tally'.counts[k] = RowIs(k, row)
      <3> SUFFICES ASSUME NEW k \in KindsOf(row) PROVE tally'.counts[k] = RowIs(k, row)
        OBVIOUS
      <3>1. CASE k = t.kind
        BY <2>1, <3>1
      <3>2. CASE k # t.kind
        <4>1. k \in KindsOf(n) /\ RowIs(k, row) = RowIs(k, n)
          BY <1>7, <1>9, <3>2
        <4>2. tally'.counts[k] = tally.counts[k]
          BY <2>1, <3>2, <4>1
        <4> QED  BY <1>8, <4>1, <4>2
      <3> QED  BY <3>1, <3>2
    <2> QED  BY <2>2, <2>3
  <1>13. RowsOK'
    <2>1. ASSUME NEW m \in Nat
          PROVE  KindsOf(m)' = KindsOf(m) /\ \A k : RowIs(k, m)' = RowIs(k, m)
      BY <1>1 DEF KindsOf, RowIs, Row, RowHits
    <2>2. PICK m \in Nat : m = row
      BY <1>1 DEF row
    <2>3. /\ DOMAIN tally'.counts = KindsOf(m)'
          /\ \A k \in KindsOf(m)' : tally'.counts[k] = RowIs(k, m)'
      <3>1. /\ DOMAIN tally'.counts = KindsOf(m)
            /\ \A k \in KindsOf(m) : tally'.counts[k] = RowIs(k, m)
        BY <1>12, <2>2
      <3> QED  BY <2>1, <3>1
    <2>4. tally'.injected = m
      BY <1>2, <2>2
    <2> QED  BY ONLY <2>3, <2>4 DEF RowsOK
  <1>14. PassesInTurn' /\ ScoredOnly'
    BY <1>1 DEF CountInv, PassesInTurn, ScoredOnly, Matching, Matched, Scored, IsPhysical
  <1> QED  BY <1>6, <1>13, <1>14 DEF CountInv

\* Matching and counting keep the counts right.
LEMMA CountStep == Inv /\ CountInv /\ [ScoreNext]_scoreVars => CountInv'
  <1>1. CountInv /\ UNCHANGED scoreVars => CountInv'
    BY DEF scoreVars, CountInv, TotalsOK, RowsOK, PassesInTurn, ScoredOnly, Matching, Matched,
           Scored, IsPhysical, Hits, Physicals, KindsOf, RowIs, Row, RowHits
  <1> QED  BY <1>1, CountMatch, CountNext DEF ScoreNext

\* When both passes are done the counters speak of the whole lists.
LEMMA CountsAtEnd == Inv /\ CountInv => EveryFaultCounted
  <1> SUFFICES ASSUME Inv, CountInv, Done PROVE EveryFaultCounted
    BY DEF EveryFaultCounted
  <1> DEFINE n == tally.injected
  <1>1. /\ ListsOK /\ n = Len(matches) /\ n = Len(truths) /\ n \in Nat
        /\ DOMAIN truths = 1..n /\ DOMAIN matches = 1..n
    BY DEF Inv, ListsOK, Done, Matching
  <1> HIDE DEF n
  <1>2. Hits(n) = Matched /\ Physicals(n) = DOMAIN truths \ Scored
    BY <1>1 DEF Hits, Matched, Physicals, Scored
  <1>3. /\ tally.detected = Cardinality(Matched)
        /\ tally.physical = Cardinality(DOMAIN truths \ Scored)
    BY <1>2 DEF CountInv, TotalsOK, n
  <1>4. /\ IsFiniteSet(Scored) /\ IsFiniteSet(Matched) /\ IsFiniteSet(1..n)
        /\ Cardinality(1..n) = n /\ Matched \subseteq Scored /\ Scored \subseteq 1..n
    <2>1. Matched \subseteq Scored /\ Scored \subseteq 1..n
      BY <1>1 DEF CountInv, ScoredOnly, Scored
    <2>2. IsFiniteSet(1..n) /\ Cardinality(1..n) = n
      <3>1. 1 \in Int /\ n \in Int
        BY <1>1
      <3>2. IsFiniteSet(1..n) /\ Cardinality(1..n) = IF 1 > n THEN 0 ELSE n - 1 + 1
        BY <3>1, FS_Interval
      <3> QED  BY <1>1, <3>2
    <2> QED  BY <2>1, <2>2, FS_Subset
  <1>5. /\ Cardinality(Scored \ Matched) = Cardinality(Scored) - Cardinality(Matched)
        /\ Cardinality((1..n) \ Scored) = n - Cardinality(Scored)
        /\ Cardinality(Scored) \in Nat /\ Cardinality(Matched) \in Nat
        /\ Cardinality(Scored \ Matched) \in Nat /\ Cardinality((1..n) \ Scored) \in Nat
    <2>1. Scored \cap Matched = Matched /\ (1..n) \cap Scored = Scored
      BY <1>4
    <2>2. IsFiniteSet(Scored \ Matched) /\ IsFiniteSet((1..n) \ Scored)
      BY <1>4, FS_Difference
    <2>3. /\ Cardinality(Scored) \in Nat /\ Cardinality(Matched) \in Nat
          /\ Cardinality(Scored \ Matched) \in Nat /\ Cardinality((1..n) \ Scored) \in Nat
      BY <1>4, <2>2, FS_CardinalityType
    <2>4. Cardinality(Scored \ Matched) = Cardinality(Scored) - Cardinality(Matched)
      <3>1. Cardinality(Scored \ Matched)
              = Cardinality(Scored) - Cardinality(Scored \cap Matched)
        BY <1>4, FS_Difference
      <3> QED  BY <2>1, <3>1
    <2>5. Cardinality((1..n) \ Scored) = n - Cardinality(Scored)
      <3>1. Cardinality((1..n) \ Scored)
              = Cardinality(1..n) - Cardinality((1..n) \cap Scored)
        BY <1>4, FS_Difference
      <3> QED  BY <1>4, <2>1, <3>1
    <2> QED  BY <2>3, <2>4, <2>5
  <1>6. missed = Cardinality(Scored \ Matched)
    <2> DEFINE minus(a, b) == IF a >= b THEN a - b ELSE 0
               s == Cardinality(Scored)
               m == Cardinality(Matched)
    <2>1. missed = minus(minus(n, m), n - s)
      <3>1. tally.injected = n /\ tally.detected = m /\ tally.physical = n - s
        BY <1>1, <1>3, <1>5 DEF n
      <3>2. missed = minus(minus(tally.injected, tally.detected), tally.physical)
        BY DEF missed
      <3> QED  BY ONLY <3>1, <3>2
    <2>2. s \in Nat /\ m \in Nat /\ s - m \in Nat /\ n - s \in Nat /\ n \in Nat
      BY <1>1, <1>5
    <2> HIDE DEF s, m
    <2>3. minus(minus(n, m), n - s) = s - m
      BY <2>2
    <2> QED  BY <1>5, <2>1, <2>3 DEF s, m
  <1>7. \A i \in DOMAIN truths :
          LET same == {j \in DOMAIN truths : truths[j].kind = truths[i].kind}
          IN  tally.counts[truths[i].kind] =
                [injected |-> Cardinality(same), detected |-> Cardinality(same \cap Matched)]
    <2> SUFFICES ASSUME NEW i \in 1..n
                 PROVE  LET same == {j \in DOMAIN truths : truths[j].kind = truths[i].kind}
                        IN  tally.counts[truths[i].kind] =
                              [injected |-> Cardinality(same),
                               detected |-> Cardinality(same \cap Matched)]
      BY <1>1
    <2> DEFINE same == {j \in DOMAIN truths : truths[j].kind = truths[i].kind}
    <2>1. same = Row(truths[i].kind, n) /\ same \cap Matched = RowHits(truths[i].kind, n)
      BY <1>1 DEF Row, RowHits, Matched
    <2>2. tally.counts[truths[i].kind] = RowIs(truths[i].kind, n)
      BY DEF CountInv, RowsOK, KindsOf, n
    <2> QED  BY <2>1, <2>2 DEF RowIs
  <1> QED  BY <1>1, <1>3, <1>6, <1>7 DEF EveryFaultCounted, n

-----------------------------------------------------------------------------
\* The cursor, the matches and the counters keep their bounds.
THEOREM TypeCorrect == ScoreSpec => []TypeOK
  <1>1. Inv => TypeOK
    BY DEF Inv, ListsOK, CountersOK, TypeOK
  <1> QED  BY <1>1, InitInv, NextInv, PTL DEF ScoreSpec

\* No detection is credited to two injections, whatever the lists are.
THEOREM NoDetectionTwice == ScoreSpec => []EachDetectionOnce
  <1>1. Inv => EachDetectionOnce
    BY DEF Inv
  <1> QED  BY <1>1, InitInv, NextInv, PTL DEF ScoreSpec

\* If some match in order credits every scored injection, so does the greedy.
THEOREM GreedyCompleteness == ScoreSpec => []GreedyIsComplete
  <1>1. Inv => GreedyIsComplete
    BY DEF Inv, KeepsUp, AllScoredMatched, GreedyIsComplete
  <1> QED  BY <1>1, InitInv, NextInv, PTL DEF ScoreSpec

\* For all lists, every injection is counted once and no subtraction saturates.
THEOREM CountsAreExact == ScoreSpec => []EveryFaultCounted
  <1>1. ScoreInit => Inv /\ CountInv
    BY InitInv, CountInit
  <1>2. Inv /\ CountInv /\ [ScoreNext]_scoreVars => (Inv /\ CountInv)'
    BY NextInv, CountStep
  <1> QED  BY <1>1, <1>2, CountsAtEnd, PTL DEF ScoreSpec

\* For all lists, an injection is missed only if the cursor had passed every
\* detection that fits it.
THEOREM OnlyTakenAreMissed == ScoreSpec => []MissedWereTaken
  <1>1. Inv => MissedWereTaken
    BY DEF Inv
  <1> QED  BY <1>1, InitInv, NextInv, PTL DEF ScoreSpec
=============================================================================
