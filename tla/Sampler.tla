------------------------------ MODULE Sampler -------------------------------
(* adc_task of src/firmware/src/analog.rs: reads of the DMA ring of any      *)
(* length, averages, and packets that go out over the transport when full.   *)
EXTENDS SamplerOps, FiniteSets

CONSTANTS Counts,       \* the ADC counts that are measured
          MaxCount,     \* the bound on one read: 2048 in the code
          MaxReads      \* the bound on the reads

\* A count has twelve bits: counts_to_mv takes 4095 for full scale.
ASSUME ReadAssumption == Counts \subseteq 0..4095 /\ MaxCount \in Nat /\ MaxReads \in Nat

VARIABLES sampler,          \* the averages
          packet,           \* the samples of the packet being filled
          seq,              \* its number
          last_timestamp,   \* the time of the next reading
          packets,          \* history: the packets sent
          reads             \* history: what each read returned

samplerVars == <<sampler, packet, seq, last_timestamp, packets, reads>>

SamplerInit ==
    /\ sampler = NewSampler /\ packet = <<>> /\ seq = 0
    /\ last_timestamp = 0 /\ packets = <<>> /\ reads = <<>>

\* An overrun of the ring, or a read of no length: the task reads again.
ReadNothing ==
    /\ Len(reads) < MaxReads
    /\ reads' = Append(reads, <<>>)
    /\ UNCHANGED <<sampler, packet, seq, last_timestamp, packets>>

\* What is read is averaged, and the averages go into the packet under the
\* given time. A full packet is numbered, sent and replaced; what becomes of
\* it on the wire is ignored.
TakeIn(ms, timestamp) ==
    LET updated == update_analog(sampler, ms)
        filled  == PushReadings(packet, updated, timestamp)
    IN  /\ Len(reads) < MaxReads
        /\ sampler' = updated
        /\ last_timestamp' = (last_timestamp + 100 * Len(ms)) % WordMod
        /\ reads' = Append(reads, ms)
        /\ IF is_full(filled)
           THEN /\ packets' = Append(packets, [seq |-> seq, samples |-> filled])
                /\ seq' = (seq + 1) % 65536 /\ packet' = <<>>
           ELSE packet' = filled /\ UNCHANGED <<packets, seq>>

\* Mutant of Read: the time is taken after the read, not before.
ReadTimesLate(ms) == TakeIn(ms, (last_timestamp + 100 * Len(ms)) % WordMod)

\* One pass of the loop.
Read(ms) == TakeIn(ms, last_timestamp)

SamplerNext ==
    \/ ReadNothing
    \/ \E n \in 1..MaxCount : \E ms \in [1..n -> Counts] : Read(ms)

SamplerSpec == SamplerInit /\ [][SamplerNext]_samplerVars

-----------------------------------------------------------------------------
\* The time at which the k-th read begins.
TimeOf(k) ==
    LET before[i \in 0..Len(reads)] ==
            IF i = 0 THEN 0 ELSE before[i - 1] + 100 * Len(reads[i])
    IN  before[k - 1]

\* The read whose averages are held when the k-th has been taken in, if any.
HeldAt(k) == {i \in 1..k : Len(reads[i]) >= 2 /\ \A j \in (i + 1)..k : Len(reads[j]) < 2}

\* The readings of a read with the averages of ms.
Averages(ms, time) ==
    { [channel |-> "Analog0", at |-> time, mv |-> Average(ms, 1)],
      [channel |-> "Analog1", at |-> time, mv |-> Average(ms, 2)] }

\* The readings that the k-th read should leave: not of a read of no length,
\* and not zero.
Readings(k) ==
    IF reads[k] = <<>> THEN {}
    ELSE UNION {Averages(reads[i], TimeOf(k)) : i \in HeldAt(k)}

Numbers(samples) == {s \in samples : s.mv \in 1..65535}

\* What the packets should hold of the reads so far.
Due == UNION {Numbers(Readings(k)) : k \in DOMAIN reads}

Lasts == {packets[i].samples[Capacity] : i \in DOMAIN packets}

Kept ==
    {packet[i] : i \in DOMAIN packet}
      \cup UNION {{packets[i].samples[j] : j \in 1..Capacity} : i \in DOMAIN packets}

\* The clock of the task has not started again from 0.
ClockRuns == \A k \in DOMAIN reads : TimeOf(k) < WordMod

\* Every sample is the average of the last read that had both inputs, under
\* the time of its own read, however packets, short reads and zeros fall; and
\* the only one that is missing is the second input's, when the packet was
\* completed by the first's. (Once the clock has wrapped, two samples may be
\* the same, and their times no longer tell which read they are of.)
SamplesTraceable ==
    ClockRuns =>
        /\ Kept \subseteq Due
        /\ \A s \in Due \ Kept :
              s.channel = "Analog1" /\ \E l \in Lasts : l.channel = "Analog0" /\ l.at = s.at
        /\ Len(packet) + Capacity * Len(packets) = Cardinality(Kept)

\* Counts of twelve bits are at most 3300 mV. The second input never reads
\* more; the first does only when the last full read was of an odd length.
FullScale == 3300

OverScaleOnlyOdd ==
    /\ sampler.pa1_mv <= FullScale
    /\ sampler.pa0_mv > FullScale =>
          \A i \in HeldAt(Len(reads)) : Len(reads[i]) % 2 = 1
=============================================================================
