----------------------------- MODULE SamplerOps -----------------------------
(* The averaging of AnalogSampler, src/firmware/src/analog.rs, and the       *)
(* packets its task fills, as operators. Measurements are ADC counts, one    *)
(* input and the other in turn; the averages are millivolts.                 *)
EXTENDS Integers, Sequences

CONSTANTS Capacity,     \* the samples a packet holds (shared::SamplePacket)
          WordMod       \* times and totals count modulo this: 2^32 in the code

ASSUME SamplerAssumption == Capacity \in Nat \ {0} /\ WordMod \in Nat \ {0}

NewSampler == [pa0_mv |-> 0, pa1_mv |-> 0, sample_count |-> 0]

counts_to_mv(counts) == (counts * 3300) \div 4095

\* The counts of every second measurement from the first-th on, which is the
\* first or the second.
SumFrom(ms, first) ==
    LET sum[i \in 0..Len(ms)] ==
            IF i = 0 THEN 0
            ELSE sum[i - 1] + (IF i % 2 = first % 2 THEN ms[i] ELSE 0)
    IN  sum[Len(ms)]

\* Mutant of Average: the second input starts where the first does.
AverageOfFirst(ms, first) == counts_to_mv(SumFrom(ms, 1) \div (Len(ms) \div 2))

\* An odd number of measurements has one more of the first input than the
\* half of it that both sums are divided by.
Average(ms, first) == counts_to_mv(SumFrom(ms, first) \div (Len(ms) \div 2))

\* Fewer than two measurements leave the averages of the last read. The count
\* wraps, as in a release build; a build with overflow checks would panic there.
update_analog(s, ms) ==
    IF Len(ms) < 2 THEN s
    ELSE [pa0_mv |-> Average(ms, 1), pa1_mv |-> Average(ms, 2),
          sample_count |-> (s.sample_count + Len(ms)) % WordMod]

\* A reading of zero is not a number, as one beyond 16 bits is.
isnan(mv) == mv = 0 \/ mv > 65535

-----------------------------------------------------------------------------
\* SamplePacket: a full one takes no more.
is_full(packet) == Len(packet) >= Capacity

push(packet, channel, timestamp, mv) ==
    IF is_full(packet) THEN packet
    ELSE Append(packet, [channel |-> channel, at |-> timestamp, mv |-> mv])

\* The readings of one pass of the task, as far as they are numbers.
PushReadings(packet, s, timestamp) ==
    LET first == IF isnan(s.pa0_mv) THEN packet
                 ELSE push(packet, "Analog0", timestamp, s.pa0_mv)
    IN  IF isnan(s.pa1_mv) THEN first ELSE push(first, "Analog1", timestamp, s.pa1_mv)
=============================================================================
