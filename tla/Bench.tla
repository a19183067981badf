-------------------------------- MODULE Bench --------------------------------
(* The bench from end to end: the injector's campaign engine (InjectorOps),  *)
(* a line that may spoil any frame, and the host's campaign loop with its    *)
(* detector (DutOps), in real time. The line is what FrameParser makes of    *)
(* it: a frame is read, or fails its check, or falls apart into junk.        *)
EXTENDS InjectorOps

CONSTANTS K_SENSOR,     \* the kind of a measurement frame
          Config,       \* the campaign's configuration
          Jitters,      \* the milliseconds by which a slot may come late
          MaxSpoiled    \* the bound on the frames that the line spoils

\* The packets and the milliseconds of a CampaignConfig are 16 bits wide; any
\* weight may be zero.
ASSUME BenchAssumption ==
    /\ K_SENSOR \in Nat /\ K_SENSOR < 255
    /\ Config.packets \in Nat /\ Config.packets < 65536 /\ Config.cadence_ms \in Nat
    /\ Config.kinds \subseteq FAULT_BITFLIP..FAULT_DUTY
    /\ Jitters \subseteq Nat /\ MaxSpoiled \in Nat

Detector == INSTANCE DutOps WITH Modulus <- 65536

VARIABLES engine,       \* the injector's campaign
          running,      \* it has not sent its END yet
          emitted,      \* the frames of the current slot still to arrive
          now,          \* the clock
          dut,          \* the host's detector
          truths,       \* the notices the host could read
          over,         \* an END has arrived
          spoiled,      \* the number of frames the line has spoiled
          slots,        \* history: the kind of each slot, from slot 0 on
          lateness,     \* history: by how much each of them came late
          accepted      \* history: the numbers of the measurements read

hostVars == <<dut, truths, over, accepted>>
vars == <<engine, running, emitted, now, dut, truths, over, spoiled, slots, lateness, accepted>>

Init ==
    /\ engine = NewCampaign(Config) /\ running = TRUE /\ emitted = <<>> /\ now = 0
    /\ dut = Detector!NewDut(Config.cadence_ms)
    /\ truths = <<>> /\ over = FALSE /\ spoiled = 0 /\ slots = <<>>
    /\ lateness = <<>> /\ accepted = <<>>

-----------------------------------------------------------------------------
\* One slot: the pause of its kind, its frames, and the cadence behind them,
\* which the clock takes with the next slot.
RunSlot(kind, jitter) ==
    /\ running /\ emitted = <<>> /\ ~Exhausted(engine)
    /\ now' = now + PauseBefore(engine, kind) + jitter
                  + (IF slots = <<>> THEN 0 ELSE PauseAfter(engine))
    /\ emitted' = Emits(engine, kind)
    /\ engine' = AfterSlot(engine, kind)
    /\ slots' = Append(slots, kind)
    /\ lateness' = Append(lateness, jitter)
    /\ UNCHANGED <<running, spoiled, hostVars>>

RunEnd ==
    /\ running /\ emitted = <<>> /\ Exhausted(engine)
    /\ emitted' = <<End(engine.packets, engine.fault_id)>> /\ running' = FALSE
    /\ UNCHANGED <<engine, now, spoiled, slots, lateness, hostVars>>

-----------------------------------------------------------------------------
\* The check byte of every frame is left for the parser to trip over.
Trailed(d) == Detector!process(d, Detector!DuGarbage, now)

ProcessAll(f) == Trailed(Detector!process(dut, f, now))

NextFrame(type) == emitted # <<>> /\ ~over /\ emitted[1].type = type

\* The line may spoil this frame.
Spoils == spoiled < MaxSpoiled /\ spoiled' = spoiled + 1

\* A measurement that the parser reads.
ReadSensor ==
    /\ NextFrame("SENSOR")
    /\ dut' = ProcessAll(Detector!DuFrame(K_SENSOR, emitted[1].seq))
    /\ accepted' = Append(accepted, emitted[1].seq)
    /\ emitted' = Tail(emitted)
    /\ UNCHANGED <<engine, running, now, truths, over, spoiled, slots, lateness>>

\* A measurement that fails its check.
SpoilSensor ==
    /\ NextFrame("SENSOR") /\ Spoils
    /\ dut' = ProcessAll(Detector!DuBadCrc(K_SENSOR))
    /\ emitted' = Tail(emitted)
    /\ UNCHANGED <<engine, running, now, truths, over, slots, lateness, accepted>>

\* A frame whose SYNC or length is spoiled falls apart into junk.
FallApart ==
    /\ emitted # <<>> /\ ~over /\ Spoils
    /\ dut' = Trailed(dut)
    /\ emitted' = Tail(emitted)
    /\ UNCHANGED <<engine, running, now, truths, over, slots, lateness, accepted>>

\* A burst is junk to begin with.
ReadBurst ==
    /\ NextFrame("JUNK")
    /\ dut' = Trailed(dut)
    /\ emitted' = Tail(emitted)
    /\ UNCHANGED <<engine, running, now, truths, over, spoiled, slots, lateness, accepted>>

\* A notice that can be read is kept; its check byte goes to the detector.
HearNotice ==
    /\ NextFrame("FAULT")
    /\ truths' = Append(truths, [kind |-> emitted[1].kind, at_seq |-> emitted[1].seq,
                                 fault_id |-> emitted[1].fault_id, at |-> now])
    /\ dut' = Trailed(dut)
    /\ emitted' = Tail(emitted)
    /\ UNCHANGED <<engine, running, now, over, spoiled, slots, lateness, accepted>>

\* One that fails its check is too short for the campaign, and passed over.
SpoilNotice ==
    /\ NextFrame("FAULT") /\ Spoils
    /\ dut' = Trailed(dut)
    /\ emitted' = Tail(emitted)
    /\ UNCHANGED <<engine, running, now, truths, over, slots, lateness, accepted>>

HearEnd ==
    /\ NextFrame("END")
    /\ over' = TRUE /\ emitted' = Tail(emitted)
    /\ UNCHANGED <<engine, running, now, dut, truths, spoiled, slots, lateness, accepted>>

Next ==
    \/ \E kind \in pick(engine), jitter \in Jitters : RunSlot(kind, jitter)
    \/ RunEnd
    \/ ReadSensor \/ SpoilSensor \/ FallApart \/ ReadBurst
    \/ HearNotice \/ SpoilNotice \/ HearEnd

Spec == Init /\ [][Next]_vars

-----------------------------------------------------------------------------
Flagged(kind) ==
    {dut.detections[i].seq :
        i \in {i \in DOMAIN dut.detections : dut.detections[i].kind = kind}}

\* A replay is flagged if both copies could be read, and never otherwise: no
\* spoiled, lost or late frame looks like one.
ReplaysExact ==
    Flagged("Replay") =
        {accepted[i] : i \in {i \in 2..Len(accepted) : accepted[i] = accepted[i - 1]}}

ReplaysAreInjected ==
    \A seq \in Flagged("Replay") : slots[seq + 1] = FAULT_REPLAY

\* Every slot that was dropped between two measurements that could be read is
\* covered by a gap, which the next one read is flagged with. (A drop in
\* front of the first measurement leaves no trace.)
DropsAreCovered ==
    \A drop \in {s \in DOMAIN slots : slots[s] = FAULT_DROP} :
        \A i \in 2..Len(accepted) :
            accepted[i - 1] < drop - 1 /\ drop - 1 < accepted[i]
                => accepted[i] \in Flagged("Gap")

\* The faults injected in the first n slots.
InjectedIn(n) == {s \in 1..n : IsInjected(slots[s])}

\* What the scorer is told is what happened: the notices read name the slot
\* and the kind, in the order of their ids.
TruthsAreTrue ==
    \A i \in DOMAIN truths :
        /\ slots[truths[i].at_seq + 1] = truths[i].kind
        /\ truths[i].fault_id = Cardinality(InjectedIn(truths[i].at_seq + 1))
        /\ i > 1 => truths[i - 1].fault_id < truths[i].fault_id

\* The measurements read right behind the one before them whose slot came
\* late by this much or more.
InTurn(ms) ==
    {accepted[i] : i \in {i \in 2..Len(accepted) :
                            /\ accepted[i] = accepted[i - 1] + 1
                            /\ lateness[accepted[i] + 1] >= ms}}

\* The same of the measurements that the injector delayed.
Delayed ==
    {accepted[i] : i \in {i \in 2..Len(accepted) :
                            /\ accepted[i] = accepted[i - 1] + 1
                            /\ slots[accepted[i] + 1] = FAULT_DELAY}}

\* A measurement right behind the one before it is flagged as late if the line
\* stalled for what the late budget leaves of the cadence, and never if it
\* neither stalled nor was delayed, whatever junk and spoiled frames are around.
LatesHaveACause ==
    /\ Flagged("Late") \subseteq InTurn(1) \cup Delayed
    /\ InTurn(3 * Config.cadence_ms + 5) \subseteq Flagged("Late")

\* "Delayed (FAULT_DELAY) frames hop 6 cadences, far above this", dut.rs:87-88,
\* of the late budget: a delayed measurement should be flagged as late. But the
\* injector waits for two cadences only, and sends it after three.
DelaysAreLate == Delayed \subseteq Flagged("Late")
=============================================================================
