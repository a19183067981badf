-------------------------------- MODULE Host --------------------------------
(* The pipeline of src/host/src/main.rs and campaign.rs: the serial reader   *)
(* thread, the parser task, the handshake of the main task, the campaign     *)
(* task that takes the frame channel over from it, and the result it hands   *)
(* back. The injector is any source of traffic. A byte of the serial line is *)
(* abstracted to what the parser reports when it is pushed (FrameParser), if *)
(* anything: Silent stands for a byte inside a frame.                        *)
EXTENDS Integers, Sequences, FiniteSets, SequencesExt

CONSTANTS BytesCap,     \* capacity of the channel of byte chunks: 64 in the code
          FrameCap,     \* capacity of the channel of frames: 256 in the code
          Traffic,      \* what the bytes that may arrive are taken for
          MaxChunk,     \* the bound on what one read returns: 512 in the code
          MaxTraffic    \* the bound on what is read in all

Kinds == {"PONG", "SENSOR", "FAULT", "END"}

\* What the parser reports: a verified frame, one whose check failed, junk.
Verified(kind) == [kind |-> kind, bad_crc |-> FALSE, garbage |-> FALSE]
BadCrc(kind)   == [kind |-> kind, bad_crc |-> TRUE, garbage |-> FALSE]
Garbage        == [kind |-> "MAX", bad_crc |-> FALSE, garbage |-> TRUE]
Silent         == [silent |-> TRUE]

DuFrames == {Verified(k) : k \in Kinds} \cup {BadCrc(k) : k \in Kinds} \cup {Garbage}

ASSUME HostAssumption ==
    /\ BytesCap \in Nat \ {0} /\ FrameCap \in Nat \ {0}
    /\ MaxTraffic \in Nat /\ MaxChunk \in Nat
    /\ Traffic \subseteq DuFrames \cup {Silent}

VARIABLES bytes,        \* the channel of chunks
          chunk,        \* the rest of the chunk the parser task works on
          frames,       \* the channel of frames
          rxOpen,       \* the receiver of that channel still exists
          main,         \* "ping", "handshake", "failed", "wait", "reported"
          campaign,     \* "none", "start", "drain", "score", "done"
          outbound,     \* the control frames sent to the injector
          processed,    \* what the campaign gave to Dut::process
          truths,       \* the notices it accepted, as positions in processed
          ended,        \* the channel of the result
          fed,          \* history: all the traffic read from the port
          heard,        \* history: the frames the handshake consumed
          drained       \* history: the frames the campaign consumed

portVars == <<bytes, fed>>
parserVars == <<chunk, frames>>
taskVars == <<main, campaign, outbound, processed, truths, ended, heard, drained, rxOpen>>
vars == <<portVars, parserVars, taskVars>>

Init ==
    /\ bytes = <<>> /\ fed = <<>>
    /\ chunk = <<>> /\ frames = <<>> /\ rxOpen = TRUE
    /\ main = "ping" /\ campaign = "none" /\ outbound = <<>>
    /\ processed = <<>> /\ truths = <<>> /\ ended = <<>>
    /\ heard = <<>> /\ drained = <<>>

\* run has returned, and with it the process and all its tasks.
Exited == main \in {"failed", "reported"}

-----------------------------------------------------------------------------
\* The port.

\* A read returns what has arrived; blocking_send waits for room for it.
PortReads(c) ==
    /\ ~Exited /\ Len(bytes) < BytesCap /\ Len(fed) + Len(c) <= MaxTraffic
    /\ bytes' = Append(bytes, c) /\ fed' = fed \o c
    /\ UNCHANGED <<parserVars, taskVars>>

-----------------------------------------------------------------------------
\* parse_stream.

TakeChunk ==
    /\ ~Exited /\ chunk = <<>> /\ bytes # <<>>
    /\ chunk' = Head(bytes) /\ bytes' = Tail(bytes)
    /\ UNCHANGED <<fed, frames, taskVars>>

\* A byte without an outcome.
PushSilent ==
    /\ ~Exited /\ chunk # <<>> /\ Head(chunk) = Silent
    /\ chunk' = Tail(chunk)
    /\ UNCHANGED <<portVars, frames, taskVars>>

\* Mutant of SendFrame: a frame that finds the channel full is given up.
SendFrameOrDrop ==
    /\ ~Exited /\ chunk # <<>> /\ Head(chunk) # Silent
    /\ chunk' = Tail(chunk)
    /\ frames' = IF rxOpen /\ Len(frames) < FrameCap
                 THEN Append(frames, Head(chunk)) ELSE frames
    /\ UNCHANGED <<portVars, taskVars>>

\* The send waits for room; without a receiver it fails, which is ignored.
SendFrame ==
    /\ ~Exited /\ chunk # <<>> /\ Head(chunk) # Silent
    /\ rxOpen => Len(frames) < FrameCap
    /\ chunk' = Tail(chunk)
    /\ frames' = IF rxOpen THEN Append(frames, Head(chunk)) ELSE frames
    /\ UNCHANGED <<portVars, taskVars>>

-----------------------------------------------------------------------------
\* The main task.

SendPing ==
    /\ main = "ping"
    /\ outbound' = Append(outbound, "PING") /\ main' = "handshake"
    /\ UNCHANGED <<portVars, parserVars, campaign, processed, truths, ended,
                   heard, drained, rxOpen>>

\* A PONG, verified or not, ends the handshake; the campaign task is spawned
\* and takes the receiver of frames with it.
HearPong ==
    /\ main = "handshake" /\ frames # <<>> /\ Head(frames).kind = "PONG"
    /\ heard' = Append(heard, Head(frames)) /\ frames' = Tail(frames)
    /\ main' = "wait" /\ campaign' = "start"
    /\ UNCHANGED <<portVars, chunk, outbound, processed, truths, ended, drained, rxOpen>>

\* Mutant of HearOther: any frame is taken for the answer.
HearOtherStarts ==
    /\ main = "handshake" /\ frames # <<>> /\ Head(frames).kind # "PONG"
    /\ heard' = Append(heard, Head(frames)) /\ frames' = Tail(frames)
    /\ main' = "wait" /\ campaign' = "start"
    /\ UNCHANGED <<portVars, chunk, outbound, processed, truths, ended, drained, rxOpen>>

\* Any other frame is dropped. (The channel of frames is not closed while the
\* reader of the port runs, so "frame channel closed" has no action.)
HearOther ==
    /\ main = "handshake" /\ frames # <<>> /\ Head(frames).kind # "PONG"
    /\ heard' = Append(heard, Head(frames)) /\ frames' = Tail(frames)
    /\ UNCHANGED <<portVars, chunk, main, campaign, outbound, processed, truths,
                   ended, drained, rxOpen>>

\* A second has passed; the receiver goes with the task.
HandshakeTimeout ==
    /\ main = "handshake"
    /\ main' = "failed" /\ rxOpen' = FALSE
    /\ UNCHANGED <<portVars, parserVars, campaign, outbound, processed, truths,
                   ended, heard, drained>>

Report ==
    /\ main = "wait" /\ ended # <<>>
    /\ main' = "reported" /\ ended' = Tail(ended)
    /\ UNCHANGED <<portVars, parserVars, campaign, outbound, processed, truths,
                   heard, drained, rxOpen>>

-----------------------------------------------------------------------------
\* campaign::run.

SendStart ==
    /\ campaign = "start"
    /\ outbound' = Append(outbound, "START") /\ campaign' = "drain"
    /\ UNCHANGED <<portVars, parserVars, main, processed, truths, ended, heard,
                   drained, rxOpen>>

\* Mutant of Consumes: an unverified frame is not looked at at all.
ConsumesVerified(f) ==
    /\ campaign = "drain" /\ frames # <<>> /\ Head(frames) = f /\ ~f.bad_crc
    /\ frames' = Tail(frames) /\ drained' = Append(drained, f)
    /\ UNCHANGED <<portVars, chunk, main, outbound, ended, heard, rxOpen>>

\* The loop's "None => break" has no action: the channel stays open while the
\* reader of the port runs.
Consumes(f) ==
    /\ campaign = "drain" /\ frames # <<>> /\ Head(frames) = f
    /\ frames' = Tail(frames) /\ drained' = Append(drained, f)
    /\ UNCHANGED <<portVars, chunk, main, outbound, ended, heard, rxOpen>>

\* A notice is kept with the detector's frame count; the empty payload of an
\* unverified one is too short, and it is passed over.
DrainNotice ==
    /\ \E f \in {Verified("FAULT"), BadCrc("FAULT")} :
          /\ Consumes(f)
          /\ truths' = IF f.bad_crc THEN truths ELSE Append(truths, Len(processed))
    /\ UNCHANGED <<campaign, processed>>

\* Mutant of DrainEnd: the frame is given to the detector as well.
DrainEndProcesses ==
    /\ \E f \in {Verified("END"), BadCrc("END")} :
          Consumes(f) /\ processed' = Append(processed, f)
    /\ campaign' = "score"
    /\ UNCHANGED truths

\* Mutant of DrainEnd: an unverified END is passed over.
DrainEndIfVerified ==
    /\ \E f \in {Verified("END"), BadCrc("END")} :
          Consumes(f) /\ campaign' = IF f.bad_crc THEN campaign ELSE "score"
    /\ UNCHANGED <<processed, truths>>

\* An END, verified or not, ends the campaign.
DrainEnd ==
    /\ \E f \in {Verified("END"), BadCrc("END")} : Consumes(f)
    /\ campaign' = "score"
    /\ UNCHANGED <<processed, truths>>

\* Every other frame goes to the detector.
DrainFrame ==
    /\ \E f \in {f \in DuFrames : f.kind \notin {"FAULT", "END"}} :
          Consumes(f) /\ processed' = Append(processed, f)
    /\ UNCHANGED <<campaign, truths>>

\* score runs to its end without waiting; the task then ends, and the
\* receiver of frames goes with it.
SendResult ==
    /\ campaign = "score" /\ ended = <<>>
    /\ ended' = <<[processed |-> Len(processed), truths |-> Len(truths)]>>
    /\ campaign' = "done" /\ rxOpen' = FALSE
    /\ UNCHANGED <<portVars, parserVars, main, outbound, processed, truths, heard,
                   drained>>

-----------------------------------------------------------------------------
Port     == \E n \in 1..MaxChunk : \E c \in [1..n -> Traffic] : PortReads(c)
Parser   == TakeChunk \/ PushSilent \/ SendFrame
MainTask == SendPing \/ HearPong \/ HearOther \/ Report
Campaign == SendStart \/ DrainNotice \/ DrainEnd \/ DrainFrame \/ SendResult

Next == Port \/ Parser \/ MainTask \/ HandshakeTimeout \/ Campaign

\* Tasks that can run do run, and a second passes. Nothing is assumed of what
\* arrives at the port.
Fairness ==
    WF_vars(Parser) /\ WF_vars(MainTask) /\ WF_vars(HandshakeTimeout) /\ WF_vars(Campaign)

Spec == Init /\ [][Next]_vars /\ Fairness

-----------------------------------------------------------------------------
\* The frames that the bytes of a sequence amount to.
FramesIn(s) ==
    LET kept[n \in 0..Len(s)] ==
            IF n = 0 THEN <<>>
            ELSE IF s[n] = Silent THEN kept[n - 1] ELSE Append(kept[n - 1], s[n])
    IN  kept[Len(s)]

\* What is between the port and the tasks.
InFlight == frames \o FramesIn(chunk) \o FramesIn(FlattenSeq(bytes))

\* Two bounded channels, a task in between and a change of consumer are one
\* pipe from the port to the tasks: every frame read from the port is consumed
\* once and in order, by the handshake or the campaign, until the receiver is
\* dropped.
Pipeline ==
    INSTANCE Pipe WITH open <- rxOpen, MayLose <- FALSE, put <- FramesIn(fed),
                       waiting <- IF rxOpen THEN InFlight ELSE <<>>,
                       taken <- heard \o drained

NothingLost == Pipeline!Spec

\* The campaign begins right behind the first PONG of the line: earlier
\* traffic is the handshake's, later PONGs are frames like any other.
CampaignFollowsPong ==
    /\ drained # <<>> \/ campaign # "none" =>
          heard # <<>> /\ heard[Len(heard)].kind = "PONG"
    /\ \A i \in 1..(Len(heard) - 1) : heard[i].kind # "PONG"
    /\ "START" \in {outbound[i] : i \in DOMAIN outbound} => outbound = <<"PING", "START">>

\* Which of the first n frames that the campaign consumed were for the detector,
\* and which were verified notices.
ForDetector(n) == {i \in 1..n : drained[i].kind \notin {"FAULT", "END"}}
Noticed(n)     == {i \in 1..n : drained[i] = Verified("FAULT")}

\* What the campaign consumed went to the detector in order, but for notices
\* and the END; each verified notice is placed by the frames in front of it,
\* which is what the report's fault rows are made of.
EveryFrameAccounted ==
    LET n == Len(drained)
    IN  /\ Len(processed) = Cardinality(ForDetector(n))
        /\ \A i \in ForDetector(n) : processed[Cardinality(ForDetector(i))] = drained[i]
        /\ Len(truths) = Cardinality(Noticed(n))
        /\ \A i \in Noticed(n) :
              truths[Cardinality(Noticed(i))] = Cardinality(ForDetector(i))

\* The campaign stops at the first END and not before; the result then
\* reported counts what it had consumed.
StopsAtFirstEnd ==
    /\ \A i \in DOMAIN drained :
          drained[i].kind = "END" => i = Len(drained) /\ campaign \in {"score", "done"}
    /\ campaign \in {"score", "done"} =>
          drained # <<>> /\ drained[Len(drained)].kind = "END"
    /\ main = "reported" => campaign = "done" /\ ended = <<>>

\* An END on its way to a campaign leads to a report, however full the
\* channels are: the tasks never all wait for each other.
EndIsReported ==
    main = "wait" /\ (\E i \in DOMAIN InFlight : InFlight[i].kind = "END")
        ~> main = "reported"
=============================================================================
