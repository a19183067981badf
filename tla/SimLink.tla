------------------------------- MODULE SimLink -------------------------------
(* open_sim of src/host/src/link.rs: the thread that plays the injector. It  *)
(* receives chunks from the host, handles the control frames in each, then   *)
(* runs one slot of its campaign, and blocks in a send when the channel to   *)
(* the host's parser is full. The host is any sender of chunks, and may hang *)
(* up. A chunk is the sequence of control frames that verify in it. That is  *)
(* more than the parser of the code gives: it compares the wrong byte, so a  *)
(* PING or an ABORT never verifies, and a START by coincidence only. What is *)
(* shown here of all control frames is so of those that do.                  *)
EXTENDS InjectorOps

CONSTANTS Chunks,       \* the chunks the host may send
          MaxChunks,    \* the bound on the chunks sent
          BytesCap,     \* the capacity of the channel of bytes: 64 in the code
          OutCap        \* the capacity of the outbound channel: 16 in the code

None == [none |-> TRUE]

Ping       == [kind |-> "PING"]
Start(c)   == [kind |-> "START", cfg |-> c]
Abort      == [kind |-> "ABORT"]

\* A CampaignConfig: any counts, and a positive weight for any of the kinds.
CampaignConfig ==
    [packets : Nat, cadence_ms : Nat, kinds : SUBSET (FAULT_BITFLIP..FAULT_DUTY)]

Control == {Ping, Abort} \cup [kind : {"START"}, cfg : CampaignConfig]

ASSUME SimAssumption ==
    /\ BytesCap \in Nat \ {0} /\ OutCap \in Nat \ {0}
    /\ Chunks \subseteq Seq(Control)

VARIABLES outbound,     \* chunks on their way to the thread
          open,         \* the host still holds its Link
          pc,           \* "recv", "handle", "slot", "emit" or "panicked"
          chunk,        \* the control frames of the chunk still to handle
          cfg,          \* the campaign, if one is running
          sending,      \* what the thread has yet to send before it goes on
          bytes,        \* the channel of bytes to the parser
          stream,       \* history: what it sent since the last START but PONGs
          begun,        \* history: the campaign of the last START, if any
          chunksSent    \* how many chunks the host has sent

linkVars == <<outbound, open, pc, chunk, cfg, sending, bytes, stream, begun, chunksSent>>
simVars == <<pc, chunk, cfg, sending>>
hostVars == <<open, chunksSent>>

SimInit ==
    /\ outbound = <<>> /\ open = TRUE /\ chunksSent = 0
    /\ pc = "recv" /\ chunk = <<>> /\ cfg = None /\ sending = <<>>
    /\ bytes = <<>> /\ stream = <<>> /\ begun = None

-----------------------------------------------------------------------------
\* The host.

HostSends(c) ==
    /\ open /\ chunksSent < MaxChunks /\ Len(outbound) < OutCap
    /\ outbound' = Append(outbound, c) /\ chunksSent' = chunksSent + 1
    /\ UNCHANGED <<simVars, open, bytes, stream, begun>>

HostHangsUp ==
    /\ open /\ open' = FALSE
    /\ UNCHANGED <<simVars, outbound, bytes, stream, begun, chunksSent>>

\* parse_stream takes what arrives for as long as the process lives.
ParserTakes ==
    /\ bytes # <<>>
    /\ bytes' = Tail(bytes)
    /\ UNCHANGED <<simVars, hostVars, outbound, stream, begun>>

-----------------------------------------------------------------------------
\* The thread.

\* blocking_recv returns a chunk, or the expect on it panics.
Recv ==
    /\ pc = "recv" /\ outbound # <<>>
    /\ chunk' = Head(outbound) /\ outbound' = Tail(outbound) /\ pc' = "handle"
    /\ UNCHANGED <<hostVars, cfg, sending, bytes, stream, begun>>

RecvFails ==
    /\ pc = "recv" /\ outbound = <<>> /\ ~open
    /\ pc' = "panicked"
    /\ UNCHANGED <<hostVars, chunk, cfg, sending, outbound, bytes, stream, begun>>

\* A blocking_send, in whatever order the code makes them.
Send ==
    /\ sending # <<>> /\ Len(bytes) < BytesCap
    /\ bytes' = Append(bytes, Head(sending)) /\ sending' = Tail(sending)
    /\ stream' = IF Head(sending) = Pong THEN stream ELSE Append(stream, Head(sending))
    /\ UNCHANGED <<hostVars, pc, chunk, cfg, outbound, begun>>

HandlePing ==
    /\ pc = "handle" /\ sending = <<>> /\ chunk # <<>> /\ Head(chunk) = Ping
    /\ sending' = <<Pong>> /\ chunk' = Tail(chunk)
    /\ UNCHANGED <<hostVars, pc, cfg, outbound, bytes, stream, begun>>

\* Mutant of HandleStart: the configuration changes, the counters run on.
HandleStartKeepsCounters ==
    /\ pc = "handle" /\ sending = <<>> /\ chunk # <<>> /\ Head(chunk).kind = "START"
    /\ cfg' = IF cfg = None THEN NewCampaign(Head(chunk).cfg)
              ELSE [NewCampaign(Head(chunk).cfg) EXCEPT !.seq = cfg.seq,
                        !.sent = cfg.sent, !.fault_id = cfg.fault_id]
    /\ chunk' = Tail(chunk) /\ begun' = cfg' /\ stream' = <<>>
    /\ UNCHANGED <<hostVars, pc, sending, outbound, bytes>>

\* A START in mid-campaign replaces the campaign. The history begins anew.
HandleStart ==
    /\ pc = "handle" /\ sending = <<>> /\ chunk # <<>> /\ Head(chunk).kind = "START"
    /\ cfg' = NewCampaign(Head(chunk).cfg) /\ chunk' = Tail(chunk)
    /\ begun' = cfg' /\ stream' = <<>>
    /\ UNCHANGED <<hostVars, pc, sending, outbound, bytes>>

HandleAbort ==
    /\ pc = "handle" /\ sending = <<>> /\ chunk # <<>> /\ Head(chunk) = Abort
    /\ cfg' = None /\ chunk' = Tail(chunk)
    /\ UNCHANGED <<hostVars, pc, sending, outbound, bytes, stream, begun>>

\* The chunk is handled: the next slot, if a campaign is running.
ChunkDone ==
    /\ pc = "handle" /\ sending = <<>> /\ chunk = <<>>
    /\ pc' = IF cfg = None THEN "recv" ELSE "slot"
    /\ UNCHANGED <<hostVars, chunk, cfg, sending, outbound, bytes, stream, begun>>

\* run_next: the END of an exhausted campaign, which is then forgotten ...
Finish ==
    /\ pc = "slot" /\ Exhausted(cfg)
    /\ sending' = <<End(cfg.packets, cfg.fault_id)>>
    /\ cfg' = None /\ pc' = "emit"
    /\ UNCHANGED <<hostVars, chunk, outbound, bytes, stream, begun>>

\* ... or one slot. The engine has moved on before anything is sent.
Slot(kind) ==
    /\ pc = "slot" /\ ~Exhausted(cfg)
    /\ sending' = Emits(cfg, kind)
    /\ cfg' = AfterSlot(cfg, kind) /\ pc' = "emit"
    /\ UNCHANGED <<hostVars, chunk, outbound, bytes, stream, begun>>

\* Mutant of Wake: the thread waits for the parser to take everything first,
\* and for room it will not get.
WakeWhenFull ==
    /\ pc = "emit" /\ sending = <<>> /\ Len(bytes) = BytesCap
    /\ pc' = "recv"
    /\ UNCHANGED <<hostVars, chunk, cfg, sending, outbound, bytes, stream, begun>>

\* Back to blocking_recv once everything is sent, whatever is left to run.
Wake ==
    /\ pc = "emit" /\ sending = <<>>
    /\ pc' = "recv"
    /\ UNCHANGED <<hostVars, chunk, cfg, sending, outbound, bytes, stream, begun>>

Sim ==
    \/ Recv \/ RecvFails \/ Send
    \/ HandlePing \/ HandleStart \/ HandleAbort \/ ChunkDone
    \/ Finish \/ Wake
    \/ pc = "slot" /\ \E kind \in pick(cfg) : Slot(kind)

SimNext == Sim \/ ParserTakes \/ HostHangsUp \/ \E c \in Chunks : HostSends(c)

\* The thread and the parser task keep running; the host need not send.
SimSpec == SimInit /\ [][SimNext]_linkVars /\ WF_linkVars(Sim) /\ WF_linkVars(ParserTakes)

-----------------------------------------------------------------------------
\* What the thread has sent, or is about to send, for the last START.
Emitted == stream \o (IF sending = <<Pong>> THEN <<>> ELSE sending)

\* The frames that tell of a slot, the numbers that e tells of up to its i-th
\* frame, and the notices among them.
TellsSlot(f) == f.type \in {"SENSOR", "FAULT"}

Numbers(e, i) == {e[j].seq : j \in {j \in 1..i : TellsSlot(e[j])}}

Notices(e, i) == {j \in 1..i : e[j].type = "FAULT"}

\* The slots come out in order of their numbers, none left out: each sends a
\* frame or at least the notice of its loss. The ids of the notices are 1, 2,
\* 3, ...: the scorer's rows can be told apart, and a lost notice shows.
NumbersInOrder ==
    \A i \in DOMAIN Emitted :
        /\ TellsSlot(Emitted[i]) => Numbers(Emitted, i) = 0..Emitted[i].seq
        /\ Emitted[i].type = "FAULT" =>
             Emitted[i].fault_id = Cardinality(Notices(Emitted, i))

\* A notice comes after every frame of its slot, and a frame that carries a
\* fault id is followed at once by the notice of that id. The scorer takes the
\* arrival of the notice for the time of the fault.
NoticeFollowsItsFrames ==
    \A i \in DOMAIN Emitted :
        /\ Emitted[i].type = "FAULT" =>
             \A j \in (i + 1)..Len(Emitted) :
                TellsSlot(Emitted[j]) => Emitted[j].seq # Emitted[i].seq
        /\ Emitted[i].type = "SENSOR" /\ Emitted[i].fault_id # 0 =>
             /\ i < Len(Emitted)
             /\ Emitted[i + 1].type = "FAULT"
             /\ Emitted[i + 1].fault_id = Emitted[i].fault_id

\* The END is true and the last word: it states the slots that were sent, of
\* which each left a trace, and the notices that were.
EndIsTrue ==
    \A i \in DOMAIN Emitted :
        Emitted[i].type = "END" =>
            /\ i = Len(Emitted)
            /\ Emitted[i].packets = begun.packets
            /\ Emitted[i].packets = Cardinality(Numbers(Emitted, i))
            /\ Emitted[i].faults = Cardinality(Notices(Emitted, i))

\* However full the channel to the parser gets, the thread comes back for the
\* next chunk: a slot of several sends never leaves it waiting for ever.
ReturnsToRecv == pc \in {"handle", "slot", "emit"} ~> pc = "recv"

\* "Simulated mode runs a miniature copy of the firmware injector in a thread
\* so the whole host pipeline is exercisable without hardware", link.rs:4-5,
\* which waits for the END (campaign.rs:78): a campaign that was started ends,
\* unless the host hangs up on it.
EndSent == \E i \in DOMAIN stream : stream[i].type = "END"

CampaignEnds == begun # None ~> EndSent \/ ~open
=============================================================================
