----------------------------- MODULE SerialLine -----------------------------
(* Encoded frames on a serial line, with the bytes and the check sum of the  *)
(* code (Wire): a sender puts one frame after the other on the line, the     *)
(* line may damage one byte of one of them, and the receiver pushes each     *)
(* byte into its FrameParser.                                                *)
EXTENDS Wire

CONSTANTS Configs,      \* what may be sent: campaigns to start, faults
          Faults,       \* that were injected, readings of the sensor, and
          Readings,     \* totals at the end, each by its fields
          Totals,
          MaxFrames,    \* the bound on the frames sent
          NoisyFrames,  \* the bound on the frames that noise may reach
          Masks         \* the damage: values xored into a byte

Byte == 0..255
U16  == 0..65535
U32  == {v \in Nat : v \div 65536 \in U16}

ASSUME LineAssumption ==
    /\ Configs \subseteq [seed : U32, packets : U16, cadence_ms : U16,
                          weights : [1..N_FAULT_KINDS -> Byte]]
    /\ Faults \subseteq [fault_id : U32, kind : Byte, at_seq : U16]
    /\ Readings \subseteq [seq : U16, value : U32, fault_id : U32]
    /\ Totals \subseteq [packets : U16, faults : U32]
    /\ MaxFrames \in Nat /\ NoisyFrames \in Nat
    /\ Masks \subseteq 1..255

-----------------------------------------------------------------------------
\* The payload of an encoded frame.
PayloadOf(wire) == SubSeq(wire, 4, Len(wire) - 1)

\* A message: its fields, the frame the sender makes of them, and the fields
\* the receiver's code reads back from the payload.
Message(fields, wire, reread) ==
    [fields |-> fields, wire |-> wire, kind |-> wire[3],
     payload |-> PayloadOf(wire), reread |-> reread]

Start(cfg) ==
    Message(cfg, encode_start(cfg), decode_start(PayloadOf(encode_start(cfg))))

Fault(f) ==
    LET wire == encode_fault_event(f.fault_id, f.kind, f.at_seq)
    IN  Message(f, wire, from_payload(PayloadOf(wire)))

\* The sequence number is all that the host reads of a SENSOR frame.
Sensor(r) ==
    LET wire == encode_sensor(r.seq, r.value, r.fault_id)
    IN  Message([seq |-> r.seq], wire, [seq |-> get_u16(PayloadOf(wire), 0)])

\* Nobody reads a field of these.
Bare(wire) == Message(None, wire, None)

Messages ==
    {Bare(encode_ping), Bare(encode_abort), Bare(encode_pong)}
      \cup {Start(cfg) : cfg \in Configs} \cup {Fault(f) : f \in Faults}
      \cup {Sensor(r) : r \in Readings}
      \cup {Bare(encode_end(t.packets, t.faults)) : t \in Totals}

-----------------------------------------------------------------------------
VARIABLES line,         \* the bytes on their way
          buf,          \* the receiver's parser
          current,      \* the frame being received, or the last one received
          wasEmpty,     \* the parser was empty when that frame began
          damaged,      \* whether the line has damaged that frame
          got,          \* what the parser has reported since that frame began
          frames        \* how many frames were sent

vars == <<line, buf, current, wasEmpty, damaged, got, frames>>

Init ==
    /\ line = <<>> /\ buf = <<>> /\ got = <<>>
    /\ current \in {Bare(encode_ping)}
    /\ wasEmpty = FALSE /\ damaged = FALSE /\ frames = 0

Transmit(m) ==
    /\ line = <<>> /\ frames < MaxFrames
    /\ line' = m.wire /\ current' = m
    /\ wasEmpty' = (buf = <<>>) /\ damaged' = FALSE
    /\ got' = <<>> /\ frames' = frames + 1
    /\ UNCHANGED buf

\* Noise on one byte of a frame, before any of it is received.
Damage(i, mask) ==
    /\ frames \in 1..NoisyFrames /\ ~damaged /\ line = current.wire
    /\ line' = [line EXCEPT ![i] = Xor(@, mask)]
    /\ damaged' = TRUE
    /\ UNCHANGED <<buf, current, wasEmpty, got, frames>>

Receive ==
    /\ line # <<>>
    /\ LET step == push(buf, Head(line))
       IN  /\ buf' = step.buf
           /\ got' = IF step.out = Nothing THEN got ELSE Append(got, step.out)
    /\ line' = Tail(line)
    /\ UNCHANGED <<current, wasEmpty, damaged, frames>>

Next ==
    \/ \E m \in Messages : Transmit(m)
    \/ \E i \in 1..Len(line), mask \in Masks : Damage(i, mask)
    \/ Receive

Spec == Init /\ [][Next]_vars

-----------------------------------------------------------------------------
\* A frame that arrived whole and undamaged at a parser in step with it.
CleanlyReceived == frames > 0 /\ line = <<>> /\ ~damaged /\ wasEmpty

\* The check byte covers the length, the kind and the payload: a damaged byte
\* anywhere behind the sync byte makes the check byte and its sum disagree.
DamageShowsInCrc ==
    damaged /\ Len(line) = Len(current.wire) /\ line[1] = SYNC =>
        line[Len(line)] # crc8(SubSeq(line, 2, Len(line) - 1))

\* encode_* and the decoders agree on every field, at its width and offset.
FieldsSurvive == current.reread = current.fields

\* Whatever the verdict, the receiver is told once of a frame that reaches it
\* in step, under its own kind and, if verified, with its own payload, even
\* when the payload contains the sync byte. The host acts on the kind of
\* unverified frames (PONG and END), so this is what keeps it going.
ReadsKind ==
    CleanlyReceived =>
        \E r \in DOMAIN got :
            /\ got[r] \in {BadCrc(current.kind), Frame(current.kind, current.payload)}
            /\ \A i \in DOMAIN got \ {r} : got[i] = Garbage

\* The parser is in step again after such a frame, unless the frame's check
\* byte happens to be the sync byte: then it waits for the length of a frame
\* that is not coming.
InStep ==
    CleanlyReceived =>
        \/ buf = <<>>
        \/ buf = <<SYNC>> /\ current.wire[Len(current.wire)] = SYNC

\* "FrameParser that resyncs on garbage" over "[0x7E] [len] [kind] [payload]
\* [crc8]", lib.rs:4-7, and its test encode_decode_sensor_roundtrip,
\* lib.rs:303-326: a frame put in whole comes out verified, and nothing else does.
RoundTrip ==
    CleanlyReceived => got = <<Frame(current.kind, current.payload)>>
=============================================================================
