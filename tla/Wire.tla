-------------------------------- MODULE Wire --------------------------------
(* The wire protocol of src/shared/src/lib.rs with its own numbers: the      *)
(* bytes 0..255, the sync byte 0x7E, the CRC-8/ATM check sum, the frame      *)
(* kinds, and the payloads of each kind. Integers in payloads are little-    *)
(* endian and keep their width.                                              *)
EXTENDS Integers, Sequences

SYNC == 126
MAX_PAYLOAD == 16

K_START == 1
K_PING == 2
K_ABORT == 3
K_SENSOR == 128
K_FAULT == 129
K_END == 130
K_PONG == 131

FAULT_BITFLIP == 1
FAULT_BYTE == 2
FAULT_DROP == 3
FAULT_DELAY == 4
FAULT_REPLAY == 5
FAULT_BURST == 6
FAULT_DUTY == 7
N_FAULT_KINDS == 7

START_PAYLOAD_LEN == 15
FAULT_PAYLOAD_LEN == 7

-----------------------------------------------------------------------------
\* Bitwise exclusive or of two bytes.
Xor(a, b) ==
    LET bit(w) == w * (((a \div w) + (b \div w)) % 2)
    IN  bit(1) + bit(2) + bit(4) + bit(8) + bit(16) + bit(32) + bit(64) + bit(128)

\* One bit of the division by x^8 + x^2 + x + 1, most significant bit first.
ShiftCrc(c) == IF c >= 128 THEN Xor((2 * c) % 256, 7) ELSE 2 * c

\* A byte after the shift of its eight bits.
CrcOfByte ==
    LET two(c)  == ShiftCrc(ShiftCrc(c))
        four(c) == two(two(c))
    IN  [b \in 0..255 |-> four(four(b))]

\* Mutant of crc8: the sum of the bytes before is not fed back.
crc8LastByteOnly(data) == IF data = <<>> THEN 0 ELSE CrcOfByte[data[Len(data)]]

\* CRC-8/ATM: 244 for the bytes of "123456789", as the test at lib.rs:297 says.
crc8(data) ==
    LET crc[n \in 0..Len(data)] ==
            IF n = 0 THEN 0 ELSE CrcOfByte[Xor(crc[n - 1], data[n])]
    IN  crc[Len(data)]

INSTANCE FrameOps WITH Byte <- 0..255

-----------------------------------------------------------------------------
\* The byte of v above the k-th byte: (v >> 8k) as u8, with w = 256^k.
ByteAt(v, w) == (v \div w) % 256

put_u16(v) == <<ByteAt(v, 1), ByteAt(v, 256)>>
put_u32(v) == <<ByteAt(v, 1), ByteAt(v, 256), ByteAt(v, 65536), ByteAt(v, 16777216)>>

\* Mutant of get_u16: the bytes taken the other way round.
get_u16Swapped(d, o) == 256 * d[o + 1] + d[o + 2]

\* Offsets count from 0, as in the code.
get_u16(d, o) == d[o + 1] + 256 * d[o + 2]
get_u32(d, o) ==
    d[o + 1] + 256 * d[o + 2] + 65536 * d[o + 3] + 16777216 * d[o + 4]

-----------------------------------------------------------------------------
\* Host to injector. A CampaignConfig is [seed, packets, cadence_ms, weights].

encode_start(cfg) ==
    encode(K_START, put_u32(cfg.seed) \o put_u16(cfg.packets)
                      \o put_u16(cfg.cadence_ms) \o cfg.weights)
encode_ping == encode(K_PING, <<>>)
encode_abort == encode(K_ABORT, <<>>)

\* Option::None, of a decoder that finds the payload too short.
None == [none |-> TRUE]

decode_start(p) ==
    IF Len(p) < START_PAYLOAD_LEN
    THEN None
    ELSE [seed |-> get_u32(p, 0), packets |-> get_u16(p, 4),
          cadence_ms |-> get_u16(p, 6), weights |-> SubSeq(p, 9, 8 + N_FAULT_KINDS)]

-----------------------------------------------------------------------------
\* Injector to host.

encode_sensor(seq, value, fault_id) ==
    encode(K_SENSOR, put_u16(seq) \o put_u32(value) \o put_u32(fault_id))
encode_fault_event(fault_id, kind, at_seq) ==
    encode(K_FAULT, put_u32(fault_id) \o <<kind>> \o put_u16(at_seq))
encode_end(packets, faults) ==
    encode(K_END, put_u16(packets) \o put_u32(faults))
encode_pong == encode(K_PONG, <<>>)

\* GroundTruth::from_payload: how the host reads the payload of a FAULT frame.
from_payload(p) ==
    IF Len(p) < FAULT_PAYLOAD_LEN
    THEN None
    ELSE [fault_id |-> get_u32(p, 0), kind |-> p[5], at_seq |-> get_u16(p, 5)]
=============================================================================
