------------------------------ MODULE SimProto ------------------------------
(***************************************************************************)
(* The messages between two sessions (sim_transport/sim_proto.c and        *)
(* sim_proto.inl): one stream each end writes every message to and one it  *)
(* receives into (sim_transport/sim_session.c:67 and 325), and a network   *)
(* that may damage a datagram or cut it short.                             *)
(*                                                                         *)
(* A field a message does not carry (send_id of a segment) is left out of  *)
(* its record.  Field values stay below 2^31.                              *)
(***************************************************************************)
EXTENDS Crc32, BinStream

CONSTANTS
    Messages,           \* what the sessions send: [mid, uid, and the body]
    SIM_VIDEO_SIZE,     \* bytes of a segment's data: 1000
    SIM_TOKEN_SIZE,     \* 128
    SIM_FEEDBACK_SIZE,  \* 1000
    PADDING_DATA_SIZE,  \* 500
    NACK_NUM,           \* numbers in an acknowledgement: 20
    RecvSize,           \* what a receive stream is resized to: 1500
    Damages,            \* the bytes damage may leave
    DamageUpTo,         \* only datagrams of at most as many bytes are damaged
    MaxSends,           \* bound of the messages sent
    MaxFaults           \* bound of the datagrams damaged or cut

ASSUME SimProtoAssumption ==
    {SIM_VIDEO_SIZE, SIM_TOKEN_SIZE, SIM_FEEDBACK_SIZE, PADDING_DATA_SIZE, NACK_NUM,
     RecvSize, DamageUpTo, MaxSends, MaxFaults} \subseteq Nat

LOCAL SO == INSTANCE SequencesExt

VARIABLES
    sstrm,      \* the sender's stream
    rstrm,      \* the receiver's stream
    net,        \* datagrams on their way: [bytes], and history: [sent, intact]
    got,        \* the last datagram: what it was taken for, and history: what was sent
    sends, faults

vars == <<sstrm, rstrm, net, got, sends, faults>>

SIM_HEADER_SIZE == 6
U8_MAX  == 255
U16_MAX == 65535
\* 0x0e3dfc0a
CRC_VAL == {1, 3, 10, 11, 12, 13, 14, 15, 16, 18, 19, 20, 21, 25, 26, 27}

protocol_ver == 1
Mids == <<"SIM_CONNECT", "SIM_CONNECT_ACK", "SIM_DISCONNECT", "SIM_DISCONNECT_ACK", "SIM_PING", "SIM_PONG",
          "SIM_SEG", "SIM_SEG_ACK", "SIM_FEEDBACK", "SIM_FIR", "SIM_PAD", "SIM_FEC">>
MIN_MSG_ID == 16
MidOf(mid) == MIN_MSG_ID + (CHOOSE i \in DOMAIN Mids : Mids[i] = mid)

----------------------------------------------------------------------------
(* Encoding.                                                               *)

\* The mask of a segment, bit 0 and bits 4 to 7.
Mask(m) ==
    (m.ftype % 2) + (IF m.packet_id > U16_MAX THEN 128 ELSE 0) + (IF m.fid > U16_MAX THEN 64 ELSE 0)
                + (IF m.total > U8_MAX THEN 32 ELSE 0) + (IF m.remb = 0 THEN 16 ELSE 0)

Short(v)        == IF v > U16_MAX THEN U32(v) ELSE U16(v)
PartByValue(total, v) == IF v > U8_MAX THEN U16(v) ELSE U8(v)
Part(total, v)        == IF total > U8_MAX THEN U16(v) ELSE U8(v)

ConnectBytes(m)    == U32(m.cid) \o Data(m.token) \o U8(m.cc_type)
ConnectAckBytes(m) == U32(m.cid) \o U32(m.result)
DisconnectBytes(m) == U32(m.cid)
PingBytes(m)       == I64(m.ts)
FeedbackBytes(m)   == U32(m.base_packet_id) \o Data(m.feedback)
FirBytes(m)        == U32(m.fir_seq)
PadBytes(m)        == U32(m.send_ts) \o U16(m.transport_seq) \o Data(m.data)

SegmentBytes(m) ==
    U8(Mask(m)) \o U8(m.payload_type) \o Short(m.packet_id) \o Short(m.fid) \o U32(m.timestamp)
        \o Part(m.total, m.index) \o Part(m.total, m.total)
        \o U16(m.fec_id) \o U16(m.send_ts) \o U16(m.transport_seq) \o Data(m.data)

Numbers(s) == U8(Len(s)) \o SO!FlattenSeq([i \in DOMAIN s |-> U16(s[i])])
AckBytes(m) == U32(m.base_packet_id) \o U32(m.acked_packet_id) \o Numbers(m.nack) \o Numbers(m.acked)

MetaBytes(f) ==
    U32(f.seq) \o U32(f.fid) \o U32(f.ts) \o U16(f.index) \o U16(f.total) \o U8(f.ftype)
        \o U8(f.payload_type) \o U16(f.size)
FecBytes(m) ==
    U16(m.fec_id) \o U8(m.row) \o U8(m.col) \o U8(m.index) \o U16(m.count) \o U32(m.base_id)
        \o U16(m.transport_seq) \o U32(m.send_ts) \o MetaBytes(m.fec_meta) \o Data(m.fec_data)

BodyBytes(m) ==
    CASE m.mid = "SIM_CONNECT" -> ConnectBytes(m)
      [] m.mid \in {"SIM_CONNECT_ACK", "SIM_DISCONNECT_ACK"} -> ConnectAckBytes(m)
      [] m.mid = "SIM_DISCONNECT" -> DisconnectBytes(m)
      [] m.mid \in {"SIM_PING", "SIM_PONG"} -> PingBytes(m)
      [] m.mid = "SIM_SEG" -> SegmentBytes(m)
      [] m.mid = "SIM_SEG_ACK" -> AckBytes(m)
      [] m.mid = "SIM_FEEDBACK" -> FeedbackBytes(m)
      [] m.mid = "SIM_FIR" -> FirBytes(m)
      [] m.mid = "SIM_PAD" -> PadBytes(m)
      [] m.mid = "SIM_FEC" -> FecBytes(m)

\* What is taken of a datagram that is refused.
Nothing == [mid |-> "none"]

HeaderBytes(m) == U8(protocol_ver) \o U8(MidOf(m.mid)) \o U32(m.uid)

CrcBytes(bytes) ==
    LET crc == crc32(CRC_VAL, bytes)
    IN  <<ByteAt(crc, 24), ByteAt(crc, 16), ByteAt(crc, 8), ByteAt(crc, 0)>>

Written(strm) == SubSeq(strm.data, 1, strm.used)

\* sim_encode_msg
Encode(strm, m) ==
    LET body == Write(Rewind(strm), HeaderBytes(m) \o BodyBytes(m))
    IN  Write(body, CrcBytes(Written(body)))

----------------------------------------------------------------------------
(* Decoding.                                                               *)

HasBit(mask, bit) == (mask \div 2 ^ bit) % 2 = 1

ReadConnect(r)    == Read(ReadData(Read(r, "cid", 4), "token", SIM_TOKEN_SIZE), "cc_type", 1)
ReadConnectAck(r) == ReadAll(r, <<<<"cid", 4>>, <<"result", 4>>>>)
ReadDisconnect(r) == Read(r, "cid", 4)
ReadPing(r)       == Read(r, "ts", 8)
ReadFeedback(r)   == ReadData(Read(r, "base_packet_id", 4), "feedback", SIM_FEEDBACK_SIZE)
ReadFir(r)        == Read(r, "fir_seq", 4)
ReadPad(r)        ==
    ReadData(ReadAll(r, <<<<"send_ts", 4>>, <<"transport_seq", 2>>>>), "data", PADDING_DATA_SIZE)

\* sim_segment_decode: the fields by the mask, then what is made of it.
SegmentFields(mask) ==
    LET width == IF HasBit(mask, 5) THEN 2 ELSE 1
    IN  <<<<"payload_type", 1>>, <<"packet_id", IF HasBit(mask, 7) THEN 4 ELSE 2>>,
          <<"fid", IF HasBit(mask, 6) THEN 4 ELSE 2>>, <<"timestamp", 4>>, <<"index", width>>,
          <<"total", width>>, <<"fec_id", 2>>, <<"send_ts", 2>>, <<"transport_seq", 2>>>>

ReadSegment(r) ==
    LET masked == Read(r, "mask", 1)
        mask   == masked.got.mask
        plain  == [r EXCEPT !.strm = masked.strm,
                            !.got = @ @@ [ftype |-> mask % 2, remb |-> IF HasBit(mask, 4) THEN 0 ELSE 255]]
    IN  ReadData(ReadAll(plain, SegmentFields(mask)), "data", SIM_VIDEO_SIZE)

\* A list of at most NACK_NUM numbers behind its length.
Taken(n) == IF n < NACK_NUM THEN n ELSE NACK_NUM
ReadNumbers(r, field) ==
    LET sized == Read([r EXCEPT !.got = <<>>], "num", 1)
        n     == Taken(sized.got.num)
        all   == ReadAll([sized EXCEPT !.got = <<>>], [i \in 1 .. n |-> <<i, 2>>])
    IN  [strm |-> all.strm, got |-> r.got @@ (field :> [i \in 1 .. n |-> all.got[i]])]
ReadAck(r) ==
    ReadNumbers(ReadNumbers(ReadAll(r, <<<<"base_packet_id", 4>>, <<"acked_packet_id", 4>>>>), "nack"), "acked")

ReadMeta(r) ==
    LET meta == ReadAll([r EXCEPT !.got = <<>>],
                        <<<<"seq", 4>>, <<"fid", 4>>, <<"ts", 4>>, <<"index", 2>>, <<"total", 2>>,
                          <<"ftype", 1>>, <<"payload_type", 1>>, <<"size", 2>>>>)
    IN  [strm |-> meta.strm, got |-> r.got @@ ("fec_meta" :> meta.got)]

\* sim_fec_decode, and process_sim_fec, which drops what it refuses.
ReadFec(r) ==
    LET head == ReadAll(r, <<<<"fec_id", 2>>, <<"row", 1>>, <<"col", 1>>, <<"index", 1>>, <<"count", 2>>,
                             <<"base_id", 4>>, <<"transport_seq", 2>>, <<"send_ts", 4>>>>)
        meta == ReadMeta(head)
    IN  IF DataThere(meta, SIM_VIDEO_SIZE) THEN ReadData(meta, "fec_data", SIM_VIDEO_SIZE)
        ELSE [meta EXCEPT !.got = Nothing]

\* sim_decode_msg
ReadBody(r, mid) ==
    CASE mid = "SIM_CONNECT" -> ReadConnect(r)
      [] mid \in {"SIM_CONNECT_ACK", "SIM_DISCONNECT_ACK"} -> ReadConnectAck(r)
      [] mid = "SIM_DISCONNECT" -> ReadDisconnect(r)
      [] mid \in {"SIM_PING", "SIM_PONG"} -> ReadPing(r)
      [] mid = "SIM_SEG" -> ReadSegment(r)
      [] mid = "SIM_SEG_ACK" -> ReadAck(r)
      [] mid = "SIM_FEEDBACK" -> ReadFeedback(r)
      [] mid = "SIM_FIR" -> ReadFir(r)
      [] mid = "SIM_PAD" -> ReadPad(r)
      [] mid = "SIM_FEC" -> ReadFec(r)

\* sim_decode_header: the checksum of all but the last four bytes
CrcHolds(strm) == SubSeq(strm.data, strm.used - 3, strm.used) = CrcBytes(SubSeq(strm.data, 1, strm.used - 4))

\* sim_session_process up to the handler of the message.
Handled(r) ==
    LET mid == r.got.mid - MIN_MSG_ID
    IN  IF mid \in DOMAIN Mids THEN ReadBody([r EXCEPT !.got.mid = Mids[mid]], Mids[mid])
        ELSE [r EXCEPT !.got = Nothing]
Process(strm) ==
    IF CrcHolds(strm) THEN Handled(ReadAll(Reader(strm), <<<<"ver", 1>>, <<"mid", 1>>, <<"uid", 4>>>>))
    ELSE [strm |-> strm, got |-> Nothing]

----------------------------------------------------------------------------
Init ==
    /\ sstrm = NewStream
    /\ rstrm = Resize(NewStream, RecvSize)
    /\ net = {} /\ got = [taken |-> Nothing, sent |-> Nothing, intact |-> FALSE] /\ sends = 0 /\ faults = 0

\* A message is encoded and sent; a report too large for a message is not.  The
\* two streams never meet, so it is enough to send one datagram at a time.
Send(m) ==
    /\ net = {} /\ sends < MaxSends
    /\ m.mid = "SIM_FEEDBACK" => Len(m.feedback) <= SIM_FEEDBACK_SIZE
    /\ sstrm' = Encode(sstrm, m)
    /\ net' = net \union {[bytes |-> Written(sstrm'), sent |-> m, intact |-> TRUE]}
    /\ sends' = sends + 1
    /\ UNCHANGED <<rstrm, got, faults>>

\* The network alters one byte of a datagram, or loses its end.
Damage(d) ==
    /\ d.intact /\ faults < MaxFaults /\ Len(d.bytes) <= DamageUpTo
    /\ \E i \in DOMAIN d.bytes : \E v \in Damages \ {d.bytes[i]} :
           net' = (net \ {d}) \union {[d EXCEPT !.bytes[i] = v, !.intact = FALSE]}
    /\ faults' = faults + 1
    /\ UNCHANGED <<sstrm, rstrm, got, sends>>

Cut(d) ==
    /\ d.intact /\ faults < MaxFaults
    /\ \E n \in 1 .. Len(d.bytes) - 1 :
           net' = (net \ {d}) \union {[d EXCEPT !.bytes = SubSeq(@, 1, n), !.intact = FALSE]}
    /\ faults' = faults + 1
    /\ UNCHANGED <<sstrm, rstrm, got, sends>>

\* A turn of sim_session_loop_event; what is shorter than a header is ignored.
Arrived(strm, bytes) ==
    IF Len(bytes) >= SIM_HEADER_SIZE THEN Process(Fill(strm, bytes)) ELSE [strm |-> strm, got |-> Nothing]
Receive(d) ==
    LET r == Arrived(Rewind(rstrm), d.bytes)
    IN  /\ net' = net \ {d}
        /\ rstrm' = r.strm
        /\ got' = [taken |-> r.got, sent |-> d.sent, intact |-> d.intact]
        /\ UNCHANGED <<sstrm, sends, faults>>

Next ==
    \/ \E m \in Messages : Send(m)
    \/ \E d \in net : Damage(d) \/ Cut(d) \/ Receive(d)

Spec == Init /\ [][Next]_vars

----------------------------------------------------------------------------
(* Properties.                                                             *)

\* What a message means to its receiver: a segment brings one bit of its frame
\* type, and of remb only whether it is 0.
Meant(m) ==
    IF m.mid = "SIM_SEG" THEN [m EXCEPT !.ftype = @ % 2, !.remb = IF @ = 0 THEN 0 ELSE 255] ELSE m
Headed(m) == m @@ [ver |-> protocol_ver]

\* A message that arrives whole is read as it was meant, up to its checksum and
\* no further, whatever the two streams held before, whichever of its fields
\* took two bytes or four; and no buffer is overrun on the way (the encoders
\* and decoders of sim_proto.inl, against each other and the growing stream).
DecodesAsSent ==
    /\ InBounds(sstrm) /\ InBounds(rstrm)
    /\ got.intact => got.taken = Headed(Meant(got.sent)) /\ rstrm.rsize = rstrm.used - 4

\* Of a datagram that lost its end, or one byte of which changed, nothing is
\* taken, although the stream it is read into may still hold the missing bytes
\* from the datagram before (sim_decode_header checks before a field is read).
DamageRefused == ~ got.intact => got.taken = Nothing
=============================================================================
