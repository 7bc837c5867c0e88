----------------------------- MODULE MCSimProto -----------------------------
(***************************************************************************)
(* An instance of SimProto: every kind of message, with the values on both *)
(* sides of where a field grows, data of no byte to as many as fit, and    *)
(* streams small enough to grow.                                           *)
(***************************************************************************)
EXTENDS SimProto

Bytes(n)   == [i \in 1 .. n |-> 250 + i]
Strings(n) == {<<>>, Bytes(n)}

Segment == [mid |-> "SIM_SEG", uid |-> 70000, packet_id |-> 65535, fid |-> 65535, timestamp |-> 100000,
            index |-> 0, total |-> 255, ftype |-> 1, payload_type |-> 7, remb |-> 1, fec_id |-> 513,
            send_ts |-> 65535, transport_seq |-> 256, data |-> <<>>]

Segments == {[Segment EXCEPT !.packet_id = i[1], !.fid = i[2], !.total = t, !.index = t - 1, !.ftype = y[1],
                             !.remb = y[2], !.data = Bytes(SIM_VIDEO_SIZE)] :
                 i \in {<<65535, 65536>>, <<65536, 65535>>}, t \in {255, 256},
                 y \in {<<0, 1>>, <<3, 0>>}}

Acks == {[mid |-> "SIM_SEG_ACK", uid |-> 1, base_packet_id |-> 65536, acked_packet_id |-> 65540,
          nack |-> [i \in 1 .. n |-> 256 * i], acked |-> [i \in 1 .. a |-> 65535]] :
             n \in {0, NACK_NUM}, a \in {0, NACK_NUM}}

Meta == [seq |-> 65536, fid |-> 3, ts |-> 100000, index |-> 1, total |-> 300, ftype |-> 1,
         payload_type |-> 9, size |-> 1000]

Fecs == {[mid |-> "SIM_FEC", uid |-> 1, fec_id |-> 65535, row |-> 3, col |-> 255, index |-> 129, count |-> 300,
          base_id |-> 65536, transport_seq |-> 65535, send_ts |-> 100000, fec_meta |-> Meta, fec_data |-> d] :
             d \in Strings(SIM_VIDEO_SIZE)}

Signals == {[mid |-> "SIM_CONNECT", uid |-> 1, cid |-> 2000000000, token |-> <<>>, cc_type |-> 2],
            [mid |-> "SIM_CONNECT_ACK", uid |-> 1, cid |-> 2000000000, result |-> 0],
            [mid |-> "SIM_DISCONNECT_ACK", uid |-> 1, cid |-> 5, result |-> 0],
            [mid |-> "SIM_DISCONNECT", uid |-> 1, cid |-> 65536],
            [mid |-> "SIM_PING", uid |-> 1, ts |-> <<404, -65536>>],
            [mid |-> "SIM_PONG", uid |-> 1, ts |-> <<256, 255>>],
            [mid |-> "SIM_FIR", uid |-> 1, fir_seq |-> 256]}

Reports == {[mid |-> "SIM_FEEDBACK", uid |-> 1, base_packet_id |-> 65535, feedback |-> d] :
                d \in Strings(SIM_FEEDBACK_SIZE) \union Strings(SIM_FEEDBACK_SIZE + 1)}

Pads == {[mid |-> "SIM_PAD", uid |-> 1, send_ts |-> 100000, transport_seq |-> 65535,
          data |-> Bytes(PADDING_DATA_SIZE)]}

MCMessages == Segments \union Acks \union Fecs \union Signals \union Reports \union Pads
=============================================================================
