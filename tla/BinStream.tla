----------------------------- MODULE BinStream -----------------------------
(***************************************************************************)
(* common/cf_stream.c: the byte stream messages are written to and read    *)
(* from.  A stream is kept and used again for one message after the other, *)
(* grows by doubling, and holds what earlier messages left behind the used *)
(* part.  A 32-bit number is an integer of two's complement, a 64-bit one  *)
(* the pair of its halves, the high one first.                             *)
(***************************************************************************)
EXTENDS Integers, Sequences, TLC

CONSTANT
    DEFAULT_PACKET_SIZE     \* bytes of a new stream

ASSUME BinStreamAssumption == DEFAULT_PACKET_SIZE \in Nat \ {0}

LOCAL SO == INSTANCE SequencesExt

\* data is what was ever written: all of it lies in the size bytes allocated.
NewStream == [data |-> <<>>, size |-> DEFAULT_PACKET_SIZE, used |-> 0, rsize |-> 0]

\* A buffer never holds more than was allocated, nor is read past its end.
InBounds(strm) == Len(strm.data) <= strm.size /\ strm.used <= strm.size /\ strm.rsize <= strm.used

\* bin_stream_resize: double until it fits
Doubled(size, n) ==
    CHOOSE s \in {size * 2 ^ k : k \in 0 .. 8} : s >= n /\ (s = size \/ s \div 2 < n)
Resize(strm, new_size) ==
    IF new_size <= strm.size THEN strm ELSE [strm EXCEPT !.size = Doubled(strm.size, new_size)]

\* bin_stream_rewind with reset = 1
Rewind(strm) == [strm EXCEPT !.rsize = 0, !.used = 0]

\* What the network delivers into a stream that was just rewound.
Fill(strm, bytes) ==
    [strm EXCEPT !.data = bytes \o SubSeq(@, Len(bytes) + 1, Len(@)), !.used = Len(bytes)]

\* The bytes mach_put_2 and mach_put_4 store, most significant first.
Put(n, v) == [i \in 1 .. n |-> (v \div 256 ^ (n - i)) % 256]
U8(v)     == Put(1, v)
U16(v)    == Put(2, v)
U32(v)    == Put(4, v)
I64(v)    == Put(4, v[1]) \o Put(4, v[2])
Data(str) == U16(Len(str)) \o str

\* What mach_get_2 and mach_get_4 make of them, and mach_get_8 of its halves.
Get(bytes) ==
    LET top == IF Len(bytes) = 4 /\ bytes[1] > 127 THEN bytes[1] - 256 ELSE bytes[1]
    IN  SO!FoldLeft(LAMBDA v, b : 256 * v + b, top, Tail(bytes))
Number(bytes) ==
    IF Len(bytes) = 8 THEN <<Get(SubSeq(bytes, 1, 4)), Get(SubSeq(bytes, 5, 8))>> ELSE Get(bytes)

\* mach_*_write of one field after the other.
Write(strm, bytes) ==
    LET grown == Resize(strm, strm.used + Len(bytes))
    IN  [grown EXCEPT !.used = @ + Len(bytes),
                      !.data = SubSeq(@, 1, strm.used) \o bytes
                                   \o SubSeq(@, strm.used + Len(bytes) + 1, Len(@))]

\* A reader: the stream, and the fields read so far.
Reader(strm) == [strm |-> strm, got |-> <<>>]

\* mach_uint8_read, mach_uint16_read, mach_uint32_read, mach_int64_read: a
\* field that is not there is zero and moves nothing.
Read(r, field, n) ==
    LET at == r.strm.rsize
    IN  IF r.strm.used < at + n THEN [r EXCEPT !.got = @ @@ (field :> Number([i \in 1 .. n |-> 0]))]
        ELSE [strm |-> [r.strm EXCEPT !.rsize = at + n],
              got  |-> r.got @@ (field :> Number(SubSeq(r.strm.data, at + 1, at + n)))]

\* mach_data_read returns no READ_DATA_ERROR.
DataThere(r, limit) ==
    LET sized == Read([r EXCEPT !.got = <<>>], "len", 2)
    IN  sized.got.len <= limit /\ sized.strm.rsize + sized.got.len <= r.strm.used

\* mach_data_read, and most of its callers, which take READ_DATA_ERROR for no
\* data; the length is consumed all the same.
ReadData(r, field, limit) ==
    LET sized == Read([r EXCEPT !.got = <<>>], "len", 2)
        at    == sized.strm.rsize
        len   == sized.got.len
    IN  IF ~ DataThere(r, limit)
        THEN [strm |-> sized.strm, got |-> r.got @@ (field :> <<>>)]
        ELSE [strm |-> [sized.strm EXCEPT !.rsize = at + len],
              got  |-> r.got @@ (field :> SubSeq(r.strm.data, at + 1, at + len))]

\* Fields <<name, bytes>> in their order.
ReadAll(r, fields) == SO!FoldLeft(LAMBDA acc, f : Read(acc, f[1], f[2]), r, fields)
=============================================================================
