------------------------------ MODULE FlexFec ------------------------------
(***************************************************************************)
(* Forward error correction from end to end: the matrix a closed window of *)
(* segments is laid out in (fec/flex_fec_sender.c), what each FEC packet   *)
(* is the xor of (fec/flex_fec_xor.c), and the receiver that rebuilds      *)
(* segments from it (sim_fec.c, fec/flex_fec_receiver.c).                  *)
(*                                                                         *)
(* A segment is its packet id and the contents of a FEC packet are the set *)
(* of the ids xor-ed into it, so that xor is the symmetric difference.     *)
(* When a window opens and closes is SimSender's subject: here a window is *)
(* a number of segments and a protection fraction out of Plans.  A segment *)
(* keeps the time it was put at (seg->timestamp), a FEC packet goes by the *)
(* time the pacer lets it out, when its send_ts is stamped again.          *)
(* Segments and FEC packets of one stream arrive in any order, late or     *)
(* never; only FEC packets can arrive twice, as sim_receiver_internal_put  *)
(* refuses the second copy of a segment.  Fec ids do not wrap within a     *)
(* behaviour.                                                              *)
(***************************************************************************)
EXTENDS Integers, Sequences, FiniteSets, FiniteSetsExt

CONSTANTS
    Plans,       \* pairs: segments of a window, s->loss_fraction
    MaxSegments, \* bound: segments of a behaviour
    MatrixMin,   \* segments from which a window is a matrix (6)
    MaxSpan,     \* time a window may stay open, FEC_REPAIR_WINDOW * 4 (2000 ms)
    MaxWait,     \* time the pacer may hold a FEC packet (MAX_PACE_QUEUE_DELAY, 300 ms)
    EvictDelay,  \* EVICT_FEC_DELAY, 3000 ms
    MaxLeft,     \* bound: segments of a window that was abandoned
    Gaps         \* times from one window's end to the next one's

ASSUME FecAssumption ==
    /\ Plans \subseteq (1 .. 100) \X (0 .. 255)  \* a window of 100 closes at once
    /\ {MaxSegments, MatrixMin, MaxSpan, MaxWait, EvictDelay, MaxLeft} \union Gaps \subseteq Nat
    /\ MaxSpan + MaxWait < EvictDelay

VARIABLES
    now,      \* the sender's clock at the latest window
    windows,  \* closed windows, by fec_id
    ts,       \* seg->timestamp, by packet id
    got,      \* packet ids sim_receiver_internal_put took
    refused,  \* history: rebuilt packets it refused
    segs,     \* segs_cache: packet ids
    flexes,   \* fec_id -> [ts: fec_ts, segs: pointers to segments, fecs: index -> contents]
    rebuilt,  \* recover_packets: symmetric differences of packet ids
    max_ts

stream == <<now, windows, ts>>
vars   == <<now, windows, ts, got, refused, segs, flexes, rebuilt, max_ts>>

-----------------------------------------------------------------------------
(* Layout of a window *)

CeilDiv(a, b) == (a + b - 1) \div b

SquareRoot(n) == CHOOSE c \in 0 .. n : c * c <= n /\ (c + 1) * (c + 1) > n

Within(lo, x, hi) == IF x < lo THEN lo ELSE IF x > hi THEN hi ELSE x

\* FEC_LOSS_THROLD: rows and columns, or rows alone
IsMatrix(n, fraction) == fraction >= 10 /\ n >= MatrixMin

\* The column of the matrix as first computed: the root of n, rounded up when
\* its fraction is above 0.1.
RootColumns(n) ==
    LET c == SquareRoot(n)
    IN  Within(3, IF (10 * c + 1) * (10 * c + 1) < 100 * n THEN c + 1 ELSE c, 20)

MatrixShape(n) ==
    LET rows == CeilDiv(n, RootColumns(n))
    IN  [row |-> rows, col |-> CeilDiv(n, rows)]

RowShape(n, fraction) ==
    LET packets == (n * fraction + 128) \div 256
        cols == IF packets = 0 THEN n ELSE CeilDiv(n, packets)
    IN  IF fraction = 0 THEN [row |-> 0, col |-> 0]
        ELSE [row |-> IF packets = 0 THEN 1 ELSE CeilDiv(n, cols), col |-> cols]

\* flex_fec_sender_num_packets
Shape(n, fraction) ==
    IF IsMatrix(n, fraction) THEN MatrixShape(n) ELSE RowShape(n, fraction)

ColumnBit == 128

\* What flex_fec_sender_update xors into each FEC packet of a window; a line
\* of one segment gets none (flex_fec_generate).
RowContents(w) ==
    [r \in 0 .. w.row - 1 |->
        {w.base + i : i \in r * w.col .. Min({(r + 1) * w.col, w.count}) - 1}]

ColumnContents(w) ==
    [c \in ColumnBit .. ColumnBit + w.col - 1 |->
        {w.base + i : i \in {j \in 0 .. w.count - 1 : j % w.col = c - ColumnBit}}]

WorthFec(packets) == Cardinality(packets) > 1

HasColumns(w) == w.row > 1 /\ w.matrix

\* index -> packet ids xor-ed into that FEC packet
Packets(w) ==
    LET rows == RowContents(w)
        cols == ColumnContents(w)
        all == DOMAIN rows \union (IF HasColumns(w) THEN DOMAIN cols ELSE {})
        contents == [x \in all |-> IF x < ColumnBit THEN rows[x] ELSE cols[x]]
        made == {x \in all : w.col > 1 /\ WorthFec(contents[x])}
    IN  [x \in made |-> contents[x]]

-----------------------------------------------------------------------------
(* The stream *)

Init ==
    /\ now = 0 /\ windows = << >> /\ ts = << >>
    /\ got = {} /\ refused = {}
    /\ segs = {} /\ flexes = << >> /\ rebuilt = {} /\ max_ts = 0

\* When the FEC packets of a window that closes at end may be sent: in the order
\* of their send ids, behind those of the windows before, and none held for
\* longer than MaxWait (sim_sender.c:96-127).
Sendings(fecs, end) ==
    {sent \in [fecs -> end .. end + MaxWait] :
        \A x \in fecs :
            /\ \A y \in fecs : x < y => sent[x] <= sent[y]
            /\ \A id \in DOMAIN windows : \A y \in DOMAIN windows[id].fecs :
                   windows[id].sent[y] <= sent[x]}

\* sim_sender_put and flex_fec_sender_update: a window of n segments closes, gap
\* after the one before it; the first of them was put age ago.  Its fec_id is
\* its place in windows.  Before it left segments had opened a window with the
\* same fec_id that was given up for its age (flex_fec_sender_add_segment).
CloseWindow(n, fraction, age, gap, left) ==
    LET end == now + gap
        w == [first |-> Len(ts) + 1, base |-> Len(ts) + 1 + left, count |-> n,
              row |-> Shape(n, fraction).row, col |-> Shape(n, fraction).col,
              matrix |-> IsMatrix(n, fraction)]
        fecs == Packets(w)
    IN  /\ age <= gap
        /\ left > 0 => now + MaxSpan < end - age
        /\ Len(ts) + left + n <= MaxSegments
        /\ \E sent \in Sendings(DOMAIN fecs, end) :
               windows' = Append(windows, [first |-> w.first, base |-> w.base, count |-> n,
                                           row |-> w.row, col |-> w.col, matrix |-> w.matrix,
                                           fecs |-> fecs, sent |-> sent])
        /\ ts' = ts \o [i \in 1 .. left + n |-> IF i <= left THEN now
                                                ELSE IF i < left + n THEN end - age ELSE end]
        /\ now' = end
        /\ UNCHANGED <<got, refused, segs, flexes, rebuilt, max_ts>>

-----------------------------------------------------------------------------
(* One window at the receiver *)

InWindow(id) == {p \in DOMAIN ts : windows[id].base <= p
                                 /\ p < windows[id].base + windows[id].count}

\* The packets that carry a fec_id, those of an abandoned window included.
Labelled(id) == {p \in DOMAIN ts : windows[id].first <= p
                                 /\ p < windows[id].base + windows[id].count}

\* seg->fec_id
FecId(p) == CHOOSE id \in DOMAIN windows : p \in Labelled(id)

LineOfNeighbours(id, index) ==
    LET w == windows[id]
        places == IF index < ColumnBit
                  THEN {index * w.col + i : i \in 0 .. w.col - 1}
                  ELSE {i + index - ColumnBit : i \in 0 .. w.row - 1}
    IN  {w.base + i : i \in places} \intersect InWindow(id)

\* The packets of a line, as flex_recover_row and flex_recover_col count them
\* from base_id, col and row of the FEC packet that opened the window.
Line(id, index) ==
    LET w == windows[id]
        places == IF index < ColumnBit
                  THEN {index * w.col + i : i \in 0 .. w.col - 1}
                  ELSE {i * w.col + index - ColumnBit : i \in 0 .. w.row - 1}
    IN  {w.base + i : i \in places} \intersect InWindow(id)

SymmetricDifference(S, T) == (S \ T) \union (T \ S)

\* Exactly one packet of the line is missing, and its FEC packet is there.
FecReady(flex, id, index) ==
    LET present == Line(id, index) \intersect flex.segs
    IN  /\ Cardinality(flex.segs) < windows[id].count
        /\ index \in DOMAIN flex.fecs
        /\ present # {}
        /\ Cardinality(Line(id, index) \ present) = 1

\* flex_recover_row, flex_recover_col, flex_fec_recover: what comes out of
\* these lines.
Recovered(flex, id, indexes) ==
    {SymmetricDifference(flex.fecs[x], Line(id, x) \intersect flex.segs) :
        x \in {y \in indexes : FecReady(flex, id, y)}}

RowOf(id, p) == {(p - windows[id].base) \div windows[id].col}

\* Row and column of packet p
LinesOf(id, p) ==
    LET i == p - windows[id].base
    IN  {i \div windows[id].col, ColumnBit + (i % windows[id].col)}

Full(flex, id) == Cardinality(flex.segs) >= windows[id].count

Drop(f, gone) == [x \in DOMAIN f \ gone |-> f[x]]

\* sim_fec_evict_segment for these windows
Evicted(ids) == UNION {InWindow(id) : id \in ids}

\* sim_fec_put_segment for a packet that internal_put took; before are the
\* packets rebuilt and not handled yet.  flex_fec_receiver_on_segment takes none
\* that lies below the window's base_id.
PutSegment(p, before) ==
    LET id == FecId(p)
        taken == {p} \intersect InWindow(id)
        flex == [flexes[id] EXCEPT !.segs = @ \union taken]
    IN  IF p \in segs THEN rebuilt' = before /\ UNCHANGED <<segs, flexes, max_ts>>
        ELSE /\ max_ts' = Max({ts[p], max_ts})
             /\ IF id \notin DOMAIN flexes
                THEN /\ segs' = segs \union {p}
                     /\ rebuilt' = before
                     /\ UNCHANGED flexes
                ELSE /\ rebuilt' = before \union UNION {Recovered(flex, id, LinesOf(id, q)) : q \in taken}
                     /\ IF Full(flex, id)
                        THEN /\ segs' = (segs \union {p}) \ Evicted({id})
                             /\ flexes' = Drop(flexes, {id})
                        ELSE /\ segs' = segs \union {p}
                             /\ flexes' = [flexes EXCEPT ![id] = flex]

-----------------------------------------------------------------------------
(* The receiver *)

\* sim_receiver_put: a segment arrives that internal_put takes.  One it refuses
\* changes nothing here.
ReceiveSegment(p) ==
    /\ rebuilt = {}
    /\ p \notin got
    /\ got' = got \union {p}
    /\ PutSegment(p, {})
    /\ UNCHANGED <<stream, refused>>

OpenedEmpty(id, index) == [ts |-> windows[id].sent[index], segs |-> {}, fecs |-> << >>]

\* flex_fec_receiver_active and sim_fec_add_segment_to_flex: a window opens with
\* the cached segments of its range.
Opened(id, index) ==
    [ts |-> windows[id].sent[index], segs |-> segs \intersect InWindow(id), fecs |-> << >>]

TooLate(id, index) == windows[id].sent[index] + EvictDelay < max_ts

\* sim_fec_put_fec_packet with flex_fec_receiver_on_fec
ReceiveFec(id, index) ==
    LET flex == IF id \in DOMAIN flexes THEN flexes[id] ELSE Opened(id, index)
        contents == windows[id].fecs[index]
        more == [flex EXCEPT !.fecs = [x \in DOMAIN @ \union {index} |->
                                          IF x = index THEN contents ELSE @[x]]]
    IN  /\ rebuilt = {}
        /\ ~TooLate(id, index)
        /\ index \notin DOMAIN flex.fecs
        /\ flexes' = [x \in DOMAIN flexes \union {id} |-> IF x = id THEN more ELSE flexes[x]]
        /\ rebuilt' = Recovered(more, id, {index})
        /\ UNCHANGED <<stream, got, refused, segs, max_ts>>

\* One round of sim_receiver_recover: the packet rebuilt goes through
\* internal_put like any other, and may complete further lines.
Recover ==
    \E r \in rebuilt :
        \E p \in r :
            \/ /\ p \in DOMAIN ts
               /\ p \notin got
               /\ got' = got \union {p}
               /\ PutSegment(p, rebuilt \ {r})
               /\ UNCHANGED refused
            \/ /\ refused' = refused \union {p}
               /\ rebuilt' = rebuilt \ {r}
               /\ UNCHANGED <<got, segs, flexes, max_ts>>
    /\ UNCHANGED stream

LeadingOne(S, expired) == {x \in expired : \A y \in S : x <= y}

\* The members of S, from the least one on, that a walk removes.
Leading(S, expired) == {x \in S : \A y \in S : y <= x => y \in expired}

Expired(id) == flexes[id].ts + EvictDelay <= max_ts

\* sim_fec_evict, by sim_receiver_timer at most every 300 ms
Evict ==
    LET ended == Leading(DOMAIN flexes,
                         {id \in DOMAIN flexes : Expired(id) \/ Full(flexes[id], id)})
        kept == segs \ Evicted(ended)
    IN  /\ rebuilt = {}
        /\ flexes' = Drop(flexes, ended)
        /\ segs' = kept \ Leading(kept, {p \in kept : ts[p] + 2 * EvictDelay < max_ts})
        /\ UNCHANGED <<stream, got, refused, rebuilt, max_ts>>

\* sim_fec_reset, with the stream that starts afresh at the sender.
Reset ==
    /\ rebuilt = {}
    /\ windows # << >>
    /\ now' = 0 /\ windows' = << >> /\ ts' = << >>
    /\ got' = {} /\ refused' = {}
    /\ segs' = {} /\ flexes' = << >> /\ rebuilt' = {} /\ max_ts' = 0

Next ==
    \/ \E plan \in Plans, age \in 0 .. MaxSpan, gap \in Gaps, left \in 0 .. MaxLeft :
           CloseWindow(plan[1], plan[2], age, gap, left)
    \/ \E p \in DOMAIN ts : ReceiveSegment(p)
    \/ \E id \in DOMAIN windows : \E index \in DOMAIN windows[id].fecs : ReceiveFec(id, index)
    \/ Recover
    \/ Evict
    \/ Reset

Spec == Init /\ [][Next]_vars

-----------------------------------------------------------------------------
(* Properties *)

TypeOK ==
    /\ {now, max_ts} \subseteq Nat
    /\ ts \in Seq(Nat) /\ windows \in Seq({windows[id] : id \in DOMAIN windows})
    /\ got \subseteq DOMAIN ts /\ segs \subseteq got
    /\ DOMAIN flexes \subseteq DOMAIN windows
    /\ flexes = [id \in DOMAIN flexes |->
                    [ts |-> flexes[id].ts, segs |-> flexes[id].segs,
                     fecs |-> [x \in DOMAIN flexes[id].fecs |-> windows[id].fecs[x]]]]
    /\ \A id \in DOMAIN flexes :
           /\ flexes[id].segs \subseteq InWindow(id)
           /\ DOMAIN flexes[id].fecs \subseteq DOMAIN windows[id].fecs
           /\ \E x \in DOMAIN windows[id].fecs : flexes[id].ts = windows[id].sent[x]

\* The windows share the stream out in its order, their FEC packets are sent in
\* that order, and no packet is older than MaxSpan + MaxWait when one is sent.
WindowsFit ==
    /\ \A id \in DOMAIN windows :
           /\ {windows[id].first, windows[id].base, windows[id].count} \subseteq Nat \ {0}
           /\ windows[id].first <= windows[id].base
           /\ windows[id].base + windows[id].count <= Len(ts) + 1
           /\ \A x \in DOMAIN windows[id].fecs :
                  /\ windows[id].sent[x] \in Nat
                  /\ \A p \in InWindow(id) : ts[p] + MaxSpan + MaxWait >= windows[id].sent[x]
    /\ \A i, j \in DOMAIN windows :
           i < j => /\ windows[i].base + windows[i].count <= windows[j].first
                    /\ \A x \in DOMAIN windows[i].fecs, y \in DOMAIN windows[j].fecs :
                           windows[i].sent[x] <= windows[j].sent[y]
    /\ \A p \in DOMAIN ts : \E id \in DOMAIN windows : p \in Labelled(id)

\* The line the receiver counts is the line the sender xor-ed, and a packet is
\* looked for in the lines it is part of.
LinesFit ==
    \A id \in DOMAIN windows : \A x \in DOMAIN windows[id].fecs :
        /\ windows[id].fecs[x] = Line(id, x)
        /\ \A p \in Line(id, x) : x \in LinesOf(id, p)

\* What the receiver rebuilds (flex_fec_xor.c:55) is one packet of the stream,
\* not the xor of several: sender and receiver lay out the same matrix.
RebuiltIsGenuine == \A r \in rebuilt : Cardinality(r) = 1 /\ r \subseteq DOMAIN ts

\* A window points to segments segs_cache still owns (sim_fec.c:196), and to
\* all of them in its range: none is freed under it by age or by the end of
\* another window, and none is missed because it came before the FEC packet.
WindowSeesCache == \A id \in DOMAIN flexes : flexes[id].segs = segs \intersect InWindow(id)

\* The caches and the windows of the receiver fit together, between any two calls.
CachesAgree == TypeOK /\ WindowsFit /\ LinesFit /\ WindowSeesCache

\* A packet that a window could rebuild is there, was refused or waits to be
\* handed on: whatever order segments and FEC packets come in, and however one
\* packet rebuilt makes another possible, none is left over between two calls,
\* when nothing waits (sim_fec.c:171-207, sim_receiver.c:782-806).
NothingMissed ==
    \A id \in DOMAIN flexes : \A x \in DOMAIN flexes[id].fecs :
        FecReady(flexes[id], id, x)
            => Line(id, x) \ flexes[id].segs \subseteq got \union refused \union UNION rebuilt

\* The timer leaves no window that is out of date (sim_fec.c:222), although its
\* walk stops at the first that is not.
NoneOutlivesTimer ==
    [][Evict => \A id \in DOMAIN flexes' : flexes'[id].ts + EvictDelay > max_ts]_vars
=============================================================================
