----------------------------- MODULE MCFlexFec -----------------------------
(* An instance of forward error correction for TLC. *)
EXTENDS FlexFec

\* A matrix of two rows and two columns, rows of two and one, a row of two, and
\* a segment without FEC.
MCPlans == {<<4, 10>>, <<3, 200>>, <<2, 64>>, <<1, 0>>}

LayoutOf(n, fraction) ==
    [base |-> 1, count |-> n, matrix |-> IsMatrix(n, fraction),
     row |-> Shape(n, fraction).row, col |-> Shape(n, fraction).col]

\* For every size of a window, the receiver counts in each line (sim_fec's row
\* and column arithmetic) what the sender xors into its FEC packet, a row fits
\* below the bit that marks a column, and a matrix covers every segment.
LayoutSound(n, fraction) ==
    LET w == LayoutOf(n, fraction)
        made == Packets(w)
    IN  /\ w.row < ColumnBit
        /\ w.matrix => UNION {made[x] : x \in DOMAIN made} = 1 .. n
        /\ \A x \in DOMAIN made :
               made[x] = {p \in 1 .. n : IF x < ColumnBit
                                        THEN (p - 1) \div w.col = x
                                        ELSE (p - 1) % w.col = x - ColumnBit}

ASSUME LayoutSoundUpToFecFull ==
    \A n \in 1 .. 100, fraction \in (0 .. 12) \union {64, 128, 200, 255} :
        LayoutSound(n, fraction)
=============================================================================
