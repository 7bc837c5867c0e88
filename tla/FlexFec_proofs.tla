--------------------------- MODULE FlexFec_proofs ---------------------------
(***************************************************************************)
(* Proofs about forward error correction, for windows of 1 to 100 segments *)
(* and any number of them.  The first part is arithmetic: the rows and     *)
(* columns the sender xors are those the receiver counts.  The second      *)
(* shows that CachesAgree, RebuiltIsGenuine and NothingMissed together are *)
(* inductive.                                                              *)
(***************************************************************************)
EXTENDS FlexFec, FiniteSetTheorems, WellFoundedInduction, TLAPS

-----------------------------------------------------------------------------
(* Layout of a window: what the sender xors is what the receiver counts *)

\* A nonempty set of naturals has a least element: the library says so for a
\* predicate, which is no use to a first-order prover.
LEMMA LeastNat ==
    ASSUME NEW T \in SUBSET Nat, T # {}
    PROVE  \E x \in T : \A y \in T : x <= y
<1> DEFINE Less == {ss \in Nat \X Nat : ss[1] < ss[2]}
<1>1. IsWellFoundedOn(Less, Nat)
  BY NatLessThanWellFounded DEF OpToRel
<1>2. PICK x \in T : \A y \in T : ~(<<y, x>> \in Less)
  <2> HIDE DEF Less
  <2> QED BY <1>1, WFMin
<1>3. \A y \in T : ~(y < x)
  BY <1>2
<1> QED BY <1>3

\* Division with rest, for a divisor that is not a literal.
LEMMA DivMod ==
    ASSUME NEW a \in Int, NEW b \in Int, b > 0
    PROVE  /\ a \div b \in Int /\ a % b \in 0 .. b - 1
           /\ a = b * (a \div b) + (a % b)
           /\ a >= 0 => a \div b >= 0
<1>1. a % b \in 0 .. b - 1
  OBVIOUS
<1>2. a \div b \in Int
  OBVIOUS
<1>3. a = b * (a \div b) + (a % b)
  OBVIOUS
<1>4. a >= 0 => a \div b >= 0
  BY <1>1, <1>2, <1>3
<1> QED BY <1>1, <1>2, <1>3, <1>4

\* A quotient is known by its rest.
LEMMA DivUnique ==
    ASSUME NEW b \in Nat, b > 0, NEW q \in Nat, NEW r \in 0 .. b - 1
    PROVE  (q * b + r) \div b = q /\ (q * b + r) % b = r
OBVIOUS

\* So many lines of b hold n segments.
LEMMA CeilDivCovers ==
    ASSUME NEW n \in Nat, n > 0, NEW b \in Nat, b > 0
    PROVE  CeilDiv(n, b) \in 1 .. n /\ CeilDiv(n, b) * b >= n
<1> DEFINE k == n + b - 1
           q == k \div b
           r == k % b
<1>1. k \in Int /\ b \in Int /\ k >= 0 /\ CeilDiv(n, b) = q
  BY DEF CeilDiv
<1>2. q \in Nat /\ r \in 0 .. b - 1 /\ n + b - 1 = b * q + r
  <2> HIDE DEF k
  <2>1. q \in Int /\ r \in 0 .. b - 1 /\ k = b * q + r /\ q >= 0
    BY <1>1, DivMod
  <2> QED BY <2>1 DEF k
<1> HIDE DEF q, r, k
<1>3. q * b = b * q /\ q * b \in Nat
  BY <1>2
<1>4. q * b >= n
  BY <1>2, <1>3
<1>5. q >= 1
  <2>1. q # 0
    BY <1>4, <1>2
  <2> QED BY <2>1, <1>2
<1>6. q <= n
  <2> SUFFICES ASSUME q > n PROVE FALSE
    BY <1>2
  <2>1. b * q >= b * (n + 1)
    BY <1>2
  <2>2. b * (n + 1) = b * n + b
    OBVIOUS
  <2>3. b * n >= n
    OBVIOUS
  <2> QED BY <2>1, <2>2, <2>3, <1>2
<1> QED BY <1>1, <1>2, <1>4, <1>5, <1>6

\* The whole root of a number exists.
LEMMA SquareRootType == ASSUME NEW n \in Nat PROVE SquareRoot(n) \in Nat
<1> DEFINE Above == {c \in Nat : (c + 1) * (c + 1) > n}
<1>1. n \in Above
  <2>1. (n + 1) * (n + 1) = n * n + 2 * n + 1 /\ n * n >= 0
    OBVIOUS
  <2> QED BY <2>1
<1>2. PICK c \in Above : \A d \in Above : c <= d
  <2> HIDE DEF Above
  <2>1. Above \in SUBSET Nat /\ Above # {}
    BY <1>1 DEF Above
  <2> QED BY <2>1, LeastNat
<1>3. c * c <= n
  <2>1. CASE c = 0
    BY <2>1
  <2>2. CASE c > 0
    <3>1. c - 1 \in Nat /\ c - 1 \notin Above
      BY <1>2, <2>2
    <3>2. ~(((c - 1) + 1) * ((c - 1) + 1) > n)
      BY <3>1
    <3>3. (c - 1) + 1 = c
      BY <2>2
    <3> QED BY <3>2, <3>3
  <2> QED BY <2>1, <2>2
<1>4. c \in 0 .. n
  <2>1. CASE c = 0
    BY <2>1
  <2>2. CASE c > 0
    <3>1. c * c >= c
      BY <2>2
    <3> QED BY <3>1, <1>3
  <2> QED BY <2>1, <2>2
<1>5. \E d \in 0 .. n : d * d <= n /\ (d + 1) * (d + 1) > n
  BY <1>2, <1>3, <1>4
<1>6. SquareRoot(n) \in 0 .. n
  BY <1>5 DEF SquareRoot
<1> QED BY <1>6

\* Every window has a shape that a byte can index, and a matrix holds all of it.
LEMMA ShapeFits ==
    ASSUME NEW n \in 1 .. 100, NEW fraction \in 0 .. 255
    PROVE  /\ Shape(n, fraction).row \in 0 .. n
           /\ Shape(n, fraction).col \in Nat
           /\ IsMatrix(n, fraction) =>
                 Shape(n, fraction).row * Shape(n, fraction).col >= n
<1>1. CASE IsMatrix(n, fraction)
  <2> DEFINE c == RootColumns(n)
             rows == CeilDiv(n, c)
             cols == CeilDiv(n, rows)
  <2>1. c \in 3 .. 20
    <3> DEFINE root == SquareRoot(n)
               up   == IF (10 * root + 1) * (10 * root + 1) < 100 * n THEN root + 1 ELSE root
    <3>1. up \in Int
      BY SquareRootType
    <3>2. c = Within(3, up, 20)
      BY DEF RootColumns
    <3> HIDE DEF up, c
    <3> QED BY <3>1, <3>2 DEF Within
  <2>2. rows \in 1 .. n
    <3> HIDE DEF c
    <3>1. c \in Nat /\ c > 0 /\ n \in Nat /\ n > 0
      BY <2>1
    <3> QED BY <3>1, CeilDivCovers
  <2>3. cols \in 1 .. n /\ cols * rows >= n
    <3> HIDE DEF rows
    <3> QED BY <2>2, CeilDivCovers
  <2>4. Shape(n, fraction) = [row |-> rows, col |-> cols]
    BY <1>1 DEF Shape, MatrixShape
  <2> HIDE DEF rows, cols
  <2>5. rows * cols = cols * rows
    BY <2>2, <2>3
  <2> QED BY <2>2, <2>3, <2>4, <2>5
<1>2. CASE ~IsMatrix(n, fraction)
  <2> DEFINE packets == (n * fraction + 128) \div 256
             cols == IF packets = 0 THEN n ELSE CeilDiv(n, packets)
             rows == IF packets = 0 THEN 1 ELSE CeilDiv(n, cols)
  <2>1. packets \in Nat
    <3>1. n * fraction \in Nat
      OBVIOUS
    <3> QED BY <3>1
  <2>2. cols \in 1 .. n
    <3> HIDE DEF packets
    <3> QED BY <2>1, CeilDivCovers
  <2>3. rows \in 1 .. n
    <3> HIDE DEF packets, cols
    <3> QED BY <2>2, CeilDivCovers DEF rows
  <2>4. Shape(n, fraction) = IF fraction = 0 THEN [row |-> 0, col |-> 0]
                             ELSE [row |-> rows, col |-> cols]
    BY <1>2 DEF Shape, RowShape
  <2> HIDE DEF rows, cols
  <2> QED BY <1>2, <2>2, <2>3, <2>4
<1> QED BY <1>1, <1>2

LEMMA MinOfTwo ==
    ASSUME NEW a \in Int, NEW b \in Int
    PROVE  Min({a, b}) = IF a <= b THEN a ELSE b
<1>1. \E m \in {a, b} : \A y \in {a, b} : m <= y
  BY DEF Min
<1>2. Min({a, b}) \in {a, b} /\ \A y \in {a, b} : Min({a, b}) <= y
  BY <1>1 DEF Min
<1> QED BY <1>2

\* The places of a line in its window, as Line counts them.
Places(w, x) ==
    IF x < ColumnBit THEN {x * w.col + i : i \in 0 .. w.col - 1}
    ELSE {i * w.col + x - ColumnBit : i \in 0 .. w.row - 1}

\* What the loops of flex_fec_sender_update xor into packet x is what row * col
\* + i and i * col + c of the receiver reach inside the window, and each of
\* these places has x for its row or its column.
LEMMA LinesLaidOut ==
    ASSUME NEW w, w.base \in Nat, w.count \in 1 .. 100, w.row \in 0 .. w.count, w.col \in Nat,
           w.matrix => w.row * w.col >= w.count,
           NEW x \in DOMAIN Packets(w)
    PROVE  /\ w.col > 1
           /\ Places(w, x) \subseteq Nat
           /\ Packets(w)[x] = {w.base + i : i \in {j \in Places(w, x) : j < w.count}}
           /\ \A i \in Places(w, x) : x \in {i \div w.col, ColumnBit + (i % w.col)}
<1> DEFINE base == w.base
           count == w.count
           row == w.row
           col == w.col
           rows == RowContents(w)
           cols == ColumnContents(w)
<1>1. /\ col > 1
      /\ \/ x \in 0 .. row - 1 /\ x < ColumnBit /\ Packets(w)[x] = rows[x]
         \/ /\ x \in ColumnBit .. ColumnBit + col - 1 /\ HasColumns(w)
            /\ Packets(w)[x] = cols[x]
  <2>1. DOMAIN rows = 0 .. row - 1 /\ DOMAIN cols = ColumnBit .. ColumnBit + col - 1
    BY DEF RowContents, ColumnContents
  <2> DEFINE all == DOMAIN rows \union (IF HasColumns(w) THEN DOMAIN cols ELSE {})
             contents == [y \in all |-> IF y < ColumnBit THEN rows[y] ELSE cols[y]]
             made == {y \in all : w.col > 1 /\ WorthFec(contents[y])}
  <2>2. Packets(w) = [y \in made |-> contents[y]]
    BY DEF Packets
  <2> HIDE DEF rows, cols
  <2>3. x \in all /\ w.col > 1 /\ Packets(w)[x] = contents[x]
    <3> HIDE DEF all, contents
    <3> QED BY <2>2
  <2>4. row < ColumnBit /\ ColumnBit \in Nat
    BY DEF ColumnBit
  <2> QED BY <2>1, <2>3, <2>4
<1>2. base \in Nat /\ count \in 1 .. 100 /\ row \in 0 .. count /\ col \in Nat
  OBVIOUS
<1>3. CASE x \in 0 .. row - 1 /\ x < ColumnBit /\ Packets(w)[x] = rows[x]
  <2> DEFINE a == x * col
  <2>1. a \in Nat /\ (x + 1) * col = a + col
    BY <1>2, <1>3
  <2>2. rows[x] = {base + i : i \in a .. Min({a + col, count}) - 1}
    BY <1>3, <2>1 DEF RowContents
  <2>3. Places(w, x) = {a + i : i \in 0 .. col - 1}
    BY <1>3 DEF Places
  <2> HIDE DEF a
  <2>4. Min({a + col, count}) = IF a + col <= count THEN a + col ELSE count
    <3> DEFINE b == a + col
    <3>1. b \in Int /\ count \in Int
      BY <1>2, <2>1
    <3> HIDE DEF b
    <3>2. Min({b, count}) = IF b <= count THEN b ELSE count
      BY <3>1, MinOfTwo
    <3> QED BY <3>2 DEF b
  <2>5. \A i : i \in a .. Min({a + col, count}) - 1 <=> i \in Places(w, x) /\ i < count
    <3>1. \A i \in a .. a + col - 1 : i = a + (i - a) /\ i - a \in 0 .. col - 1
      BY <1>2, <2>1
    <3> QED BY <1>2, <2>1, <2>3, <2>4, <3>1
  <2>6. \A i \in Places(w, x) : i \in Nat /\ i \div col = x
    <3> SUFFICES ASSUME NEW k \in 0 .. col - 1 PROVE a + k \in Nat /\ (a + k) \div col = x
      BY <2>3
    <3>1. col \in Nat /\ col > 0 /\ x \in Nat /\ k \in 0 .. col - 1
      BY <1>1, <1>2, <1>3
    <3>2. (x * col + k) \div col = x
      <4> HIDE DEF col
      <4> QED BY <3>1, DivUnique
    <3> QED BY <2>1, <3>2 DEF a
  <2> QED BY <1>1, <1>3, <2>2, <2>5, <2>6
<1>4. CASE x \in ColumnBit .. ColumnBit + col - 1 /\ HasColumns(w) /\ Packets(w)[x] = cols[x]
  <2> DEFINE c == x - ColumnBit
  <2>1. c \in 0 .. col - 1 /\ x = ColumnBit + c /\ ~(x < ColumnBit)
    BY <1>2, <1>4 DEF ColumnBit
  <2>2. cols[x] = {base + i : i \in {j \in 0 .. count - 1 : j % col = c}}
    BY <1>4 DEF ColumnContents
  <2>3. Places(w, x) = {i * col + x - ColumnBit : i \in 0 .. row - 1}
    BY <2>1 DEF Places
  <2>4. \A i \in 0 .. row - 1 : i * col + x - ColumnBit = i * col + c
    <3> SUFFICES ASSUME NEW i \in 0 .. row - 1 PROVE i * col + x - ColumnBit = i * col + c
      OBVIOUS
    <3>1. i * col \in Int
      BY <1>2
    <3> QED BY <2>1, <3>1 DEF ColumnBit
  <2> HIDE DEF c
  <2>5. \A i \in 0 .. row - 1 : /\ i * col + c \in Nat
                                /\ (i * col + c) % col = c
    <3> SUFFICES ASSUME NEW i \in 0 .. row - 1
                 PROVE  i * col + c \in Nat /\ (i * col + c) % col = c
      OBVIOUS
    <3>1. col \in Nat /\ col > 0 /\ i \in Nat /\ i * col \in Nat /\ c \in 0 .. col - 1
      BY <1>1, <1>2, <2>1
    <3> HIDE DEF col
    <3>2. (i * col + c) % col = c
      BY <3>1, DivUnique
    <3> QED BY <3>1, <3>2
  <2>6. \A j \in 0 .. count - 1 : j % col = c => \E i \in 0 .. row - 1 : j = i * col + c
    <3> SUFFICES ASSUME NEW j \in 0 .. count - 1, j % col = c
                 PROVE  \E i \in 0 .. row - 1 : j = i * col + c
      OBVIOUS
    <3> DEFINE q == j \div col
    <3>1. q \in Int /\ q >= 0 /\ j = col * q + c
      <4>1. j \in Int /\ col \in Int /\ col > 0 /\ j >= 0
        BY <1>1, <1>2
      <4> HIDE DEF col
      <4> QED BY <4>1, DivMod
    <3>2. row * col >= count
      BY <1>4 DEF HasColumns
    <3> HIDE DEF q, col, row, count
    <3>3. q < row
      <4> SUFFICES ASSUME q >= row PROVE FALSE
        BY <1>2, <3>1
      <4>1. col * q >= col * row /\ col * row = row * col
        BY <1>2, <3>1
      <4> QED BY <1>2, <2>1, <3>1, <3>2, <4>1
    <3>4. col * q = q * col
      BY <1>2, <3>1
    <3>5. q \in 0 .. row - 1 /\ j = q * col + c
      BY <1>2, <3>1, <3>3, <3>4
    <3> QED BY <3>5
  <2>7. \A i : i \in {j \in 0 .. count - 1 : j % col = c} <=> i \in Places(w, x) /\ i < count
    BY <1>2, <2>3, <2>4, <2>5, <2>6
  <2>8. \A i \in Places(w, x) : i \in Nat /\ x = ColumnBit + (i % col)
    BY <2>1, <2>3, <2>4, <2>5
  <2> QED BY <1>1, <1>4, <2>2, <2>7, <2>8
<1> QED BY <1>1, <1>3, <1>4

-----------------------------------------------------------------------------
(* The stream *)

\* The windows are ranges, disjoint with what carries their fec_ids, and a
\* packet's fec_id names its own.
LEMMA WindowRange ==
    ASSUME TypeOK, WindowsFit
    PROVE  /\ \A id \in DOMAIN windows :
                 /\ InWindow(id) = windows[id].base .. windows[id].base + windows[id].count - 1
                 /\ InWindow(id) \subseteq Labelled(id) /\ Labelled(id) \subseteq DOMAIN ts
           /\ \A i, j \in DOMAIN windows : i # j => Labelled(i) \intersect Labelled(j) = {}
           /\ \A p \in DOMAIN ts : FecId(p) \in DOMAIN windows /\ p \in Labelled(FecId(p))
<1>1. DOMAIN ts = 1 .. Len(ts) /\ Len(ts) \in Nat /\ DOMAIN windows \subseteq Nat
  BY DEF TypeOK
<1>2. ASSUME NEW id \in DOMAIN windows
      PROVE  /\ InWindow(id) = windows[id].base .. windows[id].base + windows[id].count - 1
             /\ InWindow(id) \subseteq Labelled(id) /\ Labelled(id) \subseteq DOMAIN ts
  BY <1>1 DEF WindowsFit, InWindow, Labelled
<1>3. ASSUME NEW i \in DOMAIN windows, NEW j \in DOMAIN windows, i < j
      PROVE  Labelled(i) \intersect Labelled(j) = {}
  <2>1. windows[i].base + windows[i].count <= windows[j].first
    BY <1>3 DEF WindowsFit
  <2> DEFINE a == windows[i].base
             b == windows[i].count
             c == windows[j].first
  <2>2. a \in Nat /\ b \in Nat /\ c \in Nat
    BY DEF WindowsFit
  <2>3. /\ \A p \in Labelled(i) : p \in 1 .. Len(ts) /\ p < a + b
        /\ \A p \in Labelled(j) : p \in 1 .. Len(ts) /\ c <= p
    BY <1>1 DEF Labelled
  <2>4. a + b <= c
    BY <2>1
  <2> HIDE DEF a, b, c
  <2> QED BY <1>1, <2>2, <2>3, <2>4
<1>4. ASSUME NEW p \in DOMAIN ts
      PROVE  FecId(p) \in DOMAIN windows /\ p \in Labelled(FecId(p))
  <2>1. \E id \in DOMAIN windows : p \in Labelled(id)
    BY DEF WindowsFit
  <2> QED BY <2>1 DEF FecId
<1>5. \A i, j \in DOMAIN windows : i # j => Labelled(i) \intersect Labelled(j) = {}
  <2> SUFFICES ASSUME NEW i \in DOMAIN windows, NEW j \in DOMAIN windows, i # j
               PROVE  Labelled(i) \intersect Labelled(j) = {}
    OBVIOUS
  <2>1. i < j \/ j < i
    BY <1>1
  <2> QED BY <1>3, <2>1
<1> QED BY <1>2, <1>4, <1>5

LEMMA LineInWindow ==
    \A id, x : Line(id, x) = {windows[id].base + i : i \in Places(windows[id], x)}
                               \intersect InWindow(id)
BY DEF Line, Places

\* What a step at the receiver leaves alone.
LEMMA StreamStays ==
    ASSUME WindowsFit, LinesFit, UNCHANGED stream
    PROVE  /\ WindowsFit' /\ LinesFit'
           /\ \A id : InWindow(id)' = InWindow(id)
           /\ \A id, x : Line(id, x)' = Line(id, x)
           /\ \A id, p : LinesOf(id, p)' = LinesOf(id, p)
           /\ \A f, id, x : FecReady(f, id, x)' <=> FecReady(f, id, x)
<1>1. now' = now /\ windows' = windows /\ ts' = ts
  BY DEF stream
<1>2. \A id : InWindow(id)' = InWindow(id)
  BY <1>1 DEF InWindow
<1>3. \A id, x : Line(id, x)' = Line(id, x)
  BY <1>1, <1>2 DEF Line
<1>4. \A id, p : LinesOf(id, p)' = LinesOf(id, p)
  BY <1>1 DEF LinesOf
<1>5. \A f, id, x : FecReady(f, id, x)' <=> FecReady(f, id, x)
  BY <1>1, <1>3 DEF FecReady
<1>6. WindowsFit'
  BY <1>1, <1>2 DEF WindowsFit, Labelled
<1>7. LinesFit'
  BY <1>1, <1>3, <1>4 DEF LinesFit
<1> QED BY <1>2, <1>3, <1>4, <1>5, <1>6, <1>7

\* What a window w that closes as the new-th, left segments after an abandoned
\* one, makes of the stream: it takes the next packets and leaves the others as
\* they are.
Closed(w, sent, n, left, new) ==
    /\ n \in 1 .. 100
    /\ w.first = Len(ts) + 1 /\ w.base = Len(ts) + 1 + left
    /\ w.count = n /\ w.row \in 0 .. n /\ w.col \in Nat
    /\ w.matrix => w.row * w.col >= n
    /\ windows' \in Seq({windows'[i] : i \in DOMAIN windows'})
    /\ DOMAIN windows = 1 .. Len(windows) /\ DOMAIN windows' = 1 .. new
    /\ \A i \in DOMAIN windows : windows'[i] = windows[i]
    /\ windows'[new] = [first |-> w.first, base |-> w.base, count |-> n,
                        row |-> w.row, col |-> w.col, matrix |-> w.matrix,
                        fecs |-> Packets(w), sent |-> sent]
    /\ \A x \in DOMAIN Packets(w) :
           /\ sent[x] \in Nat /\ sent[x] <= now' + MaxWait
           /\ \A i \in DOMAIN windows : \A y \in DOMAIN windows[i].fecs :
                  windows[i].sent[y] <= sent[x]
    /\ ts' \in Seq(Nat) /\ Len(ts') = Len(ts) + left + n
    /\ \A p \in 1 .. Len(ts) : ts'[p] = ts[p]
    /\ \A p \in Len(ts) + left + 1 .. Len(ts) + left + n : ts'[p] + MaxSpan >= now'
    /\ now' \in Nat

LEMMA CloseWindowShape ==
    ASSUME TypeOK, WindowsFit, NEW plan \in Plans, NEW age \in 0 .. MaxSpan, NEW gap \in Gaps,
           NEW left \in 0 .. MaxLeft, CloseWindow(plan[1], plan[2], age, gap, left)
    PROVE  \E w, sent : Closed(w, sent, plan[1], left, Len(windows) + 1)
<1> DEFINE n == plan[1]
           fraction == plan[2]
           end == now + gap
           w == [first |-> Len(ts) + 1, base |-> Len(ts) + 1 + left, count |-> n,
                 row |-> Shape(n, fraction).row, col |-> Shape(n, fraction).col,
                 matrix |-> IsMatrix(n, fraction)]
           more == [i \in 1 .. left + n |-> IF i <= left THEN now
                                            ELSE IF i < left + n THEN end - age ELSE end]
<1>1. n \in 1 .. 100 /\ fraction \in 0 .. 255
  BY FecAssumption
<1>2. /\ gap \in Nat /\ MaxSpan \in Nat /\ MaxWait \in Nat /\ age \in Nat /\ now \in Nat
      /\ left \in Nat
  BY FecAssumption DEF TypeOK
<1>a. PICK sent \in Sendings(DOMAIN Packets(w), end) :
        windows' = Append(windows, [first |-> w.first, base |-> w.base, count |-> n,
                                    row |-> w.row, col |-> w.col, matrix |-> w.matrix,
                                    fecs |-> Packets(w), sent |-> sent])
  BY DEF CloseWindow
<1> DEFINE w1 == [first |-> w.first, base |-> w.base, count |-> n,
                  row |-> w.row, col |-> w.col, matrix |-> w.matrix,
                  fecs |-> Packets(w), sent |-> sent]
<1>3. /\ age <= gap /\ windows' = Append(windows, w1) /\ ts' = ts \o more /\ now' = end
  BY <1>a DEF CloseWindow
<1>4. w.row \in 0 .. n /\ w.col \in Nat /\ (w.matrix => w.row * w.col >= n)
  <2> HIDE DEF n, fraction
  <2> QED BY <1>1, ShapeFits
<1>5. \A x \in DOMAIN Packets(w) :
          /\ sent[x] \in Nat /\ sent[x] <= end + MaxWait
          /\ \A i \in DOMAIN windows : \A y \in DOMAIN windows[i].fecs :
                 windows[i].sent[y] <= sent[x]
  <2>1. end \in Nat
    BY <1>2
  <2> HIDE DEF w, end
  <2> QED BY <1>2, <1>a, <2>1 DEF Sendings
<1>7. /\ more \in Seq(Nat) /\ Len(more) = left + n
      /\ \A i \in left + 1 .. left + n : more[i] + MaxSpan >= now'
  <2> HIDE DEF n
  <2>1. end \in Nat /\ end - age \in Nat /\ age <= MaxSpan
    BY <1>2, <1>3
  <2> HIDE DEF end
  <2>2. /\ \A i \in 1 .. left + n : more[i] \in Nat
        /\ \A i \in left + 1 .. left + n : more[i] + MaxSpan >= end
    BY <1>1, <1>2, <2>1
  <2>a. DOMAIN more = 1 .. left + n /\ left + n \in Nat
    BY <1>1, <1>2
  <2>b. more = [i \in DOMAIN more |-> more[i]]
    OBVIOUS
  <2>3. left + n \in Nat /\ more \in [1 .. left + n -> Nat]
    <3> HIDE DEF more
    <3> QED BY <2>2, <2>a, <2>b
  <2>4. more \in Seq(Nat) /\ Len(more) = left + n
    <3> HIDE DEF more
    <3> DEFINE k == left + n
    <3>1. k \in Nat /\ more \in [1 .. k -> Nat]
      BY <2>3
    <3> HIDE DEF k
    <3>2. more \in Seq(Nat) /\ Len(more) = k
      BY <3>1
    <3> QED BY <3>2 DEF k
  <2> QED BY <1>3, <2>2, <2>4
<1> HIDE DEF n, more, w1, w, end
<1>8. /\ ts' \in Seq(Nat) /\ Len(ts') = Len(ts) + left + n
      /\ \A p \in 1 .. Len(ts) : ts'[p] = ts[p]
      /\ \A p \in Len(ts) + left + 1 .. Len(ts) + left + n : ts'[p] + MaxSpan >= now'
  <2>1. ts \in Seq(Nat) /\ Len(ts) \in Nat
    BY DEF TypeOK
  <2> DEFINE k == left + n
  <2>2. k \in Nat /\ Len(more) = k
    BY <1>1, <1>2, <1>7
  <2> HIDE DEF k
  <2>b. more \in Seq(Nat)
    BY <1>7
  <2>c. ts' = ts \o more
    BY <1>3
  <2>a. Len(ts') = Len(ts) + k
    <3>1. Len(ts \o more) = Len(ts) + Len(more)
      BY <2>1, <2>b
    <3> QED BY <2>2, <2>c, <3>1
  <2>3. Len(ts') = Len(ts) + left + n
    BY <1>1, <1>2, <2>1, <2>a DEF k
  <2>4. \A p \in Len(ts) + 1 .. Len(ts) + k : ts'[p] = more[p - Len(ts)]
    BY SMTT(30), <1>3, <1>7, <2>1, <2>2
  <2>5. \A p \in Len(ts) + left + 1 .. Len(ts) + left + n :
            /\ p - Len(ts) \in left + 1 .. left + n
            /\ p \in Len(ts) + 1 .. Len(ts) + k
    BY <1>1, <1>2, <2>1 DEF k
  <2>6. \A p \in 1 .. Len(ts) : ts'[p] = ts[p]
    BY <1>3, <1>7, <2>1
  <2>7. ts' \in Seq(Nat)
    BY <1>3, <1>7, <2>1
  <2> QED BY <1>7, <2>3, <2>4, <2>5, <2>6, <2>7
<1>9. /\ Len(windows) \in Nat
      /\ windows' \in Seq({windows'[i] : i \in DOMAIN windows'})
      /\ DOMAIN windows = 1 .. Len(windows) /\ DOMAIN windows' = 1 .. Len(windows) + 1
      /\ \A i \in DOMAIN windows : windows'[i] = windows[i]
      /\ windows'[Len(windows) + 1] = w1
  <2> DEFINE S == {windows[i] : i \in DOMAIN windows} \union {w1}
  <2>1. windows \in Seq(S)
    BY DEF TypeOK
  <2> HIDE DEF S
  <2>2. windows' \in Seq(S)
    <3>1. w1 \in S
      BY DEF S
    <3> QED BY <1>3, <2>1, <3>1
  <2>3. Len(windows) \in Nat /\ DOMAIN windows = 1 .. Len(windows)
    BY <2>1
  <2>4. DOMAIN windows' = 1 .. Len(windows) + 1
    BY <1>3, <2>1
  <2>5. /\ \A i \in DOMAIN windows : windows'[i] = windows[i]
        /\ windows'[Len(windows) + 1] = w1
    BY <1>3, <2>1
  <2>6. windows' \in Seq({windows'[i] : i \in DOMAIN windows'})
    BY <2>2
  <2> QED BY <2>3, <2>4, <2>5, <2>6
<1>10. now' \in Nat /\ now' = end
  BY <1>2, <1>3 DEF end
<1>11. /\ w.first = Len(ts) + 1 /\ w.base = Len(ts) + 1 + left /\ w.count = n
  BY DEF w
<1> QED BY <1>1, <1>4, <1>5, <1>8, <1>9, <1>10, <1>11 DEF n, w1, Closed

LEMMA BoundsAdd ==
    ASSUME NEW a \in Nat, NEW b \in Nat, NEW c \in Nat, NEW d \in Nat, NEW e \in Nat,
           a <= c + e, b + d >= c
    PROVE  b + d + e >= a
OBVIOUS

LEMMA CloseWindowKeeps ==
    ASSUME CachesAgree, RebuiltIsGenuine, NothingMissed,
           NEW plan \in Plans, NEW age \in 0 .. MaxSpan, NEW gap \in Gaps,
           NEW left \in 0 .. MaxLeft, CloseWindow(plan[1], plan[2], age, gap, left)
    PROVE  CachesAgree' /\ RebuiltIsGenuine' /\ NothingMissed'
<1>1. TypeOK /\ WindowsFit /\ LinesFit /\ WindowSeesCache
  BY DEF CachesAgree
<1> DEFINE n == plan[1]
<1>0. Len(windows) \in Nat
  BY <1>1 DEF TypeOK
<1>. PICK new \in Nat : new = Len(windows) + 1
  BY <1>0
<1>2. PICK w, sent : Closed(w, sent, n, left, new)
  BY <1>1, CloseWindowShape
<1>3. UNCHANGED <<got, refused, segs, flexes, rebuilt, max_ts>>
  BY DEF CloseWindow
<1> HIDE DEF n
<1>4. /\ DOMAIN ts = 1 .. Len(ts) /\ Len(ts) \in Nat
      /\ DOMAIN ts' = 1 .. Len(ts) + left + n /\ DOMAIN ts \subseteq DOMAIN ts'
      /\ DOMAIN windows \subseteq DOMAIN windows' /\ n \in Nat /\ left \in Nat
  <2>1. ts \in Seq(Nat)
    BY <1>1 DEF TypeOK
  <2>2. DOMAIN ts = 1 .. Len(ts) /\ Len(ts) \in Nat
    BY <2>1
  <2>3. DOMAIN ts' = 1 .. Len(ts')
    BY <1>2 DEF Closed
  <2>4. n \in Nat /\ left \in Nat /\ Len(ts') = Len(ts) + left + n
    BY <1>2, FecAssumption DEF Closed
  <2>5. 1 .. Len(windows) \subseteq 1 .. new
    BY <1>2 DEF Closed
  <2>6. DOMAIN windows \subseteq DOMAIN windows'
    BY <1>2, <2>5 DEF Closed
  <2> QED BY <2>2, <2>3, <2>4, <2>6
<1>a. /\ n \in Nat /\ n >= 1 /\ now' \in Nat
      /\ w.first = Len(ts) + 1 /\ w.base = Len(ts) + 1 + left /\ w.count = n
      /\ windows'[new].first = w.first /\ windows'[new].base = w.base
      /\ windows'[new].count = n /\ windows'[new].fecs = Packets(w)
      /\ windows'[new].sent = sent
      /\ windows'[new].row = w.row /\ windows'[new].col = w.col
  BY <1>2 DEF Closed
<1>d. /\ DOMAIN windows = 1 .. Len(windows) /\ DOMAIN windows' = 1 .. new
      /\ Len(windows) \in Nat /\ new = Len(windows) + 1
  BY <1>0, <1>2 DEF Closed
<1>b. /\ new \in DOMAIN windows' /\ DOMAIN windows \subseteq 1 .. new - 1 /\ new \in Nat
      /\ \A id \in DOMAIN windows' : id \in DOMAIN windows \/ id = new
  BY <1>d
<1>c. \A i \in DOMAIN windows : windows'[i] = windows[i]
  BY <1>2 DEF Closed
\* The old windows are what they were, the new one takes the new packets.
<1>5. \A id \in DOMAIN windows : InWindow(id)' = InWindow(id) /\ Labelled(id)' = Labelled(id)
  <2> SUFFICES ASSUME NEW id \in DOMAIN windows
               PROVE  InWindow(id)' = InWindow(id) /\ Labelled(id)' = Labelled(id)
    OBVIOUS
  <2> DEFINE a == windows[id].base
             b == windows[id].count
             c == windows[id].first
  <2>1. a \in Nat /\ b \in Nat /\ c \in Nat /\ a + b <= Len(ts) + 1
    BY <1>1 DEF WindowsFit
  <2>2. windows'[id].base = a /\ windows'[id].count = b /\ windows'[id].first = c
    BY <1>2 DEF Closed
  <2>3. /\ InWindow(id) = {p \in 1 .. Len(ts) : a <= p /\ p < a + b}
        /\ InWindow(id)' = {p \in 1 .. Len(ts) + left + n : a <= p /\ p < a + b}
        /\ Labelled(id) = {p \in 1 .. Len(ts) : c <= p /\ p < a + b}
        /\ Labelled(id)' = {p \in 1 .. Len(ts) + left + n : c <= p /\ p < a + b}
    <3> HIDE DEF a, b, c
    <3> QED BY <1>4, <2>2 DEF InWindow, Labelled, a, b, c
  <2>4. \A p : p \in 1 .. Len(ts) + left + n /\ p < a + b <=> p \in 1 .. Len(ts) /\ p < a + b
    <3> HIDE DEF a, b
    <3> QED BY <1>4, <1>a, <2>1
  <2> HIDE DEF a, b, c
  <2> QED BY <2>3, <2>4
<1>6. /\ InWindow(new)' = Len(ts) + left + 1 .. Len(ts) + left + n
      /\ Labelled(new)' = Len(ts) + 1 .. Len(ts) + left + n
  <2>1. /\ InWindow(new)' = {p \in 1 .. Len(ts) + left + n :
                                Len(ts) + 1 + left <= p /\ p < Len(ts) + 1 + left + n}
        /\ Labelled(new)' = {p \in 1 .. Len(ts) + left + n :
                                Len(ts) + 1 <= p /\ p < Len(ts) + 1 + left + n}
    BY <1>a, <1>4 DEF InWindow, Labelled
  <2>2. \A p : p \in 1 .. Len(ts) + left + n
                 /\ Len(ts) + 1 + left <= p /\ p < Len(ts) + 1 + left + n
                <=> p \in Len(ts) + left + 1 .. Len(ts) + left + n
    BY <1>a, <1>4
  <2>3. \A p : p \in 1 .. Len(ts) + left + n
                 /\ Len(ts) + 1 <= p /\ p < Len(ts) + 1 + left + n
                <=> p \in Len(ts) + 1 .. Len(ts) + left + n
    BY <1>a, <1>4
  <2> QED BY <2>1, <2>2, <2>3
<1>7. \A id \in DOMAIN windows : \A x, p : Line(id, x)' = Line(id, x) /\ LinesOf(id, p)' = LinesOf(id, p)
  BY <1>c, <1>5 DEF Line, LinesOf
<1>8. WindowsFit'
  <2>1. ASSUME NEW id \in DOMAIN windows'
        PROVE  /\ {windows[id].first, windows[id].base, windows[id].count}' \subseteq Nat \ {0}
               /\ (windows[id].first <= windows[id].base)'
               /\ (windows[id].base + windows[id].count <= Len(ts) + 1)'
               /\ \A x \in DOMAIN windows'[id].fecs :
                      /\ windows'[id].sent[x] \in Nat
                      /\ \A p \in InWindow(id)' : ts'[p] + MaxSpan + MaxWait >= windows'[id].sent[x]
    <3>1. CASE id \in DOMAIN windows
      <4>1. windows'[id] = windows[id] /\ InWindow(id)' = InWindow(id)
        BY <1>2, <1>5, <3>1 DEF Closed
      <4>2. \A p \in InWindow(id) : ts'[p] = ts[p]
        BY <1>2, <1>4 DEF InWindow, Closed
      <4>3. \A x \in DOMAIN windows[id].fecs :
                /\ windows[id].sent[x] \in Nat
                /\ \A p \in InWindow(id) : ts[p] + MaxSpan + MaxWait >= windows[id].sent[x]
        BY <1>1, <3>1 DEF WindowsFit
      <4> DEFINE a == windows[id].base
                 b == windows[id].count
                 c == windows[id].first
      <4>4. {c, a, b} \subseteq Nat \ {0} /\ c <= a /\ a + b <= Len(ts) + 1
        BY <1>1, <3>1 DEF WindowsFit
      <4> HIDE DEF a, b, c
      <4>5. a + b <= Len(ts') + 1
        <5>1. Len(ts') = Len(ts) + left + n
          BY <1>2 DEF Closed
        <5> QED BY <1>a, <1>4, <4>4, <5>1
      <4> QED BY <4>1, <4>2, <4>3, <4>4, <4>5 DEF a, b, c
    <3>2. CASE id = new
      <4>1. /\ windows'[id].first = Len(ts) + 1 /\ windows'[id].base = Len(ts) + 1 + left
            /\ windows'[id].count = n
            /\ InWindow(id)' = Len(ts) + left + 1 .. Len(ts) + left + n
        BY <1>a, <1>6, <3>2
      <4>2. /\ Len(ts') = Len(ts) + left + n
            /\ \A p \in Len(ts) + left + 1 .. Len(ts) + left + n : ts'[p] + MaxSpan >= now'
        BY <1>2 DEF Closed
      <4>3. ASSUME NEW x \in DOMAIN windows'[id].fecs
            PROVE  /\ windows'[id].sent[x] \in Nat
                   /\ \A p \in InWindow(id)' : ts'[p] + MaxSpan + MaxWait >= windows'[id].sent[x]
        <5>1. sent[x] \in Nat /\ sent[x] <= now' + MaxWait /\ windows'[id].sent = sent
          BY <1>2, <1>a, <3>2, <4>3 DEF Closed
        <5>2. ASSUME NEW p \in InWindow(id)' PROVE ts'[p] + MaxSpan + MaxWait >= sent[x]
          <6>1. ts'[p] + MaxSpan >= now'
            BY <4>1, <4>2
          <6>2. p \in DOMAIN ts' /\ ts' \in Seq(Nat)
            BY <1>2 DEF InWindow, Closed
          <6>3. ts'[p] \in Nat
            BY <6>2
          <6>4. MaxSpan \in Nat /\ MaxWait \in Nat /\ now' \in Nat
            BY <1>a, FecAssumption
          <6>5. sent[x] \in Nat /\ ts'[p] \in Nat /\ sent[x] <= now' + MaxWait
                /\ ts'[p] + MaxSpan >= now'
            BY <5>1, <6>1, <6>3
          <6> QED BY <6>4, <6>5, BoundsAdd
        <5> QED BY <5>1, <5>2
      <4> QED BY <1>a, <1>4, <4>1, <4>2, <4>3
    <3> QED BY <1>b, <3>1, <3>2
  <2>2. ASSUME NEW i \in DOMAIN windows', NEW j \in DOMAIN windows', i < j
        PROVE  /\ windows'[i].base + windows'[i].count <= windows'[j].first
               /\ \A x \in DOMAIN windows'[i].fecs, y \in DOMAIN windows'[j].fecs :
                      windows'[i].sent[x] <= windows'[j].sent[y]
    <3>1. i \in DOMAIN windows
      BY <1>b, <2>2
    <3>2. windows'[i] = windows[i]
      BY <1>c, <3>1
    <3>3. CASE j \in DOMAIN windows
      BY <1>1, <1>c, <2>2, <3>1, <3>3 DEF WindowsFit
    <3>4. CASE j = new
      <4>1. windows'[j].first = Len(ts) + 1 /\ windows'[j].fecs = Packets(w) /\ windows'[j].sent = sent
        BY <1>a, <3>4
      <4>2. windows[i].base + windows[i].count <= Len(ts) + 1
        BY <1>1, <3>1 DEF WindowsFit
      <4>3. \A y \in DOMAIN Packets(w) : \A x \in DOMAIN windows[i].fecs :
                windows[i].sent[x] <= sent[y]
        BY <1>2, <3>1 DEF Closed
      <4> QED BY <3>2, <4>1, <4>2, <4>3
    <3> QED BY <1>b, <3>3, <3>4
  <2>3. ASSUME NEW p \in DOMAIN ts' PROVE \E id \in DOMAIN windows' : p \in Labelled(id)'
    <3>1. CASE p \in DOMAIN ts
      <4>1. \E id \in DOMAIN windows : p \in Labelled(id)
        BY <1>1, <3>1 DEF WindowsFit
      <4> QED BY <1>4, <1>5, <4>1
    <3>2. CASE p \notin DOMAIN ts
      <4>1. p \in Labelled(new)' /\ new \in DOMAIN windows'
        BY <1>a, <1>b, <1>4, <1>6, <3>2
      <4> QED BY <4>1
    <3> QED BY <3>1, <3>2
  <2> QED BY <2>1, <2>2, <2>3 DEF WindowsFit
<1>9. LinesFit'
  <2> SUFFICES ASSUME NEW id \in DOMAIN windows', NEW x \in DOMAIN windows'[id].fecs
               PROVE  /\ windows'[id].fecs[x] = Line(id, x)'
                      /\ \A p \in Line(id, x)' : x \in LinesOf(id, p)'
    BY DEF LinesFit
  <2>1. CASE id \in DOMAIN windows
    <3>1. windows'[id] = windows[id]
      BY <1>c, <2>1
    <3> QED BY <1>1, <1>7, <2>1, <3>1 DEF LinesFit
  <2>2. CASE id = new
    <3>1. /\ windows'[id].base = w.base /\ windows'[id].col = w.col
          /\ windows'[id].row = w.row /\ windows'[id].fecs = Packets(w)
      BY <1>a, <2>2
    <3> DEFINE inside == {w.base + i : i \in {j \in Places(w, x) : j < w.count}}
    <3>2. /\ w.col > 1 /\ Places(w, x) \subseteq Nat /\ Packets(w)[x] = inside
          /\ \A i \in Places(w, x) : x \in {i \div w.col, ColumnBit + (i % w.col)}
      <4>1. /\ w.base \in Nat /\ w.count \in 1 .. 100 /\ w.row \in 0 .. w.count /\ w.col \in Nat
            /\ w.matrix => w.row * w.col >= w.count
            /\ x \in DOMAIN Packets(w)
        BY <1>2, <1>4, <3>1 DEF Closed
      <4> QED BY <4>1, LinesLaidOut
    <3>3. Line(id, x)' = {w.base + i : i \in Places(w, x)} \intersect InWindow(id)'
      BY <3>1 DEF Line, Places
    <3>4. Line(id, x)' = inside
      <4>1. \A i \in Places(w, x) : w.base + i \in InWindow(id)' <=> i < w.count
        <5> SUFFICES ASSUME NEW i \in Places(w, x)
                     PROVE  w.base + i \in InWindow(id)' <=> i < w.count
          OBVIOUS
        <5>1. i \in Nat /\ InWindow(id)' = Len(ts) + left + 1 .. Len(ts) + left + n
          BY <1>6, <2>2, <3>2
        <5> QED BY <1>a, <1>4, <5>1
      <4> QED BY <3>3, <4>1
    <3>5. ASSUME NEW p \in Line(id, x)' PROVE x \in LinesOf(id, p)'
      <4>1. PICK i \in Places(w, x) : p = w.base + i
        BY <3>3, <3>5
      <4>2. p - w.base = i
        <5>1. i \in Nat
          BY <3>2
        <5> QED BY <1>a, <1>4, <4>1, <5>1
      <4>3. LinesOf(id, p)' = {i \div w.col, ColumnBit + (i % w.col)}
        BY <3>1, <4>2 DEF LinesOf
      <4> QED BY <3>2, <4>3
    <3> QED BY <3>1, <3>2, <3>4, <3>5
  <2> QED BY <1>b, <2>1, <2>2
\* The receiver sees nothing of it yet.
<1>10. \A id \in DOMAIN flexes : id \in DOMAIN windows
  BY <1>1 DEF TypeOK
<1>11. TypeOK'
  <2>1. {now, max_ts}' \subseteq Nat /\ got' \subseteq DOMAIN ts' /\ segs' \subseteq got'
    BY <1>1, <1>2, <1>3, <1>4 DEF TypeOK, Closed
  <2>2. DOMAIN flexes' \subseteq DOMAIN windows'
    BY <1>3, <1>4, <1>10
  <2>3. flexes' = [id \in DOMAIN flexes' |->
                    [ts |-> flexes'[id].ts, segs |-> flexes'[id].segs,
                     fecs |-> [x \in DOMAIN flexes'[id].fecs |-> windows'[id].fecs[x]]]]
    <3>1. \A id \in DOMAIN flexes : windows'[id] = windows[id]
      BY <1>2, <1>10 DEF Closed
    <3>2. flexes = [id \in DOMAIN flexes |->
                      [ts |-> flexes[id].ts, segs |-> flexes[id].segs,
                       fecs |-> [x \in DOMAIN flexes[id].fecs |-> windows[id].fecs[x]]]]
      BY <1>1 DEF TypeOK
    <3> QED BY <1>3, <3>1, <3>2
  <2>4. \A id \in DOMAIN flexes' :
            /\ flexes'[id].segs \subseteq InWindow(id)'
            /\ DOMAIN flexes'[id].fecs \subseteq DOMAIN windows'[id].fecs
            /\ \E x \in DOMAIN windows'[id].fecs : flexes'[id].ts = windows'[id].sent[x]
    <3>1. \A id \in DOMAIN flexes :
              /\ flexes[id].segs \subseteq InWindow(id)
              /\ DOMAIN flexes[id].fecs \subseteq DOMAIN windows[id].fecs
              /\ \E x \in DOMAIN windows[id].fecs : flexes[id].ts = windows[id].sent[x]
      BY <1>1 DEF TypeOK
    <3> QED BY <1>c, <1>3, <1>5, <1>10, <3>1
  <2> QED BY <1>2, <2>1, <2>2, <2>3, <2>4 DEF TypeOK, Closed
<1>12. WindowSeesCache'
  BY <1>1, <1>3, <1>5, <1>10 DEF WindowSeesCache
<1>13. RebuiltIsGenuine'
  BY <1>3, <1>4 DEF RebuiltIsGenuine
<1>14. NothingMissed'
  <2> SUFFICES ASSUME NEW id \in DOMAIN flexes, NEW x \in DOMAIN flexes[id].fecs,
                      FecReady(flexes[id], id, x)'
               PROVE  Line(id, x) \ flexes[id].segs \subseteq got \union refused \union UNION rebuilt
    BY <1>3, <1>7, <1>10 DEF NothingMissed
  <2>1. FecReady(flexes[id], id, x)
    BY <1>2, <1>3, <1>7, <1>10 DEF FecReady, Closed
  <2> QED BY <2>1 DEF NothingMissed
<1> QED BY <1>8, <1>9, <1>11, <1>12, <1>13, <1>14 DEF CachesAgree

-----------------------------------------------------------------------------
(* One window at the receiver *)

\* A window at the receiver keeps pointers and FEC packets of the sender's window.
FlexOf(f, w) ==
    f = [ts |-> f.ts, segs |-> f.segs, fecs |-> [x \in DOMAIN f.fecs |-> w.fecs[x]]]

FlexFits(f, id) ==
    /\ FlexOf(f, windows[id])
    /\ f.segs \subseteq InWindow(id)
    /\ DOMAIN f.fecs \subseteq DOMAIN windows[id].fecs
    /\ \E x \in DOMAIN windows[id].fecs : f.ts = windows[id].sent[x]

\* TypeOK's description of all windows, window by window.
LEMMA WindowByWindow ==
    ASSUME NEW F, NEW W
    PROVE  (F = [id \in DOMAIN F |-> [ts |-> F[id].ts, segs |-> F[id].segs,
                                      fecs |-> [x \in DOMAIN F[id].fecs |-> W[id].fecs[x]]]])
             <=> /\ F = [id \in DOMAIN F |-> F[id]]
                 /\ \A id \in DOMAIN F : FlexOf(F[id], W[id])
<1> DEFINE shaped(id) == [ts |-> F[id].ts, segs |-> F[id].segs,
                          fecs |-> [x \in DOMAIN F[id].fecs |-> W[id].fecs[x]]]
<1>1. \A id : FlexOf(F[id], W[id]) <=> F[id] = shaped(id)
  BY DEF FlexOf
<1> HIDE DEF shaped
<1>2. (F = [id \in DOMAIN F |-> shaped(id)])
        <=> /\ F = [id \in DOMAIN F |-> F[id]]
            /\ \A id \in DOMAIN F : F[id] = shaped(id)
  OBVIOUS
<1>3. (F = [id \in DOMAIN F |-> shaped(id)])
        <=> F = [id \in DOMAIN F |-> [ts |-> F[id].ts, segs |-> F[id].segs,
                                      fecs |-> [x \in DOMAIN F[id].fecs |-> W[id].fecs[x]]]]
  BY DEF shaped
<1> QED BY <1>1, <1>2, <1>3

LEMMA FlexesFit ==
    ASSUME TypeOK
    PROVE  /\ DOMAIN flexes \subseteq DOMAIN windows
           /\ flexes = [id \in DOMAIN flexes |-> flexes[id]]
           /\ \A id \in DOMAIN flexes : FlexFits(flexes[id], id)
<1>1. flexes = [id \in DOMAIN flexes |->
                  [ts |-> flexes[id].ts, segs |-> flexes[id].segs,
                   fecs |-> [x \in DOMAIN flexes[id].fecs |-> windows[id].fecs[x]]]]
  BY DEF TypeOK
<1>2. /\ flexes = [id \in DOMAIN flexes |-> flexes[id]]
      /\ \A id \in DOMAIN flexes : FlexOf(flexes[id], windows[id])
  BY <1>1, WindowByWindow
<1> QED BY <1>2 DEF TypeOK, FlexFits

\* What a step of the receiver has to show for TypeOK.
LEMMA ReceiverTypeOK ==
    ASSUME TypeOK, UNCHANGED stream,
           max_ts' \in Nat, got' \subseteq DOMAIN ts, segs' \subseteq got',
           flexes' = [id \in DOMAIN flexes' |-> flexes'[id]],
           DOMAIN flexes' \subseteq DOMAIN windows,
           \A id \in DOMAIN flexes' : FlexFits(flexes'[id], id)
    PROVE  TypeOK'
<1>1. now' = now /\ windows' = windows /\ ts' = ts
  BY DEF stream
<1>2. \A id : InWindow(id)' = InWindow(id)
  BY <1>1 DEF InWindow
<1>3. \A id \in DOMAIN flexes' : FlexOf(flexes'[id], windows'[id])
  BY <1>1 DEF FlexFits
<1>4. flexes' = [id \in DOMAIN flexes' |->
                    [ts |-> flexes'[id].ts, segs |-> flexes'[id].segs,
                     fecs |-> [x \in DOMAIN flexes'[id].fecs |-> windows'[id].fecs[x]]]]
  BY <1>3, WindowByWindow
<1>5. \A id \in DOMAIN flexes' :
          /\ flexes'[id].segs \subseteq InWindow(id)'
          /\ DOMAIN flexes'[id].fecs \subseteq DOMAIN windows'[id].fecs
          /\ \E x \in DOMAIN windows'[id].fecs : flexes'[id].ts = windows'[id].sent[x]
  BY <1>1, <1>2 DEF FlexFits
<1>6. /\ {now, max_ts}' \subseteq Nat
      /\ ts' \in Seq(Nat) /\ windows' \in Seq({windows'[id] : id \in DOMAIN windows'})
  BY <1>1 DEF TypeOK
<1> QED BY <1>1, <1>4, <1>5, <1>6 DEF TypeOK

\* What comes out of a line is its missing packet.
LEMMA RecoveredIsMissing ==
    ASSUME LinesFit, NEW id \in DOMAIN windows, NEW flex, FlexFits(flex, id), NEW indexes
    PROVE  Recovered(flex, id, indexes)
             = {Line(id, x) \ flex.segs : x \in {y \in indexes : FecReady(flex, id, y)}}
<1> SUFFICES ASSUME NEW x \in indexes, FecReady(flex, id, x)
             PROVE  SymmetricDifference(flex.fecs[x], Line(id, x) \intersect flex.segs)
                      = Line(id, x) \ flex.segs
  BY DEF Recovered
<1>1. x \in DOMAIN flex.fecs
  BY DEF FecReady
<1>2. flex.fecs[x] = windows[id].fecs[x]
  <2>1. flex.fecs = [y \in DOMAIN flex.fecs |-> windows[id].fecs[y]]
    BY DEF FlexFits, FlexOf
  <2> QED BY <1>1, <2>1
<1>3. flex.fecs[x] = Line(id, x)
  BY <1>1, <1>2 DEF FlexFits, LinesFit
<1> QED BY <1>3 DEF SymmetricDifference

LEMMA RecoveredIsGenuine ==
    ASSUME TypeOK, WindowsFit, LinesFit, NEW id \in DOMAIN windows, NEW flex, FlexFits(flex, id),
           NEW indexes, NEW r \in Recovered(flex, id, indexes)
    PROVE  Cardinality(r) = 1 /\ r \subseteq DOMAIN ts
<1>1. PICK x \in indexes : FecReady(flex, id, x) /\ r = Line(id, x) \ flex.segs
  BY RecoveredIsMissing
<1>2. r = Line(id, x) \ (Line(id, x) \intersect flex.segs)
  BY <1>1
<1>3. Cardinality(r) = 1
  BY <1>1, <1>2 DEF FecReady
<1>4. Line(id, x) \subseteq InWindow(id) /\ InWindow(id) \subseteq DOMAIN ts
  BY WindowRange, LineInWindow
<1> QED BY <1>1, <1>3, <1>4

\* A window never comes back to needing more packets than it had.
LEMMA ReadyBefore ==
    ASSUME TypeOK, WindowsFit, NEW id \in DOMAIN windows, NEW f, NEW g, NEW T, NEW x,
           g.segs \subseteq InWindow(id), g.segs = f.segs \union T, f.fecs = g.fecs,
           T \intersect Line(id, x) = {}, FecReady(g, id, x)
    PROVE  FecReady(f, id, x)
<1>1. InWindow(id) = windows[id].base .. windows[id].base + windows[id].count - 1
  BY WindowRange
<1>2. windows[id].base \in Nat /\ windows[id].count \in Nat
  BY DEF WindowsFit
<1>3. IsFiniteSet(InWindow(id))
  <2> DEFINE a == windows[id].base
             b == windows[id].base + windows[id].count - 1
  <2>1. a \in Int /\ b \in Int /\ InWindow(id) = a .. b
    BY <1>1, <1>2
  <2> HIDE DEF a, b
  <2> QED BY <2>1, FS_Interval
<1>4. /\ Cardinality(f.segs) <= Cardinality(g.segs)
      /\ Cardinality(f.segs) \in Nat /\ Cardinality(g.segs) \in Nat
  <2>1. IsFiniteSet(g.segs) /\ f.segs \subseteq g.segs
    BY <1>3, FS_Subset
  <2>2. IsFiniteSet(f.segs)
    BY <2>1, FS_Subset
  <2> QED BY <2>1, <2>2, FS_Subset, FS_CardinalityType
<1>5. Line(id, x) \intersect f.segs = Line(id, x) \intersect g.segs
  OBVIOUS
<1> QED BY <1>2, <1>4, <1>5 DEF FecReady

LEMMA MaxOfTwo ==
    ASSUME NEW a \in Int, NEW b \in Int
    PROVE  Max({a, b}) \in {a, b}
<1>1. \E m \in {a, b} : \A y \in {a, b} : m >= y
  OBVIOUS
<1> QED BY <1>1 DEF Max

-----------------------------------------------------------------------------
(* A segment is put *)

\* What the window of packet p takes of it.
Taken(p) == {p} \intersect InWindow(FecId(p))

\* The window of packet p with p in it, unless p lies below it.
With(p) == [flexes[FecId(p)] EXCEPT !.segs = @ \union Taken(p)]

\* What comes out of the lines of p then.
Gained(p) == UNION {Recovered(With(p), FecId(p), LinesOf(FecId(p), q)) : q \in Taken(p)}

LEMMA WithFits ==
    ASSUME TypeOK, WindowsFit, NEW p \in DOMAIN ts, FecId(p) \in DOMAIN flexes
    PROVE  /\ FlexFits(With(p), FecId(p))
           /\ With(p).segs = flexes[FecId(p)].segs \union Taken(p)
           /\ With(p).fecs = flexes[FecId(p)].fecs
<1> DEFINE id == FecId(p)
           f == flexes[id]
<1>1. FlexFits(f, id)
  BY FlexesFit
<1>2. f = [ts |-> f.ts, segs |-> f.segs, fecs |-> f.fecs]
  BY <1>1 DEF FlexFits, FlexOf
<1>3. Taken(p) \subseteq InWindow(id)
  BY DEF Taken
<1> HIDE DEF f, id
<1>4. With(p) = [ts |-> f.ts, segs |-> f.segs \union Taken(p), fecs |-> f.fecs]
  BY <1>2 DEF With, f, id
<1>5. With(p).segs = f.segs \union Taken(p) /\ With(p).fecs = f.fecs /\ With(p).ts = f.ts
  BY <1>4
<1>6. f.fecs = [x \in DOMAIN f.fecs |-> windows[id].fecs[x]]
  BY <1>1 DEF FlexFits, FlexOf
<1>7. FlexFits(With(p), id)
  BY <1>1, <1>3, <1>4, <1>5, <1>6 DEF FlexFits, FlexOf
<1> QED BY <1>5, <1>7 DEF f, id

\* What PutSegment does with a packet that is not cached.
LEMMA PutCases ==
    ASSUME NEW p, NEW before, PutSegment(p, before), p \notin segs
    PROVE  LET id == FecId(p)
           IN  /\ max_ts' = Max({ts[p], max_ts})
               /\ \/ /\ id \notin DOMAIN flexes
                     /\ segs' = segs \union {p} /\ rebuilt' = before /\ flexes' = flexes
                  \/ /\ id \in DOMAIN flexes
                     /\ rebuilt' = before \union Gained(p)
                     /\ \/ /\ segs' = (segs \union {p}) \ InWindow(id)
                           /\ flexes' = Drop(flexes, {id})
                        \/ /\ segs' = segs \union {p}
                           /\ flexes' = [flexes EXCEPT ![id] = With(p)]
<1> DEFINE id == FecId(p)
<1>1. Evicted({id}) = InWindow(id)
  BY DEF Evicted
<1> HIDE DEF id
<1> QED BY <1>1 DEF PutSegment, With, Taken, Gained, id

\* The windows after a put: those there were, the one of p with p in it.
LEMMA PutWindows ==
    ASSUME CachesAgree, NEW p \in DOMAIN ts, p \notin got, NEW before, PutSegment(p, before)
    PROVE  /\ flexes' = [k \in DOMAIN flexes' |-> flexes'[k]]
           /\ DOMAIN flexes' \subseteq DOMAIN flexes
           /\ \A k \in DOMAIN flexes' : flexes'[k] = IF k = FecId(p) THEN With(p) ELSE flexes[k]
<1>1. TypeOK /\ p \notin segs
  BY DEF CachesAgree, TypeOK
<1>2. flexes = [k \in DOMAIN flexes |-> flexes[k]]
  BY <1>1, FlexesFit
<1> DEFINE id == FecId(p)
           w == With(p)
<1> HIDE DEF id, w
<1>3. \/ id \notin DOMAIN flexes /\ flexes' = flexes
      \/ id \in DOMAIN flexes /\ flexes' = Drop(flexes, {id})
      \/ id \in DOMAIN flexes /\ flexes' = [flexes EXCEPT ![id] = w]
  BY <1>1, PutCases DEF id, w
<1>4. /\ flexes' = [k \in DOMAIN flexes' |-> flexes'[k]]
      /\ DOMAIN flexes' \subseteq DOMAIN flexes
      /\ \A k \in DOMAIN flexes' : flexes'[k] = IF k = id THEN w ELSE flexes[k]
  <2>1. CASE id \notin DOMAIN flexes /\ flexes' = flexes
    BY <1>2, <2>1
  <2>2. CASE id \in DOMAIN flexes /\ flexes' = Drop(flexes, {id})
    BY <2>2 DEF Drop
  <2>3. CASE id \in DOMAIN flexes /\ flexes' = [flexes EXCEPT ![id] = w]
    BY <1>2, <2>3
  <2> QED BY <1>3, <2>1, <2>2, <2>3
<1> QED BY <1>4 DEF id, w

LEMMA PutKeepsCaches ==
    ASSUME CachesAgree, NEW p \in DOMAIN ts, p \notin got, NEW before, PutSegment(p, before),
           UNCHANGED stream, got' = got \union {p}
    PROVE  CachesAgree'
<1>1. TypeOK /\ WindowsFit /\ LinesFit /\ WindowSeesCache /\ p \notin segs
  BY DEF CachesAgree, TypeOK
<1>2. now' = now /\ windows' = windows /\ ts' = ts
  BY DEF stream
<1>3. WindowsFit' /\ LinesFit' /\ \A k : InWindow(k)' = InWindow(k)
  BY <1>1, StreamStays
<1> DEFINE id == FecId(p)
<1>4. /\ id \in DOMAIN windows
      /\ \A k \in DOMAIN windows : k # id => InWindow(k) \intersect InWindow(id) = {}
                                           /\ p \notin InWindow(k)
  BY <1>1, WindowRange
<1>5. /\ DOMAIN flexes \subseteq DOMAIN windows
      /\ \A k \in DOMAIN flexes : FlexFits(flexes[k], k)
  BY <1>1, FlexesFit
<1>6. /\ flexes' = [k \in DOMAIN flexes' |-> flexes'[k]]
      /\ DOMAIN flexes' \subseteq DOMAIN flexes
      /\ \A k \in DOMAIN flexes' : flexes'[k] = IF k = id THEN With(p) ELSE flexes[k]
  BY PutWindows
<1>7. id \in DOMAIN flexes => /\ FlexFits(With(p), id)
                              /\ With(p).segs = flexes[id].segs \union ({p} \intersect InWindow(id))
  BY <1>1, WithFits DEF Taken
<1>8. max_ts' \in Nat /\ segs' \subseteq segs \union {p}
  <2>1. ts[p] \in Nat /\ max_ts \in Nat
    BY <1>1 DEF TypeOK
  <2>2. Max({ts[p], max_ts}) \in Nat
    BY <2>1, MaxOfTwo
  <2>3. max_ts' = Max({ts[p], max_ts})
    BY <1>1, PutCases
  <2>4. segs' = segs \union {p} \/ segs' = (segs \union {p}) \ InWindow(id)
    BY <1>1, PutCases DEF id
  <2> QED BY <2>2, <2>3, <2>4
<1> HIDE DEF id
<1>9. TypeOK'
  <2>1. \A k \in DOMAIN flexes' : FlexFits(flexes'[k], k)
    BY <1>5, <1>6, <1>7
  <2>2. got' \subseteq DOMAIN ts /\ segs' \subseteq got'
    BY <1>1, <1>8 DEF TypeOK
  <2> QED BY <1>1, <1>5, <1>6, <1>8, <2>1, <2>2, ReceiverTypeOK
<1>10. WindowSeesCache'
  <2> SUFFICES ASSUME NEW k \in DOMAIN flexes'
               PROVE  flexes'[k].segs = segs' \intersect InWindow(k)
    BY <1>3 DEF WindowSeesCache
  <2>1. k \in DOMAIN flexes /\ k \in DOMAIN windows /\ flexes[k].segs = segs \intersect InWindow(k)
    BY <1>1, <1>5, <1>6 DEF WindowSeesCache
  <2>2. CASE k = id
    <3>1. flexes'[k].segs = flexes[id].segs \union ({p} \intersect InWindow(id))
      BY <1>6, <1>7, <2>1, <2>2
    <3>2. segs' = segs \union {p}
      <4>1. flexes' # Drop(flexes, {id})
        BY <2>2 DEF Drop
      <4> QED BY <1>1, <2>1, <2>2, <4>1, PutCases DEF id
    <3> QED BY <1>4, <2>1, <2>2, <3>1, <3>2
  <2>3. CASE k # id
    <3>1. flexes'[k].segs = flexes[k].segs
      BY <1>6, <2>3
    <3>2. segs' = segs \union {p} \/ segs' = (segs \union {p}) \ InWindow(id)
      BY <1>1, PutCases DEF id
    <3>3. InWindow(k) \intersect InWindow(id) = {}
      BY <1>4, <2>1, <2>3
    <3> QED BY <1>4, <2>1, <3>1, <3>2, <3>3
  <2> QED BY <2>2, <2>3
<1> QED BY <1>3, <1>9, <1>10 DEF CachesAgree

LEMMA PutKeepsGenuine ==
    ASSUME CachesAgree, RebuiltIsGenuine, NEW p \in DOMAIN ts, p \notin got,
           NEW before, before \subseteq rebuilt, PutSegment(p, before), UNCHANGED stream
    PROVE  RebuiltIsGenuine'
<1>1. TypeOK /\ WindowsFit /\ LinesFit /\ p \notin segs
  BY DEF CachesAgree, TypeOK
<1>2. ts' = ts
  BY DEF stream
<1> DEFINE id == FecId(p)
<1>3. id \in DOMAIN flexes => \A r \in Gained(p) : Cardinality(r) = 1 /\ r \subseteq DOMAIN ts
  <2> SUFFICES ASSUME id \in DOMAIN flexes, NEW q \in Taken(p),
                      NEW r \in Recovered(With(p), id, LinesOf(id, q))
               PROVE  Cardinality(r) = 1 /\ r \subseteq DOMAIN ts
    BY DEF Gained
  <2>1. FlexFits(With(p), id) /\ id \in DOMAIN windows
    BY <1>1, WithFits, WindowRange
  <2> HIDE DEF id
  <2> QED BY <1>1, <2>1, RecoveredIsGenuine
<1>4. \/ rebuilt' = before
      \/ id \in DOMAIN flexes /\ rebuilt' = before \union Gained(p)
  BY <1>1, PutCases
<1> HIDE DEF id
<1> QED BY <1>2, <1>3, <1>4 DEF RebuiltIsGenuine

LEMMA PutKeepsNothingMissed ==
    ASSUME CachesAgree, NothingMissed, NEW p \in DOMAIN ts, p \notin got,
           NEW before, PutSegment(p, before), UNCHANGED stream,
           got' = got \union {p}, refused' = refused,
           \A r \in rebuilt \ before : r \subseteq {p}
    PROVE  NothingMissed'
<1>1. TypeOK /\ WindowsFit /\ LinesFit /\ p \notin segs
  BY DEF CachesAgree, TypeOK
<1> DEFINE id == FecId(p)
<1>2. /\ DOMAIN flexes' \subseteq DOMAIN flexes /\ DOMAIN flexes \subseteq DOMAIN windows
      /\ \A k \in DOMAIN flexes' : flexes'[k] = IF k = id THEN With(p) ELSE flexes[k]
  BY <1>1, PutWindows, FlexesFit
<1>3. before \subseteq rebuilt'
  <2>1. \/ rebuilt' = before
        \/ rebuilt' = before \union Gained(p)
    BY <1>1, PutCases
  <2> QED BY <2>1
<1> HIDE DEF id
<1> SUFFICES ASSUME NEW k \in DOMAIN flexes', NEW x \in DOMAIN flexes'[k].fecs,
                    FecReady(flexes'[k], k, x), NEW m \in Line(k, x) \ flexes'[k].segs
             PROVE  m \in got' \union refused' \union UNION rebuilt'
  BY <1>1, StreamStays DEF NothingMissed
<1>4. ASSUME x \in DOMAIN flexes[k].fecs, FecReady(flexes[k], k, x),
             m \notin flexes[k].segs
      PROVE  m \in got' \union refused' \union UNION rebuilt'
  <2>1. m \in got \union refused \union UNION rebuilt
    BY <1>2, <1>4 DEF NothingMissed
  <2>2. CASE \E r \in rebuilt : m \in r
    <3>1. PICK r \in rebuilt : m \in r
      BY <2>2
    <3>2. CASE r \in before
      BY <1>3, <3>1, <3>2
    <3>3. CASE r \notin before
      BY <3>1, <3>3
    <3> QED BY <3>2, <3>3
  <2> QED BY <2>1, <2>2
<1>5. CASE k # id
  BY <1>2, <1>4, <1>5
<1>6. CASE k = id
  <2>1. flexes'[k] = With(p) /\ k \in DOMAIN flexes /\ k \in DOMAIN windows
    BY <1>2, <1>6
  <2>2. /\ FlexFits(With(p), k)
        /\ With(p).segs = flexes[k].segs \union Taken(p) /\ With(p).fecs = flexes[k].fecs
    BY <1>1, <1>6, <2>1, WithFits DEF id
  <2>3. CASE p \notin Line(k, x)
    <3>1. With(p).segs \subseteq InWindow(k) /\ FecReady(With(p), k, x)
      BY <2>1, <2>2 DEF FlexFits
    <3> DEFINE f == flexes[k]
               g == With(p)
    <3>2. /\ g.segs \subseteq InWindow(k) /\ g.segs = f.segs \union Taken(p)
          /\ f.fecs = g.fecs /\ Taken(p) \intersect Line(k, x) = {}
      BY <2>2, <2>3, <3>1 DEF Taken
    <3>3. FecReady(g, k, x)
      BY <3>1
    <3> HIDE DEF f, g
    <3>4. FecReady(f, k, x)
      BY <1>1, <2>1, <2>3, <3>2, <3>3, ReadyBefore
    <3> QED BY <1>4, <2>1, <2>2, <3>4 DEF f
  <2>4. CASE p \in Line(k, x)
    <3>1. x \in LinesOf(k, p)
      BY <1>1, <2>1, <2>2, <2>4 DEF FlexFits, LinesFit
    <3>2. Line(k, x) \ With(p).segs \in Recovered(With(p), k, LinesOf(k, p))
      BY <1>1, <2>1, <2>2, <3>1, RecoveredIsMissing
    <3>3. p \in Taken(p)
      BY <1>6, <2>4 DEF Taken, Line, id
    <3>4. Line(k, x) \ With(p).segs \in Gained(p)
      BY <1>6, <3>2, <3>3 DEF Gained, id
    <3>5. rebuilt' = before \union Gained(p)
      BY <1>1, <1>6, <2>1, PutCases DEF id
    <3> QED BY <2>1, <3>4, <3>5
  <2> QED BY <2>3, <2>4
<1> QED BY <1>5, <1>6

-----------------------------------------------------------------------------
(* The actions of the receiver *)

FecInv == CachesAgree /\ RebuiltIsGenuine /\ NothingMissed

LEMMA ReceiveSegmentKeeps ==
    ASSUME FecInv, NEW p \in DOMAIN ts, ReceiveSegment(p)
    PROVE  FecInv'
<1>1. /\ CachesAgree /\ RebuiltIsGenuine /\ NothingMissed
      /\ p \notin got /\ PutSegment(p, {}) /\ UNCHANGED stream
      /\ got' = got \union {p} /\ refused' = refused /\ rebuilt = {}
  BY DEF FecInv, ReceiveSegment
<1>2. CachesAgree'
  BY <1>1, PutKeepsCaches
<1>3. RebuiltIsGenuine'
  BY <1>1, PutKeepsGenuine
<1>4. NothingMissed'
  BY <1>1, PutKeepsNothingMissed
<1> QED BY <1>2, <1>3, <1>4 DEF FecInv

LEMMA RecoverKeeps ==
    ASSUME FecInv, Recover
    PROVE  FecInv'
<1>1. CachesAgree /\ RebuiltIsGenuine /\ NothingMissed /\ UNCHANGED stream
  BY DEF FecInv, Recover
<1>a. PICK r \in rebuilt : \E p \in r :
        \/ /\ p \in DOMAIN ts /\ p \notin got
           /\ got' = got \union {p}
           /\ PutSegment(p, rebuilt \ {r})
           /\ refused' = refused
        \/ /\ refused' = refused \union {p}
           /\ rebuilt' = rebuilt \ {r}
           /\ UNCHANGED <<got, segs, flexes, max_ts>>
  BY DEF Recover
<1>2. PICK p \in r :
        \/ /\ p \in DOMAIN ts /\ p \notin got
           /\ got' = got \union {p}
           /\ PutSegment(p, rebuilt \ {r})
           /\ refused' = refused
        \/ /\ refused' = refused \union {p}
           /\ rebuilt' = rebuilt \ {r}
           /\ UNCHANGED <<got, segs, flexes, max_ts>>
  BY <1>a
<1>3. r = {p}
  <2>1. Cardinality(r) = 1 /\ r \subseteq DOMAIN ts
    BY <1>1 DEF RebuiltIsGenuine
  <2>2. IsFiniteSet(r)
    <3>1. DOMAIN ts = 1 .. Len(ts) /\ Len(ts) \in Nat
      BY <1>1 DEF CachesAgree, TypeOK
    <3>2. IsFiniteSet(DOMAIN ts)
      BY <3>1, FS_Interval
    <3> QED BY <2>1, <3>2, FS_Subset
  <2>3. \E y : r = {y}
    BY <2>1, <2>2, FS_Singleton
  <2> QED BY <2>3
<1>5. CASE /\ p \in DOMAIN ts /\ p \notin got
           /\ got' = got \union {p}
           /\ PutSegment(p, rebuilt \ {r})
           /\ refused' = refused
  <2> DEFINE before == rebuilt \ {r}
  <2>1. before \subseteq rebuilt /\ \A s \in rebuilt \ before : s \subseteq {p}
    BY <1>3
  <2>2. PutSegment(p, before)
    BY <1>5
  <2> HIDE DEF before
  <2>3. CachesAgree'
    BY <1>1, <1>5, <2>2, PutKeepsCaches
  <2>4. RebuiltIsGenuine'
    BY <1>1, <1>5, <2>1, <2>2, PutKeepsGenuine
  <2>5. NothingMissed'
    BY <1>1, <1>5, <2>1, <2>2, PutKeepsNothingMissed
  <2> QED BY <2>3, <2>4, <2>5 DEF FecInv
<1>6. CASE /\ refused' = refused \union {p}
           /\ rebuilt' = rebuilt \ {r}
           /\ UNCHANGED <<got, segs, flexes, max_ts>>
  <2>1. TypeOK /\ WindowsFit /\ LinesFit /\ WindowSeesCache
    BY <1>1 DEF CachesAgree
  <2>2. now' = now /\ windows' = windows /\ ts' = ts
    BY <1>1 DEF stream
  <2>3. /\ WindowsFit' /\ LinesFit'
        /\ \A k : InWindow(k)' = InWindow(k)
        /\ \A k, x : Line(k, x)' = Line(k, x)
        /\ \A f, k, x : FecReady(f, k, x)' <=> FecReady(f, k, x)
    BY <1>1, <2>1, StreamStays
  <2>4. TypeOK'
    BY <1>6, <2>1, <2>2, <2>3 DEF TypeOK
  <2>5. WindowSeesCache'
    BY <1>6, <2>1, <2>3 DEF WindowSeesCache
  <2>6. RebuiltIsGenuine'
    BY <1>1, <1>6, <2>2 DEF RebuiltIsGenuine
  <2>7. NothingMissed'
    <3> SUFFICES ASSUME NEW k \in DOMAIN flexes, NEW x \in DOMAIN flexes[k].fecs,
                        FecReady(flexes[k], k, x), NEW m \in Line(k, x) \ flexes[k].segs
                 PROVE  m \in got' \union refused' \union UNION rebuilt'
      BY <1>6, <2>3 DEF NothingMissed
    <3>1. m \in got \union refused \union UNION rebuilt
      BY <1>1 DEF NothingMissed
    <3>2. CASE \E s \in rebuilt : m \in s
      <4>1. PICK s \in rebuilt : m \in s
        BY <3>2
      <4>2. CASE s = r
        BY <1>3, <1>6, <4>1, <4>2
      <4>3. CASE s # r
        BY <1>6, <4>1, <4>3
      <4> QED BY <4>2, <4>3
    <3> QED BY <1>6, <3>1, <3>2
  <2> QED BY <2>3, <2>4, <2>5, <2>6, <2>7 DEF FecInv, CachesAgree
<1> QED BY <1>2, <1>5, <1>6

LEMMA ReceiveFecKeeps ==
    ASSUME FecInv, NEW id \in DOMAIN windows, NEW index \in DOMAIN windows[id].fecs,
           ReceiveFec(id, index)
    PROVE  FecInv'
<1> DEFINE flex == IF id \in DOMAIN flexes THEN flexes[id] ELSE Opened(id, index)
           contents == windows[id].fecs[index]
           more == [flex EXCEPT !.fecs = [x \in DOMAIN @ \union {index} |->
                                             IF x = index THEN contents ELSE @[x]]]
<1>1. /\ CachesAgree /\ RebuiltIsGenuine /\ NothingMissed
      /\ TypeOK /\ WindowsFit /\ LinesFit /\ WindowSeesCache
  BY DEF FecInv, CachesAgree
<1>2. /\ rebuilt = {} /\ index \notin DOMAIN flex.fecs
      /\ flexes' = [x \in DOMAIN flexes \union {id} |-> IF x = id THEN more ELSE flexes[x]]
      /\ rebuilt' = Recovered(more, id, {index})
      /\ UNCHANGED stream /\ got' = got /\ refused' = refused /\ segs' = segs
      /\ max_ts' = max_ts
  BY DEF ReceiveFec
<1>3. /\ WindowsFit' /\ LinesFit'
      /\ \A k : InWindow(k)' = InWindow(k)
      /\ \A k, x : Line(k, x)' = Line(k, x)
      /\ \A f, k, x : FecReady(f, k, x)' <=> FecReady(f, k, x)
  BY <1>1, <1>2, StreamStays
<1>4. /\ DOMAIN flexes \subseteq DOMAIN windows
      /\ \A k \in DOMAIN flexes : FlexFits(flexes[k], k)
  BY <1>1, FlexesFit
<1>5. FlexFits(flex, id) /\ flex.segs = segs \intersect InWindow(id)
  <2>1. CASE id \in DOMAIN flexes
    BY <1>1, <1>4, <2>1 DEF WindowSeesCache
  <2>2. CASE id \notin DOMAIN flexes
    <3>1. flex = [ts |-> windows[id].sent[index], segs |-> segs \intersect InWindow(id),
                  fecs |-> << >>]
      BY <2>2 DEF Opened
    <3>2. DOMAIN << >> = {} /\ << >> = [x \in {} |-> windows[id].fecs[x]]
      OBVIOUS
    <3> HIDE DEF flex
    <3>3. /\ flex.segs = segs \intersect InWindow(id) /\ flex.fecs = << >>
          /\ flex.ts = windows[id].sent[index]
      BY <3>1
    <3>4. flex.fecs = [x \in DOMAIN flex.fecs |-> windows[id].fecs[x]]
      BY <3>2, <3>3
    <3>5. flex = [ts |-> flex.ts, segs |-> flex.segs, fecs |-> flex.fecs]
      BY <3>1, <3>3
    <3>6. FlexOf(flex, windows[id])
      BY <3>4, <3>5 DEF FlexOf
    <3> QED BY <3>2, <3>3, <3>6 DEF FlexFits
  <2> QED BY <2>1, <2>2
<1> HIDE DEF flex
\* The window with one FEC packet more
<1>6. /\ FlexFits(more, id) /\ more.segs = flex.segs
      /\ DOMAIN more.fecs = DOMAIN flex.fecs \union {index}
      /\ flex.segs = more.segs
  <2>1. /\ flex = [ts |-> flex.ts, segs |-> flex.segs, fecs |-> flex.fecs]
        /\ flex.fecs = [x \in DOMAIN flex.fecs |-> windows[id].fecs[x]]
    BY <1>5 DEF FlexFits, FlexOf
  <2> DEFINE fecs == [x \in DOMAIN flex.fecs \union {index} |->
                         IF x = index THEN contents ELSE flex.fecs[x]]
  <2>2. more = [ts |-> flex.ts, segs |-> flex.segs, fecs |-> fecs]
    BY <2>1
  <2>3. fecs = [x \in DOMAIN fecs |-> windows[id].fecs[x]]
    BY <2>1
  <2>4. DOMAIN fecs = DOMAIN flex.fecs \union {index}
    OBVIOUS
  <2> HIDE DEF more, fecs
  <2>5. more.segs = flex.segs /\ more.fecs = fecs /\ more.ts = flex.ts
    BY <2>2
  <2>6. FlexOf(more, windows[id])
    BY <2>2, <2>3, <2>5 DEF FlexOf
  <2> QED BY <1>5, <2>4, <2>5, <2>6 DEF FlexFits
<1> HIDE DEF more
<1>7. /\ flexes' = [k \in DOMAIN flexes' |-> flexes'[k]]
      /\ DOMAIN flexes' = DOMAIN flexes \union {id} /\ flexes'[id] = more
      /\ \A k \in DOMAIN flexes' : k # id => k \in DOMAIN flexes /\ flexes'[k] = flexes[k]
  BY <1>2
<1>8. CachesAgree'
  <2>1. TypeOK'
    <3>1. max_ts' \in Nat /\ got' \subseteq DOMAIN ts /\ segs' \subseteq got'
      BY <1>1, <1>2 DEF TypeOK
    <3>2. \A k \in DOMAIN flexes' : FlexFits(flexes'[k], k)
      BY <1>4, <1>6, <1>7
    <3>3. DOMAIN flexes' \subseteq DOMAIN windows
      BY <1>4, <1>7
    <3> QED BY <1>1, <1>2, <1>7, <3>1, <3>2, <3>3, ReceiverTypeOK
  <2>2. WindowSeesCache'
    <3> SUFFICES ASSUME NEW k \in DOMAIN flexes'
                 PROVE  flexes'[k].segs = segs \intersect InWindow(k)
      BY <1>2, <1>3 DEF WindowSeesCache
    <3>1. CASE k = id
      BY <1>5, <1>6, <1>7, <3>1
    <3>2. CASE k # id
      BY <1>1, <1>7, <3>2 DEF WindowSeesCache
    <3> QED BY <3>1, <3>2
  <2> QED BY <1>3, <2>1, <2>2 DEF CachesAgree
<1>9. RebuiltIsGenuine'
  <2>1. \A r \in Recovered(more, id, {index}) : Cardinality(r) = 1 /\ r \subseteq DOMAIN ts
    <3> SUFFICES ASSUME NEW r \in Recovered(more, id, {index})
                 PROVE  Cardinality(r) = 1 /\ r \subseteq DOMAIN ts
      OBVIOUS
    <3> QED BY <1>1, <1>6, RecoveredIsGenuine
  <2>2. ts' = ts
    BY <1>2 DEF stream
  <2> QED BY <1>2, <2>1, <2>2 DEF RebuiltIsGenuine
<1>10. NothingMissed'
  <2> SUFFICES ASSUME NEW k \in DOMAIN flexes', NEW x \in DOMAIN flexes'[k].fecs,
                      FecReady(flexes'[k], k, x), NEW m \in Line(k, x) \ flexes'[k].segs
               PROVE  m \in got' \union refused' \union UNION rebuilt'
    BY <1>3 DEF NothingMissed
  <2>1. ASSUME k \in DOMAIN flexes, x \in DOMAIN flexes[k].fecs, FecReady(flexes[k], k, x),
               m \notin flexes[k].segs
        PROVE  m \in got' \union refused' \union UNION rebuilt'
    <3>1. m \in got \union refused \union UNION rebuilt
      BY <1>1, <2>1 DEF NothingMissed
    <3>2. ~\E r \in rebuilt : m \in r
      BY <1>2
    <3> QED BY <1>2, <3>1, <3>2
  <2>2. CASE k # id
    BY <1>7, <2>1, <2>2
  <2>3. CASE k = id /\ x = index
    <3>1. Recovered(more, id, {index})
            = {Line(id, y) \ more.segs : y \in {z \in {index} : FecReady(more, id, z)}}
      BY <1>1, <1>6, RecoveredIsMissing
    <3>2. Line(id, index) \ more.segs \in Recovered(more, id, {index})
      BY <1>7, <2>3, <3>1
    <3> QED BY <1>2, <1>7, <2>3, <3>2
  <2>4. CASE k = id /\ x # index
    <3>1. x \in DOMAIN flex.fecs /\ FecReady(more, id, x)
      BY <1>6, <1>7, <2>4
    <3>2. id \in DOMAIN flexes /\ flex = flexes[id]
      BY <3>1 DEF flex, Opened
    <3>3. FecReady(flex, id, x)
      BY <1>6, <3>1 DEF FecReady
    <3> QED BY <1>6, <1>7, <2>1, <2>4, <3>1, <3>2, <3>3
  <2> QED BY <2>2, <2>3, <2>4
<1> QED BY <1>8, <1>9, <1>10 DEF FecInv

\* Windows that follow one that is in time are in time, and so are their packets.
LEMMA KeptInTime ==
    ASSUME CachesAgree, NEW id \in DOMAIN flexes,
           id \notin Leading(DOMAIN flexes,
                             {k \in DOMAIN flexes : Expired(k) \/ Full(flexes[k], k)})
    PROVE  /\ flexes[id].ts + EvictDelay > max_ts
           /\ \A p \in InWindow(id) : ~(ts[p] + 2 * EvictDelay < max_ts)
<1>1. TypeOK /\ WindowsFit
  BY DEF CachesAgree
<1>2. PICK k \in DOMAIN flexes : k <= id /\ ~Expired(k)
  BY DEF Leading
<1>3. k \in DOMAIN windows /\ id \in DOMAIN windows /\ k \in Nat /\ id \in Nat
  BY <1>1 DEF TypeOK
<1>4. /\ EvictDelay \in Nat /\ MaxSpan \in Nat /\ MaxWait \in Nat
      /\ MaxSpan + MaxWait < EvictDelay /\ max_ts \in Nat
  BY <1>1, FecAssumption DEF TypeOK
<1>a. PICK x \in DOMAIN windows[k].fecs : flexes[k].ts = windows[k].sent[x]
  BY <1>1, <1>2 DEF TypeOK
<1>b. PICK y \in DOMAIN windows[id].fecs : flexes[id].ts = windows[id].sent[y]
  BY <1>1 DEF TypeOK
<1>5. flexes[k].ts \in Nat /\ flexes[id].ts \in Nat
  BY <1>1, <1>3, <1>a, <1>b DEF WindowsFit
<1>6. flexes[k].ts <= flexes[id].ts
  <2>1. CASE k = id
    BY <1>5, <2>1
  <2>2. CASE k < id
    BY <1>1, <1>3, <1>a, <1>b, <2>2 DEF WindowsFit
  <2> QED BY <1>2, <1>3, <2>1, <2>2
<1>7. ~(flexes[k].ts + EvictDelay <= max_ts)
  BY <1>2 DEF Expired
<1>8. flexes[id].ts + EvictDelay > max_ts
  BY <1>4, <1>5, <1>6, <1>7
<1>9. ASSUME NEW p \in InWindow(id) PROVE ~(ts[p] + 2 * EvictDelay < max_ts)
  <2>1. ts[p] \in Nat
    <3>1. p \in DOMAIN ts
      BY DEF InWindow
    <3> QED BY <1>1, <3>1 DEF TypeOK
  <2>2. ts[p] + MaxSpan + MaxWait >= flexes[id].ts
    BY <1>1, <1>3, <1>b DEF WindowsFit
  <2> QED BY <1>4, <1>5, <1>8, <2>1, <2>2
<1> QED BY <1>8, <1>9

LEMMA EvictKeeps ==
    ASSUME FecInv, Evict
    PROVE  FecInv'
<1> DEFINE ended == Leading(DOMAIN flexes,
                            {k \in DOMAIN flexes : Expired(k) \/ Full(flexes[k], k)})
           kept == segs \ Evicted(ended)
           aged == Leading(kept, {p \in kept : ts[p] + 2 * EvictDelay < max_ts})
<1>1. /\ CachesAgree /\ RebuiltIsGenuine /\ NothingMissed
      /\ TypeOK /\ WindowsFit /\ LinesFit /\ WindowSeesCache
  BY DEF FecInv, CachesAgree
<1>2. /\ rebuilt = {} /\ flexes' = Drop(flexes, ended) /\ segs' = kept \ aged
      /\ UNCHANGED stream /\ got' = got /\ refused' = refused
      /\ rebuilt' = rebuilt /\ max_ts' = max_ts
  BY DEF Evict
<1>3. /\ WindowsFit' /\ LinesFit'
      /\ \A k : InWindow(k)' = InWindow(k)
      /\ \A k, x : Line(k, x)' = Line(k, x)
      /\ \A f, k, x : FecReady(f, k, x)' <=> FecReady(f, k, x)
  BY <1>1, <1>2, StreamStays
<1>4. /\ DOMAIN flexes \subseteq DOMAIN windows
      /\ \A k \in DOMAIN flexes : FlexFits(flexes[k], k)
  BY <1>1, FlexesFit
<1>5. /\ ended \subseteq DOMAIN flexes
      /\ aged \subseteq {p \in kept : ts[p] + 2 * EvictDelay < max_ts}
      /\ kept \subseteq segs
  <2>1. \A S, T : Leading(S, T) \subseteq S
    BY DEF Leading
  <2>2. \A S, T : (\A x \in S : x <= x) => Leading(S, T) \subseteq T
    BY DEF Leading
  <2>3. ended \subseteq DOMAIN flexes
    BY <2>1
  <2>4. \A x \in kept : x <= x
    <3>1. kept \subseteq 1 .. Len(ts)
      BY <1>1 DEF TypeOK
    <3> QED BY <3>1
  <2>5. aged \subseteq {p \in kept : ts[p] + 2 * EvictDelay < max_ts}
    <3> HIDE DEF kept
    <3> QED BY <2>2, <2>4
  <2> QED BY <2>3, <2>5
<1>6. \A k \in DOMAIN flexes \ ended : \A p \in InWindow(k) : ~(ts[p] + 2 * EvictDelay < max_ts)
  BY <1>1, KeptInTime
<1>7. /\ flexes' = [k \in DOMAIN flexes' |-> flexes'[k]]
      /\ DOMAIN flexes' = DOMAIN flexes \ ended
      /\ \A k \in DOMAIN flexes' : flexes'[k] = flexes[k]
  <2> HIDE DEF ended
  <2> QED BY <1>2 DEF Drop
<1>8. \A k \in DOMAIN flexes \ ended : Evicted(ended) \intersect InWindow(k) = {}
  <2> SUFFICES ASSUME NEW k \in DOMAIN flexes \ ended, NEW i \in ended
               PROVE  InWindow(i) \intersect InWindow(k) = {}
    BY DEF Evicted
  <2>1. i \in DOMAIN windows /\ k \in DOMAIN windows /\ i # k
    BY <1>4, <1>5
  <2> QED BY <1>1, <2>1, WindowRange
<1> HIDE DEF ended, aged
<1>9. TypeOK'
  <2>1. max_ts' \in Nat /\ got' \subseteq DOMAIN ts /\ segs' \subseteq got'
    BY <1>1, <1>2, <1>5 DEF TypeOK
  <2>2. \A k \in DOMAIN flexes' : FlexFits(flexes'[k], k)
    BY <1>4, <1>7
  <2>3. DOMAIN flexes' \subseteq DOMAIN windows
    BY <1>4, <1>7
  <2> QED BY <1>1, <1>2, <1>7, <2>1, <2>2, <2>3, ReceiverTypeOK
<1>10. WindowSeesCache'
  <2> SUFFICES ASSUME NEW k \in DOMAIN flexes \ ended
               PROVE  flexes[k].segs = segs' \intersect InWindow(k)
    BY <1>3, <1>7 DEF WindowSeesCache
  <2>1. flexes[k].segs = segs \intersect InWindow(k)
    BY <1>1 DEF WindowSeesCache
  <2>2. kept \intersect InWindow(k) = segs \intersect InWindow(k)
    BY <1>8
  <2>3. aged \intersect InWindow(k) = {}
    BY <1>5, <1>6
  <2> HIDE DEF kept
  <2> QED BY <1>2, <2>1, <2>2, <2>3
<1>11. RebuiltIsGenuine'
  BY <1>2 DEF RebuiltIsGenuine
<1>12. NothingMissed'
  <2> SUFFICES ASSUME NEW k \in DOMAIN flexes', NEW x \in DOMAIN flexes[k].fecs,
                      FecReady(flexes[k], k, x)
               PROVE  Line(k, x) \ flexes[k].segs \subseteq got \union refused \union UNION rebuilt
    BY <1>2, <1>3, <1>7 DEF NothingMissed
  <2> QED BY <1>1, <1>7 DEF NothingMissed
<1> QED BY <1>3, <1>9, <1>10, <1>11, <1>12 DEF FecInv, CachesAgree

-----------------------------------------------------------------------------
(* The theorems *)

\* Empty caches fit an empty stream, at the start and after a reset.
LEMMA InitFits ==
    ASSUME Init
    PROVE  FecInv
<1>0. /\ now = 0 /\ windows = << >> /\ ts = << >> /\ got = {} /\ segs = {}
      /\ flexes = << >> /\ rebuilt = {} /\ max_ts = 0
  BY DEF Init
<1>1. DOMAIN windows = {} /\ DOMAIN ts = {} /\ DOMAIN flexes = {}
  BY <1>0
<1>2. flexes = [id \in {} |-> [ts |-> flexes[id].ts, segs |-> flexes[id].segs,
                                fecs |-> [x \in DOMAIN flexes[id].fecs |-> windows[id].fecs[x]]]]
  BY <1>0
<1>3. ts \in Seq(Nat) /\ windows \in Seq({windows[id] : id \in DOMAIN windows})
  BY <1>0
<1>4. TypeOK
  BY <1>0, <1>1, <1>2, <1>3 DEF TypeOK
<1>5. WindowsFit /\ LinesFit /\ WindowSeesCache
  BY <1>1 DEF WindowsFit, LinesFit, WindowSeesCache
<1>6. RebuiltIsGenuine /\ NothingMissed
  BY <1>0, <1>1 DEF RebuiltIsGenuine, NothingMissed
<1> QED BY <1>4, <1>5, <1>6 DEF FecInv, CachesAgree

LEMMA ResetKeeps ==
    ASSUME Reset
    PROVE  FecInv'
<1>0. /\ now' = 0 /\ windows' = << >> /\ ts' = << >> /\ got' = {} /\ segs' = {}
      /\ flexes' = << >> /\ rebuilt' = {} /\ max_ts' = 0
  BY DEF Reset
<1>1. DOMAIN windows' = {} /\ DOMAIN ts' = {} /\ DOMAIN flexes' = {}
  BY <1>0
<1>2. flexes' = [id \in {} |-> [ts |-> flexes'[id].ts, segs |-> flexes'[id].segs,
                                fecs |-> [x \in DOMAIN flexes'[id].fecs |-> windows'[id].fecs[x]]]]
  BY <1>0
<1>3. ts' \in Seq(Nat) /\ windows' \in Seq({windows'[id] : id \in DOMAIN windows'})
  BY <1>0
<1>4. TypeOK'
  BY <1>0, <1>1, <1>2, <1>3 DEF TypeOK
<1>5. WindowsFit' /\ LinesFit' /\ WindowSeesCache'
  BY <1>1 DEF WindowsFit, LinesFit, WindowSeesCache
<1>6. RebuiltIsGenuine' /\ NothingMissed'
  BY <1>0, <1>1 DEF RebuiltIsGenuine, NothingMissed
<1> QED BY <1>4, <1>5, <1>6 DEF FecInv, CachesAgree

LEMMA FecInductive ==
    ASSUME FecInv, [Next]_vars
    PROVE  FecInv'
<1>1. CASE \E plan \in Plans, age \in 0 .. MaxSpan, gap \in Gaps, left \in 0 .. MaxLeft :
              CloseWindow(plan[1], plan[2], age, gap, left)
  BY <1>1, CloseWindowKeeps DEF FecInv
<1>2. CASE \E p \in DOMAIN ts : ReceiveSegment(p)
  BY <1>2, ReceiveSegmentKeeps
<1>3. CASE \E id \in DOMAIN windows : \E index \in DOMAIN windows[id].fecs : ReceiveFec(id, index)
  BY <1>3, ReceiveFecKeeps
<1>4. CASE Recover
  BY <1>4, RecoverKeeps
<1>5. CASE Evict
  BY <1>5, EvictKeeps
<1>6. CASE Reset
  BY <1>6, ResetKeeps
<1>7. CASE UNCHANGED vars
  <2>1. /\ UNCHANGED stream /\ got' = got /\ refused' = refused /\ segs' = segs
        /\ flexes' = flexes /\ rebuilt' = rebuilt /\ max_ts' = max_ts
    BY <1>7 DEF vars, stream
  <2>2. now' = now /\ windows' = windows /\ ts' = ts
    BY <2>1 DEF stream
  <2>3. /\ CachesAgree /\ TypeOK /\ WindowsFit /\ LinesFit /\ WindowSeesCache
        /\ RebuiltIsGenuine /\ NothingMissed
    BY DEF FecInv, CachesAgree
  <2>4. /\ WindowsFit' /\ LinesFit'
        /\ \A k : InWindow(k)' = InWindow(k)
        /\ \A k, x : Line(k, x)' = Line(k, x)
        /\ \A f, k, x : FecReady(f, k, x)' <=> FecReady(f, k, x)
    BY <2>1, <2>3, StreamStays
  <2>5. TypeOK' /\ WindowSeesCache'
    BY <2>1, <2>2, <2>3, <2>4 DEF TypeOK, WindowSeesCache
  <2>6. RebuiltIsGenuine' /\ NothingMissed'
    BY <2>1, <2>2, <2>3, <2>4 DEF RebuiltIsGenuine, NothingMissed
  <2> QED BY <2>4, <2>5, <2>6 DEF FecInv, CachesAgree
<1> QED BY <1>1, <1>2, <1>3, <1>4, <1>5, <1>6, <1>7 DEF Next

LEMMA FecAlways == Spec => []FecInv
<1>1. Init => FecInv
  BY InitFits
<1>2. FecInv /\ [Next]_vars => FecInv'
  BY FecInductive
<1> QED BY <1>1, <1>2, PTL DEF Spec

\* The windows share out the stream, sender and receiver lay out the same
\* lines, and a window points to all and only the segments of its range that
\* segs_cache owns (sim_fec.c:171-241), for windows of any size.
THEOREM FecCachesAgree == Spec => []CachesAgree
<1>1. FecInv => CachesAgree
  BY DEF FecInv
<1> QED BY <1>1, FecAlways, PTL

\* Whatever FEC rebuilds is one packet of the stream, the one that was missing
\* from a line (flex_fec_xor.c:55).
THEOREM FecRebuildsPackets == Spec => []RebuiltIsGenuine
<1>1. FecInv => RebuiltIsGenuine
  BY DEF FecInv
<1> QED BY <1>1, FecAlways, PTL

\* No packet that a line and its FEC packet give away is left over, whatever
\* order they come in (sim_receiver.c:782-806).
THEOREM FecMissesNothing == Spec => []NothingMissed
<1>1. FecInv => NothingMissed
  BY DEF FecInv
<1> QED BY <1>1, FecAlways, PTL

\* After the timer no window is out of date, although its walk stops at the
\* first that is not (sim_fec.c:210-241).
THEOREM FecTimerEvicts == Spec => NoneOutlivesTimer
<1>1. FecInv /\ [Next]_vars
        => [Evict => \A id \in DOMAIN flexes' : flexes'[id].ts + EvictDelay > max_ts]_vars
  <2> SUFFICES ASSUME FecInv, Evict, NEW id \in DOMAIN flexes'
               PROVE  flexes'[id].ts + EvictDelay > max_ts
    OBVIOUS
  <2> DEFINE ended == Leading(DOMAIN flexes,
                              {k \in DOMAIN flexes : Expired(k) \/ Full(flexes[k], k)})
  <2>1. flexes' = Drop(flexes, ended)
    BY DEF Evict
  <2>2. id \in DOMAIN flexes /\ id \notin ended /\ flexes'[id] = flexes[id]
    <3> HIDE DEF ended
    <3> QED BY <2>1 DEF Drop
  <2>3. CachesAgree
    BY DEF FecInv
  <2> QED BY <2>2, <2>3, KeptInTime
<1> QED BY <1>1, FecAlways, PTL DEF Spec, NoneOutlivesTimer
=============================================================================
