---------------------------- MODULE SudokuProofs ----------------------------
(****************************************************************************)
(* Proofs about Sudoku for every size of box and every set of puzzles: that *)
(* the links dance back, and that the search answers exactly.               *)
(*                                                                          *)
(* What is asserted about the links is a formula in the board, the links    *)
(* and the columns covered, so that the lemmas are about these alone and    *)
(* the steps of Sudoku come last.                                           *)
(****************************************************************************)
EXTENDS Sudoku, FiniteSetTheorems, NaturalsInduction, SequenceTheorems, TLAPS

-----------------------------------------------------------------------------
(* The inductive invariant.                                                 *)

Nds(b)     == Nodes(Candidates(b))
Header(b)  == Columns(b) \cup {root_}
VNodes(b)  == Columns(b) \cup Nds(b)
Ring(b, c) == {c} \cup NodesIn(c, Nds(b))

\* The columns of the row of a node.
RowColumns(n) == {ColumnOf(m) : m \in Range(RowNodes(Filled(n), FilledBy(n)))}

\* When a node was unlinked, as a position in covered: 0 if it is linked, a column
\* node when it was covered, and any other one at the first column that its row
\* has in covered.  That column's own nodes stay in its ring; and while its rows are
\* being hidden or shown, those from the row a on are linked.
HeaderSince(b, cov) ==
  [c \in Header(b) |-> IF c \in Range(cov) THEN CHOOSE k \in 1..Len(cov) : cov[k] = c ELSE 0]

Hits(cov, n)     == {k \in 1..Len(cov) : cov[k] \in RowColumns(n)}
FirstHit(cov, n) == CHOOSE k \in Hits(cov, n) : \A j \in Hits(cov, n) : k <= j

Ahead(a, p, c, n) ==
  \/ p = "hide" /\ a # c /\ Order(a) <= Order(n)
  \/ p = "show" /\ Order(a) < Order(n)

NodeSince(b, cov, a, p) ==
  [n \in VNodes(b) |->
     IF n \in Columns(b) \/ Hits(cov, n) = {} THEN 0
     ELSE IF \/ cov[FirstHit(cov, n)] = ColumnOf(n)
             \/ FirstHit(cov, n) = Len(cov) /\ Ahead(a, p, cov[Len(cov)], n) THEN 0
     ELSE FirstHit(cov, n)]

\* A node m is linked whenever n is.
Outlasts(since, m, n) ==
  \/ since[m] = 0
  \/ since[n] # 0 /\ (since[m] > since[n] \/ (since[m] = since[n] /\ Order(m) >= Order(n)))

IsNext(m, n, ring, head, since) ==
  /\ m \in ring /\ Outlasts(since, m, n)
  /\ \/ /\ Order(n) < Order(m)
        /\ \A k \in ring : Outlasts(since, k, n) /\ Order(n) < Order(k) => Order(m) <= Order(k)
     \/ /\ m = head
        /\ \A k \in ring : Outlasts(since, k, n) => Order(k) <= Order(n)

IsPrev(m, n, ring, head, since) ==
  /\ m \in ring /\ Outlasts(since, m, n)
  /\ \/ /\ n # head
        /\ Order(m) < Order(n)
        /\ \A k \in ring : Outlasts(since, k, n) /\ Order(k) < Order(n) => Order(k) <= Order(m)
     \/ /\ n = head
        /\ \A k \in ring : Outlasts(since, k, n) => Order(k) <= Order(m)

\* Every node of a ring, the unlinked ones too, has next to it the nearest nodes that
\* were linked when it was last.
Dances(next, prev, ring, head, since) ==
  \A n \in ring : IsNext(next[n], n, ring, head, since) /\ IsPrev(prev[n], n, ring, head, since)

HeaderDances(b, l, cov) == Dances(l.right, l.left, Header(b), root_, HeaderSince(b, cov))

Links(b) ==
  [right : [Header(b) -> Header(b)], left : [Header(b) -> Header(b)],
   down : [VNodes(b) -> VNodes(b)], up : [VNodes(b) -> VNodes(b)], size : [Columns(b) -> Int]]

\* The rings of the columns, and their sizes.
ColumnsDance(b, l, since) ==
  \A c \in Columns(b) :
    /\ Dances(l.down, l.up, Ring(b, c), c, since)
    /\ l.size[c] = Cardinality({n \in NodesIn(c, Nds(b)) : since[n] = 0})

LinksInv(b, l, cov, a, p) ==
  /\ l \in Links(b)
  /\ HeaderDances(b, l, cov)
  /\ ColumnsDance(b, l, NodeSince(b, cov, a, p))

Distinct(cov) == \A j, k \in 1..Len(cov) : cov[j] = cov[k] => j = k

\* What is covered and what is about to be, from the calls.
CallInv(b, cs, cov, k) ==
  /\ cs[k].row \in Ring(b, cs[k].col)
  /\ 4 * k - 3 <= Len(cov) => cov[4 * k - 3] = cs[k].col
  /\ \A j \in 1..3 : 4 * k - 3 + j <= Len(cov) =>
       /\ cs[k].row # cs[k].col
       /\ cov[4 * k - 3 + j] = ColumnOf(RightOf(cs[k].row)[j])
  /\ cs[k].row # cs[k].col =>
       /\ 4 * k - 3 <= Len(cov)
       /\ \A i \in 1..(4 * k - 4) : cov[i] \notin RowColumns(cs[k].row)

CallsInv(b, cs, st, cov) ==
  /\ cs \in Seq([col : Columns(b), row : VNodes(b)])
  /\ st \in Seq(VNodes(b))
  /\ cov \in Seq(Columns(b))
  /\ Distinct(cov)
  /\ \A k \in 1..Len(cs) : CallInv(b, cs, cov, k)
  /\ Len(st) <= Len(cs)
  /\ \A k \in 1..Len(st) : st[k] = cs[k].row /\ cs[k].row # cs[k].col

\* Where each part of solve() is in this order.
PcInv(cs, st, td, cov, p) ==
  LET L == Len(cs)  S == Len(st)  T == Len(td)  C == Len(cov)
      c == cs[L].col  r == cs[L].row
      inner(n) == S = L /\ L >= 1 /\ T \in 1..3 /\ C = 4 * L - T + n /\
                  \A q \in 1..T : td[q] = ColumnOf(RightOf(r)[3 - T + q])
  IN  \/ p = "solve"  /\ S = L /\ C = 4 * L /\ T = 0
      \/ p = "min"    /\ L = S + 1 /\ C = 4 * S /\ td = <<c>>
      \/ p = "cover"  /\ ((L = S + 1 /\ C = 4 * S /\ td = <<c>>) \/ inner(0))
      \/ p = "hide"   /\ ((L = S + 1 /\ C = 4 * S + 1 /\ td = <<c>>) \/ inner(1))
      \/ p = "row"    /\ L = S + 1 /\ C = 4 * S + 1 /\ T = 0
      \/ p = "failed" /\ S = L /\ L >= 1 /\ C = 4 * L /\ T = 0
      \/ /\ p \in {"uncover", "show"} /\ L = S + 1
         /\ \/ r = c /\ C = 4 * S + 1 /\ td = <<c>>
            \/ /\ r # c /\ T \in 1..3 /\ C = 4 * S + 1 + T
               /\ \A q \in 1..T : td[q] = ColumnOf(RightOf(r)[T + 1 - q])

\* The columns and nodes that get_min_column(), cover() and uncover() walk over are linked.
WalkInv(b, cs, td, cov, a, p) ==
  /\ td \in Seq(Columns(b))
  /\ p = "min" => a \in Header(b) /\ HeaderSince(b, cov)[a] = 0
  /\ p = "min" \/ (p = "cover" /\ cs[Len(cs)].row = cs[Len(cs)].col) =>
       cs[Len(cs)].col \notin Range(cov)
  /\ p \in {"hide", "show"} => a \in Ring(b, td[1]) /\ NodeSince(b, cov, a, p)[a] = 0

\* What holds while solve() runs.
Running(b, l, cs, st, td, cov, a, p) ==
  /\ LinksInv(b, l, cov, a, p)
  /\ CallsInv(b, cs, st, cov)
  /\ PcInv(cs, st, td, cov, p)
  /\ WalkInv(b, cs, td, cov, a, p)

Completes(full, b) == full \in CompleteBoards /\ \A i \in Cells : b[i] \in {Blank, full[i]}
Takes(full, n)     == full[Filled(n)] = FilledBy(n)

\* None of the rows that a call has tried, the last one too if it has failed, is taken.
Tried(b, full, call, failed) ==
  \A n \in NodesIn(call.col, Nds(b)) :
    Takes(full, n) =>
      /\ call.row # call.col
      /\ Order(call.row) <= Order(n)
      /\ failed => Order(call.row) < Order(n)

\* A completion that takes the rows of the calls before k takes none of the rows that
\* call k has tried.
SearchCall(b, cs, st, p, k) ==
  ~(k > Len(st) /\ p \in {"min", "cover", "hide"}) =>
    \A full \in CompleteBoards :
      Completes(full, b) /\ (\A j \in 1..(k - 1) : Takes(full, cs[j].row)) =>
        Tried(b, full, cs[k], k = Len(cs) /\ p \in {"failed", "uncover", "show"})

SearchInv(b, cs, st, p) == \A k \in 1..Len(cs) : SearchCall(b, cs, st, p, k)

Inv ==
  /\ puzzle \in Puzzles
  /\ pc \in Pcs
  /\ pc = "start" => board = puzzle /\ calls = <<>> /\ stack_ = <<>> /\ todo = <<>> /\ covered = <<>> /\ result = FALSE
  /\ pc \notin {"start", "done"} =>
       /\ Valid /\ board = puzzle /\ result = FALSE
       /\ Running(puzzle, links, calls, stack_, todo, covered, at, pc)
       /\ SearchInv(puzzle, calls, stack_, pc)
  /\ SolvesExactly

-----------------------------------------------------------------------------
(* The arithmetic of the board.                                             *)

LEMMA Split ==
  ASSUME NEW K \in Nat, K >= 1, NEW i \in Int
  PROVE  /\ i \div K \in Int /\ i % K \in 0..(K - 1)
         /\ i = (i \div K) * K + (i % K)
  OBVIOUS

LEMMA Digits ==
  ASSUME NEW K \in Nat, K >= 1, NEW a \in Int, NEW b \in 0..(K - 1)
  PROVE  (a * K + b) \div K = a /\ (a * K + b) % K = b
  OBVIOUS

LEMMA Lex ==
  ASSUME NEW K \in Nat, K >= 1, NEW a \in Int, NEW b \in 0..(K - 1),
         NEW c \in Int, NEW d \in 0..(K - 1), a * K + b = c * K + d
  PROVE  a = c /\ b = d
  OBVIOUS

LEMMA Multiples ==
  ASSUME NEW K \in Nat, K >= 1, NEW a \in Int, NEW c \in Int, a < c
  PROVE  a * K + K <= c * K
  OBVIOUS

LEMMA Products ==
  ASSUME NEW a \in Nat, NEW b \in Nat, a >= 1, b >= 1
  PROVE  a * b \in Nat /\ a * b >= 1
  OBVIOUS

LEMMA SideNat == Side \in Nat /\ Side >= 1 /\ BoxSize \in Nat /\ BoxSize >= 1
  BY SudokuAssumption, Products DEF Side

\* a * K + b is below n * K.
LEMMA Below ==
  ASSUME NEW K \in Nat, K >= 1, NEW n \in Nat, NEW a \in 0..(n - 1), NEW b \in 0..(K - 1)
  PROVE  a * K + b \in 0..(n * K - 1)
  <1>1. a * K + K <= n * K
    BY Multiples
  <1>2. a * K \in Nat /\ n * K \in Nat
    OBVIOUS
  <1>3. PICK x, y : x = a * K /\ y = n * K
    OBVIOUS
  <1> QED BY <1>1, <1>2, <1>3

\* And the other way around.
LEMMA Parts ==
  ASSUME NEW K \in Nat, K >= 1, NEW n \in Nat, NEW i \in 0..(n * K - 1)
  PROVE  i \div K \in 0..(n - 1) /\ i % K \in 0..(K - 1)
  <1>1. i \in Int /\ i >= 0 /\ i < n * K
    <2>1. n * K \in Int
      OBVIOUS
    <2> QED BY <2>1
  <1>2. /\ i \div K \in Int /\ i % K \in 0..(K - 1)
        /\ i = (i \div K) * K + (i % K)
    BY <1>1, Split
  <1>3. PICK q, r : q = i \div K /\ r = i % K
    OBVIOUS
  <1>4. q \in Int /\ r \in 0..(K - 1) /\ i = q * K + r
    BY <1>2, <1>3
  <1>5. q >= 0
    <2> SUFFICES ASSUME q < 0 PROVE FALSE
      BY <1>4
    <2>1. q * K + K <= 0 * K
      BY <1>4, Multiples
    <2>2. q * K \in Int /\ 0 * K = 0
      BY <1>4
    <2> QED BY <2>1, <2>2, <1>1, <1>4
  <1>6. q < n
    <2> SUFFICES ASSUME q >= n PROVE FALSE
      BY <1>4
    <2>1. n * K <= q * K
      <3>1. CASE q = n
        <4>1. n * K \in Int
          OBVIOUS
        <4> QED BY <3>1, <4>1
      <3>2. CASE n < q
        <4>1. n * K + K <= q * K
          BY <1>4, <3>2, Multiples
        <4>2. n * K \in Int /\ q * K \in Int
          BY <1>4
        <4> QED BY <4>1, <4>2
      <3> QED BY <1>4, <3>1, <3>2
    <2>2. n * K \in Int /\ q * K \in Int
      BY <1>4
    <2> QED BY <2>1, <2>2, <1>1, <1>4
  <1> QED BY <1>3, <1>4, <1>5, <1>6

LEMMA CellParts ==
  ASSUME NEW i \in Cells
  PROVE  /\ i \in Nat
         /\ RowOf(i) \in 0..(Side - 1) /\ ColOf(i) \in 0..(Side - 1)
         /\ BoxOf(i) \in 0..(Side - 1)
  <1>1. /\ i \in Nat
        /\ RowOf(i) \in 0..(Side - 1) /\ ColOf(i) \in 0..(Side - 1)
    <2>1. PICK s : s = Side
      OBVIOUS
    <2>2. s \in Nat /\ s >= 1 /\ i \in 0..(s * s - 1)
      BY <2>1, SideNat DEF Cells
    <2>3. i \div s \in 0..(s - 1) /\ i % s \in 0..(s - 1)
      BY <2>2, Parts
    <2>4. i \in Nat
      BY ONLY <2>2
    <2> QED BY <2>1, <2>3, <2>4 DEF RowOf, ColOf
  <1>2. /\ RowOf(i) \in 0..(BoxSize * BoxSize - 1)
        /\ ColOf(i) \in 0..(BoxSize * BoxSize - 1)
    BY <1>1 DEF Side
  <1>3. RowOf(i) \div BoxSize \in 0..(BoxSize - 1) /\ ColOf(i) \div BoxSize \in 0..(BoxSize - 1)
    BY <1>2, SideNat, Parts
  <1>4. BoxOf(i) \in 0..(BoxSize * BoxSize - 1)
    BY <1>3, SideNat, Below DEF BoxOf
  <1> QED BY <1>1, <1>4 DEF Side

-----------------------------------------------------------------------------
(* Columns and nodes.                                                       *)

LEMMA FourNodes ==
  ASSUME NEW i, NEW v
  PROVE  /\ DOMAIN RowNodes(i, v) = 1..4
         /\ RowNodes(i, v)[1] = <<<<"cell", i, 0>>, i, v>>
         /\ RowNodes(i, v)[2] = <<<<"row", RowOf(i), v>>, i, v>>
         /\ RowNodes(i, v)[3] = <<<<"col", ColOf(i), v>>, i, v>>
         /\ RowNodes(i, v)[4] = <<<<"box", BoxOf(i), v>>, i, v>>
         /\ Range(RowNodes(i, v)) = {RowNodes(i, v)[k] : k \in 1..4}
  BY DEF RowNodes, Range

LEMMA FourColumns ==
  ASSUME NEW n
  PROVE  RowColumns(n) =
           {CellColumn(Filled(n)), UnitColumn("row", RowOf(Filled(n)), FilledBy(n)),
            UnitColumn("col", ColOf(Filled(n)), FilledBy(n)),
            UnitColumn("box", BoxOf(Filled(n)), FilledBy(n))}
  <1>1. PICK i, v : i = Filled(n) /\ v = FilledBy(n)
    OBVIOUS
  <1>2. RowColumns(n) = {ColumnOf(RowNodes(i, v)[k]) : k \in 1..4}
    BY <1>1, FourNodes DEF RowColumns
  <1>3. 1..4 = {1, 2, 3, 4}
    OBVIOUS
  <1>4. /\ ColumnOf(RowNodes(i, v)[1]) = CellColumn(i)
        /\ ColumnOf(RowNodes(i, v)[2]) = UnitColumn("row", RowOf(i), v)
        /\ ColumnOf(RowNodes(i, v)[3]) = UnitColumn("col", ColOf(i), v)
        /\ ColumnOf(RowNodes(i, v)[4]) = UnitColumn("box", BoxOf(i), v)
    BY FourNodes DEF ColumnOf, CellColumn, UnitColumn
  <1> QED BY <1>1, <1>2, <1>3, <1>4

LEMMA ColumnFacts ==
  ASSUME NEW b, NEW c \in Columns(b)
  PROVE  /\ \E kind \in {"cell", "row", "col", "box"} : \E u, v : c = <<<<kind, u, v>>, -1, 0>>
         /\ Filled(c) = -1 /\ ColumnOf(c) = c /\ c # root_
  <1>1. \E kind \in {"cell", "row", "col", "box"} : \E u, v : c = <<<<kind, u, v>>, -1, 0>>
    BY DEF Columns, CellColumn, UnitColumn
  <1> QED BY <1>1 DEF Filled, ColumnOf, root_

LEMMA UnitOrCell ==
  ASSUME NEW b, NEW c
  PROVE  c \in Columns(b) <=>
           \/ \E i \in Blanks(b) : c = CellColumn(i)
           \/ \E u \in 0..(Side - 1), v \in Values :
                \/ c = UnitColumn("row", u, v) /\ ~Has(b, v, Row(u))
                \/ c = UnitColumn("col", u, v) /\ ~Has(b, v, Col(u))
                \/ c = UnitColumn("box", u, v) /\ ~Has(b, v, Box(u))
  BY DEF Columns

LEMMA NodeFacts ==
  ASSUME NEW b, NEW n \in Nds(b)
  PROVE  /\ Filled(n) \in Blanks(b) /\ Filled(n) \in Cells /\ FilledBy(n) \in Values
         /\ <<Filled(n), FilledBy(n)>> \in Candidates(b)
         /\ \E k \in 1..4 : n = RowNodes(Filled(n), FilledBy(n))[k]
         /\ RowColumns(n) \subseteq Columns(b)
         /\ ColumnOf(n) \in RowColumns(n)
         /\ n = <<n[1], Filled(n), FilledBy(n)>>
         /\ ColumnOf(n) = <<n[1], -1, 0>>
         /\ n \notin Columns(b) /\ n # root_
  <1>1. PICK x \in Candidates(b) : n \in Range(RowNodes(x[1], x[2]))
    BY DEF Nds, Nodes
  <1>2. x \in Blanks(b) \X Values
    BY DEF Candidates
  <1>3. PICK i, v : i = x[1] /\ v = x[2]
    OBVIOUS
  <1>4. /\ i \in Blanks(b) /\ v \in Values /\ x = <<i, v>>
        /\ ~Has(b, v, Row(RowOf(i))) /\ ~Has(b, v, Col(ColOf(i))) /\ ~Has(b, v, Box(BoxOf(i)))
    BY <1>2, <1>3 DEF Candidates
  <1>5. PICK k \in 1..4 : n = RowNodes(i, v)[k]
    BY <1>1, <1>3, FourNodes
  <1>6. Filled(n) = i /\ FilledBy(n) = v /\ n = <<n[1], Filled(n), FilledBy(n)>>
    <2>1. k = 1 \/ k = 2 \/ k = 3 \/ k = 4
      BY <1>5
    <2> QED BY <1>5, <2>1, FourNodes DEF Filled, FilledBy
  <1>7. i \in Cells
    BY <1>4 DEF Blanks
  <1>8. RowColumns(n) \subseteq Columns(b)
    <2>1. CellColumn(i) \in Columns(b)
      BY <1>4, UnitOrCell
    <2>2. /\ UnitColumn("row", RowOf(i), v) \in Columns(b)
          /\ UnitColumn("col", ColOf(i), v) \in Columns(b)
          /\ UnitColumn("box", BoxOf(i), v) \in Columns(b)
      BY <1>4, <1>7, UnitOrCell, CellParts
    <2> QED BY <2>1, <2>2, FourColumns, <1>6
  <1>9. ColumnOf(n) \in RowColumns(n)
    BY <1>5, <1>6, FourNodes DEF RowColumns
  <1>10. n \notin Columns(b) /\ n # root_
    <2>1. Filled(n) # -1
      BY <1>6, <1>7, CellParts
    <2> QED BY <2>1, ColumnFacts DEF root_, Filled
  <1> QED BY <1>1, <1>3, <1>4, <1>5, <1>6, <1>7, <1>8, <1>9, <1>10 DEF ColumnOf

LEMMA FourDiffer ==
  ASSUME NEW i, NEW v, NEW j \in 1..4, NEW k \in 1..4,
         ColumnOf(RowNodes(i, v)[j]) = ColumnOf(RowNodes(i, v)[k])
  PROVE  j = k
  <1>1. (k = 1 \/ k = 2 \/ k = 3 \/ k = 4) /\ (j = 1 \/ j = 2 \/ j = 3 \/ j = 4)
    OBVIOUS
  <1> QED BY <1>1, FourNodes DEF ColumnOf

\* A row of the exact cover has four nodes, in four columns.
LEMMA RowOfNode ==
  ASSUME NEW b, NEW n \in Nds(b)
  PROVE  \E k \in 1..4 :
           /\ n = RowNodes(Filled(n), FilledBy(n))[k]
           /\ RightOf(n) = [j \in 1..3 |-> RowNodes(Filled(n), FilledBy(n))[((k + j - 1) % 4) + 1]]
  <1>1. PICK i, v : i = Filled(n) /\ v = FilledBy(n)
    OBVIOUS
  <1>2. PICK k \in 1..4 : n = RowNodes(i, v)[k]
    BY <1>1, NodeFacts
  <1>3. ASSUME NEW m \in 1..4, n = RowNodes(i, v)[m]
        PROVE  m = k
    BY <1>2, <1>3, FourDiffer
  <1>4. (CHOOSE m \in 1..4 : RowNodes(i, v)[m] = n) = k
    BY <1>2, <1>3
  <1> QED BY <1>1, <1>2, <1>4 DEF RightOf

SameRow(n, m) == Filled(n) = Filled(m) /\ FilledBy(n) = FilledBy(m)

LEMMA FourInRow ==
  ASSUME NEW b, NEW x \in Candidates(b), NEW k \in 1..4
  PROVE  LET n == RowNodes(x[1], x[2])[k]
         IN  n \in Nds(b) /\ Filled(n) = x[1] /\ FilledBy(n) = x[2]
  <1>1. RowNodes(x[1], x[2])[k] \in Nds(b)
    BY FourNodes DEF Nds, Nodes
  <1>2. k = 1 \/ k = 2 \/ k = 3 \/ k = 4
    OBVIOUS
  <1> QED BY <1>1, <1>2, FourNodes DEF Filled, FilledBy

LEMMA RightFacts ==
  ASSUME NEW b, NEW n \in Nds(b)
  PROVE  /\ DOMAIN RightOf(n) = 1..3
         /\ \A j \in 1..3 : /\ RightOf(n)[j] \in Nds(b) /\ SameRow(RightOf(n)[j], n)
                            /\ ColumnOf(RightOf(n)[j]) # ColumnOf(n)
                            /\ RowColumns(RightOf(n)[j]) = RowColumns(n)
         /\ \A j, k \in 1..3 : ColumnOf(RightOf(n)[j]) = ColumnOf(RightOf(n)[k]) => j = k
         /\ RowColumns(n) = {ColumnOf(n)} \cup {ColumnOf(RightOf(n)[j]) : j \in 1..3}
         /\ \A m \in Nds(b) : SameRow(m, n) => m = n \/ \E j \in 1..3 : m = RightOf(n)[j]
  <1>1. PICK i, v : i = Filled(n) /\ v = FilledBy(n)
    OBVIOUS
  <1>2. PICK k \in 1..4 :
           /\ n = RowNodes(i, v)[k]
           /\ RightOf(n) = [j \in 1..3 |-> RowNodes(i, v)[((k + j - 1) % 4) + 1]]
    BY <1>1, RowOfNode
  <1>3. <<i, v>> \in Candidates(b)
    BY <1>1, NodeFacts
  <1> DEFINE f(j) == ((k + j - 1) % 4) + 1
  <1>4. /\ \A j \in 1..3 : f(j) \in 1..4 /\ f(j) # k
        /\ \A j, m \in 1..3 : f(j) = f(m) => j = m
        /\ \A m \in 1..4 : m = k \/ \E j \in 1..3 : m = f(j)
    <2>1. k = 1 \/ k = 2 \/ k = 3 \/ k = 4
      BY <1>2
    <2>2. 1..3 = {1, 2, 3} /\ 1..4 = {1, 2, 3, 4}
      OBVIOUS
    <2>3. k = 1 => f(1) = 2 /\ f(2) = 3 /\ f(3) = 4
      OBVIOUS
    <2>4. k = 2 => f(1) = 3 /\ f(2) = 4 /\ f(3) = 1
      OBVIOUS
    <2>5. k = 3 => f(1) = 4 /\ f(2) = 1 /\ f(3) = 2
      OBVIOUS
    <2>6. k = 4 => f(1) = 1 /\ f(2) = 2 /\ f(3) = 3
      OBVIOUS
    <2> HIDE DEF f
    <2> QED BY <2>1, <2>2, <2>3, <2>4, <2>5, <2>6
  <1>5. DOMAIN RightOf(n) = 1..3 /\ \A j \in 1..3 : RightOf(n)[j] = RowNodes(i, v)[f(j)]
    BY <1>2
  <1> HIDE DEF f
  <1>6. \A m \in 1..4 : /\ RowNodes(i, v)[m] \in Nds(b)
                        /\ Filled(RowNodes(i, v)[m]) = i /\ FilledBy(RowNodes(i, v)[m]) = v
    BY <1>3, FourInRow
  <1>7. ASSUME NEW j \in 1..3
        PROVE  /\ RightOf(n)[j] \in Nds(b) /\ SameRow(RightOf(n)[j], n)
               /\ ColumnOf(RightOf(n)[j]) # ColumnOf(n)
               /\ RowColumns(RightOf(n)[j]) = RowColumns(n)
    <2>1. RightOf(n)[j] \in Nds(b) /\ SameRow(RightOf(n)[j], n)
      BY <1>1, <1>4, <1>5, <1>6 DEF SameRow
    <2>2. ColumnOf(RightOf(n)[j]) # ColumnOf(n)
      BY <1>2, <1>4, <1>5, FourDiffer
    <2> QED BY <2>1, <2>2 DEF SameRow, RowColumns
  <1>8. ASSUME NEW j \in 1..3, NEW m \in 1..3, ColumnOf(RightOf(n)[j]) = ColumnOf(RightOf(n)[m])
        PROVE  j = m
    BY <1>4, <1>5, <1>8, FourDiffer
  <1>9. RowColumns(n) = {ColumnOf(n)} \cup {ColumnOf(RightOf(n)[j]) : j \in 1..3}
    <2>1. RowColumns(n) = {ColumnOf(RowNodes(i, v)[m]) : m \in 1..4}
      BY <1>1, FourNodes DEF RowColumns
    <2> QED BY <2>1, <1>2, <1>4, <1>5
  <1>10. ASSUME NEW m \in Nds(b), SameRow(m, n)
         PROVE  m = n \/ \E j \in 1..3 : m = RightOf(n)[j]
    <2>0. Filled(m) = i /\ FilledBy(m) = v
      BY <1>1, <1>10 DEF SameRow
    <2>1. PICK q \in 1..4 : m = RowNodes(Filled(m), FilledBy(m))[q]
      BY NodeFacts
    <2> QED BY <2>0, <2>1, <1>2, <1>4, <1>5
  <1> QED BY <1>5, <1>7, <1>8, <1>9, <1>10

LEMMA LeftFacts ==
  ASSUME NEW n
  PROVE  LeftOf(n)[1] = RightOf(n)[3] /\ LeftOf(n)[2] = RightOf(n)[2] /\ LeftOf(n)[3] = RightOf(n)[1]
  BY DEF LeftOf

-----------------------------------------------------------------------------
(* The order of the nodes.                                                  *)

LEMMA CellsNat == Side * Side \in Nat /\ Side * Side >= 1
  BY SideNat, Products

LEMMA UnitNumber ==
  ASSUME NEW u \in 0..(Side - 1), NEW v \in Values
  PROVE  u * Side + v - 1 \in 0..(Side * Side - 1)
  <1>1. v - 1 \in 0..(Side - 1)
    BY SideNat DEF Values
  <1>2. u * Side + (v - 1) \in 0..(Side * Side - 1)
    BY <1>1, SideNat, Below
  <1>3. u * Side \in Int /\ v \in Int
    BY SideNat DEF Values
  <1>4. u * Side + (v - 1) = u * Side + v - 1
    BY <1>3
  <1> QED BY <1>2, <1>4

LEMMA UnitNumbersDiffer ==
  ASSUME NEW u \in 0..(Side - 1), NEW v \in Values, NEW w \in 0..(Side - 1), NEW x \in Values,
         u * Side + v - 1 = w * Side + x - 1
  PROVE  u = w /\ v = x
  <1>1. v - 1 \in 0..(Side - 1) /\ x - 1 \in 0..(Side - 1) /\ v \in Int /\ x \in Int
    BY SideNat DEF Values
  <1>2. u * Side \in Int /\ w * Side \in Int
    BY SideNat
  <1>3. u * Side + (v - 1) = w * Side + (x - 1)
    BY <1>1, <1>2
  <1>4. u = w /\ v - 1 = x - 1
    BY <1>1, <1>3, SideNat, Lex
  <1> QED BY <1>1, <1>4

LEMMA OrderOf ==
  /\ Order(root_) = 0
  /\ \A i \in Int : Order(CellColumn(i)) = 1 + i
  /\ \A u, v : /\ Order(UnitColumn("row", u, v)) = 1 + Side * Side + 3 * (u * Side + v - 1) + 0
               /\ Order(UnitColumn("col", u, v)) = 1 + Side * Side + 3 * (u * Side + v - 1) + 1
               /\ Order(UnitColumn("box", u, v)) = 1 + Side * Side + 3 * (u * Side + v - 1) + 2
  /\ \A n : Filled(n) >= 0 => Order(n) = 4 * (Side * Side) + 1 + Filled(n) * Side + FilledBy(n)
  <1>1. Order(root_) = 0
    BY DEF Order, root_, Filled
  <1>2. ASSUME NEW i \in Int PROVE Order(CellColumn(i)) = 1 + i
    BY DEF Order, CellColumn, Filled
  <1>3. ASSUME NEW u, NEW v
        PROVE  /\ Order(UnitColumn("row", u, v)) = 1 + Side * Side + 3 * (u * Side + v - 1) + 0
               /\ Order(UnitColumn("col", u, v)) = 1 + Side * Side + 3 * (u * Side + v - 1) + 1
               /\ Order(UnitColumn("box", u, v)) = 1 + Side * Side + 3 * (u * Side + v - 1) + 2
    BY DEF Order, UnitColumn, Filled
  <1>4. ASSUME NEW n, Filled(n) >= 0
        PROVE  Order(n) = 4 * (Side * Side) + 1 + Filled(n) * Side + FilledBy(n)
    BY <1>4 DEF Order
  <1> QED BY <1>1, <1>2, <1>3, <1>4

\* The unit columns are numbered by what they stand for.
LEMMA UnitOrders ==
  ASSUME NEW u \in 0..(Side - 1), NEW v \in Values
  PROVE  \E x \in 0..(Side * Side - 1) :
           /\ x = u * Side + v - 1
           /\ Order(UnitColumn("row", u, v)) = 1 + Side * Side + 3 * x
           /\ Order(UnitColumn("col", u, v)) = 1 + Side * Side + 3 * x + 1
           /\ Order(UnitColumn("box", u, v)) = 1 + Side * Side + 3 * x + 2
  <1>1. PICK x \in 0..(Side * Side - 1) : x = u * Side + v - 1
    BY UnitNumber
  <1>2. PICK k \in Nat : k = Side * Side
    BY CellsNat
  <1>3. /\ Order(UnitColumn("row", u, v)) = 1 + k + 3 * x + 0
        /\ Order(UnitColumn("col", u, v)) = 1 + k + 3 * x + 1
        /\ Order(UnitColumn("box", u, v)) = 1 + k + 3 * x + 2
    BY <1>1, <1>2, OrderOf
  <1>4. 1 + k + 3 * x + 0 = 1 + k + 3 * x
    BY <1>1, <1>2
  <1> QED BY <1>1, <1>2, <1>3, <1>4

LEMMA BlankCell ==
  ASSUME NEW b, NEW i \in Blanks(b)
  PROVE  i \in 0..(Side * Side - 1) /\ Order(CellColumn(i)) = 1 + i
  <1>1. i \in 0..(Side * Side - 1)
    BY DEF Blanks, Cells
  <1> QED BY <1>1, OrderOf

LEMMA ColumnOrder ==
  ASSUME NEW b, NEW c \in Columns(b)
  PROVE  Order(c) \in 1..(4 * (Side * Side))
  <1>1. PICK k \in Nat : k = Side * Side /\ k >= 1
    BY CellsNat
  <1>2. CASE \E i \in Blanks(b) : c = CellColumn(i)
    BY <1>1, <1>2, BlankCell
  <1>3. CASE \E u \in 0..(Side - 1), v \in Values :
                c \in {UnitColumn("row", u, v), UnitColumn("col", u, v), UnitColumn("box", u, v)}
    <2>1. PICK u \in 0..(Side - 1), v \in Values :
             c \in {UnitColumn("row", u, v), UnitColumn("col", u, v), UnitColumn("box", u, v)}
      BY <1>3
    <2>2. PICK x \in 0..(k - 1), t \in 0..2 : Order(c) = 1 + k + 3 * x + t
      <3>1. PICK x \in 0..(k - 1) : /\ Order(UnitColumn("row", u, v)) = 1 + k + 3 * x
                                    /\ Order(UnitColumn("col", u, v)) = 1 + k + 3 * x + 1
                                    /\ Order(UnitColumn("box", u, v)) = 1 + k + 3 * x + 2
        BY <1>1, UnitOrders
      <3>2. 1 + k + 3 * x = 1 + k + 3 * x + 0
        BY <1>1
      <3>3. 0 \in 0..2 /\ 1 \in 0..2 /\ 2 \in 0..2
        OBVIOUS
      <3> QED BY <2>1, <3>1, <3>2, <3>3
    <2> QED BY <1>1, <2>2
  <1> QED BY <1>2, <1>3, UnitOrCell

LEMMA ColumnsOrdered ==
  ASSUME NEW b, NEW c \in Columns(b), NEW d \in Columns(b), Order(c) = Order(d)
  PROVE  c = d
  <1>1. PICK k \in Nat : k = Side * Side /\ k >= 1
    BY CellsNat
  <1> DEFINE Unit(e) == \E u \in 0..(Side - 1), v \in Values, x \in 0..(k - 1) :
                          /\ x = u * Side + v - 1
                          /\ \/ e = UnitColumn("row", u, v) /\ Order(e) = 1 + k + 3 * x
                             \/ e = UnitColumn("col", u, v) /\ Order(e) = 1 + k + 3 * x + 1
                             \/ e = UnitColumn("box", u, v) /\ Order(e) = 1 + k + 3 * x + 2
             Cell(e) == \E i \in 0..(k - 1) : e = CellColumn(i) /\ Order(e) = 1 + i
  <1>2. ASSUME NEW e \in Columns(b) PROVE Unit(e) \/ Cell(e)
    <2>1. CASE \E i \in Blanks(b) : e = CellColumn(i)
      BY <1>1, <2>1, BlankCell
    <2>2. CASE \E u \in 0..(Side - 1), v \in Values :
                e \in {UnitColumn("row", u, v), UnitColumn("col", u, v), UnitColumn("box", u, v)}
      <3>1. PICK u \in 0..(Side - 1), v \in Values :
             e \in {UnitColumn("row", u, v), UnitColumn("col", u, v), UnitColumn("box", u, v)}
        BY <2>2
      <3>2. PICK x \in 0..(k - 1) : /\ x = u * Side + v - 1
                                    /\ Order(UnitColumn("row", u, v)) = 1 + k + 3 * x
                                    /\ Order(UnitColumn("col", u, v)) = 1 + k + 3 * x + 1
                                    /\ Order(UnitColumn("box", u, v)) = 1 + k + 3 * x + 2
        BY <1>1, UnitOrders
      <3> QED BY <3>1, <3>2
    <2> QED BY <2>1, <2>2, UnitOrCell
  <1>3. CASE Cell(c) /\ Cell(d)
    BY <1>3
  <1>4. ASSUME NEW e, NEW f, Order(e) = Order(f), Cell(e), Unit(f)
        PROVE  FALSE
    BY <1>1, <1>4
  <1>5. CASE Unit(c) /\ Unit(d)
    <2>1. PICK u \in 0..(Side - 1), v \in Values, x \in 0..(k - 1) :
                          /\ x = u * Side + v - 1
                          /\ \/ c = UnitColumn("row", u, v) /\ Order(c) = 1 + k + 3 * x
                             \/ c = UnitColumn("col", u, v) /\ Order(c) = 1 + k + 3 * x + 1
                             \/ c = UnitColumn("box", u, v) /\ Order(c) = 1 + k + 3 * x + 2
      BY <1>5
    <2>2. PICK w \in 0..(Side - 1), z \in Values, y \in 0..(k - 1) :
                          /\ y = w * Side + z - 1
                          /\ \/ d = UnitColumn("row", w, z) /\ Order(d) = 1 + k + 3 * y
                             \/ d = UnitColumn("col", w, z) /\ Order(d) = 1 + k + 3 * y + 1
                             \/ d = UnitColumn("box", w, z) /\ Order(d) = 1 + k + 3 * y + 2
      BY <1>5
    <2>3. x = y => u = w /\ v = z
      BY <2>1, <2>2, UnitNumbersDiffer
    <2>4. PICK p \in Int, q \in Int : p = Order(c) /\ q = Order(d) /\ p = q
      BY ColumnOrder
    <2>5. x = y
      BY <2>1, <2>2, <2>4
    <2>6. \/ c = UnitColumn("row", u, v) /\ d = UnitColumn("row", u, v)
          \/ c = UnitColumn("col", u, v) /\ d = UnitColumn("col", u, v)
          \/ c = UnitColumn("box", u, v) /\ d = UnitColumn("box", u, v)
      BY <2>1, <2>2, <2>3, <2>5, <1>1
    <2> QED BY <2>6
  <1> HIDE DEF Unit, Cell
  <1> QED BY <1>2, <1>3, <1>4, <1>5

MaxOrder == 4 * (Side * Side) + 1 + Side * Side * Side + Side

LEMMA NodeOrder ==
  ASSUME NEW b, NEW n \in Nds(b)
  PROVE  /\ Order(n) \in Nat /\ Order(n) > 4 * (Side * Side) /\ Order(n) <= MaxOrder
         /\ \A m \in Nds(b) : Order(m) = Order(n) <=> SameRow(m, n)
  <1>1. PICK k \in Nat, s \in Nat : k = Side * Side /\ k >= 1 /\ s = Side /\ s >= 1 /\ k * s \in Nat
    BY CellsNat, SideNat, Products
  <1>2. ASSUME NEW m \in Nds(b)
        PROVE  /\ Filled(m) \in 0..(k - 1) /\ FilledBy(m) \in 1..s
               /\ Order(m) = 4 * k + 1 + Filled(m) * s + FilledBy(m)
    <2>1. Filled(m) \in 0..(k - 1) /\ FilledBy(m) \in 1..s
      BY <1>1, NodeFacts DEF Cells, Values
    <2>2. Filled(m) >= 0
      BY <2>1
    <2> QED BY <1>1, <2>1, <2>2, OrderOf
  <1>3. /\ Order(n) \in Nat /\ Order(n) > 4 * k /\ Order(n) <= 4 * k + 1 + k * s + s
    <2>1. PICK i, v : i = Filled(n) /\ v = FilledBy(n)
      OBVIOUS
    <2>2. i \in 0..(k - 1) /\ v \in 1..s /\ Order(n) = 4 * k + 1 + i * s + v
      BY <1>2, <2>1
    <2>3. i * s + s <= k * s
      BY <2>2, <1>1, Multiples
    <2>4. i * s \in Nat /\ k * s \in Nat
      BY <1>1, <2>2
    <2>5. PICK x, y : x = i * s /\ y = k * s
      OBVIOUS
    <2> QED BY ONLY <2>2, <2>3, <2>4, <2>5, k \in Nat, s \in Nat
  <1>4. ASSUME NEW m \in Nds(b)
        PROVE  Order(m) = Order(n) <=> SameRow(m, n)
    <2>1. PICK i, v, j, w : i = Filled(n) /\ v = FilledBy(n) /\ j = Filled(m) /\ w = FilledBy(m)
      OBVIOUS
    <2>2. /\ i \in 0..(k - 1) /\ v \in 1..s /\ Order(n) = 4 * k + 1 + i * s + v
          /\ j \in 0..(k - 1) /\ w \in 1..s /\ Order(m) = 4 * k + 1 + j * s + w
      BY <1>2, <2>1
    <2>3. i * s \in Int /\ j * s \in Int /\ v - 1 \in 0..(s - 1) /\ w - 1 \in 0..(s - 1)
      BY <1>1, <2>2
    <2>4. Order(m) = Order(n) => i * s + (v - 1) = j * s + (w - 1)
      BY ONLY <2>2, <2>3, k \in Nat
    <2>5. i * s + (v - 1) = j * s + (w - 1) => i = j /\ v - 1 = w - 1
      BY <2>2, <2>3, <1>1, Lex
    <2>6. v - 1 = w - 1 => v = w
      BY <2>2
    <2> QED BY <2>1, <2>2, <2>4, <2>5, <2>6 DEF SameRow
  <1>5. 4 * k + 1 + k * s + s = MaxOrder
    BY <1>1 DEF MaxOrder
  <1> QED BY <1>1, <1>3, <1>4, <1>5

IsRing(ring, head) ==
  /\ head \in ring
  /\ \A m \in ring : Order(m) \in 0..MaxOrder
  /\ \A m \in ring \ {head} : Order(head) < Order(m)
  /\ \A m, k \in ring : Order(m) = Order(k) => m = k

LEMMA MaxOrderNat ==
  MaxOrder \in Nat /\ MaxOrder >= 4 * (Side * Side)
  <1>1. PICK k \in Nat, s \in Nat : k = Side * Side /\ s = Side /\ k * s \in Nat
    BY CellsNat, SideNat
  <1>2. MaxOrder = 4 * k + 1 + k * s + s
    BY <1>1 DEF MaxOrder
  <1>3. PICK y : y = k * s
    OBVIOUS
  <1> QED BY <1>1, <1>2, <1>3

\* The columns with root_ are a ring, and so is a column with its nodes.
LEMMA Rings ==
  ASSUME NEW b
  PROVE  IsRing(Header(b), root_) /\ \A c \in Columns(b) : IsRing(Ring(b, c), c)
  <1>1. PICK k \in Nat : k = Side * Side /\ k >= 1
    BY CellsNat
  <1>2. PICK max \in Nat : max = MaxOrder /\ max >= 4 * k
    BY <1>1, MaxOrderNat
  <1>3. \A c \in Columns(b) : Order(c) \in 1..(4 * k)
    BY <1>1, ColumnOrder
  <1>4. Order(root_) = 0
    BY OrderOf
  <1>5. IsRing(Header(b), root_)
    <2>1. \A m \in Header(b) : m = root_ \/ m \in Columns(b)
      BY DEF Header
    <2> QED BY <2>1, <1>2, <1>3, <1>4, ColumnsOrdered DEF IsRing, Header
  <1>6. ASSUME NEW c \in Columns(b)
        PROVE  IsRing(Ring(b, c), c)
    <2>1. ASSUME NEW m \in Ring(b, c) \ {c}
          PROVE  m \in Nds(b) /\ ColumnOf(m) = c /\ Order(m) \in 0..max /\ Order(c) < Order(m)
      <3>1. m \in Nds(b) /\ ColumnOf(m) = c
        BY DEF Ring, NodesIn
      <3>2. Order(m) \in Nat /\ Order(m) > 4 * k /\ Order(m) <= max
        BY <3>1, <1>1, <1>2, NodeOrder
      <3> QED BY <3>1, <3>2, <1>2, <1>3
    <2>2. ASSUME NEW m \in Ring(b, c) \ {c}, NEW n \in Ring(b, c) \ {c}, Order(m) = Order(n)
          PROVE  m = n
      <3>1. SameRow(m, n) /\ ColumnOf(m) = ColumnOf(n)
        BY <2>1, <2>2, NodeOrder
      <3>2. m[1] = n[1]
        <4>1. <<m[1], -1, 0>> = <<n[1], -1, 0>>
          BY <3>1, <2>1, NodeFacts
        <4> QED BY <4>1
      <3>3. m = <<m[1], Filled(m), FilledBy(m)>> /\ n = <<n[1], Filled(n), FilledBy(n)>>
        BY <2>1, NodeFacts
      <3> QED BY <3>1, <3>2, <3>3 DEF SameRow
    <2>3. c \in Ring(b, c) /\ Order(c) \in 0..max
      BY <1>2, <1>3 DEF Ring
    <2>4. \A m, n \in Ring(b, c) : Order(m) = Order(n) => m = n
      <3> SUFFICES ASSUME NEW m \in Ring(b, c), NEW n \in Ring(b, c), Order(m) = Order(n)
                   PROVE  m = n
        OBVIOUS
      <3>1. CASE m # c /\ n # c
        BY <3>1, <2>2
      <3>2. CASE m = c /\ n # c
        BY <3>2, <2>1, <2>3
      <3>3. CASE m # c /\ n = c
        BY <3>3, <2>1, <2>3
      <3> QED BY <3>1, <3>2, <3>3
    <2> QED BY <2>1, <2>3, <2>4, <1>2 DEF IsRing
  <1> QED BY <1>5, <1>6

-----------------------------------------------------------------------------
(* The rings.                                                               *)

LEMMA Least ==
  ASSUME NEW S, S \subseteq Nat, S # {}
  PROVE  \E x \in S : \A y \in S : x <= y
  <1>1. PICK x \in S : \A y \in S : ~(<<y, x>> \in OpToRel(<, Nat))
    BY NatLessThanWellFounded, WFMin
  <1>2. \A y \in S : ~(y < x)
    BY <1>1 DEF OpToRel
  <1> QED BY <1>2

LEMMA Greatest ==
  ASSUME NEW S, NEW k \in Nat, S \subseteq 0..k, S # {}
  PROVE  \E x \in S : \A y \in S : y <= x
  <1> DEFINE T == {k - x : x \in S}
  <1>1. T \subseteq Nat /\ T # {}
    <2>1. \A x \in 0..k : k - x \in Nat
      OBVIOUS
    <2>2. \A x \in S : k - x \in Nat
      BY <2>1
    <2> QED BY <2>2
  <1>2. PICK t \in T : \A y \in T : t <= y
    BY <1>1, Least
  <1>3. PICK x \in S : t = k - x
    BY <1>2
  <1>4. ASSUME NEW y \in S PROVE y <= x
    <2>1. k - x <= k - y
      BY <1>2, <1>3
    <2> QED BY <2>1
  <1> QED BY <1>4

\* A set of nodes has a first and a last one.
LEMMA FirstFinal ==
  ASSUME NEW ring, NEW head, IsRing(ring, head), NEW S, S \subseteq ring, S # {}
  PROVE  /\ First(S) \in S /\ \A k \in S : Order(First(S)) <= Order(k)
         /\ Final(S) \in S /\ \A k \in S : Order(k) <= Order(Final(S))
  <1> DEFINE T == {Order(k) : k \in S}
  <1>1. T \subseteq 0..MaxOrder /\ T # {} /\ T \subseteq Nat
    BY DEF IsRing
  <1>2. \E m \in S : \A k \in S : Order(m) <= Order(k)
    <2>1. PICK x \in T : \A y \in T : x <= y
      BY <1>1, Least
    <2> QED BY <2>1
  <1>3. \E m \in S : \A k \in S : Order(k) <= Order(m)
    <2>1. PICK x \in T : \A y \in T : y <= x
      BY <1>1, Greatest, MaxOrderNat
    <2> QED BY <2>1
  <1> QED BY <1>2, <1>3 DEF First, Final

\* Between the linked nodes of a ring, first comes the next one, and the previous.
LEMMA DanceFollows ==
  ASSUME NEW ring, NEW head, IsRing(ring, head), NEW next, NEW prev, NEW since,
         Dances(next, prev, ring, head, since), since[head] = 0,
         NEW n \in ring, since[n] = 0
  PROVE  LET open == {m \in ring : since[m] = 0}
         IN  next[n] = Following(open, n) /\ prev[n] = Preceding(open, n)
  <1> DEFINE open == {m \in ring : since[m] = 0}
  <1>1. IsNext(next[n], n, ring, head, since) /\ IsPrev(prev[n], n, ring, head, since)
    BY DEF Dances
  <1>2. \A m \in ring : Outlasts(since, m, n) <=> since[m] = 0
    BY DEF Outlasts
  <1>3. /\ \A m \in ring : Order(m) \in Int
        /\ head \in open /\ n \in open /\ \A m \in open : Order(head) <= Order(m)
        /\ \A m, k \in ring : Order(m) = Order(k) => m = k
    BY DEF IsRing
  <1>4. next[n] \in open /\ prev[n] \in open
    BY <1>1, <1>2 DEF IsNext, IsPrev
  <1>5. next[n] = Following(open, n)
    <2>1. CASE After(open, n) = {}
      <3>1. First(open) \in open /\ \A k \in open : Order(First(open)) <= Order(k)
        BY <1>3, FirstFinal
      <3>2. First(open) = head
        BY <1>3, <3>1
      <3>3. next[n] = head
        BY <1>1, <1>3, <1>4, <2>1 DEF IsNext, After
      <3> QED BY <2>1, <3>2, <3>3 DEF Following
    <2>2. CASE After(open, n) # {}
      <3> DEFINE S == After(open, n)
      <3>1. First(S) \in S /\ \A k \in S : Order(First(S)) <= Order(k)
        BY <2>2, FirstFinal DEF After
      <3>2. next[n] \in S /\ \A k \in S : Order(next[n]) <= Order(k)
        BY <1>1, <1>2, <1>3, <1>4, <2>2 DEF IsNext, After
      <3>3. Order(next[n]) = Order(First(S))
        BY <1>3, <3>1, <3>2 DEF After
      <3> QED BY <1>3, <2>2, <3>1, <3>2, <3>3 DEF Following, After
    <2> QED BY <2>1, <2>2
  <1>6. prev[n] = Preceding(open, n)
    <2>1. CASE n = head
      <3>1. Before(open, n) = {}
        BY <1>3, <2>1 DEF Before
      <3>2. Final(open) \in open /\ \A k \in open : Order(k) <= Order(Final(open))
        BY <1>3, FirstFinal
      <3>3. \A k \in open : Order(k) <= Order(prev[n])
        BY <1>1, <1>2, <2>1 DEF IsPrev
      <3>4. Order(prev[n]) = Order(Final(open))
        BY <1>3, <1>4, <3>2, <3>3
      <3> QED BY <1>3, <1>4, <3>1, <3>2, <3>4 DEF Preceding
    <2>2. CASE n # head
      <3> DEFINE S == Before(open, n)
      <3>1. head \in S
        BY <1>3, <2>2 DEF Before, IsRing
      <3>2. Final(S) \in S /\ \A k \in S : Order(k) <= Order(Final(S))
        BY <3>1, FirstFinal DEF Before
      <3>3. prev[n] \in S /\ \A k \in S : Order(k) <= Order(prev[n])
        BY <1>1, <1>2, <1>4, <2>2 DEF IsPrev, Before
      <3>4. Order(prev[n]) = Order(Final(S))
        BY <1>3, <3>2, <3>3 DEF Before
      <3> QED BY <1>3, <3>1, <3>2, <3>3, <3>4 DEF Preceding, Before
    <2> QED BY <2>1, <2>2
  <1> QED BY <1>5, <1>6

\* So it does in a ring as the constructor builds it.
LEMMA BuiltDances ==
  ASSUME NEW ring, NEW head, IsRing(ring, head), NEW next, NEW prev, NEW since,
         \A n \in ring : next[n] = Following(ring, n) /\ prev[n] = Preceding(ring, n),
         \A n \in ring : since[n] = 0
  PROVE  Dances(next, prev, ring, head, since)
  <1> SUFFICES ASSUME NEW n \in ring
               PROVE  IsNext(next[n], n, ring, head, since) /\ IsPrev(prev[n], n, ring, head, since)
    BY DEF Dances
  <1>2. \A m \in ring : Outlasts(since, m, n)
    BY DEF Outlasts
  <1>3. /\ \A m \in ring : Order(m) \in Int
        /\ head \in ring /\ \A m \in ring : Order(head) <= Order(m)
        /\ \A m, k \in ring : Order(m) = Order(k) => m = k
    BY DEF IsRing
  <1>5. IsNext(next[n], n, ring, head, since)
    <2>1. CASE After(ring, n) = {}
      <3>1. First(ring) \in ring /\ \A k \in ring : Order(First(ring)) <= Order(k)
        BY <1>3, FirstFinal
      <3>2. next[n] = head
        BY <1>3, <3>1, <2>1 DEF Following
      <3> QED BY <2>1, <3>2, <1>2, <1>3 DEF IsNext, After
    <2>2. CASE After(ring, n) # {}
      <3> DEFINE S == After(ring, n)
      <3>1. First(S) \in S /\ \A k \in S : Order(First(S)) <= Order(k)
        BY <2>2, FirstFinal DEF After
      <3>2. next[n] = First(S)
        BY <2>2 DEF Following
      <3> QED BY <1>2, <3>1, <3>2 DEF IsNext, After
    <2> QED BY <2>1, <2>2
  <1>6. IsPrev(prev[n], n, ring, head, since)
    <2>1. CASE n = head
      <3>1. Before(ring, n) = {}
        BY <1>3, <2>1 DEF Before
      <3>2. Final(ring) \in ring /\ \A k \in ring : Order(k) <= Order(Final(ring))
        BY <1>3, FirstFinal
      <3>3. prev[n] = Final(ring)
        BY <3>1 DEF Preceding
      <3> QED BY <1>2, <2>1, <3>2, <3>3 DEF IsPrev
    <2>2. CASE n # head
      <3> DEFINE S == Before(ring, n)
      <3>1. head \in S
        BY <1>3, <2>2 DEF Before, IsRing
      <3>2. Final(S) \in S /\ \A k \in S : Order(k) <= Order(Final(S))
        BY <3>1, FirstFinal DEF Before
      <3>3. prev[n] = Final(S)
        BY <3>1 DEF Preceding
      <3> QED BY <1>2, <2>2, <3>2, <3>3 DEF IsPrev, Before
    <2> QED BY <2>1, <2>2
  <1> QED BY <1>5, <1>6

\* n, which is in its ring at time t, was taken out as the last one before t ends
IsLatest(n, ring, since, t) ==
  \A m \in ring \ {n} : since[m] = 0 \/ since[m] < t \/ (since[m] = t /\ Order(m) < Order(n))

LEMMA PutFacts ==
  ASSUME NEW S, NEW T, NEW f \in [S -> T], NEW x \in S, NEW y \in T
  PROVE  /\ Put(f, x, y) \in [S -> T] /\ Put(f, x, y)[x] = y
         /\ \A z \in S \ {x} : Put(f, x, y)[z] = f[z]
  BY DEF Put

LEMMA HideInRing ==
  ASSUME NEW A, NEW ring \in SUBSET A, NEW head, IsRing(ring, head),
         NEW next \in [A -> A], NEW prev \in [A -> A], NEW since \in [A -> Nat],
         NEW n \in ring \ {head}, NEW t \in Nat \ {0},
         Dances(next, prev, ring, head, since), since[head] = 0, since[n] = 0,
         IsLatest(n, ring, since, t)
  PROVE  Dances(Put(next, prev[n], next[n]), Put(prev, next[n], prev[n]),
                ring, head, Put(since, n, t))
  <1> DEFINE p == prev[n]
             q == next[n]
             next2 == Put(next, p, q)
             prev2 == Put(prev, q, p)
             since2 == Put(since, n, t)
  <1>1. IsNext(q, n, ring, head, since) /\ IsPrev(p, n, ring, head, since)
    BY DEF Dances
  <1>2. /\ p \in ring /\ q \in ring /\ since[p] = 0 /\ since[q] = 0 /\ p # n /\ q # n
        /\ Order(p) < Order(n)
        /\ \A m \in ring : since[m] = 0 /\ Order(m) < Order(n) => Order(m) <= Order(p)
        /\ \/ Order(n) < Order(q) /\ \A m \in ring : since[m] = 0 /\ Order(n) < Order(m) => Order(q) <= Order(m)
           \/ q = head /\ \A m \in ring : since[m] = 0 => Order(m) <= Order(n)
    BY <1>1 DEF IsNext, IsPrev, Outlasts, IsRing
  <1>3. /\ since2 \in [A -> Nat] /\ since2[n] = t
        /\ \A m \in ring \ {n} : since2[m] = since[m]
        /\ next2[p] = q /\ \A m \in ring \ {p} : next2[m] = next[m]
        /\ prev2[q] = p /\ \A m \in ring \ {q} : prev2[m] = prev[m]
    BY <1>2 DEF Put
  <1> HIDE DEF since2, next2, prev2
  <1>4. ASSUME NEW k \in ring, NEW m \in ring
        PROVE  /\ since2[k] = 0 => (Outlasts(since2, m, k) <=> m # n /\ since[m] = 0)
               /\ since2[k] # 0 /\ k # n => (Outlasts(since2, m, k) <=> Outlasts(since, m, k))
               /\ Outlasts(since2, m, n) <=> m = n \/ since[m] = 0
               /\ since[k] = 0 => (Outlasts(since, m, k) <=> since[m] = 0)
    <2>1. since[k] \in Nat /\ since[m] \in Nat /\ Order(k) \in Int /\ Order(m) \in Int /\ Order(n) \in Int
      BY DEF IsRing
    <2> QED BY <2>1, <1>3 DEF Outlasts, IsLatest, IsRing
  <1>5. ASSUME NEW k \in ring
        PROVE  IsNext(next2[k], k, ring, head, since2)
    <2>0. IsNext(next[k], k, ring, head, since)
      BY DEF Dances
    <2>1. CASE k = p
      <3>1. since2[k] = 0
        BY <1>2, <1>3, <2>1
      <3> QED BY <1>2, <1>3, <1>4, <2>1, <3>1 DEF IsNext, IsRing
    <2>2. CASE k = n
      BY <1>2, <1>3, <1>4, <2>0, <2>2 DEF IsNext, IsRing
    <2>3. CASE k # p /\ k # n /\ since[k] = 0
      <3>1. next[k] # n
        BY <1>2, <1>4, <2>0, <2>3 DEF IsNext, IsRing
      <3>2. since2[k] = 0
        BY <1>3, <2>3
      <3> QED BY <1>2, <1>3, <1>4, <2>0, <2>3, <3>1, <3>2 DEF IsNext
    <2>4. CASE k # p /\ k # n /\ since[k] # 0
      <3>1. since2[k] # 0
        BY <1>3, <2>4
      <3> QED BY <1>3, <1>4, <2>0, <2>4, <3>1 DEF IsNext
    <2> QED BY <2>1, <2>2, <2>3, <2>4, <1>2
  <1>6. ASSUME NEW k \in ring
        PROVE  IsPrev(prev2[k], k, ring, head, since2)
    <2>0. IsPrev(prev[k], k, ring, head, since)
      BY DEF Dances
    <2>1. CASE k = q
      <3>1. since2[k] = 0
        BY <1>2, <1>3, <2>1
      <3> QED BY <1>2, <1>3, <1>4, <2>1, <3>1 DEF IsPrev, IsRing
    <2>2. CASE k = n
      BY <1>2, <1>3, <1>4, <2>0, <2>2 DEF IsPrev, IsRing
    <2>3. CASE k # q /\ k # n /\ since[k] = 0
      <3>1. prev[k] # n
        BY <1>2, <1>4, <2>0, <2>3 DEF IsPrev, IsRing
      <3>2. since2[k] = 0
        BY <1>3, <2>3
      <3> QED BY <1>2, <1>3, <1>4, <2>0, <2>3, <3>1, <3>2 DEF IsPrev
    <2>4. CASE k # q /\ k # n /\ since[k] # 0
      <3>1. since2[k] # 0
        BY <1>3, <2>4
      <3> QED BY <1>3, <1>4, <2>0, <2>4, <3>1 DEF IsPrev
    <2> QED BY <2>1, <2>2, <2>3, <2>4, <1>2
  <1> QED BY <1>5, <1>6 DEF Dances, next2, prev2, since2

LEMMA ShowInRing ==
  ASSUME NEW A, NEW ring \in SUBSET A, NEW head, IsRing(ring, head),
         NEW next \in [A -> A], NEW prev \in [A -> A], NEW since \in [A -> Nat],
         NEW n \in ring \ {head},
         Dances(next, prev, ring, head, since), since[head] = 0, since[n] # 0,
         IsLatest(n, ring, since, since[n])
  PROVE  Dances(Put(next, prev[n], n), Put(prev, next[n], n),
                ring, head, Put(since, n, 0))
  <1> DEFINE p == prev[n]
             q == next[n]
             next2 == Put(next, p, n)
             prev2 == Put(prev, q, n)
             since2 == Put(since, n, 0)
  <1>1. IsNext(q, n, ring, head, since) /\ IsPrev(p, n, ring, head, since)
    BY DEF Dances
  <1>0. ASSUME NEW m \in ring
        PROVE Outlasts(since, m, n) <=> m = n \/ since[m] = 0
    <2>1. since[n] \in Nat /\ since[m] \in Nat /\ Order(m) \in Int /\ Order(n) \in Int
      BY DEF IsRing
    <2> QED BY <2>1 DEF Outlasts, IsLatest, IsRing
  <1>2. /\ p \in ring /\ q \in ring /\ since[p] = 0 /\ since[q] = 0 /\ p # n /\ q # n
        /\ Order(p) < Order(n)
        /\ \A m \in ring : since[m] = 0 /\ Order(m) < Order(n) => Order(m) <= Order(p)
        /\ \/ Order(n) < Order(q) /\ \A m \in ring : since[m] = 0 /\ Order(n) < Order(m) => Order(q) <= Order(m)
           \/ q = head /\ \A m \in ring : since[m] = 0 => Order(m) <= Order(n)
    BY <1>0, <1>1 DEF IsNext, IsPrev, IsRing
  <1>3. /\ since2 \in [A -> Nat] /\ since2[n] = 0
        /\ \A m \in ring \ {n} : since2[m] = since[m]
        /\ next2[p] = n /\ \A m \in ring \ {p} : next2[m] = next[m]
        /\ prev2[q] = n /\ \A m \in ring \ {q} : prev2[m] = prev[m]
    BY <1>2 DEF Put
  <1> HIDE DEF since2, next2, prev2
  <1>4. ASSUME NEW k \in ring, NEW m \in ring
        PROVE  /\ since2[k] = 0 => (Outlasts(since2, m, k) <=> m = n \/ since[m] = 0)
               /\ since2[k] # 0 => (Outlasts(since2, m, k) <=> Outlasts(since, m, k))
               /\ since[k] = 0 => (Outlasts(since, m, k) <=> since[m] = 0)
    <2>1. since[k] \in Nat /\ since[m] \in Nat /\ Order(k) \in Int /\ Order(m) \in Int /\ Order(n) \in Int /\ since[n] \in Nat
      BY DEF IsRing
    <2> QED BY <2>1, <1>3 DEF Outlasts, IsLatest, IsRing
  <1>5. ASSUME NEW k \in ring
        PROVE  IsNext(next2[k], k, ring, head, since2)
    <2>0. IsNext(next[k], k, ring, head, since)
      BY DEF Dances
    <2>1. CASE k = p
      <3>1. since2[k] = 0
        BY <1>2, <1>3, <2>1
      <3> QED BY <1>2, <1>3, <1>4, <2>1, <3>1 DEF IsNext, IsRing
    <2>2. CASE k = n
      BY <1>2, <1>3, <1>4, <2>2 DEF IsNext, IsRing
    <2>3. CASE k # p /\ k # n /\ since[k] = 0
      <3>2. since2[k] = 0
        BY <1>3, <2>3
      <3>3. next2[k] = next[k] /\ next[k] \in ring /\ since[next[k]] = 0
        BY <1>3, <1>4, <2>0, <2>3 DEF IsNext
      <3>4. CASE Order(k) < Order(next[k])
        <4>1. \A m \in ring : since[m] = 0 /\ Order(k) < Order(m) => Order(next[k]) <= Order(m)
          BY <1>4, <2>0, <2>3, <3>4 DEF IsNext, IsRing
        <4>2. Order(k) < Order(n) => Order(next[k]) <= Order(n)
          <5>1. /\ Order(n) \in Int /\ Order(p) \in Int /\ Order(k) \in Int
                /\ Order(next[k]) \in Int /\ Order(p) # Order(k)
            BY <1>2, <2>3, <3>3 DEF IsRing
          <5>2. /\ Order(p) < Order(n)
                /\ Order(k) < Order(n) => Order(k) <= Order(p)
                /\ Order(k) < Order(p) => Order(next[k]) <= Order(p)
            BY <1>2, <4>1, <2>3
          <5> QED BY ONLY <5>1, <5>2
        <4> QED BY <1>4, <3>2, <3>3, <3>4, <4>1, <4>2 DEF IsNext
      <3>5. CASE ~(Order(k) < Order(next[k]))
        <4>1. next[k] = head /\ \A m \in ring : since[m] = 0 => Order(m) <= Order(k)
          BY <1>4, <2>0, <2>3, <3>5 DEF IsNext
        <4>2. Order(n) <= Order(k)
          BY <1>2, <4>1, <2>3 DEF IsRing
        <4> QED BY <1>4, <3>2, <3>3, <4>1, <4>2 DEF IsNext
      <3> QED BY <3>4, <3>5
    <2>4. CASE k # p /\ k # n /\ since[k] # 0
      <3>1. since2[k] # 0
        BY <1>3, <2>4
      <3> QED BY <1>3, <1>4, <2>0, <2>4, <3>1 DEF IsNext
    <2> QED BY <2>1, <2>2, <2>3, <2>4, <1>2
  <1>6. ASSUME NEW k \in ring
        PROVE  IsPrev(prev2[k], k, ring, head, since2)
    <2>0. IsPrev(prev[k], k, ring, head, since)
      BY DEF Dances
    <2>1. CASE k = q
      <3>1. since2[k] = 0
        BY <1>2, <1>3, <2>1
      <3> QED BY <1>2, <1>3, <1>4, <2>1, <3>1 DEF IsPrev, IsRing
    <2>2. CASE k = n
      BY <1>2, <1>3, <1>4, <2>2 DEF IsPrev, IsRing
    <2>3. CASE k # q /\ k # n /\ since[k] = 0
      <3>2. since2[k] = 0
        BY <1>3, <2>3
      <3>3. prev2[k] = prev[k] /\ prev[k] \in ring /\ since[prev[k]] = 0
        BY <1>3, <1>4, <2>0, <2>3 DEF IsPrev
      <3>4. CASE k # head
        <4>1. Order(prev[k]) < Order(k) /\ \A m \in ring : since[m] = 0 /\ Order(m) < Order(k) => Order(m) <= Order(prev[k])
          BY <1>4, <2>0, <2>3, <3>4 DEF IsPrev, IsRing
        <4>2. Order(n) < Order(k) => Order(n) <= Order(prev[k])
          <5>1. /\ Order(n) \in Int /\ Order(q) \in Int /\ Order(prev[k]) \in Int /\ Order(k) \in Int
                /\ Order(q) # Order(k)
            BY <1>2, <2>3, <3>3 DEF IsRing
          <5>2. CASE Order(n) < Order(q) /\ (Order(n) < Order(k) => Order(q) <= Order(k))
            BY <5>1, <5>2, <4>1, <1>2
          <5>3. CASE Order(k) <= Order(n)
            BY <5>3, <5>1
          <5> QED BY <5>2, <5>3, <1>2, <2>3
        <4> QED BY <1>4, <3>2, <3>3, <3>4, <4>1, <4>2 DEF IsPrev
      <3>5. CASE k = head
        <4>1. \A m \in ring : since[m] = 0 => Order(m) <= Order(prev[k])
          BY <1>4, <2>0, <2>3, <3>5 DEF IsPrev
        <4>2. Order(n) <= Order(prev[k])
          <5>1. /\ Order(n) \in Int /\ Order(q) \in Int /\ Order(prev[k]) \in Int
                /\ q = head => Order(q) <= Order(prev[k])
            BY <1>2, <3>3 DEF IsRing
          <5>2. CASE Order(n) < Order(q)
            BY <5>1, <5>2, <4>1, <1>2
          <5>3. CASE q = head
            BY <5>3, <3>5, <2>3
          <5> QED BY <5>2, <5>3, <1>2
        <4> QED BY <1>4, <3>2, <3>3, <3>5, <4>1, <4>2 DEF IsPrev
      <3> QED BY <3>4, <3>5
    <2>4. CASE k # q /\ k # n /\ since[k] # 0
      <3>1. since2[k] # 0
        BY <1>3, <2>4
      <3> QED BY <1>3, <1>4, <2>0, <2>4, <3>1 DEF IsPrev
    <2> QED BY <2>1, <2>2, <2>3, <2>4, <1>2
  <1> QED BY <1>5, <1>6 DEF Dances, next2, prev2, since2

-----------------------------------------------------------------------------
(* When nodes are unlinked.                                                 *)

LEMMA FirstHitFacts ==
  ASSUME NEW cov, Len(cov) \in Nat, NEW n, Hits(cov, n) # {}
  PROVE  /\ FirstHit(cov, n) \in 1..Len(cov)
         /\ cov[FirstHit(cov, n)] \in RowColumns(n)
         /\ \A j \in 1..Len(cov) : cov[j] \in RowColumns(n) => FirstHit(cov, n) <= j
  <1>1. Hits(cov, n) \subseteq Nat
    BY DEF Hits
  <1>2. \E k \in Hits(cov, n) : \A j \in Hits(cov, n) : k <= j
    BY <1>1, Least
  <1>3. FirstHit(cov, n) \in Hits(cov, n) /\ \A j \in Hits(cov, n) : FirstHit(cov, n) <= j
    BY <1>2 DEF FirstHit
  <1> QED BY <1>3 DEF Hits

LEMMA FirstHitIs ==
  ASSUME NEW cov, Len(cov) \in Nat, NEW n, NEW k \in 1..Len(cov), cov[k] \in RowColumns(n),
         \A j \in 1..Len(cov) : cov[j] \in RowColumns(n) => k <= j
  PROVE  Hits(cov, n) # {} /\ FirstHit(cov, n) = k
  <1>1. Hits(cov, n) # {}
    BY DEF Hits
  <1>2. FirstHit(cov, n) <= k /\ k <= FirstHit(cov, n) /\ FirstHit(cov, n) \in Int
    BY <1>1, FirstHitFacts
  <1> QED BY <1>1, <1>2

LEMMA AppendFacts ==
  ASSUME NEW S, NEW s \in Seq(S), NEW e \in S
  PROVE  /\ Append(s, e) \in Seq(S) /\ Len(s) \in Nat
         /\ Len(Append(s, e)) = Len(s) + 1
         /\ \A i \in 1..Len(s) : Append(s, e)[i] = s[i]
         /\ Append(s, e)[Len(s) + 1] = e
         /\ \A i \in 1..(Len(s) + 1) : i \in 1..Len(s) \/ i = Len(s) + 1
  <1>1. Len(s) \in Nat
    BY LenProperties
  <1> QED BY <1>1, AppendProperties

LEMMA HitsAppend ==
  ASSUME NEW S, NEW cov \in Seq(S), NEW c \in S, NEW n
  PROVE  /\ Hits(cov, n) # {} =>
              /\ Hits(Append(cov, c), n) # {}
              /\ FirstHit(Append(cov, c), n) = FirstHit(cov, n)
              /\ FirstHit(cov, n) \in 1..Len(cov)
         /\ Hits(cov, n) = {} /\ c \in RowColumns(n) =>
              /\ Hits(Append(cov, c), n) # {}
              /\ FirstHit(Append(cov, c), n) = Len(cov) + 1
         /\ Hits(cov, n) = {} /\ c \notin RowColumns(n) => Hits(Append(cov, c), n) = {}
  <1>1. /\ Len(cov) \in Nat
        /\ Len(Append(cov, c)) = Len(cov) + 1
        /\ \A i \in 1..Len(cov) : Append(cov, c)[i] = cov[i]
        /\ Append(cov, c)[Len(cov) + 1] = c
        /\ \A i \in 1..(Len(cov) + 1) : i \in 1..Len(cov) \/ i = Len(cov) + 1
    BY AppendFacts
  <1>2. ASSUME Hits(cov, n) # {}
        PROVE  /\ Hits(Append(cov, c), n) # {}
               /\ FirstHit(Append(cov, c), n) = FirstHit(cov, n)
               /\ FirstHit(cov, n) \in 1..Len(cov)
    <2>1. PICK k \in 1..Len(cov) : k = FirstHit(cov, n)
      BY <1>1, <1>2, FirstHitFacts
    <2>2. cov[k] \in RowColumns(n) /\ \A j \in 1..Len(cov) : cov[j] \in RowColumns(n) => k <= j
      BY <1>1, <1>2, <2>1, FirstHitFacts
    <2>3. k \in 1..Len(Append(cov, c)) /\ Append(cov, c)[k] \in RowColumns(n)
      BY <1>1, <2>2
    <2>4. ASSUME NEW j \in 1..Len(Append(cov, c)), Append(cov, c)[j] \in RowColumns(n)
          PROVE  k <= j
      <3>1. j \in 1..Len(cov) \/ j = Len(cov) + 1
        BY <1>1
      <3>2. CASE j \in 1..Len(cov)
        BY <2>2, <2>4, <3>2, <1>1
      <3>3. CASE j = Len(cov) + 1
        BY <1>1, <3>3
      <3> QED BY <3>1, <3>2, <3>3
    <2>5. Len(Append(cov, c)) \in Nat
      BY <1>1
    <2> QED BY <2>1, <2>3, <2>4, <2>5, FirstHitIs
  <1>3. ASSUME Hits(cov, n) = {}, c \in RowColumns(n)
        PROVE  Hits(Append(cov, c), n) # {} /\ FirstHit(Append(cov, c), n) = Len(cov) + 1
    <2>1. \A j \in 1..Len(cov) : cov[j] \notin RowColumns(n)
      BY <1>3 DEF Hits
    <2>2. \A j \in 1..Len(Append(cov, c)) : Append(cov, c)[j] \in RowColumns(n) => Len(cov) + 1 <= j
      BY <1>1, <2>1
    <2>3. PICK k : k = Len(cov) + 1
      OBVIOUS
    <2>4. Len(Append(cov, c)) \in Nat /\ k \in 1..Len(Append(cov, c)) /\ Append(cov, c)[k] = c
      BY <1>1, <2>3
    <2> QED BY <1>3, <2>2, <2>3, <2>4, FirstHitIs
  <1>4. ASSUME Hits(cov, n) = {}, c \notin RowColumns(n)
        PROVE  Hits(Append(cov, c), n) = {}
    BY <1>1, <1>4 DEF Hits
  <1> QED BY <1>2, <1>3, <1>4

LEMMA SameRowHits ==
  ASSUME NEW m, NEW n, SameRow(m, n), NEW cov
  PROVE  /\ RowColumns(m) = RowColumns(n)
         /\ Hits(cov, m) = Hits(cov, n) /\ FirstHit(cov, m) = FirstHit(cov, n)
  BY DEF SameRow, RowColumns, Hits, FirstHit

\* The row of a node has one in each of its columns.
LEMMA RowMate ==
  ASSUME NEW b, NEW n \in Nds(b), NEW c \in RowColumns(n)
  PROVE  \E m \in Nds(b) : /\ SameRow(m, n) /\ ColumnOf(m) = c /\ Order(m) = Order(n)
                           /\ m \in Ring(b, c) \ {c}
  <1>1. PICK m \in Nds(b) : SameRow(m, n) /\ ColumnOf(m) = c
    <2>1. CASE c = ColumnOf(n)
      BY <2>1 DEF SameRow
    <2>2. CASE c # ColumnOf(n)
      BY <2>2, RightFacts
    <2> QED BY <2>1, <2>2
  <1>2. Order(m) = Order(n)
    BY <1>1, NodeOrder
  <1>3. m # c
    BY <1>1, NodeFacts
  <1> QED BY <1>1, <1>2, <1>3 DEF Ring, NodesIn

LEMMA SinceFacts ==
  ASSUME NEW b, NEW cov \in Seq(Columns(b)), NEW a, NEW p
  PROVE  /\ NodeSince(b, cov, a, p) \in [VNodes(b) -> Nat]
         /\ \A c \in Columns(b) : NodeSince(b, cov, a, p)[c] = 0
         /\ \A n \in Nds(b) :
              /\ Hits(cov, n) = {} => NodeSince(b, cov, a, p)[n] = 0
              /\ Hits(cov, n) # {} =>
                   NodeSince(b, cov, a, p)[n] =
                     IF \/ cov[FirstHit(cov, n)] = ColumnOf(n)
                        \/ FirstHit(cov, n) = Len(cov) /\ Ahead(a, p, cov[Len(cov)], n)
                     THEN 0 ELSE FirstHit(cov, n)
  <1>1. Len(cov) \in Nat
    BY LenProperties
  <1>2. \A n \in Nds(b) : n \in VNodes(b) /\ n \notin Columns(b)
    BY NodeFacts DEF VNodes
  <1>3. ASSUME NEW n \in VNodes(b)
        PROVE  NodeSince(b, cov, a, p)[n] \in Nat
    <2>1. Hits(cov, n) # {} => FirstHit(cov, n) \in Nat
      BY <1>1, FirstHitFacts
    <2> QED BY <2>1 DEF NodeSince
  <1> QED BY <1>2, <1>3 DEF NodeSince, VNodes

\* Two states in which the same nodes are unlinked, at the same times.
LEMMA SameSince ==
  ASSUME NEW b, NEW cov \in Seq(Columns(b)), NEW a, NEW p, NEW a2, NEW p2,
         \A n \in Nds(b) :
           /\ Hits(cov, n) # {} /\ FirstHit(cov, n) = Len(cov) /\ ColumnOf(n) # cov[Len(cov)]
           => (Ahead(a, p, cov[Len(cov)], n) <=> Ahead(a2, p2, cov[Len(cov)], n))
  PROVE  NodeSince(b, cov, a, p) = NodeSince(b, cov, a2, p2)
  <1>1. ASSUME NEW n \in VNodes(b)
        PROVE  NodeSince(b, cov, a, p)[n] = NodeSince(b, cov, a2, p2)[n]
    <2>1. CASE n \in Columns(b)
      BY <2>1, SinceFacts
    <2>2. CASE n \in Nds(b) /\ Hits(cov, n) = {}
      BY <2>2, SinceFacts
    <2>3. CASE n \in Nds(b) /\ Hits(cov, n) # {} /\ FirstHit(cov, n) = Len(cov)
      BY <2>3, SinceFacts
    <2>4. CASE n \in Nds(b) /\ Hits(cov, n) # {} /\ FirstHit(cov, n) # Len(cov)
      BY <2>4, SinceFacts
    <2> QED BY <2>1, <2>2, <2>3, <2>4 DEF VNodes
  <1>2. /\ NodeSince(b, cov, a, p) \in [VNodes(b) -> Nat]
        /\ NodeSince(b, cov, a2, p2) \in [VNodes(b) -> Nat]
    BY SinceFacts
  <1> QED BY <1>1, <1>2

\* One more column is covered, and its rows are all still to be hidden or have been shown.
LEMMA SinceAppend ==
  ASSUME NEW b, NEW cov \in Seq(Columns(b)), NEW c \in Columns(b),
         NEW a, NEW p, p \notin {"hide", "show"}, NEW a2, NEW p2,
         \A n \in Nds(b) : Hits(cov, n) = {} /\ c \in RowColumns(n) => Ahead(a2, p2, c, n)
  PROVE  NodeSince(b, Append(cov, c), a2, p2) = NodeSince(b, cov, a, p)
  <1> DEFINE cov2 == Append(cov, c)
  <1>0. /\ cov2 \in Seq(Columns(b)) /\ Len(cov) \in Nat
        /\ Len(cov2) = Len(cov) + 1 /\ cov2[Len(cov2)] = c
        /\ \A i \in 1..Len(cov) : cov2[i] = cov[i]
    BY AppendFacts
  <1>9. ASSUME NEW n
        PROVE  /\ Hits(cov, n) # {} =>
                    /\ Hits(cov2, n) # {}
                    /\ FirstHit(cov2, n) = FirstHit(cov, n)
                    /\ FirstHit(cov, n) \in 1..Len(cov)
               /\ Hits(cov, n) = {} /\ c \in RowColumns(n) =>
                    /\ Hits(cov2, n) # {}
                    /\ FirstHit(cov2, n) = Len(cov2)
               /\ Hits(cov, n) = {} /\ c \notin RowColumns(n) => Hits(cov2, n) = {}
    BY <1>0, HitsAppend
  <1> HIDE DEF cov2
  <1>1. ASSUME NEW n \in VNodes(b)
        PROVE  NodeSince(b, cov2, a2, p2)[n] = NodeSince(b, cov, a, p)[n]
    <2>1. CASE n \in Columns(b)
      BY <1>0, <2>1, SinceFacts
    <2>2. CASE n \in Nds(b) /\ Hits(cov, n) = {} /\ c \notin RowColumns(n)
      <3>1. Hits(cov2, n) = {}
        BY <2>2, <1>9
      <3> QED BY <1>0, <2>2, <3>1, SinceFacts
    <2>3. CASE n \in Nds(b) /\ Hits(cov, n) = {} /\ c \in RowColumns(n)
      <3>1. Hits(cov2, n) # {} /\ FirstHit(cov2, n) = Len(cov2)
        BY <1>0, <2>3, <1>9
      <3>2. NodeSince(b, cov, a, p)[n] = 0
        BY <2>3, SinceFacts
      <3>3. Ahead(a2, p2, cov2[Len(cov2)], n)
        BY <1>0, <2>3
      <3>4. NodeSince(b, cov2, a2, p2)[n] = 0
        BY <1>0, <2>3, <3>1, <3>3, SinceFacts
      <3> QED BY <3>2, <3>4
    <2>4. CASE n \in Nds(b) /\ Hits(cov, n) # {}
      <3>1. PICK f \in 1..Len(cov) : f = FirstHit(cov, n) /\ f = FirstHit(cov2, n)
        BY <2>4, <1>9
      <3>2. Hits(cov2, n) # {} /\ cov2[f] = cov[f] /\ f # Len(cov2)
        BY <1>0, <2>4, <1>9
      <3>3. ~Ahead(a, p, cov[Len(cov)], n)
        BY DEF Ahead
      <3>4. NodeSince(b, cov2, a2, p2)[n] = IF cov[f] = ColumnOf(n) THEN 0 ELSE f
        BY <1>0, <2>4, <3>1, <3>2, SinceFacts
      <3>5. NodeSince(b, cov, a, p)[n] = IF cov[f] = ColumnOf(n) THEN 0 ELSE f
        <4>1. NodeSince(b, cov, a, p)[n] =
                IF cov[FirstHit(cov, n)] = ColumnOf(n) \/
                   (FirstHit(cov, n) = Len(cov) /\ Ahead(a, p, cov[Len(cov)], n))
                THEN 0 ELSE FirstHit(cov, n)
          BY <2>4, SinceFacts
        <4> QED BY <3>1, <3>3, <4>1
      <3> QED BY <3>4, <3>5
    <2> QED BY <2>1, <2>2, <2>3, <2>4 DEF VNodes
  <1>2. /\ NodeSince(b, cov, a, p) \in [VNodes(b) -> Nat]
        /\ NodeSince(b, cov2, a2, p2) \in [VNodes(b) -> Nat]
    BY <1>0, SinceFacts
  <1> QED BY <1>1, <1>2 DEF cov2

-----------------------------------------------------------------------------
(* cover() and uncover() of a column, without its rows.                     *)

LEMMA ColumnLinks ==
  ASSUME NEW b, NEW l \in Links(b), NEW c \in Columns(b)
  PROVE  /\ UnlinkColumn(l, c) \in Links(b) /\ LinkColumn(l, c) \in Links(b)
         /\ UnlinkColumn(l, c).right = Put(l.right, l.left[c], l.right[c])
         /\ UnlinkColumn(l, c).left = Put(l.left, l.right[c], l.left[c])
         /\ UnlinkColumn(l, c).down = l.down /\ UnlinkColumn(l, c).up = l.up
         /\ UnlinkColumn(l, c).size = l.size
         /\ LinkColumn(l, c).right = Put(l.right, l.left[c], c)
         /\ LinkColumn(l, c).left = Put(l.left, l.right[c], c)
         /\ LinkColumn(l, c).down = l.down /\ LinkColumn(l, c).up = l.up
         /\ LinkColumn(l, c).size = l.size
  <1>1. /\ l.right \in [Header(b) -> Header(b)] /\ l.left \in [Header(b) -> Header(b)]
        /\ l.right[c] \in Header(b) /\ l.left[c] \in Header(b) /\ c \in Header(b)
    BY DEF Links, Header
  <1> DEFINE right2 == Put(l.right, l.left[c], l.right[c])
             left2  == Put(l.left, l.right[c], l.left[c])
             right3 == Put(l.right, l.left[c], c)
             left3  == Put(l.left, l.right[c], c)
  <1>2. /\ right2 \in [Header(b) -> Header(b)] /\ left2 \in [Header(b) -> Header(b)]
        /\ right3 \in [Header(b) -> Header(b)] /\ left3 \in [Header(b) -> Header(b)]
    BY <1>1, PutFacts
  <1>3. /\ UnlinkColumn(l, c) = [l EXCEPT !.left = left2, !.right = right2]
        /\ LinkColumn(l, c) = [l EXCEPT !.left = left3, !.right = right3]
    BY DEF UnlinkColumn, LinkColumn
  <1> HIDE DEF right2, left2, right3, left3
  <1>4. /\ [l EXCEPT !.left = left2, !.right = right2] \in Links(b)
        /\ [l EXCEPT !.left = left2, !.right = right2].right = right2
        /\ [l EXCEPT !.left = left2, !.right = right2].left = left2
        /\ [l EXCEPT !.left = left2, !.right = right2].down = l.down
        /\ [l EXCEPT !.left = left2, !.right = right2].up = l.up
        /\ [l EXCEPT !.left = left2, !.right = right2].size = l.size
    BY <1>2 DEF Links
  <1>5. /\ [l EXCEPT !.left = left3, !.right = right3] \in Links(b)
        /\ [l EXCEPT !.left = left3, !.right = right3].right = right3
        /\ [l EXCEPT !.left = left3, !.right = right3].left = left3
        /\ [l EXCEPT !.left = left3, !.right = right3].down = l.down
        /\ [l EXCEPT !.left = left3, !.right = right3].up = l.up
        /\ [l EXCEPT !.left = left3, !.right = right3].size = l.size
    BY <1>2 DEF Links
  <1> QED BY <1>3, <1>4, <1>5 DEF right2, left2, right3, left3

LEMMA LinkTypes ==
  ASSUME NEW b, NEW l \in Links(b)
  PROVE  /\ l.right \in [Header(b) -> Header(b)] /\ l.left \in [Header(b) -> Header(b)]
         /\ l.down \in [VNodes(b) -> VNodes(b)] /\ l.up \in [VNodes(b) -> VNodes(b)]
         /\ l.size \in [Columns(b) -> Int]
  BY DEF Links

LEMMA HeaderSinceFacts ==
  ASSUME NEW b, NEW cov \in Seq(Columns(b)), Distinct(cov)
  PROVE  /\ HeaderSince(b, cov) \in [Header(b) -> Nat] /\ HeaderSince(b, cov)[root_] = 0
         /\ \A k \in 1..Len(cov) : HeaderSince(b, cov)[cov[k]] = k
         /\ \A c \in Header(b) : HeaderSince(b, cov)[c] = 0 <=> c \notin Range(cov)
         /\ \A c \in Header(b) : HeaderSince(b, cov)[c] \in 0..Len(cov)
  <1>1. /\ Len(cov) \in Nat /\ DOMAIN cov = 1..Len(cov)
        /\ \A k \in 1..Len(cov) : cov[k] \in Columns(b) /\ cov[k] \in Header(b) /\ cov[k] # root_
    BY LenProperties, ElementOfSeq, ColumnFacts DEF Header
  <1>2. Range(cov) = {cov[k] : k \in 1..Len(cov)}
    BY <1>1 DEF Range
  <1>3. root_ \notin Range(cov) /\ root_ \in Header(b)
    BY <1>1, <1>2 DEF Header
  <1>4. ASSUME NEW k \in 1..Len(cov)
        PROVE  HeaderSince(b, cov)[cov[k]] = k
    <2>1. \A j \in 1..Len(cov) : cov[j] = cov[k] <=> j = k
      BY DEF Distinct
    <2>2. (CHOOSE j \in 1..Len(cov) : cov[j] = cov[k]) = k
      BY <2>1
    <2> QED BY <2>2, <1>1, <1>2 DEF HeaderSince
  <1>5. ASSUME NEW c \in Header(b), c \notin Range(cov)
        PROVE  HeaderSince(b, cov)[c] = 0
    BY <1>5 DEF HeaderSince
  <1>6. ASSUME NEW c \in Header(b), c \in Range(cov)
        PROVE  HeaderSince(b, cov)[c] \in 1..Len(cov)
    BY <1>6, <1>2, <1>4
  <1>7. \A c \in Header(b) : HeaderSince(b, cov)[c] \in 0..Len(cov)
    BY <1>1, <1>5, <1>6
  <1>8. \A c \in Header(b) : HeaderSince(b, cov)[c] = 0 <=> c \notin Range(cov)
    BY <1>1, <1>5, <1>6
  <1>9. HeaderSince(b, cov) \in [Header(b) -> Nat]
    BY <1>1, <1>7 DEF HeaderSince
  <1> QED BY <1>3, <1>4, <1>5, <1>7, <1>8, <1>9

LEMMA AppendRange ==
  ASSUME NEW S, NEW s \in Seq(S), NEW e \in S
  PROVE  Range(Append(s, e)) = Range(s) \cup {e}
  <1>1. /\ Append(s, e) \in Seq(S) /\ Len(s) \in Nat
        /\ Len(Append(s, e)) = Len(s) + 1
        /\ \A i \in 1..Len(s) : Append(s, e)[i] = s[i]
        /\ Append(s, e)[Len(s) + 1] = e
        /\ \A i \in 1..(Len(s) + 1) : i \in 1..Len(s) \/ i = Len(s) + 1
    BY AppendFacts
  <1>2. DOMAIN s = 1..Len(s) /\ DOMAIN Append(s, e) = 1..(Len(s) + 1)
    BY <1>1, LenProperties
  <1> QED BY <1>1, <1>2 DEF Range

LEMMA HeaderSinceAppend ==
  ASSUME NEW b, NEW cov \in Seq(Columns(b)), Distinct(cov), NEW c \in Columns(b), c \notin Range(cov)
  PROVE  /\ Append(cov, c) \in Seq(Columns(b)) /\ Distinct(Append(cov, c))
         /\ HeaderSince(b, Append(cov, c)) = Put(HeaderSince(b, cov), c, Len(cov) + 1)
  <1> DEFINE cov2 == Append(cov, c)
  <1>1. /\ cov2 \in Seq(Columns(b)) /\ Len(cov) \in Nat
        /\ Len(cov2) = Len(cov) + 1 /\ cov2[Len(cov) + 1] = c
        /\ \A i \in 1..Len(cov) : cov2[i] = cov[i]
        /\ \A i \in 1..(Len(cov) + 1) : i \in 1..Len(cov) \/ i = Len(cov) + 1
        /\ Range(cov2) = Range(cov) \cup {c}
    BY AppendFacts, AppendRange
  <1> HIDE DEF cov2
  <1>2. \A i \in 1..Len(cov) : cov[i] # c
    BY LenProperties DEF Range
  <1>3. Distinct(cov2)
    BY <1>1, <1>2 DEF Distinct
  <1>4. ASSUME NEW d \in Header(b)
        PROVE  HeaderSince(b, cov2)[d] = Put(HeaderSince(b, cov), c, Len(cov) + 1)[d]
    <2>0. HeaderSince(b, cov) \in [Header(b) -> Nat] /\ c \in Header(b)
      BY HeaderSinceFacts DEF Header
    <2>1. CASE d = c
      <3>1. Len(cov) + 1 \in 1..Len(cov2)
        BY <1>1
      <3>2. HeaderSince(b, cov2)[cov2[Len(cov) + 1]] = Len(cov) + 1
        BY <1>1, <1>3, <3>1, HeaderSinceFacts
      <3> QED BY <1>1, <2>0, <2>1, <3>2 DEF Put
    <2>2. CASE d # c /\ d \notin Range(cov)
      <3>1. HeaderSince(b, cov2)[d] = 0 /\ HeaderSince(b, cov)[d] = 0
        BY <1>1, <1>3, <2>2, HeaderSinceFacts
      <3> QED BY <2>0, <2>2, <3>1 DEF Put
    <2>3. CASE d # c /\ d \in Range(cov)
      <3>1. PICK k \in 1..Len(cov) : d = cov[k]
        BY <2>3, LenProperties DEF Range
      <3>2. HeaderSince(b, cov)[cov[k]] = k
        BY HeaderSinceFacts
      <3>3. k \in 1..Len(cov2) /\ cov2[k] = cov[k]
        BY <1>1
      <3>4. HeaderSince(b, cov2)[cov2[k]] = k
        BY <1>1, <1>3, <3>3, HeaderSinceFacts
      <3> QED BY <2>0, <2>3, <3>1, <3>2, <3>3, <3>4 DEF Put
    <2> QED BY <2>1, <2>2, <2>3
  <1>5. /\ HeaderSince(b, cov2) \in [Header(b) -> Nat] /\ HeaderSince(b, cov) \in [Header(b) -> Nat]
    BY <1>1, <1>3, HeaderSinceFacts
  <1>6. Put(HeaderSince(b, cov), c, Len(cov) + 1) \in [Header(b) -> Nat]
    <2>1. Len(cov) + 1 \in Nat
      BY <1>1
    <2> QED BY <1>5, <2>1 DEF Put
  <1>7. HeaderSince(b, cov2) = Put(HeaderSince(b, cov), c, Len(cov) + 1)
    BY <1>4, <1>5, <1>6
  <1> QED BY <1>1, <1>3, <1>7 DEF cov2

\* The column leaves the ring of root_.
LEMMA UnlinkDances ==
  ASSUME NEW b, NEW l \in Links(b), NEW cov \in Seq(Columns(b)), Distinct(cov),
         HeaderDances(b, l, cov), NEW c \in Columns(b), c \notin Range(cov)
  PROVE  HeaderDances(b, UnlinkColumn(l, c), Append(cov, c))
  <1> DEFINE H == Header(b)
             since == HeaderSince(b, cov)
             t == Len(cov) + 1
  <1>1. /\ l.right \in [H -> H] /\ l.left \in [H -> H] /\ since \in [H -> Nat]
        /\ c \in H \ {root_} /\ t \in Nat \ {0} /\ H \in SUBSET H /\ Len(cov) \in Nat
    <2>1. l.right \in [H -> H] /\ l.left \in [H -> H]
      BY LinkTypes
    <2>2. since \in [H -> Nat]
      BY HeaderSinceFacts
    <2>3. c \in H \ {root_}
      BY ColumnFacts DEF Header
    <2>4. Len(cov) \in Nat
      BY LenProperties
    <2>5. t \in Nat \ {0}
      BY <2>4
    <2> QED BY <2>1, <2>2, <2>3, <2>4, <2>5
  <1>2. IsRing(H, root_)
    BY Rings
  <1>3. since[root_] = 0 /\ since[c] = 0 /\ \A m \in H : since[m] \in 0..Len(cov)
    BY <1>1, HeaderSinceFacts
  <1>4. IsLatest(c, H, since, t)
    BY <1>1, <1>3 DEF IsLatest
  <1>5. Dances(l.right, l.left, H, root_, since)
    BY DEF HeaderDances
  <1>6. HeaderSince(b, Append(cov, c)) = Put(since, c, t)
    BY HeaderSinceAppend
  <1> HIDE DEF H, since, t
  <1>7. Dances(Put(l.right, l.left[c], l.right[c]), Put(l.left, l.right[c], l.left[c]),
               H, root_, Put(since, c, t))
    BY <1>1, <1>2, <1>3, <1>4, <1>5, HideInRing
  <1>8. Dances(UnlinkColumn(l, c).right, UnlinkColumn(l, c).left, H, root_, HeaderSince(b, Append(cov, c)))
    <2>1. /\ UnlinkColumn(l, c).right = Put(l.right, l.left[c], l.right[c])
          /\ UnlinkColumn(l, c).left = Put(l.left, l.right[c], l.left[c])
      BY ColumnLinks
    <2> QED BY ONLY <1>6, <1>7, <2>1
  <1> QED BY <1>8 DEF HeaderDances, H

\* And comes back to it.
LEMMA LinkDances ==
  ASSUME NEW b, NEW l \in Links(b), NEW cov \in Seq(Columns(b)), Distinct(cov),
         NEW c \in Columns(b), c \notin Range(cov), HeaderDances(b, l, Append(cov, c))
  PROVE  HeaderDances(b, LinkColumn(l, c), cov)
  <1> DEFINE H == Header(b)
             since == HeaderSince(b, Append(cov, c))
             old == HeaderSince(b, cov)
             t == Len(cov) + 1
  <1>0. /\ old \in [H -> Nat] /\ since = Put(old, c, t) /\ old[root_] = 0 /\ old[c] = 0
        /\ \A m \in H : old[m] \in 0..Len(cov)
    <2>1. since = Put(old, c, t)
      BY HeaderSinceAppend
    <2>2. old \in [H -> Nat] /\ old[root_] = 0 /\ \A m \in H : old[m] \in 0..Len(cov)
      BY HeaderSinceFacts
    <2>3. old[c] = 0
      <3>1. c \in Header(b)
        BY DEF Header
      <3> QED BY <3>1, HeaderSinceFacts
    <2> QED BY <2>1, <2>2, <2>3
  <1>1. /\ l.right \in [H -> H] /\ l.left \in [H -> H]
        /\ c \in H \ {root_} /\ t \in Nat \ {0} /\ H \in SUBSET H /\ Len(cov) \in Nat
    <2>1. l.right \in [H -> H] /\ l.left \in [H -> H]
      BY LinkTypes
    <2>3. c \in H \ {root_}
      BY ColumnFacts DEF Header
    <2>4. Len(cov) \in Nat
      BY LenProperties
    <2>5. t \in Nat \ {0}
      BY <2>4
    <2> QED BY <2>1, <2>3, <2>4, <2>5
  <1>2. IsRing(H, root_)
    BY Rings
  <1>5. Dances(l.right, l.left, H, root_, since)
    BY DEF HeaderDances
  <1> HIDE DEF H, since, t, old
  <1>3. since \in [H -> Nat] /\ since[root_] = 0 /\ since[c] = t /\ since[c] # 0
    BY <1>0, <1>1, <1>2 DEF IsRing, Put
  <1>4. IsLatest(c, H, since, since[c])
    <2>1. \A m \in H \ {c} : since[m] = old[m] /\ since[m] < t
      <3>1. t = Len(cov) + 1
        BY DEF t
      <3> QED BY <1>0, <1>1, <3>1 DEF Put
    <2> QED BY <2>1, <1>3 DEF IsLatest
  <1>6. old = Put(since, c, 0)
    BY <1>0, <1>1 DEF Put
  <1>7. Dances(Put(l.right, l.left[c], c), Put(l.left, l.right[c], c),
               H, root_, Put(since, c, 0))
    BY <1>1, <1>2, <1>3, <1>4, <1>5, ShowInRing
  <1>8. Dances(LinkColumn(l, c).right, LinkColumn(l, c).left, Header(b), root_, HeaderSince(b, cov))
    <2>1. /\ LinkColumn(l, c).right = Put(l.right, l.left[c], c)
          /\ LinkColumn(l, c).left = Put(l.left, l.right[c], c)
      BY ColumnLinks
    <2>2. HeaderSince(b, cov) = Put(since, c, 0) /\ Header(b) = H
      BY <1>6 DEF H, old
    <2> QED BY ONLY <1>7, <2>1, <2>2
  <1> QED BY <1>8 DEF HeaderDances

-----------------------------------------------------------------------------
(* Hiding and showing a node.                                               *)

LEMMA RingFinite ==
  ASSUME NEW ring, NEW head, IsRing(ring, head)
  PROVE  IsFiniteSet(ring)
  <1> DEFINE f == [n \in ring |-> Order(n)]
  <1>1. f \in Injection(ring, 0..MaxOrder)
    BY DEF IsRing, Injection, IsInjective
  <1>2. IsFiniteSet(0..MaxOrder)
    BY MaxOrderNat, FS_Interval
  <1> QED BY <1>1, <1>2, FS_Injection

LEMMA NodesFinite ==
  ASSUME NEW b, NEW c \in Columns(b), NEW S, S \subseteq NodesIn(c, Nds(b))
  PROVE  IsFiniteSet(S)
  <1>1. S \subseteq Ring(b, c)
    BY DEF Ring
  <1>2. IsFiniteSet(Ring(b, c))
    BY Rings, RingFinite
  <1> QED BY <1>1, <1>2, FS_Subset

LEMMA NodeLinks ==
  ASSUME NEW b, NEW l \in Links(b), NEW j \in Nds(b)
  PROVE  /\ HideNode(l, j) \in Links(b) /\ ShowNode(l, j) \in Links(b)
         /\ HideNode(l, j).down = Put(l.down, l.up[j], l.down[j])
         /\ HideNode(l, j).up = Put(l.up, l.down[j], l.up[j])
         /\ HideNode(l, j).size = Put(l.size, ColumnOf(j), l.size[ColumnOf(j)] - 1)
         /\ HideNode(l, j).right = l.right /\ HideNode(l, j).left = l.left
         /\ ShowNode(l, j).down = Put(l.down, l.up[j], j)
         /\ ShowNode(l, j).up = Put(l.up, l.down[j], j)
         /\ ShowNode(l, j).size = Put(l.size, ColumnOf(j), l.size[ColumnOf(j)] + 1)
         /\ ShowNode(l, j).right = l.right /\ ShowNode(l, j).left = l.left
  <1>1. /\ l.down \in [VNodes(b) -> VNodes(b)] /\ l.up \in [VNodes(b) -> VNodes(b)]
        /\ l.size \in [Columns(b) -> Int]
    BY LinkTypes
  <1>2. /\ j \in VNodes(b) /\ l.down[j] \in VNodes(b) /\ l.up[j] \in VNodes(b)
        /\ ColumnOf(j) \in Columns(b)
    BY <1>1, NodeFacts DEF VNodes
  <1>3. l.size[ColumnOf(j)] - 1 \in Int /\ l.size[ColumnOf(j)] + 1 \in Int
    BY <1>1, <1>2
  <1> DEFINE down2 == Put(l.down, l.up[j], l.down[j])
             up2   == Put(l.up, l.down[j], l.up[j])
             size2 == Put(l.size, ColumnOf(j), l.size[ColumnOf(j)] - 1)
             down3 == Put(l.down, l.up[j], j)
             up3   == Put(l.up, l.down[j], j)
             size3 == Put(l.size, ColumnOf(j), l.size[ColumnOf(j)] + 1)
  <1>4. /\ down2 \in [VNodes(b) -> VNodes(b)] /\ up2 \in [VNodes(b) -> VNodes(b)]
        /\ size2 \in [Columns(b) -> Int]
        /\ down3 \in [VNodes(b) -> VNodes(b)] /\ up3 \in [VNodes(b) -> VNodes(b)]
        /\ size3 \in [Columns(b) -> Int]
    BY <1>1, <1>2, <1>3 DEF Put
  <1>5. /\ HideNode(l, j) = [l EXCEPT !.up = up2, !.down = down2, !.size = size2]
        /\ ShowNode(l, j) = [l EXCEPT !.up = up3, !.down = down3, !.size = size3]
    BY DEF HideNode, ShowNode
  <1> HIDE DEF down2, up2, size2, down3, up3, size3
  <1>6. LET h == [l EXCEPT !.up = up2, !.down = down2, !.size = size2]
        IN  /\ h \in Links(b) /\ h.down = down2 /\ h.up = up2 /\ h.size = size2
            /\ h.right = l.right /\ h.left = l.left
    BY <1>4 DEF Links
  <1>7. LET h == [l EXCEPT !.up = up3, !.down = down3, !.size = size3]
        IN  /\ h \in Links(b) /\ h.down = down3 /\ h.up = up3 /\ h.size = size3
            /\ h.right = l.right /\ h.left = l.left
    BY <1>4 DEF Links
  <1> QED BY <1>5, <1>6, <1>7 DEF down2, up2, size2, down3, up3, size3

\* A node is in the ring of its own column only.
LEMMA OwnRing ==
  ASSUME NEW b, NEW c \in Columns(b)
  PROVE  /\ \A n \in Ring(b, c) : n \in VNodes(b) /\ ColumnOf(n) = c
         /\ \A n \in Ring(b, c) \ {c} : n \in Nds(b) /\ n \in NodesIn(c, Nds(b))
         /\ \A n \in NodesIn(c, Nds(b)) : n \in Nds(b) /\ ColumnOf(n) = c /\ n \in Ring(b, c) \ {c}
         /\ \A n \in Nds(b) : ColumnOf(n) = c => n \in Ring(b, c) \ {c}
  <1>1. \A n \in Nds(b) : n # c
    BY NodeFacts
  <1> QED BY <1>1, ColumnFacts DEF Ring, NodesIn, VNodes

\* Links of other rings do not matter to a ring.
LEMMA DanceFrame ==
  ASSUME NEW ring, NEW head, NEW next, NEW prev, NEW since, NEW next2, NEW prev2, NEW since2,
         Dances(next, prev, ring, head, since), head \in ring,
         \A n \in ring : next2[n] = next[n] /\ prev2[n] = prev[n] /\ since2[n] = since[n]
  PROVE  Dances(next2, prev2, ring, head, since2)
  <1>1. \A m, n \in ring : Outlasts(since2, m, n) <=> Outlasts(since, m, n)
    BY DEF Outlasts
  <1> SUFFICES ASSUME NEW n \in ring
               PROVE  /\ IsNext(next2[n], n, ring, head, since2)
                      /\ IsPrev(prev2[n], n, ring, head, since2)
    BY DEF Dances
  <1>2. IsNext(next[n], n, ring, head, since) /\ IsPrev(prev[n], n, ring, head, since)
    BY DEF Dances
  <1>3. next2[n] = next[n] /\ prev2[n] = prev[n] /\ next[n] \in ring /\ prev[n] \in ring
    BY <1>2 DEF IsNext, IsPrev
  <1>4. IsNext(next[n], n, ring, head, since2)
    BY <1>1, <1>2, <1>3 DEF IsNext
  <1>5. IsPrev(prev[n], n, ring, head, since2)
    BY <1>1, <1>2, <1>3 DEF IsPrev
  <1> QED BY <1>3, <1>4, <1>5

\* The neighbours of a node are in its ring.
LEMMA Neighbours ==
  ASSUME NEW b, NEW l \in Links(b), NEW since, ColumnsDance(b, l, since),
         NEW c \in Columns(b), NEW n \in Ring(b, c)
  PROVE  /\ l.down[n] \in Ring(b, c) /\ l.up[n] \in Ring(b, c)
         /\ IsNext(l.down[n], n, Ring(b, c), c, since)
         /\ IsPrev(l.up[n], n, Ring(b, c), c, since)
         /\ since[n] = 0 => since[l.down[n]] = 0 /\ since[l.up[n]] = 0
  <1>1. IsNext(l.down[n], n, Ring(b, c), c, since) /\ IsPrev(l.up[n], n, Ring(b, c), c, since)
    BY DEF ColumnsDance, Dances
  <1> QED BY <1>1 DEF IsNext, IsPrev, Outlasts

LEMMA HideDances ==
  ASSUME NEW b, NEW l \in Links(b), NEW since \in [VNodes(b) -> Nat], ColumnsDance(b, l, since),
         \A c \in Columns(b) : since[c] = 0,
         NEW j \in Nds(b), NEW t \in Nat \ {0}, since[j] = 0,
         IsLatest(j, Ring(b, ColumnOf(j)), since, t)
  PROVE  /\ HideNode(l, j) \in Links(b)
         /\ ColumnsDance(b, HideNode(l, j), Put(since, j, t))
         /\ \A n \in VNodes(b) : ColumnOf(n) # ColumnOf(j) =>
              HideNode(l, j).down[n] = l.down[n] /\ HideNode(l, j).up[n] = l.up[n]
         /\ HideNode(l, j).right = l.right /\ HideNode(l, j).left = l.left
  <1> DEFINE V == VNodes(b)
             d == ColumnOf(j)
             h == HideNode(l, j)
             down2 == Put(l.down, l.up[j], l.down[j])
             up2   == Put(l.up, l.down[j], l.up[j])
             size2 == Put(l.size, d, l.size[d] - 1)
             since2 == Put(since, j, t)
  <1>1. /\ h \in Links(b) /\ h.down = down2 /\ h.up = up2 /\ h.size = size2
        /\ h.right = l.right /\ h.left = l.left
    BY NodeLinks
  <1>2. /\ l.down \in [V -> V] /\ l.up \in [V -> V] /\ l.size \in [Columns(b) -> Int]
    BY LinkTypes
  <1>3. d \in Columns(b) /\ j \in Ring(b, d) \ {d} /\ j \in V
    BY NodeFacts, OwnRing DEF VNodes
  <1>4. l.down[j] \in Ring(b, d) /\ l.up[j] \in Ring(b, d)
    BY <1>3, Neighbours
  <1>5. Ring(b, d) \in SUBSET V
    BY <1>3, OwnRing
  <1>6. /\ since2 \in [V -> Nat] /\ since2[j] = t /\ \A n \in V \ {j} : since2[n] = since[n]
        /\ \A n \in V : n \notin Ring(b, d) => down2[n] = l.down[n] /\ up2[n] = l.up[n]
        /\ size2[d] = l.size[d] - 1 /\ \A c \in Columns(b) \ {d} : size2[c] = l.size[c]
    <2>1. l.size[d] - 1 \in Int
      BY <1>2, <1>3
    <2>2. since2 \in [V -> Nat] /\ since2[j] = t /\ \A n \in V \ {j} : since2[n] = since[n]
      BY <1>3, PutFacts
    <2>3. size2[d] = l.size[d] - 1 /\ \A c \in Columns(b) \ {d} : size2[c] = l.size[c]
      BY <1>2, <1>3, <2>1 DEF Put
    <2>4. \A n \in V : n \notin Ring(b, d) => down2[n] = l.down[n] /\ up2[n] = l.up[n]
      BY <1>2, <1>4, <1>5 DEF Put
    <2> QED BY <2>2, <2>3, <2>4
  <1>7. Dances(down2, up2, Ring(b, d), d, since2)
    <2>1. IsRing(Ring(b, d), d) /\ since[d] = 0
      BY <1>3, Rings
    <2>2. Dances(l.down, l.up, Ring(b, d), d, since)
      BY <1>3 DEF ColumnsDance
    <2> HIDE DEF V, d
    <2>3. IsLatest(j, Ring(b, d), since, t)
      BY DEF d
    <2>4. since \in [V -> Nat]
      BY DEF V
    <2> QED BY <1>2, <1>3, <1>5, <2>1, <2>2, <2>3, <2>4, HideInRing
  <1> HIDE DEF down2, up2, size2, since2, h
  <1>8. ASSUME NEW c \in Columns(b)
        PROVE  Dances(down2, up2, Ring(b, c), c, since2)
    <2>1. CASE c = d
      BY <1>7, <2>1
    <2>2. CASE c # d
      <3>1. \A n \in Ring(b, c) : n \in V /\ n \notin Ring(b, d) /\ n # j
        BY <1>3, <2>2, OwnRing
      <3>2. \A n \in Ring(b, c) : down2[n] = l.down[n] /\ up2[n] = l.up[n] /\ since2[n] = since[n]
        BY <1>6, <3>1
      <3>3. Dances(l.down, l.up, Ring(b, c), c, since) /\ c \in Ring(b, c)
        BY DEF ColumnsDance, Ring
      <3> QED BY <3>2, <3>3, DanceFrame
    <2> QED BY <2>1, <2>2
  <1>9. ASSUME NEW c \in Columns(b)
        PROVE  size2[c] = Cardinality({n \in NodesIn(c, Nds(b)) : since2[n] = 0})
    <2> DEFINE open == {n \in NodesIn(c, Nds(b)) : since[n] = 0}
               open2 == {n \in NodesIn(c, Nds(b)) : since2[n] = 0}
    <2>0. l.size[c] = Cardinality(open) /\ \A n \in NodesIn(c, Nds(b)) : n \in V /\ ColumnOf(n) = c
      BY OwnRing DEF ColumnsDance
    <2>1. CASE c # d
      <3>1. open2 = open
        BY <1>6, <2>0, <2>1
      <3> QED BY <1>6, <2>0, <2>1, <3>1
    <2>2. CASE c = d
      <3>1. open2 = open \ {j}
        BY <1>6, <2>0
      <3>2. j \in open
        BY <1>3, <2>2, OwnRing
      <3>3. IsFiniteSet(open)
        BY NodesFinite
      <3>4. Cardinality(open \ {j}) = Cardinality(open) - 1
        BY <3>2, <3>3, FS_RemoveElement
      <3> QED BY <1>6, <2>0, <2>2, <3>1, <3>4
    <2> QED BY <2>1, <2>2
  <1>10. ColumnsDance(b, h, since2)
    BY <1>1, <1>8, <1>9 DEF ColumnsDance
  <1>11. \A n \in V : ColumnOf(n) # d => h.down[n] = l.down[n] /\ h.up[n] = l.up[n]
    BY <1>1, <1>3, <1>6, OwnRing
  <1> QED BY <1>1, <1>10, <1>11 DEF h, since2

LEMMA ShowDances ==
  ASSUME NEW b, NEW l \in Links(b), NEW since \in [VNodes(b) -> Nat], ColumnsDance(b, l, since),
         \A c \in Columns(b) : since[c] = 0,
         NEW j \in Nds(b), since[j] # 0, IsLatest(j, Ring(b, ColumnOf(j)), since, since[j])
  PROVE  /\ ShowNode(l, j) \in Links(b)
         /\ ColumnsDance(b, ShowNode(l, j), Put(since, j, 0))
         /\ \A n \in VNodes(b) : ColumnOf(n) # ColumnOf(j) =>
              ShowNode(l, j).down[n] = l.down[n] /\ ShowNode(l, j).up[n] = l.up[n]
         /\ ShowNode(l, j).right = l.right /\ ShowNode(l, j).left = l.left
  <1> DEFINE V == VNodes(b)
             d == ColumnOf(j)
             h == ShowNode(l, j)
             down2 == Put(l.down, l.up[j], j)
             up2   == Put(l.up, l.down[j], j)
             size2 == Put(l.size, d, l.size[d] + 1)
             since2 == Put(since, j, 0)
  <1>1. /\ h \in Links(b) /\ h.down = down2 /\ h.up = up2 /\ h.size = size2
        /\ h.right = l.right /\ h.left = l.left
    BY NodeLinks
  <1>2. /\ l.down \in [V -> V] /\ l.up \in [V -> V] /\ l.size \in [Columns(b) -> Int]
    BY LinkTypes
  <1>3. d \in Columns(b) /\ j \in Ring(b, d) \ {d} /\ j \in V
    BY NodeFacts, OwnRing DEF VNodes
  <1>4. l.down[j] \in Ring(b, d) /\ l.up[j] \in Ring(b, d)
    BY <1>3, Neighbours
  <1>5. Ring(b, d) \in SUBSET V
    BY <1>3, OwnRing
  <1>6. /\ since2 \in [V -> Nat] /\ since2[j] = 0 /\ \A n \in V \ {j} : since2[n] = since[n]
        /\ \A n \in V : n \notin Ring(b, d) => down2[n] = l.down[n] /\ up2[n] = l.up[n]
        /\ size2[d] = l.size[d] + 1 /\ \A c \in Columns(b) \ {d} : size2[c] = l.size[c]
    <2>1. l.size[d] + 1 \in Int
      BY <1>2, <1>3
    <2>2. since2 \in [V -> Nat] /\ since2[j] = 0 /\ \A n \in V \ {j} : since2[n] = since[n]
      <3>1. since \in [V -> Nat] /\ j \in V /\ since2 = Put(since, j, 0)
        BY <1>3
      <3> HIDE DEF V, since2
      <3> QED BY ONLY <3>1, PutFacts
    <2>3. size2[d] = l.size[d] + 1 /\ \A c \in Columns(b) \ {d} : size2[c] = l.size[c]
      BY <1>2, <1>3, <2>1 DEF Put
    <2>4. \A n \in V : n \notin Ring(b, d) => down2[n] = l.down[n] /\ up2[n] = l.up[n]
      BY <1>2, <1>4, <1>5 DEF Put
    <2> QED BY <2>2, <2>3, <2>4
  <1>7. Dances(down2, up2, Ring(b, d), d, since2)
    <2>1. IsRing(Ring(b, d), d) /\ since[d] = 0
      BY <1>3, Rings
    <2>2. Dances(l.down, l.up, Ring(b, d), d, since)
      BY <1>3 DEF ColumnsDance
    <2> HIDE DEF V, d
    <2>3. IsLatest(j, Ring(b, d), since, since[j])
      BY DEF d
    <2>4. since \in [V -> Nat]
      BY DEF V
    <2> QED BY <1>2, <1>3, <1>5, <2>1, <2>2, <2>3, <2>4, ShowInRing
  <1> HIDE DEF down2, up2, size2, since2, h
  <1>8. ASSUME NEW c \in Columns(b)
        PROVE  Dances(down2, up2, Ring(b, c), c, since2)
    <2>1. CASE c = d
      BY <1>7, <2>1
    <2>2. CASE c # d
      <3>1. \A n \in Ring(b, c) : n \in V /\ n \notin Ring(b, d) /\ n # j
        BY <1>3, <2>2, OwnRing
      <3>2. \A n \in Ring(b, c) : down2[n] = l.down[n] /\ up2[n] = l.up[n] /\ since2[n] = since[n]
        BY <1>6, <3>1
      <3>3. Dances(l.down, l.up, Ring(b, c), c, since) /\ c \in Ring(b, c)
        BY DEF ColumnsDance, Ring
      <3> QED BY <3>2, <3>3, DanceFrame
    <2> QED BY <2>1, <2>2
  <1>9. ASSUME NEW c \in Columns(b)
        PROVE  size2[c] = Cardinality({n \in NodesIn(c, Nds(b)) : since2[n] = 0})
    <2> DEFINE open == {n \in NodesIn(c, Nds(b)) : since[n] = 0}
               open2 == {n \in NodesIn(c, Nds(b)) : since2[n] = 0}
    <2>0. l.size[c] = Cardinality(open) /\ \A n \in NodesIn(c, Nds(b)) : n \in V /\ ColumnOf(n) = c
      BY OwnRing DEF ColumnsDance
    <2>1. CASE c # d
      <3>1. open2 = open
        BY <1>6, <2>0, <2>1
      <3> QED BY <1>6, <2>0, <2>1, <3>1
    <2>2. CASE c = d
      <3>1. open2 = open \cup {j}
        BY <1>3, <1>6, <2>0, <2>2, OwnRing
      <3>2. j \notin open
        OBVIOUS
      <3>3. IsFiniteSet(open)
        BY NodesFinite
      <3>4. Cardinality(open \cup {j}) = Cardinality(open) + 1
        BY <3>2, <3>3, FS_AddElement
      <3> QED BY <1>6, <2>0, <2>2, <3>1, <3>4
    <2> QED BY <2>1, <2>2
  <1>10. ColumnsDance(b, h, since2)
    BY <1>1, <1>8, <1>9 DEF ColumnsDance
  <1>11. \A n \in V : ColumnOf(n) # d => h.down[n] = l.down[n] /\ h.up[n] = l.up[n]
    BY <1>1, <1>3, <1>6, OwnRing
  <1> QED BY <1>1, <1>10, <1>11 DEF h, since2

-----------------------------------------------------------------------------
(* Hiding and showing a row.                                                *)

Others(n) == {RightOf(n)[j] : j \in 1..3}

LEMMA OthersFacts ==
  ASSUME NEW b, NEW n \in Nds(b)
  PROVE  /\ Others(n) = {RightOf(n)[1], RightOf(n)[2], RightOf(n)[3]}
         /\ \A j \in 1..3 : /\ RightOf(n)[j] \in Nds(b) /\ RightOf(n)[j] \in VNodes(b)
                            /\ ColumnOf(RightOf(n)[j]) # ColumnOf(n)
                            /\ ColumnOf(RightOf(n)[j]) \in Columns(b)
         /\ \A j, k \in 1..3 : j # k => /\ ColumnOf(RightOf(n)[j]) # ColumnOf(RightOf(n)[k])
                                        /\ RightOf(n)[j] # RightOf(n)[k]
         /\ \A m \in VNodes(b) :
              m \in Others(n) <=> m \in Nds(b) /\ SameRow(m, n) /\ ColumnOf(m) # ColumnOf(n)
  <1>1. 1..3 = {1, 2, 3}
    OBVIOUS
  <1>2. \A j \in 1..3 : /\ RightOf(n)[j] \in Nds(b) /\ SameRow(RightOf(n)[j], n)
                        /\ ColumnOf(RightOf(n)[j]) # ColumnOf(n)
    BY RightFacts
  <1>3. \A j \in 1..3 : ColumnOf(RightOf(n)[j]) \in Columns(b)
    BY <1>2, NodeFacts
  <1>4. \A j, k \in 1..3 : ColumnOf(RightOf(n)[j]) = ColumnOf(RightOf(n)[k]) => j = k
    BY RightFacts
  <1>5. ASSUME NEW m \in VNodes(b)
        PROVE  m \in Others(n) <=> m \in Nds(b) /\ SameRow(m, n) /\ ColumnOf(m) # ColumnOf(n)
    <2>1. m \in Nds(b) /\ SameRow(m, n) /\ ColumnOf(m) # ColumnOf(n) => m \in Others(n)
      BY RightFacts DEF Others
    <2> QED BY <1>2, <2>1 DEF Others
  <1> QED BY <1>1, <1>2, <1>3, <1>4, <1>5 DEF Others, VNodes

LEMMA LatestFrame ==
  ASSUME NEW n, NEW ring, NEW since, NEW since2, NEW t, n \in ring, IsLatest(n, ring, since, t),
         \A m \in ring : since2[m] = since[m]
  PROVE  IsLatest(n, ring, since2, t)
  BY DEF IsLatest

LEMMA HideOthersDances ==
  ASSUME NEW b, NEW l \in Links(b), NEW since \in [VNodes(b) -> Nat], ColumnsDance(b, l, since),
         \A c \in Columns(b) : since[c] = 0,
         NEW n \in Nds(b), NEW t \in Nat \ {0},
         \A j \in 1..3 : /\ since[RightOf(n)[j]] = 0
                         /\ IsLatest(RightOf(n)[j], Ring(b, ColumnOf(RightOf(n)[j])), since, t),
         NEW since2 \in [VNodes(b) -> Nat],
         \A m \in VNodes(b) : since2[m] = IF m \in Others(n) THEN t ELSE since[m]
  PROVE  /\ HideOthers(l, n) \in Links(b)
         /\ ColumnsDance(b, HideOthers(l, n), since2)
         /\ \A m \in Ring(b, ColumnOf(n)) :
              HideOthers(l, n).down[m] = l.down[m] /\ HideOthers(l, n).up[m] = l.up[m]
         /\ HideOthers(l, n).right = l.right /\ HideOthers(l, n).left = l.left
  <1> DEFINE V == VNodes(b)
             C == Columns(b)
  <1>1. PICK r1, r2, r3 : r1 = RightOf(n)[1] /\ r2 = RightOf(n)[2] /\ r3 = RightOf(n)[3]
    OBVIOUS
  <1>2. 1 \in 1..3 /\ 2 \in 1..3 /\ 3 \in 1..3
    OBVIOUS
  <1>3. /\ r1 \in Nds(b) /\ r2 \in Nds(b) /\ r3 \in Nds(b)
        /\ r1 \in V /\ r2 \in V /\ r3 \in V
        /\ ColumnOf(r1) \in C /\ ColumnOf(r2) \in C /\ ColumnOf(r3) \in C
        /\ ColumnOf(r1) # ColumnOf(n) /\ ColumnOf(r2) # ColumnOf(n) /\ ColumnOf(r3) # ColumnOf(n)
        /\ ColumnOf(r1) # ColumnOf(r2) /\ ColumnOf(r1) # ColumnOf(r3) /\ ColumnOf(r2) # ColumnOf(r3)
        /\ r1 # r2 /\ r1 # r3 /\ r2 # r3
        /\ Others(n) = {r1, r2, r3}
    BY <1>1, <1>2, OthersFacts
  <1>4. /\ since[r1] = 0 /\ since[r2] = 0 /\ since[r3] = 0
        /\ IsLatest(r1, Ring(b, ColumnOf(r1)), since, t)
        /\ IsLatest(r2, Ring(b, ColumnOf(r2)), since, t)
        /\ IsLatest(r3, Ring(b, ColumnOf(r3)), since, t)
    BY <1>1, <1>2
  <1>5. PICK s1, s2, s3 : s1 = Put(since, r1, t) /\ s2 = Put(s1, r2, t) /\ s3 = Put(s2, r3, t)
    OBVIOUS
  <1>6. /\ s1 \in [V -> Nat] /\ s2 \in [V -> Nat] /\ s3 \in [V -> Nat]
        /\ \A m \in V : s1[m] = IF m = r1 THEN t ELSE since[m]
        /\ \A m \in V : s2[m] = IF m = r2 THEN t ELSE s1[m]
        /\ \A m \in V : s3[m] = IF m = r3 THEN t ELSE s2[m]
    <2>1. s1 \in [V -> Nat] /\ \A m \in V : s1[m] = IF m = r1 THEN t ELSE since[m]
      BY <1>3, <1>5 DEF Put
    <2>2. s2 \in [V -> Nat] /\ \A m \in V : s2[m] = IF m = r2 THEN t ELSE s1[m]
      BY <1>3, <1>5, <2>1 DEF Put
    <2>3. s3 \in [V -> Nat] /\ \A m \in V : s3[m] = IF m = r3 THEN t ELSE s2[m]
      BY <1>3, <1>5, <2>2 DEF Put
    <2> QED BY <2>1, <2>2, <2>3
  <1>7. s3 = since2
    <2>1. \A m \in V : s3[m] = since2[m]
      BY <1>3, <1>6
    <2> QED BY <1>6, <2>1
  <1>8. PICK l1, l2, l3 : l1 = HideNode(l, r1) /\ l2 = HideNode(l1, r2) /\ l3 = HideNode(l2, r3)
    OBVIOUS
  <1>9. l3 = HideOthers(l, n)
    BY <1>1, <1>8 DEF HideOthers
  <1>10. \A c \in C : c # r1 /\ c # r2 /\ c # r3 /\ c \in V
    <2>1. r1 \notin C /\ r2 \notin C /\ r3 \notin C
      BY <1>3, NodeFacts
    <2> QED BY <2>1 DEF VNodes
  <1>11. /\ \A c \in C : s1[c] = 0 /\ s2[c] = 0
         /\ s1[r2] = 0 /\ s2[r3] = 0
    BY <1>3, <1>4, <1>6, <1>10
  <1>12. /\ \A m \in Ring(b, ColumnOf(r2)) : m \in V /\ m # r1
         /\ \A m \in Ring(b, ColumnOf(r3)) : m \in V /\ m # r1 /\ m # r2
         /\ r2 \in Ring(b, ColumnOf(r2)) /\ r3 \in Ring(b, ColumnOf(r3))
    BY <1>3, OwnRing
  <1>13. IsLatest(r2, Ring(b, ColumnOf(r2)), s1, t)
    <2>1. \A m \in Ring(b, ColumnOf(r2)) : s1[m] = since[m]
      BY <1>6, <1>12
    <2> QED BY <2>1, <1>4, <1>12, LatestFrame
  <1>14. IsLatest(r3, Ring(b, ColumnOf(r3)), s2, t)
    <2>1. \A m \in Ring(b, ColumnOf(r3)) : s2[m] = since[m]
      BY <1>6, <1>12
    <2> QED BY <2>1, <1>4, <1>12, LatestFrame
  <1> HIDE DEF V, C
  <1>15. /\ l1 \in Links(b) /\ ColumnsDance(b, l1, s1)
         /\ \A m \in V : ColumnOf(m) # ColumnOf(r1) => l1.down[m] = l.down[m] /\ l1.up[m] = l.up[m]
         /\ l1.right = l.right /\ l1.left = l.left
    BY <1>3, <1>4, <1>5, <1>8, HideDances DEF V
  <1>16. /\ l2 \in Links(b) /\ ColumnsDance(b, l2, s2)
         /\ \A m \in V : ColumnOf(m) # ColumnOf(r2) => l2.down[m] = l1.down[m] /\ l2.up[m] = l1.up[m]
         /\ l2.right = l1.right /\ l2.left = l1.left
    <2>1. s1 \in [VNodes(b) -> Nat] /\ \A c \in Columns(b) : s1[c] = 0
      BY <1>6, <1>11 DEF V, C
    <2> QED BY <1>3, <1>5, <1>8, <1>11, <1>13, <1>15, <2>1, HideDances DEF V
  <1>17. /\ l3 \in Links(b) /\ ColumnsDance(b, l3, s3)
         /\ \A m \in V : ColumnOf(m) # ColumnOf(r3) => l3.down[m] = l2.down[m] /\ l3.up[m] = l2.up[m]
         /\ l3.right = l2.right /\ l3.left = l2.left
    <2>1. s2 \in [VNodes(b) -> Nat] /\ \A c \in Columns(b) : s2[c] = 0
      BY <1>6, <1>11 DEF V, C
    <2> QED BY <1>3, <1>5, <1>8, <1>11, <1>14, <1>16, <2>1, HideDances DEF V
  <1>18. ASSUME NEW m \in Ring(b, ColumnOf(n))
         PROVE  l3.down[m] = l.down[m] /\ l3.up[m] = l.up[m]
    <2>1. m \in V /\ ColumnOf(m) = ColumnOf(n)
      BY NodeFacts, OwnRing DEF V
    <2> QED BY <2>1, <1>3, <1>15, <1>16, <1>17
  <1> QED BY <1>7, <1>9, <1>15, <1>16, <1>17, <1>18

LEMMA ShowOthersDances ==
  ASSUME NEW b, NEW l \in Links(b), NEW since \in [VNodes(b) -> Nat], ColumnsDance(b, l, since),
         \A c \in Columns(b) : since[c] = 0,
         NEW n \in Nds(b), NEW t \in Nat \ {0},
         \A j \in 1..3 : /\ since[RightOf(n)[j]] = t
                         /\ IsLatest(RightOf(n)[j], Ring(b, ColumnOf(RightOf(n)[j])), since, t),
         NEW since2 \in [VNodes(b) -> Nat],
         \A m \in VNodes(b) : since2[m] = IF m \in Others(n) THEN 0 ELSE since[m]
  PROVE  /\ ShowOthers(l, n) \in Links(b)
         /\ ColumnsDance(b, ShowOthers(l, n), since2)
         /\ \A m \in Ring(b, ColumnOf(n)) :
              ShowOthers(l, n).down[m] = l.down[m] /\ ShowOthers(l, n).up[m] = l.up[m]
         /\ ShowOthers(l, n).right = l.right /\ ShowOthers(l, n).left = l.left
  <1> DEFINE V == VNodes(b)
             C == Columns(b)
  <1>1. PICK r1, r2, r3 : r1 = LeftOf(n)[1] /\ r2 = LeftOf(n)[2] /\ r3 = LeftOf(n)[3]
    OBVIOUS
  <1>2. 1 \in 1..3 /\ 2 \in 1..3 /\ 3 \in 1..3
    OBVIOUS
  <1>3. /\ r1 \in Nds(b) /\ r2 \in Nds(b) /\ r3 \in Nds(b)
        /\ r1 \in V /\ r2 \in V /\ r3 \in V
        /\ ColumnOf(r1) \in C /\ ColumnOf(r2) \in C /\ ColumnOf(r3) \in C
        /\ ColumnOf(r1) # ColumnOf(n) /\ ColumnOf(r2) # ColumnOf(n) /\ ColumnOf(r3) # ColumnOf(n)
        /\ ColumnOf(r1) # ColumnOf(r2) /\ ColumnOf(r1) # ColumnOf(r3) /\ ColumnOf(r2) # ColumnOf(r3)
        /\ r1 # r2 /\ r1 # r3 /\ r2 # r3
        /\ Others(n) = {r1, r2, r3}
    <2>1. r1 = RightOf(n)[3] /\ r2 = RightOf(n)[2] /\ r3 = RightOf(n)[1]
      BY <1>1, LeftFacts
    <2> QED BY <2>1, <1>2, OthersFacts
  <1>4. /\ since[r1] = t /\ since[r2] = t /\ since[r3] = t
        /\ IsLatest(r1, Ring(b, ColumnOf(r1)), since, t)
        /\ IsLatest(r2, Ring(b, ColumnOf(r2)), since, t)
        /\ IsLatest(r3, Ring(b, ColumnOf(r3)), since, t)
    <2>1. r1 = RightOf(n)[3] /\ r2 = RightOf(n)[2] /\ r3 = RightOf(n)[1]
      BY <1>1, LeftFacts
    <2> QED BY <2>1, <1>2
  <1>5. PICK s1, s2, s3 : s1 = Put(since, r1, 0) /\ s2 = Put(s1, r2, 0) /\ s3 = Put(s2, r3, 0)
    OBVIOUS
  <1>6. /\ s1 \in [V -> Nat] /\ s2 \in [V -> Nat] /\ s3 \in [V -> Nat]
        /\ \A m \in V : s1[m] = IF m = r1 THEN 0 ELSE since[m]
        /\ \A m \in V : s2[m] = IF m = r2 THEN 0 ELSE s1[m]
        /\ \A m \in V : s3[m] = IF m = r3 THEN 0 ELSE s2[m]
    <2>1. s1 \in [V -> Nat] /\ \A m \in V : s1[m] = IF m = r1 THEN 0 ELSE since[m]
      BY <1>3, <1>5 DEF Put
    <2>2. s2 \in [V -> Nat] /\ \A m \in V : s2[m] = IF m = r2 THEN 0 ELSE s1[m]
      BY <1>3, <1>5, <2>1 DEF Put
    <2>3. s3 \in [V -> Nat] /\ \A m \in V : s3[m] = IF m = r3 THEN 0 ELSE s2[m]
      BY <1>3, <1>5, <2>2 DEF Put
    <2> QED BY <2>1, <2>2, <2>3
  <1>7. s3 = since2
    <2>1. \A m \in V : s3[m] = since2[m]
      BY <1>3, <1>6
    <2> QED BY <1>6, <2>1
  <1>8. PICK l1, l2, l3 : l1 = ShowNode(l, r1) /\ l2 = ShowNode(l1, r2) /\ l3 = ShowNode(l2, r3)
    OBVIOUS
  <1>9. l3 = ShowOthers(l, n)
    BY <1>1, <1>8 DEF ShowOthers
  <1>10. \A c \in C : c # r1 /\ c # r2 /\ c # r3 /\ c \in V
    <2>1. r1 \notin C /\ r2 \notin C /\ r3 \notin C
      BY <1>3, NodeFacts
    <2> QED BY <2>1 DEF VNodes
  <1>11. /\ \A c \in C : s1[c] = 0 /\ s2[c] = 0
         /\ s1[r2] = t /\ s2[r3] = t /\ t # 0
    BY <1>3, <1>4, <1>6, <1>10
  <1>12. /\ \A m \in Ring(b, ColumnOf(r2)) : m \in V /\ m # r1
         /\ \A m \in Ring(b, ColumnOf(r3)) : m \in V /\ m # r1 /\ m # r2
         /\ r2 \in Ring(b, ColumnOf(r2)) /\ r3 \in Ring(b, ColumnOf(r3))
    BY <1>3, OwnRing
  <1>13. IsLatest(r2, Ring(b, ColumnOf(r2)), s1, t)
    <2>1. \A m \in Ring(b, ColumnOf(r2)) : s1[m] = since[m]
      BY <1>6, <1>12
    <2> QED BY <2>1, <1>4, <1>12, LatestFrame
  <1>14. IsLatest(r3, Ring(b, ColumnOf(r3)), s2, t)
    <2>1. \A m \in Ring(b, ColumnOf(r3)) : s2[m] = since[m]
      BY <1>6, <1>12
    <2> QED BY <2>1, <1>4, <1>12, LatestFrame
  <1> HIDE DEF V, C
  <1>15. /\ l1 \in Links(b) /\ ColumnsDance(b, l1, s1)
         /\ \A m \in V : ColumnOf(m) # ColumnOf(r1) => l1.down[m] = l.down[m] /\ l1.up[m] = l.up[m]
         /\ l1.right = l.right /\ l1.left = l.left
    BY <1>3, <1>4, <1>5, <1>8, <1>11, ShowDances DEF V
  <1>16. /\ l2 \in Links(b) /\ ColumnsDance(b, l2, s2)
         /\ \A m \in V : ColumnOf(m) # ColumnOf(r2) => l2.down[m] = l1.down[m] /\ l2.up[m] = l1.up[m]
         /\ l2.right = l1.right /\ l2.left = l1.left
    <2>1. s1 \in [VNodes(b) -> Nat] /\ \A c \in Columns(b) : s1[c] = 0
      BY <1>6, <1>11 DEF V, C
    <2> QED BY <1>3, <1>5, <1>8, <1>11, <1>13, <1>15, <2>1, ShowDances DEF V
  <1>17. /\ l3 \in Links(b) /\ ColumnsDance(b, l3, s3)
         /\ \A m \in V : ColumnOf(m) # ColumnOf(r3) => l3.down[m] = l2.down[m] /\ l3.up[m] = l2.up[m]
         /\ l3.right = l2.right /\ l3.left = l2.left
    <2>1. s2 \in [VNodes(b) -> Nat] /\ \A c \in Columns(b) : s2[c] = 0
      BY <1>6, <1>11 DEF V, C
    <2> QED BY <1>3, <1>5, <1>8, <1>11, <1>14, <1>16, <2>1, ShowDances DEF V
  <1>18. ASSUME NEW m \in Ring(b, ColumnOf(n))
         PROVE  l3.down[m] = l.down[m] /\ l3.up[m] = l.up[m]
    <2>1. m \in V /\ ColumnOf(m) = ColumnOf(n)
      BY NodeFacts, OwnRing DEF V
    <2> QED BY <2>1, <1>3, <1>15, <1>16, <1>17
  <1> QED BY <1>7, <1>9, <1>15, <1>16, <1>17, <1>18

-----------------------------------------------------------------------------
(* What the loops of cover() and uncover() do to the links.                 *)

LEMMA SinceOfColumns ==
  ASSUME NEW b, NEW cov \in Seq(Columns(b)), NEW a, NEW p
  PROVE  /\ NodeSince(b, cov, a, p) \in [VNodes(b) -> Nat]
         /\ \A c \in Columns(b) : NodeSince(b, cov, a, p)[c] = 0
  BY SinceFacts

LEMMA CoverKeeps ==
  ASSUME NEW b, NEW cov \in Seq(Columns(b)), Distinct(cov), NEW l, NEW a, NEW p,
         LinksInv(b, l, cov, a, p), p \notin {"hide", "show"},
         NEW c \in Columns(b), c \notin Range(cov)
  PROVE  /\ LinksInv(b, UnlinkColumn(l, c), Append(cov, c), l.down[c], "hide")
         /\ l.down[c] \in Ring(b, c)
         /\ NodeSince(b, Append(cov, c), l.down[c], "hide")[l.down[c]] = 0
  <1> DEFINE since == NodeSince(b, cov, a, p)
             a2 == l.down[c]
  <1>1. l \in Links(b) /\ HeaderDances(b, l, cov) /\ ColumnsDance(b, l, since)
    BY DEF LinksInv
  <1>2. since \in [VNodes(b) -> Nat] /\ since[c] = 0
    BY SinceOfColumns
  <1>3. /\ c \in Ring(b, c) /\ a2 \in Ring(b, c) /\ since[a2] = 0
        /\ IsNext(a2, c, Ring(b, c), c, since)
    <2>1. c \in Ring(b, c)
      BY DEF Ring
    <2> QED BY <1>1, <1>2, <2>1, Neighbours
  <1>4. ASSUME NEW n \in Nds(b), Hits(cov, n) = {}, c \in RowColumns(n)
        PROVE  Ahead(a2, "hide", c, n)
    <2>1. PICK m \in Nds(b) : /\ SameRow(m, n) /\ Order(m) = Order(n)
                              /\ m \in Ring(b, c) \ {c}
      BY <1>4, RowMate
    <2>2. since[m] = 0
      <3>1. Hits(cov, m) = {}
        BY <1>4, <2>1, SameRowHits
      <3> QED BY <3>1, SinceFacts
    <2>3. Order(c) < Order(m) /\ Order(c) \in Int /\ Order(m) \in Int
      BY <2>1, Rings DEF IsRing
    <2>4. Order(c) < Order(a2) /\ Order(a2) <= Order(m)
      BY <1>2, <1>3, <2>1, <2>2, <2>3 DEF IsNext, Outlasts
    <2>5. a2 # c
      BY <2>3, <2>4
    <2> QED BY <2>1, <2>4, <2>5 DEF Ahead
  <1>5. NodeSince(b, Append(cov, c), a2, "hide") = since
    BY <1>4, SinceAppend
  <1>6. HeaderDances(b, UnlinkColumn(l, c), Append(cov, c))
    BY <1>1, UnlinkDances
  <1>7. /\ UnlinkColumn(l, c) \in Links(b)
        /\ UnlinkColumn(l, c).down = l.down /\ UnlinkColumn(l, c).up = l.up
        /\ UnlinkColumn(l, c).size = l.size
    BY <1>1, ColumnLinks
  <1>8. ColumnsDance(b, UnlinkColumn(l, c), since)
    BY <1>1, <1>7 DEF ColumnsDance
  <1> QED BY <1>3, <1>5, <1>6, <1>7, <1>8 DEF LinksInv

LEMMA CoveredKeeps ==
  ASSUME NEW b, NEW cov \in Seq(Columns(b)), NEW l, LinksInv(b, l, cov, cov[Len(cov)], "hide"),
         NEW a, NEW p, p \notin {"hide", "show"}
  PROVE  LinksInv(b, l, cov, a, p)
  <1>1. NodeSince(b, cov, cov[Len(cov)], "hide") = NodeSince(b, cov, a, p)
    BY SameSince DEF Ahead
  <1> QED BY <1>1 DEF LinksInv

\* The rings say the same at every place where no row is half hidden.
LEMMA QuietKeeps ==
  ASSUME NEW b, NEW cov \in Seq(Columns(b)), NEW l, NEW a, NEW p, LinksInv(b, l, cov, a, p),
         NEW a2, NEW p2, p \notin {"hide", "show"}, p2 \notin {"hide", "show"}
  PROVE  LinksInv(b, l, cov, a2, p2) /\ NodeSince(b, cov, a, p) = NodeSince(b, cov, a2, p2)
  <1>1. NodeSince(b, cov, a, p) = NodeSince(b, cov, a2, p2)
    BY SameSince DEF Ahead
  <1> QED BY <1>1 DEF LinksInv

\* A row of the column covered last has its first covered column there, and its node in
\* that column is linked.
LEMMA LastRow ==
  ASSUME NEW b, NEW cov \in Seq(Columns(b)), Distinct(cov), cov # <<>>, NEW a, NEW p,
         NEW n \in Nds(b), Hits(cov, n) # {}, FirstHit(cov, n) = Len(cov)
  PROVE  \E m \in Ring(b, cov[Len(cov)]) \ {cov[Len(cov)]} :
           /\ m \in Nds(b) /\ SameRow(m, n) /\ Order(m) = Order(n)
           /\ NodeSince(b, cov, a, p)[m] = 0
  <1>1. Len(cov) \in Nat /\ Len(cov) \in 1..Len(cov)
    BY LenProperties, EmptySeq
  <1>2. cov[Len(cov)] \in RowColumns(n)
    BY <1>1, FirstHitFacts
  <1>3. PICK m \in Nds(b) : /\ SameRow(m, n) /\ ColumnOf(m) = cov[Len(cov)] /\ Order(m) = Order(n)
                            /\ m \in Ring(b, cov[Len(cov)]) \ {cov[Len(cov)]}
    BY <1>2, RowMate
  <1>4. Hits(cov, m) # {} /\ FirstHit(cov, m) = Len(cov)
    BY <1>3, SameRowHits
  <1>5. NodeSince(b, cov, a, p)[m] = 0
    BY <1>3, <1>4, SinceFacts
  <1> QED BY <1>3, <1>5

LEMMA LastColumn ==
  ASSUME NEW S, NEW cov \in Seq(S), cov # <<>>
  PROVE  Len(cov) \in Nat /\ Len(cov) >= 1 /\ Len(cov) \in 1..Len(cov) /\ cov[Len(cov)] \in S
  <1>1. Len(cov) \in Nat /\ Len(cov) >= 1
    BY EmptySeq
  <1>2. Len(cov) \in 1..Len(cov)
    BY <1>1
  <1> QED BY <1>1, <1>2, ElementOfSeq

LEMMA UncoverKeeps ==
  ASSUME NEW b, NEW cov \in Seq(Columns(b)), Distinct(cov), cov # <<>>, NEW l, NEW a, NEW p,
         LinksInv(b, l, cov, a, p), p \notin {"hide", "show"}
  PROVE  LET a2 == l.up[cov[Len(cov)]]
         IN  /\ LinksInv(b, l, cov, a2, "show")
             /\ a2 \in Ring(b, cov[Len(cov)])
             /\ NodeSince(b, cov, a2, "show")[a2] = 0
  <1> DEFINE since == NodeSince(b, cov, a, p)
             c == cov[Len(cov)]
             a2 == l.up[c]
  <1>1. l \in Links(b) /\ HeaderDances(b, l, cov) /\ ColumnsDance(b, l, since)
    BY DEF LinksInv
  <1>2. c \in Columns(b) /\ since[c] = 0
    BY LastColumn, SinceOfColumns
  <1>3. /\ c \in Ring(b, c) /\ a2 \in Ring(b, c) /\ since[a2] = 0
        /\ IsPrev(a2, c, Ring(b, c), c, since)
    <2>1. c \in Ring(b, c)
      BY DEF Ring
    <2> QED BY <1>1, <1>2, <2>1, Neighbours
  <1>4. ASSUME NEW n \in Nds(b), Hits(cov, n) # {}, FirstHit(cov, n) = Len(cov)
        PROVE  Ahead(a, p, c, n) <=> Ahead(a2, "show", c, n)
    <2>1. PICK m \in Ring(b, c) \ {c} : Order(m) = Order(n) /\ since[m] = 0
      BY <1>4, LastRow
    <2>2. Order(m) \in Int /\ Order(a2) \in Int
      BY <1>2, <1>3, <2>1, Rings DEF IsRing
    <2>3. Order(m) <= Order(a2)
      BY <1>2, <1>3, <2>1 DEF IsPrev, Outlasts
    <2>4. ~(Order(a2) < Order(n))
      BY <2>1, <2>2, <2>3
    <2> QED BY <2>4 DEF Ahead
  <1>5. NodeSince(b, cov, a2, "show") = since
    BY <1>4, SameSince
  <1> QED BY <1>1, <1>3, <1>5 DEF LinksInv

LEMMA UncoveredKeeps ==
  ASSUME NEW b, NEW cov \in Seq(Columns(b)), Distinct(cov), NEW c \in Columns(b), c \notin Range(cov),
         NEW l, LinksInv(b, l, Append(cov, c), c, "show"), NEW a, NEW p, p \notin {"hide", "show"}
  PROVE  LinksInv(b, LinkColumn(l, c), cov, a, p)
  <1> DEFINE since == NodeSince(b, Append(cov, c), c, "show")
  <1>1. l \in Links(b) /\ HeaderDances(b, l, Append(cov, c)) /\ ColumnsDance(b, l, since)
    BY DEF LinksInv
  <1>2. ASSUME NEW n \in Nds(b), Hits(cov, n) = {}, c \in RowColumns(n)
        PROVE  Ahead(c, "show", c, n)
    <2>1. PICK m \in Nds(b) : Order(m) = Order(n) /\ m \in Ring(b, c) \ {c}
      BY <1>2, RowMate
    <2> QED BY <2>1, Rings DEF IsRing, Ahead
  <1>3. since = NodeSince(b, cov, a, p)
    BY <1>2, SinceAppend
  <1>4. HeaderDances(b, LinkColumn(l, c), cov)
    BY <1>1, LinkDances
  <1>5. /\ LinkColumn(l, c) \in Links(b)
        /\ LinkColumn(l, c).down = l.down /\ LinkColumn(l, c).up = l.up
        /\ LinkColumn(l, c).size = l.size
    BY <1>1, ColumnLinks
  <1>6. ColumnsDance(b, LinkColumn(l, c), since)
    BY <1>1, <1>5 DEF ColumnsDance
  <1> QED BY <1>3, <1>4, <1>5, <1>6 DEF LinksInv

\* The row that a loop is at.
LEMMA RowAt ==
  ASSUME NEW b, NEW cov \in Seq(Columns(b)), Distinct(cov), cov # <<>>,
         NEW a \in Ring(b, cov[Len(cov)]) \ {cov[Len(cov)]}, NEW x, NEW p,
         NodeSince(b, cov, x, p)[a] = 0
  PROVE  /\ a \in Nds(b) /\ ColumnOf(a) = cov[Len(cov)] /\ a \in VNodes(b)
         /\ Hits(cov, a) # {} /\ FirstHit(cov, a) = Len(cov)
         /\ \A m \in Nds(b) : SameRow(m, a) <=> Order(m) = Order(a)
         /\ \A m \in Others(a) : /\ m \in Nds(b) /\ Hits(cov, m) # {} /\ FirstHit(cov, m) = Len(cov)
                                 /\ ColumnOf(m) # cov[Len(cov)] /\ Order(m) = Order(a)
  <1>1. Len(cov) \in Nat /\ Len(cov) \in 1..Len(cov) /\ cov[Len(cov)] \in Columns(b)
    BY LastColumn
  <1>2. a \in Nds(b) /\ ColumnOf(a) = cov[Len(cov)] /\ a \in VNodes(b)
    BY <1>1, OwnRing
  <1>3. Hits(cov, a) # {}
    <2>1. ColumnOf(a) \in RowColumns(a)
      BY <1>2, NodeFacts
    <2> QED BY <1>1, <1>2, <2>1 DEF Hits
  <1>4. FirstHit(cov, a) = Len(cov)
    <2>1. FirstHit(cov, a) \in 1..Len(cov)
      BY <1>1, <1>3, FirstHitFacts
    <2>2. \/ cov[FirstHit(cov, a)] = ColumnOf(a)
          \/ FirstHit(cov, a) = Len(cov)
          \/ FirstHit(cov, a) = 0
      BY <1>2, <1>3, SinceFacts
    <2> QED BY <1>1, <1>2, <2>1, <2>2 DEF Distinct
  <1>5. \A m \in Nds(b) : SameRow(m, a) <=> Order(m) = Order(a)
    BY <1>2, NodeOrder
  <1>6. ASSUME NEW m \in Others(a)
        PROVE  /\ m \in Nds(b) /\ Hits(cov, m) # {} /\ FirstHit(cov, m) = Len(cov)
               /\ ColumnOf(m) # cov[Len(cov)] /\ Order(m) = Order(a)
    <2>1. m \in Nds(b) /\ SameRow(m, a) /\ ColumnOf(m) # ColumnOf(a)
      BY <1>2, RightFacts DEF Others
    <2> QED BY <1>2, <1>3, <1>4, <1>5, <2>1, SameRowHits
  <1> QED BY <1>2, <1>3, <1>4, <1>5, <1>6

-----------------------------------------------------------------------------
(* The loops over the rows of a column.                                     *)

LEMMA HideRowKeeps ==
  ASSUME NEW b, NEW cov \in Seq(Columns(b)), Distinct(cov), cov # <<>>, NEW l,
         NEW a \in Ring(b, cov[Len(cov)]) \ {cov[Len(cov)]},
         LinksInv(b, l, cov, a, "hide"), NodeSince(b, cov, a, "hide")[a] = 0
  PROVE  LET l2 == HideOthers(l, a)
             a2 == l2.down[a]
         IN  /\ LinksInv(b, l2, cov, a2, "hide")
             /\ a2 \in Ring(b, cov[Len(cov)])
             /\ NodeSince(b, cov, a2, "hide")[a2] = 0
  <1> DEFINE c == cov[Len(cov)]
             t == Len(cov)
             ring == Ring(b, c)
             a2 == l.down[a]
             since == NodeSince(b, cov, a, "hide")
             since2 == NodeSince(b, cov, a2, "hide")
             l2 == HideOthers(l, a)
  <1>1. t \in Nat /\ t >= 1 /\ t \in 1..Len(cov) /\ c \in Columns(b)
    BY LastColumn
  <1>2. /\ a \in Nds(b) /\ ColumnOf(a) = c /\ a \in VNodes(b)
        /\ Hits(cov, a) # {} /\ FirstHit(cov, a) = t
        /\ \A m \in Nds(b) : SameRow(m, a) <=> Order(m) = Order(a)
        /\ \A m \in Others(a) : /\ m \in Nds(b) /\ Hits(cov, m) # {} /\ FirstHit(cov, m) = t
                                /\ ColumnOf(m) # c /\ Order(m) = Order(a)
    BY RowAt
  <1>3. l \in Links(b) /\ HeaderDances(b, l, cov) /\ ColumnsDance(b, l, since)
    BY DEF LinksInv
  <1>4. /\ since \in [VNodes(b) -> Nat] /\ since2 \in [VNodes(b) -> Nat]
        /\ \A d \in Columns(b) : since[d] = 0
    BY SinceOfColumns
  <1>5. /\ a2 \in ring /\ since[a2] = 0 /\ IsNext(a2, a, ring, c, since)
    BY <1>1, <1>3, Neighbours
  <1>6. /\ \A m \in ring : Order(m) \in Int
        /\ Order(c) < Order(a) /\ Order(c) \in Int
        /\ \A m \in ring \ {c} : since[m] = 0 /\ Order(a) < Order(m) => a2 # c /\ Order(a2) <= Order(m)
        /\ a2 = c \/ Order(a) < Order(a2)
    <2>1. /\ \A m \in ring : Order(m) \in Int
          /\ Order(c) < Order(a) /\ Order(c) \in Int
      BY <1>1, Rings DEF IsRing
    <2>2. \A m \in ring : since[m] = 0 => Outlasts(since, m, a)
      BY DEF Outlasts
    <2> QED BY <1>5, <2>1, <2>2 DEF IsNext
  <1>7. ASSUME NEW n \in Nds(b), Hits(cov, n) # {}, FirstHit(cov, n) = t, ~SameRow(n, a)
        PROVE  Ahead(a, "hide", c, n) <=> Ahead(a2, "hide", c, n)
    <2>1. PICK m \in ring \ {c} : Order(m) = Order(n) /\ since[m] = 0
      BY <1>7, LastRow
    <2>2. Order(m) # Order(a)
      BY <1>2, <1>7, <2>1
    <2>3. Order(m) \in Int /\ Order(a) \in Int /\ Order(a2) \in Int
      BY <1>5, <1>6, <2>1
    <2>4. CASE Order(a) < Order(m)
      <3>1. a2 # c /\ Order(a2) <= Order(m)
        BY <1>6, <2>1, <2>4
      <3> QED BY <2>1, <2>3, <2>4, <3>1 DEF Ahead
    <2>5. CASE Order(m) < Order(a)
      <3>1. a2 = c \/ Order(m) < Order(a2)
        BY <1>6, <2>3, <2>5
      <3> QED BY <2>1, <2>3, <2>5, <3>1 DEF Ahead
    <2> QED BY <2>2, <2>3, <2>4, <2>5
  <1>8. ASSUME NEW m \in Others(a)
        PROVE  since[m] = 0 /\ since2[m] = t
    <2>1. Ahead(a, "hide", c, m)
      BY <1>2, <1>6 DEF Ahead
    <2>2. ~Ahead(a2, "hide", c, m)
      <3>1. a2 = c \/ ~(Order(a2) <= Order(m))
        BY <1>2, <1>5, <1>6
      <3> QED BY <3>1 DEF Ahead
    <2> QED BY <1>2, <2>1, <2>2, SinceFacts
  <1>9. ASSUME NEW m \in VNodes(b), m \notin Others(a)
        PROVE  since2[m] = since[m]
    <2>1. CASE m \in Columns(b)
      BY <2>1, SinceOfColumns
    <2>2. CASE m \in Nds(b) /\ Hits(cov, m) = {}
      BY <2>2, SinceFacts
    <2>3. CASE m \in Nds(b) /\ Hits(cov, m) # {} /\ FirstHit(cov, m) # t
      BY <2>3, SinceFacts
    <2>4. CASE m \in Nds(b) /\ Hits(cov, m) # {} /\ FirstHit(cov, m) = t
      <3>1. CASE SameRow(m, a)
        <4>1. ColumnOf(m) = c
          BY <1>2, <1>9, <3>1, <2>4, OthersFacts
        <4> QED BY <2>4, <4>1, SinceFacts
      <3>2. CASE ~SameRow(m, a)
        <4>1. Ahead(a, "hide", c, m) <=> Ahead(a2, "hide", c, m)
          BY <1>7, <2>4, <3>2
        <4> QED BY <2>4, <4>1, SinceFacts
      <3> QED BY <3>1, <3>2
    <2> QED BY <2>1, <2>2, <2>3, <2>4 DEF VNodes
  <1>10. \A m \in VNodes(b) : since2[m] = IF m \in Others(a) THEN t ELSE since[m]
    BY <1>8, <1>9
  <1>11. ASSUME NEW j \in 1..3
         PROVE  /\ since[RightOf(a)[j]] = 0
                /\ IsLatest(RightOf(a)[j], Ring(b, ColumnOf(RightOf(a)[j])), since, t)
    <2> DEFINE r == RightOf(a)[j]
               d == ColumnOf(r)
    <2>1. r \in Others(a) /\ r \in Nds(b) /\ d \in Columns(b) /\ d # c
      BY <1>2, OthersFacts DEF Others
    <2>2. since[r] = 0 /\ Order(r) = Order(a)
      BY <1>2, <1>8, <2>1
    <2> HIDE DEF r
    <2>3. ASSUME NEW m \in Ring(b, d) \ {r}
          PROVE  since[m] = 0 \/ since[m] < t \/ (since[m] = t /\ Order(m) < Order(r))
      <3>1. CASE m = d
        BY <1>4, <2>1, <3>1
      <3>2. CASE m # d
        <4>1. m \in Nds(b) /\ ColumnOf(m) = d
          BY <2>1, <3>2, OwnRing
        <4>2. CASE Hits(cov, m) = {}
          BY <4>1, <4>2, SinceFacts
        <4>3. CASE Hits(cov, m) # {} /\ FirstHit(cov, m) # t
          <5>1. FirstHit(cov, m) \in 1..t
            BY <1>1, <4>3, FirstHitFacts
          <5>2. since[m] = 0 \/ since[m] = FirstHit(cov, m)
            BY <4>1, <4>3, SinceFacts
          <5> QED BY <4>3, <5>1, <5>2
        <4>4. CASE Hits(cov, m) # {} /\ FirstHit(cov, m) = t
          <5>1. CASE Ahead(a, "hide", c, m)
            BY <4>1, <4>4, <5>1, SinceFacts
          <5>2. CASE ~Ahead(a, "hide", c, m)
            <6>1. ~(Order(a) <= Order(m))
              BY <5>2 DEF Ahead
            <6>2. Order(m) \in Int /\ Order(a) \in Int
              BY <1>6, <2>1, Rings DEF IsRing
            <6>3. Order(m) < Order(r)
              BY <2>2, <6>1, <6>2
            <6>4. since[m] = t \/ since[m] = 0
              BY <4>1, <4>4, SinceFacts
            <6> QED BY <6>3, <6>4
          <5> QED BY <5>1, <5>2
        <4> QED BY <4>2, <4>3, <4>4
      <3> QED BY <3>1, <3>2
    <2> QED BY <2>2, <2>3 DEF IsLatest, r
  <1> HIDE DEF since, since2, l2, t
  <1>12. /\ l2 \in Links(b) /\ ColumnsDance(b, l2, since2)
         /\ \A m \in Ring(b, ColumnOf(a)) : l2.down[m] = l.down[m] /\ l2.up[m] = l.up[m]
         /\ l2.right = l.right /\ l2.left = l.left
    <2>1. t \in Nat \ {0}
      BY <1>1
    <2> QED BY <1>2, <1>3, <1>4, <1>10, <1>11, <2>1, HideOthersDances DEF l2
  <1>13. l2.down[a] = a2
    BY <1>2, <1>12
  <1>14. HeaderDances(b, l2, cov)
    BY <1>3, <1>12 DEF HeaderDances
  <1>15. since2[a2] = 0
    <2>1. a2 \notin Others(a) /\ a2 \in VNodes(b)
      BY <1>1, <1>2, <1>5, OwnRing
    <2> QED BY <1>5, <1>9, <2>1
  <1> QED BY <1>5, <1>12, <1>13, <1>14, <1>15 DEF LinksInv, since2, l2

LEMMA ShowRowKeeps ==
  ASSUME NEW b, NEW cov \in Seq(Columns(b)), Distinct(cov), cov # <<>>, NEW l,
         NEW a \in Ring(b, cov[Len(cov)]) \ {cov[Len(cov)]},
         LinksInv(b, l, cov, a, "show"), NodeSince(b, cov, a, "show")[a] = 0
  PROVE  LET l2 == ShowOthers(l, a)
             a2 == l2.up[a]
         IN  /\ LinksInv(b, l2, cov, a2, "show")
             /\ a2 \in Ring(b, cov[Len(cov)])
             /\ NodeSince(b, cov, a2, "show")[a2] = 0
  <1> DEFINE c == cov[Len(cov)]
             t == Len(cov)
             ring == Ring(b, c)
             a2 == l.up[a]
             since == NodeSince(b, cov, a, "show")
             since2 == NodeSince(b, cov, a2, "show")
             l2 == ShowOthers(l, a)
  <1>1. t \in Nat /\ t >= 1 /\ t \in 1..Len(cov) /\ c \in Columns(b)
    BY LastColumn
  <1>2. /\ a \in Nds(b) /\ ColumnOf(a) = c /\ a \in VNodes(b)
        /\ Hits(cov, a) # {} /\ FirstHit(cov, a) = t
        /\ \A m \in Nds(b) : SameRow(m, a) <=> Order(m) = Order(a)
        /\ \A m \in Others(a) : /\ m \in Nds(b) /\ Hits(cov, m) # {} /\ FirstHit(cov, m) = t
                                /\ ColumnOf(m) # c /\ Order(m) = Order(a)
    BY RowAt
  <1>3. l \in Links(b) /\ HeaderDances(b, l, cov) /\ ColumnsDance(b, l, since)
    BY DEF LinksInv
  <1>4. /\ since \in [VNodes(b) -> Nat] /\ since2 \in [VNodes(b) -> Nat]
        /\ \A d \in Columns(b) : since[d] = 0
    BY SinceOfColumns
  <1>5. /\ a2 \in ring /\ since[a2] = 0 /\ IsPrev(a2, a, ring, c, since)
    BY <1>1, <1>3, Neighbours
  <1>6. /\ \A m \in ring : Order(m) \in Int
        /\ \A m \in ring : since[m] = 0 /\ Order(m) < Order(a) => Order(m) <= Order(a2)
        /\ Order(a2) < Order(a)
    <2>1. /\ \A m \in ring : Order(m) \in Int
      BY <1>1, Rings DEF IsRing
    <2>2. \A m \in ring : since[m] = 0 => Outlasts(since, m, a)
      BY DEF Outlasts
    <2> QED BY <1>5, <2>1, <2>2 DEF IsPrev
  <1>7. ASSUME NEW n \in Nds(b), Hits(cov, n) # {}, FirstHit(cov, n) = t, ~SameRow(n, a)
        PROVE  Ahead(a, "show", c, n) <=> Ahead(a2, "show", c, n)
    <2>1. PICK m \in ring \ {c} : Order(m) = Order(n) /\ since[m] = 0
      BY <1>7, LastRow
    <2>2. Order(m) # Order(a)
      BY <1>2, <1>7, <2>1
    <2>3. Order(m) \in Int /\ Order(a) \in Int /\ Order(a2) \in Int
      BY <1>5, <1>6, <2>1
    <2>4. CASE Order(a) < Order(m)
      <3>1. Order(a2) < Order(m)
        BY <1>6, <2>3, <2>4
      <3> QED BY <2>1, <2>4, <3>1 DEF Ahead
    <2>5. CASE Order(m) < Order(a)
      <3>1. Order(m) <= Order(a2)
        BY <1>6, <2>1, <2>5
      <3> QED BY <2>1, <2>3, <2>5, <3>1 DEF Ahead
    <2> QED BY <2>2, <2>3, <2>4, <2>5
  <1>8. ASSUME NEW m \in Others(a)
        PROVE  since[m] = t /\ since2[m] = 0
    <2>1. ~Ahead(a, "show", c, m)
      BY <1>2, <1>6 DEF Ahead
    <2>2. Ahead(a2, "show", c, m)
      BY <1>2, <1>6 DEF Ahead
    <2> QED BY <1>2, <2>1, <2>2, SinceFacts
  <1>9. ASSUME NEW m \in VNodes(b), m \notin Others(a)
        PROVE  since2[m] = since[m]
    <2>1. CASE m \in Columns(b)
      BY <2>1, SinceOfColumns
    <2>2. CASE m \in Nds(b) /\ Hits(cov, m) = {}
      BY <2>2, SinceFacts
    <2>3. CASE m \in Nds(b) /\ Hits(cov, m) # {} /\ FirstHit(cov, m) # t
      BY <2>3, SinceFacts
    <2>4. CASE m \in Nds(b) /\ Hits(cov, m) # {} /\ FirstHit(cov, m) = t
      <3>1. CASE SameRow(m, a)
        <4>1. ColumnOf(m) = c
          BY <1>2, <1>9, <3>1, <2>4, OthersFacts
        <4> QED BY <2>4, <4>1, SinceFacts
      <3>2. CASE ~SameRow(m, a)
        <4>1. Ahead(a, "show", c, m) <=> Ahead(a2, "show", c, m)
          BY <1>7, <2>4, <3>2
        <4> QED BY <2>4, <4>1, SinceFacts
      <3> QED BY <3>1, <3>2
    <2> QED BY <2>1, <2>2, <2>3, <2>4 DEF VNodes
  <1>10. \A m \in VNodes(b) : since2[m] = IF m \in Others(a) THEN 0 ELSE since[m]
    BY <1>8, <1>9
  <1>11. ASSUME NEW j \in 1..3
         PROVE  /\ since[RightOf(a)[j]] = t
                /\ IsLatest(RightOf(a)[j], Ring(b, ColumnOf(RightOf(a)[j])), since, t)
    <2> DEFINE r == RightOf(a)[j]
               d == ColumnOf(r)
    <2>1. r \in Others(a) /\ r \in Nds(b) /\ d \in Columns(b) /\ d # c
      BY <1>2, OthersFacts DEF Others
    <2>2. since[r] = t /\ Order(r) = Order(a)
      BY <1>2, <1>8, <2>1
    <2>0. r \in Ring(b, d)
      BY <2>1, OwnRing
    <2> HIDE DEF r
    <2>3. ASSUME NEW m \in Ring(b, d) \ {r}
          PROVE  since[m] = 0 \/ since[m] < t \/ (since[m] = t /\ Order(m) < Order(r))
      <3>1. CASE m = d
        BY <1>4, <2>1, <3>1
      <3>2. CASE m # d
        <4>1. m \in Nds(b) /\ ColumnOf(m) = d
          BY <2>1, <3>2, OwnRing
        <4>2. CASE Hits(cov, m) = {}
          BY <4>1, <4>2, SinceFacts
        <4>3. CASE Hits(cov, m) # {} /\ FirstHit(cov, m) # t
          <5>1. FirstHit(cov, m) \in 1..t
            BY <1>1, <4>3, FirstHitFacts
          <5>2. since[m] = 0 \/ since[m] = FirstHit(cov, m)
            BY <4>1, <4>3, SinceFacts
          <5> QED BY <4>3, <5>1, <5>2
        <4>4. CASE Hits(cov, m) # {} /\ FirstHit(cov, m) = t
          <5>1. CASE Ahead(a, "show", c, m)
            BY <4>1, <4>4, <5>1, SinceFacts
          <5>2. CASE ~Ahead(a, "show", c, m)
            <6>1. ~(Order(a) < Order(m))
              BY <5>2 DEF Ahead
            <6>2. Order(m) \in Int /\ Order(a) \in Int /\ Order(m) # Order(r)
              BY <1>6, <2>0, <2>1, Rings DEF IsRing
            <6>3. Order(m) < Order(r)
              BY <2>2, <6>1, <6>2
            <6>4. since[m] = t \/ since[m] = 0
              BY <4>1, <4>4, SinceFacts
            <6> QED BY <6>3, <6>4
          <5> QED BY <5>1, <5>2
        <4> QED BY <4>2, <4>3, <4>4
      <3> QED BY <3>1, <3>2
    <2> QED BY <2>2, <2>3 DEF IsLatest, r
  <1> HIDE DEF since, since2, l2, t
  <1>12. /\ l2 \in Links(b) /\ ColumnsDance(b, l2, since2)
         /\ \A m \in Ring(b, ColumnOf(a)) : l2.down[m] = l.down[m] /\ l2.up[m] = l.up[m]
         /\ l2.right = l.right /\ l2.left = l.left
    <2>1. t \in Nat \ {0}
      BY <1>1
    <2> QED BY <1>2, <1>3, <1>4, <1>10, <1>11, <2>1, ShowOthersDances DEF l2
  <1>13. l2.up[a] = a2
    BY <1>2, <1>12
  <1>14. HeaderDances(b, l2, cov)
    BY <1>3, <1>12 DEF HeaderDances
  <1>15. since2[a2] = 0
    <2>1. a2 \notin Others(a) /\ a2 \in VNodes(b)
      BY <1>1, <1>2, <1>5, OwnRing
    <2> QED BY <1>5, <1>9, <2>1
  <1> QED BY <1>5, <1>12, <1>13, <1>14, <1>15 DEF LinksInv, since2, l2

-----------------------------------------------------------------------------
(* The links as the constructor leaves them, and the ring of root_.         *)

LEMMA FollowingInRing ==
  ASSUME NEW ring, NEW head, IsRing(ring, head), NEW n \in ring
  PROVE  Following(ring, n) \in ring /\ Preceding(ring, n) \in ring
  <1>1. ring # {}
    OBVIOUS
  <1>2. After(ring, n) \subseteq ring /\ Before(ring, n) \subseteq ring
    BY DEF After, Before
  <1>3. CASE After(ring, n) = {}
    <2>1. First(ring) \in ring
      BY <1>1, FirstFinal
    <2> QED BY <1>3, <2>1, <1>2, <1>1, FirstFinal DEF Following, Preceding
  <1>4. CASE After(ring, n) # {}
    <2>1. First(After(ring, n)) \in ring
      BY <1>2, <1>4, FirstFinal
    <2> QED BY <1>4, <2>1, <1>2, <1>1, FirstFinal DEF Following, Preceding
  <1> QED BY <1>3, <1>4

LEMMA BuiltLinks ==
  ASSUME NEW b
  PROVE  /\ Built(b) \in Links(b)
         /\ \A c \in Header(b) : /\ Built(b).right[c] = Following(Header(b), c)
                                 /\ Built(b).left[c] = Preceding(Header(b), c)
         /\ \A c \in Columns(b) : \A n \in Ring(b, c) :
              /\ Built(b).down[n] = Following(Ring(b, c), n)
              /\ Built(b).up[n] = Preceding(Ring(b, c), n)
         /\ \A c \in Columns(b) : Built(b).size[c] = Cardinality(NodesIn(c, Nds(b)))
  <1> DEFINE rings == [c \in Columns(b) |-> Ring(b, c)]
  <1>1. /\ Built(b).right = [c \in Header(b) |-> Following(Header(b), c)]
        /\ Built(b).left = [c \in Header(b) |-> Preceding(Header(b), c)]
        /\ Built(b).down = [n \in VNodes(b) |-> Following(rings[ColumnOf(n)], n)]
        /\ Built(b).up = [n \in VNodes(b) |-> Preceding(rings[ColumnOf(n)], n)]
        /\ Built(b).size = [c \in Columns(b) |-> Cardinality(NodesIn(c, Nds(b)))]
        /\ Built(b) = [right |-> Built(b).right, left |-> Built(b).left, down |-> Built(b).down,
                       up |-> Built(b).up, size |-> Built(b).size]
    BY DEF Built, Header, VNodes, Nds, Ring
  <1>2. ASSUME NEW n \in VNodes(b)
        PROVE  ColumnOf(n) \in Columns(b) /\ n \in Ring(b, ColumnOf(n))
    <2>1. CASE n \in Columns(b)
      BY <2>1, ColumnFacts DEF Ring
    <2>2. CASE n \in Nds(b)
      BY <2>2, NodeFacts, OwnRing
    <2> QED BY <2>1, <2>2 DEF VNodes
  <1>3. ASSUME NEW n \in VNodes(b)
        PROVE  Built(b).down[n] \in VNodes(b) /\ Built(b).up[n] \in VNodes(b)
    <2>1. rings[ColumnOf(n)] = Ring(b, ColumnOf(n)) /\ IsRing(Ring(b, ColumnOf(n)), ColumnOf(n))
      BY <1>2, Rings
    <2>2. Following(Ring(b, ColumnOf(n)), n) \in Ring(b, ColumnOf(n))
      BY <1>2, <2>1, FollowingInRing
    <2>3. Preceding(Ring(b, ColumnOf(n)), n) \in Ring(b, ColumnOf(n))
      BY <1>2, <2>1, FollowingInRing
    <2>4. Ring(b, ColumnOf(n)) \subseteq VNodes(b)
      BY <1>2, OwnRing
    <2>5. Built(b).down[n] = Following(rings[ColumnOf(n)], n)
      BY <1>1
    <2>6. Built(b).up[n] = Preceding(rings[ColumnOf(n)], n)
      BY <1>1
    <2> QED BY <2>1, <2>2, <2>3, <2>4, <2>5, <2>6
  <1>4. ASSUME NEW c \in Header(b)
        PROVE  Following(Header(b), c) \in Header(b) /\ Preceding(Header(b), c) \in Header(b)
    BY Rings, FollowingInRing
  <1>5. ASSUME NEW c \in Columns(b)
        PROVE  Cardinality(NodesIn(c, Nds(b))) \in Int
    BY NodesFinite, FS_CardinalityType
  <1>6. ASSUME NEW c \in Columns(b), NEW n \in Ring(b, c)
        PROVE  /\ Built(b).down[n] = Following(Ring(b, c), n)
               /\ Built(b).up[n] = Preceding(Ring(b, c), n)
    <2>1. n \in VNodes(b) /\ ColumnOf(n) = c
      BY OwnRing
    <2>2. rings[ColumnOf(n)] = Ring(b, c)
      BY <2>1
    <2>3. Built(b).down[n] = Following(rings[ColumnOf(n)], n)
      BY <1>1, <2>1
    <2>4. Built(b).up[n] = Preceding(rings[ColumnOf(n)], n)
      BY <1>1, <2>1
    <2> QED BY <2>2, <2>3, <2>4
  <1>7. Built(b) \in Links(b)
    <2>1. Built(b).right \in [Header(b) -> Header(b)] /\ Built(b).left \in [Header(b) -> Header(b)]
      BY <1>1, <1>4
    <2>2. Built(b).down \in [VNodes(b) -> VNodes(b)]
      <3>1. DOMAIN Built(b).down = VNodes(b)
        BY <1>1
      <3> QED BY <1>1, <1>3, <3>1
    <2>3. Built(b).up \in [VNodes(b) -> VNodes(b)]
      <3>1. DOMAIN Built(b).up = VNodes(b)
        BY <1>1
      <3> QED BY <1>1, <1>3, <3>1
    <2>4. Built(b).size \in [Columns(b) -> Int]
      BY <1>1, <1>5
    <2> QED BY <1>1, <2>1, <2>2, <2>3, <2>4 DEF Links
  <1> QED BY <1>1, <1>6, <1>7

LEMMA NotHit ==
  ASSUME NEW b, NEW cov \in Seq(Columns(b)), NEW a, NEW p, NEW n \in Nds(b), Hits(cov, n) = {}
  PROVE  NodeSince(b, cov, a, p)[n] = 0
  BY SinceFacts

LEMMA ConstructKeeps ==
  ASSUME NEW b, NEW cov \in Seq(Columns(b)), Len(cov) = 0, NEW a, NEW p
  PROVE  LinksInv(b, Built(b), cov, a, p)
  <1> DEFINE l == Built(b)
             since == NodeSince(b, cov, a, p)
  <1>2. /\ l \in Links(b)
        /\ \A c \in Header(b) : /\ l.right[c] = Following(Header(b), c)
                                /\ l.left[c] = Preceding(Header(b), c)
        /\ \A c \in Columns(b) : \A n \in Ring(b, c) :
             /\ l.down[n] = Following(Ring(b, c), n)
             /\ l.up[n] = Preceding(Ring(b, c), n)
        /\ \A c \in Columns(b) : l.size[c] = Cardinality(NodesIn(c, Nds(b)))
    BY BuiltLinks
  <1> HIDE DEF l
  <1>3. HeaderDances(b, l, cov)
    <2>1. Distinct(cov)
      BY DEF Distinct
    <2>2. \A c \in Header(b) : HeaderSince(b, cov)[c] = 0
      <3>1. \A c \in Header(b) : HeaderSince(b, cov)[c] \in 0..Len(cov)
        BY <2>1, HeaderSinceFacts
      <3> QED BY <3>1
    <2> QED BY <1>2, <2>2, Rings, BuiltDances DEF HeaderDances
  <1>4. \A n \in VNodes(b) : since[n] = 0
    <2>1. \A n : Hits(cov, n) = {}
      BY DEF Hits
    <2>2. \A n \in Columns(b) : since[n] = 0
      BY SinceFacts
    <2>3. ASSUME NEW n \in Nds(b)
          PROVE  since[n] = 0
      <3>1. Hits(cov, n) = {}
        BY <2>1
      <3> QED BY <3>1, NotHit
    <2> QED BY <2>2, <2>3 DEF VNodes
  <1>5. ASSUME NEW c \in Columns(b)
        PROVE  /\ Dances(l.down, l.up, Ring(b, c), c, since)
               /\ l.size[c] = Cardinality({n \in NodesIn(c, Nds(b)) : since[n] = 0})
    <2>1. Ring(b, c) \subseteq VNodes(b) /\ IsRing(Ring(b, c), c)
      BY OwnRing, Rings
    <2>2. \A n \in Ring(b, c) : since[n] = 0
      BY <1>4, <2>1
    <2>3. Dances(l.down, l.up, Ring(b, c), c, since)
      BY <1>2, <2>1, <2>2, BuiltDances
    <2>4. \A n \in NodesIn(c, Nds(b)) : since[n] = 0
      BY <1>4 DEF NodesIn, VNodes
    <2>5. {n \in NodesIn(c, Nds(b)) : since[n] = 0} = NodesIn(c, Nds(b))
      BY <2>4
    <2> QED BY <1>2, <2>3, <2>5
  <1>6. ColumnsDance(b, l, since)
    BY <1>5 DEF ColumnsDance
  <1> QED BY <1>2, <1>3, <1>6 DEF LinksInv, l

\* The ring of root_ leads from column to column, none of them covered, back to root_.
LEMMA HeaderNext ==
  ASSUME NEW b, NEW l, NEW cov \in Seq(Columns(b)), Distinct(cov), NEW a0, NEW p,
         LinksInv(b, l, cov, a0, p), NEW a \in Header(b), HeaderSince(b, cov)[a] = 0
  PROVE  l.right[a] \in Header(b) /\ HeaderSince(b, cov)[l.right[a]] = 0
  BY DEF LinksInv, HeaderDances, Dances, IsNext, Outlasts

LEMMA HeaderColumn ==
  ASSUME NEW b, NEW cov \in Seq(Columns(b)), Distinct(cov), NEW a \in Header(b),
         HeaderSince(b, cov)[a] = 0, a # root_
  PROVE  a \in Columns(b) /\ a \notin Range(cov)
  BY HeaderSinceFacts DEF Header

LEMMA HeaderRoot ==
  ASSUME NEW b, NEW l, NEW cov \in Seq(Columns(b)), Distinct(cov), NEW a0, NEW p,
         LinksInv(b, l, cov, a0, p)
  PROVE  /\ l.left[root_] # root_ => l.right[root_] \in Columns(b) /\ l.right[root_] \notin Range(cov)
         /\ l.left[root_] = root_ => Columns(b) \subseteq Range(cov)
  <1> DEFINE since == HeaderSince(b, cov)
  <1>1. /\ root_ \in Header(b) /\ since[root_] = 0
        /\ \A c \in Header(b) : since[c] = 0 <=> c \notin Range(cov)
    BY HeaderSinceFacts DEF Header
  <1>2. /\ IsNext(l.right[root_], root_, Header(b), root_, since)
        /\ IsPrev(l.left[root_], root_, Header(b), root_, since)
    BY <1>1 DEF LinksInv, HeaderDances, Dances
  <1>3. /\ \A c \in Header(b) : Order(c) \in Int
        /\ \A c \in Header(b) \ {root_} : Order(root_) < Order(c)
    BY Rings DEF IsRing
  <1>4. l.right[root_] \in Header(b) /\ since[l.right[root_]] = 0
    BY <1>1, HeaderNext
  <1>5. ASSUME l.left[root_] # root_
        PROVE  l.right[root_] # root_
    <2>1. l.left[root_] \in Header(b) /\ since[l.left[root_]] = 0
      BY <1>1, <1>2 DEF IsPrev, Outlasts
    <2>2. Order(root_) < Order(l.left[root_])
      BY <1>3, <1>5, <2>1
    <2>3. Outlasts(since, l.left[root_], root_)
      BY <2>1 DEF Outlasts
    <2> QED BY <1>2, <1>3, <2>1, <2>2, <2>3 DEF IsNext
  <1>6. ASSUME l.left[root_] = root_, NEW c \in Columns(b)
        PROVE  c \in Range(cov)
    <2>1. c \in Header(b) /\ c # root_
      BY ColumnFacts DEF Header
    <2>2. Order(root_) < Order(c)
      BY <1>3, <2>1
    <2>3. ~Outlasts(since, c, root_)
      BY <1>2, <1>3, <1>6, <2>1, <2>2 DEF IsPrev
    <2> QED BY <1>1, <2>1, <2>3 DEF Outlasts
  <1>7. l.left[root_] # root_ => l.right[root_] \in Columns(b) /\ l.right[root_] \notin Range(cov)
    BY <1>4, <1>5, HeaderColumn
  <1> QED BY <1>6, <1>7

-----------------------------------------------------------------------------
(* The calls of solve() and what they have covered.                         *)

LEMMA CallsTypes ==
  ASSUME NEW b, NEW cs, NEW st, NEW cov, CallsInv(b, cs, st, cov)
  PROVE  /\ cs \in Seq([col : Columns(b), row : VNodes(b)])
         /\ Len(cs) \in Nat /\ Len(st) \in Nat /\ Len(cov) \in Nat /\ Len(st) <= Len(cs)
         /\ st \in Seq(VNodes(b)) /\ cov \in Seq(Columns(b)) /\ Distinct(cov)
         /\ \A i \in 1..Len(cov) : cov[i] \in Columns(b)
         /\ \A k \in 1..Len(cs) :
              /\ cs[k] \in [col : Columns(b), row : VNodes(b)]
              /\ cs[k].col \in Columns(b) /\ cs[k].row \in VNodes(b)
              /\ cs[k].row \in Ring(b, cs[k].col)
              /\ CallInv(b, cs, cov, k)
         /\ \A k \in 1..Len(st) : k \in 1..Len(cs) /\ st[k] = cs[k].row /\ cs[k].row # cs[k].col
  <1>1. /\ cs \in Seq([col : Columns(b), row : VNodes(b)])
        /\ st \in Seq(VNodes(b)) /\ cov \in Seq(Columns(b)) /\ Distinct(cov)
        /\ Len(st) <= Len(cs)
        /\ \A k \in 1..Len(st) : st[k] = cs[k].row /\ cs[k].row # cs[k].col
        /\ \A k \in 1..Len(cs) : CallInv(b, cs, cov, k)
    BY DEF CallsInv
  <1>2. /\ Len(cs) \in Nat /\ Len(st) \in Nat /\ Len(cov) \in Nat
        /\ \A k \in 1..Len(st) : k \in 1..Len(cs)
    BY <1>1, LenProperties
  <1>3. \A i \in 1..Len(cov) : cov[i] \in Columns(b)
    BY <1>1, ElementOfSeq
  <1>4. \A k \in 1..Len(cs) : cs[k] \in [col : Columns(b), row : VNodes(b)]
    BY <1>1, ElementOfSeq
  <1>5. \A k \in 1..Len(cs) : cs[k].col \in Columns(b) /\ cs[k].row \in VNodes(b)
    BY <1>4
  <1>6. \A k \in 1..Len(cs) : cs[k].row \in Ring(b, cs[k].col)
    BY <1>1 DEF CallInv
  <1> QED BY <1>1, <1>2, <1>3, <1>4, <1>5, <1>6

\* The row of a call is a node of its column.
LEMMA CallRow ==
  ASSUME NEW b, NEW cs, NEW st, NEW cov, CallsInv(b, cs, st, cov),
         NEW k \in 1..Len(cs), cs[k].row # cs[k].col
  PROVE  /\ cs[k].row \in Nds(b) /\ ColumnOf(cs[k].row) = cs[k].col
         /\ cs[k].row \in Ring(b, cs[k].col) \ {cs[k].col}
         /\ 4 * k - 3 <= Len(cov) /\ cov[4 * k - 3] = cs[k].col
         /\ \A i \in 1..(4 * k - 4) : cov[i] \notin RowColumns(cs[k].row)
  <1>1. cs[k].col \in Columns(b) /\ cs[k].row \in Ring(b, cs[k].col) /\ CallInv(b, cs, cov, k)
    BY CallsTypes
  <1>2. cs[k].row \in Nds(b) /\ ColumnOf(cs[k].row) = cs[k].col
    BY <1>1, OwnRing
  <1> QED BY <1>1, <1>2 DEF CallInv

\* A call whose columns are covered stays as it is, whatever is covered after them.
LEMMA CallFrame ==
  ASSUME NEW b, NEW cs, NEW cov, NEW k \in Nat, CallInv(b, cs, cov, k), k >= 1,
         NEW cs2, cs2[k] = cs[k], NEW cov2,
         Len(cov) \in Nat, Len(cov2) \in Nat, 4 * k <= Len(cov), 4 * k <= Len(cov2),
         \A i \in 1..(4 * k) : cov2[i] = cov[i]
  PROVE  CallInv(b, cs2, cov2, k)
  <1>1. /\ 4 * k - 3 \in 1..(4 * k) /\ \A j \in 1..3 : 4 * k - 3 + j \in 1..(4 * k)
        /\ \A i \in 1..(4 * k - 4) : i \in 1..(4 * k)
    OBVIOUS
  <1>2. /\ cs2[k].row \in Ring(b, cs2[k].col)
        /\ 4 * k - 3 <= Len(cov2) => cov2[4 * k - 3] = cs2[k].col
    BY <1>1 DEF CallInv
  <1>3. ASSUME NEW j \in 1..3
        PROVE  /\ cs2[k].row # cs2[k].col
               /\ cov2[4 * k - 3 + j] = ColumnOf(RightOf(cs2[k].row)[j])
    <2>1. PICK i : i = 4 * k - 3 + j
      OBVIOUS
    <2>2. i \in 1..(4 * k) /\ i <= Len(cov)
      BY ONLY <2>1, j \in 1..3, k \in Nat, k >= 1, Len(cov) \in Nat, 4 * k <= Len(cov)
    <2>3. cs[k].row # cs[k].col /\ cov[i] = ColumnOf(RightOf(cs[k].row)[j])
      BY ONLY <2>1, <2>2, j \in 1..3, CallInv(b, cs, cov, k) DEF CallInv
    <2>4. cov2[i] = cov[i]
      BY <2>2
    <2> QED BY ONLY <2>1, <2>3, <2>4, cs2[k] = cs[k]
  <1>4. cs2[k].row # cs2[k].col =>
          /\ 4 * k - 3 <= Len(cov2)
          /\ \A i \in 1..(4 * k - 4) : cov2[i] \notin RowColumns(cs2[k].row)
    BY <1>1 DEF CallInv
  <1> QED BY <1>2, <1>3, <1>4 DEF CallInv

\* A call that has not covered anything yet.
LEMMA FreshCall ==
  ASSUME NEW b, NEW cs, NEW cov, NEW k \in Nat, k >= 1, Len(cov) \in Nat, Len(cov) <= 4 * k - 4,
         NEW c \in Columns(b), cs[k] = [col |-> c, row |-> c]
  PROVE  CallInv(b, cs, cov, k)
  BY DEF CallInv, Ring

\* cs2 is cs and one more call, x.
Pushed(b, cs, cs2, x) ==
  /\ cs2 \in Seq([col : Columns(b), row : VNodes(b)])
  /\ Len(cs2) = Len(cs) + 1
  /\ cs2[Len(cs) + 1] = x
  /\ \A k \in 1..Len(cs) : cs2[k] = cs[k]

LEMMA AppendCall ==
  ASSUME NEW b, NEW cs \in Seq([col : Columns(b), row : VNodes(b)]),
         NEW x \in [col : Columns(b), row : VNodes(b)], NEW cs2, cs2 = Append(cs, x)
  PROVE  Pushed(b, cs, cs2, x)
  <1> DEFINE S == [col : Columns(b), row : VNodes(b)]
  <1>1. cs \in Seq(S) /\ x \in S
    OBVIOUS
  <1> HIDE DEF S
  <1>2. /\ cs2 \in Seq(S) /\ Len(cs2) = Len(cs) + 1 /\ cs2[Len(cs) + 1] = x
        /\ \A k \in 1..Len(cs) : cs2[k] = cs[k]
    BY <1>1, AppendFacts
  <1> QED BY <1>2 DEF Pushed, S

LEMMA PushCall ==
  ASSUME NEW b, NEW cs, NEW st, NEW cov, CallsInv(b, cs, st, cov),
         Len(cov) = 4 * Len(cs), NEW c \in Columns(b),
         NEW cs2, Pushed(b, cs, cs2, [col |-> c, row |-> c])
  PROVE  CallsInv(b, cs2, st, cov)
  <1> DEFINE x == [col |-> c, row |-> c]
  <1>1. /\ Len(cs) \in Nat /\ Len(st) \in Nat /\ Len(cov) \in Nat /\ Len(st) <= Len(cs)
        /\ st \in Seq(VNodes(b)) /\ cov \in Seq(Columns(b)) /\ Distinct(cov)
        /\ \A k \in 1..Len(cs) : CallInv(b, cs, cov, k)
        /\ \A k \in 1..Len(st) : k \in 1..Len(cs) /\ st[k] = cs[k].row /\ cs[k].row # cs[k].col
    BY ONLY CallsInv(b, cs, st, cov), CallsTypes
  <1>3. /\ cs2 \in Seq([col : Columns(b), row : VNodes(b)]) /\ Len(cs2) = Len(cs) + 1
        /\ \A i \in 1..Len(cs) : cs2[i] = cs[i]
        /\ cs2[Len(cs) + 1] = x
    BY DEF Pushed
  <1> HIDE DEF x
  <1>4. ASSUME NEW k \in 1..Len(cs)
        PROVE  CallInv(b, cs2, cov, k)
    <2>1. 4 * k <= Len(cov) /\ k \in Nat /\ k >= 1
      BY <1>1
    <2> QED BY <1>1, <1>3, <2>1, CallFrame
  <1>5. CallInv(b, cs2, cov, Len(cs) + 1)
    <2>1. Len(cov) <= 4 * (Len(cs) + 1) - 4 /\ Len(cs) + 1 \in Nat /\ Len(cs) + 1 >= 1
      BY <1>1
    <2> QED BY <1>1, <1>3, <2>1, FreshCall DEF x
  <1>6. \A k \in 1..Len(cs2) : CallInv(b, cs2, cov, k)
    <2>1. Len(cs) \in Nat
      BY <1>1
    <2>2. \A k \in 1..(Len(cs) + 1) : k \in 1..Len(cs) \/ k = Len(cs) + 1
      BY ONLY <2>1
    <2> QED BY <1>3, <1>4, <1>5, <2>2
  <1>7. \A k \in 1..Len(st) : st[k] = cs2[k].row /\ cs2[k].row # cs2[k].col
    BY <1>1, <1>3
  <1>8. Len(st) <= Len(cs2)
    BY <1>1, <1>3
  <1> QED BY <1>1, <1>3, <1>6, <1>7, <1>8 DEF CallsInv

\* cs2 is cs with another last call, x.
Replaced(b, cs, cs2, x) ==
  /\ cs2 \in Seq([col : Columns(b), row : VNodes(b)])
  /\ Len(cs2) = Len(cs) /\ Len(cs) >= 1
  /\ cs2[Len(cs)] = x
  /\ \A k \in 1..(Len(cs) - 1) : cs2[k] = cs[k]

LEMMA ExceptLast ==
  ASSUME NEW b, NEW cs \in Seq([col : Columns(b), row : VNodes(b)]), Len(cs) >= 1,
         NEW x \in [col : Columns(b), row : VNodes(b)], NEW cs2, cs2 = [cs EXCEPT ![Len(cs)] = x]
  PROVE  Replaced(b, cs, cs2, x)
  <1> DEFINE S == [col : Columns(b), row : VNodes(b)]
  <1>1. cs \in Seq(S) /\ x \in S
    OBVIOUS
  <1> HIDE DEF S
  <1>2. /\ cs2 \in Seq(S) /\ Len(cs2) = Len(cs)
        /\ Len(cs) \in 1..Len(cs) /\ cs2[Len(cs)] = x
        /\ \A k \in 1..(Len(cs) - 1) : cs2[k] = cs[k]
    BY <1>1
  <1> QED BY <1>2 DEF Replaced, S

\* The last call goes on with another record.
LEMMA ReplaceCall ==
  ASSUME NEW b, NEW cs, NEW st, NEW cov, CallsInv(b, cs, st, cov),
         Len(st) < Len(cs), 4 * Len(cs) - 4 <= Len(cov),
         NEW x, NEW cs2, Replaced(b, cs, cs2, x), CallInv(b, cs2, cov, Len(cs))
  PROVE  CallsInv(b, cs2, st, cov)
  <1>1. /\ Len(cs) \in Nat /\ Len(st) \in Nat /\ Len(cov) \in Nat
        /\ st \in Seq(VNodes(b)) /\ cov \in Seq(Columns(b)) /\ Distinct(cov)
        /\ \A k \in 1..Len(cs) : CallInv(b, cs, cov, k)
        /\ \A k \in 1..Len(st) : k \in 1..Len(cs) /\ st[k] = cs[k].row /\ cs[k].row # cs[k].col
    BY ONLY CallsInv(b, cs, st, cov), CallsTypes
  <1>3. /\ cs2 \in Seq([col : Columns(b), row : VNodes(b)]) /\ Len(cs2) = Len(cs)
        /\ \A k \in 1..(Len(cs) - 1) : cs2[k] = cs[k]
    BY DEF Replaced
  <1>4. ASSUME NEW k \in 1..(Len(cs) - 1)
        PROVE  CallInv(b, cs2, cov, k)
    <2>1. 4 * k <= Len(cov) /\ k \in Nat /\ k >= 1 /\ k \in 1..Len(cs)
      BY <1>1
    <2> QED BY <1>1, <1>3, <2>1, CallFrame
  <1>5. \A k \in 1..Len(cs2) : CallInv(b, cs2, cov, k)
    <2>1. Len(cs) \in Nat /\ Len(cs2) = Len(cs)
      BY <1>1, <1>3
    <2>2. \A k \in 1..Len(cs2) : k \in 1..(Len(cs) - 1) \/ k = Len(cs)
      BY ONLY <2>1
    <2> QED BY <1>4, <2>2
  <1>6. \A k \in 1..Len(st) : st[k] = cs2[k].row /\ cs2[k].row # cs2[k].col
    <2>1. \A k \in 1..Len(st) : k \in 1..(Len(cs) - 1)
      BY <1>1
    <2> QED BY <1>1, <1>3, <2>1
  <1>7. Len(st) <= Len(cs2)
    BY <1>1, <1>3
  <1> QED BY <1>1, <1>3, <1>5, <1>6, <1>7 DEF CallsInv

LEMMA CallsParts ==
  ASSUME NEW b, NEW cs, NEW st, NEW cov, CallsInv(b, cs, st, cov)
  PROVE  /\ cs \in Seq([col : Columns(b), row : VNodes(b)])
         /\ cov \in Seq(Columns(b)) /\ Distinct(cov)
         /\ \A k \in 1..Len(cs) : CallInv(b, cs, cov, k)
         /\ \A k \in 1..Len(st) : st[k] = cs[k].row /\ cs[k].row # cs[k].col
  BY DEF CallsInv

-----------------------------------------------------------------------------
(* What is covered next, and what was covered last.                         *)

LEMMA CallChosen ==
  ASSUME NEW b, NEW cs, NEW st, NEW cov, CallsInv(b, cs, st, cov), NEW k \in 1..Len(st)
  PROVE  k \in 1..Len(cs) /\ st[k] = cs[k].row /\ cs[k].row # cs[k].col
  BY CallsTypes

LEMMA CallFirst ==
  ASSUME NEW b, NEW cs, NEW st, NEW cov, CallsInv(b, cs, st, cov), NEW k \in 1..Len(cs),
         NEW i, i = 4 * k - 3, i <= Len(cov)
  PROVE  cov[i] = cs[k].col
  <1>1. CallInv(b, cs, cov, k)
    BY CallsTypes
  <1> QED BY <1>1 DEF CallInv

\* solve() never covers a column twice.
LEMMA NextFresh ==
  ASSUME NEW b, NEW cs, NEW st, NEW td, NEW cov, NEW a,
         CallsInv(b, cs, st, cov), PcInv(cs, st, td, cov, "cover"), WalkInv(b, cs, td, cov, a, "cover")
  PROVE  td[1] \in Columns(b) /\ td[1] \notin Range(cov)
  <1> DEFINE L == Len(cs)
             S == Len(st)
             T == Len(td)
             C == Len(cov)
             r == cs[L].row
             c == cs[L].col
  <1>1. /\ L \in Nat /\ S \in Nat /\ C \in Nat
        /\ cov \in Seq(Columns(b))
        /\ \A k \in 1..Len(cs) : cs[k].col \in Columns(b)
    BY CallsTypes
  <1>2. td \in Seq(Columns(b)) /\ (r = c => c \notin Range(cov))
    BY DEF WalkInv
  <1> HIDE DEF L, S, T, C
  <1>3. CASE L = S + 1 /\ C = 4 * S /\ td = <<c>>
    <2>0. L = S + 1 /\ C = 4 * S
      BY <1>3
    <2>1. L \in 1..L /\ ~(4 * L - 3 <= C)
      BY ONLY <1>1, <2>0
    <2>2. r = c
      BY <2>1, CallRow DEF L, S, T, C
    <2>3. td[1] = c
      BY <1>3
    <2> QED BY <1>1, <1>2, <2>1, <2>2, <2>3 DEF L
  <1>4. CASE /\ S = L /\ L >= 1 /\ T \in 1..3 /\ C = 4 * L - T
             /\ \A q \in 1..T : td[q] = ColumnOf(RightOf(r)[3 - T + q])
    <2>0. S = L /\ L >= 1 /\ T \in 1..3 /\ C = 4 * L - T
      BY <1>4
    <2>e. PICK e : e = 4 - T
      OBVIOUS
    <2>1. L \in 1..L /\ L \in 1..S /\ e \in 1..3 /\ 1 \in 1..T /\ 3 - T + 1 = e
      BY ONLY <1>1, <2>0, <2>e
    <2>2. r # c
      BY <2>1, CallChosen DEF L, S, T, C
    <2>3. /\ r \in Nds(b) /\ ColumnOf(r) = c
          /\ 4 * L - 3 <= C /\ cov[4 * L - 3] = c
          /\ \A i \in 1..(4 * L - 4) : cov[i] \notin RowColumns(r)
      BY <2>1, <2>2, CallRow DEF L, S, T, C
    <2>5. td[1] = ColumnOf(RightOf(r)[e])
      BY <1>4, <2>1
    <2>6. /\ \A j \in 1..3 : ColumnOf(RightOf(r)[j]) # ColumnOf(r)
          /\ \A j, k \in 1..3 : ColumnOf(RightOf(r)[j]) = ColumnOf(RightOf(r)[k]) => j = k
          /\ \A j \in 1..3 : ColumnOf(RightOf(r)[j]) \in RowColumns(r)
      BY <2>3, RightFacts
    <2>8. ASSUME NEW i \in 1..C
          PROVE  cov[i] # td[1]
      <3>1. CASE i <= 4 * L - 4
        <4>1. i \in 1..(4 * L - 4)
          BY ONLY <1>1, <3>1, i \in 1..C
        <4>2. cov[i] \notin RowColumns(r)
          BY <2>3, <4>1
        <4> QED BY <2>1, <2>5, <2>6, <4>2
      <3>2. CASE i = 4 * L - 3
        BY <2>3, <2>1, <2>5, <2>6, <3>2
      <3>3. CASE i > 4 * L - 3
        <4>j. PICK j : j = i - (4 * L - 3)
          OBVIOUS
        <4>1. j \in 1..3 /\ j # e /\ i = 4 * L - 3 + j /\ i <= C
          BY ONLY <1>1, <2>0, <3>3, <4>j, i \in 1..C, <2>e
        <4>2. cov[i] = ColumnOf(RightOf(r)[j])
          <5>1. L \in 1..Len(cs) /\ i <= Len(cov)
            BY <2>1, <4>1 DEF L, C
          <5>2. CallInv(b, cs, cov, L)
            BY ONLY <5>1, CallsInv(b, cs, st, cov), CallsParts
          <5> QED BY ONLY <4>1, <5>1, <5>2 DEF CallInv
        <4> QED BY <2>1, <2>5, <2>6, <4>1, <4>2
      <3> QED BY ONLY <1>1, <3>1, <3>2, <3>3, i \in 1..C
    <2>9. td[1] \in Columns(b)
      BY <1>2, <2>1, ElementOfSeq DEF L, S, T, C
    <2> QED BY <1>1, <2>8, <2>9 DEF Range, C
  <1> QED BY <1>3, <1>4 DEF PcInv, L, S, T, C

\* The column at the head of todo is the one that was covered last.
LEMMA LastCovered ==
  ASSUME NEW b, NEW cs, NEW st, NEW td, NEW cov, NEW p \in {"hide", "uncover", "show"},
         CallsInv(b, cs, st, cov), PcInv(cs, st, td, cov, p)
  PROVE  cov # <<>> /\ td[1] = cov[Len(cov)] /\ Len(td) >= 1 /\ Len(cov) >= 1 /\ Len(cs) >= 1
  <1> DEFINE L == Len(cs)
             S == Len(st)
             T == Len(td)
             C == Len(cov)
             r == cs[L].row
             c == cs[L].col
  <1>1. L \in Nat /\ S \in Nat /\ C \in Nat
    BY CallsTypes
  <1> HIDE DEF L, S, T, C
  <1>2. CASE L = S + 1 /\ C = 4 * S + 1 /\ td = <<c>>
    <2>0. L = S + 1 /\ C = 4 * S + 1
      BY <1>2
    <2>1. L \in 1..L /\ C = 4 * L - 3 /\ C >= 1 /\ C <= C /\ L >= 1
      BY ONLY <1>1, <2>0
    <2>2. cov[C] = c
      BY <2>1, CallFirst DEF L, S, T, C
    <2>3. td[1] = c /\ T = 1
      BY <1>2 DEF T
    <2> QED BY <2>1, <2>2, <2>3 DEF L, T, C
  <1>3. CASE /\ S = L /\ L >= 1 /\ T \in 1..3 /\ C = 4 * L - T + 1
             /\ \A q \in 1..T : td[q] = ColumnOf(RightOf(r)[3 - T + q])
    <2>0. S = L /\ L >= 1 /\ T \in 1..3 /\ C = 4 * L - T + 1
      BY <1>3
    <2>e. PICK e : e = 4 - T
      OBVIOUS
    <2>1. e \in 1..3 /\ 1 \in 1..T /\ 3 - T + 1 = e /\ C = 4 * L - 3 + e /\ L >= 1 /\ C >= 1 /\ L \in 1..L /\ C <= C /\ T >= 1
      BY ONLY <1>1, <2>0, <2>e
    <2>2. td[1] = ColumnOf(RightOf(r)[e])
      BY <1>3, <2>1
    <2>3. cov[C] = ColumnOf(RightOf(r)[e])
      <3>1. L \in 1..Len(cs) /\ C <= Len(cov)
        BY <2>1 DEF L, C
      <3>2. e \in 1..3 /\ C = 4 * L - 3 + e
        BY <2>1
      <3>3. ASSUME NEW j \in 1..3, C = 4 * L - 3 + j
            PROVE  cs[L].row # cs[L].col /\ cov[C] = ColumnOf(RightOf(cs[L].row)[j])
        <4>1. CallInv(b, cs, cov, L)
          BY ONLY <3>1, CallsInv(b, cs, st, cov), CallsParts
        <4> QED BY ONLY <3>1, <3>3, <4>1 DEF CallInv
      <3> QED BY <3>2, <3>3
    <2> QED BY <2>1, <2>2, <2>3 DEF L, T, C
  <1>4. CASE /\ L = S + 1 /\ r # c /\ T \in 1..3 /\ C = 4 * S + 1 + T
             /\ \A q \in 1..T : td[q] = ColumnOf(RightOf(r)[T + 1 - q])
    <2>0. L = S + 1 /\ T \in 1..3 /\ C = 4 * S + 1 + T
      BY <1>4
    <2>1. 1 \in 1..T /\ T + 1 - 1 = T /\ C = 4 * L - 3 + T /\ L >= 1 /\ C >= 1 /\ L \in 1..L /\ C <= C /\ T >= 1
      BY ONLY <1>1, <2>0
    <2>2. td[1] = ColumnOf(RightOf(r)[T])
      BY <1>4, <2>1
    <2>3. cov[C] = ColumnOf(RightOf(r)[T])
      <3>1. L \in 1..Len(cs) /\ C <= Len(cov)
        BY <2>1 DEF L, C
      <3>2. CallInv(b, cs, cov, L)
        BY ONLY <3>1, CallsInv(b, cs, st, cov), CallsParts
      <3>3. C = 4 * L - 3 + T /\ T \in 1..3
        BY ONLY <2>0, <2>1
      <3> QED BY ONLY <3>1, <3>2, <3>3 DEF CallInv
    <2> QED BY <2>1, <2>2, <2>3 DEF L, T, C
  <1> QED BY <1>2, <1>3, <1>4 DEF PcInv, L, S, T, C

-----------------------------------------------------------------------------
(* Covering and uncovering, as the calls see it.                            *)

LEMMA FrontFacts ==
  ASSUME NEW S, NEW s \in Seq(S), s # <<>>
  PROVE  /\ Front(s) \in Seq(S) /\ Len(s) \in Nat /\ Len(s) >= 1 /\ Len(Front(s)) = Len(s) - 1
         /\ \A i \in 1..(Len(s) - 1) : Front(s)[i] = s[i]
         /\ s = Append(Front(s), s[Len(s)]) /\ s[Len(s)] \in S
  <1>1. Len(s) \in Nat /\ Len(s) >= 1 /\ Len(s) \in 1..Len(s) /\ s[Len(s)] \in S
    BY LastColumn
  <1>2. \A i \in 1..(Len(s) - 1) : s[i] \in S
    BY <1>1, ElementOfSeq
  <1>3. /\ Front(s) \in Seq(S) /\ Len(Front(s)) = Len(s) - 1
        /\ \A i \in 1..(Len(s) - 1) : Front(s)[i] = s[i]
    <2>1. PICK n \in Int : n = Len(s) - 1
      BY <1>1
    <2>2. /\ SubSeq(s, 1, n) \in Seq(S)
          /\ Len(SubSeq(s, 1, n)) = IF 1 <= n THEN n - 1 + 1 ELSE 0
          /\ \A i \in 1..(n - 1 + 1) : SubSeq(s, 1, n)[i] = s[1 + i - 1]
      BY <1>2, <2>1, SubSeqProperties
    <2>3. Front(s) = SubSeq(s, 1, n)
      BY <2>1 DEF Front
    <2>4. Len(SubSeq(s, 1, n)) = n
      BY <1>1, <2>1, <2>2
    <2>5. \A i \in 1..n : SubSeq(s, 1, n)[i] = s[i]
      BY <2>2
    <2> QED BY <2>1, <2>2, <2>3, <2>4, <2>5
  <1>4. s = Append(Front(s), s[Len(s)])
    <2> DEFINE t == Append(Front(s), s[Len(s)])
    <2>1. /\ t \in Seq(S) /\ Len(t) = Len(s)
          /\ \A i \in 1..(Len(s) - 1) : t[i] = s[i]
          /\ t[Len(s)] = s[Len(s)]
      <3>1. /\ t \in Seq(S) /\ Len(t) = Len(Front(s)) + 1
            /\ \A i \in 1..Len(Front(s)) : t[i] = Front(s)[i]
            /\ t[Len(Front(s)) + 1] = s[Len(s)]
        BY <1>1, <1>3, AppendFacts
      <3> QED BY <1>1, <1>3, <3>1
    <2> HIDE DEF t
    <2>2. \A i \in 1..Len(s) : t[i] = s[i]
      BY <1>1, <2>1
    <2>3. t \in [1..Len(s) -> S] /\ s \in [1..Len(s) -> S]
      BY <2>1, LenProperties
    <2>4. t = s
      BY <2>2, <2>3
    <2> QED BY <2>4 DEF t
  <1> QED BY <1>1, <1>3, <1>4

LEMMA TailFacts ==
  ASSUME NEW S, NEW s \in Seq(S), Len(s) >= 1
  PROVE  /\ Tail(s) \in Seq(S) /\ Len(s) \in Nat /\ Len(Tail(s)) = Len(s) - 1
         /\ \A i \in 1..(Len(s) - 1) : Tail(s)[i] = s[i + 1]
         /\ Tail(s) = <<>> <=> Len(s) = 1
  <1>1. s # <<>> /\ Len(s) \in Nat
    BY EmptySeq
  <1>2. Tail(s) \in Seq(S) /\ Len(Tail(s)) = Len(s) - 1 /\ \A i \in 1..Len(Tail(s)) : Tail(s)[i] = s[i + 1]
    BY <1>1, HeadTailProperties
  <1>3. Tail(s) = <<>> <=> Len(Tail(s)) = 0
    BY <1>2, EmptySeq
  <1> QED BY <1>1, <1>2, <1>3

\* What is covered changes only from the last call on.
LEMMA ChangeCovered ==
  ASSUME NEW b, NEW cs, NEW st, NEW cov, CallsInv(b, cs, st, cov),
         NEW cov2 \in Seq(Columns(b)), Distinct(cov2), Len(cs) >= 1,
         4 * Len(cs) - 4 <= Len(cov), 4 * Len(cs) - 4 <= Len(cov2),
         \A i \in 1..(4 * Len(cs) - 4) : cov2[i] = cov[i], CallInv(b, cs, cov2, Len(cs))
  PROVE  CallsInv(b, cs, st, cov2)
  <1>1. /\ cs \in Seq([col : Columns(b), row : VNodes(b)])
        /\ Len(cs) \in Nat /\ Len(st) \in Nat /\ Len(cov) \in Nat /\ Len(st) <= Len(cs)
        /\ st \in Seq(VNodes(b))
        /\ \A k \in 1..Len(cs) : CallInv(b, cs, cov, k)
        /\ \A k \in 1..Len(st) : st[k] = cs[k].row /\ cs[k].row # cs[k].col
    BY ONLY CallsInv(b, cs, st, cov), CallsTypes
  <1>2. Len(cov2) \in Nat
    BY LenProperties
  <1>3. ASSUME NEW k \in 1..(Len(cs) - 1)
        PROVE  CallInv(b, cs, cov2, k)
    <2>1. Len(cs) \in Nat /\ Len(cov) \in Nat
      BY <1>1
    <2>2. /\ k \in Nat /\ k >= 1 /\ k \in 1..Len(cs)
          /\ 4 * k <= 4 * Len(cs) - 4
          /\ \A i \in 1..(4 * k) : i \in 1..(4 * Len(cs) - 4)
      BY ONLY <2>1, k \in 1..(Len(cs) - 1)
    <2>3. 4 * k <= Len(cov) /\ 4 * k <= Len(cov2)
      BY <1>2, <2>1, <2>2
    <2>4. \A i \in 1..(4 * k) : cov2[i] = cov[i]
      BY <2>2
    <2>5. CallInv(b, cs, cov, k)
      BY <1>1, <2>2
    <2> QED BY <1>2, <2>1, <2>2, <2>3, <2>4, <2>5, CallFrame
  <1>4. \A k \in 1..Len(cs) : k \in 1..(Len(cs) - 1) \/ k = Len(cs)
    <2>1. Len(cs) \in Nat
      BY <1>1
    <2> QED BY ONLY <2>1
  <1>5. \A k \in 1..Len(cs) : CallInv(b, cs, cov2, k)
    BY <1>3, <1>4
  <1> QED BY <1>1, <1>5 DEF CallsInv

LEMMA CoverCalls ==
  ASSUME NEW b, NEW cs, NEW st, NEW td, NEW cov, NEW a,
         CallsInv(b, cs, st, cov), PcInv(cs, st, td, cov, "cover"), WalkInv(b, cs, td, cov, a, "cover"),
         NEW cov2, cov2 = Append(cov, td[1])
  PROVE  CallsInv(b, cs, st, cov2) /\ PcInv(cs, st, td, cov2, "hide")
  <1> DEFINE L == Len(cs)
             S == Len(st)
             T == Len(td)
             C == Len(cov)
             r == cs[L].row
             c == cs[L].col
  <1>1. L \in Nat /\ S \in Nat /\ C \in Nat /\ cov \in Seq(Columns(b)) /\ Distinct(cov)
    BY CallsTypes
  <1>2. td[1] \in Columns(b) /\ td[1] \notin Range(cov)
    BY NextFresh
  <1>3. cov2 \in Seq(Columns(b)) /\ Distinct(cov2)
    BY <1>1, <1>2, HeaderSinceAppend
  <1>4. /\ Len(cov2) = C + 1 /\ cov2[C + 1] = td[1]
        /\ \A i \in 1..C : cov2[i] = cov[i]
    BY <1>1, <1>2, AppendFacts
  <1> HIDE DEF L, S, T, C
  <1>5. CASE L = S + 1 /\ C = 4 * S /\ td = <<c>>
    <2>0. L = S + 1 /\ C = 4 * S
      BY <1>5
    <2>1. /\ L \in 1..L /\ L >= 1 /\ ~(4 * L - 3 <= C) /\ 4 * L - 4 = C /\ 4 * L - 4 <= C + 1
          /\ C + 1 = 4 * L - 3 /\ \A j \in 1..3 : ~(4 * L - 3 + j <= C + 1)
          /\ C + 1 = 4 * S + 1
      BY ONLY <1>1, <2>0
    <2>2. r = c
      BY <2>1, CallRow DEF L, C
    <2>3. td[1] = c /\ r \in Ring(b, c)
      BY <1>5, <2>1, CallsTypes DEF L
    <2>4. CallInv(b, cs, cov2, L)
      BY <1>4, <2>1, <2>2, <2>3 DEF CallInv
    <2>5. CallsInv(b, cs, st, cov2)
      <3>1. /\ Len(cs) >= 1 /\ 4 * Len(cs) - 4 <= Len(cov) /\ 4 * Len(cs) - 4 <= Len(cov2)
            /\ \A i \in 1..(4 * Len(cs) - 4) : cov2[i] = cov[i]
            /\ CallInv(b, cs, cov2, Len(cs))
        BY <1>1, <1>4, <2>1, <2>4 DEF L, C
      <3> QED BY <1>3, <3>1, ChangeCovered
    <2>6. PcInv(cs, st, td, cov2, "hide")
      BY <1>4, <1>5, <2>1 DEF PcInv, L, S, C
    <2> QED BY <2>5, <2>6
  <1>6. CASE /\ S = L /\ L >= 1 /\ T \in 1..3 /\ C = 4 * L - T
             /\ \A q \in 1..T : td[q] = ColumnOf(RightOf(r)[3 - T + q])
    <2>0. S = L /\ L >= 1 /\ T \in 1..3 /\ C = 4 * L - T
      BY <1>6
    <2>e. PICK e : e = 4 - T
      OBVIOUS
    <2>1. /\ L \in 1..L /\ L \in 1..S /\ e \in 1..3 /\ 1 \in 1..T /\ 3 - T + 1 = e
          /\ 4 * L - 4 <= C /\ 4 * L - 4 <= C + 1 /\ 4 * L - 3 \in 1..C /\ 4 * L - 3 <= C + 1
          /\ C + 1 = 4 * L - T + 1
          /\ \A i \in 1..(4 * L - 4) : i \in 1..C
          /\ \A j \in 1..3 : 4 * L - 3 + j <= C + 1 => 4 * L - 3 + j \in 1..C \/ j = e
          /\ 4 * L - 3 + e = C + 1
      BY ONLY <1>1, <2>0, <2>e
    <2>2. r # c
      BY <2>1, CallChosen DEF L, S
    <2>3. /\ r \in Ring(b, c) /\ cov[4 * L - 3] = c
          /\ \A i \in 1..(4 * L - 4) : cov[i] \notin RowColumns(r)
      BY <2>1, <2>2, CallRow DEF L, C
    <2>4. td[1] = ColumnOf(RightOf(r)[e])
      BY <1>6, <2>1
    <2>5. ASSUME NEW j \in 1..3, 4 * L - 3 + j <= C + 1
          PROVE  cov2[4 * L - 3 + j] = ColumnOf(RightOf(r)[j])
      <3>1. CASE j = e
        BY <1>4, <2>1, <2>4, <3>1
      <3>2. CASE 4 * L - 3 + j \in 1..C
        <4>1. L \in 1..Len(cs) /\ 4 * L - 3 + j <= Len(cov)
          BY <2>1, <3>2 DEF L, C
        <4>2. cs[L].row # cs[L].col /\ cov[4 * L - 3 + j] = ColumnOf(RightOf(cs[L].row)[j])
          <5>1. CallInv(b, cs, cov, L)
            BY ONLY <4>1, CallsInv(b, cs, st, cov), CallsParts
          <5> QED BY ONLY <4>1, <5>1, j \in 1..3 DEF CallInv
        <4> QED BY <1>4, <3>2, <4>2
      <3> QED BY <2>1, <2>5, <3>1, <3>2
    <2>6. /\ cov2[4 * L - 3] = c
          /\ \A i \in 1..(4 * L - 4) : cov2[i] \notin RowColumns(r) /\ cov2[i] = cov[i]
      BY <1>4, <2>1, <2>3
    <2>7. CallInv(b, cs, cov2, L)
      BY <1>4, <2>1, <2>2, <2>3, <2>5, <2>6 DEF CallInv
    <2>8. CallsInv(b, cs, st, cov2)
      BY <1>3, <1>4, <2>0, <2>1, <2>6, <2>7, ChangeCovered DEF L, C
    <2>9. PcInv(cs, st, td, cov2, "hide")
      BY <1>4, <1>6, <2>1 DEF PcInv, L, S, C, T
    <2> QED BY <2>8, <2>9
  <1> QED BY <1>5, <1>6 DEF PcInv, L, S, C, T

-----------------------------------------------------------------------------
(* The other steps, as the calls see them.                                  *)

\* After one column of a row comes the next.
LEMMA CoveredCalls ==
  ASSUME NEW b, NEW cs, NEW st, NEW td \in Seq(Columns(b)), NEW cov,
         CallsInv(b, cs, st, cov), PcInv(cs, st, td, cov, "hide"), ~(Len(st) < Len(cs)),
         NEW p2, p2 = IF Tail(td) = <<>> THEN "solve" ELSE "cover"
  PROVE  PcInv(cs, st, Tail(td), cov, p2)
  <1> DEFINE L == Len(cs)
             S == Len(st)
             T == Len(td)
             C == Len(cov)
             r == cs[L].row
  <1>1. L \in Nat /\ S \in Nat /\ C \in Nat
    BY CallsTypes
  <1>2. ~(L = S + 1)
    BY <1>1
  <1>3. /\ S = L /\ L >= 1 /\ T \in 1..3 /\ C = 4 * L - T + 1
        /\ \A q \in 1..T : td[q] = ColumnOf(RightOf(r)[3 - T + q])
    BY <1>2 DEF PcInv
  <1>0. S = L /\ L >= 1 /\ T \in 1..3 /\ C = 4 * L - T + 1
    BY <1>3
  <1>4. /\ Len(Tail(td)) = T - 1 /\ (Tail(td) = <<>> <=> T = 1)
        /\ \A q \in 1..(T - 1) : Tail(td)[q] = td[q + 1]
    <2>1. PICK t : t = T
      OBVIOUS
    <2>2. t \in 1..3
      BY ONLY <1>0, <2>1
    <2>3. t >= 1
      BY ONLY <2>2
    <2>4. Len(td) >= 1
      BY ONLY <2>1, <2>3
    <2> QED BY <2>4, TailFacts
  <1> HIDE DEF L, S, T, C
  <1>5. CASE T = 1
    <2>1. C = 4 * L /\ T - 1 = 0
      BY ONLY <1>0, <1>1, <1>5
    <2> QED BY <1>0, <1>4, <1>5, <2>1 DEF PcInv, L, S, C
  <1>6. CASE T # 1
    <2>1. /\ T - 1 \in 1..3 /\ C = 4 * L - (T - 1) + 0
          /\ \A q \in 1..(T - 1) : q + 1 \in 1..T /\ 3 - T + (q + 1) = 3 - (T - 1) + q
      BY ONLY <1>0, <1>1, <1>6
    <2>2. \A q \in 1..(T - 1) : Tail(td)[q] = ColumnOf(RightOf(r)[3 - (T - 1) + q])
      BY <1>3, <1>4, <2>1
    <2>3. PICK n : n = T - 1
      OBVIOUS
    <2>4. /\ Len(Tail(td)) = n /\ n \in 1..3 /\ C = 4 * L - n + 0
          /\ \A q \in 1..n : Tail(td)[q] = ColumnOf(RightOf(r)[3 - n + q])
      BY <1>4, <2>1, <2>2, <2>3
    <2>5. p2 = "cover"
      BY <1>4, <1>6
    <2> QED BY <1>0, <2>4, <2>5 DEF PcInv, L, S, C
  <1> QED BY <1>5, <1>6

\* A row of col is taken up that clashes with no chosen row.
LEMMA RowCalls ==
  ASSUME NEW b, NEW cs, NEW st, NEW cov, CallsInv(b, cs, st, cov),
         Len(cs) = Len(st) + 1, Len(cov) = 4 * Len(st) + 1,
         NEW n \in Ring(b, cs[Len(cs)].col),
         n # cs[Len(cs)].col => \A i \in 1..(Len(cov) - 1) : cov[i] \notin RowColumns(n),
         NEW cs2, Replaced(b, cs, cs2, [col |-> cs[Len(cs)].col, row |-> n]),
         NEW td, Len(td) = 0
  PROVE  CallsInv(b, cs2, st, cov) /\ PcInv(cs2, st, td, cov, "row")
  <1> DEFINE L == Len(cs)
             c == cs[L].col
             x == [col |-> c, row |-> n]
  <1>1. /\ L \in Nat /\ Len(st) \in Nat /\ Len(cov) \in Nat
        /\ cs \in Seq([col : Columns(b), row : VNodes(b)])
    BY ONLY CallsInv(b, cs, st, cov), CallsTypes
  <1>2. L \in 1..L /\ 4 * L - 3 = Len(cov) /\ 4 * L - 4 <= Len(cov) /\ Len(st) < L
    BY ONLY <1>1, Len(cs) = Len(st) + 1, Len(cov) = 4 * Len(st) + 1
  <1>3. c \in Columns(b)
    BY ONLY CallsInv(b, cs, st, cov), <1>2, CallsTypes
  <1>4. Replaced(b, cs, cs2, x)
    OBVIOUS
  <1>6. cs2[L] = x /\ x.col = c /\ x.row = n /\ Len(cs2) = L
    BY <1>4 DEF Replaced
  <1> HIDE DEF x
  <1>7. cov[4 * L - 3] = c
    <2>1. CallInv(b, cs, cov, L) /\ 4 * L - 3 <= Len(cov)
      BY <1>1, <1>2, CallsTypes
    <2> QED BY <2>1 DEF CallInv
  <1>8. CallInv(b, cs2, cov, L)
    <2>0. L \in Nat /\ Len(cov) \in Nat /\ 4 * L - 3 = Len(cov)
      BY <1>1, <1>2
    <2>1. /\ \A j \in 1..3 : ~(4 * L - 3 + j <= Len(cov))
          /\ 4 * L - 3 <= Len(cov) /\ 4 * L - 4 = Len(cov) - 1
      BY ONLY <2>0
    <2>2. n # c => \A i \in 1..(4 * L - 4) : cov[i] \notin RowColumns(n)
      BY <2>1
    <2> QED BY <1>6, <1>7, <2>1, <2>2 DEF CallInv
  <1>9. CallsInv(b, cs2, st, cov)
    <2>1. Len(st) < Len(cs) /\ 4 * Len(cs) - 4 <= Len(cov) /\ CallInv(b, cs2, cov, Len(cs))
      BY <1>2, <1>8
    <2> QED BY <1>4, <2>1, ReplaceCall
  <1> QED BY <1>6, <1>9 DEF PcInv

LEMMA RowFresh ==
  ASSUME NEW b, NEW cov \in Seq(Columns(b)), Distinct(cov), cov # <<>>, NEW l, NEW a, NEW p,
         LinksInv(b, l, cov, a, p), NEW m \in Ring(b, cov[Len(cov)]), NodeSince(b, cov, a, p)[m] = 0
  PROVE  LET n == l.down[m]
         IN  /\ n \in Ring(b, cov[Len(cov)]) /\ NodeSince(b, cov, a, p)[n] = 0
             /\ n # cov[Len(cov)] => \A i \in 1..(Len(cov) - 1) : cov[i] \notin RowColumns(n)
  <1> DEFINE n == l.down[m]
             c == cov[Len(cov)]
  <1>1. c \in Columns(b) /\ Len(cov) \in Nat
    BY LastColumn
  <1>2. n \in Ring(b, c) /\ NodeSince(b, cov, a, p)[n] = 0
    BY <1>1, Neighbours DEF LinksInv
  <1> HIDE DEF n
  <1>3. ASSUME n # c, NEW i \in 1..(Len(cov) - 1)
        PROVE  cov[i] \notin RowColumns(n)
    <2>1. Hits(cov, n) # {} /\ FirstHit(cov, n) = Len(cov)
      BY <1>2, <1>3, RowAt
    <2>2. i \in 1..Len(cov) /\ ~(Len(cov) <= i)
      BY <1>1
    <2> QED BY <1>1, <2>1, <2>2, FirstHitFacts
  <1> QED BY <1>2, <1>3 DEF n

\* The row of a call is still linked in its column when nothing but col is covered after it.
LEMMA RowLinked ==
  ASSUME NEW b, NEW cov \in Seq(Columns(b)), NEW n \in Nds(b), NEW i \in 1..Len(cov),
         cov[i] = ColumnOf(n), \A j \in 1..(i - 1) : cov[j] \notin RowColumns(n), NEW a, NEW p
  PROVE  NodeSince(b, cov, a, p)[n] = 0
  <1>1. Len(cov) \in Nat /\ ColumnOf(n) \in RowColumns(n)
    BY LenProperties, NodeFacts
  <1>2. ASSUME NEW j \in 1..Len(cov), cov[j] \in RowColumns(n)
        PROVE  i <= j
    <2>1. ~(j \in 1..(i - 1))
      BY <1>2
    <2> QED BY <1>1, <2>1
  <1>3. Hits(cov, n) # {} /\ FirstHit(cov, n) = i
    BY <1>1, <1>2, FirstHitIs
  <1> QED BY <1>3, SinceFacts

LEMMA OwnColumn ==
  ASSUME NEW b, NEW n \in Nds(b)
  PROVE  ColumnOf(n) \in Columns(b)
  BY NodeFacts

LEMMA TryCalls ==
  ASSUME NEW b, NEW cs, NEW st, NEW td, NEW cov, CallsInv(b, cs, st, cov),
         PcInv(cs, st, td, cov, "row"), cs[Len(cs)].row # cs[Len(cs)].col,
         NEW st2, st2 = Append(st, cs[Len(cs)].row),
         NEW td2, td2 = ColumnsOf(RightOf(cs[Len(cs)].row))
  PROVE  CallsInv(b, cs, st2, cov) /\ PcInv(cs, st2, td2, cov, "cover") /\ td2 \in Seq(Columns(b))
  <1> DEFINE L == Len(cs)
             S == Len(st)
             C == Len(cov)
             r == cs[L].row
  <1>1. /\ L \in Nat /\ S \in Nat /\ C \in Nat /\ st \in Seq(VNodes(b))
        /\ L = S + 1 /\ C = 4 * S + 1
    BY CallsTypes DEF PcInv
  <1>2. L \in 1..L /\ L >= 1 /\ C = 4 * L - 3 + 0
    BY ONLY <1>1
  <1>3. r \in VNodes(b) /\ r \in Nds(b)
    BY <1>2, CallsTypes, CallRow
  <1>4. /\ st2 \in Seq(VNodes(b)) /\ Len(st2) = S + 1 /\ st2[S + 1] = r
        /\ \A k \in 1..S : st2[k] = st[k]
        /\ \A k \in 1..(S + 1) : k \in 1..S \/ k = S + 1
    BY <1>1, <1>3, AppendFacts
  <1>5. CallsInv(b, cs, st2, cov)
    <2>1. \A k \in 1..S : st[k] = cs[k].row /\ cs[k].row # cs[k].col
      BY ONLY CallsInv(b, cs, st, cov) DEF CallsInv
    <2>2. \A k \in 1..Len(st2) : st2[k] = cs[k].row /\ cs[k].row # cs[k].col
      BY <1>1, <1>4, <2>1
    <2>3. Len(st2) <= Len(cs)
      BY <1>1, <1>4
    <2> QED BY <1>4, <2>2, <2>3 DEF CallsInv
  <1>6. /\ DOMAIN RightOf(r) = 1..3
        /\ \A j \in 1..3 : ColumnOf(RightOf(r)[j]) \in Columns(b)
    <2>1. DOMAIN RightOf(r) = 1..3 /\ \A j \in 1..3 : RightOf(r)[j] \in Nds(b)
      BY <1>3, RightFacts
    <2> QED BY <2>1, OwnColumn
  <1>7. td2 = [j \in 1..3 |-> ColumnOf(RightOf(r)[j])]
    BY <1>6 DEF ColumnsOf
  <1>8. td2 \in Seq(Columns(b)) /\ Len(td2) = 3
    BY <1>6, <1>7
  <1>9. PcInv(cs, st2, td2, cov, "cover")
    <2>1. \A q \in 1..3 : td2[q] = ColumnOf(RightOf(r)[3 - 3 + q])
      BY <1>7
    <2>2. Len(td2) \in 1..3 /\ C = 4 * L - Len(td2) + 0 /\ Len(st2) = L
      <3>1. Len(td2) = 3 /\ Len(st2) = S + 1
        BY <1>4, <1>8
      <3> QED BY ONLY <1>1, <1>2, <3>1
    <2>3. \A q \in 1..Len(td2) : td2[q] = ColumnOf(RightOf(r)[3 - Len(td2) + q])
      BY <1>8, <2>1
    <2> QED BY <1>2, <2>2, <2>3 DEF PcInv
  <1> QED BY <1>5, <1>8, <1>9

LEMMA UndoCalls ==
  ASSUME NEW b, NEW cs, NEW st, NEW td, NEW cov, CallsInv(b, cs, st, cov),
         PcInv(cs, st, td, cov, "failed"),
         NEW st2, st2 = Front(st), NEW td2, td2 = ColumnsOf(LeftOf(cs[Len(cs)].row))
  PROVE  /\ CallsInv(b, cs, st2, cov) /\ PcInv(cs, st2, td2, cov, "uncover")
         /\ td2 \in Seq(Columns(b)) /\ Len(st2) = Len(st) - 1
  <1> DEFINE L == Len(cs)
             S == Len(st)
             C == Len(cov)
             r == cs[L].row
             c == cs[L].col
  <1>1. /\ L \in Nat /\ S \in Nat /\ C \in Nat /\ st \in Seq(VNodes(b))
        /\ S = L /\ L >= 1 /\ C = 4 * L
    BY CallsTypes DEF PcInv
  <1>2. L \in 1..L /\ L \in 1..S /\ L = S - 1 + 1 /\ C = 4 * (S - 1) + 1 + 3 /\ S - 1 <= L
    BY ONLY <1>1
  <1>3. r # c
    BY <1>2, CallChosen
  <1>4. r \in Nds(b)
    BY <1>2, <1>3, CallRow
  <1>5. /\ st2 \in Seq(VNodes(b)) /\ Len(st2) = S - 1
        /\ \A k \in 1..(S - 1) : st2[k] = st[k] /\ k \in 1..S
    <2>1. st # <<>>
      BY <1>1, EmptySeq
    <2> QED BY <1>1, <2>1, FrontFacts
  <1>6. CallsInv(b, cs, st2, cov)
    <2>1. \A k \in 1..S : st[k] = cs[k].row /\ cs[k].row # cs[k].col
      BY ONLY CallsInv(b, cs, st, cov) DEF CallsInv
    <2>2. \A k \in 1..Len(st2) : st2[k] = cs[k].row /\ cs[k].row # cs[k].col
      BY <1>5, <2>1
    <2>3. Len(st2) <= Len(cs)
      BY <1>2, <1>5
    <2> QED BY <1>5, <2>2, <2>3 DEF CallsInv
  <1>7. \A j \in 1..3 : ColumnOf(RightOf(r)[j]) \in Columns(b)
    <2>1. \A j \in 1..3 : RightOf(r)[j] \in Nds(b)
      BY <1>4, RightFacts
    <2> QED BY <2>1, OwnColumn
  <1>8. td2 = [j \in 1..3 |-> ColumnOf(RightOf(r)[4 - j])]
    BY DEF ColumnsOf, LeftOf
  <1>9. td2 \in Seq(Columns(b)) /\ Len(td2) = 3
    BY <1>7, <1>8
  <1>10. PcInv(cs, st2, td2, cov, "uncover")
    <2>1. \A q \in 1..3 : td2[q] = ColumnOf(RightOf(r)[3 + 1 - q])
      BY <1>8
    <2>2. Len(td2) \in 1..3 /\ C = 4 * Len(st2) + 1 + Len(td2) /\ L = Len(st2) + 1
      <3>1. Len(td2) = 3 /\ Len(st2) = S - 1
        BY <1>5, <1>9
      <3> QED BY ONLY <1>1, <1>2, <3>1
    <2>3. \A q \in 1..Len(td2) : td2[q] = ColumnOf(RightOf(r)[Len(td2) + 1 - q])
      BY <1>9, <2>1
    <2> QED BY <1>3, <2>2, <2>3 DEF PcInv
  <1> QED BY <1>5, <1>6, <1>9, <1>10

-----------------------------------------------------------------------------
(* A column is uncovered, as the calls see it.                              *)

LEMMA DistinctFront ==
  ASSUME NEW S, NEW s \in Seq(S), s # <<>>, Distinct(s)
  PROVE  Distinct(Front(s)) /\ s[Len(s)] \notin Range(Front(s))
  <1>1. /\ Front(s) \in Seq(S) /\ Len(s) \in Nat /\ Len(s) >= 1 /\ Len(Front(s)) = Len(s) - 1
        /\ \A i \in 1..(Len(s) - 1) : Front(s)[i] = s[i]
    BY FrontFacts
  <1>2. /\ \A i \in 1..(Len(s) - 1) : i \in 1..Len(s) /\ i # Len(s)
        /\ Len(s) \in 1..Len(s)
    BY <1>1
  <1>3. Distinct(Front(s))
    BY <1>1, <1>2 DEF Distinct
  <1>4. \A i \in 1..(Len(s) - 1) : Front(s)[i] # s[Len(s)]
    BY <1>1, <1>2 DEF Distinct
  <1>5. DOMAIN Front(s) = 1..(Len(s) - 1)
    BY <1>1, LenProperties
  <1> QED BY <1>3, <1>4, <1>5 DEF Range

LEMMA ShowCalls ==
  ASSUME NEW b, NEW cs, NEW st, NEW td \in Seq(Columns(b)), NEW cov,
         CallsInv(b, cs, st, cov), PcInv(cs, st, td, cov, "show"),
         cs[Len(cs)].row # cs[Len(cs)].col
  PROVE  /\ CallsInv(b, cs, st, Front(cov)) /\ Len(cs) = Len(st) + 1
         /\ Tail(td) # <<>> => PcInv(cs, st, Tail(td), Front(cov), "uncover")
         /\ Tail(td) = <<>> => Len(Front(cov)) = 4 * Len(st) + 1
  <1> DEFINE L == Len(cs)
             S == Len(st)
             T == Len(td)
             C == Len(cov)
             cov2 == Front(cov)
             r == cs[L].row
             c == cs[L].col
  <1>1. L \in Nat /\ S \in Nat /\ C \in Nat /\ cov \in Seq(Columns(b)) /\ Distinct(cov)
    BY ONLY CallsInv(b, cs, st, cov), CallsTypes
  <1>2. /\ L = S + 1 /\ r # c /\ T \in 1..3 /\ C = 4 * S + 1 + T
        /\ \A q \in 1..T : td[q] = ColumnOf(RightOf(r)[T + 1 - q])
    BY DEF PcInv
  <1>0. L = S + 1 /\ T \in 1..3 /\ C = 4 * S + 1 + T
    BY <1>2
  <1>3. /\ Len(Tail(td)) = T - 1 /\ (Tail(td) = <<>> <=> T = 1)
        /\ \A q \in 1..(T - 1) : Tail(td)[q] = td[q + 1]
    <2>1. \A x \in 1..3 : x >= 1
      OBVIOUS
    <2>2. T >= 1
      BY ONLY <1>0, <2>1
    <2> QED BY <2>2, TailFacts
  <1>4. cov # <<>>
    BY ONLY CallsInv(b, cs, st, cov), PcInv(cs, st, td, cov, "show"), LastCovered
  <1>5. /\ cov2 \in Seq(Columns(b)) /\ Len(cov2) = C - 1
        /\ \A i \in 1..(C - 1) : cov2[i] = cov[i]
    BY ONLY <1>1, <1>4, FrontFacts
  <1>6. Distinct(cov2)
    BY ONLY <1>1, <1>4, DistinctFront
  <1>7. CallInv(b, cs, cov, L)
    <2>1. L \in 1..L
      BY ONLY <1>0, <1>1
    <2> QED BY ONLY <2>1, CallsInv(b, cs, st, cov), CallsTypes
  <1> HIDE DEF L, S, T, C, cov2
  <1>8. /\ 4 * L - 3 \in 1..(C - 1) /\ 4 * L - 3 <= C /\ 4 * L - 3 <= C - 1
        /\ \A j \in 1..3 : 4 * L - 3 + j <= C - 1 => 4 * L - 3 + j <= C /\ 4 * L - 3 + j \in 1..(C - 1)
        /\ \A i \in 1..(4 * L - 4) : i \in 1..(C - 1)
        /\ L >= 1 /\ 4 * L - 4 <= C /\ 4 * L - 4 <= C - 1
    BY ONLY <1>0, <1>1
  <1>9. CallInv(b, cs, cov2, L)
    <2>1. /\ r \in Ring(b, c) /\ cov2[4 * L - 3] = c
          /\ \A i \in 1..(4 * L - 4) : cov2[i] \notin RowColumns(r)
      BY <1>2, <1>5, <1>7, <1>8 DEF CallInv, C
    <2>2. \A j \in 1..3 : 4 * L - 3 + j <= C - 1 => cov2[4 * L - 3 + j] = ColumnOf(RightOf(r)[j])
      BY <1>5, <1>7, <1>8 DEF CallInv, C
    <2> QED BY <1>2, <1>5, <1>8, <2>1, <2>2 DEF CallInv
  <1>10. CallsInv(b, cs, st, cov2)
    <2>1. /\ Len(cs) >= 1 /\ 4 * Len(cs) - 4 <= Len(cov) /\ 4 * Len(cs) - 4 <= Len(cov2)
          /\ \A i \in 1..(4 * Len(cs) - 4) : cov2[i] = cov[i]
          /\ CallInv(b, cs, cov2, Len(cs))
      BY <1>5, <1>8, <1>9 DEF L, C
    <2> QED BY ONLY <1>5, <1>6, <2>1, CallsInv(b, cs, st, cov), ChangeCovered
  <1>11. ASSUME Tail(td) # <<>>
         PROVE  PcInv(cs, st, Tail(td), cov2, "uncover")
    <2>0. T # 1
      BY <1>3, <1>11
    <2>1. PICK n : n = T - 1
      OBVIOUS
    <2>2. /\ n \in 1..3 /\ C - 1 = 4 * S + 1 + n
          /\ \A q \in 1..n : q \in 1..(T - 1) /\ q + 1 \in 1..T /\ T + 1 - (q + 1) = n + 1 - q
      BY ONLY <1>0, <1>1, <2>0, <2>1
    <2>3. \A q \in 1..n : Tail(td)[q] = ColumnOf(RightOf(r)[n + 1 - q])
      <3>1. ASSUME NEW q \in 1..n
            PROVE  Tail(td)[q] = ColumnOf(RightOf(r)[n + 1 - q])
        <4>1. q \in 1..(T - 1) /\ q + 1 \in 1..T /\ T + 1 - (q + 1) = n + 1 - q
          BY <2>2
        <4>2. Tail(td)[q] = td[q + 1]
          BY <1>3, <4>1
        <4>3. td[q + 1] = ColumnOf(RightOf(r)[T + 1 - (q + 1)])
          BY <1>2, <4>1
        <4> QED BY <4>1, <4>2, <4>3
      <3> QED BY <3>1
    <2>4. Len(Tail(td)) = n /\ Len(cov2) = 4 * S + 1 + n /\ L = S + 1 /\ r # c
      BY <1>2, <1>3, <1>5, <2>1, <2>2
    <2> QED BY <2>2, <2>3, <2>4 DEF PcInv, L, S
  <1>12. ASSUME Tail(td) = <<>>
         PROVE  Len(cov2) = 4 * S + 1
    <2>1. T = 1
      BY <1>3, <1>12
    <2>2. C - 1 = 4 * S + 1
      BY ONLY <1>0, <1>1, <2>1
    <2> QED BY <1>5, <2>2
  <1> QED BY <1>0, <1>10, <1>11, <1>12 DEF L, S, cov2

\* The call returns.
LEMMA ReturnCalls ==
  ASSUME NEW b, NEW cs, NEW st, NEW td \in Seq(Columns(b)), NEW cov,
         CallsInv(b, cs, st, cov), PcInv(cs, st, td, cov, "show"),
         cs[Len(cs)].row = cs[Len(cs)].col
  PROVE  /\ Tail(td) = <<>> /\ Len(cs) >= 1 /\ cs # <<>> /\ Len(Front(cs)) = Len(cs) - 1 /\ Len(st) = Len(cs) - 1
         /\ \A k \in 1..(Len(cs) - 1) : Front(cs)[k] = cs[k]
         /\ CallsInv(b, Front(cs), st, Front(cov))
         /\ Front(cs) # <<>> => PcInv(Front(cs), st, Tail(td), Front(cov), "failed")
  <1> DEFINE L == Len(cs)
             S == Len(st)
             C == Len(cov)
             cov2 == Front(cov)
             cs2 == Front(cs)
  <1>1. /\ L \in Nat /\ S \in Nat /\ C \in Nat /\ cov \in Seq(Columns(b)) /\ Distinct(cov)
        /\ cs \in Seq([col : Columns(b), row : VNodes(b)]) /\ st \in Seq(VNodes(b))
    BY ONLY CallsInv(b, cs, st, cov), CallsTypes
  <1>2. L = S + 1 /\ C = 4 * S + 1 /\ td = <<cs[L].col>>
    BY DEF PcInv
  <1>3. Tail(td) = <<>> /\ Len(Tail(td)) = 0
    <2>1. Len(td) >= 1 /\ Len(td) = 1
      BY <1>2
    <2>2. Tail(td) = <<>>
      BY ONLY td \in Seq(Columns(b)), <2>1, TailFacts
    <2> QED BY <2>2
  <1>0. L = S + 1 /\ C = 4 * S + 1
    BY <1>2
  <1>4. cov # <<>>
    BY ONLY CallsInv(b, cs, st, cov), PcInv(cs, st, td, cov, "show"), LastCovered
  <1>5. /\ cov2 \in Seq(Columns(b)) /\ Len(cov2) = C - 1
        /\ \A i \in 1..(C - 1) : cov2[i] = cov[i]
    BY ONLY <1>1, <1>4, FrontFacts
  <1>6. Distinct(cov2)
    BY ONLY <1>1, <1>4, DistinctFront
  <1>7. cs # <<>> /\ L >= 1
    BY <1>0, <1>1, EmptySeq
  <1>8. /\ cs2 \in Seq([col : Columns(b), row : VNodes(b)]) /\ Len(cs2) = L - 1
        /\ \A k \in 1..(L - 1) : cs2[k] = cs[k]
    BY ONLY <1>1, <1>7, FrontFacts
  <1>9. /\ \A k \in 1..L : CallInv(b, cs, cov, k)
        /\ \A k \in 1..S : st[k] = cs[k].row /\ cs[k].row # cs[k].col
    BY ONLY CallsInv(b, cs, st, cov) DEF CallsInv
  <1> HIDE DEF L, S, C, cov2, cs2
  <1>10. ASSUME NEW k \in 1..(L - 1)
         PROVE  CallInv(b, cs2, cov2, k)
    <2>1. /\ k \in Nat /\ k >= 1 /\ k \in 1..L /\ 4 * k <= C /\ 4 * k <= C - 1 /\ C - 1 \in Nat
          /\ \A i \in 1..(4 * k) : i \in 1..(C - 1)
      BY ONLY <1>0, <1>1, k \in 1..(L - 1)
    <2>2. CallInv(b, cs, cov, k) /\ cs2[k] = cs[k] /\ \A i \in 1..(4 * k) : cov2[i] = cov[i]
      BY <1>5, <1>8, <1>9, <2>1
    <2>3. Len(cov) \in Nat /\ Len(cov2) \in Nat /\ 4 * k <= Len(cov) /\ 4 * k <= Len(cov2)
      BY <1>1, <1>5, <2>1 DEF C
    <2> QED BY <2>1, <2>2, <2>3, CallFrame
  <1>11. CallsInv(b, cs2, st, cov2)
    <2>1. L - 1 = S
      BY ONLY <1>0, <1>1
    <2>2. \A k \in 1..Len(cs2) : CallInv(b, cs2, cov2, k)
      BY <1>8, <1>10
    <2>3. \A k \in 1..Len(st) : st[k] = cs2[k].row /\ cs2[k].row # cs2[k].col
      BY <1>8, <1>9, <2>1 DEF S
    <2>4. Len(st) <= Len(cs2)
      BY <1>1, <1>8, <2>1 DEF S
    <2> QED BY <1>1, <1>5, <1>6, <1>8, <2>2, <2>3, <2>4 DEF CallsInv
  <1>12. ASSUME cs2 # <<>>
         PROVE  PcInv(cs2, st, Tail(td), cov2, "failed")
    <2>1. Len(cs2) >= 1
      BY ONLY <1>8, cs2 # <<>>, EmptySeq
    <2>2. C - 1 = 4 * (L - 1) /\ S = L - 1
      BY ONLY <1>0, <1>1
    <2> QED BY <1>3, <1>5, <1>8, <2>1, <2>2 DEF PcInv, S
  <1>13. S = L - 1
    BY ONLY <1>0, <1>1
  <1> QED BY <1>3, <1>7, <1>8, <1>11, <1>12, <1>13 DEF L, S, cs2, cov2

-----------------------------------------------------------------------------
(* The steps of solve(), one after the other.                               *)

LEMMA RunConstruct ==
  ASSUME NEW b, NEW a
  PROVE  Running(b, Built(b), <<>>, <<>>, <<>>, <<>>, a, "solve")
  <1> DEFINE e == <<>>
  <1>1. /\ e \in Seq(Columns(b)) /\ e \in Seq(VNodes(b))
        /\ e \in Seq([col : Columns(b), row : VNodes(b)]) /\ Len(e) = 0
    BY EmptySeq
  <1> HIDE DEF e
  <1>2. LinksInv(b, Built(b), e, a, "solve")
    BY <1>1, ConstructKeeps
  <1>3. CallsInv(b, e, e, e)
    BY <1>1 DEF CallsInv, Distinct
  <1>4. PcInv(e, e, e, e, "solve")
    BY <1>1 DEF PcInv
  <1>5. WalkInv(b, e, e, e, a, "solve")
    BY <1>1 DEF WalkInv
  <1> QED BY <1>2, <1>3, <1>4, <1>5 DEF Running, e

LEMMA Singleton ==
  ASSUME NEW S, NEW c \in S
  PROVE  <<c>> \in Seq(S) /\ Len(<<c>>) = 1 /\ <<c>>[1] = c
  OBVIOUS

LEMMA RunChoose ==
  ASSUME NEW b, NEW l, NEW cs, NEW st, NEW td, NEW cov, NEW a,
         Running(b, l, cs, st, td, cov, a, "solve"), l.left[root_] # root_,
         NEW c, c = l.right[root_], NEW cs2, Pushed(b, cs, cs2, [col |-> c, row |-> c]),
         NEW p2 \in {"min", "cover"}
  PROVE  Running(b, l, cs2, st, <<c>>, cov, l.right[c], p2)
  <1>1. /\ LinksInv(b, l, cov, a, "solve") /\ CallsInv(b, cs, st, cov)
        /\ PcInv(cs, st, td, cov, "solve")
    BY DEF Running
  <1>2. /\ Len(cs) \in Nat /\ Len(st) \in Nat /\ Len(cov) \in Nat
        /\ cov \in Seq(Columns(b)) /\ Distinct(cov)
    BY <1>1, CallsTypes
  <1>3. Len(st) = Len(cs) /\ Len(cov) = 4 * Len(cs)
    BY <1>1 DEF PcInv
  <1>4. c \in Columns(b) /\ c \notin Range(cov)
    BY <1>1, <1>2, HeaderRoot
  <1>5. /\ CallsInv(b, cs2, st, cov) /\ Len(cs2) = Len(cs) + 1
        /\ cs2[Len(cs2)] = [col |-> c, row |-> c]
    <2>1. CallsInv(b, cs2, st, cov)
      BY <1>1, <1>3, <1>4, PushCall
    <2> QED BY <2>1 DEF Pushed
  <1>6. c \in Header(b) /\ HeaderSince(b, cov)[c] = 0
    <2>1. c \in Header(b)
      BY <1>4 DEF Header
    <2> QED BY <1>2, <1>4, <2>1, HeaderSinceFacts
  <1>7. l.right[c] \in Header(b) /\ HeaderSince(b, cov)[l.right[c]] = 0
    BY ONLY <1>1, <1>2, <1>6, HeaderNext
  <1>8. LinksInv(b, l, cov, l.right[c], p2)
    BY <1>1, <1>2, QuietKeeps
  <1>9. PcInv(cs2, st, <<c>>, cov, p2)
    <2>1. cs2[Len(cs2)].col = c /\ Len(cs2) = Len(st) + 1 /\ Len(cov) = 4 * Len(st)
      BY <1>2, <1>3, <1>5
    <2> QED BY <2>1 DEF PcInv
  <1>10. WalkInv(b, cs2, <<c>>, cov, l.right[c], p2)
    <2>1. cs2[Len(cs2)].col = c
      BY <1>5
    <2>2. <<c>> \in Seq(Columns(b))
      BY <1>4, Singleton
    <2> QED BY <1>4, <1>7, <2>1, <2>2 DEF WalkInv
  <1> QED BY <1>5, <1>8, <1>9, <1>10 DEF Running

LEMMA RunSmaller ==
  ASSUME NEW b, NEW l, NEW cs, NEW st, NEW td, NEW cov, NEW a,
         Running(b, l, cs, st, td, cov, a, "min"), a # root_,
         NEW cs2, Replaced(b, cs, cs2, [col |-> a, row |-> a]),
         NEW p2 \in {"min", "cover"}
  PROVE  Running(b, l, cs2, st, <<a>>, cov, l.right[a], p2)
  <1>1. /\ LinksInv(b, l, cov, a, "min") /\ CallsInv(b, cs, st, cov)
        /\ PcInv(cs, st, td, cov, "min") /\ WalkInv(b, cs, td, cov, a, "min")
    BY DEF Running
  <1>2. /\ Len(cs) \in Nat /\ Len(st) \in Nat /\ Len(cov) \in Nat
        /\ cov \in Seq(Columns(b)) /\ Distinct(cov)
    BY <1>1, CallsTypes
  <1>3. Len(cs) = Len(st) + 1 /\ Len(cov) = 4 * Len(st)
    BY <1>1 DEF PcInv
  <1>4. a \in Header(b) /\ HeaderSince(b, cov)[a] = 0
    BY <1>1 DEF WalkInv
  <1>5. a \in Columns(b) /\ a \notin Range(cov)
    BY <1>2, <1>4, HeaderColumn
  <1>6. cs2[Len(cs)] = [col |-> a, row |-> a] /\ Len(cs2) = Len(cs)
    BY DEF Replaced
  <1>7. /\ Len(cs) >= 1 /\ Len(cov) <= 4 * Len(cs) - 4 /\ 4 * Len(cs) - 4 <= Len(cov)
        /\ Len(st) < Len(cs)
    BY <1>2, <1>3
  <1>8. CallInv(b, cs2, cov, Len(cs))
    BY <1>2, <1>5, <1>6, <1>7, FreshCall
  <1>9. CallsInv(b, cs2, st, cov)
    BY <1>1, <1>7, <1>8, ReplaceCall
  <1>10. l.right[a] \in Header(b) /\ HeaderSince(b, cov)[l.right[a]] = 0
    BY <1>1, <1>2, <1>4, HeaderNext
  <1>11. LinksInv(b, l, cov, l.right[a], p2)
    BY <1>1, <1>2, QuietKeeps
  <1>12. cs2[Len(cs2)].col = a
    BY <1>6
  <1>13. PcInv(cs2, st, <<a>>, cov, p2)
    BY <1>3, <1>6, <1>12 DEF PcInv
  <1>14. WalkInv(b, cs2, <<a>>, cov, l.right[a], p2)
    <2>1. <<a>> \in Seq(Columns(b))
      BY <1>5, Singleton
    <2> QED BY <1>5, <1>10, <1>12, <2>1 DEF WalkInv
  <1> QED BY <1>9, <1>11, <1>13, <1>14 DEF Running

LEMMA RunNotSmaller ==
  ASSUME NEW b, NEW l, NEW cs, NEW st, NEW td, NEW cov, NEW a,
         Running(b, l, cs, st, td, cov, a, "min")
  PROVE  Running(b, l, cs, st, td, cov, l.right[a], "min")
  <1>1. /\ LinksInv(b, l, cov, a, "min") /\ CallsInv(b, cs, st, cov)
        /\ PcInv(cs, st, td, cov, "min") /\ WalkInv(b, cs, td, cov, a, "min")
    BY DEF Running
  <1>2. cov \in Seq(Columns(b)) /\ Distinct(cov)
    BY <1>1, CallsTypes
  <1>3. a \in Header(b) /\ HeaderSince(b, cov)[a] = 0
    BY <1>1 DEF WalkInv
  <1>4. l.right[a] \in Header(b) /\ HeaderSince(b, cov)[l.right[a]] = 0
    BY <1>1, <1>2, <1>3, HeaderNext
  <1>5. LinksInv(b, l, cov, l.right[a], "min")
    BY <1>1, <1>2, QuietKeeps
  <1>6. WalkInv(b, cs, td, cov, l.right[a], "min")
    BY <1>1, <1>4 DEF WalkInv
  <1> QED BY <1>1, <1>5, <1>6 DEF Running

LEMMA RunMinFound ==
  ASSUME NEW b, NEW l, NEW cs, NEW st, NEW td, NEW cov, NEW a,
         Running(b, l, cs, st, td, cov, a, "min")
  PROVE  Running(b, l, cs, st, td, cov, a, "cover")
  <1>1. /\ LinksInv(b, l, cov, a, "min") /\ CallsInv(b, cs, st, cov)
        /\ PcInv(cs, st, td, cov, "min") /\ WalkInv(b, cs, td, cov, a, "min")
    BY DEF Running
  <1>2. cov \in Seq(Columns(b))
    BY <1>1, CallsTypes
  <1>3. LinksInv(b, l, cov, a, "cover")
    BY <1>1, <1>2, QuietKeeps
  <1>4. PcInv(cs, st, td, cov, "cover")
    BY <1>1 DEF PcInv
  <1>5. WalkInv(b, cs, td, cov, a, "cover")
    BY <1>1 DEF WalkInv
  <1> QED BY <1>1, <1>3, <1>4, <1>5 DEF Running

LEMMA RunCover ==
  ASSUME NEW b, NEW l, NEW cs, NEW st, NEW td, NEW cov, NEW a,
         Running(b, l, cs, st, td, cov, a, "cover"), NEW c, c = td[1]
  PROVE  Running(b, UnlinkColumn(l, c), cs, st, td, Append(cov, c), l.down[c], "hide")
  <1>1. /\ LinksInv(b, l, cov, a, "cover") /\ CallsInv(b, cs, st, cov)
        /\ PcInv(cs, st, td, cov, "cover") /\ WalkInv(b, cs, td, cov, a, "cover")
    BY DEF Running
  <1>2. cov \in Seq(Columns(b)) /\ Distinct(cov)
    BY <1>1, CallsTypes
  <1>3. c \in Columns(b) /\ c \notin Range(cov)
    BY <1>1, NextFresh
  <1>4. /\ LinksInv(b, UnlinkColumn(l, c), Append(cov, c), l.down[c], "hide")
        /\ l.down[c] \in Ring(b, c)
        /\ NodeSince(b, Append(cov, c), l.down[c], "hide")[l.down[c]] = 0
    BY <1>1, <1>2, <1>3, CoverKeeps
  <1>5. CallsInv(b, cs, st, Append(cov, c)) /\ PcInv(cs, st, td, Append(cov, c), "hide")
    BY <1>1, CoverCalls
  <1>6. WalkInv(b, cs, td, Append(cov, c), l.down[c], "hide")
    BY <1>1, <1>4 DEF WalkInv
  <1> QED BY <1>4, <1>5, <1>6 DEF Running

\* In the loops of cover() and uncover(), the last column covered is the first of todo.
LEMMA AtColumn ==
  ASSUME NEW b, NEW cs, NEW st, NEW td, NEW cov, NEW p \in {"hide", "uncover", "show"},
         CallsInv(b, cs, st, cov), PcInv(cs, st, td, cov, p)
  PROVE  /\ cov \in Seq(Columns(b)) /\ Distinct(cov) /\ cov # <<>>
         /\ td[1] = cov[Len(cov)] /\ td[1] \in Columns(b) /\ Len(td) >= 1
  <1>1. cov \in Seq(Columns(b)) /\ Distinct(cov)
    BY CallsTypes
  <1>2. cov # <<>> /\ td[1] = cov[Len(cov)] /\ Len(td) >= 1
    BY LastCovered
  <1> QED BY <1>1, <1>2, LastColumn

LEMMA RunHideRow ==
  ASSUME NEW b, NEW l, NEW cs, NEW st, NEW td, NEW cov, NEW a,
         Running(b, l, cs, st, td, cov, a, "hide"), a # td[1],
         NEW l2, l2 = HideOthers(l, a)
  PROVE  Running(b, l2, cs, st, td, cov, l2.down[a], "hide")
  <1>1. /\ LinksInv(b, l, cov, a, "hide") /\ CallsInv(b, cs, st, cov)
        /\ PcInv(cs, st, td, cov, "hide") /\ WalkInv(b, cs, td, cov, a, "hide")
    BY DEF Running
  <1>2. /\ cov \in Seq(Columns(b)) /\ Distinct(cov) /\ cov # <<>>
        /\ td[1] = cov[Len(cov)]
    BY <1>1, AtColumn
  <1>3. a \in Ring(b, cov[Len(cov)]) \ {cov[Len(cov)]} /\ NodeSince(b, cov, a, "hide")[a] = 0
    BY <1>1, <1>2 DEF WalkInv
  <1>4. /\ LinksInv(b, l2, cov, l2.down[a], "hide")
        /\ l2.down[a] \in Ring(b, cov[Len(cov)])
        /\ NodeSince(b, cov, l2.down[a], "hide")[l2.down[a]] = 0
    BY <1>1, <1>2, <1>3, HideRowKeeps
  <1>5. WalkInv(b, cs, td, cov, l2.down[a], "hide")
    BY <1>1, <1>2, <1>4 DEF WalkInv
  <1> QED BY <1>1, <1>4, <1>5 DEF Running

LEMMA RunUncover ==
  ASSUME NEW b, NEW l, NEW cs, NEW st, NEW td, NEW cov, NEW a,
         Running(b, l, cs, st, td, cov, a, "uncover")
  PROVE  Running(b, l, cs, st, td, cov, l.up[td[1]], "show")
  <1>1. /\ LinksInv(b, l, cov, a, "uncover") /\ CallsInv(b, cs, st, cov)
        /\ PcInv(cs, st, td, cov, "uncover") /\ WalkInv(b, cs, td, cov, a, "uncover")
    BY DEF Running
  <1>2. /\ cov \in Seq(Columns(b)) /\ Distinct(cov) /\ cov # <<>>
        /\ td[1] = cov[Len(cov)]
    BY <1>1, AtColumn
  <1>3. PICK a2 : a2 = l.up[td[1]]
    OBVIOUS
  <1>4. /\ LinksInv(b, l, cov, a2, "show")
        /\ a2 \in Ring(b, cov[Len(cov)])
        /\ NodeSince(b, cov, a2, "show")[a2] = 0
    BY <1>1, <1>2, <1>3, UncoverKeeps
  <1>5. WalkInv(b, cs, td, cov, a2, "show")
    BY <1>1, <1>2, <1>4 DEF WalkInv
  <1>6. PcInv(cs, st, td, cov, "show")
    BY <1>1 DEF PcInv
  <1> QED BY <1>1, <1>3, <1>4, <1>5, <1>6 DEF Running

LEMMA RunShowRow ==
  ASSUME NEW b, NEW l, NEW cs, NEW st, NEW td, NEW cov, NEW a,
         Running(b, l, cs, st, td, cov, a, "show"), a # td[1],
         NEW l2, l2 = ShowOthers(l, a)
  PROVE  Running(b, l2, cs, st, td, cov, l2.up[a], "show")
  <1>1. /\ LinksInv(b, l, cov, a, "show") /\ CallsInv(b, cs, st, cov)
        /\ PcInv(cs, st, td, cov, "show") /\ WalkInv(b, cs, td, cov, a, "show")
    BY DEF Running
  <1>2. /\ cov \in Seq(Columns(b)) /\ Distinct(cov) /\ cov # <<>>
        /\ td[1] = cov[Len(cov)]
    BY <1>1, AtColumn
  <1>3. a \in Ring(b, cov[Len(cov)]) \ {cov[Len(cov)]} /\ NodeSince(b, cov, a, "show")[a] = 0
    BY <1>1, <1>2 DEF WalkInv
  <1>4. /\ LinksInv(b, l2, cov, l2.up[a], "show")
        /\ l2.up[a] \in Ring(b, cov[Len(cov)])
        /\ NodeSince(b, cov, l2.up[a], "show")[l2.up[a]] = 0
    BY <1>1, <1>2, <1>3, ShowRowKeeps
  <1>5. WalkInv(b, cs, td, cov, l2.up[a], "show")
    BY <1>1, <1>2, <1>4 DEF WalkInv
  <1> QED BY <1>1, <1>4, <1>5 DEF Running

-----------------------------------------------------------------------------
(* The steps that end a loop, and those of the rows.                        *)

LEMMA RunCoveredCol ==
  ASSUME NEW b, NEW l, NEW cs, NEW st, NEW td, NEW cov, NEW a,
         Running(b, l, cs, st, td, cov, a, "hide"), a = td[1], Len(st) < Len(cs),
         NEW n, n = l.down[cs[Len(cs)].col],
         NEW cs2, Replaced(b, cs, cs2, [col |-> cs[Len(cs)].col, row |-> n])
  PROVE  Running(b, l, cs2, st, Tail(td), cov, a, "row")
  <1> DEFINE c == cs[Len(cs)].col
  <1>1. /\ LinksInv(b, l, cov, a, "hide") /\ CallsInv(b, cs, st, cov)
        /\ PcInv(cs, st, td, cov, "hide") /\ WalkInv(b, cs, td, cov, a, "hide")
    BY DEF Running
  <1>2. /\ cov \in Seq(Columns(b)) /\ Distinct(cov) /\ cov # <<>>
        /\ td[1] = cov[Len(cov)] /\ Len(td) >= 1 /\ td[1] \in Columns(b)
    BY <1>1, AtColumn
  <1>3. Len(cs) = Len(st) + 1 /\ Len(cov) = 4 * Len(st) + 1 /\ td = <<c>>
    <2>1. Len(cs) \in Nat /\ Len(st) \in Nat
      BY <1>1, CallsTypes
    <2>2. Len(st) # Len(cs)
      BY <2>1
    <2> QED BY <1>1, <2>2 DEF PcInv
  <1>4. td[1] = c /\ Len(td) = 1 /\ c = cov[Len(cov)]
    BY <1>2, <1>3
  <1>5. LinksInv(b, l, cov, a, "row")
    BY <1>1, <1>2, CoveredKeeps
  <1>6. c \in Ring(b, cov[Len(cov)]) /\ NodeSince(b, cov, a, "row")[c] = 0
    BY <1>2, <1>4, SinceOfColumns DEF Ring
  <1>7. /\ n \in Ring(b, cov[Len(cov)])
        /\ n # cov[Len(cov)] => \A i \in 1..(Len(cov) - 1) : cov[i] \notin RowColumns(n)
    BY ONLY <1>2, <1>5, <1>6, n = l.down[c], RowFresh
  <1>8. Tail(td) \in Seq(Columns(b)) /\ Len(Tail(td)) = 0
    <2>1. td \in Seq(Columns(b))
      BY <1>1 DEF WalkInv
    <2>2. Len(td) = 1 /\ Len(td) >= 1
      BY <1>4
    <2>3. Tail(td) \in Seq(Columns(b)) /\ Len(Tail(td)) = Len(td) - 1
      BY ONLY <2>1, <2>2, TailFacts
    <2> QED BY ONLY <2>2, <2>3
  <1>9. CallsInv(b, cs2, st, cov) /\ PcInv(cs2, st, Tail(td), cov, "row")
    <2>1. n \in Ring(b, c) /\ (n # c => \A i \in 1..(Len(cov) - 1) : cov[i] \notin RowColumns(n))
      BY <1>4, <1>7
    <2> QED BY <1>1, <1>3, <1>8, <2>1, RowCalls
  <1>10. WalkInv(b, cs2, Tail(td), cov, a, "row")
    BY <1>8 DEF WalkInv
  <1> QED BY <1>5, <1>9, <1>10 DEF Running

LEMMA RunCovered ==
  ASSUME NEW b, NEW l, NEW cs, NEW st, NEW td, NEW cov, NEW a,
         Running(b, l, cs, st, td, cov, a, "hide"), a = td[1], ~(Len(st) < Len(cs)),
         NEW p2, p2 = IF Tail(td) = <<>> THEN "solve" ELSE "cover"
  PROVE  Running(b, l, cs, st, Tail(td), cov, a, p2)
  <1>1. /\ LinksInv(b, l, cov, a, "hide") /\ CallsInv(b, cs, st, cov)
        /\ PcInv(cs, st, td, cov, "hide") /\ WalkInv(b, cs, td, cov, a, "hide")
    BY DEF Running
  <1>2. /\ cov \in Seq(Columns(b)) /\ Distinct(cov) /\ cov # <<>>
        /\ td[1] = cov[Len(cov)] /\ Len(td) >= 1
    BY <1>1, AtColumn
  <1>3. p2 \in {"solve", "cover"}
    OBVIOUS
  <1>4. LinksInv(b, l, cov, a, p2)
    BY <1>1, <1>2, <1>3, CoveredKeeps
  <1>5. td \in Seq(Columns(b))
    BY <1>1 DEF WalkInv
  <1>6. Tail(td) \in Seq(Columns(b))
    BY ONLY <1>2, <1>5, TailFacts
  <1>7. PcInv(cs, st, Tail(td), cov, p2)
    BY <1>1, <1>5, CoveredCalls
  <1>8. cs[Len(cs)].row # cs[Len(cs)].col
    <2>1. /\ Len(cs) \in Nat /\ Len(st) \in Nat /\ Len(cs) >= 1
      BY <1>1, CallsTypes, LastCovered
    <2>2. Len(cs) \in 1..Len(st)
      BY <2>1
    <2> QED BY <1>1, <2>2, CallChosen
  <1>9. WalkInv(b, cs, Tail(td), cov, a, p2)
    BY <1>3, <1>6, <1>8 DEF WalkInv
  <1> QED BY <1>1, <1>4, <1>7, <1>9 DEF Running

\* What is uncovered is put back.
LEMMA UncoveredLinks ==
  ASSUME NEW b, NEW l, NEW cs, NEW st, NEW td, NEW cov, NEW a,
         Running(b, l, cs, st, td, cov, a, "show"), a = td[1], NEW p2, p2 \notin {"hide", "show"}
  PROVE  /\ LinksInv(b, LinkColumn(l, td[1]), Front(cov), a, p2)
         /\ Front(cov) \in Seq(Columns(b)) /\ Distinct(Front(cov))
         /\ td \in Seq(Columns(b)) /\ Tail(td) \in Seq(Columns(b))
  <1>1. /\ LinksInv(b, l, cov, a, "show") /\ CallsInv(b, cs, st, cov)
        /\ PcInv(cs, st, td, cov, "show") /\ td \in Seq(Columns(b))
    BY DEF Running, WalkInv
  <1>2. /\ cov \in Seq(Columns(b)) /\ Distinct(cov) /\ cov # <<>>
        /\ td[1] = cov[Len(cov)] /\ Len(td) >= 1
    BY <1>1, AtColumn
  <1>3. PICK cov2, c : cov2 = Front(cov) /\ c = cov[Len(cov)]
    OBVIOUS
  <1>4. /\ cov2 \in Seq(Columns(b)) /\ cov = Append(cov2, c) /\ c \in Columns(b)
        /\ Distinct(cov2) /\ c \notin Range(cov2)
    BY <1>2, <1>3, FrontFacts, DistinctFront
  <1>5. LinksInv(b, l, Append(cov2, c), c, "show")
    BY <1>1, <1>2, <1>3, <1>4
  <1>6. LinksInv(b, LinkColumn(l, c), cov2, a, p2)
    BY ONLY <1>4, <1>5, p2 \notin {"hide", "show"}, UncoveredKeeps
  <1>7. Tail(td) \in Seq(Columns(b))
    BY <1>1, <1>2, TailFacts
  <1> QED BY <1>1, <1>2, <1>3, <1>4, <1>6, <1>7

LEMMA RunUncovered ==
  ASSUME NEW b, NEW l, NEW cs, NEW st, NEW td, NEW cov, NEW a,
         Running(b, l, cs, st, td, cov, a, "show"), a = td[1], Tail(td) # <<>>
  PROVE  Running(b, LinkColumn(l, td[1]), cs, st, Tail(td), Front(cov), a, "uncover")
  <1>1. /\ CallsInv(b, cs, st, cov) /\ PcInv(cs, st, td, cov, "show")
    BY DEF Running
  <1>2. /\ LinksInv(b, LinkColumn(l, td[1]), Front(cov), a, "uncover")
        /\ td \in Seq(Columns(b)) /\ Tail(td) \in Seq(Columns(b))
    BY ONLY Running(b, l, cs, st, td, cov, a, "show"), a = td[1],
            "uncover" \notin {"hide", "show"}, UncoveredLinks
  <1>3. cs[Len(cs)].row # cs[Len(cs)].col
    BY <1>1, <1>2, ReturnCalls
  <1>4. CallsInv(b, cs, st, Front(cov)) /\ PcInv(cs, st, Tail(td), Front(cov), "uncover")
    BY <1>1, <1>2, <1>3, ShowCalls
  <1>5. WalkInv(b, cs, Tail(td), Front(cov), a, "uncover")
    BY <1>2 DEF WalkInv
  <1> QED BY <1>2, <1>4, <1>5 DEF Running

LEMMA RunNextRow ==
  ASSUME NEW b, NEW l, NEW cs, NEW st, NEW td, NEW cov, NEW a,
         Running(b, l, cs, st, td, cov, a, "show"), a = td[1], Tail(td) = <<>>,
         cs[Len(cs)].row # cs[Len(cs)].col,
         NEW l2, l2 = LinkColumn(l, td[1]), NEW n, n = l2.down[cs[Len(cs)].row],
         NEW cs2, Replaced(b, cs, cs2, [col |-> cs[Len(cs)].col, row |-> n])
  PROVE  Running(b, l2, cs2, st, Tail(td), Front(cov), a, "row")
  <1> DEFINE r == cs[Len(cs)].row
             c == cs[Len(cs)].col
  <1>1. /\ CallsInv(b, cs, st, cov) /\ PcInv(cs, st, td, cov, "show")
    BY DEF Running
  <1>2. PICK cov2 : cov2 = Front(cov)
    OBVIOUS
  <1>3. /\ LinksInv(b, l2, cov2, a, "row")
        /\ cov2 \in Seq(Columns(b)) /\ Distinct(cov2)
        /\ td \in Seq(Columns(b)) /\ Tail(td) \in Seq(Columns(b))
    BY ONLY <1>2, Running(b, l, cs, st, td, cov, a, "show"), a = td[1], l2 = LinkColumn(l, td[1]),
            "row" \notin {"hide", "show"}, UncoveredLinks
  <1>4. /\ CallsInv(b, cs, st, cov2) /\ Len(cs) = Len(st) + 1 /\ Len(cov2) = 4 * Len(st) + 1
    BY <1>1, <1>2, <1>3, ShowCalls
  <1>5. /\ Len(cs) \in Nat /\ Len(st) \in Nat /\ Len(cov2) \in Nat
    BY <1>4, CallsTypes
  <1>6. /\ Len(cs) \in 1..Len(cs) /\ 4 * Len(cs) - 3 = Len(cov2) /\ 4 * Len(cs) - 4 = Len(cov2) - 1
        /\ Len(cov2) \in 1..Len(cov2) /\ Len(cov2) # 0
    BY ONLY <1>4, <1>5
  <1>7. /\ r \in Nds(b) /\ ColumnOf(r) = c /\ r \in Ring(b, c)
        /\ cov2[4 * Len(cs) - 3] = c
        /\ \A i \in 1..(4 * Len(cs) - 4) : cov2[i] \notin RowColumns(r)
    <2>1. CallsInv(b, cs, st, cov2)
      BY ONLY <1>4
    <2>2. PICK k : k = Len(cs)
      OBVIOUS
    <2>3. k \in 1..Len(cs) /\ cs[k].row # cs[k].col
      BY ONLY <1>6, <2>2, cs[Len(cs)].row # cs[Len(cs)].col
    <2>4. /\ cs[k].row \in Nds(b) /\ ColumnOf(cs[k].row) = cs[k].col
          /\ cs[k].row \in Ring(b, cs[k].col)
          /\ cov2[4 * k - 3] = cs[k].col
          /\ \A i \in 1..(4 * k - 4) : cov2[i] \notin RowColumns(cs[k].row)
      BY ONLY <2>1, <2>3, CallRow
    <2> QED BY ONLY <2>2, <2>4
  <1>8. cov2 # <<>> /\ cov2[Len(cov2)] = c /\ \A i \in 1..(Len(cov2) - 1) : cov2[i] \notin RowColumns(r)
    <2>1. cov2 # <<>>
      BY ONLY <1>6
    <2> HIDE DEF r, c
    <2> QED BY ONLY <1>6, <1>7, <2>1
  <1>9. NodeSince(b, cov2, a, "row")[r] = 0
    <2> HIDE DEF r, c
    <2>1. PICK i : i = Len(cov2)
      OBVIOUS
    <2>2. /\ cov2 \in Seq(Columns(b)) /\ r \in Nds(b) /\ i \in 1..Len(cov2) /\ cov2[i] = ColumnOf(r)
          /\ \A j \in 1..(i - 1) : cov2[j] \notin RowColumns(r)
      BY ONLY <1>3, <1>6, <1>7, <1>8, <2>1
    <2> QED BY ONLY <2>2, RowLinked
  <1>10. /\ n \in Ring(b, cov2[Len(cov2)])
         /\ n # cov2[Len(cov2)] => \A i \in 1..(Len(cov2) - 1) : cov2[i] \notin RowColumns(n)
    <2>1. r \in Ring(b, cov2[Len(cov2)]) /\ n = l2.down[r]
      BY <1>7, <1>8
    <2> HIDE DEF r, c
    <2> QED BY ONLY <1>3, <1>8, <1>9, <2>1, RowFresh
  <1>11. CallsInv(b, cs2, st, cov2) /\ PcInv(cs2, st, Tail(td), cov2, "row")
    <2>1. n \in Ring(b, c) /\ (n # c => \A i \in 1..(Len(cov2) - 1) : cov2[i] \notin RowColumns(n))
      BY <1>8, <1>10
    <2>2. Len(Tail(td)) = 0
      BY EmptySeq
    <2> QED BY <1>4, <2>1, <2>2, RowCalls
  <1>12. WalkInv(b, cs2, Tail(td), cov2, a, "row")
    BY <1>3 DEF WalkInv
  <1> QED BY <1>2, <1>3, <1>11, <1>12 DEF Running

LEMMA RunReturn ==
  ASSUME NEW b, NEW l, NEW cs, NEW st, NEW td, NEW cov, NEW a,
         Running(b, l, cs, st, td, cov, a, "show"), a = td[1],
         cs[Len(cs)].row = cs[Len(cs)].col, Front(cs) # <<>>
  PROVE  Running(b, LinkColumn(l, td[1]), Front(cs), st, Tail(td), Front(cov), a, "failed")
  <1>1. /\ CallsInv(b, cs, st, cov) /\ PcInv(cs, st, td, cov, "show")
    BY DEF Running
  <1>2. /\ LinksInv(b, LinkColumn(l, td[1]), Front(cov), a, "failed")
        /\ td \in Seq(Columns(b)) /\ Tail(td) \in Seq(Columns(b))
    BY ONLY Running(b, l, cs, st, td, cov, a, "show"), a = td[1],
            "failed" \notin {"hide", "show"}, UncoveredLinks
  <1>3. /\ CallsInv(b, Front(cs), st, Front(cov))
        /\ PcInv(Front(cs), st, Tail(td), Front(cov), "failed")
    BY <1>1, <1>2, ReturnCalls
  <1>4. WalkInv(b, Front(cs), Tail(td), Front(cov), a, "failed")
    BY <1>2 DEF WalkInv
  <1> QED BY <1>2, <1>3, <1>4 DEF Running

LEMMA RunTryRow ==
  ASSUME NEW b, NEW l, NEW cs, NEW st, NEW td, NEW cov, NEW a,
         Running(b, l, cs, st, td, cov, a, "row"), cs[Len(cs)].row # cs[Len(cs)].col,
         NEW st2, st2 = Append(st, cs[Len(cs)].row),
         NEW td2, td2 = ColumnsOf(RightOf(cs[Len(cs)].row))
  PROVE  Running(b, l, cs, st2, td2, cov, a, "cover")
  <1>1. /\ LinksInv(b, l, cov, a, "row") /\ CallsInv(b, cs, st, cov)
        /\ PcInv(cs, st, td, cov, "row")
    BY DEF Running
  <1>2. CallsInv(b, cs, st2, cov) /\ PcInv(cs, st2, td2, cov, "cover") /\ td2 \in Seq(Columns(b))
    BY ONLY <1>1, cs[Len(cs)].row # cs[Len(cs)].col, st2 = Append(st, cs[Len(cs)].row),
            td2 = ColumnsOf(RightOf(cs[Len(cs)].row)), TryCalls
  <1>3. LinksInv(b, l, cov, a, "cover")
    <2>1. cov \in Seq(Columns(b))
      BY <1>1, CallsParts
    <2> QED BY <1>1, <2>1, QuietKeeps
  <1>4. WalkInv(b, cs, td2, cov, a, "cover")
    BY <1>2 DEF WalkInv
  <1> QED BY <1>2, <1>3, <1>4 DEF Running

LEMMA RunUndoRow ==
  ASSUME NEW b, NEW l, NEW cs, NEW st, NEW td, NEW cov, NEW a,
         Running(b, l, cs, st, td, cov, a, "failed"),
         NEW st2, st2 = Front(st), NEW td2, td2 = ColumnsOf(LeftOf(cs[Len(cs)].row))
  PROVE  Running(b, l, cs, st2, td2, cov, a, "uncover") /\ Len(st2) = Len(st) - 1
  <1>1. /\ LinksInv(b, l, cov, a, "failed") /\ CallsInv(b, cs, st, cov)
        /\ PcInv(cs, st, td, cov, "failed")
    BY DEF Running
  <1>2. /\ CallsInv(b, cs, st2, cov) /\ PcInv(cs, st2, td2, cov, "uncover")
        /\ td2 \in Seq(Columns(b)) /\ Len(st2) = Len(st) - 1
    BY ONLY <1>1, st2 = Front(st), td2 = ColumnsOf(LeftOf(cs[Len(cs)].row)), UndoCalls
  <1>3. LinksInv(b, l, cov, a, "uncover")
    <2>1. cov \in Seq(Columns(b))
      BY <1>1, CallsParts
    <2> QED BY <1>1, <2>1, QuietKeeps
  <1>4. WalkInv(b, cs, td2, cov, a, "uncover")
    BY <1>2 DEF WalkInv
  <1> QED BY <1>2, <1>3, <1>4 DEF Running

LEMMA RunExhausted ==
  ASSUME NEW b, NEW l, NEW cs, NEW st, NEW td, NEW cov, NEW a,
         Running(b, l, cs, st, td, cov, a, "row"), cs[Len(cs)].row = cs[Len(cs)].col
  PROVE  Running(b, l, cs, st, <<cs[Len(cs)].col>>, cov, a, "uncover")
  <1>1. /\ LinksInv(b, l, cov, a, "row") /\ CallsInv(b, cs, st, cov)
        /\ PcInv(cs, st, td, cov, "row")
    BY DEF Running
  <1>2. Len(cs) = Len(st) + 1 /\ Len(cov) = 4 * Len(st) + 1
    BY <1>1 DEF PcInv
  <1>3. PcInv(cs, st, <<cs[Len(cs)].col>>, cov, "uncover")
    BY <1>2 DEF PcInv
  <1>4. cov \in Seq(Columns(b)) /\ cs[Len(cs)].col \in Columns(b)
    <2>1. Len(cs) \in Nat /\ Len(st) \in Nat
      BY <1>1, CallsTypes
    <2>2. Len(cs) \in 1..Len(cs)
      BY <1>2, <2>1
    <2> QED BY <1>1, <2>2, CallsTypes
  <1>5. LinksInv(b, l, cov, a, "uncover")
    BY <1>1, <1>4, QuietKeeps
  <1>6. WalkInv(b, cs, <<cs[Len(cs)].col>>, cov, a, "uncover")
    <2>1. <<cs[Len(cs)].col>> \in Seq(Columns(b))
      BY <1>4, Singleton
    <2> QED BY <2>1 DEF WalkInv
  <1> QED BY <1>1, <1>3, <1>5, <1>6 DEF Running

-----------------------------------------------------------------------------
(* The links of the problem that is left.                                   *)

CoveredBy(cs, st) == {x.col : x \in Range(cs)} \cup UNION {RowColumns(n) : n \in Range(st)}
OpenOf(b, cs, st) ==
  {x \in Candidates(b) : \A n \in Range(RowNodes(x[1], x[2])) : ColumnOf(n) \notin CoveredBy(cs, st)}

LEMMA SeqRange ==
  ASSUME NEW S, NEW s \in Seq(S), NEW e
  PROVE  e \in Range(s) <=> \E i \in 1..Len(s) : s[i] = e
  BY DEF Range

\* Position i of covered belongs to call k, as its column j.
LEMMA FourTimes ==
  ASSUME NEW i \in Nat, i >= 1
  PROVE  \E k \in Nat, j \in 0..3 : i = 4 * k - 3 + j /\ k >= 1
  <1>1. PICK k, j : k = (i - 1) \div 4 + 1 /\ j = (i - 1) % 4
    OBVIOUS
  <1>2. (i - 1) \div 4 \in Int /\ j \in 0..3 /\ i - 1 = ((i - 1) \div 4) * 4 + j
    BY <1>1, Split
  <1>3. (i - 1) \div 4 \in Nat
    BY <1>2
  <1>4. k \in Nat /\ k >= 1 /\ i = 4 * k - 3 + j
    BY <1>1, <1>2, <1>3
  <1> QED BY <1>2, <1>4

LEMMA CoveredIs ==
  ASSUME NEW b, NEW cs, NEW st, NEW cov, CallsInv(b, cs, st, cov),
         \/ Len(cs) = Len(st) /\ Len(cov) = 4 * Len(cs)
         \/ Len(cs) = Len(st) + 1 /\ Len(cov) = 4 * Len(st) + 1
  PROVE  Range(cov) = CoveredBy(cs, st)
  <1>1. /\ Len(cs) \in Nat /\ Len(st) \in Nat /\ Len(cov) \in Nat
        /\ cs \in Seq([col : Columns(b), row : VNodes(b)])
        /\ st \in Seq(VNodes(b)) /\ cov \in Seq(Columns(b))
    BY CallsTypes
  <1>2. \A k \in 1..Len(st), j \in 1..3 :
          /\ st[k] \in Nds(b) /\ ColumnOf(st[k]) = cs[k].col
          /\ cov[4 * k - 3 + j] = ColumnOf(RightOf(st[k])[j])
          /\ 4 * k - 3 + j \in 1..Len(cov)
    <2> TAKE k \in 1..Len(st), j \in 1..3
    <2>1. k \in 1..Len(cs) /\ st[k] = cs[k].row /\ cs[k].row # cs[k].col
      BY CallChosen
    <2>2. cs[k].row \in Nds(b) /\ ColumnOf(cs[k].row) = cs[k].col
      BY <2>1, CallRow
    <2>3. 4 * k - 3 + j \in 1..Len(cov) /\ 4 * k - 3 + j <= Len(cov)
      <3>1. /\ Len(cov) >= 4 * Len(st) /\ k \in Nat /\ k >= 1 /\ k <= Len(st)
            /\ j \in Nat /\ j >= 1 /\ j <= 3
        BY <1>1
      <3> QED BY ONLY <1>1, <3>1
    <2>4. cs[k].row # cs[k].col /\ cov[4 * k - 3 + j] = ColumnOf(RightOf(cs[k].row)[j])
      <3>1. CallInv(b, cs, cov, k)
        BY <2>1, CallsParts
      <3> QED BY ONLY <2>3, <3>1, j \in 1..3 DEF CallInv
    <2> QED BY <2>1, <2>2, <2>3, <2>4
  <1>3. \A k \in 1..Len(cs) : cov[4 * k - 3] = cs[k].col /\ 4 * k - 3 \in 1..Len(cov)
    <2> TAKE k \in 1..Len(cs)
    <2>1. 4 * k - 3 \in 1..Len(cov) /\ 4 * k - 3 <= Len(cov)
      BY <1>1
    <2>2. cov[4 * k - 3] = cs[k].col
      BY <2>1, CallFirst
    <2> QED BY <2>1, <2>2
  <1>4. \A k \in 1..Len(st) : RowColumns(st[k]) \subseteq Range(cov)
    <2> TAKE k \in 1..Len(st)
    <2>1. st[k] \in Nds(b) /\ ColumnOf(st[k]) = cs[k].col
      BY <1>2, 1 \in 1..3
    <2>2. k \in 1..Len(cs)
      BY <1>1
    <2>3. ColumnOf(st[k]) \in Range(cov)
      BY <1>1, <1>3, <2>1, <2>2, SeqRange
    <2>4. \A j \in 1..3 : ColumnOf(RightOf(st[k])[j]) \in Range(cov)
      BY <1>1, <1>2, SeqRange
    <2>5. RowColumns(st[k]) = {ColumnOf(st[k])} \cup {ColumnOf(RightOf(st[k])[j]) : j \in 1..3}
      BY <2>1, RightFacts
    <2> QED BY ONLY <2>3, <2>4, <2>5
  <1>5. CoveredBy(cs, st) \subseteq Range(cov)
    <2>1. \A x \in Range(cs) : x.col \in Range(cov)
      BY <1>1, <1>3, SeqRange
    <2>2. \A n \in Range(st) : RowColumns(n) \subseteq Range(cov)
      BY <1>1, <1>4, SeqRange
    <2> QED BY ONLY <2>1, <2>2 DEF CoveredBy
  <1>6. \A i \in 1..Len(cov) : cov[i] \in CoveredBy(cs, st)
    <2> TAKE i \in 1..Len(cov)
    <2>1. i \in Nat /\ i >= 1
      BY <1>1
    <2>2. PICK k \in Nat, j \in 0..3 : i = 4 * k - 3 + j /\ k >= 1
      BY <2>1, FourTimes
    <2>3. CASE j = 0
      <3>1. k \in 1..Len(cs) /\ i = 4 * k - 3
        BY <1>1, <2>2, <2>3
      <3>2. cov[i] = cs[k].col /\ cs[k] \in Range(cs)
        BY <1>1, <1>3, <3>1, SeqRange
      <3> QED BY ONLY <3>2 DEF CoveredBy
    <2>4. CASE j # 0
      <3>1. k \in 1..Len(st) /\ j \in 1..3
        BY <1>1, <2>2, <2>4
      <3>2. /\ cov[i] = ColumnOf(RightOf(st[k])[j]) /\ st[k] \in Nds(b) /\ st[k] \in Range(st)
        BY <1>1, <1>2, <2>2, <3>1, SeqRange
      <3>3. RowColumns(st[k]) = {ColumnOf(st[k])} \cup {ColumnOf(RightOf(st[k])[m]) : m \in 1..3}
        BY <3>2, RightFacts
      <3>4. cov[i] \in RowColumns(st[k])
        BY ONLY <3>1, <3>2, <3>3
      <3> QED BY ONLY <3>2, <3>4 DEF CoveredBy
    <2> QED BY <2>3, <2>4
  <1>7. Range(cov) \subseteq CoveredBy(cs, st)
    BY <1>1, <1>6, SeqRange
  <1> QED BY <1>5, <1>7

LEMMA OpenNodes ==
  ASSUME NEW b, NEW cs, NEW st, NEW cov \in Seq(Columns(b)), Range(cov) = CoveredBy(cs, st), NEW n
  PROVE  n \in Nodes(OpenOf(b, cs, st)) <=> n \in Nds(b) /\ Hits(cov, n) = {}
  <1>1. Len(cov) \in Nat
    OBVIOUS
  <1>2. Hits(cov, n) = {} <=> RowColumns(n) \cap CoveredBy(cs, st) = {}
    BY <1>1, SeqRange DEF Hits
  <1>3. ASSUME n \in Nodes(OpenOf(b, cs, st))
        PROVE  n \in Nds(b) /\ Hits(cov, n) = {}
    <2>1. PICK x \in OpenOf(b, cs, st) : n \in Range(RowNodes(x[1], x[2]))
      BY <1>3 DEF Nodes
    <2>2. x \in Candidates(b) /\ \A m \in Range(RowNodes(x[1], x[2])) : ColumnOf(m) \notin CoveredBy(cs, st)
      BY <2>1 DEF OpenOf
    <2>3. PICK k \in 1..4 : n = RowNodes(x[1], x[2])[k]
      BY <2>1, FourNodes
    <2>4. n \in Nds(b) /\ Filled(n) = x[1] /\ FilledBy(n) = x[2]
      BY <2>2, <2>3, FourInRow
    <2>5. RowColumns(n) = {ColumnOf(m) : m \in Range(RowNodes(x[1], x[2]))}
      BY <2>4 DEF RowColumns
    <2> QED BY <1>2, <2>2, <2>4, <2>5
  <1>4. ASSUME n \in Nds(b), Hits(cov, n) = {}
        PROVE  n \in Nodes(OpenOf(b, cs, st))
    <2> DEFINE x == <<Filled(n), FilledBy(n)>>
    <2>1. x \in Candidates(b) /\ \E k \in 1..4 : n = RowNodes(Filled(n), FilledBy(n))[k]
      BY <1>4, NodeFacts
    <2>2. n \in Range(RowNodes(Filled(n), FilledBy(n)))
      BY <2>1, FourNodes
    <2>3. \A m \in Range(RowNodes(Filled(n), FilledBy(n))) : ColumnOf(m) \notin CoveredBy(cs, st)
      BY <1>2, <1>4 DEF RowColumns
    <2>4. x[1] = Filled(n) /\ x[2] = FilledBy(n)
      OBVIOUS
    <2>5. x \in OpenOf(b, cs, st)
      BY <2>1, <2>3, <2>4 DEF OpenOf
    <2> QED BY <2>2, <2>4, <2>5 DEF Nodes
  <1> QED BY <1>3, <1>4

\* The ring of an open column has in it the nodes of the rows that can still be chosen.
LEMMA OpenRing ==
  ASSUME NEW b, NEW cs, NEW st, NEW cov \in Seq(Columns(b)), Range(cov) = CoveredBy(cs, st),
         NEW c \in Columns(b), c \notin Range(cov), NEW a, NEW p, p \notin {"hide", "show"}
  PROVE  LET since == NodeSince(b, cov, a, p)
         IN  /\ {n \in NodesIn(c, Nds(b)) : since[n] = 0} = NodesIn(c, Nodes(OpenOf(b, cs, st)))
             /\ {n \in Ring(b, c) : since[n] = 0} = {c} \cup NodesIn(c, Nodes(OpenOf(b, cs, st)))
  <1> DEFINE since == NodeSince(b, cov, a, p)
  <1>1. \A n \in NodesIn(c, Nds(b)) : since[n] = 0 <=> Hits(cov, n) = {}
    <2> SUFFICES ASSUME NEW n \in NodesIn(c, Nds(b)), Hits(cov, n) # {} PROVE since[n] # 0
      <3>1. \A n \in NodesIn(c, Nds(b)) : n \in Nds(b)
        BY DEF NodesIn
      <3> QED BY <3>1, NotHit
    <2>1. n \in Nds(b) /\ ColumnOf(n) = c /\ Len(cov) \in Nat
      BY DEF NodesIn
    <2>2. FirstHit(cov, n) \in 1..Len(cov)
      BY <2>1, FirstHitFacts
    <2>3. cov[FirstHit(cov, n)] # c
      BY <2>2, SeqRange
    <2>4. ~Ahead(a, p, cov[Len(cov)], n)
      BY DEF Ahead
    <2>5. since[n] = FirstHit(cov, n)
      <3>1. since[n] = IF \/ cov[FirstHit(cov, n)] = ColumnOf(n)
                          \/ FirstHit(cov, n) = Len(cov) /\ Ahead(a, p, cov[Len(cov)], n)
                       THEN 0 ELSE FirstHit(cov, n)
        BY <2>1, SinceFacts
      <3> QED BY ONLY <3>1, <2>1, <2>3, <2>4
    <2> QED BY <2>1, <2>2, <2>5
  <1>2. \A n : n \in NodesIn(c, Nodes(OpenOf(b, cs, st))) <=> n \in NodesIn(c, Nds(b)) /\ Hits(cov, n) = {}
    BY OpenNodes DEF NodesIn
  <1>3. since[c] = 0
    BY SinceFacts
  <1> HIDE DEF since
  <1>4. /\ {n \in NodesIn(c, Nds(b)) : since[n] = 0} = NodesIn(c, Nodes(OpenOf(b, cs, st)))
        /\ {n \in Ring(b, c) : since[n] = 0} = {c} \cup NodesIn(c, Nodes(OpenOf(b, cs, st)))
    BY ONLY <1>1, <1>2, <1>3 DEF Ring
  <1> QED BY <1>4 DEF since

\* The links are those of the problem that is left by the calls and the rows chosen.
Matches(b, l, cs, st) ==
  /\ GoAround(l.right, l.left, (Columns(b) \ CoveredBy(cs, st)) \cup {root_})
  /\ \A c \in Columns(b) \ CoveredBy(cs, st) :
       /\ GoAround(l.down, l.up, {c} \cup NodesIn(c, Nodes(OpenOf(b, cs, st))))
       /\ l.size[c] = Cardinality(NodesIn(c, Nodes(OpenOf(b, cs, st))))

\* They are whenever no column is half covered.
LEMMA RunMatches ==
  ASSUME NEW b, NEW l, NEW cs, NEW st, NEW td, NEW cov, NEW a,
         NEW p \in {"solve", "row", "failed"}, Running(b, l, cs, st, td, cov, a, p)
  PROVE  Matches(b, l, cs, st)
  <1>1. LinksInv(b, l, cov, a, p) /\ CallsInv(b, cs, st, cov) /\ PcInv(cs, st, td, cov, p)
    BY DEF Running
  <1>2. cov \in Seq(Columns(b)) /\ Distinct(cov)
    BY <1>1, CallsParts
  <1>3. \/ Len(cs) = Len(st) /\ Len(cov) = 4 * Len(cs)
        \/ Len(cs) = Len(st) + 1 /\ Len(cov) = 4 * Len(st) + 1
    BY <1>1 DEF PcInv
  <1>4. Range(cov) = CoveredBy(cs, st)
    BY <1>1, <1>3, CoveredIs
  <1>5. PICK since : since = HeaderSince(b, cov)
    OBVIOUS
  <1>6. since[root_] = 0 /\ \A c \in Header(b) : since[c] = 0 <=> c \notin Range(cov)
    BY <1>2, <1>5, HeaderSinceFacts
  <1>7. (Columns(b) \ CoveredBy(cs, st)) \cup {root_} = {m \in Header(b) : since[m] = 0}
    BY ONLY <1>4, <1>6 DEF Header
  <1>8. GoAround(l.right, l.left, (Columns(b) \ CoveredBy(cs, st)) \cup {root_})
    <2>1. Dances(l.right, l.left, Header(b), root_, since)
      BY <1>1, <1>5 DEF LinksInv, HeaderDances
    <2>2. IsRing(Header(b), root_)
      BY Rings
    <2>3. \A n \in {m \in Header(b) : since[m] = 0} :
            /\ l.right[n] = Following({m \in Header(b) : since[m] = 0}, n)
            /\ l.left[n] = Preceding({m \in Header(b) : since[m] = 0}, n)
      BY <1>6, <2>1, <2>2, DanceFollows
    <2> QED BY ONLY <1>7, <2>3 DEF GoAround
  <1>9. ASSUME NEW c \in Columns(b) \ CoveredBy(cs, st)
        PROVE  /\ GoAround(l.down, l.up, {c} \cup NodesIn(c, Nodes(OpenOf(b, cs, st))))
               /\ l.size[c] = Cardinality(NodesIn(c, Nodes(OpenOf(b, cs, st))))
    <2>1. PICK s : s = NodeSince(b, cov, a, p)
      OBVIOUS
    <2>2. c \in Columns(b) /\ c \notin Range(cov) /\ p \notin {"hide", "show"}
      BY <1>4
    <2>3. /\ {n \in NodesIn(c, Nds(b)) : s[n] = 0} = NodesIn(c, Nodes(OpenOf(b, cs, st)))
          /\ {n \in Ring(b, c) : s[n] = 0} = {c} \cup NodesIn(c, Nodes(OpenOf(b, cs, st)))
      BY ONLY <1>2, <1>4, <2>1, <2>2, OpenRing
    <2>4. /\ Dances(l.down, l.up, Ring(b, c), c, s)
          /\ l.size[c] = Cardinality({n \in NodesIn(c, Nds(b)) : s[n] = 0})
      BY <1>1, <2>1, <2>2 DEF LinksInv, ColumnsDance
    <2>5. IsRing(Ring(b, c), c) /\ s[c] = 0
      BY <1>2, <2>1, <2>2, Rings, SinceFacts
    <2>6. \A n \in {m \in Ring(b, c) : s[m] = 0} :
            /\ l.down[n] = Following({m \in Ring(b, c) : s[m] = 0}, n)
            /\ l.up[n] = Preceding({m \in Ring(b, c) : s[m] = 0}, n)
      BY <2>4, <2>5, DanceFollows
    <2>7. GoAround(l.down, l.up, {c} \cup NodesIn(c, Nodes(OpenOf(b, cs, st))))
      BY ONLY <2>3, <2>6 DEF GoAround
    <2> QED BY <2>3, <2>4, <2>7
  <1> QED BY <1>8, <1>9 DEF Matches

-----------------------------------------------------------------------------
(* Complete boards.                                                         *)

\* A unit with a value in each of its Side cells has no value twice.
LEMMA Pigeons ==
  ASSUME NEW S, NEW f \in [S -> Values], \A v \in Values : \E i \in S : f[i] = v,
         NEW g \in [S -> 0..(Side - 1)], \A i, j \in S : g[i] = g[j] => i = j
  PROVE  \A i, j \in S : f[i] = f[j] => i = j
  <1>1. Side \in Nat /\ Side >= 1
    BY SideNat
  <1>2. /\ IsFiniteSet(0..(Side - 1)) /\ Cardinality(0..(Side - 1)) = Side
        /\ Cardinality(Values) = Side
    <2>1. 0 \in Int /\ Side - 1 \in Int /\ 1 \in Int /\ Side \in Int
      BY <1>1
    <2>2. /\ IsFiniteSet(0..(Side - 1))
          /\ Cardinality(0..(Side - 1)) = IF 0 > Side - 1 THEN 0 ELSE (Side - 1) - 0 + 1
      BY <2>1, FS_Interval
    <2>3. Cardinality(1..Side) = IF 1 > Side THEN 0 ELSE Side - 1 + 1
      BY <2>1, FS_Interval
    <2> QED BY <1>1, <2>2, <2>3 DEF Values
  <1>3. g \in Injection(S, 0..(Side - 1))
    BY DEF Injection, IsInjective
  <1>4. IsFiniteSet(S) /\ Cardinality(S) <= Side
    BY <1>2, <1>3, FS_Injection
  <1>5. f \in Surjection(S, Values)
    BY DEF Surjection
  <1>6. Side <= Cardinality(S)
    BY <1>2, <1>4, <1>5, FS_Surjection
  <1>7. Cardinality(S) \in Nat
    BY <1>4, FS_CardinalityType
  <1>8. Cardinality(S) = Cardinality(Values)
    BY <1>1, <1>2, <1>4, <1>6, <1>7
  <1>9. f \in Injection(S, Values)
    BY <1>4, <1>5, <1>8, FS_SurjSameCardinalityImpliesInj
  <1> QED BY <1>9 DEF Injection, IsInjective

LEMMA SameCell ==
  ASSUME NEW i \in Cells, NEW j \in Cells, RowOf(i) = RowOf(j), ColOf(i) = ColOf(j)
  PROVE  i = j
  <1>1. i \in Int /\ j \in Int /\ Side \in Nat /\ Side >= 1
    BY CellParts, SideNat
  <1>2. i = (i \div Side) * Side + (i % Side)
    BY <1>1, Split
  <1>3. j = (j \div Side) * Side + (j % Side)
    BY <1>1, Split
  <1> QED BY <1>2, <1>3 DEF RowOf, ColOf

LEMMA BoxParts ==
  ASSUME NEW B \in Nat, B >= 1, NEW r \in 0..(B * B - 1)
  PROVE  \E q \in 0..(B - 1), s \in 0..(B - 1) : r \div B = q /\ r % B = s /\ r = q * B + s
  <1>1. r \in Int
    OBVIOUS
  <1>2. r % B \in 0..(B - 1) /\ r = (r \div B) * B + (r % B)
    BY <1>1, Split
  <1>3. r \div B \in 0..(B - 1)
    BY Parts
  <1> QED BY <1>2, <1>3

BoxAt(B, r, c) == (r \div B) * B + c \div B
InBox(B, r, c) == (r % B) * B + (c % B)

LEMMA BoxLex ==
  ASSUME NEW B \in Nat, B >= 1, NEW r1 \in 0..(B * B - 1), NEW c1 \in 0..(B * B - 1),
         NEW r2 \in 0..(B * B - 1), NEW c2 \in 0..(B * B - 1),
         BoxAt(B, r1, c1) = BoxAt(B, r2, c2), InBox(B, r1, c1) = InBox(B, r2, c2)
  PROVE  r1 = r2 /\ c1 = c2
  <1>1. PICK q1 \in 0..(B - 1), s1 \in 0..(B - 1) : r1 \div B = q1 /\ r1 % B = s1 /\ r1 = q1 * B + s1
    BY BoxParts
  <1>2. PICK q2 \in 0..(B - 1), s2 \in 0..(B - 1) : c1 \div B = q2 /\ c1 % B = s2 /\ c1 = q2 * B + s2
    BY BoxParts
  <1>3. PICK q3 \in 0..(B - 1), s3 \in 0..(B - 1) : r2 \div B = q3 /\ r2 % B = s3 /\ r2 = q3 * B + s3
    BY BoxParts
  <1>4. PICK q4 \in 0..(B - 1), s4 \in 0..(B - 1) : c2 \div B = q4 /\ c2 % B = s4 /\ c2 = q4 * B + s4
    BY BoxParts
  <1>5. /\ r1 \div B = q1 /\ c1 \div B = q2 /\ r2 \div B = q3 /\ c2 \div B = q4
        /\ r1 % B = s1 /\ c1 % B = s2 /\ r2 % B = s3 /\ c2 % B = s4
    BY <1>1, <1>2, <1>3, <1>4
  <1>0. /\ (r1 \div B) * B + c1 \div B = (r2 \div B) * B + c2 \div B
        /\ (r1 % B) * B + (c1 % B) = (r2 % B) * B + (c2 % B)
    BY DEF BoxAt, InBox
  <1>6. q1 * B + q2 = q3 * B + q4 /\ s1 * B + s2 = s3 * B + s4
    <2>1. r1 \in Int /\ c1 \in Int /\ r2 \in Int /\ c2 \in Int
      OBVIOUS
    <2>2. q1 * B + q2 = q3 * B + q4
      BY ONLY B \in Nat, B >= 1, <1>0, <1>5, <2>1
    <2>3. s1 * B + s2 = s3 * B + s4
      BY ONLY B \in Nat, B >= 1, <1>0, <1>5, <2>1
    <2> QED BY <2>2, <2>3
  <1>7. q1 \in Int /\ q3 \in Int /\ s1 \in Int /\ s3 \in Int
    OBVIOUS
  <1>8. q1 = q3 /\ q2 = q4
    BY ONLY B \in Nat, B >= 1, <1>6, <1>7, q2 \in 0..(B - 1), q4 \in 0..(B - 1), Lex
  <1>9. s1 = s3 /\ s2 = s4
    BY ONLY B \in Nat, B >= 1, <1>6, <1>7, s2 \in 0..(B - 1), s4 \in 0..(B - 1), Lex
  <1> QED BY ONLY <1>1, <1>2, <1>3, <1>4, <1>8, <1>9

\* A cell of a box is known from its row and column in the box.
LEMMA SameBoxCell ==
  ASSUME NEW i \in Cells, NEW j \in Cells, BoxOf(i) = BoxOf(j),
         InBox(BoxSize, RowOf(i), ColOf(i)) = InBox(BoxSize, RowOf(j), ColOf(j))
  PROVE  i = j
  <1>1. PICK B \in Nat : B = BoxSize /\ B >= 1 /\ Side = B * B
    BY SideNat DEF Side
  <1>2. PICK r1, c1, r2, c2 : r1 = RowOf(i) /\ c1 = ColOf(i) /\ r2 = RowOf(j) /\ c2 = ColOf(j)
    OBVIOUS
  <1>3. /\ r1 \in 0..(Side - 1) /\ c1 \in 0..(Side - 1)
        /\ r2 \in 0..(Side - 1) /\ c2 \in 0..(Side - 1)
    BY <1>2, CellParts
  <1>4. /\ r1 \in 0..(B * B - 1) /\ c1 \in 0..(B * B - 1)
        /\ r2 \in 0..(B * B - 1) /\ c2 \in 0..(B * B - 1)
    BY <1>1, <1>3
  <1>5. BoxAt(B, r1, c1) = BoxAt(B, r2, c2)
    <2>1. BoxAt(BoxSize, RowOf(i), ColOf(i)) = BoxAt(BoxSize, RowOf(j), ColOf(j))
      BY DEF BoxAt, BoxOf
    <2> QED BY ONLY <1>1, <1>2, <2>1
  <1>6. InBox(B, r1, c1) = InBox(B, r2, c2)
    BY <1>1, <1>2
  <1>7. r1 = r2 /\ c1 = c2
    BY ONLY <1>1, <1>4, <1>5, <1>6, B \in Nat, BoxLex
  <1>8. RowOf(i) = RowOf(j) /\ ColOf(i) = ColOf(j)
    BY ONLY <1>2, <1>7
  <1> QED BY <1>8, SameCell

LEMMA BoxIndex ==
  ASSUME NEW i \in Cells
  PROVE  InBox(BoxSize, RowOf(i), ColOf(i)) \in 0..(Side - 1)
  <1>1. PICK B, r, c : B = BoxSize /\ r = RowOf(i) /\ c = ColOf(i)
    OBVIOUS
  <1>2. B \in Nat /\ B >= 1 /\ Side = B * B /\ r \in Int /\ c \in Int
    BY <1>1, SideNat, CellParts DEF Side
  <1>3. r % B \in 0..(B - 1) /\ c % B \in 0..(B - 1)
    BY ONLY <1>2, Split
  <1>4. (r % B) * B + (c % B) \in 0..(B * B - 1)
    BY ONLY <1>2, <1>3, Below
  <1> QED BY <1>1, <1>2, <1>4 DEF InBox

LEMMA FullRows ==
  ASSUME NEW full \in CompleteBoards
  PROVE  /\ full \in [Cells -> Values] /\ Complete(full)
         /\ \A i, j \in Cells : RowOf(i) = RowOf(j) /\ full[i] = full[j] => i = j
  <1>1. PICK lines \in [0..(Side - 1) -> Lines] : full = [i \in Cells |-> lines[RowOf(i)][ColOf(i)]]
    BY DEF CompleteBoards
  <1>2. \A r \in 0..(Side - 1) : lines[r] \in [0..(Side - 1) -> Values] /\ IsInjective(lines[r])
    BY <1>1 DEF Lines
  <1>3. \A i \in Cells : RowOf(i) \in 0..(Side - 1) /\ ColOf(i) \in 0..(Side - 1)
    BY CellParts
  <1>4. full \in [Cells -> Values]
    BY <1>1, <1>2, <1>3
  <1>5. ASSUME NEW i \in Cells, NEW j \in Cells, RowOf(i) = RowOf(j), full[i] = full[j]
        PROVE  i = j
    <2>1. PICK line : line = lines[RowOf(i)]
      OBVIOUS
    <2>2. line \in [0..(Side - 1) -> Values] /\ IsInjective(line)
      BY <1>2, <1>3, <2>1
    <2>3. line[ColOf(i)] = line[ColOf(j)]
      BY <1>1, <1>5, <2>1
    <2>4. ColOf(i) = ColOf(j)
      BY <1>3, <2>2, <2>3 DEF IsInjective
    <2> QED BY <1>5, <2>4, SameCell
  <1>6. Complete(full)
    BY DEF CompleteBoards
  <1> QED BY <1>4, <1>5, <1>6

LEMMA FullCols ==
  ASSUME NEW full \in CompleteBoards, NEW i \in Cells, NEW j \in Cells,
         ColOf(i) = ColOf(j), full[i] = full[j]
  PROVE  i = j
  <1>1. full \in [Cells -> Values] /\ Complete(full)
    BY FullRows
  <1>2. PICK u, S : u = ColOf(i) /\ S = Col(u)
    OBVIOUS
  <1>3. u \in 0..(Side - 1) /\ i \in S /\ j \in S /\ S \subseteq Cells /\ \A k \in S : ColOf(k) = u
    BY <1>2, CellParts DEF Col
  <1>4. PICK f, g : f = [k \in S |-> full[k]] /\ g = [k \in S |-> RowOf(k)]
    OBVIOUS
  <1>5. f \in [S -> Values] /\ \A v \in Values : \E k \in S : f[k] = v
    BY <1>1, <1>2, <1>3, <1>4 DEF Complete, Has
  <1>6. g \in [S -> 0..(Side - 1)]
    BY <1>3, <1>4, CellParts
  <1>7. \A k, m \in S : g[k] = g[m] => k = m
    BY <1>3, <1>4, SameCell
  <1>8. \A k, m \in S : f[k] = f[m] => k = m
    BY ONLY <1>5, <1>6, <1>7, Pigeons
  <1> QED BY <1>3, <1>4, <1>8

LEMMA FullBoxes ==
  ASSUME NEW full \in CompleteBoards, NEW i \in Cells, NEW j \in Cells,
         BoxOf(i) = BoxOf(j), full[i] = full[j]
  PROVE  i = j
  <1>1. full \in [Cells -> Values] /\ Complete(full)
    BY FullRows
  <1>2. PICK u, S : u = BoxOf(i) /\ S = Box(u)
    OBVIOUS
  <1>3. u \in 0..(Side - 1) /\ i \in S /\ j \in S /\ S \subseteq Cells /\ \A k \in S : BoxOf(k) = u
    BY <1>2, CellParts DEF Box
  <1>4. PICK f, g : /\ f = [k \in S |-> full[k]]
                    /\ g = [k \in S |-> InBox(BoxSize, RowOf(k), ColOf(k))]
    OBVIOUS
  <1>5. f \in [S -> Values] /\ \A v \in Values : \E k \in S : f[k] = v
    BY <1>1, <1>2, <1>3, <1>4 DEF Complete, Has
  <1>6. g \in [S -> 0..(Side - 1)]
    BY <1>3, <1>4, BoxIndex
  <1>7. \A k, m \in S : g[k] = g[m] => k = m
    BY <1>3, <1>4, SameBoxCell
  <1>8. \A k, m \in S : f[k] = f[m] => k = m
    BY ONLY <1>5, <1>6, <1>7, Pigeons
  <1> QED BY <1>3, <1>4, <1>8

-----------------------------------------------------------------------------
(* The rows that a completion takes.                                        *)

LEMMA TakenValues ==
  ASSUME NEW b, NEW full \in CompleteBoards, NEW n \in Nds(b), Takes(full, n)
  PROVE  Filled(n) \in Cells /\ FilledBy(n) = full[Filled(n)]
  BY NodeFacts DEF Takes

\* Two rows of a completion have no column in common.
LEMMA Compatible ==
  ASSUME NEW b, NEW full \in CompleteBoards, NEW n \in Nds(b), NEW m \in Nds(b),
         Takes(full, n), Takes(full, m), NEW c \in RowColumns(n), c \in RowColumns(m)
  PROVE  SameRow(n, m)
  <1>1. PICK i, v : i = Filled(n) /\ v = FilledBy(n)
    OBVIOUS
  <1>2. PICK j, w : j = Filled(m) /\ w = FilledBy(m)
    OBVIOUS
  <1>3. i \in Cells /\ j \in Cells /\ v = full[i] /\ w = full[j]
    BY <1>1, <1>2, TakenValues
  <1>4. c \in {CellColumn(i), UnitColumn("row", RowOf(i), v), UnitColumn("col", ColOf(i), v),
               UnitColumn("box", BoxOf(i), v)}
    BY <1>1, FourColumns
  <1>5. c \in {CellColumn(j), UnitColumn("row", RowOf(j), w), UnitColumn("col", ColOf(j), w),
               UnitColumn("box", BoxOf(j), w)}
    BY <1>2, FourColumns
  <1>6. \/ i = j
        \/ RowOf(i) = RowOf(j) /\ v = w
        \/ ColOf(i) = ColOf(j) /\ v = w
        \/ BoxOf(i) = BoxOf(j) /\ v = w
    BY ONLY <1>4, <1>5 DEF CellColumn, UnitColumn
  <1>7. i = j
    BY <1>3, <1>6, FullRows, FullCols, FullBoxes
  <1> QED BY <1>1, <1>2, <1>3, <1>7 DEF SameRow

\* The value of a completion fits into a blank cell.
LEMMA FitsBlank ==
  ASSUME NEW b, NEW full, Completes(full, b), NEW i \in Blanks(b), NEW v, v = full[i]
  PROVE  <<i, v>> \in Candidates(b) /\ i \in Cells /\ v \in Values
  <1>1. full \in CompleteBoards /\ \A j \in Cells : b[j] \in {Blank, full[j]}
    BY DEF Completes
  <1>2. i \in Cells /\ b[i] = Blank /\ full \in [Cells -> Values]
    BY <1>1, FullRows DEF Blanks
  <1>3. v \in Values /\ v # Blank
    BY <1>2, SideNat DEF Values, Blank
  <1>4. ~Has(b, v, Row(RowOf(i)))
    BY <1>1, <1>2, <1>3, FullRows DEF Has, Row
  <1>5. ~Has(b, v, Col(ColOf(i)))
    BY <1>1, <1>2, <1>3, FullCols DEF Has, Col
  <1>6. ~Has(b, v, Box(BoxOf(i)))
    BY <1>1, <1>2, <1>3, FullBoxes DEF Has, Box
  <1>7. <<i, v>> \in Blanks(b) \X Values
    BY <1>3
  <1> QED BY <1>2, <1>3, <1>4, <1>5, <1>6, <1>7 DEF Candidates

\* A completion takes a row with a node in each column.
LEMMA EachColumnTaken ==
  ASSUME NEW b, NEW full, Completes(full, b), NEW c \in Columns(b)
  PROVE  \E n \in NodesIn(c, Nds(b)) : Takes(full, n)
  <1>1. full \in CompleteBoards /\ \A j \in Cells : b[j] \in {Blank, full[j]}
    BY DEF Completes
  <1>2. full \in [Cells -> Values] /\ Complete(full)
    BY <1>1, FullRows
  <1>3. ASSUME NEW i \in Blanks(b), NEW k \in 1..4, c = ColumnOf(RowNodes(i, full[i])[k])
        PROVE  \E n \in NodesIn(c, Nds(b)) : Takes(full, n)
    <2>1. PICK x : x = <<i, full[i]>>
      OBVIOUS
    <2>2. x \in Candidates(b) /\ x[1] = i /\ x[2] = full[i]
      BY <2>1, FitsBlank
    <2>3. PICK n : n = RowNodes(x[1], x[2])[k]
      OBVIOUS
    <2>4. n \in Nds(b) /\ Filled(n) = x[1] /\ FilledBy(n) = x[2]
      BY <2>2, <2>3, FourInRow
    <2>5. ColumnOf(n) = c
      BY <1>3, <2>2, <2>3
    <2> QED BY <2>2, <2>4, <2>5 DEF NodesIn, Takes
  <1>4. ASSUME NEW u \in 0..(Side - 1), NEW v \in Values, NEW i \in Cells, full[i] = v,
               ~(b[i] = v)
        PROVE  i \in Blanks(b)
    BY <1>1, <1>4 DEF Blanks
  <1>5. CASE \E i \in Blanks(b) : c = CellColumn(i)
    <2>1. PICK i \in Blanks(b) : c = CellColumn(i)
      BY <1>5
    <2>2. c = ColumnOf(RowNodes(i, full[i])[1])
      BY <2>1, FourNodes DEF ColumnOf, CellColumn
    <2> QED BY <1>3, <2>2
  <1>6. ASSUME NEW u \in 0..(Side - 1), NEW v \in Values,
               c = UnitColumn("row", u, v), ~Has(b, v, Row(u))
        PROVE  \E n \in NodesIn(c, Nds(b)) : Takes(full, n)
    <2>1. PICK i \in Row(u) : full[i] = v
      BY <1>2 DEF Complete, Has
    <2>2. i \in Cells /\ RowOf(i) = u /\ ~(b[i] = v)
      BY <1>6, <2>1 DEF Row, Has
    <2>3. i \in Blanks(b)
      BY <1>4, <2>1, <2>2
    <2>4. c = ColumnOf(RowNodes(i, full[i])[2])
      BY <1>6, <2>1, <2>2, FourNodes DEF ColumnOf, UnitColumn
    <2> QED BY <1>3, <2>3, <2>4
  <1>7. ASSUME NEW u \in 0..(Side - 1), NEW v \in Values,
               c = UnitColumn("col", u, v), ~Has(b, v, Col(u))
        PROVE  \E n \in NodesIn(c, Nds(b)) : Takes(full, n)
    <2>1. PICK i \in Col(u) : full[i] = v
      BY <1>2 DEF Complete, Has
    <2>2. i \in Cells /\ ColOf(i) = u /\ ~(b[i] = v)
      BY <1>7, <2>1 DEF Col, Has
    <2>3. i \in Blanks(b)
      BY <1>4, <2>1, <2>2
    <2>4. c = ColumnOf(RowNodes(i, full[i])[3])
      BY <1>7, <2>1, <2>2, FourNodes DEF ColumnOf, UnitColumn
    <2> QED BY <1>3, <2>3, <2>4
  <1>8. ASSUME NEW u \in 0..(Side - 1), NEW v \in Values,
               c = UnitColumn("box", u, v), ~Has(b, v, Box(u))
        PROVE  \E n \in NodesIn(c, Nds(b)) : Takes(full, n)
    <2>1. PICK i \in Box(u) : full[i] = v
      BY <1>2 DEF Complete, Has
    <2>2. i \in Cells /\ BoxOf(i) = u /\ ~(b[i] = v)
      BY <1>8, <2>1 DEF Box, Has
    <2>3. i \in Blanks(b)
      BY <1>4, <2>1, <2>2
    <2>4. c = ColumnOf(RowNodes(i, full[i])[4])
      BY <1>8, <2>1, <2>2, FourNodes DEF ColumnOf, UnitColumn
    <2> QED BY <1>3, <2>3, <2>4
  <1> QED BY <1>5, <1>6, <1>7, <1>8, UnitOrCell

-----------------------------------------------------------------------------
(* The search misses no completion.                                         *)

\* The next linked row of a column skips no linked one.
LEMMA NextSkipsNone ==
  ASSUME NEW b, NEW l, NEW cov \in Seq(Columns(b)), NEW a, NEW p, LinksInv(b, l, cov, a, p),
         NEW c \in Columns(b), NEW m \in Ring(b, c), NEW n \in NodesIn(c, Nds(b)),
         NodeSince(b, cov, a, p)[n] = 0, Order(m) < Order(n)
  PROVE  l.down[m] # c /\ Order(l.down[m]) <= Order(n)
  <1>1. PICK since : since = NodeSince(b, cov, a, p)
    OBVIOUS
  <1>2. Dances(l.down, l.up, Ring(b, c), c, since)
    BY <1>1 DEF LinksInv, ColumnsDance
  <1>3. PICK d : d = l.down[m]
    OBVIOUS
  <1>4. IsNext(d, m, Ring(b, c), c, since)
    BY <1>2, <1>3 DEF Dances
  <1>5. IsRing(Ring(b, c), c) /\ n \in Ring(b, c) \ {c}
    BY Rings, OwnRing
  <1>6. since[n] = 0
    BY <1>1
  <1>7. Outlasts(since, n, m)
    BY ONLY <1>6 DEF Outlasts
  <1>8. /\ \A k \in Ring(b, c) : Order(k) \in Int
        /\ \A k \in Ring(b, c) \ {c} : Order(c) < Order(k)
        /\ c \in Ring(b, c)
    BY ONLY <1>5, MaxOrderNat DEF IsRing
  <1>9. d \in Ring(b, c)
    BY <1>4 DEF IsNext
  <1>10. CASE /\ Order(m) < Order(d)
              /\ \A k \in Ring(b, c) : Outlasts(since, k, m) /\ Order(m) < Order(k) => Order(d) <= Order(k)
    <2>1. Order(d) <= Order(n) /\ Order(m) < Order(d)
      BY <1>5, <1>7, <1>10
    <2>2. d # c
      <3>1. m = c \/ Order(c) < Order(m)
        BY <1>8
      <3>2. Order(m) \in Int /\ Order(d) \in Int /\ Order(c) \in Int
        BY <1>8, <1>9
      <3> QED BY ONLY <2>1, <3>1, <3>2
    <2> QED BY <1>3, <2>1, <2>2
  <1>11. CASE d = c /\ \A k \in Ring(b, c) : Outlasts(since, k, m) => Order(k) <= Order(m)
    <2>1. Order(n) <= Order(m)
      BY <1>5, <1>7, <1>11
    <2> QED BY <1>5, <1>8, <2>1
  <1> QED BY <1>4, <1>10, <1>11 DEF IsNext

\* Where the columns of a chosen row are in covered.
LEMMA ChosenRow ==
  ASSUME NEW b, NEW cs, NEW st, NEW cov, CallsInv(b, cs, st, cov), 4 * Len(st) <= Len(cov),
         NEW k \in 1..Len(st)
  PROVE  /\ st[k] = cs[k].row /\ st[k] \in Nds(b) /\ ColumnOf(st[k]) = cs[k].col
         /\ cov[4 * k - 3] = ColumnOf(st[k])
         /\ \A j \in 1..3 : cov[4 * k - 3 + j] = ColumnOf(RightOf(st[k])[j])
  <1>1. Len(st) \in Nat /\ Len(cov) \in Nat
    BY CallsTypes
  <1>2. k \in 1..Len(cs) /\ st[k] = cs[k].row /\ cs[k].row # cs[k].col
    BY CallChosen
  <1>3. cs[k].row \in Nds(b) /\ ColumnOf(cs[k].row) = cs[k].col /\ cov[4 * k - 3] = cs[k].col
    BY <1>2, CallRow
  <1>4. CallInv(b, cs, cov, k)
    BY <1>2, CallsParts
  <1>5. ASSUME NEW j \in 1..3
        PROVE  cov[4 * k - 3 + j] = ColumnOf(RightOf(st[k])[j])
    <2>1. k \in Nat /\ k >= 1 /\ k <= Len(st) /\ j \in Nat /\ j <= 3
      BY <1>1
    <2>2. 4 * k - 3 + j <= Len(cov)
      BY ONLY <1>1, <2>1, 4 * Len(st) <= Len(cov)
    <2>3. cov[4 * k - 3 + j] = ColumnOf(RightOf(cs[k].row)[j])
      BY ONLY <1>4, <2>2, j \in 1..3 DEF CallInv
    <2> QED BY <1>2, <2>3
  <1> QED BY <1>2, <1>3, <1>5

\* What is covered for call k.
CallColumns(cov, k) == {cov[4 * k - 3 + j] : j \in 0..3}

LEMMA ChosenColumns ==
  ASSUME NEW b, NEW cs, NEW st, NEW cov, CallsInv(b, cs, st, cov), 4 * Len(st) <= Len(cov),
         NEW k \in 1..Len(st)
  PROVE  RowColumns(st[k]) = CallColumns(cov, k)
  <1>1. /\ st[k] \in Nds(b) /\ cov[4 * k - 3] = ColumnOf(st[k])
        /\ \A j \in 1..3 : cov[4 * k - 3 + j] = ColumnOf(RightOf(st[k])[j])
    BY ONLY CallsInv(b, cs, st, cov), 4 * Len(st) <= Len(cov), k \in 1..Len(st), ChosenRow
  <1>2. RowColumns(st[k]) = {ColumnOf(st[k])} \cup {ColumnOf(RightOf(st[k])[j]) : j \in 1..3}
    BY <1>1, RightFacts
  <1>3. k \in Int
    OBVIOUS
  <1>4. cov[4 * k - 3 + 0] = ColumnOf(st[k])
    <2>1. 4 * k - 3 + 0 = 4 * k - 3
      BY <1>3
    <2> QED BY <1>1, <2>1
  <1>5. \A j \in 0..3 : j = 0 \/ j \in 1..3
    OBVIOUS
  <1>6. 0 \in 0..3 /\ \A j \in 1..3 : j \in 0..3
    OBVIOUS
  <1>7. PICK f : f = [j \in 0..3 |-> cov[4 * k - 3 + j]]
    OBVIOUS
  <1>8. f[0] = ColumnOf(st[k]) /\ \A j \in 1..3 : f[j] = ColumnOf(RightOf(st[k])[j])
    BY <1>1, <1>4, <1>6, <1>7
  <1>9. RowColumns(st[k]) = {f[j] : j \in 0..3}
    BY ONLY <1>2, <1>5, <1>6, <1>8
  <1> QED BY <1>7, <1>9 DEF CallColumns

\* A row that a completion takes with those chosen has none of its columns covered but
\* the one that its call covers.
LEMMA TakenLinked ==
  ASSUME NEW b, NEW cs, NEW st, NEW cov, CallsInv(b, cs, st, cov),
         Len(cs) = Len(st) + 1, Len(cov) = 4 * Len(st) + 1,
         NEW full, Completes(full, b), \A j \in 1..(Len(cs) - 1) : Takes(full, cs[j].row),
         NEW n \in NodesIn(cs[Len(cs)].col, Nds(b)), Takes(full, n), NEW a, NEW p
  PROVE  NodeSince(b, cov, a, p)[n] = 0
  <1> DEFINE S == Len(st)
             L == Len(cs)
             C == Len(cov)
  <1>1. L \in Nat /\ S \in Nat /\ C \in Nat /\ L = S + 1 /\ C = 4 * S + 1
    BY CallsTypes
  <1>2. cov \in Seq(Columns(b)) /\ Distinct(cov)
    BY CallsParts
  <1>3. n \in Nds(b) /\ ColumnOf(n) = cs[L].col /\ ColumnOf(n) \in RowColumns(n)
    BY NodeFacts DEF NodesIn
  <1>4. cov[C] = ColumnOf(n) /\ C \in 1..C
    <2>1. L \in 1..Len(cs) /\ C = 4 * L - 3 /\ C <= Len(cov) /\ C \in 1..C
      <3> HIDE DEF S
      <3> QED BY ONLY <1>1
    <2>2. cov[C] = cs[L].col
      BY <2>1, CallFirst
    <2> QED BY <1>3, <2>1, <2>2
  <1>5. 4 * Len(st) <= Len(cov)
    BY <1>1
  <1> HIDE DEF S, L, C
  <1>6. ASSUME NEW i \in 1..(C - 1), cov[i] \in RowColumns(n)
        PROVE  FALSE
    <2>1. i \in Nat /\ i >= 1 /\ i <= 4 * S
      BY ONLY <1>1, i \in 1..(C - 1)
    <2>2. PICK k \in Nat, j \in 0..3 : i = 4 * k - 3 + j /\ k >= 1
      BY <2>1, FourTimes
    <2>3. k \in 1..S /\ k \in 1..(L - 1)
      BY ONLY <1>1, <2>1, <2>2, k \in Nat, j \in 0..3
    <2>4. k \in 1..Len(st) /\ k \in 1..(Len(cs) - 1)
      BY <2>3 DEF S, L
    <2>5. st[k] = cs[k].row /\ st[k] \in Nds(b)
      BY <1>5, <2>4, ChosenRow
    <2>6. cov[i] \in RowColumns(st[k])
      <3>1. cov[i] \in CallColumns(cov, k)
        BY <2>2 DEF CallColumns
      <3> QED BY <1>5, <2>4, <3>1, ChosenColumns
    <2>7. Takes(full, st[k]) /\ full \in CompleteBoards
      BY <2>4, <2>5 DEF Completes
    <2>8. SameRow(n, st[k])
      BY <1>3, <1>6, <2>5, <2>6, <2>7, Compatible
    <2>9. ColumnOf(n) \in RowColumns(st[k])
      BY <1>3, <2>8, SameRowHits
    <2>10. PICK h \in 0..3 : cov[4 * k - 3 + h] = ColumnOf(n)
      <3>1. RowColumns(st[k]) = CallColumns(cov, k)
        BY <1>5, <2>4, ChosenColumns
      <3> QED BY <2>9, <3>1 DEF CallColumns
    <2>11. PICK e : e = 4 * k - 3 + h
      OBVIOUS
    <2>12. e \in 1..C /\ e # C
      BY ONLY <1>1, <2>3, <2>11, h \in 0..3
    <2>13. cov[e] = cov[C]
      BY <1>4, <2>10, <2>11
    <2> QED BY <1>4, <1>2, <2>12, <2>13 DEF Distinct, C
  <1>7. C \in 1..Len(cov) /\ \A i \in 1..(C - 1) : cov[i] \notin RowColumns(n)
    <2>1. C \in 1..Len(cov)
      BY <1>4 DEF C
    <2> QED BY <1>6, <2>1
  <1> QED BY <1>2, <1>3, <1>4, <1>7, RowLinked

LEMMA SearchStep ==
  ASSUME NEW b, NEW cs, NEW st, NEW p, SearchInv(b, cs, st, p), NEW cs2, NEW st2, NEW p2,
         NEW m \in Nat, Len(cs) \in Nat, Len(cs2) \in Nat, m <= Len(cs), m <= Len(cs2),
         \A k \in 1..m : cs2[k] = cs[k],
         \A k \in 1..m : k > Len(st) /\ p \in {"min", "cover", "hide"} =>
                         k > Len(st2) /\ p2 \in {"min", "cover", "hide"},
         m = Len(cs2) /\ p2 \in {"failed", "uncover", "show"} =>
           m = Len(cs) /\ p \in {"failed", "uncover", "show"},
         \A k \in (m + 1)..Len(cs2) : SearchCall(b, cs2, st2, p2, k)
  PROVE  SearchInv(b, cs2, st2, p2)
  <1>1. ASSUME NEW k \in 1..m
        PROVE  SearchCall(b, cs2, st2, p2, k)
    <2>1. k \in 1..Len(cs)
      OBVIOUS
    <2>2. SearchCall(b, cs, st, p, k)
      BY <2>1 DEF SearchInv
    <2>3. cs2[k] = cs[k] /\ \A j \in 1..(k - 1) : cs2[j] = cs[j]
      OBVIOUS
    <2>4. /\ k > Len(st) /\ p \in {"min", "cover", "hide"} => k > Len(st2) /\ p2 \in {"min", "cover", "hide"}
      OBVIOUS
    <2>5. k = Len(cs2) /\ p2 \in {"failed", "uncover", "show"} => k = Len(cs) /\ p \in {"failed", "uncover", "show"}
      OBVIOUS
    <2> SUFFICES ASSUME ~(k > Len(st2) /\ p2 \in {"min", "cover", "hide"}),
                        NEW full \in CompleteBoards, Completes(full, b),
                        \A j \in 1..(k - 1) : Takes(full, cs2[j].row)
                 PROVE  Tried(b, full, cs2[k], k = Len(cs2) /\ p2 \in {"failed", "uncover", "show"})
      BY DEF SearchCall
    <2>6. \A j \in 1..(k - 1) : Takes(full, cs[j].row)
      BY <2>3
    <2>7. Tried(b, full, cs[k], k = Len(cs) /\ p \in {"failed", "uncover", "show"})
      BY <2>2, <2>4, <2>6 DEF SearchCall
    <2> QED BY ONLY <2>3, <2>5, <2>7 DEF Tried
  <1>2. \A k \in 1..Len(cs2) : k \in 1..m \/ k \in (m + 1)..Len(cs2)
    OBVIOUS
  <1> QED BY <1>1, <1>2 DEF SearchInv

-----------------------------------------------------------------------------
(* What each step means for the search.                                     *)

LEMMA NextRowSearch ==
  ASSUME NEW b, NEW l, NEW cs, NEW st, NEW cov, NEW a, NEW p, CallsInv(b, cs, st, cov),
         Len(cs) = Len(st) + 1, Len(cov) = 4 * Len(st) + 1, LinksInv(b, l, cov, a, "row"),
         SearchInv(b, cs, st, p),
         NEW c, c = cs[Len(cs)].col, NEW m \in Ring(b, c), NEW n, n = l.down[m],
         NEW cs2, Replaced(b, cs, cs2, [col |-> c, row |-> n]),
         \A full \in CompleteBoards :
           Completes(full, b) /\ (\A j \in 1..(Len(cs) - 1) : Takes(full, cs[j].row)) =>
             \A x \in NodesIn(c, Nds(b)) : Takes(full, x) => Order(m) < Order(x)
  PROVE  SearchInv(b, cs2, st, "row")
  <1>1. Len(cs) \in Nat /\ Len(st) \in Nat /\ Len(cs) >= 1 /\ Len(cs) \in 1..Len(cs)
    BY CallsTypes
  <1>2. PICK L \in Nat : L = Len(cs) /\ L >= 1
    BY <1>1
  <1>3. /\ Len(cs2) = L /\ cs2[L] = [col |-> c, row |-> n]
        /\ \A k \in 1..(L - 1) : cs2[k] = cs[k]
    BY <1>2 DEF Replaced
  <1>4. cs2[L].col = c /\ cs2[L].row = n
    BY <1>3
  <1>5. cov \in Seq(Columns(b)) /\ c \in Columns(b)
    <2>1. cov \in Seq(Columns(b)) /\ cs[Len(cs)].col \in Columns(b)
      BY <1>1, CallsTypes
    <2> QED BY <2>1
  <1>6. ASSUME NEW full \in CompleteBoards, Completes(full, b),
               \A j \in 1..(L - 1) : Takes(full, cs2[j].row),
               NEW x \in NodesIn(c, Nds(b)), Takes(full, x)
        PROVE  n # c /\ Order(n) <= Order(x)
    <2>1. \A j \in 1..(Len(cs) - 1) : Takes(full, cs[j].row)
      BY <1>2, <1>3, <1>6
    <2>2. Order(m) < Order(x)
      BY <1>6, <2>1
    <2>3. x \in NodesIn(cs[Len(cs)].col, Nds(b))
      OBVIOUS
    <2>4. NodeSince(b, cov, a, "row")[x] = 0
      BY ONLY CallsInv(b, cs, st, cov), Len(cs) = Len(st) + 1, Len(cov) = 4 * Len(st) + 1,
              <1>6, <2>1, <2>3, TakenLinked
    <2>5. l.down[m] # c /\ Order(l.down[m]) <= Order(x)
      BY ONLY <1>5, <2>2, <2>4, LinksInv(b, l, cov, a, "row"), m \in Ring(b, c),
              x \in NodesIn(c, Nds(b)), NextSkipsNone
    <2> QED BY <2>5
  <1>7. SearchCall(b, cs2, st, "row", L)
    BY ONLY <1>4, <1>6 DEF SearchCall, Tried
  <1>8. PICK h \in Nat : h = L - 1
    <2>1. L - 1 \in Nat
      BY ONLY L \in Nat, <1>2
    <2> QED BY ONLY <2>1
  <1>9. /\ h <= Len(cs) /\ h <= Len(cs2) /\ Len(cs2) \in Nat /\ h # Len(cs2)
        /\ \A k \in 1..h : cs2[k] = cs[k] /\ ~(k > Len(st))
        /\ \A k \in (h + 1)..Len(cs2) : k = L
    BY <1>1, <1>2, <1>3, <1>8
  <1>10. \A k \in (h + 1)..Len(cs2) : SearchCall(b, cs2, st, "row", k)
    BY <1>7, <1>9
  <1> QED BY ONLY <1>1, <1>9, <1>10, h \in Nat, SearchInv(b, cs, st, p), SearchStep

LEMMA CoveredColSearch ==
  ASSUME NEW b, NEW l, NEW cs, NEW st, NEW td, NEW cov, NEW a,
         Running(b, l, cs, st, td, cov, a, "hide"), a = td[1], Len(st) < Len(cs),
         SearchInv(b, cs, st, "hide"), NEW n, n = l.down[cs[Len(cs)].col],
         NEW cs2, Replaced(b, cs, cs2, [col |-> cs[Len(cs)].col, row |-> n])
  PROVE  SearchInv(b, cs2, st, "row")
  <1>1. /\ LinksInv(b, l, cov, a, "hide") /\ CallsInv(b, cs, st, cov)
        /\ PcInv(cs, st, td, cov, "hide") /\ WalkInv(b, cs, td, cov, a, "hide")
    BY DEF Running
  <1>2. /\ cov \in Seq(Columns(b)) /\ Distinct(cov) /\ cov # <<>> /\ td[1] = cov[Len(cov)]
    BY <1>1, AtColumn
  <1>3. Len(cs) = Len(st) + 1 /\ Len(cov) = 4 * Len(st) + 1
    <2>1. Len(cs) \in Nat /\ Len(st) \in Nat
      BY <1>1, CallsTypes
    <2>2. Len(st) # Len(cs)
      BY <2>1
    <2> QED BY <1>1, <2>2 DEF PcInv
  <1>4. LinksInv(b, l, cov, a, "row")
    BY <1>1, <1>2, CoveredKeeps
  <1>5. PICK c : c = cs[Len(cs)].col
    OBVIOUS
  <1>6. c \in Columns(b)
    <2>1. Len(cs) \in 1..Len(cs)
      BY <1>1, <1>3, CallsTypes
    <2>2. cs[Len(cs)].col \in Columns(b)
      BY <1>1, <2>1, CallsTypes
    <2> QED BY <1>5, <2>2
  <1>7. c \in Ring(b, c) /\ \A x \in NodesIn(c, Nds(b)) : Order(c) < Order(x)
    <2>1. IsRing(Ring(b, c), c) /\ \A x \in NodesIn(c, Nds(b)) : x \in Ring(b, c) \ {c}
      BY <1>6, Rings, OwnRing
    <2> QED BY ONLY <2>1 DEF IsRing
  <1>8. \A full \in CompleteBoards :
           Completes(full, b) /\ (\A j \in 1..(Len(cs) - 1) : Takes(full, cs[j].row)) =>
             \A x \in NodesIn(c, Nds(b)) : Takes(full, x) => Order(c) < Order(x)
    BY ONLY <1>7
  <1>9. n = l.down[c] /\ Replaced(b, cs, cs2, [col |-> c, row |-> n])
    BY <1>5
  <1> QED BY ONLY <1>1, <1>3, <1>4, <1>5, <1>7, <1>8, <1>9, SearchInv(b, cs, st, "hide"), NextRowSearch

LEMMA NextSearch ==
  ASSUME NEW b, NEW l, NEW cs, NEW st, NEW td, NEW cov, NEW a,
         Running(b, l, cs, st, td, cov, a, "show"), a = td[1], Tail(td) = <<>>,
         cs[Len(cs)].row # cs[Len(cs)].col, SearchInv(b, cs, st, "show"),
         NEW l2, l2 = LinkColumn(l, td[1]), NEW n, n = l2.down[cs[Len(cs)].row],
         NEW cs2, Replaced(b, cs, cs2, [col |-> cs[Len(cs)].col, row |-> n])
  PROVE  SearchInv(b, cs2, st, "row")
  <1>1. /\ CallsInv(b, cs, st, cov) /\ PcInv(cs, st, td, cov, "show")
    BY DEF Running
  <1>2. PICK cov2 : cov2 = Front(cov)
    OBVIOUS
  <1>3. LinksInv(b, l2, cov2, a, "row") /\ td \in Seq(Columns(b))
    BY ONLY <1>2, Running(b, l, cs, st, td, cov, a, "show"), a = td[1], l2 = LinkColumn(l, td[1]),
            "row" \notin {"hide", "show"}, UncoveredLinks
  <1>4. CallsInv(b, cs, st, cov2) /\ Len(cs) = Len(st) + 1 /\ Len(cov2) = 4 * Len(st) + 1
    BY <1>1, <1>2, <1>3, ShowCalls
  <1>5. PICK c, m : c = cs[Len(cs)].col /\ m = cs[Len(cs)].row
    OBVIOUS
  <1>6. Len(cs) \in 1..Len(cs) /\ Len(st) \in Nat /\ Len(cs) \in Nat
    BY <1>4, CallsTypes
  <1>7. m \in Ring(b, c)
    <2>1. cs[Len(cs)].row \in Ring(b, cs[Len(cs)].col)
      BY <1>4, <1>6, CallsTypes
    <2> QED BY <1>5, <2>1
  <1>8. SearchCall(b, cs, st, "show", Len(cs))
    BY <1>6 DEF SearchInv
  <1>9. \A full \in CompleteBoards :
           Completes(full, b) /\ (\A j \in 1..(Len(cs) - 1) : Takes(full, cs[j].row)) =>
             \A x \in NodesIn(c, Nds(b)) : Takes(full, x) => Order(m) < Order(x)
    BY ONLY <1>5, <1>8 DEF SearchCall, Tried
  <1>10. n = l2.down[m] /\ Replaced(b, cs, cs2, [col |-> c, row |-> n])
    BY <1>5
  <1> QED BY ONLY <1>3, <1>4, <1>5, <1>7, <1>9, <1>10, SearchInv(b, cs, st, "show"), NextRowSearch

\* When solve() has tried all rows, no completion takes the rows chosen.
LEMMA NoneTaken ==
  ASSUME NEW b, NEW cs, NEW st, NEW cov, NEW p, CallsInv(b, cs, st, cov), SearchInv(b, cs, st, p),
         Len(cs) >= 1, p \notin {"min", "cover", "hide"}, cs[Len(cs)].row = cs[Len(cs)].col,
         NEW full, Completes(full, b)
  PROVE  \E j \in 1..(Len(cs) - 1) : ~Takes(full, cs[j].row)
  <1> SUFFICES ASSUME \A j \in 1..(Len(cs) - 1) : Takes(full, cs[j].row) PROVE FALSE
    OBVIOUS
  <1>1. Len(cs) \in Nat /\ Len(cs) \in 1..Len(cs)
    BY CallsTypes
  <1>2. cs[Len(cs)].col \in Columns(b)
    BY <1>1, CallsTypes
  <1>3. PICK x \in NodesIn(cs[Len(cs)].col, Nds(b)) : Takes(full, x)
    BY <1>2, EachColumnTaken
  <1>4. SearchCall(b, cs, st, p, Len(cs)) /\ full \in CompleteBoards
    BY <1>1 DEF SearchInv, Completes
  <1> QED BY <1>3, <1>4 DEF SearchCall, Tried

LEMMA ExhaustedSearch ==
  ASSUME NEW b, NEW cs, NEW st, NEW cov, CallsInv(b, cs, st, cov), SearchInv(b, cs, st, "row"),
         Len(cs) = Len(st) + 1, cs[Len(cs)].row = cs[Len(cs)].col
  PROVE  SearchInv(b, cs, st, "uncover")
  <1>1. Len(cs) \in Nat /\ Len(st) \in Nat /\ Len(cs) >= 1
    BY CallsTypes
  <1>2. PICK h \in Nat : h = Len(cs) - 1
    BY <1>1
  <1>3. SearchCall(b, cs, st, "uncover", Len(cs))
    <2>1. \A full \in CompleteBoards :
            Completes(full, b) => \E j \in 1..(Len(cs) - 1) : ~Takes(full, cs[j].row)
      BY <1>1, NoneTaken
    <2> QED BY ONLY <2>1 DEF SearchCall
  <1>4. /\ h <= Len(cs) /\ h # Len(cs) /\ \A k \in 1..h : ~(k > Len(st))
        /\ \A k \in (h + 1)..Len(cs) : k = Len(cs)
    BY ONLY <1>1, <1>2, Len(cs) = Len(st) + 1
  <1>5. \A k \in (h + 1)..Len(cs) : SearchCall(b, cs, st, "uncover", k)
    BY <1>3, <1>4
  <1> QED BY ONLY <1>1, <1>4, <1>5, h \in Nat, SearchInv(b, cs, st, "row"), SearchStep

\* Of two nodes of a column, only the same one is at the same place.
LEMMA SamePlace ==
  ASSUME NEW b, NEW full, NEW n \in Nds(b), NEW m \in Nds(b),
         Order(n) <= Order(m), ~(Order(n) < Order(m)), Takes(full, m)
  PROVE  Takes(full, n)
  <1>1. Order(n) \in Nat /\ Order(m) \in Nat
    BY NodeOrder
  <1>2. Order(m) = Order(n)
    BY <1>1
  <1>3. SameRow(m, n)
    BY <1>2, NodeOrder
  <1> QED BY <1>3 DEF SameRow, Takes

LEMMA ReturnSearch ==
  ASSUME NEW b, NEW cs, NEW st, NEW td \in Seq(Columns(b)), NEW cov,
         CallsInv(b, cs, st, cov), PcInv(cs, st, td, cov, "show"), SearchInv(b, cs, st, "show"),
         cs[Len(cs)].row = cs[Len(cs)].col
  PROVE  /\ Front(cs) # <<>> => SearchInv(b, Front(cs), st, "failed")
         /\ Front(cs) = <<>> => ~Solvable(b)
  <1>1. /\ Len(cs) \in Nat /\ Len(st) \in Nat /\ cs \in Seq([col : Columns(b), row : VNodes(b)])
    BY CallsTypes
  <1>2. Len(cs) >= 1 /\ cs # <<>> /\ Len(st) = Len(cs) - 1
    BY ReturnCalls
  <1>3. PICK cs2 : cs2 = Front(cs)
    OBVIOUS
  <1>4. /\ cs2 \in Seq([col : Columns(b), row : VNodes(b)]) /\ Len(cs2) = Len(cs) - 1
        /\ \A k \in 1..(Len(cs) - 1) : cs2[k] = cs[k]
    BY <1>1, <1>2, <1>3, FrontFacts
  <1>5. \A full : Completes(full, b) => \E j \in 1..(Len(cs) - 1) : ~Takes(full, cs[j].row)
    BY <1>2, NoneTaken
  <1>6. ASSUME cs2 = <<>>
        PROVE  ~Solvable(b)
    <2>1. \A j \in 1..(Len(cs) - 1) : FALSE
      <3>1. Len(cs2) = 0
        BY <1>6
      <3>2. Len(cs) - 1 = 0
        BY <1>4, <3>1
      <3>3. \A j \in 1..0 : FALSE
        OBVIOUS
      <3> QED BY <3>2, <3>3
    <2>2. \A full : ~Completes(full, b)
      BY ONLY <1>5, <2>1
    <2> QED BY <2>2 DEF Solvable, Completes
  <1>7. ASSUME cs2 # <<>>
        PROVE  SearchInv(b, cs2, st, "failed")
    <2>1. PICK k \in Nat : k = Len(cs2) /\ k >= 1 /\ Len(cs) = k + 1 /\ Len(st) = k
      BY <1>1, <1>2, <1>4, <1>7
    <2>2. /\ k \in 1..Len(cs) /\ k \in 1..Len(st) /\ k \in 1..(Len(cs) - 1)
      BY <2>1
    <2>3. cs2[k] = cs[k] /\ \A j \in 1..(k - 1) : cs2[j] = cs[j]
      BY <1>4, <2>1
    <2>4. SearchCall(b, cs, st, "show", k) /\ k # Len(cs) /\ ~(k > Len(st))
      BY <2>1, <2>2 DEF SearchInv
    <2>5. /\ cs[k].row \in Nds(b)
      <3>1. k \in 1..Len(cs) /\ cs[k].row # cs[k].col
        BY <2>2, CallChosen
      <3> QED BY <3>1, CallRow
    <2>6. ASSUME NEW full \in CompleteBoards, Completes(full, b),
                 \A j \in 1..(k - 1) : Takes(full, cs2[j].row)
          PROVE  Tried(b, full, cs2[k], TRUE)
      <3>1. \A j \in 1..(k - 1) : Takes(full, cs[j].row)
        BY <2>3, <2>6
      <3>2. Tried(b, full, cs[k], FALSE)
        BY ONLY <2>4, <2>6, <3>1, full \in CompleteBoards DEF SearchCall, Tried
      <3>3. ~Takes(full, cs[k].row)
        <4>1. PICK j \in 1..(Len(cs) - 1) : ~Takes(full, cs[j].row)
          BY <1>5, <2>6
        <4>2. j = k \/ j \in 1..(k - 1)
          BY <2>1
        <4> QED BY <3>1, <4>1, <4>2
      <3>4. ASSUME NEW n \in NodesIn(cs[k].col, Nds(b)), Takes(full, n)
            PROVE  cs[k].row # cs[k].col /\ Order(cs[k].row) <= Order(n) /\ Order(cs[k].row) < Order(n)
        <4>1. cs[k].row # cs[k].col /\ Order(cs[k].row) <= Order(n)
          BY <3>2, <3>4 DEF Tried
        <4>2. n \in Nds(b)
          BY DEF NodesIn
        <4> QED BY <2>5, <3>3, <3>4, <4>1, <4>2, SamePlace
      <3> QED BY ONLY <2>3, <3>4 DEF Tried
    <2>7. SearchCall(b, cs2, st, "failed", k)
      BY ONLY <2>6 DEF SearchCall, Tried
    <2>8. PICK h \in Nat : h = k - 1
      BY <2>1
    <2>9. /\ h <= Len(cs) /\ h <= Len(cs2) /\ h # Len(cs2) /\ Len(cs2) \in Nat
          /\ \A j \in 1..h : cs2[j] = cs[j] /\ ~(j > Len(st))
          /\ \A j \in (h + 1)..Len(cs2) : j = k
      BY <2>1, <2>3, <2>8
    <2>10. \A j \in (h + 1)..Len(cs2) : SearchCall(b, cs2, st, "failed", j)
      BY <2>7, <2>9
    <2> QED BY ONLY <1>1, <2>9, <2>10, h \in Nat, SearchInv(b, cs, st, "show"), SearchStep
  <1> QED BY <1>3, <1>6, <1>7

-----------------------------------------------------------------------------
(* When no column is left, the rows chosen fill the board.                  *)

FilledBoard(b, st) ==
  [i \in Cells |->
     IF \E n \in Range(st) : Filled(n) = i
     THEN FilledBy(CHOOSE n \in Range(st) : Filled(n) = i)
     ELSE b[i]]

\* Each column has one row.
LEMMA OneRowEach ==
  ASSUME NEW b, NEW l, NEW cs, NEW st, NEW td, NEW cov, NEW a,
         Running(b, l, cs, st, td, cov, a, "solve"), l.left[root_] = root_
  PROVE  /\ \A n \in Range(st) : n \in Nds(b)
         /\ \A c \in Columns(b) : \E n \in Range(st) : c \in RowColumns(n)
         /\ \A n, m \in Range(st) : \A c : c \in RowColumns(n) /\ c \in RowColumns(m) => n = m
  <1>1. LinksInv(b, l, cov, a, "solve") /\ CallsInv(b, cs, st, cov) /\ PcInv(cs, st, td, cov, "solve")
    BY DEF Running
  <1>2. cov \in Seq(Columns(b)) /\ Distinct(cov)
    BY <1>1, CallsParts
  <1>3. Len(cs) = Len(st) /\ Len(cov) = 4 * Len(cs)
    BY <1>1 DEF PcInv
  <1>4. /\ Len(st) \in Nat /\ st \in Seq(VNodes(b)) /\ cs \in Seq([col : Columns(b), row : VNodes(b)])
        /\ Len(cov) = 4 * Len(st) /\ 4 * Len(st) <= Len(cov) /\ Len(cov) \in Nat
    <2>1. /\ Len(st) \in Nat /\ st \in Seq(VNodes(b)) /\ cs \in Seq([col : Columns(b), row : VNodes(b)])
          /\ Len(cov) \in Nat
      BY <1>1, CallsTypes
    <2>2. Len(cov) = 4 * Len(st)
      BY ONLY <1>3
    <2>3. 4 * Len(st) <= Len(cov)
      BY ONLY <2>1, <2>2
    <2> QED BY ONLY <2>1, <2>2, <2>3
  <1>5. Range(cov) = CoveredBy(cs, st)
    BY <1>1, <1>3, CoveredIs
  <1>6. Columns(b) \subseteq Range(cov)
    BY <1>1, <1>2, HeaderRoot
  <1>7. \A k \in 1..Len(st) : /\ st[k] \in Nds(b) /\ ColumnOf(st[k]) = cs[k].col /\ st[k] \in Range(st)
                              /\ RowColumns(st[k]) = CallColumns(cov, k)
    BY <1>1, <1>4, ChosenRow, ChosenColumns, SeqRange
  <1>8. \A n \in Range(st) : \E k \in 1..Len(st) : st[k] = n
    BY <1>4, SeqRange
  <1>9. ASSUME NEW c \in Columns(b)
        PROVE  \E n \in Range(st) : c \in RowColumns(n)
    <2>1. c \in CoveredBy(cs, st)
      BY <1>5, <1>6
    <2>2. CASE c \in {x.col : x \in Range(cs)}
      <3>1. PICK x \in Range(cs) : c = x.col
        BY <2>2
      <3>2. PICK k \in 1..Len(cs) : cs[k] = x
        BY <1>4, SeqRange
      <3>3. k \in 1..Len(st)
        BY <1>3
      <3>4. st[k] \in Nds(b) /\ ColumnOf(st[k]) = c /\ st[k] \in Range(st)
        BY <1>7, <3>1, <3>2, <3>3
      <3>5. c \in RowColumns(st[k])
        BY <3>4, NodeFacts
      <3> QED BY <3>4, <3>5
    <2> QED BY <2>1, <2>2 DEF CoveredBy
  <1>10. ASSUME NEW j \in 1..Len(st), NEW k \in 1..Len(st), NEW c,
                c \in RowColumns(st[j]), c \in RowColumns(st[k])
         PROVE  j = k
    <2>1. PICK x \in 0..3 : c = cov[4 * j - 3 + x]
      BY <1>7, <1>10 DEF CallColumns
    <2>2. PICK y \in 0..3 : c = cov[4 * k - 3 + y]
      BY <1>7, <1>10 DEF CallColumns
    <2>3. PICK e, f : e = 4 * j - 3 + x /\ f = 4 * k - 3 + y
      OBVIOUS
    <2>4. e \in 1..Len(cov) /\ f \in 1..Len(cov)
      BY ONLY <1>4, <2>3, j \in 1..Len(st), k \in 1..Len(st), x \in 0..3, y \in 0..3
    <2>5. e = f
      BY <1>2, <2>1, <2>2, <2>3, <2>4 DEF Distinct
    <2>6. j \in Int /\ k \in Int
      OBVIOUS
    <2> QED BY ONLY <2>3, <2>5, <2>6, x \in 0..3, y \in 0..3
  <1>11. ASSUME NEW n \in Range(st), NEW m \in Range(st), NEW c, c \in RowColumns(n), c \in RowColumns(m)
         PROVE  n = m
    <2>1. PICK j \in 1..Len(st) : st[j] = n
      BY <1>8
    <2>2. PICK k \in 1..Len(st) : st[k] = m
      BY <1>8
    <2>3. j = k
      BY <1>10, <1>11, <2>1, <2>2
    <2> QED BY <2>1, <2>2, <2>3
  <1> QED BY <1>7, <1>8, <1>9, <1>11

LEMMA SolvedBoard ==
  ASSUME NEW b, NEW l, NEW cs, NEW st, NEW td, NEW cov, NEW a,
         Running(b, l, cs, st, td, cov, a, "solve"), l.left[root_] = root_,
         NEW b2, b2 = FilledBoard(b, st)
  PROVE  Complete(b2) /\ \A i \in Cells : b[i] \in {Blank, b2[i]}
  <1>1. \A n \in Range(st) : n \in Nds(b)
    BY OneRowEach
  <1>2. \A c \in Columns(b) : \E n \in Range(st) : c \in RowColumns(n)
    BY OneRowEach
  <1>3. \A n, m \in Range(st) : \A c : c \in RowColumns(n) /\ c \in RowColumns(m) => n = m
    BY OneRowEach
  <1>4. \A n \in Range(st) : Filled(n) \in Blanks(b) /\ Filled(n) \in Cells
    BY <1>1, NodeFacts
  <1>5. \A n : CellColumn(Filled(n)) \in RowColumns(n)
    BY FourColumns
  <1>6. ASSUME NEW n \in Range(st)
        PROVE  b2[Filled(n)] = FilledBy(n)
    <2>1. PICK m : m = CHOOSE k \in Range(st) : Filled(k) = Filled(n)
      OBVIOUS
    <2>2. m \in Range(st) /\ Filled(m) = Filled(n)
      BY <2>1
    <2>3. m = n
      BY <1>3, <1>5, <2>2
    <2>4. b2[Filled(n)] = FilledBy(m)
      BY <1>4, <2>1 DEF FilledBoard
    <2> QED BY <2>3, <2>4
  <1>7. ASSUME NEW i \in Cells, b[i] # Blank
        PROVE  b2[i] = b[i]
    <2>1. \A n \in Range(st) : Filled(n) # i
      BY <1>4, <1>7 DEF Blanks
    <2> QED BY <2>1 DEF FilledBoard
  <1>8. \A v \in Values : v # Blank
    BY SideNat DEF Values, Blank
  <1>9. ASSUME NEW u \in 0..(Side - 1), NEW v \in Values
        PROVE  Has(b2, v, Row(u)) /\ Has(b2, v, Col(u)) /\ Has(b2, v, Box(u))
    <2>1. \A cells \in SUBSET Cells : Has(b, v, cells) => Has(b2, v, cells)
      BY <1>7, <1>8 DEF Has
    <2>2. Row(u) \in SUBSET Cells /\ Col(u) \in SUBSET Cells /\ Box(u) \in SUBSET Cells
      BY DEF Row, Col, Box
    <2>3. ASSUME NEW c \in Columns(b)
          PROVE  \E n \in Range(st) :
                   /\ b2[Filled(n)] = FilledBy(n) /\ Filled(n) \in Cells
                   /\ c \in {CellColumn(Filled(n)), UnitColumn("row", RowOf(Filled(n)), FilledBy(n)),
                             UnitColumn("col", ColOf(Filled(n)), FilledBy(n)),
                             UnitColumn("box", BoxOf(Filled(n)), FilledBy(n))}
      <3>1. PICK n \in Range(st) : c \in RowColumns(n)
        BY <1>2
      <3> QED BY <1>4, <1>6, <3>1, FourColumns
    <2>4. Has(b2, v, Row(u))
      <3>1. CASE ~Has(b, v, Row(u))
        <4>1. UnitColumn("row", u, v) \in Columns(b)
          BY <3>1, UnitOrCell
        <4>2. PICK n \in Range(st) :
                   /\ b2[Filled(n)] = FilledBy(n) /\ Filled(n) \in Cells
                   /\ UnitColumn("row", u, v) \in
                        {CellColumn(Filled(n)), UnitColumn("row", RowOf(Filled(n)), FilledBy(n)),
                         UnitColumn("col", ColOf(Filled(n)), FilledBy(n)),
                         UnitColumn("box", BoxOf(Filled(n)), FilledBy(n))}
          BY <2>3, <4>1
        <4>3. RowOf(Filled(n)) = u /\ FilledBy(n) = v
          BY ONLY <4>2 DEF CellColumn, UnitColumn
        <4> QED BY <4>2, <4>3 DEF Has, Row
      <3> QED BY <2>1, <2>2, <3>1
    <2>5. Has(b2, v, Col(u))
      <3>1. CASE ~Has(b, v, Col(u))
        <4>1. UnitColumn("col", u, v) \in Columns(b)
          BY <3>1, UnitOrCell
        <4>2. PICK n \in Range(st) :
                   /\ b2[Filled(n)] = FilledBy(n) /\ Filled(n) \in Cells
                   /\ UnitColumn("col", u, v) \in
                        {CellColumn(Filled(n)), UnitColumn("row", RowOf(Filled(n)), FilledBy(n)),
                         UnitColumn("col", ColOf(Filled(n)), FilledBy(n)),
                         UnitColumn("box", BoxOf(Filled(n)), FilledBy(n))}
          BY <2>3, <4>1
        <4>3. ColOf(Filled(n)) = u /\ FilledBy(n) = v
          BY ONLY <4>2 DEF CellColumn, UnitColumn
        <4> QED BY <4>2, <4>3 DEF Has, Col
      <3> QED BY <2>1, <2>2, <3>1
    <2>6. Has(b2, v, Box(u))
      <3>1. CASE ~Has(b, v, Box(u))
        <4>1. UnitColumn("box", u, v) \in Columns(b)
          BY <3>1, UnitOrCell
        <4>2. PICK n \in Range(st) :
                   /\ b2[Filled(n)] = FilledBy(n) /\ Filled(n) \in Cells
                   /\ UnitColumn("box", u, v) \in
                        {CellColumn(Filled(n)), UnitColumn("row", RowOf(Filled(n)), FilledBy(n)),
                         UnitColumn("col", ColOf(Filled(n)), FilledBy(n)),
                         UnitColumn("box", BoxOf(Filled(n)), FilledBy(n))}
          BY <2>3, <4>1
        <4>3. BoxOf(Filled(n)) = u /\ FilledBy(n) = v
          BY ONLY <4>2 DEF CellColumn, UnitColumn
        <4> QED BY <4>2, <4>3 DEF Has, Box
      <3> QED BY <2>1, <2>2, <3>1
    <2> QED BY <2>4, <2>5, <2>6
  <1>10. \A i \in Cells : b[i] \in {Blank, b2[i]}
    BY <1>7
  <1> QED BY <1>9, <1>10 DEF Complete

LEMMA RejectedBoard ==
  ASSUME NEW b, ~(\A i \in Cells : b[i] \in 0..Side)
  PROVE  ~Solvable(b)
  <1> SUFFICES ASSUME NEW full \in CompleteBoards, \A i \in Cells : b[i] \in {Blank, full[i]}
               PROVE  \A i \in Cells : b[i] \in 0..Side
    BY DEF Solvable
  <1>1. full \in [Cells -> Values] /\ Side \in Nat
    BY FullRows, SideNat
  <1> QED BY <1>1 DEF Values, Blank

-----------------------------------------------------------------------------
(* The steps of the specification.                                          *)

LEMMA Runs ==
  ASSUME Inv, pc \notin {"start", "done"}
  PROVE  /\ puzzle \in Puzzles /\ Valid /\ board = puzzle /\ result = FALSE
         /\ Running(puzzle, links, calls, stack_, todo, covered, at, pc)
         /\ SearchInv(puzzle, calls, stack_, pc)
  BY DEF Inv

LEMMA RunsOn ==
  ASSUME Inv, puzzle' = puzzle, board' = board, result' = result, Valid, board = puzzle, result = FALSE,
         pc' \in Pcs \ {"start", "done"},
         Running(puzzle, links', calls', stack_', todo', covered', at', pc'),
         SearchInv(puzzle, calls', stack_', pc')
  PROVE  Inv'
  <1>1. puzzle' \in Puzzles /\ Valid' /\ board' = puzzle' /\ result' = FALSE
    BY DEF Inv, Valid
  <1>2. Running(puzzle', links', calls', stack_', todo', covered', at', pc')
    OBVIOUS
  <1>3. SearchInv(puzzle', calls', stack_', pc')
    OBVIOUS
  <1>4. SolvesExactly'
    BY DEF SolvesExactly
  <1> QED BY <1>1, <1>2, <1>3, <1>4 DEF Inv

LEMMA InitInv == Init => Inv
  BY DEF Init, Inv, SolvesExactly, Pcs

LEMMA RejectInv == Inv /\ Reject => Inv'
  <1> SUFFICES ASSUME Inv, Reject PROVE Inv'
    OBVIOUS
  <1>1. puzzle' = puzzle /\ pc' = "done" /\ result' = FALSE /\ puzzle \in Puzzles
    BY DEF Inv, Reject
  <1>2. ~Solvable(puzzle)
    BY RejectedBoard DEF Reject, Valid
  <1>3. ~Solvable(puzzle')
    BY <1>1, <1>2
  <1>4. SolvesExactly'
    BY <1>1, <1>3 DEF SolvesExactly
  <1> QED BY <1>1, <1>4 DEF Inv, Pcs

LEMMA ConstructInv == Inv /\ Construct => Inv'
  <1> SUFFICES ASSUME Inv, Construct PROVE Inv'
    OBVIOUS
  <1>1. /\ puzzle' = puzzle /\ board' = board /\ result' = result /\ pc' = "solve" /\ Valid
        /\ board = puzzle /\ result = FALSE /\ links' = Built(puzzle)
        /\ calls' = <<>> /\ stack_' = <<>> /\ todo' = <<>> /\ covered' = <<>>
    BY DEF Inv, Construct, search
  <1>2. Running(puzzle, links', calls', stack_', todo', covered', at', pc')
    BY ONLY <1>1, RunConstruct
  <1>3. SearchInv(puzzle, calls', stack_', pc')
    BY ONLY <1>1 DEF SearchInv
  <1>4. pc' \in Pcs \ {"start", "done"}
    BY <1>1 DEF Pcs
  <1> QED BY <1>1, <1>2, <1>3, <1>4, RunsOn

LEMMA SolvedInv == Inv /\ Solved => Inv'
  <1> SUFFICES ASSUME Inv, Solved PROVE Inv'
    OBVIOUS
  <1>1. /\ puzzle' = puzzle /\ pc' = "done" /\ result' = TRUE /\ puzzle \in Puzzles
        /\ links.left[root_] = root_ /\ pc = "solve" /\ board = puzzle
        /\ Running(puzzle, links, calls, stack_, todo, covered, at, "solve")
    BY Runs DEF Solved
  <1>2. board' = FilledBoard(puzzle, stack_)
    BY <1>1 DEF Solved, FilledBoard
  <1>3. Complete(board') /\ \A i \in Cells : puzzle[i] \in {Blank, board'[i]}
    BY ONLY <1>1, <1>2, SolvedBoard
  <1>4. SolvesExactly'
    BY <1>1, <1>3 DEF SolvesExactly, Complete, Has
  <1> QED BY <1>1, <1>4 DEF Inv, Pcs

\* The last call, and the types of what a step writes into it.
LEMMA LastCall ==
  ASSUME NEW b, NEW cs, NEW st, NEW cov, CallsInv(b, cs, st, cov), Len(cs) >= 1
  PROVE  /\ Last(cs) = cs[Len(cs)] /\ cs[Len(cs)].col \in Columns(b) /\ cs[Len(cs)].row \in VNodes(b)
         /\ cs \in Seq([col : Columns(b), row : VNodes(b)])
  <1>1. Len(cs) \in Nat /\ Len(cs) \in 1..Len(cs)
    BY CallsTypes
  <1>2. cs[Len(cs)].col \in Columns(b) /\ cs[Len(cs)].row \in VNodes(b)
    BY <1>1, CallsTypes
  <1>3. cs \in Seq([col : Columns(b), row : VNodes(b)])
    BY CallsParts
  <1> QED BY <1>2, <1>3 DEF Last

LEMMA RunParts ==
  ASSUME NEW b, NEW l, NEW cs, NEW st, NEW td, NEW cov, NEW a, NEW p,
         Running(b, l, cs, st, td, cov, a, p)
  PROVE  /\ l \in Links(b) /\ CallsInv(b, cs, st, cov) /\ PcInv(cs, st, td, cov, p)
         /\ LinksInv(b, l, cov, a, p) /\ WalkInv(b, cs, td, cov, a, p)
         /\ td \in Seq(Columns(b)) /\ cov \in Seq(Columns(b)) /\ Distinct(cov)
         /\ Len(cs) \in Nat /\ Len(st) \in Nat /\ Len(cov) \in Nat
  <1>1. CallsInv(b, cs, st, cov)
    BY DEF Running
  <1>2. Len(cs) \in Nat /\ Len(st) \in Nat /\ Len(cov) \in Nat
    BY <1>1, CallsTypes
  <1>3. cov \in Seq(Columns(b)) /\ Distinct(cov)
    BY <1>1, CallsParts
  <1> QED BY <1>1, <1>2, <1>3 DEF Running, LinksInv, WalkInv

LEMMA PushSearch ==
  ASSUME NEW b, NEW cs, NEW st, NEW x, SearchInv(b, cs, st, "solve"),
         Len(cs) \in Nat, Len(st) = Len(cs), NEW cs2, Pushed(b, cs, cs2, x), NEW p2 \in {"min", "cover"}
  PROVE  SearchInv(b, cs2, st, p2)
  <1>1. PICK m \in Nat : m = Len(cs)
    OBVIOUS
  <1>2. Len(cs2) = m + 1 /\ \A k \in 1..m : cs2[k] = cs[k]
    BY <1>1 DEF Pushed
  <1>3. Len(cs2) \in Nat /\ m <= Len(cs) /\ m <= Len(cs2) /\ m # Len(cs2)
    BY <1>1, <1>2
  <1>4. \A k \in (m + 1)..Len(cs2) : k > Len(st)
    BY <1>1
  <1>5. \A k \in (m + 1)..Len(cs2) : SearchCall(b, cs2, st, p2, k)
    BY <1>4 DEF SearchCall
  <1> QED BY ONLY <1>2, <1>3, <1>5, m \in Nat, Len(cs) \in Nat, SearchInv(b, cs, st, "solve"),
                  "solve" \notin {"min", "cover", "hide"}, SearchStep

LEMMA SmallerSearch ==
  ASSUME NEW b, NEW cs, NEW st, NEW x, SearchInv(b, cs, st, "min"),
         Len(cs) \in Nat, Len(st) \in Nat, Len(cs) = Len(st) + 1,
         NEW cs2, Replaced(b, cs, cs2, x), NEW p2 \in {"min", "cover"}
  PROVE  SearchInv(b, cs2, st, p2)
  <1>1. PICK m \in Nat : m = Len(st)
    OBVIOUS
  <1>2. Len(cs2) = m + 1 /\ \A k \in 1..m : cs2[k] = cs[k]
    BY <1>1 DEF Replaced
  <1>3. /\ Len(cs2) \in Nat /\ m <= Len(cs) /\ m <= Len(cs2) /\ m # Len(cs2)
        /\ \A k \in 1..m : ~(k > Len(st))
    BY <1>1, <1>2
  <1>4. \A k \in (m + 1)..Len(cs2) : k > Len(st)
    BY <1>1
  <1>5. \A k \in (m + 1)..Len(cs2) : SearchCall(b, cs2, st, p2, k)
    BY <1>4 DEF SearchCall
  <1> QED BY ONLY <1>2, <1>3, <1>5, m \in Nat, Len(cs) \in Nat, SearchInv(b, cs, st, "min"), SearchStep

\* A step that leaves the calls as they are.
LEMMA SameSearch ==
  ASSUME NEW b, NEW cs, NEW st, NEW p, SearchInv(b, cs, st, p), Len(cs) \in Nat, NEW st2, NEW p2,
         \A k \in 1..Len(cs) : k > Len(st) /\ p \in {"min", "cover", "hide"} =>
                               k > Len(st2) /\ p2 \in {"min", "cover", "hide"},
         p2 \in {"failed", "uncover", "show"} => p \in {"failed", "uncover", "show"}
  PROVE  SearchInv(b, cs, st2, p2)
  <1>1. PICK m \in Nat : m = Len(cs)
    OBVIOUS
  <1>2. /\ m <= Len(cs) /\ \A k \in (m + 1)..Len(cs) : SearchCall(b, cs, st2, p2, k)
    BY <1>1
  <1> QED BY ONLY <1>1, <1>2, SearchInv(b, cs, st, p), Len(cs) \in Nat,
                  \A k \in 1..Len(cs) : k > Len(st) /\ p \in {"min", "cover", "hide"} =>
                                        k > Len(st2) /\ p2 \in {"min", "cover", "hide"},
                  p2 \in {"failed", "uncover", "show"} => p \in {"failed", "uncover", "show"}, SearchStep

LEMMA ChooseInv == Inv /\ Choose => Inv'
  <1> SUFFICES ASSUME Inv, Choose PROVE Inv'
    OBVIOUS
  <1>1. pc = "solve" /\ links.left[root_] # root_
    BY DEF Choose
  <1>2. /\ Valid /\ board = puzzle /\ result = FALSE
        /\ Running(puzzle, links, calls, stack_, todo, covered, at, "solve")
        /\ SearchInv(puzzle, calls, stack_, "solve")
    BY <1>1, Runs
  <1>3. PICK c : c = links.right[root_]
    OBVIOUS
  <1>4. /\ calls' = Append(calls, [col |-> c, row |-> c]) /\ todo' = <<c>> /\ at' = links.right[c]
        /\ pc' \in {"min", "cover"}
        /\ puzzle' = puzzle /\ board' = board /\ links' = links /\ stack_' = stack_
        /\ covered' = covered /\ result' = result
    BY <1>3 DEF Choose
  <1>5. /\ CallsInv(puzzle, calls, stack_, covered) /\ PcInv(calls, stack_, todo, covered, "solve")
        /\ LinksInv(puzzle, links, covered, at, "solve") /\ Len(calls) \in Nat
        /\ covered \in Seq(Columns(puzzle)) /\ Distinct(covered)
    BY <1>2, RunParts
  <1>6. c \in Columns(puzzle)
    BY ONLY <1>1, <1>3, <1>5, HeaderRoot
  <1>7. [col |-> c, row |-> c] \in [col : Columns(puzzle), row : VNodes(puzzle)]
    BY <1>6 DEF VNodes
  <1>8. calls \in Seq([col : Columns(puzzle), row : VNodes(puzzle)]) /\ Len(stack_) = Len(calls)
    BY <1>5, CallsParts DEF PcInv
  <1>9. Pushed(puzzle, calls, calls', [col |-> c, row |-> c])
    <2>1. \A cs2 : cs2 = Append(calls, [col |-> c, row |-> c]) => Pushed(puzzle, calls, cs2, [col |-> c, row |-> c])
      BY ONLY <1>7, <1>8, AppendCall
    <2> QED BY <1>4, <2>1
  <1>10. Running(puzzle, links, calls', stack_, <<c>>, covered, links.right[c], pc')
    BY ONLY <1>1, <1>2, <1>3, <1>4, <1>9, RunChoose
  <1>11. SearchInv(puzzle, calls', stack_, pc')
    BY ONLY <1>2, <1>4, <1>5, <1>8, <1>9, PushSearch
  <1>12. pc' \in Pcs \ {"start", "done"}
    BY <1>4 DEF Pcs
  <1> QED BY <1>2, <1>4, <1>10, <1>11, <1>12, RunsOn

LEMMA SmallerInv == Inv /\ Smaller => Inv'
  <1> SUFFICES ASSUME Inv, Smaller PROVE Inv'
    OBVIOUS
  <1>1. pc = "min" /\ at # root_
    BY DEF Smaller
  <1>2. /\ Valid /\ board = puzzle /\ result = FALSE
        /\ Running(puzzle, links, calls, stack_, todo, covered, at, "min")
        /\ SearchInv(puzzle, calls, stack_, "min")
    BY <1>1, Runs
  <1>3. /\ calls' = [calls EXCEPT ![Len(calls)] = [col |-> at, row |-> at]]
        /\ todo' = <<at>> /\ at' = links.right[at] /\ pc' \in {"min", "cover"}
        /\ puzzle' = puzzle /\ board' = board /\ links' = links /\ stack_' = stack_
        /\ covered' = covered /\ result' = result
    BY DEF Smaller
  <1>4. /\ CallsInv(puzzle, calls, stack_, covered) /\ PcInv(calls, stack_, todo, covered, "min")
        /\ WalkInv(puzzle, calls, todo, covered, at, "min")
        /\ Len(calls) \in Nat /\ Len(stack_) \in Nat
        /\ covered \in Seq(Columns(puzzle)) /\ Distinct(covered)
    BY <1>2, RunParts
  <1>5. at \in Columns(puzzle)
    <2>1. at \in Header(puzzle) /\ HeaderSince(puzzle, covered)[at] = 0
      BY <1>4 DEF WalkInv
    <2> QED BY ONLY <1>1, <1>4, <2>1, HeaderColumn
  <1>6. [col |-> at, row |-> at] \in [col : Columns(puzzle), row : VNodes(puzzle)]
    BY <1>5 DEF VNodes
  <1>7. Len(calls) = Len(stack_) + 1
    BY <1>4 DEF PcInv
  <1>8. calls \in Seq([col : Columns(puzzle), row : VNodes(puzzle)]) /\ Len(calls) >= 1
    BY <1>4, <1>7, CallsParts
  <1>9. Replaced(puzzle, calls, calls', [col |-> at, row |-> at])
    <2>1. \A cs2 : cs2 = [calls EXCEPT ![Len(calls)] = [col |-> at, row |-> at]] =>
                     Replaced(puzzle, calls, cs2, [col |-> at, row |-> at])
      BY ONLY <1>6, <1>8, ExceptLast
    <2> QED BY <1>3, <2>1
  <1>10. Running(puzzle, links, calls', stack_, <<at>>, covered, links.right[at], pc')
    BY ONLY <1>1, <1>2, <1>3, <1>9, RunSmaller
  <1>11. SearchInv(puzzle, calls', stack_, pc')
    BY ONLY <1>2, <1>3, <1>4, <1>7, <1>9, SmallerSearch
  <1>12. pc' \in Pcs \ {"start", "done"}
    BY <1>3 DEF Pcs
  <1> QED BY <1>2, <1>3, <1>10, <1>11, <1>12, RunsOn

LEMMA NotSmallerInv == Inv /\ NotSmaller => Inv'
  <1> SUFFICES ASSUME Inv, NotSmaller PROVE Inv'
    OBVIOUS
  <1>1. /\ pc = "min" /\ pc' = "min" /\ at' = links.right[at]
        /\ puzzle' = puzzle /\ board' = board /\ links' = links /\ stack_' = stack_ /\ calls' = calls
        /\ todo' = todo /\ covered' = covered /\ result' = result
    BY DEF NotSmaller, search
  <1>2. /\ Valid /\ board = puzzle /\ result = FALSE
        /\ Running(puzzle, links, calls, stack_, todo, covered, at, "min")
        /\ SearchInv(puzzle, calls, stack_, "min")
    BY <1>1, Runs
  <1>3. Running(puzzle, links, calls, stack_, todo, covered, links.right[at], "min")
    BY ONLY <1>2, RunNotSmaller
  <1>4. pc' \in Pcs \ {"start", "done"}
    BY <1>1 DEF Pcs
  <1> QED BY <1>1, <1>2, <1>3, <1>4, RunsOn

LEMMA MinFoundInv == Inv /\ MinFound => Inv'
  <1> SUFFICES ASSUME Inv, MinFound PROVE Inv'
    OBVIOUS
  <1>1. /\ pc = "min" /\ pc' = "cover" /\ at' = at
        /\ puzzle' = puzzle /\ board' = board /\ links' = links /\ stack_' = stack_ /\ calls' = calls
        /\ todo' = todo /\ covered' = covered /\ result' = result
    BY DEF MinFound, search
  <1>2. /\ Valid /\ board = puzzle /\ result = FALSE
        /\ Running(puzzle, links, calls, stack_, todo, covered, at, "min")
        /\ SearchInv(puzzle, calls, stack_, "min")
    BY <1>1, Runs
  <1>3. Running(puzzle, links, calls, stack_, todo, covered, at, "cover")
    BY ONLY <1>2, RunMinFound
  <1>4. Len(calls) \in Nat
    BY <1>2, RunParts
  <1>5. SearchInv(puzzle, calls, stack_, "cover")
    <2>1. "cover" \in {"min", "cover", "hide"} /\ "cover" \notin {"failed", "uncover", "show"}
      OBVIOUS
    <2> QED BY ONLY <1>2, <1>4, <2>1, SameSearch
  <1>6. pc' \in Pcs \ {"start", "done"}
    BY <1>1 DEF Pcs
  <1> QED BY <1>1, <1>2, <1>3, <1>5, <1>6, RunsOn

LEMMA HeadFirst ==
  ASSUME NEW S, NEW s \in Seq(S), Len(s) >= 1
  PROVE  Head(s) = s[1]
  OBVIOUS

\* There is a column to cover or to uncover.
LEMMA TodoHead ==
  ASSUME NEW b, NEW l, NEW cs, NEW st, NEW td, NEW cov, NEW a,
         NEW p \in {"cover", "hide", "uncover", "show"}, Running(b, l, cs, st, td, cov, a, p)
  PROVE  Head(td) = td[1]
  <1>1. CallsInv(b, cs, st, cov) /\ PcInv(cs, st, td, cov, p) /\ td \in Seq(Columns(b))
    BY RunParts
  <1>2. CASE p = "cover"
    <2>1. td = <<cs[Len(cs)].col>> \/ Len(td) \in 1..3
      BY ONLY <1>1, <1>2 DEF PcInv
    <2>2. \A x \in 1..3 : x >= 1
      OBVIOUS
    <2>3. Len(td) >= 1
      BY <2>1, <2>2
    <2> QED BY ONLY <1>1, <2>3, HeadFirst
  <1>3. CASE p \in {"hide", "uncover", "show"}
    <2>1. Len(td) >= 1
      BY ONLY <1>1, <1>3, AtColumn
    <2> QED BY ONLY <1>1, <2>1, HeadFirst
  <1> QED BY <1>2, <1>3

LEMMA CoverInv == Inv /\ Cover => Inv'
  <1> SUFFICES ASSUME Inv, Cover PROVE Inv'
    OBVIOUS
  <1>1. pc = "cover" /\ pc' = "hide"
    BY DEF Cover
  <1>2. /\ Valid /\ board = puzzle /\ result = FALSE
        /\ Running(puzzle, links, calls, stack_, todo, covered, at, "cover")
        /\ SearchInv(puzzle, calls, stack_, "cover")
    BY <1>1, Runs
  <1>3. Head(todo) = todo[1]
    BY ONLY <1>2, "cover" \in {"cover", "hide", "uncover", "show"}, TodoHead
  <1>4. PICK c : c = todo[1]
    OBVIOUS
  <1>5. /\ links' = UnlinkColumn(links, c) /\ at' = links.down[c] /\ covered' = Append(covered, c)
        /\ puzzle' = puzzle /\ board' = board /\ stack_' = stack_ /\ calls' = calls
        /\ todo' = todo /\ result' = result
    BY <1>3, <1>4 DEF Cover, search
  <1>6. Running(puzzle, UnlinkColumn(links, c), calls, stack_, todo, Append(covered, c), links.down[c], "hide")
    BY ONLY <1>2, <1>4, RunCover
  <1>7. Len(calls) \in Nat
    BY <1>2, RunParts
  <1>8. SearchInv(puzzle, calls, stack_, "hide")
    <2>1. "hide" \in {"min", "cover", "hide"} /\ "hide" \notin {"failed", "uncover", "show"}
      OBVIOUS
    <2> QED BY ONLY <1>2, <1>7, <2>1, SameSearch
  <1>9. pc' \in Pcs \ {"start", "done"}
    BY <1>1 DEF Pcs
  <1> QED BY <1>1, <1>2, <1>5, <1>6, <1>8, <1>9, RunsOn

LEMMA HideRowInv == Inv /\ HideRow => Inv'
  <1> SUFFICES ASSUME Inv, HideRow PROVE Inv'
    OBVIOUS
  <1>1. pc = "hide" /\ pc' = "hide"
    BY DEF HideRow
  <1>2. /\ Valid /\ board = puzzle /\ result = FALSE
        /\ Running(puzzle, links, calls, stack_, todo, covered, at, "hide")
        /\ SearchInv(puzzle, calls, stack_, "hide")
    BY <1>1, Runs
  <1>3. Head(todo) = todo[1]
    BY ONLY <1>2, "hide" \in {"cover", "hide", "uncover", "show"}, TodoHead
  <1>4. /\ links' = HideOthers(links, at) /\ at' = links'.down[at] /\ at # todo[1]
        /\ puzzle' = puzzle /\ board' = board /\ stack_' = stack_ /\ calls' = calls
        /\ todo' = todo /\ covered' = covered /\ result' = result
    BY <1>3 DEF HideRow, search
  <1>5. Running(puzzle, links', calls, stack_, todo, covered, links'.down[at], "hide")
    BY ONLY <1>2, <1>4, RunHideRow
  <1>6. pc' \in Pcs \ {"start", "done"}
    BY <1>1 DEF Pcs
  <1> QED BY <1>1, <1>2, <1>4, <1>5, <1>6, RunsOn

LEMMA CoveredInv == Inv /\ Covered => Inv'
  <1> SUFFICES ASSUME Inv, Covered PROVE Inv'
    OBVIOUS
  <1>1. pc = "hide"
    BY DEF Covered
  <1>2. /\ Valid /\ board = puzzle /\ result = FALSE
        /\ Running(puzzle, links, calls, stack_, todo, covered, at, "hide")
        /\ SearchInv(puzzle, calls, stack_, "hide")
    BY <1>1, Runs
  <1>3. Head(todo) = todo[1]
    BY ONLY <1>2, "hide" \in {"cover", "hide", "uncover", "show"}, TodoHead
  <1>4. /\ todo' = Tail(todo) /\ at = todo[1]
        /\ puzzle' = puzzle /\ board' = board /\ links' = links /\ stack_' = stack_
        /\ at' = at /\ covered' = covered /\ result' = result
    BY <1>3 DEF Covered
  <1>5. /\ links \in Links(puzzle) /\ CallsInv(puzzle, calls, stack_, covered)
        /\ PcInv(calls, stack_, todo, covered, "hide")
        /\ Len(calls) \in Nat /\ Len(stack_) \in Nat
    BY <1>2, RunParts
  <1>6. Len(calls) >= 1
    BY <1>5, LastCovered
  <1>7. /\ Last(calls) = calls[Len(calls)] /\ calls[Len(calls)].col \in Columns(puzzle)
        /\ calls \in Seq([col : Columns(puzzle), row : VNodes(puzzle)])
    BY <1>5, <1>6, LastCall
  <1>8. CASE Len(stack_) < Len(calls)
    <2>1. PICK c, n : c = calls[Len(calls)].col /\ n = links.down[c]
      OBVIOUS
    <2>2. calls' = [calls EXCEPT ![Len(calls)] = [col |-> c, row |-> n]] /\ pc' = "row"
      BY <1>7, <1>8, <2>1 DEF Covered, AtRow, col
    <2>3. c \in Columns(puzzle) /\ links.down \in [VNodes(puzzle) -> VNodes(puzzle)]
      BY <1>5, <1>7, <2>1, LinkTypes
    <2>4. [col |-> c, row |-> n] \in [col : Columns(puzzle), row : VNodes(puzzle)]
      <3>1. c \in VNodes(puzzle)
        BY <2>3 DEF VNodes
      <3>2. n \in VNodes(puzzle)
        BY ONLY <2>1, <2>3, <3>1
      <3> QED BY <2>3, <3>2
    <2>5. Replaced(puzzle, calls, calls', [col |-> c, row |-> n])
      <3>1. \A cs2 : cs2 = [calls EXCEPT ![Len(calls)] = [col |-> c, row |-> n]] =>
                       Replaced(puzzle, calls, cs2, [col |-> c, row |-> n])
        BY ONLY <1>6, <1>7, <2>4, ExceptLast
      <3> QED BY <2>2, <3>1
    <2>6. /\ n = links.down[calls[Len(calls)].col]
          /\ Replaced(puzzle, calls, calls', [col |-> calls[Len(calls)].col, row |-> n])
      BY <2>1, <2>5
    <2>7. Running(puzzle, links, calls', stack_, Tail(todo), covered, at, "row")
      BY ONLY <1>2, <1>4, <1>8, <2>6, RunCoveredCol
    <2>8. SearchInv(puzzle, calls', stack_, "row")
      BY ONLY <1>2, <1>4, <1>8, <2>6, CoveredColSearch
    <2>9. pc' \in Pcs \ {"start", "done"}
      BY <2>2 DEF Pcs
    <2> QED BY <1>2, <1>4, <2>2, <2>7, <2>8, <2>9, RunsOn
  <1>9. CASE ~(Len(stack_) < Len(calls))
    <2>1. PICK p2 : p2 = IF Tail(todo) = <<>> THEN "solve" ELSE "cover"
      OBVIOUS
    <2>2. pc' = p2 /\ calls' = calls
      BY <1>4, <1>9, <2>1 DEF Covered
    <2>3. Running(puzzle, links, calls, stack_, Tail(todo), covered, at, p2)
      BY ONLY <1>2, <1>4, <1>9, <2>1, RunCovered
    <2>4. p2 \in {"solve", "cover"}
      BY <2>1
    <2>5. \A k \in 1..Len(calls) : ~(k > Len(stack_))
      BY ONLY <1>5, <1>9
    <2>6. SearchInv(puzzle, calls, stack_, p2)
      <3>1. p2 \notin {"failed", "uncover", "show"}
        BY <2>4
      <3> QED BY ONLY <1>2, <1>5, <2>5, <3>1, SameSearch
    <2>7. pc' \in Pcs \ {"start", "done"}
      BY <2>2, <2>4 DEF Pcs
    <2> QED BY <1>2, <1>4, <2>2, <2>3, <2>6, <2>7, RunsOn
  <1> QED BY <1>8, <1>9

LEMMA UncoverInv == Inv /\ Uncover => Inv'
  <1> SUFFICES ASSUME Inv, Uncover PROVE Inv'
    OBVIOUS
  <1>1. pc = "uncover" /\ pc' = "show"
    BY DEF Uncover
  <1>2. /\ Valid /\ board = puzzle /\ result = FALSE
        /\ Running(puzzle, links, calls, stack_, todo, covered, at, "uncover")
        /\ SearchInv(puzzle, calls, stack_, "uncover")
    BY <1>1, Runs
  <1>3. Head(todo) = todo[1]
    BY ONLY <1>2, "uncover" \in {"cover", "hide", "uncover", "show"}, TodoHead
  <1>4. /\ at' = links.up[todo[1]] /\ links' = links
        /\ puzzle' = puzzle /\ board' = board /\ stack_' = stack_ /\ calls' = calls
        /\ todo' = todo /\ covered' = covered /\ result' = result
    BY <1>3 DEF Uncover, search
  <1>5. Running(puzzle, links, calls, stack_, todo, covered, links.up[todo[1]], "show")
    BY ONLY <1>2, RunUncover
  <1>6. Len(calls) \in Nat
    BY <1>2, RunParts
  <1>7. SearchInv(puzzle, calls, stack_, "show")
    <2>1. "uncover" \notin {"min", "cover", "hide"} /\ "uncover" \in {"failed", "uncover", "show"}
      OBVIOUS
    <2> QED BY ONLY <1>2, <1>6, <2>1, SameSearch
  <1>8. pc' \in Pcs \ {"start", "done"}
    BY <1>1 DEF Pcs
  <1> QED BY <1>1, <1>2, <1>4, <1>5, <1>7, <1>8, RunsOn

LEMMA ShowRowInv == Inv /\ ShowRow => Inv'
  <1> SUFFICES ASSUME Inv, ShowRow PROVE Inv'
    OBVIOUS
  <1>1. pc = "show" /\ pc' = "show"
    BY DEF ShowRow
  <1>2. /\ Valid /\ board = puzzle /\ result = FALSE
        /\ Running(puzzle, links, calls, stack_, todo, covered, at, "show")
        /\ SearchInv(puzzle, calls, stack_, "show")
    BY <1>1, Runs
  <1>3. Head(todo) = todo[1]
    BY ONLY <1>2, "show" \in {"cover", "hide", "uncover", "show"}, TodoHead
  <1>4. /\ links' = ShowOthers(links, at) /\ at' = links'.up[at] /\ at # todo[1]
        /\ puzzle' = puzzle /\ board' = board /\ stack_' = stack_ /\ calls' = calls
        /\ todo' = todo /\ covered' = covered /\ result' = result
    BY <1>3 DEF ShowRow, search
  <1>5. Running(puzzle, links', calls, stack_, todo, covered, links'.up[at], "show")
    BY ONLY <1>2, <1>4, RunShowRow
  <1>6. pc' \in Pcs \ {"start", "done"}
    BY <1>1 DEF Pcs
  <1> QED BY <1>1, <1>2, <1>4, <1>5, <1>6, RunsOn

LEMMA UncoveredInv == Inv /\ Uncovered => Inv'
  <1> SUFFICES ASSUME Inv, Uncovered PROVE Inv'
    OBVIOUS
  <1>1. pc = "show"
    BY DEF Uncovered
  <1>2. /\ puzzle \in Puzzles /\ Valid /\ board = puzzle /\ result = FALSE
        /\ Running(puzzle, links, calls, stack_, todo, covered, at, "show")
        /\ SearchInv(puzzle, calls, stack_, "show")
    BY <1>1, Runs
  <1>3. Head(todo) = todo[1]
    BY ONLY <1>2, "show" \in {"cover", "hide", "uncover", "show"}, TodoHead
  <1>4. /\ links' = LinkColumn(links, todo[1]) /\ todo' = Tail(todo) /\ covered' = Front(covered)
        /\ at = todo[1] /\ at' = at
        /\ puzzle' = puzzle /\ board' = board /\ stack_' = stack_ /\ result' = result
    BY <1>3 DEF Uncovered
  <1>5. /\ CallsInv(puzzle, calls, stack_, covered) /\ PcInv(calls, stack_, todo, covered, "show")
        /\ todo \in Seq(Columns(puzzle)) /\ Len(calls) \in Nat
    BY <1>2, RunParts
  <1>6. Len(calls) >= 1
    BY <1>5, LastCovered
  <1>7. /\ Last(calls) = calls[Len(calls)]
        /\ calls[Len(calls)].col \in Columns(puzzle) /\ calls[Len(calls)].row \in VNodes(puzzle)
        /\ calls \in Seq([col : Columns(puzzle), row : VNodes(puzzle)])
    BY <1>5, <1>6, LastCall
  <1>8. CASE todo' # <<>> /\ pc' = "uncover" /\ calls' = calls
    <2>1. Tail(todo) # <<>>
      BY <1>4, <1>8
    <2>2. Running(puzzle, links', calls, stack_, Tail(todo), Front(covered), at, "uncover")
      BY ONLY <1>2, <1>4, <2>1, RunUncovered
    <2>3. SearchInv(puzzle, calls, stack_, "uncover")
      <3>1. "show" \notin {"min", "cover", "hide"} /\ "show" \in {"failed", "uncover", "show"}
        OBVIOUS
      <3> QED BY ONLY <1>2, <1>5, <3>1, SameSearch
    <2>4. pc' \in Pcs \ {"start", "done"}
      BY <1>8 DEF Pcs
    <2> QED BY <1>2, <1>4, <1>8, <2>2, <2>3, <2>4, RunsOn
  <1>9. CASE todo' = <<>> /\ row # col /\ calls' = AtRow(links'.down[row]) /\ pc' = "row"
    <2>1. PICK c, r, n : c = calls[Len(calls)].col /\ r = calls[Len(calls)].row /\ n = links'.down[r]
      OBVIOUS
    <2>2. calls' = [calls EXCEPT ![Len(calls)] = [col |-> c, row |-> n]] /\ r # c
      BY <1>7, <1>9, <2>1 DEF AtRow, col, row
    <2>3. LinksInv(puzzle, links', Front(covered), at, "row")
      BY ONLY <1>2, <1>4, "row" \notin {"hide", "show"}, UncoveredLinks
    <2>4. links'.down \in [VNodes(puzzle) -> VNodes(puzzle)]
      <3>1. links' \in Links(puzzle)
        BY <2>3 DEF LinksInv
      <3> QED BY ONLY <3>1, LinkTypes
    <2>5. n \in VNodes(puzzle) /\ c \in Columns(puzzle)
      BY <1>7, <2>1, <2>4
    <2>6. [col |-> c, row |-> n] \in [col : Columns(puzzle), row : VNodes(puzzle)]
      BY <2>5
    <2>7. Replaced(puzzle, calls, calls', [col |-> c, row |-> n])
      <3>1. \A cs2 : cs2 = [calls EXCEPT ![Len(calls)] = [col |-> c, row |-> n]] =>
                       Replaced(puzzle, calls, cs2, [col |-> c, row |-> n])
        BY ONLY <1>6, <1>7, <2>6, ExceptLast
      <3> QED BY <2>2, <3>1
    <2>8. /\ n = links'.down[calls[Len(calls)].row] /\ calls[Len(calls)].row # calls[Len(calls)].col
          /\ Replaced(puzzle, calls, calls', [col |-> calls[Len(calls)].col, row |-> n])
          /\ Tail(todo) = <<>>
      BY <1>4, <1>9, <2>1, <2>2, <2>7
    <2>9. Running(puzzle, links', calls', stack_, Tail(todo), Front(covered), at, "row")
      BY ONLY <1>2, <1>4, <2>8, RunNextRow
    <2>10. SearchInv(puzzle, calls', stack_, "row")
      BY ONLY <1>2, <1>4, <2>8, NextSearch
    <2>11. pc' \in Pcs \ {"start", "done"}
      BY <1>9 DEF Pcs
    <2> QED BY <1>2, <1>4, <1>9, <2>9, <2>10, <2>11, RunsOn
  <1>10. CASE /\ todo' = <<>> /\ row = col /\ calls' = Front(calls)
              /\ pc' = IF calls' = <<>> THEN "done" ELSE "failed"
    <2>1. calls[Len(calls)].row = calls[Len(calls)].col
      BY <1>7, <1>10 DEF row, col
    <2>2. /\ Front(calls) # <<>> => SearchInv(puzzle, Front(calls), stack_, "failed")
          /\ Front(calls) = <<>> => ~Solvable(puzzle)
      BY ONLY <1>2, <1>5, <2>1, ReturnSearch
    <2>3. CASE Front(calls) # <<>>
      <3>1. Running(puzzle, links', Front(calls), stack_, Tail(todo), Front(covered), at, "failed")
        BY ONLY <1>2, <1>4, <2>1, <2>3, RunReturn
      <3>2. pc' = "failed" /\ pc' \in Pcs \ {"start", "done"}
        BY <1>10, <2>3 DEF Pcs
      <3> QED BY <1>2, <1>4, <1>10, <2>2, <2>3, <3>1, <3>2, RunsOn
    <2>4. CASE Front(calls) = <<>>
      <3>1. pc' = "done" /\ result' = FALSE /\ puzzle' \in Puzzles
        BY <1>2, <1>4, <1>10, <2>4
      <3>2. ~Solvable(puzzle')
        BY <1>4, <2>2, <2>4
      <3>3. SolvesExactly'
        BY <3>1, <3>2 DEF SolvesExactly
      <3> QED BY <3>1, <3>3 DEF Inv, Pcs
    <2> QED BY <2>3, <2>4
  <1> QED BY <1>8, <1>9, <1>10 DEF Uncovered

LEMMA TryRowInv == Inv /\ TryRow => Inv'
  <1> SUFFICES ASSUME Inv, TryRow PROVE Inv'
    OBVIOUS
  <1>1. pc = "row" /\ pc' = "cover"
    BY DEF TryRow
  <1>2. /\ Valid /\ board = puzzle /\ result = FALSE
        /\ Running(puzzle, links, calls, stack_, todo, covered, at, "row")
        /\ SearchInv(puzzle, calls, stack_, "row")
    BY <1>1, Runs
  <1>3. /\ CallsInv(puzzle, calls, stack_, covered) /\ PcInv(calls, stack_, todo, covered, "row")
        /\ Len(calls) \in Nat /\ Len(stack_) \in Nat
    BY <1>2, RunParts
  <1>4. Len(calls) = Len(stack_) + 1 /\ Len(calls) >= 1
    BY <1>3 DEF PcInv
  <1>5. Last(calls) = calls[Len(calls)] /\ calls[Len(calls)].row \in VNodes(puzzle)
    BY <1>3, <1>4, LastCall
  <1>6. /\ stack_' = Append(stack_, calls[Len(calls)].row)
        /\ todo' = ColumnsOf(RightOf(calls[Len(calls)].row))
        /\ calls[Len(calls)].row # calls[Len(calls)].col
        /\ puzzle' = puzzle /\ board' = board /\ links' = links /\ calls' = calls
        /\ at' = at /\ covered' = covered /\ result' = result
    BY <1>5 DEF TryRow, row, col
  <1>7. Running(puzzle, links, calls, stack_', todo', covered, at, "cover")
    BY ONLY <1>2, <1>6, RunTryRow
  <1>8. SearchInv(puzzle, calls, stack_', "cover")
    <2>1. "row" \notin {"min", "cover", "hide"} /\ "cover" \notin {"failed", "uncover", "show"}
      OBVIOUS
    <2> QED BY ONLY <1>2, <1>3, <2>1, SameSearch
  <1>9. pc' \in Pcs \ {"start", "done"}
    BY <1>1 DEF Pcs
  <1> QED BY <1>1, <1>2, <1>6, <1>7, <1>8, <1>9, RunsOn

LEMMA UndoRowInv == Inv /\ UndoRow => Inv'
  <1> SUFFICES ASSUME Inv, UndoRow PROVE Inv'
    OBVIOUS
  <1>1. pc = "failed" /\ pc' = "uncover"
    BY DEF UndoRow
  <1>2. /\ Valid /\ board = puzzle /\ result = FALSE
        /\ Running(puzzle, links, calls, stack_, todo, covered, at, "failed")
        /\ SearchInv(puzzle, calls, stack_, "failed")
    BY <1>1, Runs
  <1>3. /\ CallsInv(puzzle, calls, stack_, covered) /\ PcInv(calls, stack_, todo, covered, "failed")
        /\ Len(calls) \in Nat
    BY <1>2, RunParts
  <1>4. Len(calls) >= 1
    BY <1>3 DEF PcInv
  <1>5. Last(calls) = calls[Len(calls)]
    BY <1>3, <1>4, LastCall
  <1>6. /\ stack_' = Front(stack_)
        /\ todo' = ColumnsOf(LeftOf(calls[Len(calls)].row))
        /\ puzzle' = puzzle /\ board' = board /\ links' = links /\ calls' = calls
        /\ at' = at /\ covered' = covered /\ result' = result
    BY <1>5 DEF UndoRow, row
  <1>7. Running(puzzle, links, calls, stack_', todo', covered, at, "uncover")
    BY ONLY <1>2, <1>6, RunUndoRow
  <1>8. SearchInv(puzzle, calls, stack_', "uncover")
    <2>1. "failed" \notin {"min", "cover", "hide"} /\ "failed" \in {"failed", "uncover", "show"}
      OBVIOUS
    <2> QED BY ONLY <1>2, <1>3, <2>1, SameSearch
  <1>9. pc' \in Pcs \ {"start", "done"}
    BY <1>1 DEF Pcs
  <1> QED BY <1>1, <1>2, <1>6, <1>7, <1>8, <1>9, RunsOn

LEMMA ExhaustedInv == Inv /\ Exhausted => Inv'
  <1> SUFFICES ASSUME Inv, Exhausted PROVE Inv'
    OBVIOUS
  <1>1. pc = "row" /\ pc' = "uncover"
    BY DEF Exhausted
  <1>2. /\ Valid /\ board = puzzle /\ result = FALSE
        /\ Running(puzzle, links, calls, stack_, todo, covered, at, "row")
        /\ SearchInv(puzzle, calls, stack_, "row")
    BY <1>1, Runs
  <1>3. /\ CallsInv(puzzle, calls, stack_, covered) /\ PcInv(calls, stack_, todo, covered, "row")
        /\ Len(calls) \in Nat /\ Len(stack_) \in Nat
    BY <1>2, RunParts
  <1>4. Len(calls) = Len(stack_) + 1 /\ Len(calls) >= 1
    BY <1>3 DEF PcInv
  <1>5. Last(calls) = calls[Len(calls)]
    BY <1>3, <1>4, LastCall
  <1>6. /\ todo' = <<calls[Len(calls)].col>> /\ calls[Len(calls)].row = calls[Len(calls)].col
        /\ puzzle' = puzzle /\ board' = board /\ links' = links /\ calls' = calls /\ stack_' = stack_
        /\ at' = at /\ covered' = covered /\ result' = result
    BY <1>5 DEF Exhausted, row, col, search
  <1>7. Running(puzzle, links, calls, stack_, <<calls[Len(calls)].col>>, covered, at, "uncover")
    BY ONLY <1>2, <1>6, RunExhausted
  <1>8. SearchInv(puzzle, calls, stack_, "uncover")
    BY ONLY <1>2, <1>3, <1>4, <1>6, ExhaustedSearch
  <1>9. pc' \in Pcs \ {"start", "done"}
    BY <1>1 DEF Pcs
  <1> QED BY <1>1, <1>2, <1>6, <1>7, <1>8, <1>9, RunsOn

-----------------------------------------------------------------------------
(* The theorems.                                                            *)

LEMMA StutterInv == Inv /\ UNCHANGED vars => Inv'
  BY DEF Inv, vars, search, Valid, SolvesExactly, Complete, Has

\* The invariant holds in every state: every node, the unlinked ones too, has next to it
\* the nodes that were linked when it was last, and no completion takes a row that a call
\* of solve() has tried.
THEOREM Invariant == Spec => []Inv
  <1>1. Inv /\ [Next]_vars => Inv'
    BY RejectInv, ConstructInv, SolvedInv, ChooseInv, SmallerInv, NotSmallerInv, MinFoundInv,
       CoverInv, HideRowInv, CoveredInv, UncoverInv, ShowRowInv, UncoveredInv, TryRowInv,
       UndoRowInv, ExhaustedInv, StutterInv DEF Next
  <1> QED BY <1>1, InitInv, PTL DEF Spec

\* solveSudoku() answers exactly, for every puzzle and every size of box: a board that it
\* returns is a completion of the puzzle, and NoSolution means that there is none.
THEOREM AnswersExactly == Spec => []SolvesExactly
  <1>1. Inv => SolvesExactly
    BY DEF Inv
  <1> QED BY <1>1, Invariant, PTL

LEMMA LinksOfRest == Inv => LinksMatchStack
  <1> SUFFICES ASSUME Inv, pc \in {"solve", "row", "failed"} PROVE LinksMatchStack
    BY DEF LinksMatchStack
  <1>1. Running(puzzle, links, calls, stack_, todo, covered, at, pc)
    BY Runs
  <1>2. CoveredColumns = CoveredBy(calls, stack_)
    BY DEF CoveredColumns, CoveredBy, RowColumns
  <1>3. OpenRows = OpenOf(puzzle, calls, stack_)
    BY <1>2 DEF OpenRows, OpenOf
  <1>4. Matches(puzzle, links, calls, stack_)
    BY ONLY <1>1, pc \in {"solve", "row", "failed"}, RunMatches
  <1> QED BY <1>2, <1>3, <1>4 DEF LinksMatchStack, Matches

\* However often solve() has backtracked, the links are those of the exact cover problem
\* that is left: uncover() undoes cover() exactly.
THEOREM LinksOfWhatIsLeft == Spec => []LinksMatchStack
  BY LinksOfRest, Invariant, PTL

-----------------------------------------------------------------------------
(* The assertions of the constructor.                                       *)

LEMMA ColumnsFit ==
  ASSUME NEW b
  PROVE  IsFiniteSet(Columns(b)) /\ Cardinality(Columns(b)) <= 4 * (Side * Side)
  <1>1. PICK k \in Nat : k = 4 * (Side * Side)
    BY CellsNat
  <1>2. PICK f : f = [c \in Columns(b) |-> Order(c)]
    OBVIOUS
  <1>3. f \in Injection(Columns(b), 1..k)
    <2>1. f \in [Columns(b) -> 1..k]
      BY <1>1, <1>2, ColumnOrder
    <2>2. \A c, d \in Columns(b) : f[c] = f[d] => c = d
      BY <1>2, ColumnsOrdered
    <2> QED BY <2>1, <2>2 DEF Injection, IsInjective
  <1>4. IsFiniteSet(1..k) /\ Cardinality(1..k) = k
    BY FS_Interval
  <1> QED BY <1>1, <1>3, <1>4, FS_Injection

LEMMA CandidatesFit ==
  ASSUME NEW b
  PROVE  IsFiniteSet(Candidates(b)) /\ Cardinality(Candidates(b)) <= Side * Side * Side
  <1>1. PICK s \in Nat, k \in Nat : s = Side /\ s >= 1 /\ k = Side * Side /\ k >= 1 /\ k * s \in Nat
    BY SideNat, CellsNat, Products
  <1>2. \A x \in Candidates(b) : x[1] \in 0..(k - 1) /\ x[2] - 1 \in 0..(s - 1) /\ x = <<x[1], x[2]>>
    BY <1>1 DEF Candidates, Blanks, Cells, Values
  <1>3. PICK f : f = [x \in Candidates(b) |-> x[1] * s + (x[2] - 1)]
    OBVIOUS
  <1>4. f \in Injection(Candidates(b), 0..(k * s - 1))
    <2>1. f \in [Candidates(b) -> 0..(k * s - 1)]
      BY <1>1, <1>2, <1>3, Below
    <2>2. ASSUME NEW x \in Candidates(b), NEW y \in Candidates(b), f[x] = f[y]
          PROVE  x = y
      <3>1. /\ x[1] \in Int /\ x[2] - 1 \in 0..(s - 1) /\ y[1] \in Int /\ y[2] - 1 \in 0..(s - 1)
            /\ x[1] * s + (x[2] - 1) = y[1] * s + (y[2] - 1)
        BY <1>2, <1>3, <2>2
      <3>2. x[1] = y[1] /\ x[2] - 1 = y[2] - 1
        <4>1. PICK u, v, t, w : u = x[1] /\ v = x[2] - 1 /\ t = y[1] /\ w = y[2] - 1
          OBVIOUS
        <4>2. /\ u \in Int /\ v \in 0..(s - 1) /\ t \in Int /\ w \in 0..(s - 1)
              /\ u * s + v = t * s + w
          BY <3>1, <4>1
        <4>3. u = t /\ v = w
          BY ONLY s \in Nat, <1>1, <4>2, Lex
        <4> QED BY <4>1, <4>3
      <3>3. x[2] \in Int /\ y[2] \in Int
        BY DEF Candidates, Values
      <3> QED BY <1>2, <3>2, <3>3
    <2> QED BY <2>1, <2>2 DEF Injection, IsInjective
  <1>5. IsFiniteSet(0..(k * s - 1)) /\ Cardinality(0..(k * s - 1)) = k * s
    <2>1. PICK n \in Nat : n = k * s
      BY <1>1
    <2>2. IsFiniteSet(0..(n - 1)) /\ Cardinality(0..(n - 1)) = n
      BY FS_Interval
    <2> QED BY <2>1, <2>2
  <1>6. k * s = Side * Side * Side
    BY <1>1
  <1> QED BY <1>4, <1>5, <1>6, FS_Injection

LEMMA SmallSide ==
  ASSUME BoxSize <= 3
  PROVE  Side \in 1..9 /\ Side * Side \in 1..81
  <1>1. BoxSize \in {1, 2, 3}
    BY SideNat
  <1>2. Side \in {1, 4, 9}
    BY <1>1 DEF Side
  <1> QED BY <1>2

\* Where the names of a kind of unit begin in columns_.
Base(kind) == IF kind = "row" THEN 100 ELSE IF kind = "col" THEN 200 ELSE 300

LEMMA Bases ==
  /\ \A x \in {"row", "col", "box"} : Base(x) \in {100, 200, 300}
  /\ \A x, y \in {"row", "col", "box"} : Base(x) = Base(y) => x = y
  BY DEF Base

LEMMA Names ==
  ASSUME BoxSize <= 3, NEW b, NEW c \in Columns(b)
  PROVE  \/ \E i \in 0..80 : c = <<<<"cell", i, 0>>, -1, 0>> /\ name(c) = i
         \/ \E x \in {"row", "col", "box"}, u \in 0..8, v \in 1..9 :
               c = <<<<x, u, v>>, -1, 0>> /\ name(c) = Base(x) + u * 10 + v
  <1>1. CASE \E i \in Blanks(b) : c = CellColumn(i)
    <2>1. PICK i \in Blanks(b) : c = CellColumn(i)
      BY <1>1
    <2>2. i \in 0..80
      BY BlankCell, SmallSide
    <2>3. c = <<<<"cell", i, 0>>, -1, 0>>
      BY <2>1 DEF CellColumn
    <2>4. name(c) = i
      BY <2>3 DEF name
    <2> QED BY <2>2, <2>3, <2>4
  <1>2. CASE \E u \in 0..(Side - 1), v \in Values :
               c \in {UnitColumn("row", u, v), UnitColumn("col", u, v), UnitColumn("box", u, v)}
    <2>1. PICK u \in 0..(Side - 1), v \in Values :
               c \in {UnitColumn("row", u, v), UnitColumn("col", u, v), UnitColumn("box", u, v)}
      BY <1>2
    <2>2. u \in 0..8 /\ v \in 1..9
      BY SmallSide DEF Values
    <2>3. PICK x \in {"row", "col", "box"} : c = <<<<x, u, v>>, -1, 0>>
      BY <2>1 DEF UnitColumn
    <2>4. name(c) = Base(x) + u * 10 + v
      BY <2>3 DEF name, Base
    <2> QED BY <2>2, <2>3, <2>4
  <1> QED BY <1>1, <1>2, UnitOrCell

LEMMA NamesApart ==
  ASSUME BoxSize <= 3, NEW b, NEW c \in Columns(b), NEW d \in Columns(b), name(c) = name(d)
  PROVE  c = d
  <1>1. PICK m : m = name(c) /\ m = name(d)
    OBVIOUS
  <1>2. ASSUME NEW e \in Columns(b), m = name(e)
        PROVE  \/ \E i \in 0..80 : e = <<<<"cell", i, 0>>, -1, 0>> /\ m = i
               \/ \E x \in {"row", "col", "box"}, u \in 0..8, v \in 1..9, p \in {100, 200, 300} :
                     e = <<<<x, u, v>>, -1, 0>> /\ p = Base(x) /\ m = p + u * 10 + v
    BY <1>2, Names, Bases
  <1>3. CASE \E i \in 0..80 : c = <<<<"cell", i, 0>>, -1, 0>> /\ m = i
    <2>1. m \in 0..80
      BY <1>3
    <2>2. \E i \in 0..80 : d = <<<<"cell", i, 0>>, -1, 0>> /\ m = i
      <3>1. CASE \E x \in {"row", "col", "box"}, u \in 0..8, v \in 1..9, p \in {100, 200, 300} :
                   d = <<<<x, u, v>>, -1, 0>> /\ p = Base(x) /\ m = p + u * 10 + v
        <4>1. \E u \in 0..8, v \in 1..9, p \in {100, 200, 300} : m = p + u * 10 + v
          BY <3>1
        <4> QED BY ONLY <2>1, <4>1
      <3> QED BY <1>1, <1>2, <3>1
    <2> QED BY ONLY <1>3, <2>2
  <1>4. CASE \E x \in {"row", "col", "box"}, u \in 0..8, v \in 1..9, p \in {100, 200, 300} :
               c = <<<<x, u, v>>, -1, 0>> /\ p = Base(x) /\ m = p + u * 10 + v
    <2>1. PICK x \in {"row", "col", "box"}, u \in 0..8, v \in 1..9, p \in {100, 200, 300} :
               c = <<<<x, u, v>>, -1, 0>> /\ p = Base(x) /\ m = p + u * 10 + v
      BY <1>4
    <2>2. m \notin 0..80
      <3>1. p >= 100 /\ p \in Int
        BY p \in {100, 200, 300}
      <3>2. m = p + u * 10 + v
        BY <2>1
      <3> QED BY ONLY <3>1, <3>2, u \in 0..8, v \in 1..9
    <2>3. \E y \in {"row", "col", "box"}, s \in 0..8, t \in 1..9, q \in {100, 200, 300} :
               d = <<<<y, s, t>>, -1, 0>> /\ q = Base(y) /\ m = q + s * 10 + t
      BY <1>1, <1>2, <2>2
    <2>4. PICK y \in {"row", "col", "box"}, s \in 0..8, t \in 1..9, q \in {100, 200, 300} :
               d = <<<<y, s, t>>, -1, 0>> /\ q = Base(y) /\ m = q + s * 10 + t
      BY <2>3
    <2>5. p + u * 10 + v = q + s * 10 + t
      BY <2>1, <2>4
    <2>6. p = q /\ u = s /\ v = t
      BY ONLY <2>5, u \in 0..8, v \in 1..9, s \in 0..8, t \in 1..9,
              p \in {100, 200, 300}, q \in {100, 200, 300}
    <2>7. x = y
      <3>1. Base(x) = Base(y)
        BY ONLY <2>1, <2>4, <2>6
      <3> QED BY ONLY <3>1, x \in {"row", "col", "box"}, y \in {"row", "col", "box"}, Bases
    <2> QED BY ONLY <2>1, <2>4, <2>6, <2>7
  <1> QED BY <1>1, <1>2, <1>3, <1>4

\* With boxes of the code's size or smaller none of the constructor's assertions fails,
\* whatever the puzzle: nodes_ and columns_ are large enough, and each column has a place
\* of its own there.
THEOREM ConstructorIsSafe ==
  ASSUME BoxSize <= 3
  PROVE  Spec => []ConstructorAssertionsHold
  <1>1. ASSUME NEW b
        PROVE  1 + Cardinality(Columns(b)) + 4 * Cardinality(Candidates(b)) <= kMaxNodes
    <2>1. PICK k \in Nat, m \in Nat : k = Side * Side /\ m = Side * Side * Side
      BY SideNat, CellsNat, Products
    <2>2. /\ Cardinality(Columns(b)) \in Nat /\ Cardinality(Columns(b)) <= 4 * k
          /\ Cardinality(Candidates(b)) \in Nat /\ Cardinality(Candidates(b)) <= m
      BY <2>1, ColumnsFit, CandidatesFit, FS_CardinalityType
    <2>3. kMaxNodes = 1 + 4 * k + 4 * m
      BY <2>1 DEF kMaxNodes
    <2> QED BY <2>2, <2>3
  <1>2. ASSUME NEW b, NEW c \in Columns(b)
        PROVE  name(c) \in 0..399 /\ (name(c) < 100 <=> c[1][1] = "cell")
    <2>1. CASE \E i \in 0..80 : c = <<<<"cell", i, 0>>, -1, 0>> /\ name(c) = i
      BY <2>1
    <2>2. CASE \E x \in {"row", "col", "box"}, u \in 0..8, v \in 1..9 :
                 c = <<<<x, u, v>>, -1, 0>> /\ name(c) = Base(x) + u * 10 + v
      BY <2>2, Bases
    <2> QED BY <2>1, <2>2, Names
  <1>3. ASSUME NEW b, NEW c \in Columns(b), NEW d \in Columns(b), name(c) = name(d)
        PROVE  c = d
    BY <1>3, NamesApart
  <1>4. \A b : \A n \in Nds(b) : ColumnOf(n) \in Columns(b)
    BY NodeFacts
  <1>5. ConstructorAssertionsHold
    BY <1>1, <1>2, <1>3, <1>4 DEF ConstructorAssertionsHold, Nds
  <1> QED BY <1>5, PTL

=============================================================================
