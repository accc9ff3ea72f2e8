------------------------------- MODULE Sudoku -------------------------------
(****************************************************************************)
(* sudoku/sudoku.cc: solveSudoku() and its SudokuSolver, Knuth's dancing    *)
(* links.  Nodes unlinked by cover() keep their own links, and uncover()    *)
(* puts them back from these, which works if covers are undone in the       *)
(* opposite order.  The recursion of solve() is a stack of calls; a step is *)
(* an iteration of one of the loops.                                        *)
(****************************************************************************)
EXTENDS Integers, FiniteSets, SequencesExt, Functions

CONSTANTS
  BoxSize,   \* 3 in the code
  Puzzles    \* the puzzles solveSudoku() is called with, as the digits of their cells

Side   == BoxSize * BoxSize
Cells  == 0..(Side * Side - 1)
Values == 1..Side

ASSUME SudokuAssumption ==
  /\ BoxSize \in Nat \ {0}
  /\ Puzzles \subseteq [Cells -> Int]

VARIABLES
  puzzle,
  board,     \* inout_
  links,     \* the nodes: left, right and size of the columns, up and down of all
  stack_,
  calls,     \* the calls of solve() under way: their col, and their row so far
  todo,      \* the columns the loop over a row has still to cover or to uncover
  at,        \* cc of get_min_column(), row of cover() and uncover()
  covered,   \* history: the columns covered and not uncovered, the first one first
  pc,        \* where solve() and the members it calls are
  result     \* whether solve() returned true

search == <<stack_, calls>>
vars == <<puzzle, board, links, search, todo, at, covered, pc, result>>

\* pc: before solveSudoku() has looked at its argument; at the start of solve(); in the loop of
\* get_min_column(); before and in the loops of cover() and uncover(); at a row; after an
\* inner solve() that failed; at the end.
Pcs == {"start", "solve", "min", "cover", "hide", "row", "failed", "uncover", "show", "done"}

Blank == 0
Blanks(b) == {i \in Cells : b[i] = Blank}

RowOf(i) == i \div Side
ColOf(i) == i % Side
BoxOf(i) == (RowOf(i) \div BoxSize) * BoxSize + ColOf(i) \div BoxSize

\* The columns of the exact cover: cell i is filled; row, column or box i has value v.
\* A column node is <<column, -1, 0>>; a node of the row "v in cell i", <<column, i, v>>.
CellColumn(i)    == <<<<"cell", i, 0>>, -1, 0>>
UnitColumn(kind, i, v) == <<<<kind, i, v>>, -1, 0>>
root_            == <<<<"root", 0, 0>>, -1, 0>>

\* The index of a column in columns_: kRow, kCol and kBox are 100, 200 and 300.
name(column) ==
  LET kind == column[1][1]  u == column[1][2]  v == column[1][3]
  IN  IF kind = "cell" THEN u
      ELSE (IF kind = "row" THEN 100 ELSE IF kind = "col" THEN 200 ELSE 300) + u * 10 + v

kMaxNodes == 1 + 4 * (Side * Side) + 4 * (Side * Side * Side)

ColumnOf(node) == <<node[1], -1, 0>>
Filled(node)   == node[2]
FilledBy(node) == node[3]

\* new_row() and put_left(): n0, nr, nc and nb, each to the right of the one before.
RowNodes(i, v) ==
  << <<<<"cell", i, 0>>, i, v>>, <<<<"row", RowOf(i), v>>, i, v>>,
     <<<<"col", ColOf(i), v>>, i, v>>, <<<<"box", BoxOf(i), v>>, i, v>> >>

\* The other nodes of a node's row, in the order of ->right and of ->left.
RightOf(node) ==
  LET nodes == RowNodes(Filled(node), FilledBy(node))
      k     == CHOOSE k \in 1..4 : nodes[k] = node
  IN  [j \in 1..3 |-> nodes[((k + j - 1) % 4) + 1]]

\* Mutant: a row is left to the right as well.
LeftIsRight(node) == RightOf(node)

LeftOf(node) == [j \in 1..3 |-> RightOf(node)[4 - j]]

-----------------------------------------------------------------------------
(* The constructor.                                                         *)

\* The cells of row, column and box u.
Row(u) == {i \in Cells : RowOf(i) = u}
Col(u) == {i \in Cells : ColOf(i) = u}
Box(u) == {i \in Cells : BoxOf(i) = u}

\* Some of the cells has the value v.
Has(b, v, cells) == \E i \in cells : b[i] = v

\* append_column(): the blank cells, and what is missing in the rows, columns and boxes.
Columns(b) ==
  {CellColumn(i) : i \in Blanks(b)} \cup
  UNION {{UnitColumn("row", u, v) : u \in {u \in 0..(Side - 1) : ~Has(b, v, Row(u))}} \cup
         {UnitColumn("col", u, v) : u \in {u \in 0..(Side - 1) : ~Has(b, v, Col(u))}} \cup
         {UnitColumn("box", u, v) : u \in {u \in 0..(Side - 1) : ~Has(b, v, Box(u))}} :
           v \in Values}

\* The rows: v fits into the blank cell i.
Candidates(b) ==
  {c \in Blanks(b) \X Values :
     /\ ~Has(b, c[2], Row(RowOf(c[1])))
     /\ ~Has(b, c[2], Col(ColOf(c[1])))
     /\ ~Has(b, c[2], Box(BoxOf(c[1])))}

Nodes(candidates) == UNION {Range(RowNodes(c[1], c[2])) : c \in candidates}
NodesIn(column, nodes) == {n \in nodes : ColumnOf(n) = column}

\* The order in which the constructor takes the nodes from nodes_: root_, the columns, and
\* the rows, whose four nodes are in different rings.
Order(node) ==
  LET kind == node[1][1]  u == node[1][2]  v == node[1][3]
      cells == Side * Side
  IN  IF Filled(node) >= 0 THEN 4 * cells + 1 + Filled(node) * Side + FilledBy(node)
      ELSE IF kind = "root" THEN 0
      ELSE IF kind = "cell" THEN 1 + u
      ELSE 1 + cells + 3 * (u * Side + v - 1) +
             (IF kind = "row" THEN 0 ELSE IF kind = "col" THEN 1 ELSE 2)

\* put_left() and put_up() add at the end of a ring, which is before its head.
After(ring, n)  == {m \in ring : Order(m) > Order(n)}
Before(ring, n) == {m \in ring : Order(m) < Order(n)}

First(ring) == CHOOSE m \in ring : \A k \in ring : Order(m) <= Order(k)
Final(ring) == CHOOSE m \in ring : \A k \in ring : Order(k) <= Order(m)

Following(ring, n) == First(IF After(ring, n) = {} THEN ring ELSE After(ring, n))
Preceding(ring, n) == Final(IF Before(ring, n) = {} THEN ring ELSE Before(ring, n))

Built(b) ==
  LET columns == Columns(b)
      header  == columns \cup {root_}
      nodes   == Nodes(Candidates(b))
      rings   == [c \in columns |-> {c} \cup NodesIn(c, nodes)]
  IN  [right |-> [c \in header |-> Following(header, c)],
       left  |-> [c \in header |-> Preceding(header, c)],
       down  |-> [n \in columns \cup nodes |-> Following(rings[ColumnOf(n)], n)],
       up    |-> [n \in columns \cup nodes |-> Preceding(rings[ColumnOf(n)], n)],
       size  |-> [c \in columns |-> Cardinality(NodesIn(c, nodes))]]

-----------------------------------------------------------------------------
(* What cover() and uncover() do to the links l.                            *)

\* Assign y to one of the links of x.
Put(link, x, y) == [link EXCEPT ![x] = y]

UnlinkColumn(l, c) ==
  [l EXCEPT !.left  = Put(l.left, l.right[c], l.left[c]),
            !.right = Put(l.right, l.left[c], l.right[c])]

LinkColumn(l, c) ==
  [l EXCEPT !.left  = Put(l.left, l.right[c], c),
            !.right = Put(l.right, l.left[c], c)]

HideNode(l, j) ==
  [l EXCEPT !.up   = Put(l.up, l.down[j], l.up[j]),
            !.down = Put(l.down, l.up[j], l.down[j]),
            !.size = Put(l.size, ColumnOf(j), l.size[ColumnOf(j)] - 1)]

ShowNode(l, j) ==
  [l EXCEPT !.up   = Put(l.up, l.down[j], j),
            !.down = Put(l.down, l.up[j], j),
            !.size = Put(l.size, ColumnOf(j), l.size[ColumnOf(j)] + 1)]

\* The inner loops, over the three other nodes of a row.
HideOthers(l, n) ==
  HideNode(HideNode(HideNode(l, RightOf(n)[1]), RightOf(n)[2]), RightOf(n)[3])

ShowOthers(l, n) ==
  ShowNode(ShowNode(ShowNode(l, LeftOf(n)[1]), LeftOf(n)[2]), LeftOf(n)[3])

-----------------------------------------------------------------------------
(* solveSudoku() and solve().                                               *)

Init ==
  /\ puzzle \in Puzzles
  /\ board = puzzle
  /\ links = <<>>
  /\ stack_ = <<>>
  /\ calls = <<>>
  /\ todo = <<>>
  /\ at = root_
  /\ covered = <<>>
  /\ pc = "start"
  /\ result = FALSE

Valid == \A i \in Cells : puzzle[i] \in 0..Side

Reject ==
  /\ pc = "start"
  /\ ~Valid
  /\ pc' = "done"
  /\ UNCHANGED <<puzzle, board, links, search, todo, at, covered, result>>

Construct ==
  /\ pc = "start"
  /\ Valid
  /\ links' = Built(board)
  /\ pc' = "solve"
  /\ UNCHANGED <<puzzle, board, search, todo, at, covered, result>>

\* No column is left: every call of solve() returns true.
Solved ==
  /\ pc = "solve"
  /\ links.left[root_] = root_
  /\ board' = [i \in Cells |->
                 IF \E n \in Range(stack_) : Filled(n) = i
                 THEN FilledBy(CHOOSE n \in Range(stack_) : Filled(n) = i)
                 ELSE board[i]]
  /\ result' = TRUE
  /\ pc' = "done"
  /\ UNCHANGED <<puzzle, links, search, todo, at, covered>>

col == Last(calls).col
row == Last(calls).row

\* The last call goes on with row n.
AtRow(n) == [calls EXCEPT ![Len(calls)] = [col |-> col, row |-> n]]

\* get_min_column(): its c is col, the first column to begin with.
Choose ==
  /\ pc = "solve"
  /\ links.left[root_] # root_
  /\ LET c == links.right[root_]
     IN  /\ calls' = Append(calls, [col |-> c, row |-> c])
         /\ todo' = <<c>>
         /\ at' = links.right[c]
         /\ pc' = IF links.size[c] > 1 THEN "min" ELSE "cover"
  /\ UNCHANGED <<puzzle, board, links, stack_, covered, result>>

Smaller ==
  /\ pc = "min"
  /\ at # root_
  /\ links.size[at] < links.size[col]
  /\ calls' = [calls EXCEPT ![Len(calls)] = [col |-> at, row |-> at]]
  /\ todo' = <<at>>
  /\ at' = links.right[at]
  /\ pc' = IF links.size[at] > 1 THEN "min" ELSE "cover"
  /\ UNCHANGED <<puzzle, board, links, stack_, covered, result>>

NotSmaller ==
  /\ pc = "min"
  /\ at # root_
  /\ links.size[at] >= links.size[col]
  /\ at' = links.right[at]
  /\ UNCHANGED <<puzzle, board, links, search, todo, covered, pc, result>>

MinFound ==
  /\ pc = "min"
  /\ at = root_
  /\ pc' = "cover"
  /\ UNCHANGED <<puzzle, board, links, search, todo, at, covered, result>>

-----------------------------------------------------------------------------
(* cover() and uncover() of the first column of todo.                       *)

Cover ==
  /\ pc = "cover"
  /\ links' = UnlinkColumn(links, Head(todo))
  /\ at' = links.down[Head(todo)]
  /\ covered' = Append(covered, Head(todo))
  /\ pc' = "hide"
  /\ UNCHANGED <<puzzle, board, search, todo, result>>

HideRow ==
  /\ pc = "hide"
  /\ at # Head(todo)
  /\ links' = HideOthers(links, at)
  /\ at' = links'.down[at]
  /\ UNCHANGED <<puzzle, board, search, todo, covered, pc, result>>

\* The column is covered.  If it is the call's col its rows are next, and after the last
\* one of a row solve() calls itself.
Covered ==
  /\ pc = "hide"
  /\ at = Head(todo)
  /\ todo' = Tail(todo)
  /\ IF Len(stack_) < Len(calls)
     THEN /\ calls' = AtRow(links.down[col])
          /\ pc' = "row"
     ELSE /\ pc' = IF todo' = <<>> THEN "solve" ELSE "cover"
          /\ UNCHANGED calls
  /\ UNCHANGED <<puzzle, board, links, stack_, at, covered, result>>

Uncover ==
  /\ pc = "uncover"
  /\ at' = links.up[Head(todo)]
  /\ pc' = "show"
  /\ UNCHANGED <<puzzle, board, links, search, todo, covered, result>>

ShowRow ==
  /\ pc = "show"
  /\ at # Head(todo)
  /\ links' = ShowOthers(links, at)
  /\ at' = links'.up[at]
  /\ UNCHANGED <<puzzle, board, search, todo, covered, pc, result>>

\* The column is uncovered.  After the last one of a row the next row is tried; with its
\* own col uncovered solve() returns false.
Uncovered ==
  /\ pc = "show"
  /\ at = Head(todo)
  /\ links' = LinkColumn(links, Head(todo))
  /\ todo' = Tail(todo)
  /\ covered' = Front(covered)
  /\ \/ /\ todo' # <<>>
        /\ pc' = "uncover"
        /\ UNCHANGED calls
     \/ /\ todo' = <<>> /\ row # col
        /\ calls' = AtRow(links'.down[row])
        /\ pc' = "row"
     \/ /\ todo' = <<>> /\ row = col
        /\ calls' = Front(calls)
        /\ pc' = IF calls' = <<>> THEN "done" ELSE "failed"
  /\ UNCHANGED <<puzzle, board, stack_, at, result>>

-----------------------------------------------------------------------------
(* The loop of solve() over the rows of col.                                *)

ColumnsOf(nodes) == [j \in DOMAIN nodes |-> ColumnOf(nodes[j])]

TryRow ==
  /\ pc = "row"
  /\ row # col
  /\ stack_' = Append(stack_, row)
  /\ todo' = ColumnsOf(RightOf(row))
  /\ pc' = "cover"
  /\ UNCHANGED <<puzzle, board, links, calls, at, covered, result>>

\* Mutant: the columns of the row are left covered.
KeepCovered ==
  /\ pc = "failed"
  /\ stack_' = Front(stack_)
  /\ calls' = AtRow(links.down[row])
  /\ pc' = "row"
  /\ UNCHANGED <<puzzle, board, links, todo, at, covered, result>>

\* The inner solve() returned false.
UndoRow ==
  /\ pc = "failed"
  /\ stack_' = Front(stack_)
  /\ todo' = ColumnsOf(LeftOf(row))
  /\ pc' = "uncover"
  /\ UNCHANGED <<puzzle, board, links, calls, at, covered, result>>

\* No row is left.
Exhausted ==
  /\ pc = "row"
  /\ row = col
  /\ todo' = <<col>>
  /\ pc' = "uncover"
  /\ UNCHANGED <<puzzle, board, links, search, at, covered, result>>

Next ==
  \/ Reject
  \/ Construct
  \/ Solved
  \/ Choose
  \/ Smaller
  \/ NotSmaller
  \/ MinFound
  \/ Cover
  \/ HideRow
  \/ Covered
  \/ Uncover
  \/ ShowRow
  \/ Uncovered
  \/ TryRow
  \/ UndoRow
  \/ Exhausted

Spec == Init /\ [][Next]_vars

-----------------------------------------------------------------------------
(* Properties.                                                              *)

\* A filled board: every row, column and box has every value.
Complete(b) ==
  \A u \in 0..(Side - 1), v \in Values :
    Has(b, v, Row(u)) /\ Has(b, v, Col(u)) /\ Has(b, v, Box(u))

Lines == {line \in [0..(Side - 1) -> Values] : IsInjective(line)}

CompleteBoards ==
  {b \in {[i \in Cells |-> lines[RowOf(i)][ColOf(i)]] : lines \in [0..(Side - 1) -> Lines]} :
     Complete(b)}

Solvable(b) == \E full \in CompleteBoards : \A i \in Cells : b[i] \in {Blank, full[i]}

\* solveSudoku() answers exactly: a board it returns is a completion of the puzzle, and
\* NoSolution means there is none, also for clues that contradict each other, which
\* nothing tests for, and for characters that are no digits.
SolvesExactly ==
  pc = "done" =>
    IF result
    THEN Complete(board) /\ \A i \in Cells : puzzle[i] \in {Blank, board[i]}
    ELSE ~Solvable(puzzle)

\* The assertions of the constructor: nodes_ has room for root_, the columns and the four
\* nodes of each row, no column is appended twice (or beyond columns_, or with a name that
\* solve() takes for another kind), and the column of a node is there.
ConstructorAssertionsHold ==
  /\ 1 + Cardinality(Columns(puzzle)) + 4 * Cardinality(Candidates(puzzle)) <= kMaxNodes
  /\ \A c \in Columns(puzzle) : name(c) \in 0..399 /\ (name(c) < 100 <=> c[1][1] = "cell")
  /\ \A c, d \in Columns(puzzle) : name(c) = name(d) => c = d
  /\ \A n \in Nodes(Candidates(puzzle)) : ColumnOf(n) \in Columns(puzzle)

\* Columns that are covered: those of the rows chosen and those of the calls under way.
CoveredColumns ==
  {c.col : c \in Range(calls)} \cup
  UNION {{ColumnOf(j) : j \in Range(RowNodes(Filled(n), FilledBy(n)))} : n \in Range(stack_)}

\* The rows that can still be chosen.
OpenRows ==
  {c \in Candidates(puzzle) :
     \A n \in Range(RowNodes(c[1], c[2])) : ColumnOf(n) \notin CoveredColumns}

\* next and prev go around the ring in the order of the constructor.
GoAround(next, prev, ring) ==
  \A n \in ring : next[n] = Following(ring, n) /\ prev[n] = Preceding(ring, n)

\* However often solve() has backtracked, the links are those of the exact cover problem
\* that is left: the columns not covered, in their first order, and in each of them the
\* rows that clash with no chosen row, in their first order, counted in size.
LinksMatchStack ==
  pc \in {"solve", "row", "failed"} =>
    LET open  == Columns(puzzle) \ CoveredColumns
        nodes == Nodes(OpenRows)
    IN  /\ GoAround(links.right, links.left, open \cup {root_})
        /\ \A c \in open :
             /\ GoAround(links.down, links.up, {c} \cup NodesIn(c, nodes))
             /\ links.size[c] = Cardinality(NodesIn(c, nodes))

=============================================================================
