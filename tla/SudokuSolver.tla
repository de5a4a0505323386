---------------------------- MODULE SudokuSolver ----------------------------
(***************************************************************************)
(* examples/sudoku/sudoku.cc: the exact cover of the cells, rows, columns  *)
(* and boxes of a board by dancing links.  The nodes are numbered in the   *)
(* order in which they are made, the root being 1; g is the record of      *)
(* their fields.  The recursion of solve() is a stack of frames, each with *)
(* its loop's column and row.  The board has Side * Side cells, of which   *)
(* 0 is empty, and boxes of BoxSide * BoxSide.                             *)
(***************************************************************************)
EXTENDS Naturals, Sequences, SequencesExt, FiniteSets, FiniteSetsExt

CONSTANTS
  BoxSide,
  Boards        \* the boards given, each a sequence of Side * Side values

VARIABLES
  given,        \* the board as it was given
  inout,        \* inout_
  g,            \* nodes_
  made,         \* how far the constructor's loop has come
  frames,       \* the calls of solve() under way: [col, row]
  saved,        \* frame -> the nodes as they were when its loop began
  pc            \* columns, rows, solve, try, retreat, solved, failed

vars == <<given, inout, g, made, frames, saved, pc>>

Side == BoxSide * BoxSide
Cells == 0 .. Side * Side - 1
Values == 1 .. Side
At(board, i) == board[i + 1]

RowOf(i) == i \div Side
ColOf(i) == i % Side
BoxOf(i) == (RowOf(i) \div BoxSide) * BoxSide + ColOf(i) \div BoxSide

\* The names of columns: a cell, and get_row_col(), get_col_col(), get_box_col().
kRow == 100
kCol == 200
kBox == 300
get_row_col(row, val) == kRow + row * 10 + val
get_col_col(col, val) == kCol + col * 10 + val
get_box_col(box, val) == kBox + box * 10 + val

-----------------------------------------------------------------------------
root == 1
NoNodes == [left |-> <<>>, right |-> <<>>, up |-> <<>>, down |-> <<>>, col |-> <<>>, name |-> <<>>, size |-> <<>>]

\* A new node, linked to itself; c is its column.
NewNode(h, name, c) ==
  LET n == Len(h.name) + 1
  IN  [left |-> Append(h.left, n), right |-> Append(h.right, n), up |-> Append(h.up, n),
       down |-> Append(h.down, n), col |-> Append(h.col, IF c = 0 THEN n ELSE c),
       name |-> Append(h.name, name), size |-> Append(h.size, 0)]

put_left(h, old, n) ==
  [h EXCEPT !.left = [[@ EXCEPT ![n] = h.left[old]] EXCEPT ![old] = n],
            !.right = [[@ EXCEPT ![n] = old] EXCEPT ![h.left[old]] = n]]

put_up(h, old, n) ==
  [h EXCEPT !.up = [[@ EXCEPT ![n] = h.up[old]] EXCEPT ![old] = n],
            !.down = [[@ EXCEPT ![n] = old] EXCEPT ![h.up[old]] = n],
            !.size[old] = @ + 1]

append_column(h, name) == put_left(NewNode(h, name, 0), root, Len(h.name) + 1)
columns(h, name) == CHOOSE c \in DOMAIN h.name : h.name[c] = name /\ h.col[c] = c /\ c # root
new_row(h, name) == put_up(NewNode(h, name, columns(h, name)), columns(h, name), Len(h.name) + 1)

\* The constructor: columns for what is to be covered, then a row for each value that
\* a cell may take.
Row(u) == {i \in Cells : RowOf(i) = u}
Col(u) == {i \in Cells : ColOf(i) = u}
Box(u) == {i \in Cells : BoxOf(i) = u}
Taken(board, unit, v) == \E i \in unit : At(board, i) = v
Names(board) ==
  SelectSeq([k \in 1 .. Side * Side |-> k - 1], LAMBDA i : At(board, i) = 0)
    \o FlattenSeq([k \in 1 .. Side * Side |->
         LET u == (k - 1) \div Side
             v == 1 + ((k - 1) % Side)
         IN  (IF Taken(board, Row(u), v) THEN <<>> ELSE <<get_row_col(u, v)>>)
               \o (IF Taken(board, Col(u), v) THEN <<>> ELSE <<get_col_col(u, v)>>)
               \o (IF Taken(board, Box(u), v) THEN <<>> ELSE <<get_box_col(u, v)>>)])

MayTake(board, i, v) ==
  /\ At(board, i) = 0 /\ ~Taken(board, Row(RowOf(i)), v)
  /\ ~Taken(board, Col(ColOf(i)), v) /\ ~Taken(board, Box(BoxOf(i)), v)
AddRow(h, i, v) ==
  LET n == Len(h.name) + 1
      r == new_row(new_row(new_row(new_row(h, i), get_row_col(RowOf(i), v)),
                           get_col_col(ColOf(i), v)), get_box_col(BoxOf(i), v))
  IN  put_left(put_left(put_left(r, n, n + 1), n, n + 2), n, n + 3)

\* The two halves of the constructor: the next column, and the rows of the next cell.
makeColumn ==
  /\ pc = "columns"
  /\ IF made < Len(Names(given))
     THEN g' = append_column(g, Names(given)[made + 1]) /\ made' = made + 1 /\ UNCHANGED pc
     ELSE made' = 0 /\ pc' = "rows" /\ UNCHANGED g
  /\ UNCHANGED <<given, inout, frames, saved>>

makeRows ==
  /\ pc = "rows"
  /\ IF made \in Cells
     THEN /\ g' = FoldLeft(LAMBDA h, v : IF MayTake(given, made, v) THEN AddRow(h, made, v) ELSE h,
                           g, [v \in Values |-> v])
          /\ made' = made + 1 /\ UNCHANGED pc
     ELSE made' = 0 /\ pc' = "solve" /\ UNCHANGED g
  /\ UNCHANGED <<given, inout, frames, saved>>

Init ==
  /\ given \in Boards /\ inout = given
  /\ g = NewNode(NoNodes, 0, 0) /\ made = 0 /\ frames = <<>> /\ saved = <<>> /\ pc = "columns"

-----------------------------------------------------------------------------
RECURSIVE Unlink(_, _, _), Relink(_, _, _), CoverRows(_, _, _), UncoverRows(_, _, _)

\* The inner and outer loops of cover() and uncover().
Unlink(h, row, j) ==
  IF j = row THEN h
  ELSE LET k == [h EXCEPT !.up[h.down[j]] = h.up[j], !.down[h.up[j]] = h.down[j], !.size[h.col[j]] = @ - 1]
       IN  Unlink(k, row, k.right[j])
Relink(h, row, j) ==
  IF j = row THEN h
  ELSE LET k == [h EXCEPT !.size[h.col[j]] = @ + 1, !.up[h.down[j]] = j, !.down[h.up[j]] = j]
       IN  Relink(k, row, k.left[j])
CoverRows(h, c, row) ==
  IF row = c THEN h ELSE LET k == Unlink(h, row, h.right[row]) IN CoverRows(k, c, k.down[row])
UncoverRows(h, c, row) ==
  IF row = c THEN h ELSE LET k == Relink(h, row, h.left[row]) IN UncoverRows(k, c, k.up[row])

cover(h, c) ==
  LET k == [h EXCEPT !.left[h.right[c]] = h.left[c], !.right[h.left[c]] = h.right[c]]
  IN  CoverRows(k, c, k.down[c])

uncover(h, c) ==
  LET k == UncoverRows(h, c, h.up[c])
  IN  [k EXCEPT !.left[k.right[c]] = c, !.right[k.left[c]] = c]

\* get_min_column(): the first of the smallest, but the first of size at most one.
RECURSIVE Smallest(_, _, _)
Smallest(h, c, cc) ==
  IF h.size[c] <= 1 \/ cc = root THEN c
  ELSE Smallest(h, IF h.size[c] > h.size[cc] THEN cc ELSE c, h.right[cc])
get_min_column(h) == Smallest(h, h.right[root], h.right[h.right[root]])

\* The loops of solve() over the other nodes of a row: to the right, and back.
RECURSIVE CoverOthers(_, _, _), UncoverOthers(_, _, _)
CoverOthers(h, row, j) ==
  IF j = row THEN h ELSE LET k == cover(h, h.col[j]) IN CoverOthers(k, row, k.right[j])
Back_Rightwards(h, j) == h.right[j]
Back(h, j) == h.left[j]
UncoverOthers(h, row, j) ==
  IF j = row THEN h ELSE LET k == uncover(h, h.col[j]) IN UncoverOthers(k, row, Back(k, j))

\* The cell and the value that a row stands for.
RowNodes(h, n) == {n, h.right[n], h.right[h.right[n]], h.left[n]}
CellOf(h, n) == h.name[CHOOSE m \in RowNodes(h, n) : h.name[m] < 100]
ValueOf(h, n) == h.name[CHOOSE m \in RowNodes(h, n) : h.name[m] >= 100] % 10

\* A call of solve().
solve ==
  /\ pc = "solve"
  /\ IF g.left[root] = root
     THEN /\ inout' = [x \in DOMAIN inout |->
                         LET hits == {i \in DOMAIN frames : CellOf(g, frames[i].row) = x - 1}
                         IN  IF hits = {} THEN inout[x] ELSE ValueOf(g, frames[Max(hits)].row)]
          /\ pc' = "solved" /\ UNCHANGED <<g, frames, saved>>
     ELSE LET c == get_min_column(g)
              h == cover(g, c)
          IN  /\ g' = h /\ frames' = Append(frames, [col |-> c, row |-> h.down[c]])
              /\ saved' = Append(saved, h)
              /\ pc' = "try" /\ UNCHANGED inout
  /\ UNCHANGED <<given, made>>

\* The head of its loop over the rows of the column.
tryRow ==
  /\ pc = "try"
  /\ LET f == Last(frames)
     IN  IF f.row # f.col
         THEN /\ g' = CoverOthers(g, f.row, g.right[f.row])
              /\ pc' = "solve" /\ UNCHANGED <<frames, saved>>
         ELSE /\ g' = uncover(g, f.col)
              /\ frames' = Front(frames) /\ saved' = Front(saved)
              /\ pc' = IF Len(frames) = 1 THEN "failed" ELSE "retreat"
  /\ UNCHANGED <<given, inout, made>>

NextRow_GivesUp(h, f) == f.col
NextRow(h, f) == h.down[f.row]
\* The rest of the loop's body, after a call that returned false.
retreat ==
  /\ pc = "retreat"
  /\ LET f == Last(frames)
         h == UncoverOthers(g, f.row, Back(g, f.row))
     IN  g' = h /\ frames' = [frames EXCEPT ![Len(frames)].row = NextRow(h, f)]
  /\ pc' = "try" /\ UNCHANGED <<given, inout, made, saved>>

Next == makeColumn \/ makeRows \/ solve \/ tryRow \/ retreat
Spec == Init /\ [][Next]_vars /\ WF_vars(Next)

-----------------------------------------------------------------------------
Legal(board) ==
  \A i, j \in Cells :
    i # j /\ At(board, i) # 0 /\ At(board, i) = At(board, j) =>
      RowOf(i) # RowOf(j) /\ ColOf(i) # ColOf(j) /\ BoxOf(i) # BoxOf(j)

RECURSIVE Solvable(_)
Solvable(board) ==
  /\ Legal(board)
  /\ LET empty == {i \in Cells : At(board, i) = 0}
     IN  empty = {} \/ \E v \in Values : Solvable([board EXCEPT ![Min(empty) + 1] = v])

\* At the head of its loop a call finds the links as they were when the loop began,
\* whatever the calls it made covered and uncovered (sudoku.cc:127).
LinksDanceBack == pc = "try" => g = Last(saved)

\* When solve() ends it says that there is a solution exactly when there is one; the
\* board it leaves is then complete, legal and an extension of the board given.
SolvesTheBoard ==
  /\ pc = "failed" => ~Solvable(given)
  /\ pc = "solved" => /\ Legal(inout) /\ \A i \in Cells : At(inout, i) # 0
                      /\ \A i \in Cells : At(given, i) # 0 => At(inout, i) = At(given, i)
=============================================================================
