------------------------------ MODULE MCSudoku ------------------------------
(* Model-checking instance of Sudoku: boards of 4 x 4 cells.                 *)
EXTENDS Sudoku

\* A completed board.
Grid == <<1, 2, 3, 4,
          3, 4, 1, 2,
          2, 1, 4, 3,
          4, 3, 2, 1>>

Erase(S) == [i \in Cells |-> IF i \in S THEN Blank ELSE Grid[i + 1]]

\* Few clues, and the search takes a wrong turn before it finds the completion.
Hard == <<3, 0, 4, 0,
          0, 4, 0, 0,
          0, 3, 1, 0,
          0, 0, 0, 0>>

\* What is erased: nothing, little, one band or two boxes, where there are several
\* completions, or all but a few clues.
Patterns ==
  {{}, {0, 5, 10, 15}, 0..7, {0, 1, 4, 5, 10, 11, 14, 15}}
  \cup {Cells \ {0, 5, i, 15} : i \in {6, 9, 10, 12}}

\* One clue is changed or added, so that the puzzle is another one or contradicts
\* itself, or a character is no digit from 0 to 4.
MCPuzzles ==
  {[i \in Cells |-> Hard[i + 1]]} \cup
  {Erase(S) : S \in Patterns} \cup
  {[Erase(S) EXCEPT ![i] = v] : S \in Patterns, i \in {1, 6, 15}, v \in Values} \cup
  {[Erase({}) EXCEPT ![1] = v] : v \in {-1, 5}}

=============================================================================
