------------------------------- MODULE Sudoku -------------------------------
(***************************************************************************)
(* The game of the default application (sudoku.c): a board of four rows,   *)
(* four columns and four boxes, and the lines the player enters.           *)
(***************************************************************************)
EXTENDS Naturals

VARIABLES
    board,      \* 0 where a cell is empty
    playing     \* whether sudoku_run() has not returned

sudokuVars == <<board, playing>>

Size == 1 .. 4
puzzle == << <<1, 0, 0, 4>>,
             <<0, 4, 1, 0>>,
             <<0, 1, 4, 0>>,
             <<4, 0, 0, 2>> >>
is_fixed_cell(row, col) == puzzle[row][col] # 0

Box(row, col) == <<(row - 1) \div 2, (col - 1) \div 2>>
\* the other cells of its row, its column and its box
Seen(row, col) ==
    {c \in Size \X Size : c # <<row, col>> /\ (c[1] = row \/ c[2] = col \/ Box(c[1], c[2]) = Box(row, col))}
allowed_value(b, row, col, value) == value = 0 \/ \A c \in Seen(row, col) : b[c[1]][c[2]] # value
is_solved(b) == \A r, c \in Size : b[r][c] # 0 /\ allowed_value(b, r, c, b[r][c])

SudokuInit == board = puzzle /\ playing = FALSE

sudoku_run == ~playing /\ playing' = TRUE /\ board' = puzzle
\* a line of three numbers: out of range, at a fixed cell, or put on the board and taken
\* back when it conflicts
PlacedUnchecked(row, col, value) == [board EXCEPT ![row][col] = value]
Placed(row, col, value) ==
    LET new == [board EXCEPT ![row][col] = value]
    IN  IF allowed_value(new, row, col, value) THEN new ELSE board
Move(row, col, value) ==
    /\ playing /\ ~is_solved(board)
    /\ board' = IF {row, col} \subseteq Size /\ value \in 0 .. 4 /\ ~is_fixed_cell(row, col)
                THEN Placed(row, col, value) ELSE board
    /\ UNCHANGED playing
ResetBoard == playing /\ ~is_solved(board) /\ board' = puzzle /\ UNCHANGED playing
\* q, or the line that ends a game that is solved
Leave == playing /\ playing' = FALSE /\ UNCHANGED board

SudokuNext ==
    \/ sudoku_run \/ ResetBoard \/ Leave
    \/ \E row, col, value \in 0 .. 5 : Move(row, col, value)

\* Whatever is entered, cleared and reset, in any order, no row, column or box holds a
\* value twice and the cells of the puzzle keep theirs: a move that is refused leaves
\* no trace.
BoardRight ==
    \A r, c \in Size : /\ board[r][c] # 0 => \A s \in Seen(r, c) : board[s[1]][s[2]] # board[r][c]
                       /\ is_fixed_cell(r, c) => board[r][c] = puzzle[r][c]

\* The puzzle of the program has no solution: the branch that prints "Solved." is dead,
\* and a player can leave the game only with q.
NeverSolved == ~is_solved(board)
=============================================================================
