------------------------------ MODULE Programs ------------------------------
(***************************************************************************)
(* A run of one program that keeps nothing outside itself: of one of the   *)
(* programs on texts, over a text that grows, or of the game.              *)
(***************************************************************************)
EXTENDS Texts, Sudoku

Init == SudokuInit /\ (TextInit \/ (kind = "sudoku" /\ text = <<>>))
OnText == kind \in Kinds /\ TextNext /\ UNCHANGED sudokuVars
Game   == kind = "sudoku" /\ SudokuNext /\ UNCHANGED <<text, kind>>
Next   == OnText \/ Game
Spec   == Init /\ [][Next]_<<text, kind, board, playing>>

\* Every text tool over its fixed buffers does with the lines and words of a text, and
\* with its arguments, what its rule says (see Texts).
ToolsRight == LinesRight /\ WordsRight

\* The board is always one the rules allow, and never a whole one (see Sudoku).
GameRight == BoardRight /\ NeverSolved
=============================================================================
