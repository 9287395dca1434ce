-------------------------------- MODULE Arcade -------------------------------
(***************************************************************************)
(* An onchain game: the tic-tac-toe contract a jam is generated with       *)
(* (apps/builder/src/contracts/templates.ts), and the calls that play it,   *)
(* which the platform signs and relays (onchain.write of                    *)
(* routers/bridge.ts).  The contract asks who calls it, never whose turn   *)
(* it is: a move makes the mark that is next, whoever relayed it.          *)
(***************************************************************************)
EXTENDS Calls

CONSTANTS
    Cells, Lines    \* nine cells and eight lines of three of them

VARIABLES
    board,          \* cell -> 0, or the mark on it, 1 or 2
    turn,           \* the mark that is next
    winner,         \* 0 as long as the game goes on, the mark that won, or 3
    moves

gameVars == <<board, turn, winner, moves>>

ASSUME GameAssumption ==
    /\ IsFiniteSet(Cells) /\ Cells # {}
    /\ Lines \subseteq SUBSET Cells /\ {} \notin Lines

Emptied == [cell \in Cells |-> 0]

GameInit == board = Emptied /\ turn = 1 /\ winner = 0 /\ moves = 0

Owns(mark, line, b) == \A cell \in line : b[cell] = mark

HasLine(mark, b) == \E line \in Lines : Owns(mark, line, b)

Checked(b) == IF HasLine(1, b) THEN 1 ELSE IF HasLine(2, b) THEN 2 ELSE 0

(* A move to a cell that nobody looks at.                                  *)
PlayableAnywhere(cell) == winner = 0 /\ cell \in Cells

(* What the contract requires of a move.                                   *)
Playable(cell) == winner = 0 /\ cell \in Cells /\ board[cell] = 0

Opponent(mark) == IF mark = 1 THEN 2 ELSE 1

Moves(cell) ==
    LET b == [board EXCEPT ![cell] = turn]  won == Checked(b)  n == moves + 1 IN
    /\ board' = b /\ moves' = n
    /\ turn' = IF won = 0 THEN Opponent(turn) ELSE turn
    /\ winner' = IF won = 0 /\ n = Cardinality(Cells) THEN 3 ELSE won

Resets == board' = Emptied /\ turn' = 1 /\ winner' = 0 /\ moves' = 0

-----------------------------------------------------------------------------
(* What would be reverted as the chain stands fails before it is sent.     *)
MoveIsSent(c) ==
    /\ At(c, "move", "begin")
    /\ \/ Playable(call[c].op.cell) /\ Awaits(c, "mined", Null)
       \/ ~Playable(call[c].op.cell) /\ Returns(c, "RELAY_FAILED")
    /\ UNCHANGED gameVars

(* What is reverted when its turn comes has a hash like any other; and the *)
(* receipt may be lost of what went through.                               *)
MoveIsMined(c) ==
    /\ At(c, "move", "mined")
    /\ Returns(c, "hash") \/ Throws(c)
    /\ \/ Playable(call[c].op.cell) /\ Moves(call[c].op.cell)
       \/ ~Playable(call[c].op.cell) /\ UNCHANGED gameVars

ResetIsSent(c) ==
    At(c, "reset", "begin") /\ Awaits(c, "mined", Null) /\ UNCHANGED gameVars

ResetIsMined(c) ==
    At(c, "reset", "mined") /\ (Returns(c, "hash") \/ Throws(c)) /\ Resets

GameStep(c) == MoveIsSent(c) \/ MoveIsMined(c) \/ ResetIsSent(c) \/ ResetIsMined(c)

-----------------------------------------------------------------------------
Marked(mark, b) == {cell \in Cells : b[cell] = mark}

(* The game alone, whatever else is called.                                *)
GameNext ==
    \/ (\E cell \in Cells : Playable(cell) /\ Moves(cell))
    \/ Resets
GameSpec == GameInit /\ [][GameNext]_gameVars

(* What the board shows is who won: a winner has a line and the other has  *)
(* none, a draw is a full board without a line, and a game that goes on    *)
(* has neither.  The marks are made in turns, whoever presses, and however *)
(* late the presses come (templates.ts:175, 191).                          *)
GameDecided ==
    /\ \A mark \in {1, 2} : HasLine(mark, board) <=> winner = mark
    /\ winner = 3 => Marked(0, board) = {}
    /\ winner = 0 => Marked(0, board) # {}
    /\ moves = Cardinality(Marked(1, board)) + Cardinality(Marked(2, board))
    /\ Cardinality(Marked(1, board)) = Cardinality(Marked(2, board)) +
          IF (turn = 2 /\ winner # 2) \/ winner = 1 THEN 1 ELSE 0
=============================================================================
