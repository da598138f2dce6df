-------------------------------- MODULE Game --------------------------------
(***************************************************************************)
(* The game and its history (src/src/common/game.cc): the current board,    *)
(* the positions before it, the moves taken back, the clocks of both sides  *)
(* and the result.  Positions and moves are values of an arbitrary game     *)
(* graph; the clocks are those of ClockOps.                                 *)
(***************************************************************************)
EXTENDS ClockOps, Sequences, FiniteSets

CONSTANTS
  Positions,         \* what Board::operator== compares
  Moves,
  WhiteToMove,       \* positions with White to move
  Legal,             \* Legal[p]: the legal moves of a position
  After,             \* After[p][m]: the position after a legal move
  Irreversible,      \* moves that reset movecnt50
  InCheck,           \* positions with the side to move in check
  MaterialDraw,      \* positions without mating material
  Opening,           \* opening_fen()
  Setups,            \* boards that the user may set up
  Games,             \* games that loadgame may find in a file: boards and moves
  Controls,          \* time controls that level and st may set
  Elapses,           \* times that a move may take
  Reported,          \* values of the commands time and otim
  Rule50,            \* 100
  SetupWhenUndone,   \* whether the user sets a board while moves can be redone
  LevelMidGame,      \* whether the user changes the time control during a game
  MaxMoves           \* bound: moves of a game

Board == [pos: Positions, fifty: Nat]

Sides == {"white", "black"}
SideOf(p) == IF p \in WhiteToMove THEN "white" ELSE "black"

ASSUME BoardAssumption ==
  /\ WhiteToMove \subseteq Positions
  /\ Legal \in [Positions -> SUBSET Moves]
  /\ \A p \in Positions : \A m \in Legal[p] :
       After[p][m] \in Positions /\ SideOf(After[p][m]) # SideOf(p)
  /\ Opening \in Positions /\ Setups \subseteq Board
  /\ Controls \subseteq Modes
  /\ Elapses \subseteq Nat /\ Reported \subseteq Nat
  /\ Rule50 \in Nat \ {0} /\ MaxMoves \in Nat
  /\ SetupWhenUndone \in BOOLEAN /\ LevelMidGame \in BOOLEAN

\* Board::make_move()
Played(board, move) ==
  [pos   |-> After[board.pos][move],
   fifty |-> IF move \in Irreversible THEN 0 ELSE board.fifty + 1]

\* A game in a file has legal moves, which make its boards.
ASSUME GamesAssumption ==
  \A g \in Games :
    /\ g.moves \in Seq(Moves) /\ g.boards \in Seq(Board)
    /\ Len(g.boards) = Len(g.moves) + 1
    /\ \A i \in 1 .. Len(g.moves) :
         /\ g.moves[i] \in Legal[g.boards[i].pos]
         /\ g.boards[i + 1] = Played(g.boards[i], g.moves[i])

VARIABLES
  initial_board, initial_clock,
  current_board, current_clock,
  old_clock,        \* the clocks at the beginning of the current position
  entries,          \* the positions before the current one
  undone_entries,   \* the positions taken back, the next to be redone first
  running, result

vars == <<initial_board, initial_clock, current_board, current_clock, old_clock,
          entries, undone_entries, running, result>>

Side == SideOf(current_board.pos)
Both(c) == [s \in Sides |-> c]
StartSide(clocks, s) == [clocks EXCEPT ![s] = Started(@)]
StopSide(clocks, s, elapsed) == [clocks EXCEPT ![s] = Stopped(@, elapsed)]
StopBoth(clocks) == [s \in Sides |-> Stopped(clocks[s], 0)]

Entry(board, move, clock) == [board |-> board, move |-> move, clock |-> clock]

\* repetitions(): positions are compared, their counts are not.
Repetitions(board, history) ==
  Cardinality({i \in 1 .. Len(history) : history[i].board.pos = board.pos})

\* check_result()
ResultOf(board, history) ==
  IF Legal[board.pos] = {}
    THEN IF board.pos \notin InCheck THEN "STALEMATE"
         ELSE IF SideOf(board.pos) = "white" THEN "BLACKMATES" ELSE "WHITEMATES"
  ELSE IF board.fifty = Rule50 THEN "RULE50"
  ELSE IF Repetitions(board, history) >= 2 THEN "REPS3"
  ELSE IF board.pos \in MaterialDraw THEN "MATERIAL"
  ELSE "OPEN"

Results == {"OPEN", "STALEMATE", "BLACKMATES", "WHITEMATES", "RULE50", "REPS3",
            "MATERIAL", "ILLEGAL"}

\* is_over()
Over == result # "OPEN"

-----------------------------------------------------------------------------
(* The game at start: Shell::Shell() and the command new. *)

Init ==
  /\ initial_board = [pos |-> Opening, fifty |-> 0] /\ current_board = initial_board
  /\ initial_clock = Both(NewClock("EXACT"))
  /\ current_clock = initial_clock /\ old_clock = initial_clock
  /\ entries = <<>> /\ undone_entries = <<>>
  /\ running = FALSE
  /\ result = ResultOf(current_board, <<>>)

\* start(), when the engine is about to move.
Start ==
  /\ ~Over
  /\ current_clock' = StartSide(current_clock, Side)
  /\ running' = TRUE
  /\ UNCHANGED <<initial_board, initial_clock, current_board, old_clock,
                 entries, undone_entries, result>>

\* Fault: the result is checked before the position is updated.
EnterFault(entry, board, clocks) ==
  /\ entries' = Append(entries, entry)
  /\ current_board' = board
  /\ old_clock' = clocks
  /\ result' = ResultOf(current_board, entries')
  /\ running' = (result' = "OPEN")
  /\ current_clock' = IF running' THEN StartSide(clocks, SideOf(board.pos)) ELSE clocks

\* The state that make_move() and redo_move() leave: a new entry, the given
\* position and clocks, the result, and the clock of the side to move started.
Enter(entry, board, clocks) ==
  /\ entries' = Append(entries, entry)
  /\ current_board' = board
  /\ old_clock' = clocks
  /\ result' = ResultOf(board, entries')
  /\ running' = (result' = "OPEN")
  /\ current_clock' = IF running' THEN StartSide(clocks, SideOf(board.pos)) ELSE clocks

\* Fault: the moves taken back can still be redone after another move.
MakeMoveFault ==
  /\ ~Over /\ Len(entries) < MaxMoves
  /\ \E m \in Legal[current_board.pos], e \in Elapses :
       Enter(Entry(current_board, m, old_clock), Played(current_board, m),
             StopSide(current_clock, Side, e))
  /\ UNCHANGED <<initial_board, initial_clock, undone_entries>>

\* make_move(), with a legal move of the user or the engine.
MakeMove ==
  /\ ~Over /\ Len(entries) < MaxMoves
  /\ \E m \in Legal[current_board.pos], e \in Elapses :
       Enter(Entry(current_board, m, old_clock), Played(current_board, m),
             StopSide(current_clock, Side, e))
  /\ undone_entries' = <<>>
  /\ UNCHANGED <<initial_board, initial_clock>>

\* undo_move() at the beginning of the game.
UndoNothing ==
  /\ entries = <<>>
  /\ running' = FALSE
  /\ UNCHANGED <<initial_board, initial_clock, current_board, current_clock, old_clock,
                 entries, undone_entries, result>>

\* Fault: the clocks of the position are not restored.
UndoFault ==
  /\ entries # <<>>
  /\ LET last == entries[Len(entries)] IN
       /\ undone_entries' =
            <<Entry(current_board, last.move, StopBoth(old_clock))>> \o undone_entries
       /\ current_board' = last.board
       /\ old_clock' = StopBoth(old_clock)
       /\ current_clock' = StartSide(old_clock', SideOf(last.board.pos))
  /\ entries' = SubSeq(entries, 1, Len(entries) - 1)
  /\ running' = TRUE /\ result' = "OPEN"
  /\ UNCHANGED <<initial_board, initial_clock>>

\* undo_move()
Undo ==
  /\ entries # <<>>
  /\ LET last == entries[Len(entries)] IN
       /\ undone_entries' =
            <<Entry(current_board, last.move, StopBoth(old_clock))>> \o undone_entries
       /\ current_board' = last.board
       /\ old_clock' = last.clock
       /\ current_clock' = StartSide(last.clock, SideOf(last.board.pos))
  /\ entries' = SubSeq(entries, 1, Len(entries) - 1)
  /\ running' = TRUE /\ result' = "OPEN"
  /\ UNCHANGED <<initial_board, initial_clock>>

\* redo_move(); the clock of the side to move is stopped and then replaced.
Redo ==
  /\ undone_entries # <<>>
  /\ LET undone == Head(undone_entries) IN
       Enter(Entry(current_board, undone.move, StopBoth(old_clock)),
             undone.board, undone.clock)
  /\ undone_entries' = Tail(undone_entries)
  /\ UNCHANGED <<initial_board, initial_clock>>

\* set_board(), by the commands new and setboard.
SetBoard ==
  /\ SetupWhenUndone \/ undone_entries = <<>>
  /\ \E b \in Setups :
       /\ initial_board' = b /\ current_board' = b
       /\ result' = ResultOf(b, <<>>)
  /\ current_clock' = initial_clock /\ old_clock' = initial_clock
  /\ entries' = <<>> /\ running' = FALSE
  /\ UNCHANGED <<initial_clock, undone_entries>>

\* set_board() with a position that is not valid.
RefuseBoard ==
  /\ SetupWhenUndone \/ undone_entries = <<>>
  /\ entries' = <<>> /\ running' = FALSE /\ result' = "ILLEGAL"
  /\ UNCHANGED <<initial_board, initial_clock, current_board, current_clock, old_clock,
                 undone_entries>>

\* set_clocks(), by the commands level and st.
SetClocks ==
  /\ LevelMidGame \/ (entries = <<>> /\ undone_entries = <<>>)
  /\ \E mode \in Controls : initial_clock' = Both(NewClock(mode))
  /\ old_clock' = initial_clock'
  /\ current_clock' = IF running THEN StartSide(initial_clock', Side) ELSE initial_clock'
  /\ UNCHANGED <<initial_board, current_board, entries, undone_entries, running, result>>

\* turn_back_clock(), by the command go.
TurnBackClock ==
  /\ current_clock' = [current_clock EXCEPT ![Side] = TurnedBack(@)]
  /\ UNCHANGED <<initial_board, initial_clock, current_board, old_clock,
                 entries, undone_entries, running, result>>

\* set_remaining_time(), by the commands time and otim.
SetRemainingTime ==
  /\ \E s \in Sides, t \in Reported :
       current_clock' = [current_clock EXCEPT ![s] = WithRemaining(@, t)]
  /\ UNCHANGED <<initial_board, initial_clock, current_board, old_clock,
                 entries, undone_entries, running, result>>

\* The constructor from a PGN, assigned to the game: every move is made in
\* turn, without regard to the result, and with clocks that measure nothing.
LoadGame ==
  \E g \in Games :
    LET n == Len(g.moves)
        last == g.boards[n + 1]
        none == Both(NewClock("NONE"))
    IN  /\ initial_board' = g.boards[1] /\ current_board' = last
        /\ entries' = [i \in 1 .. n |-> Entry(g.boards[i], g.moves[i], none)]
        /\ undone_entries' = <<>>
        /\ result' = IF n = 0 THEN "OPEN" ELSE ResultOf(last, entries')
        /\ running' = (n > 0 /\ result' = "OPEN")
        /\ initial_clock' = none /\ old_clock' = none
        /\ current_clock' = IF running' THEN StartSide(none, SideOf(last.pos)) ELSE none

Next ==
  \/ Start \/ MakeMove \/ UndoNothing \/ Undo \/ Redo
  \/ SetBoard \/ RefuseBoard \/ SetClocks \/ TurnBackClock \/ SetRemainingTime
  \/ LoadGame

Spec == Init /\ [][Next]_vars

-----------------------------------------------------------------------------
(* Properties. *)

Clocks == [Sides -> Clock]
Entries == [board: Board, move: Moves, clock: Clocks]

\* Types of all variables.
TypeOK ==
  /\ initial_board \in Board /\ current_board \in Board
  /\ initial_clock \in Clocks /\ current_clock \in Clocks /\ old_clock \in Clocks
  /\ entries \in Seq(Entries) /\ undone_entries \in Seq(Entries)
  /\ running \in BOOLEAN /\ result \in Results

\* The position in which the move after entry i has been made.
BoardAfter(i) == IF i = Len(entries) THEN current_board ELSE entries[i + 1].board

\* ASSERT(rootnode->get_board() == game->get_board()) in Search::main(), which
\* makes the moves of the entries from the initial board: they are legal and
\* lead to the current one. A search starts only if the game is not over.
HistoryReplays ==
  ~Over =>
    /\ initial_board = IF entries = <<>> THEN current_board ELSE entries[1].board
    /\ \A i \in 1 .. Len(entries) :
         /\ entries[i].move \in Legal[entries[i].board.pos]
         /\ BoardAfter(i) = Played(entries[i].board, entries[i].move)

\* The position before the undone one i.
BoardBefore(i) == IF i = 1 THEN current_board ELSE undone_entries[i - 1].board

\* Redoing all moves makes legal moves only, each in the position it was made in.
RedoLegal ==
  \A i \in 1 .. Len(undone_entries) :
    /\ undone_entries[i].move \in Legal[BoardBefore(i).pos]
    /\ undone_entries[i].board = Played(BoardBefore(i), undone_entries[i].move)

\* Whatever was made, taken back, set up or loaded: both lists together are one
\* legal game through the current position.
HistoryConsistent == HistoryReplays /\ RedoLegal

\* The result is the one that the rules give, after a move has been taken back
\* too, where it is set without being computed.
ResultByRule == result # "ILLEGAL" => result = ResultOf(current_board, entries)

ClockAfter(i) == IF i = Len(entries) THEN old_clock ELSE entries[i + 1].clock

\* What a clock may show at the end of a move that its side makes, if it showed
\* `known' before: as much, if it has not run, or what update_remaining() makes of it.
ShownAfter(clock, known) ==
  {known} \union
    {Updated([clock EXCEPT !.remaining_time = known], e).remaining_time : e \in Elapses}

\* However moves are made, taken back and redone: the history charges each move
\* once at most, and to the side that made it, unless the interface has set the
\* time of a side during that move.
MoverCharged ==
  \A i \in 1 .. Len(entries), s \in Sides :
    LET clock == entries[i].clock[s]
    IN  \E known \in {clock.remaining_time} \union Reported :
          ClockAfter(i)[s].remaining_time \in
            IF s = SideOf(entries[i].board.pos) THEN ShownAfter(clock, known) ELSE {known}

=============================================================================
