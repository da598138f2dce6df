-------------------------------- MODULE Shell --------------------------------
(***************************************************************************)
(* The shell (src/src/common/shell.cc, shell_cmd.cc) and its search object:  *)
(* the main loop, the commands, the search in the foreground, the thread     *)
(* that ponders or analyzes in the background (search.cc), and SIGINT, whose *)
(* handler runs between any two steps.  Of the game only what decides who    *)
(* moves is kept; its history is in Game, the search itself in               *)
(* ParallelSearch.                                                           *)
(***************************************************************************)
EXTENDS Integers

CONSTANTS
  ClearBusy,      \* whether the user clears a table while a search runs
  MaxMoves,       \* bound: moves of a game
  MaxInterrupts   \* bound: number of SIGINTs

ASSUME ShellAssumption ==
  /\ ClearBusy \in BOOLEAN
  /\ MaxMoves \in Nat /\ MaxInterrupts \in Nat

VARIABLES
  pc,             \* where the main thread is
  command,        \* the command being executed
  flags,          \* flag_force, flag_ponder, flag_analyze, flag_playboth, quit, stop
  myside,
  game,           \* the game, as far as GameState goes
  search,         \* stop, mode, and whether Search::game is set
  thread,         \* the search's thread
  engine,         \* which search object and hash table are in use
  interrupts,     \* number of SIGINTs so far
  late            \* ghost: searches begun since a SIGINT, or None

vars == <<pc, command, flags, myside, game, search, thread, engine, interrupts, late>>

Colors == {"white", "black"}
Opponent(c) == IF c = "white" THEN "black" ELSE "white"
None == -1                \* no SIGINT since the last command was read

Commands == {"new", "force", "go", "move", "setboard", "undo", "remove", "redo",
             "loadgame", "hard", "easy", "analyze", "exit", "playboth", "solve",
             "cores", "hash size", "hash clear", "quit"}

\* Fault: playboth does not stop the background search, as before release 0.10.2.
StoppingFault == Commands \ {"hard", "hash clear", "quit", "playboth"}

\* Fault: easy does not stop the background search.
StoppingUneasy == Commands \ {"hard", "hash clear", "quit", "easy"}

\* The commands that begin with stop_search().
Stopping == Commands \ {"hard", "hash clear", "quit"}

\* Of a game: whose turn, is_over(), is_running(), and the lengths of its lists.
GameState(side, over, running, played, undone) ==
  [side |-> side, over |-> over, running |-> running, played |-> played,
   undone |-> undone]

\* Game::make_move(), redo_move(): the result is open or not.
Moves(g, over, undone) ==
  GameState(Opponent(g.side), over, ~over, g.played + 1, undone)

\* Game::undo_move()
Undone(g) ==
  IF g.played = 0 THEN [g EXCEPT !.running = FALSE]
  ELSE GameState(Opponent(g.side), FALSE, TRUE, g.played - 1, g.undone + 1)

-----------------------------------------------------------------------------
(* The main loop. *)

\* The constructor, and the command new at the beginning of main().
Init ==
  /\ pc = "loop" /\ command = "new"
  /\ flags = [force |-> FALSE, ponder |-> FALSE, analyze |-> FALSE, playboth |-> FALSE,
              quit |-> FALSE, stop |-> FALSE]
  /\ myside = "black"
  /\ game = GameState("white", FALSE, FALSE, 0, 0)
  /\ search = [stop |-> FALSE, mode |-> "MOVE", game |-> FALSE]
  /\ thread = "none" /\ engine = 0 /\ interrupts = 0 /\ late = None

\* stop_search() begins with Search::interrupt(), if there is a thread.
Stopped == IF thread = "none" THEN search ELSE [search EXCEPT !.stop = TRUE]

\* The loop is left after quit, with stop_search(); otherwise stop is reset.
Loop ==
  /\ pc = "loop"
  /\ IF flags.quit
       THEN /\ pc' = "join" /\ command' = "quit"
            /\ search' = Stopped
            /\ UNCHANGED flags
       ELSE /\ pc' = "decide" /\ flags' = [flags EXCEPT !.stop = FALSE]
            /\ UNCHANGED <<command, search>>
  /\ UNCHANGED <<myside, game, thread, engine, interrupts, late>>

EngineToMove ==
  ~game.over /\ (flags.playboth \/ (~flags.force /\ game.side = myside))
ToPonder == ~game.over /\ flags.ponder /\ ~flags.force /\ game.running

\* Search::start_thread()
StartThread(mode) ==
  IF thread = "none"
    THEN /\ thread' = "created"
         /\ search' = [search EXCEPT !.stop = FALSE, !.mode = mode]
    ELSE UNCHANGED <<thread, search>>

\* engine_move() begins with Game::start().
DecideMove ==
  /\ pc = "decide" /\ EngineToMove
  /\ myside' = game.side
  /\ game' = [game EXCEPT !.running = TRUE]
  /\ pc' = "begin"
  /\ UNCHANGED <<command, flags, search, thread, engine, interrupts, late>>

\* engine_ponder(), engine_analyze(), or nothing, and then the prompt.
DecideInput ==
  /\ pc = "decide" /\ ~EngineToMove
  /\ IF ToPonder THEN StartThread("PONDER")
     ELSE IF flags.analyze /\ ~game.over THEN StartThread("ANALYZE")
     ELSE UNCHANGED <<thread, search>>
  /\ pc' = "input"
  /\ UNCHANGED <<command, flags, myside, game, engine, interrupts, late>>

\* A search begins in the foreground: Search::start().
StartSearch ==
  /\ search' = [search EXCEPT !.stop = FALSE, !.mode = "MOVE", !.game = TRUE]
  /\ late' = IF late = None THEN None ELSE late + 1

\* engine_move() has no book move and more than one legal move.
Think ==
  /\ pc = "begin"
  /\ StartSearch
  /\ pc' = "think"
  /\ UNCHANGED <<command, flags, myside, game, thread, engine, interrupts>>

\* The engine's move, from the book, the only one, or that of the search, which
\* has ended by itself or has been stopped.
EngineMove ==
  /\ pc \in {"begin", "think"} /\ game.played < MaxMoves
  /\ \E over \in BOOLEAN : game' = Moves(game, over, 0)
  /\ search' = [search EXCEPT !.game = FALSE]
  /\ pc' = "loop"
  /\ UNCHANGED <<command, flags, myside, thread, engine, interrupts, late>>

\* Whether the command does something in this state, within the bounds.
Possible(c) ==
  CASE c = "move" -> ~game.over /\ game.side # myside /\ game.played < MaxMoves
    [] c = "redo" -> game.played < MaxMoves
    [] c = "hash clear" -> ClearBusy \/ thread = "none"
    [] OTHER -> TRUE

\* exec_command()
Read ==
  /\ pc = "input"
  /\ \E c \in Commands :
       /\ Possible(c)
       /\ command' = c
       /\ pc' = IF c \in Stopping THEN "join" ELSE "exec"
       /\ search' = IF c \in Stopping THEN Stopped ELSE search
  /\ late' = None
  /\ UNCHANGED <<flags, myside, game, thread, engine, interrupts>>

\* Fault: the thread is told to stop, but not waited for.
JoinFault ==
  /\ pc = "join"
  /\ pc' = "exec"
  /\ UNCHANGED <<command, flags, myside, game, search, thread, engine, interrupts, late>>

\* stop_thread() waits for the thread to end.
Join ==
  /\ pc = "join" /\ thread \in {"none", "finished"}
  /\ thread' = "none"
  /\ pc' = "exec"
  /\ UNCHANGED <<command, flags, myside, game, search, engine, interrupts, late>>

\* A command fails, and input is not a terminal: main() returns.
Fail ==
  /\ pc = "input"
  /\ pc' = "done"
  /\ UNCHANGED <<command, flags, myside, game, search, thread, engine, interrupts, late>>

-----------------------------------------------------------------------------
(* The commands, after stop_search(). *)

Execute(c) == pc = "exec" /\ command = c
Return == pc' = "loop" /\ UNCHANGED <<command, search, thread, interrupts, late>>

New ==
  /\ Execute("new") /\ Return
  /\ game' = GameState("white", FALSE, FALSE, 0, game.undone)
  /\ IF flags.analyze
       THEN UNCHANGED <<flags, myside>>
       ELSE flags' = [flags EXCEPT !.force = FALSE] /\ myside' = "black"
  /\ UNCHANGED engine

ForceMode ==
  /\ Execute("force") /\ Return
  /\ flags' = [flags EXCEPT !.force = TRUE, !.playboth = FALSE]
  /\ myside' = "none"
  /\ UNCHANGED <<game, engine>>

Go ==
  /\ Execute("go") /\ Return
  /\ flags' = [flags EXCEPT !.force = FALSE, !.playboth = FALSE]
  /\ myside' = game.side
  /\ UNCHANGED <<game, engine>>

Analyze ==
  /\ Execute("analyze") /\ Return
  /\ flags' = [flags EXCEPT !.force = TRUE, !.playboth = FALSE, !.analyze = TRUE]
  /\ myside' = "none"
  /\ UNCHANGED <<game, engine>>

\* hard, easy, exit, playboth and quit set flags only.
SetFlags ==
  /\ \/ Execute("hard") /\ flags' = [flags EXCEPT !.ponder = TRUE]
     \/ Execute("easy") /\ flags' = [flags EXCEPT !.ponder = FALSE]
     \/ Execute("exit") /\ flags' = [flags EXCEPT !.analyze = FALSE]
     \/ Execute("playboth") /\ flags' = [flags EXCEPT !.playboth = TRUE, !.force = FALSE]
  /\ Return
  /\ UNCHANGED <<myside, game, engine>>

\* quit, and the end of main() after the loop.
Quit ==
  /\ Execute("quit")
  /\ flags' = [flags EXCEPT !.quit = TRUE]
  /\ pc' = IF flags.quit THEN "done" ELSE "loop"
  /\ UNCHANGED <<command, myside, game, search, thread, engine, interrupts, late>>

\* user_move(), and the commands that change the board or the history.
UserMove ==
  /\ Execute("move") /\ Return
  /\ \E over \in BOOLEAN : game' = Moves(game, over, 0)
  /\ UNCHANGED <<flags, myside, engine>>

SetBoard ==
  /\ Execute("setboard") /\ Return
  /\ \E side \in Colors, over \in BOOLEAN : game' = GameState(side, over, FALSE, 0, game.undone)
  /\ UNCHANGED <<flags, myside, engine>>

Undo ==
  /\ Execute("undo") /\ Return
  /\ game' = Undone(game)
  /\ UNCHANGED <<flags, myside, engine>>

Remove ==
  /\ Execute("remove") /\ Return
  /\ game' = Undone(Undone(game))
  /\ UNCHANGED <<flags, myside, engine>>

Redo ==
  /\ Execute("redo") /\ Return
  /\ IF game.undone = 0 THEN UNCHANGED game
     ELSE \E over \in BOOLEAN : game' = Moves(game, over, game.undone - 1)
  /\ UNCHANGED <<flags, myside, engine>>

\* The game that was read has moves, or it has none and is open.
LoadGame ==
  /\ Execute("loadgame") /\ Return
  /\ \E side \in Colors :
       \/ game' = GameState(side, FALSE, FALSE, 0, 0)
       \/ \E over \in BOOLEAN : game' = GameState(side, over, ~over, 1, 0)
  /\ UNCHANGED <<flags, myside, engine>>

\* cores deletes and creates the search, hash size its table, and hash clear
\* the table's entries.
Replace ==
  /\ Execute("cores") \/ Execute("hash size") \/ Execute("hash clear")
  /\ Return
  /\ engine' = 1 - engine
  /\ UNCHANGED <<flags, myside, game>>

\* solve searches the positions of a file, until it ends or stop is found set
\* after a search.
Solve ==
  /\ Execute("solve")
  /\ pc' = "solve"
  /\ UNCHANGED <<command, flags, myside, game, search, thread, engine, interrupts, late>>

SolveNext ==
  /\ pc = "solve"
  /\ StartSearch
  /\ pc' = "solving"
  /\ UNCHANGED <<command, flags, myside, game, thread, engine, interrupts>>

\* Fault: stop is not tested between the positions.
SolvedFault ==
  /\ pc = "solving"
  /\ search' = [search EXCEPT !.game = FALSE]
  /\ pc' = "solve"
  /\ UNCHANGED <<command, flags, myside, game, thread, engine, interrupts, late>>

Solved ==
  /\ pc = "solving"
  /\ search' = [search EXCEPT !.game = FALSE]
  /\ pc' = IF flags.stop THEN "loop" ELSE "solve"
  /\ UNCHANGED <<command, flags, myside, game, thread, engine, interrupts, late>>

SolveEnd ==
  /\ pc = "solve"
  /\ pc' = "loop"
  /\ UNCHANGED <<command, flags, myside, game, search, thread, engine, interrupts, late>>

-----------------------------------------------------------------------------
(* The background thread and the signal handler. *)

\* Fault: the thread resets the flag when it begins, not the one that starts it.
ThreadBeginFault ==
  /\ thread = "created"
  /\ thread' = "searching"
  /\ search' = [search EXCEPT !.game = TRUE, !.stop = FALSE]
  /\ UNCHANGED <<pc, command, flags, myside, game, engine, interrupts, late>>

\* thread_main() takes over its arguments.
ThreadBegin ==
  /\ thread = "created"
  /\ thread' = "searching"
  /\ search' = [search EXCEPT !.game = TRUE]
  /\ UNCHANGED <<pc, command, flags, myside, game, engine, interrupts, late>>

ThreadEnd ==
  /\ thread = "searching"
  /\ thread' = "finished"
  /\ search' = [search EXCEPT !.game = FALSE]
  /\ UNCHANGED <<pc, command, flags, myside, game, engine, interrupts, late>>

\* The search finds that it has been stopped, ...
ThreadStop == search.stop /\ ThreadEnd

\* ... or it has reached its depth or found a mate.
ThreadFinish == ~search.stop /\ ThreadEnd

\* Shell::interrupt(), called by the handler of SIGINT.
Interrupt ==
  /\ pc # "done" /\ interrupts < MaxInterrupts
  /\ interrupts' = interrupts + 1
  /\ search' = [search EXCEPT !.stop = TRUE]
  /\ flags' = [flags EXCEPT !.stop = TRUE, !.playboth = FALSE]
  /\ late' = IF pc \in {"input", "join", "exec"} THEN late ELSE 0
  /\ UNCHANGED <<pc, command, myside, game, thread, engine>>

MainThread ==
  \/ Loop \/ DecideMove \/ DecideInput \/ Think \/ EngineMove \/ Join
  \/ New \/ ForceMode \/ Go \/ Analyze \/ SetFlags \/ Quit \/ UserMove \/ SetBoard
  \/ Undo \/ Remove \/ Redo \/ LoadGame \/ Replace \/ Solve \/ SolveNext \/ Solved

Next ==
  \/ MainThread \/ Read \/ Fail \/ SolveEnd
  \/ ThreadBegin \/ ThreadStop \/ ThreadFinish
  \/ Interrupt

Spec == Init /\ [][Next]_vars

\* Both threads are scheduled, and a search that has been stopped ends.  Nothing
\* makes the user type, a file end, or a search of the background end by itself.
FairSpec ==
  Spec /\ WF_vars(MainThread) /\ WF_vars(ThreadBegin) /\ WF_vars(ThreadStop)

-----------------------------------------------------------------------------
(* Properties. *)

Flags == [force: BOOLEAN, ponder: BOOLEAN, analyze: BOOLEAN, playboth: BOOLEAN,
          quit: BOOLEAN, stop: BOOLEAN]
Games == [side: Colors, over: BOOLEAN, running: BOOLEAN, played: Nat, undone: Nat]
Searches == [stop: BOOLEAN, mode: {"MOVE", "PONDER", "ANALYZE"}, game: BOOLEAN]

\* Types of all variables.
TypeOK ==
  /\ pc \in {"loop", "decide", "begin", "think", "input", "join", "exec", "solve",
             "solving", "done"}
  /\ command \in Commands
  /\ flags \in Flags
  /\ myside \in Colors \union {"none"}
  /\ game \in Games
  /\ search \in Searches
  /\ thread \in {"none", "created", "searching", "finished"}
  /\ engine \in {0, 1}
  /\ interrupts \in 0 .. MaxInterrupts
  /\ late \in Nat \union {None}

\* ASSERT(!thread) and ASSERT(game == NULL) of Search::start(), and the latter of
\* thread_main(): there is one search at a time, in the foreground or not.
OneSearch ==
  /\ pc \in {"begin", "think", "solve", "solving"} => thread = "none"
  /\ pc \in {"begin", "solve"} \/ thread = "created" => ~search.game

\* What is being searched is wanted: the engine thinks on its own turn and not in
\* force mode, and a background search runs for the mode the user is in.
SearchWanted ==
  /\ pc \in {"begin", "think"} => ~flags.force /\ ~game.over /\ myside = game.side
  /\ pc = "input" /\ thread # "none" =>
       /\ ~game.over
       /\ search.mode = "PONDER" => ToPonder /\ myside # game.side
       /\ search.mode = "ANALYZE" => flags.analyze

\* While a thread searches in the background nobody changes the game it has been
\* given, replaces the search object or reallocates its tables.
SearchUndisturbed ==
  [][thread = "searching" /\ thread' = "searching" => UNCHANGED <<game, engine>>]_vars

\* However the steps of the shell and of SIGINT interleave, an interrupted solve
\* or playboth begins at most one more search before the next command is read.
InterruptHeeded == late # None => late <= 1

\* quit, or the end of the input, ends the program only after its background
\* search: main() leaves its loop through stop_search(), and Shell::~Shell()
\* deletes the search.
QuitJoins == pc = "done" /\ flags.quit => thread = "none"

\* stop_search() returns: the thread it waits for has not missed the stop.
JoinReturns == pc = "join" ~> pc # "join"

=============================================================================
