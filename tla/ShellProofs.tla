----------------------------- MODULE ShellProofs -----------------------------
(***************************************************************************)
(* Proofs about Shell.  The inductive invariant says where the background    *)
(* thread can exist at all, and that the engine is not on turn there.        *)
(***************************************************************************)
EXTENDS Shell, TLAPS

\* What a thread in the background implies wherever the shell has not yet
\* decided to stop it.
BackgroundWanted ==
  thread # "none" =>
    /\ ~game.over /\ ~EngineToMove
    /\ search.mode = "PONDER" => ToPonder
    /\ search.mode = "ANALYZE" => flags.analyze
    /\ search.mode # "MOVE"

\* A command that does not stop the background search is executed beside it.
ThreadPlaces ==
  /\ pc \in {"loop", "decide", "input"} => BackgroundWanted
  /\ pc = "exec" /\ ~flags.quit /\ command \notin Stopping => BackgroundWanted
  /\ pc = "exec" /\ command \in Stopping => thread = "none"
  /\ pc = "exec" /\ flags.quit => thread = "none"
  /\ pc \in {"begin", "think", "solve", "solving"} => thread = "none"
  /\ pc = "done" /\ flags.quit => thread = "none"
  /\ pc = "exec" /\ command = "hash clear" => ClearBusy \/ thread = "none"

\* Search::game is set only while a search runs.
GamePlaces == search.game => thread = "searching" \/ pc \in {"think", "solving"}

\* quit is set at the end of the loop only, and then nothing but quit is executed.
QuitPlaces ==
  /\ flags.quit => pc \in {"loop", "join", "exec", "done"}
  /\ flags.quit /\ pc \in {"join", "exec"} => command = "quit"
  /\ pc = "join" /\ ~flags.quit => command \in Stopping

\* Where the engine is on turn, and where it is not.
TurnPlaces ==
  /\ flags.playboth => ~flags.force
  /\ pc \in {"begin", "think"} => ~flags.force /\ ~game.over /\ myside = game.side
  /\ pc \in {"input", "solve", "solving"} => ~EngineToMove
  /\ pc \in {"join", "exec"} /\ command = "solve" => ~EngineToMove

\* The count of searches begun since a SIGINT.
LatePlaces ==
  late # None =>
    /\ ~flags.playboth
    /\ late <= 1
    /\ pc \in {"join", "exec"} => flags.quit
    /\ pc \in {"begin", "solve"} => late = 0
    /\ pc \in {"loop", "decide"} /\ late = 1 => ~EngineToMove
    /\ pc \in {"solve", "solving"} => flags.stop

IInv ==
  /\ TypeOK
  /\ ThreadPlaces
  /\ GamePlaces
  /\ QuitPlaces
  /\ TurnPlaces
  /\ LatePlaces

LEMMA MovesType ==
  ASSUME NEW g \in Games, NEW over \in BOOLEAN, NEW undone \in Nat
  PROVE  Moves(g, over, undone) \in Games
  BY DEF Games, Moves, GameState, Opponent, Colors

LEMMA UndoneType == ASSUME NEW g \in Games PROVE Undone(g) \in Games
<1>1. CASE g.played = 0
  BY <1>1 DEF Games, Undone
<1>2. CASE g.played # 0
  BY <1>2 DEF Games, Undone, GameState, Opponent, Colors
<1> QED
  BY <1>1, <1>2

LEMMA NewType ==
  /\ \A g \in Games, side \in Colors, over \in BOOLEAN :
       GameState(side, over, FALSE, 0, g.undone) \in Games
  /\ \A side \in Colors, over \in BOOLEAN :
       /\ GameState(side, over, FALSE, 0, 0) \in Games
       /\ GameState(side, over, ~over, 1, 0) \in Games
  BY DEF Games, GameState

LEMMA TypeStep == TypeOK /\ [Next]_vars => TypeOK'
<1> SUFFICES ASSUME TypeOK, [Next]_vars PROVE TypeOK'
    OBVIOUS
<1> USE DEF TypeOK
<1>1. CASE Loop
  <2>1. flags' \in Flags /\ search' \in Searches
    BY <1>1 DEF Loop, Stopped, Flags, Searches
  <2> QED
    BY <1>1, <2>1 DEF Loop, Commands
<1>2. CASE DecideMove
  <2>1. game' \in Games /\ game.side \in Colors
    BY <1>2 DEF DecideMove, Games
  <2> QED
    BY <1>2, <2>1 DEF DecideMove
<1>3. CASE DecideInput
  <2>1. search' \in Searches
    BY <1>3 DEF DecideInput, StartThread, Searches
  <2> QED
    BY <1>3, <2>1 DEF DecideInput, StartThread
<1>4. CASE Think
  <2>1. search' \in Searches
    BY <1>4 DEF Think, StartSearch, Searches
  <2>2. late' \in Nat \union {None}
    BY <1>4 DEF Think, StartSearch
  <2> QED
    BY <1>4, <2>1, <2>2 DEF Think, StartSearch
<1>5. CASE SolveNext
  <2>1. search' \in Searches
    BY <1>5 DEF SolveNext, StartSearch, Searches
  <2>2. late' \in Nat \union {None}
    BY <1>5 DEF SolveNext, StartSearch
  <2> QED
    BY <1>5, <2>1, <2>2 DEF SolveNext, StartSearch
<1>6. CASE EngineMove
  <2>1. game' \in Games
    BY <1>6, MovesType DEF EngineMove
  <2>2. search' \in Searches
    BY <1>6 DEF EngineMove, Searches
  <2> QED
    BY <1>6, <2>1, <2>2 DEF EngineMove
<1>7. CASE Read
  <2>1. search' \in Searches
    BY <1>7 DEF Read, Stopped, Searches
  <2> QED
    BY <1>7, <2>1 DEF Read
<1>8. CASE New \/ ForceMode \/ Go \/ Analyze \/ SetFlags
  <2>1. flags' \in Flags
    <3>1. CASE New
      BY <3>1 DEF New, Flags
    <3>2. CASE ForceMode
      BY <3>2 DEF ForceMode, Flags
    <3>3. CASE Go
      BY <3>3 DEF Go, Flags
    <3>4. CASE Analyze
      BY <3>4 DEF Analyze, Flags
    <3>5. CASE SetFlags
      BY <3>5 DEF SetFlags, Flags
    <3> QED
      BY <1>8, <3>1, <3>2, <3>3, <3>4, <3>5
  <2>2. game' \in Games
    BY <1>8, NewType DEF New, ForceMode, Go, Analyze, SetFlags, Colors
  <2>3. myside' \in Colors \union {"none"}
    <3>1. game.side \in Colors
      BY DEF Games
    <3> QED
      BY <1>8, <3>1 DEF New, ForceMode, Go, Analyze, SetFlags, Colors
  <2>4. UNCHANGED <<command, search, thread, engine, interrupts, late>> /\ pc' = "loop"
    BY <1>8 DEF New, ForceMode, Go, Analyze, SetFlags, Return
  <2> QED
    BY <2>1, <2>2, <2>3, <2>4
<1>9. CASE UserMove \/ SetBoard \/ LoadGame
  <2>1. game' \in Games
    <3>1. CASE UserMove
      BY <3>1, MovesType DEF UserMove
    <3>2. CASE SetBoard
      BY <3>2, NewType DEF SetBoard
    <3>3. CASE LoadGame
      BY <3>3, NewType DEF LoadGame
    <3> QED
      BY <1>9, <3>1, <3>2, <3>3
  <2> QED
    BY <1>9, <2>1 DEF UserMove, SetBoard, LoadGame, Return
<1>10. CASE Undo \/ Remove \/ Redo
  <2>1. CASE Undo \/ Remove
    BY <1>10, <2>1, UndoneType DEF Undo, Remove, Execute, Return
  <2>2. CASE Redo
    <3>1. game.undone # 0 => game.undone - 1 \in Nat
      BY DEF Games
    <3>2. game' \in Games
      BY <2>2, <3>1, MovesType DEF Redo
    <3> QED
      BY <2>2, <3>2 DEF Redo, Execute, Return
  <2> QED
    BY <1>10, <2>1, <2>2
<1>11. CASE Replace
  <2>1. 1 - engine \in {0, 1}
    BY DEF TypeOK
  <2> QED
    BY <1>11, <2>1 DEF Replace, Return
<1>12. CASE Quit
  <2>1. flags' \in Flags
    BY <1>12 DEF Quit, Flags
  <2> QED
    BY <1>12, <2>1 DEF Quit
<1>13. CASE Solved
  <2>1. search' \in Searches
    BY <1>13 DEF Solved, Searches
  <2> QED
    BY <1>13, <2>1 DEF Solved
<1>14. CASE ThreadBegin \/ ThreadStop \/ ThreadFinish
  <2>1. search' \in Searches
    BY <1>14 DEF ThreadBegin, ThreadStop, ThreadFinish, ThreadEnd, Searches
  <2> QED
    BY <1>14, <2>1 DEF ThreadBegin, ThreadStop, ThreadFinish, ThreadEnd
<1>15. CASE Interrupt
  <2>1. flags' \in Flags /\ search' \in Searches
    BY <1>15 DEF Interrupt, Flags, Searches
  <2>2. interrupts' \in 0 .. MaxInterrupts
    BY <1>15, ShellAssumption DEF Interrupt
  <2>3. late' \in Nat \union {None}
    BY <1>15 DEF Interrupt
  <2> QED
    BY <1>15, <2>1, <2>2, <2>3 DEF Interrupt
<1>16. CASE Join \/ Fail \/ Solve \/ SolveEnd \/ UNCHANGED vars
  BY <1>16 DEF Join, Fail, Solve, SolveEnd, vars
<1> QED
  BY <1>1, <1>2, <1>3, <1>4, <1>5, <1>6, <1>7, <1>8, <1>9, <1>10, <1>11, <1>12,
     <1>13, <1>14, <1>15, <1>16 DEF Next, MainThread
LEMMA ThreadStep == IInv /\ [Next]_vars => ThreadPlaces'
<1> SUFFICES ASSUME IInv, [Next]_vars PROVE ThreadPlaces'
    OBVIOUS
<1> USE DEF IInv, TypeOK
<1>1. CASE Loop
  BY <1>1 DEF Loop, Stopped, ThreadPlaces, BackgroundWanted, EngineToMove, ToPonder,
     Flags
<1>2. CASE DecideMove
  BY <1>2 DEF DecideMove, EngineToMove, ThreadPlaces, BackgroundWanted
<1>3. CASE DecideInput
  BY <1>3 DEF DecideInput, EngineToMove, ToPonder, StartThread, ThreadPlaces,
     BackgroundWanted, Searches
<1>4. CASE Think
  BY <1>4 DEF Think, StartSearch, ThreadPlaces
<1>5. CASE SolveNext
  BY <1>5 DEF SolveNext, StartSearch, ThreadPlaces
<1>6. CASE EngineMove
  BY <1>6 DEF EngineMove, Moves, GameState, ThreadPlaces, BackgroundWanted
<1>7. CASE Read
  BY <1>7 DEF Read, Stopped, Possible, ThreadPlaces, BackgroundWanted, EngineToMove,
     ToPonder, QuitPlaces, Searches
<1>8. CASE New \/ ForceMode \/ Go \/ Analyze \/ SetFlags
  BY <1>8 DEF New, ForceMode, Go, Analyze, SetFlags, Execute, Return, GameState,
     ThreadPlaces, BackgroundWanted, EngineToMove, ToPonder, Stopping, Flags
<1>9. CASE UserMove \/ SetBoard \/ LoadGame \/ Undo \/ Remove \/ Redo \/ Replace
  BY <1>9 DEF UserMove, SetBoard, LoadGame, Undo, Remove, Redo, Replace, Execute,
     Return, Moves, GameState, ThreadPlaces, BackgroundWanted, EngineToMove,
     ToPonder, Stopping
<1>10. CASE Quit
  BY <1>10 DEF Quit, Execute, ThreadPlaces, BackgroundWanted, EngineToMove, ToPonder
<1>11. CASE Join \/ Fail \/ Solve \/ SolveEnd \/ Solved
  BY <1>11 DEF Join, Fail, Solve, SolveEnd, Solved, Execute, ThreadPlaces,
     BackgroundWanted, Stopping, QuitPlaces
<1>12. CASE ThreadBegin \/ ThreadStop \/ ThreadFinish
  BY <1>12 DEF ThreadBegin, ThreadStop, ThreadFinish, ThreadEnd, ThreadPlaces,
     BackgroundWanted, EngineToMove, ToPonder, Searches
<1>13. CASE Interrupt
  BY <1>13 DEF Interrupt, ThreadPlaces, BackgroundWanted, EngineToMove, ToPonder,
     Flags, Searches
<1>14. CASE UNCHANGED vars
  BY <1>14 DEF vars, ThreadPlaces, BackgroundWanted, EngineToMove, ToPonder
<1> QED
  BY <1>1, <1>2, <1>3, <1>4, <1>5, <1>6, <1>7, <1>8, <1>9, <1>10, <1>11, <1>12,
     <1>13, <1>14 DEF Next, MainThread

LEMMA GameStep == IInv /\ [Next]_vars => GamePlaces'
<1> SUFFICES ASSUME IInv, [Next]_vars PROVE GamePlaces'
    OBVIOUS
<1> USE DEF IInv, TypeOK
<1>1. CASE Loop
  BY <1>1 DEF Loop, Stopped, GamePlaces, Searches
<1>2. CASE DecideMove
  BY <1>2 DEF DecideMove, GamePlaces
<1>3. CASE DecideInput
  BY <1>3 DEF DecideInput, StartThread, GamePlaces, Searches
<1>4. CASE Think
  BY <1>4 DEF Think, GamePlaces
<1>5. CASE SolveNext
  BY <1>5 DEF SolveNext, GamePlaces
<1>6. CASE EngineMove
  BY <1>6 DEF EngineMove, GamePlaces, Searches
<1>7. CASE Read
  BY <1>7 DEF Read, Stopped, GamePlaces, Searches
<1>8. CASE New \/ ForceMode \/ Go \/ Analyze \/ SetFlags
  BY <1>8 DEF New, ForceMode, Go, Analyze, SetFlags, Execute, Return, GamePlaces
<1>9. CASE UserMove \/ SetBoard \/ LoadGame \/ Undo \/ Remove \/ Redo \/ Replace
  BY <1>9 DEF UserMove, SetBoard, LoadGame, Undo, Remove, Redo, Replace, Execute,
     Return, GamePlaces
<1>10. CASE Quit
  BY <1>10 DEF Quit, Execute, GamePlaces
<1>11. CASE Join \/ Fail \/ Solve \/ SolveEnd \/ Solved
  BY <1>11 DEF Join, Fail, Solve, SolveEnd, Solved, Execute, GamePlaces, Searches
<1>12. CASE ThreadBegin \/ ThreadStop \/ ThreadFinish
  BY <1>12 DEF ThreadBegin, ThreadStop, ThreadFinish, ThreadEnd, GamePlaces,
     Searches
<1>13. CASE Interrupt
  BY <1>13 DEF Interrupt, GamePlaces, Searches
<1>14. CASE UNCHANGED vars
  BY <1>14 DEF vars, GamePlaces
<1> QED
  BY <1>1, <1>2, <1>3, <1>4, <1>5, <1>6, <1>7, <1>8, <1>9, <1>10, <1>11, <1>12,
     <1>13, <1>14 DEF Next, MainThread

LEMMA QuitStep == IInv /\ [Next]_vars => QuitPlaces'
<1> SUFFICES ASSUME IInv, [Next]_vars PROVE QuitPlaces'
    OBVIOUS
<1> USE DEF IInv, TypeOK
<1>1. CASE Loop
  BY <1>1 DEF Loop, QuitPlaces, Flags
<1>2. CASE DecideMove
  BY <1>2 DEF DecideMove, QuitPlaces
<1>3. CASE DecideInput
  BY <1>3 DEF DecideInput, QuitPlaces
<1>4. CASE Think
  BY <1>4 DEF Think, QuitPlaces
<1>5. CASE SolveNext
  BY <1>5 DEF SolveNext, QuitPlaces
<1>6. CASE EngineMove
  BY <1>6 DEF EngineMove, QuitPlaces
<1>7. CASE Read
  BY <1>7 DEF Read, QuitPlaces
<1>8. CASE New \/ ForceMode \/ Go \/ Analyze \/ SetFlags
  BY <1>8 DEF New, ForceMode, Go, Analyze, SetFlags, Return, QuitPlaces
<1>9. CASE UserMove \/ SetBoard \/ LoadGame \/ Undo \/ Remove \/ Redo \/ Replace
  BY <1>9 DEF UserMove, SetBoard, LoadGame, Undo, Remove, Redo, Replace, Return,
     QuitPlaces
<1>10. CASE Quit
  BY <1>10 DEF Quit, QuitPlaces
<1>11. CASE Join \/ Fail \/ Solve \/ SolveEnd \/ Solved
  BY <1>11 DEF Join, Fail, Solve, SolveEnd, Solved, Execute, QuitPlaces
<1>12. CASE ThreadBegin \/ ThreadStop \/ ThreadFinish
  BY <1>12 DEF ThreadBegin, ThreadStop, ThreadFinish, ThreadEnd, QuitPlaces
<1>13. CASE Interrupt
  BY <1>13 DEF Interrupt, QuitPlaces, Flags
<1>14. CASE UNCHANGED vars
  BY <1>14 DEF vars, QuitPlaces
<1> QED
  BY <1>1, <1>2, <1>3, <1>4, <1>5, <1>6, <1>7, <1>8, <1>9, <1>10, <1>11, <1>12,
     <1>13, <1>14 DEF Next, MainThread

LEMMA TurnStep == IInv /\ [Next]_vars => TurnPlaces'
<1> SUFFICES ASSUME IInv, [Next]_vars PROVE TurnPlaces'
    OBVIOUS
<1> USE DEF IInv, TypeOK
<1>1. CASE Loop
  BY <1>1 DEF Loop, TurnPlaces, Flags
<1>2. CASE DecideMove
  BY <1>2 DEF DecideMove, EngineToMove, TurnPlaces, Games
<1>3. CASE DecideInput
  BY <1>3 DEF DecideInput, EngineToMove, TurnPlaces
<1>4. CASE Think
  BY <1>4 DEF Think, TurnPlaces
<1>5. CASE SolveNext
  BY <1>5 DEF SolveNext, TurnPlaces, EngineToMove
<1>6. CASE EngineMove
  BY <1>6 DEF EngineMove, TurnPlaces
<1>7. CASE Read
  BY <1>7 DEF Read, TurnPlaces, EngineToMove
<1>8. CASE New \/ ForceMode \/ Go \/ Analyze \/ SetFlags
  BY <1>8 DEF New, ForceMode, Go, Analyze, SetFlags, Return, TurnPlaces, Flags
<1>9. CASE UserMove \/ SetBoard \/ LoadGame \/ Undo \/ Remove \/ Redo \/ Replace
  BY <1>9 DEF UserMove, SetBoard, LoadGame, Undo, Remove, Redo, Replace, Execute,
     Return, TurnPlaces
<1>10. CASE Quit
  BY <1>10 DEF Quit, TurnPlaces
<1>11. CASE Join \/ Fail \/ Solve \/ SolveEnd \/ Solved
  BY <1>11 DEF Join, Fail, Solve, SolveEnd, Solved, Execute, TurnPlaces,
     EngineToMove
<1>12. CASE ThreadBegin \/ ThreadStop \/ ThreadFinish
  BY <1>12 DEF ThreadBegin, ThreadStop, ThreadFinish, ThreadEnd, TurnPlaces,
     EngineToMove
<1>13. CASE Interrupt
  BY <1>13 DEF Interrupt, TurnPlaces, EngineToMove, Flags
<1>14. CASE UNCHANGED vars
  BY <1>14 DEF vars, TurnPlaces, EngineToMove
<1> QED
  BY <1>1, <1>2, <1>3, <1>4, <1>5, <1>6, <1>7, <1>8, <1>9, <1>10, <1>11, <1>12,
     <1>13, <1>14 DEF Next, MainThread

LEMMA LateStep == IInv /\ [Next]_vars => LatePlaces'
<1> SUFFICES ASSUME IInv, [Next]_vars PROVE LatePlaces'
    OBVIOUS
<1> USE DEF IInv, TypeOK
<1>1. CASE Loop
  BY <1>1 DEF Loop, LatePlaces, EngineToMove, Flags
<1>2. CASE DecideMove
  <2>1. late # None => late = 0
    <3>1. late # None => late # 1
      BY <1>2 DEF DecideMove, LatePlaces
    <3> QED
      BY <3>1 DEF LatePlaces
  <2>2. late # None => ~flags.playboth
    BY  DEF LatePlaces
  <2> QED
    BY <1>2, <2>1, <2>2 DEF DecideMove, LatePlaces
<1>3. CASE DecideInput
  BY <1>3 DEF DecideInput, LatePlaces
<1>4. CASE Think
  <2>1. late # None => late = 0 /\ ~flags.playboth
    BY <1>4 DEF Think, LatePlaces
  <2>2. late' # None => late # None /\ late' = 1
    BY <1>4, <2>1 DEF Think, StartSearch
  <2>3. pc = "solve" /\ late # None => flags.stop
    BY  DEF LatePlaces
  <2> QED
    BY <1>4, <2>1, <2>2, <2>3 DEF Think, LatePlaces
<1>5. CASE SolveNext
  <2>1. late # None => late = 0 /\ ~flags.playboth
    BY <1>5 DEF SolveNext, LatePlaces
  <2>2. late' # None => late # None /\ late' = 1
    BY <1>5, <2>1 DEF SolveNext, StartSearch
  <2>3. pc = "solve" /\ late # None => flags.stop
    BY  DEF LatePlaces
  <2> QED
    BY <1>5, <2>1, <2>2, <2>3 DEF SolveNext, LatePlaces
<1>6. CASE EngineMove
  <2>1. late # None => late <= 1 /\ ~flags.playboth
    BY  DEF LatePlaces
  <2>2. ~flags.playboth => ~EngineToMove'
    <3>1. game'.side # myside
      BY <1>6 DEF EngineMove, TurnPlaces, Moves, GameState, Opponent
    <3> QED
      BY <1>6, <3>1 DEF EngineMove, EngineToMove
  <2> QED
    BY <1>6, <2>1, <2>2 DEF EngineMove, LatePlaces
<1>7. CASE Read
  BY <1>7 DEF Read, LatePlaces
<1>8. CASE New \/ ForceMode \/ Go \/ Analyze \/ SetFlags
  BY <1>8 DEF New, ForceMode, Go, Analyze, SetFlags, Execute, Return, LatePlaces,
     QuitPlaces
<1>9. CASE UserMove \/ SetBoard \/ LoadGame \/ Undo \/ Remove \/ Redo \/ Replace
  BY <1>9 DEF UserMove, SetBoard, LoadGame, Undo, Remove, Redo, Replace, Execute,
     Return, LatePlaces, QuitPlaces
<1>10. CASE Quit
  BY <1>10 DEF Quit, Execute, LatePlaces
<1>11. CASE Join \/ Fail \/ Solve \/ SolveEnd \/ Solved
  BY <1>11 DEF Join, Fail, Solve, SolveEnd, Solved, Execute, LatePlaces,
     EngineToMove, TurnPlaces, QuitPlaces
<1>12. CASE ThreadBegin \/ ThreadStop \/ ThreadFinish
  BY <1>12 DEF ThreadBegin, ThreadStop, ThreadFinish, ThreadEnd, LatePlaces,
     EngineToMove
<1>13. CASE Interrupt
  <2>1. flags'.stop = TRUE /\ flags'.playboth = FALSE /\ flags'.quit = flags.quit
    BY <1>13 DEF Interrupt
  <2>2. CASE pc \in {"input", "join", "exec"}
    BY <1>13, <2>1, <2>2 DEF Interrupt, LatePlaces
  <2>3. CASE pc \notin {"input", "join", "exec"}
    BY <1>13, <2>1, <2>3 DEF Interrupt, LatePlaces
  <2> QED
    BY <2>2, <2>3
<1>14. CASE UNCHANGED vars
  BY <1>14 DEF vars, LatePlaces, EngineToMove
<1> QED
  BY <1>1, <1>2, <1>3, <1>4, <1>5, <1>6, <1>7, <1>8, <1>9, <1>10, <1>11, <1>12,
     <1>13, <1>14 DEF Next, MainThread

LEMMA InitIInv == Init => IInv
<1> SUFFICES ASSUME Init PROVE IInv
    OBVIOUS
<1>1. TypeOK
  <2>1. flags \in Flags /\ search \in Searches /\ game \in Games
    BY DEF Init, Flags, Searches, Games, GameState, Colors
  <2>2. interrupts \in 0 .. MaxInterrupts
    BY ShellAssumption DEF Init
  <2> QED
    BY <2>1, <2>2 DEF Init, TypeOK, Commands, Colors
<1>2. ThreadPlaces /\ GamePlaces /\ QuitPlaces
  BY DEF Init, ThreadPlaces, BackgroundWanted, GamePlaces, QuitPlaces
<1>3. TurnPlaces /\ LatePlaces
  BY DEF Init, TurnPlaces, LatePlaces
<1> QED
  BY <1>1, <1>2, <1>3 DEF IInv

LEMMA Step == IInv /\ [Next]_vars => IInv'
  BY TypeStep, ThreadStep, GameStep, QuitStep, TurnStep, LateStep DEF IInv

LEMMA Invariant == Spec => []IInv
  BY InitIInv, Step, PTL DEF Spec

\* Type correctness, for every bound, and whether or not a table is cleared while
\* it is used.
THEOREM ShellTypes == Spec => []TypeOK
<1>1. IInv => TypeOK
  BY DEF IInv
<1> QED
  BY <1>1, Invariant, PTL

\* The assertions of Search::start() and thread_main() that there is no thread and
\* no other search never fail.
THEOREM OneSearchRuns == Spec => []OneSearch
<1>1. IInv => OneSearch
  BY DEF IInv, TypeOK, ThreadPlaces, GamePlaces, OneSearch
<1> QED
  BY <1>1, Invariant, PTL

\* The engine thinks and ponders for the player it plays for only, and not in
\* force mode.
THEOREM SearchIsWanted == Spec => []SearchWanted
<1>1. IInv => SearchWanted
  BY DEF IInv, TypeOK, Games, Flags, Searches, ThreadPlaces, BackgroundWanted, EngineToMove,
         ToPonder, TurnPlaces, SearchWanted
<1> QED
  BY <1>1, Invariant, PTL

\* An interrupted solve or playboth begins at most one more search.
THEOREM InterruptIsHeeded == Spec => []InterruptHeeded
<1>1. IInv => InterruptHeeded
  BY DEF IInv, LatePlaces, InterruptHeeded
<1> QED
  BY <1>1, Invariant, PTL

\* A program that has been told to quit ends without a thread.
THEOREM QuitHasJoined == Spec => []QuitJoins
<1>1. IInv => QuitJoins
  BY DEF IInv, ThreadPlaces, QuitJoins
<1> QED
  BY <1>1, Invariant, PTL

\* Unless a table is cleared while a search runs, nobody touches the game, the
\* search object or its tables while the background thread searches.
THEOREM SearchIsUndisturbed ==
  ASSUME ClearBusy = FALSE PROVE Spec => SearchUndisturbed
<1> DEFINE Undisturbed ==
      thread = "searching" /\ thread' = "searching" => UNCHANGED <<game, engine>>
<1>1. IInv /\ [Next]_vars => Undisturbed
  <2> SUFFICES ASSUME IInv, [Next]_vars, thread = "searching"
               PROVE  UNCHANGED <<game, engine>>
      OBVIOUS
  <2>1. pc \notin {"begin", "think"} /\ (pc = "decide" => ~EngineToMove)
    BY DEF IInv, ThreadPlaces, BackgroundWanted
  <2>2. pc = "exec" => command \notin Stopping \union {"hash clear"}
    BY DEF IInv, ThreadPlaces
  <2>3. ~ (New \/ UserMove \/ SetBoard \/ LoadGame \/ Undo \/ Remove \/ Redo \/ Replace)
    BY <2>2 DEF New, UserMove, SetBoard, LoadGame, Undo, Remove, Redo, Replace, Execute,
                Stopping, Commands
  <2>4. ~ (DecideMove \/ EngineMove)
    BY <2>1 DEF DecideMove, EngineMove
  <2> QED
    BY <2>3, <2>4
       DEF Next, MainThread, vars, Loop, DecideInput, Think, Join, ForceMode, Go, Analyze,
           SetFlags, Quit, Solve, SolveNext, Solved, Read, Fail, SolveEnd, ThreadBegin,
           ThreadStop, ThreadFinish, ThreadEnd, Interrupt
<1> QED
  BY <1>1, Invariant, PTL DEF Spec, SearchUndisturbed

=============================================================================
