-------------------------------- MODULE Clock -------------------------------
(***************************************************************************)
(* One side's clock over a game (src/src/common/clock.cc), driven the way   *)
(* game.cc, search.cc and shell_cmd.cc drive it: started when the side is   *)
(* to move, given a time limit when the engine begins to think, read and    *)
(* sometimes extended while it thinks, stopped when the move is made.       *)
(***************************************************************************)
EXTENDS ClockOps

CONSTANTS
  Extensions,   \* amounts by which extend_time_iteration() may extend
  Reported,     \* values of the xboard command time
  Delays,       \* steps in which time passes
  MaxElapsed,   \* bound: time observed per move
  MaxMoves      \* bound: moves of this side

ASSUME GameAssumption ==
  /\ Extensions \subseteq Nat /\ Reported \subseteq Nat /\ Delays \subseteq Nat
  /\ MaxElapsed \in Nat /\ MaxMoves \in Nat

VARIABLES
  clock,       \* the clock
  elapsed,     \* get_elapsed_time() of a running clock
  searching,   \* a search in mode MOVE uses the clock
  stop,        \* Search::stop, set on timeout
  extended,    \* Search::stop_iteration, set by an extension
  moves        \* moves made

clockVars == <<clock, elapsed, searching, stop, extended, moves>>

ClockInit ==
  /\ \E mode \in Modes : clock = NewClock(mode)
  /\ elapsed = 0 /\ searching = FALSE /\ stop = FALSE /\ extended = FALSE
  /\ moves = 0

\* Game::start(), or make_move() of the other side.
Start ==
  /\ ~clock.running /\ moves < MaxMoves
  /\ clock' = Started(clock)
  /\ elapsed' = 0
  /\ UNCHANGED <<searching, stop, extended, moves>>

\* Search::main() in mode MOVE.
BeginSearch ==
  /\ clock.running /\ ~searching
  /\ clock' = Allocated(clock)
  /\ searching' = TRUE /\ stop' = FALSE /\ extended' = FALSE
  /\ UNCHANGED <<elapsed, moves>>

\* Search::check_time(): timeout, or perhaps one extension per search. It is
\* called again after a timeout, while the calls in progress return.
CheckTime ==
  /\ searching
  /\ IF TimedOut(clock, elapsed)
       THEN stop' = TRUE /\ UNCHANGED <<clock, extended>>
       ELSE /\ UNCHANGED stop
            /\ \/ UNCHANGED <<clock, extended>>
               \/ /\ clock.mode # "EXACT" /\ ~extended
                  /\ \E t \in Extensions : clock' = MoreTime(clock, t)
                  /\ extended' = (clock.mode # "NONE")
  /\ UNCHANGED <<elapsed, searching, moves>>

\* Game::make_move(): the engine's move when its search has returned, for
\* whatever reason, or the user's move.
Move ==
  /\ clock.running
  /\ clock' = Stopped(clock, elapsed)
  /\ searching' = FALSE /\ moves' = moves + 1
  /\ UNCHANGED <<elapsed, stop, extended>>

\* cmd_time(). No command is read while the engine thinks.
TimeCommand ==
  /\ ~searching
  /\ \E t \in Reported : clock' = WithRemaining(clock, t)
  /\ UNCHANGED <<elapsed, searching, stop, extended, moves>>

\* cmd_go()
GoCommand ==
  /\ ~searching
  /\ clock' = TurnedBack(clock)
  /\ elapsed' = 0
  /\ UNCHANGED <<searching, stop, extended, moves>>

Tick ==
  /\ clock.running
  /\ \E d \in Delays : elapsed' = elapsed + d /\ elapsed + d <= MaxElapsed
  /\ UNCHANGED <<clock, searching, stop, extended, moves>>

ClockNext ==
  \/ Start \/ BeginSearch \/ CheckTime \/ Move
  \/ TimeCommand \/ GoCommand \/ Tick

ClockSpec == ClockInit /\ [][ClockNext]_clockVars

-----------------------------------------------------------------------------
(* Properties. *)

\* Types of all variables.
ClockTypeOK ==
  /\ clock \in Clock
  /\ elapsed \in Nat /\ moves \in Nat
  /\ searching \in BOOLEAN /\ stop \in BOOLEAN /\ extended \in BOOLEAN

\* ASSERT(remaining_moves > 0) in allocate_time(), which then divides by it.
MovesRemain == clock.mode = "CONV" => clock.remaining_moves \in 1 .. BaseMoves

\* "Always add 1 second reserve so can be sure we never exceed the game's time
\* limit": whatever extensions a search gets, it is never allowed to think into
\* the last second of the remaining time.
ReserveKept ==
  searching /\ clock.mode \in Timed =>
    /\ 0 <= clock.limit /\ clock.limit <= clock.hard_limit
    /\ clock.hard_limit = 0 \/ clock.hard_limit + Second <= clock.remaining_time

\* A move that takes at most the reserve longer than its limit never brings the
\* clock below zero, if the search was given any time at all.
NeverFlagged ==
  [][Move /\ searching /\ clock.mode \in Timed
       /\ clock.limit > 0 /\ elapsed <= clock.limit + Second
     => clock'.remaining_time >= 0]_clockVars

\* The limit of a search only grows, and a search that has timed out is not
\* given time afterwards.
LimitGrows ==
  [][searching /\ searching' =>
       clock'.limit >= clock.limit /\ (stop => clock' = clock)]_clockVars

=============================================================================
