------------------------------ MODULE ClockOps ------------------------------
(***************************************************************************)
(* The methods of class Clock (src/src/common/clock.cc) as functions on a   *)
(* clock.  Times are integers in an arbitrary unit; where the code reads    *)
(* the wall clock, the elapsed time is an argument.                         *)
(***************************************************************************)
EXTENDS Integers

CONSTANTS
  BaseTime,    \* base_time, positive
  BaseMoves,   \* base_moves of a conventional clock
  Increment,   \* increment
  Exact,       \* time per move of an exact clock
  Second       \* from_s(1), the reserve

ASSUME ClockAssumption ==
  /\ BaseTime \in Nat \ {0} /\ BaseMoves \in Nat \ {0}
  /\ Increment \in Nat /\ Exact \in Nat /\ Second \in Nat

Modes == {"NONE", "CONV", "INCR", "SUDDENDEATH", "EXACT"}
Timed == {"CONV", "INCR", "SUDDENDEATH"}

Clock == [mode: Modes, running: BOOLEAN, limit: Nat, hard_limit: Nat,
          remaining_time: Int, remaining_moves: Nat, over_time: Nat, lost_time: Nat]

\* The constructors.
NewClock(mode) ==
  LET limit == IF mode = "EXACT" THEN Exact ELSE 0 IN
  [mode |-> mode, running |-> FALSE, limit |-> limit, hard_limit |-> limit,
   remaining_time |-> BaseTime, remaining_moves |-> BaseMoves,
   over_time |-> 0, lost_time |-> 0]

Started(c) == [c EXCEPT !.running = TRUE]

\* Fault: a new period begins without its moves.
UpdatedFault(c, elapsed) ==
  [c EXCEPT !.remaining_time = @ - elapsed + (IF c.mode = "INCR" THEN Increment ELSE 0),
            !.remaining_moves = @ - 1]

\* update_remaining(): the time is charged; a conventional clock gets base_time
\* again when all moves of its period have been made.
Updated(c, elapsed) ==
  LET left == c.remaining_time - elapsed
      last == c.remaining_moves = 1
  IN  IF c.mode = "CONV"
        THEN [c EXCEPT !.remaining_time = IF last THEN left + BaseTime ELSE left,
                       !.remaining_moves = IF last THEN BaseMoves ELSE @ - 1]
      ELSE IF c.mode = "INCR" THEN [c EXCEPT !.remaining_time = left + Increment]
      ELSE IF c.mode = "SUDDENDEATH" THEN [c EXCEPT !.remaining_time = left]
      ELSE c

\* stop() after the clock has run for some time.
Stopped(c, elapsed) ==
  IF ~c.running THEN c
  ELSE [Updated(c, elapsed) EXCEPT
          !.running = FALSE,
          !.over_time = IF c.mode # "NONE" /\ elapsed > c.limit THEN elapsed - c.limit ELSE 0]

\* turn_back(), which also starts the measured time anew if the clock runs.
TurnedBack(c) == [c EXCEPT !.over_time = 0, !.lost_time = 0]

\* The time that allocate_time() dares to count on.
RemainingSafe(c) == c.remaining_time - 2 * c.lost_time - Second

\* The share of it for one move.
Share(c) ==
  IF c.mode = "CONV" THEN RemainingSafe(c) \div c.remaining_moves
  ELSE IF c.mode = "INCR" THEN RemainingSafe(c) \div 20 + Increment
  ELSE RemainingSafe(c) \div 40

\* The share less the safety margin for what earlier searches took too long.
WithMargin(c) ==
  IF Share(c) < 2 * c.over_time THEN 0 ELSE Share(c) - 2 * c.over_time

\* Fault: the hard limit is not bounded by the remaining time.
AllocatedFault(c) ==
  IF c.mode \notin Timed THEN c
  ELSE IF RemainingSafe(c) <= 0 THEN [c EXCEPT !.limit = 0, !.hard_limit = 0]
  ELSE [c EXCEPT !.limit = WithMargin(c), !.hard_limit = 2 * WithMargin(c)]

\* allocate_time(). A hard limit beyond the safe time is cut to it, and then
\* the limit is set to the hard limit.
Allocated(c) ==
  IF c.mode \notin Timed THEN c
  ELSE IF RemainingSafe(c) <= 0 THEN [c EXCEPT !.limit = 0, !.hard_limit = 0]
  ELSE IF 2 * WithMargin(c) > RemainingSafe(c)
    THEN [c EXCEPT !.limit = RemainingSafe(c), !.hard_limit = RemainingSafe(c)]
    ELSE [c EXCEPT !.limit = WithMargin(c), !.hard_limit = 2 * WithMargin(c)]

\* Fault: more time is granted without regard to the hard limit.
MoreTimeFault(c, t) ==
  IF c.mode \notin Timed THEN c ELSE [c EXCEPT !.limit = @ + t]

\* allocate_more_time()
MoreTime(c, t) ==
  IF c.mode \notin Timed THEN c
  ELSE [c EXCEPT !.limit = IF @ + t > c.hard_limit THEN c.hard_limit ELSE @ + t]

\* timeout()
TimedOut(c, elapsed) == c.mode # "NONE" /\ elapsed >= c.limit

\* set_remaining_time(); the difference to what the engine had counted is kept.
WithRemaining(c, t) ==
  [c EXCEPT !.remaining_time = t,
            !.lost_time = IF t < c.remaining_time THEN c.remaining_time - t ELSE 0]

=============================================================================
