----------------------------- MODULE GameProofs -----------------------------
(***************************************************************************)
(* Proofs about Game and Book, for any game graph, openings, files and time *)
(* controls, and any number of moves.  The moves made and the moves taken   *)
(* back are read as one line of boards through the current one: undo and    *)
(* redo only walk along it.  The second part is about the book, for any     *)
(* keys and collisions, texts and numbers of slots: put() keeps what it has *)
(* written within the reach of lookup(), and the book's moves keep the game *)
(* what the first part says of it.                                         *)
(***************************************************************************)
EXTENDS Book, SequenceTheorems, FiniteSetTheorems, WellFoundedInduction, TLAPS

-----------------------------------------------------------------------------
(* Types. *)

\* Clocks on which a conventional period has moves left.
GoodClock == {c \in Clock : c.mode = "CONV" => c.remaining_moves > 0}
GoodClocks == [Sides -> GoodClock]
GoodEntries == [board: Board, move: Moves, clock: GoodClocks]

Typed ==
  /\ initial_board \in Board /\ current_board \in Board
  /\ initial_clock \in GoodClocks /\ current_clock \in GoodClocks
  /\ old_clock \in GoodClocks
  /\ entries \in Seq(GoodEntries) /\ undone_entries \in Seq(GoodEntries)
  /\ running \in BOOLEAN /\ result \in Results

\* What the operations make of a clock is a clock.
LEMMA ClocksGood ==
  /\ \A mode \in Modes : NewClock(mode) \in GoodClock
  /\ \A c \in GoodClock :
       /\ Started(c) \in GoodClock
       /\ TurnedBack(c) \in GoodClock
       /\ \A t \in Nat : WithRemaining(c, t) \in GoodClock
       /\ \A e \in Nat : Updated(c, e) \in GoodClock /\ Stopped(c, e) \in GoodClock
<1>1. ASSUME NEW mode \in Modes PROVE NewClock(mode) \in GoodClock
  <2>1. (IF mode = "EXACT" THEN Exact ELSE 0) \in Nat
    BY ClockAssumption
  <2> QED
    BY <1>1, <2>1, ClockAssumption DEF NewClock, GoodClock, Clock
<1>2. ASSUME NEW c \in GoodClock
      PROVE  Started(c) \in GoodClock /\ TurnedBack(c) \in GoodClock
  BY <1>2 DEF Started, TurnedBack, GoodClock, Clock
<1>3. ASSUME NEW c \in GoodClock, NEW t \in Nat PROVE WithRemaining(c, t) \in GoodClock
  <2>1. c \in Clock /\ c.remaining_time \in Int
    BY <1>3 DEF GoodClock, Clock
  <2> DEFINE lost == IF t < c.remaining_time THEN c.remaining_time - t ELSE 0
  <2>2. lost \in Nat
    BY <2>1
  <2>3. WithRemaining(c, t) = [c EXCEPT !.remaining_time = t, !.lost_time = lost]
    BY DEF WithRemaining
  <2> HIDE DEF lost
  <2>4. t \in Int
    OBVIOUS
  <2> DEFINE w == WithRemaining(c, t)
  <2>5. w \in Clock /\ w.mode = c.mode /\ w.remaining_moves = c.remaining_moves
    BY <2>1, <2>2, <2>3, <2>4 DEF Clock
  <2> HIDE DEF w
  <2>6. w \in GoodClock
    BY <1>3, <2>5 DEF GoodClock
  <2> QED
    BY <2>6 DEF w
<1>4. ASSUME NEW c \in GoodClock, NEW e \in Nat PROVE Updated(c, e) \in GoodClock
  <2>0. /\ c \in Clock /\ c.remaining_time \in Int /\ c.remaining_moves \in Nat
        /\ c.mode = "CONV" => c.remaining_moves > 0
    BY <1>4 DEF GoodClock, Clock
  <2> DEFINE t == c.remaining_time - e
  <2>1. t \in Int /\ t + BaseTime \in Int /\ t + Increment \in Int
    BY <2>0, ClockAssumption
  <2>2. CASE c.mode = "CONV" /\ c.remaining_moves = 1
    <3>1. Updated(c, e) = [c EXCEPT !.remaining_time = t + BaseTime,
                                    !.remaining_moves = BaseMoves]
      BY <2>2 DEF Updated
    <3>2. t + BaseTime \in Int /\ BaseMoves \in Nat /\ BaseMoves > 0
      BY <2>1, ClockAssumption
    <3> HIDE DEF t
    <3>3. Updated(c, e) \in Clock /\ Updated(c, e).remaining_moves = BaseMoves
      BY <2>0, <3>1, <3>2 DEF Clock
    <3> QED
      BY <3>2, <3>3 DEF GoodClock
  <2>3. CASE c.mode = "CONV" /\ c.remaining_moves # 1
    <3>1. Updated(c, e) = [c EXCEPT !.remaining_time = t,
                                    !.remaining_moves = c.remaining_moves - 1]
      BY <2>3 DEF Updated
    <3>2. c.remaining_moves - 1 \in Nat /\ c.remaining_moves - 1 > 0
      BY <2>0, <2>3
    <3> HIDE DEF t
    <3> QED
      BY <2>0, <2>1, <3>1, <3>2 DEF GoodClock, Clock
  <2>4. CASE c.mode = "INCR"
    <3>1. Updated(c, e) = [c EXCEPT !.remaining_time = t + Increment]
      BY <2>4 DEF Updated
    <3> HIDE DEF t
    <3> QED
      BY <2>0, <2>1, <2>4, <3>1 DEF GoodClock, Clock
  <2>5. CASE c.mode = "SUDDENDEATH"
    <3>1. Updated(c, e) = [c EXCEPT !.remaining_time = t]
      BY <2>5 DEF Updated
    <3> HIDE DEF t
    <3> QED
      BY <2>0, <2>1, <2>5, <3>1 DEF GoodClock, Clock
  <2>6. CASE c.mode \notin Timed
    BY <1>4, <2>6 DEF Updated, Timed
  <2> QED
    BY <2>2, <2>3, <2>4, <2>5, <2>6 DEF Timed
<1>5. ASSUME NEW c \in GoodClock, NEW e \in Nat PROVE Stopped(c, e) \in GoodClock
  <2>1. CASE ~c.running
    BY <1>5, <2>1 DEF Stopped
  <2>2. CASE c.running
    <3> DEFINE o == IF c.mode # "NONE" /\ e > c.limit THEN e - c.limit ELSE 0
               u == Updated(c, e)
    <3>1. Stopped(c, e) = [u EXCEPT !.running = FALSE, !.over_time = o]
      BY <2>2 DEF Stopped
    <3>2. c.limit \in Nat
      BY <1>5 DEF GoodClock, Clock
    <3>3. o \in Nat /\ u \in GoodClock
      BY <1>4, <1>5, <3>2
    <3> HIDE DEF o, u
    <3> QED
      BY <3>1, <3>3 DEF GoodClock, Clock
  <2> QED
    BY <2>1, <2>2
<1> QED
  BY <1>1, <1>2, <1>3, <1>4, <1>5

\* So the pairs of clocks of a game keep their types.
LEMMA PairsGood ==
  /\ \A mode \in Modes : Both(NewClock(mode)) \in GoodClocks
  /\ \A cc \in GoodClocks :
       /\ StopBoth(cc) \in GoodClocks
       /\ \A s \in Sides :
            /\ StartSide(cc, s) \in GoodClocks
            /\ [cc EXCEPT ![s] = TurnedBack(@)] \in GoodClocks
            /\ \A t \in Nat : [cc EXCEPT ![s] = WithRemaining(@, t)] \in GoodClocks
            /\ \A e \in Nat : StopSide(cc, s, e) \in GoodClocks
<1>1. ASSUME NEW mode \in Modes PROVE Both(NewClock(mode)) \in GoodClocks
  BY <1>1, ClocksGood DEF Both, GoodClocks
<1>2. ASSUME NEW cc \in GoodClocks PROVE StopBoth(cc) \in GoodClocks
  <2>1. \A s \in Sides : Stopped(cc[s], 0) \in GoodClock
    BY <1>2, ClocksGood DEF GoodClocks
  <2> QED
    BY <2>1 DEF StopBoth, GoodClocks
<1>3. ASSUME NEW cc \in GoodClocks, NEW s \in Sides
      PROVE  /\ StartSide(cc, s) \in GoodClocks
             /\ [cc EXCEPT ![s] = TurnedBack(@)] \in GoodClocks
  <2>1. Started(cc[s]) \in GoodClock /\ TurnedBack(cc[s]) \in GoodClock
    BY <1>3, ClocksGood DEF GoodClocks
  <2> QED
    BY <1>3, <2>1 DEF StartSide, GoodClocks
<1>4. ASSUME NEW cc \in GoodClocks, NEW s \in Sides, NEW t \in Nat
      PROVE  /\ [cc EXCEPT ![s] = WithRemaining(@, t)] \in GoodClocks
             /\ StopSide(cc, s, t) \in GoodClocks
  <2>1. WithRemaining(cc[s], t) \in GoodClock /\ Stopped(cc[s], t) \in GoodClock
    BY <1>4, ClocksGood DEF GoodClocks
  <2> QED
    BY <1>4, <2>1 DEF StopSide, GoodClocks
<1> QED
  BY <1>1, <1>2, <1>3, <1>4

LEMMA PlayedTyped ==
  ASSUME NEW b \in Board, NEW m \in Legal[b.pos]
  PROVE  Played(b, m) \in Board /\ m \in Moves
<1>1. b.pos \in Positions /\ b.fifty \in Nat
  BY DEF Board
<1>2. After[b.pos][m] \in Positions /\ m \in Moves
  BY <1>1, BoardAssumption
<1>3. (IF m \in Irreversible THEN 0 ELSE b.fifty + 1) \in Nat
  BY <1>1
<1> QED
  BY <1>2, <1>3 DEF Played, Board

LEMMA EntryTyped ==
  ASSUME NEW b \in Board, NEW m \in Moves, NEW cc \in GoodClocks
  PROVE  Entry(b, m, cc) \in GoodEntries
BY DEF Entry, GoodEntries

LEMMA SideTyped == \A p : SideOf(p) \in Sides
BY DEF SideOf, Sides

LEMMA ResultTyped == \A b, h : ResultOf(b, h) \in Results
BY DEF ResultOf, Results

\* make_move() and redo_move() leave values of the right types.
LEMMA EnterTyped ==
  ASSUME Typed, NEW x \in GoodEntries, NEW b \in Board, NEW cc \in GoodClocks,
         Enter(x, b, cc), undone_entries' \in Seq(GoodEntries),
         UNCHANGED <<initial_board, initial_clock>>
  PROVE  Typed'
<1>1. entries' \in Seq(GoodEntries) /\ result' \in Results /\ running' \in BOOLEAN
  BY ResultTyped DEF Enter, Typed
<1>2. StartSide(cc, SideOf(b.pos)) \in GoodClocks
  BY PairsGood, SideTyped
<1> QED
  BY <1>1, <1>2 DEF Enter, Typed

\* What the last entry and the first undone one are.
LEMMA EndsTyped ==
  ASSUME Typed
  PROVE  /\ Len(entries) \in Nat /\ Len(undone_entries) \in Nat
         /\ \A i \in 1 .. Len(entries) : entries[i] \in GoodEntries
         /\ \A i \in 1 .. Len(undone_entries) : undone_entries[i] \in GoodEntries
         /\ entries # <<>> => Len(entries) \in 1 .. Len(entries)
         /\ undone_entries # <<>> =>
              /\ Head(undone_entries) = undone_entries[1]
              /\ 1 \in 1 .. Len(undone_entries)
              /\ Tail(undone_entries) \in Seq(GoodEntries)
              /\ Len(Tail(undone_entries)) = Len(undone_entries) - 1
              /\ \A i \in 1 .. Len(undone_entries) - 1 :
                   Tail(undone_entries)[i] = undone_entries[i + 1]
<1>1. entries \in Seq(GoodEntries) /\ undone_entries \in Seq(GoodEntries)
  BY DEF Typed
<1>2. undone_entries # <<>> => Head(undone_entries) = undone_entries[1]
  BY <1>1
<1> QED
  BY <1>1, <1>2, LenProperties, ElementOfSeq, EmptySeq, HeadTailProperties

\* The entries before the last one.
LEMMA FrontTyped ==
  ASSUME Typed, entries # <<>>
  PROVE  /\ SubSeq(entries, 1, Len(entries) - 1) \in Seq(GoodEntries)
         /\ Len(SubSeq(entries, 1, Len(entries) - 1)) = Len(entries) - 1
         /\ \A i \in 1 .. Len(entries) - 1 :
              SubSeq(entries, 1, Len(entries) - 1)[i] = entries[i]
<1> DEFINE n == Len(entries) - 1
<1>1. n \in Nat /\ \A i \in 1 .. n : entries[i] \in GoodEntries
  <2>1. Len(entries) \in 1 .. Len(entries) /\ Len(entries) \in Nat
    BY EndsTyped
  <2>2. \A i \in 1 .. n : i \in 1 .. Len(entries)
    BY <2>1
  <2> QED
    BY <2>1, <2>2, EndsTyped
<1> HIDE DEF n
<1>2. /\ SubSeq(entries, 1, n) \in Seq(GoodEntries)
      /\ Len(SubSeq(entries, 1, n)) = IF 1 <= n THEN n - 1 + 1 ELSE 0
      /\ \A i \in 1 .. n - 1 + 1 : SubSeq(entries, 1, n)[i] = entries[1 + i - 1]
  <2>1. 1 \in Int /\ n \in Int
    BY <1>1
  <2>2. \A i \in 1 .. n : entries[i] \in GoodEntries
    BY <1>1
  <2> QED
    BY ONLY <2>1, <2>2, SubSeqProperties, SMT
<1>3. (IF 1 <= n THEN n - 1 + 1 ELSE 0) = n
  BY <1>1
<1>4. \A i \in 1 .. n : i \in 1 .. n - 1 + 1 /\ 1 + i - 1 = i
  BY <1>1
<1>5. \A i \in 1 .. n : SubSeq(entries, 1, n)[i] = entries[i]
  BY <1>2, <1>4
<1> QED
  BY <1>2, <1>3, <1>5 DEF n

\* The undone moves after one more.
LEMMA UndoneTyped ==
  ASSUME Typed, NEW x \in GoodEntries
  PROVE  /\ <<x>> \o undone_entries \in Seq(GoodEntries)
         /\ Len(<<x>> \o undone_entries) = Len(undone_entries) + 1
         /\ (<<x>> \o undone_entries)[1] = x
         /\ \A i \in 1 .. Len(undone_entries) :
              (<<x>> \o undone_entries)[i + 1] = undone_entries[i]
<1>1. <<x>> \in Seq(GoodEntries) /\ Len(<<x>>) = 1 /\ <<x>>[1] = x
  OBVIOUS
<1>2. undone_entries \in Seq(GoodEntries) /\ Len(undone_entries) \in Nat
  BY EndsTyped DEF Typed
<1> QED
  BY <1>1, <1>2, ConcatProperties

LEMMA TypedInit == Init => Typed
<1> SUFFICES ASSUME Init PROVE Typed
  OBVIOUS
<1>1. "EXACT" \in Modes
  BY DEF Modes
<1>2. initial_clock \in GoodClocks
  BY <1>1, PairsGood DEF Init
<1>3. initial_board \in Board
  BY BoardAssumption DEF Init, Board
<1> QED
  BY <1>2, <1>3, ResultTyped, EmptySeq DEF Init, Typed

LEMMA TypedStep == Typed /\ [Next]_vars => Typed'
<1> SUFFICES ASSUME Typed, [Next]_vars PROVE Typed'
  OBVIOUS
<1>0. current_board \in Board /\ current_clock \in GoodClocks /\ old_clock \in GoodClocks
      /\ initial_clock \in GoodClocks /\ Side \in Sides
  BY SideTyped DEF Typed, Side
<1>1. CASE UNCHANGED vars
  BY <1>1 DEF Typed, vars
<1>2. CASE Start
  <2>1. StartSide(current_clock, Side) \in GoodClocks
    BY <1>0, PairsGood
  <2> QED
    BY <1>2, <2>1 DEF Start, Typed
<1>3. CASE MakeMove
  <2>1. PICK m \in Legal[current_board.pos], e \in Elapses :
          Enter(Entry(current_board, m, old_clock), Played(current_board, m),
                StopSide(current_clock, Side, e))
    BY <1>3 DEF MakeMove
  <2>2. Played(current_board, m) \in Board /\ m \in Moves
    BY <1>0, PlayedTyped
  <2>3. StopSide(current_clock, Side, e) \in GoodClocks
    BY <1>0, PairsGood, BoardAssumption
  <2>4. Entry(current_board, m, old_clock) \in GoodEntries
    BY <1>0, <2>2, EntryTyped
  <2>5. undone_entries' \in Seq(GoodEntries) /\ UNCHANGED <<initial_board, initial_clock>>
    BY <1>3, EmptySeq DEF MakeMove
  <2> QED
    BY <2>1, <2>2, <2>3, <2>4, <2>5, EnterTyped
<1>4. CASE UndoNothing
  BY <1>4 DEF UndoNothing, Typed
<1>5. CASE Undo
  <2> DEFINE last == entries[Len(entries)]
             undone == Entry(current_board, last.move, StopBoth(old_clock))
  <2>1. last \in GoodEntries
    BY <1>5, EndsTyped DEF Undo
  <2>2. last.board \in Board /\ last.move \in Moves /\ last.clock \in GoodClocks
    BY <2>1 DEF GoodEntries
  <2>3. undone \in GoodEntries
    BY <1>0, <2>2, PairsGood, EntryTyped
  <2>4. entries' \in Seq(GoodEntries)
    BY <1>5, FrontTyped DEF Undo
  <2>5. undone_entries' \in Seq(GoodEntries)
    BY <1>5, <2>3, UndoneTyped DEF Undo
  <2>6. StartSide(last.clock, SideOf(last.board.pos)) \in GoodClocks
    BY <2>2, PairsGood, SideTyped
  <2>7. "OPEN" \in Results
    BY DEF Results
  <2> QED
    BY <1>5, <2>2, <2>4, <2>5, <2>6, <2>7 DEF Undo, Typed
<1>6. CASE Redo
  <2> DEFINE undone == Head(undone_entries)
  <2>1. undone \in GoodEntries /\ Tail(undone_entries) \in Seq(GoodEntries)
    BY <1>6, EndsTyped DEF Redo
  <2>2. undone.board \in Board /\ undone.move \in Moves /\ undone.clock \in GoodClocks
    BY <2>1 DEF GoodEntries
  <2>3. Entry(current_board, undone.move, StopBoth(old_clock)) \in GoodEntries
    BY <1>0, <2>2, PairsGood, EntryTyped
  <2>4. Enter(Entry(current_board, undone.move, StopBoth(old_clock)), undone.board, undone.clock)
    BY <1>6 DEF Redo
  <2>5. undone_entries' \in Seq(GoodEntries) /\ UNCHANGED <<initial_board, initial_clock>>
    BY <1>6, <2>1 DEF Redo
  <2> HIDE DEF undone
  <2> QED
    BY <2>2, <2>3, <2>4, <2>5, EnterTyped
<1>7. CASE SetBoard
  BY <1>7, <1>0, BoardAssumption, ResultTyped, EmptySeq DEF SetBoard, Typed
<1>8. CASE RefuseBoard
  BY <1>8, EmptySeq DEF RefuseBoard, Typed, Results
<1>9. CASE SetClocks
  <2>1. initial_clock' \in GoodClocks
    BY <1>9, PairsGood, BoardAssumption DEF SetClocks
  <2>2. StartSide(initial_clock', Side) \in GoodClocks
    BY <1>0, <2>1, PairsGood
  <2> QED
    BY <1>9, <2>1, <2>2 DEF SetClocks, Typed
<1>10. CASE TurnBackClock
  <2>1. current_clock' \in GoodClocks
    BY <1>10, <1>0, PairsGood DEF TurnBackClock
  <2> QED
    BY <1>10, <2>1 DEF TurnBackClock, Typed
<1>11. CASE SetRemainingTime
  <2>1. current_clock' \in GoodClocks
    <3>1. PICK s \in Sides, t \in Reported :
            current_clock' = [current_clock EXCEPT ![s] = WithRemaining(@, t)]
      BY <1>11 DEF SetRemainingTime
    <3>2. t \in Nat
      BY BoardAssumption
    <3>3. [current_clock EXCEPT ![s] = WithRemaining(@, t)] \in GoodClocks
      BY <1>0, <3>2, PairsGood
    <3> QED
      BY <3>1, <3>3
  <2> QED
    BY <1>11, <2>1 DEF SetRemainingTime, Typed
<1>12. CASE LoadGame
  <2>1. PICK g \in Games :
          LET n == Len(g.moves)
              last == g.boards[n + 1]
              none == Both(NewClock("NONE"))
          IN  /\ initial_board' = g.boards[1] /\ current_board' = last
              /\ entries' = [i \in 1 .. n |-> Entry(g.boards[i], g.moves[i], none)]
              /\ undone_entries' = <<>>
              /\ result' = IF n = 0 THEN "OPEN" ELSE ResultOf(last, entries')
              /\ running' = (n > 0 /\ result' = "OPEN")
              /\ initial_clock' = none /\ old_clock' = none
              /\ current_clock' = IF running' THEN StartSide(none, SideOf(last.pos)) ELSE none
    BY <1>12 DEF LoadGame
  <2> DEFINE n == Len(g.moves)
             none == Both(NewClock("NONE"))
  <2>2. g.moves \in Seq(Moves) /\ g.boards \in Seq(Board) /\ Len(g.boards) = n + 1
    BY GamesAssumption
  <2>3. n \in Nat
    BY <2>2
  <2>4. none \in GoodClocks
    BY PairsGood DEF Modes
  <2>5. g.boards[1] \in Board /\ g.boards[n + 1] \in Board
    BY <2>2, <2>3
  <2>6. \A i \in 1 .. n : Entry(g.boards[i], g.moves[i], none) \in GoodEntries
    BY <2>2, <2>3, <2>4, EntryTyped
  <2>7. StartSide(none, SideOf(g.boards[n + 1].pos)) \in GoodClocks
    BY <2>4, PairsGood, SideTyped
  <2>8. result' \in Results
    BY <2>1, ResultTyped DEF Results
  <2> HIDE DEF none
  <2>9. entries' \in Seq(GoodEntries)
    BY <2>1, <2>3, <2>6 DEF none
  <2> QED
    BY <2>1, <2>4, <2>5, <2>7, <2>8, <2>9, EmptySeq DEF Typed, none
<1> QED
  BY <1>1, <1>2, <1>3, <1>4, <1>5, <1>6, <1>7, <1>8, <1>9, <1>10, <1>11, <1>12 DEF Next

\* Types of all variables, whatever the user, the engine and the files do.
THEOREM GameTypes == Spec => []TypeOK
<1>1. Typed => TypeOK
  <2> SUFFICES ASSUME Typed PROVE TypeOK
    OBVIOUS
  <2>1. GoodClocks \subseteq Clocks
    BY DEF GoodClocks, Clocks, GoodClock
  <2>2. GoodEntries \subseteq Entries
    BY <2>1 DEF GoodEntries, Entries
  <2>3. entries \in Seq(Entries) /\ undone_entries \in Seq(Entries)
    BY <2>2, SeqMonotonic DEF Typed
  <2> QED
    BY <2>1, <2>3 DEF Typed, TypeOK
<1> QED
  BY <1>1, TypedInit, TypedStep, PTL DEF Spec

-----------------------------------------------------------------------------
(* The line of the game: moves made, the current board, moves taken back. *)

LineLength == Len(entries) + Len(undone_entries)

Line == [i \in 1 .. LineLength + 1 |->
           IF i <= Len(entries) THEN entries[i].board
           ELSE IF i = Len(entries) + 1 THEN current_board
           ELSE undone_entries[i - Len(entries) - 1].board]

LineMoves == [i \in 1 .. LineLength |->
                IF i <= Len(entries) THEN entries[i].move
                ELSE undone_entries[i - Len(entries)].move]

\* Every move of a line is legal and leads to its next board.
LegalLine(line, moves, n) ==
  \A i \in 1 .. n : /\ moves[i] \in Legal[line[i].pos]
                    /\ line[i + 1] = Played(line[i], moves[i])

\* What check_result() says of a board of a line with those before it.
ResultIn(line, i) ==
  IF Legal[line[i].pos] = {}
    THEN IF line[i].pos \notin InCheck THEN "STALEMATE"
         ELSE IF SideOf(line[i].pos) = "white" THEN "BLACKMATES" ELSE "WHITEMATES"
  ELSE IF line[i].fifty = Rule50 THEN "RULE50"
  ELSE IF Cardinality({j \in 1 .. i - 1 : line[j].pos = line[i].pos}) >= 2 THEN "REPS3"
  ELSE IF line[i].pos \in MaterialDraw THEN "MATERIAL"
  ELSE "OPEN"

\* The game was open wherever one of the first n moves was made.
OpenLine(line, n) == \A i \in 1 .. n : ResultIn(line, i) = "OPEN"

\* The games in files are over, if at all, after their last move. The code does
\* not test it, and a game is open after undo by decree.
FilesEndOnce ==
  \A g \in Games :
    /\ OpenLine(g.boards, Len(g.moves))
    /\ Len(g.moves) = 0 => ResultIn(g.boards, 1) = "OPEN"

\* The inductive invariant: the line is one legal game. A position that was
\* refused leaves no history, and the initial board is then another one.
LineInv ==
  /\ LegalLine(Line, LineMoves, LineLength)
  /\ result # "ILLEGAL" => initial_board = Line[1]
  /\ result = "ILLEGAL" => entries = <<>> /\ undone_entries = <<>>

\* Undo needs to know that the game was open at every board of the line but
\* the last one: the result it sets is not computed.
ResultInv ==
  /\ OpenLine(Line, LineLength)
  /\ ResultByRule

\* Lines that agree up to a board agree on its result.
LEMMA SamePrefix ==
  ASSUME NEW f, NEW g, NEW i \in Nat, \A j \in 1 .. i : f[j] = g[j], i > 0
  PROVE  ResultIn(f, i) = ResultIn(g, i)
<1>1. f[i] = g[i] /\ \A j \in 1 .. i - 1 : f[j] = g[j]
  OBVIOUS
<1>2. {j \in 1 .. i - 1 : f[j].pos = f[i].pos} = {j \in 1 .. i - 1 : g[j].pos = g[i].pos}
  BY <1>1
<1> QED
  BY <1>1, <1>2 DEF ResultIn

\* The result of a board with a history is that of the line they make.
LEMMA ResultOfLine ==
  ASSUME NEW b, NEW h, NEW line, NEW n \in Nat, Len(h) = n, line[n + 1] = b,
         \A j \in 1 .. n : line[j] = h[j].board
  PROVE  ResultOf(b, h) = ResultIn(line, n + 1)
<1>1. 1 .. Len(h) = 1 .. (n + 1) - 1
  BY SMT
<1>2. {j \in 1 .. Len(h) : h[j].board.pos = b.pos}
        = {j \in 1 .. (n + 1) - 1 : line[j].pos = line[n + 1].pos}
  BY <1>1
<1> QED
  BY <1>2 DEF ResultOf, Repetitions, ResultIn

\* The current board's result, by the code and in the line.
LEMMA CurrentResult ==
  ASSUME Typed
  PROVE  ResultOf(current_board, entries) = ResultIn(Line, Len(entries) + 1)
<1>1. Len(entries) \in Nat /\ Len(undone_entries) \in Nat
  BY EndsTyped
<1>2. Line[Len(entries) + 1] = current_board
  BY <1>1 DEF Line, LineLength
<1>3. \A j \in 1 .. Len(entries) : Line[j] = entries[j].board
  BY <1>1 DEF Line, LineLength
<1> QED
  BY <1>1, <1>2, <1>3, ResultOfLine

\* Undo moves one step back along the line.
LEMMA UndoLine ==
  ASSUME Typed, Undo
  PROVE  /\ LineLength' = LineLength /\ Line' = Line /\ LineMoves' = LineMoves
         /\ Len(entries') + 1 = Len(entries)
         /\ undone_entries' # <<>>
<1> DEFINE n == Len(entries)
           m == Len(undone_entries)
           undone == Entry(current_board, entries[n].move, StopBoth(old_clock))
<1>1. n \in Nat /\ m \in Nat /\ n \in 1 .. n /\ entries[n] \in GoodEntries
  BY EndsTyped DEF Undo
<1>2. /\ entries' = SubSeq(entries, 1, n - 1) /\ undone_entries' = <<undone>> \o undone_entries
      /\ current_board' = entries[n].board
  BY DEF Undo
<1>3. Len(entries') = n - 1 /\ \A i \in 1 .. n - 1 : entries'[i] = entries[i]
  BY <1>2, FrontTyped DEF Undo
<1>4. undone \in GoodEntries
  <2>1. entries[n].move \in Moves
    BY <1>1 DEF GoodEntries
  <2>2. StopBoth(old_clock) \in GoodClocks /\ current_board \in Board
    BY PairsGood DEF Typed
  <2> QED
    BY <2>1, <2>2, EntryTyped
<1>5. undone.board = current_board /\ undone.move = entries[n].move
  BY DEF Entry
<1> HIDE DEF undone
<1>6. /\ Len(undone_entries') = m + 1 /\ undone_entries'[1] = undone
      /\ \A i \in 1 .. m : undone_entries'[i + 1] = undone_entries[i]
  BY <1>2, <1>4, UndoneTyped
<1>7. LineLength' = LineLength
  BY <1>1, <1>3, <1>6 DEF LineLength
<1>8. \A i \in 1 .. LineLength + 1 :
        (IF i <= n - 1 THEN entries'[i].board
         ELSE IF i = n - 1 + 1 THEN current_board'
         ELSE undone_entries'[i - (n - 1) - 1].board)
        = (IF i <= n THEN entries[i].board
           ELSE IF i = n + 1 THEN current_board
           ELSE undone_entries[i - n - 1].board)
  <2> TAKE i \in 1 .. LineLength + 1
  <2>1. CASE i <= n - 1
    BY <1>1, <1>3, <2>1
  <2>2. CASE i = n
    BY <1>1, <1>2, <2>2
  <2>3. CASE i = n + 1
    BY <1>1, <1>5, <1>6, <2>3
  <2>4. CASE i > n + 1
    <3>1. i - n - 1 \in 1 .. m /\ i - (n - 1) - 1 = (i - n - 1) + 1
      BY <1>1, <2>4 DEF LineLength
    <3>2. undone_entries'[i - (n - 1) - 1] = undone_entries[i - n - 1]
      BY <1>6, <3>1
    <3>3. ~(i <= n) /\ ~(i <= n - 1) /\ i # n + 1 /\ i # n - 1 + 1
      BY <1>1, <2>4
    <3> QED
      BY <3>2, <3>3
  <2> QED
    BY <1>1, <2>1, <2>2, <2>3, <2>4
<1>9. \A i \in 1 .. LineLength :
        (IF i <= n - 1 THEN entries'[i].move ELSE undone_entries'[i - (n - 1)].move)
        = (IF i <= n THEN entries[i].move ELSE undone_entries[i - n].move)
  <2> TAKE i \in 1 .. LineLength
  <2>1. CASE i <= n - 1
    BY <1>1, <1>3, <2>1
  <2>2. CASE i = n
    BY <1>1, <1>5, <1>6, <2>2
  <2>3. CASE i > n
    <3>1. i - n \in 1 .. m /\ i - (n - 1) = (i - n) + 1
      BY <1>1, <2>3 DEF LineLength
    <3> QED
      BY <1>1, <1>6, <2>3, <3>1
  <2> QED
    BY <1>1, <2>1, <2>2, <2>3
<1>10. Line' = Line
  BY <1>3, <1>7, <1>8 DEF Line
<1>11. LineMoves' = LineMoves
  BY <1>3, <1>7, <1>9 DEF LineMoves
<1> QED
  BY <1>1, <1>3, <1>6, <1>7, <1>10, <1>11

\* Redo moves one step forward.
LEMMA RedoLine ==
  ASSUME Typed, Redo
  PROVE  LineLength' = LineLength /\ Line' = Line /\ LineMoves' = LineMoves
<1> DEFINE n == Len(entries)
           m == Len(undone_entries)
           undone == undone_entries[1]
           done == Entry(current_board, undone.move, StopBoth(old_clock))
<1>1. /\ n \in Nat /\ m \in Nat /\ 1 \in 1 .. m /\ undone \in GoodEntries
      /\ Head(undone_entries) = undone
  BY EndsTyped DEF Redo
<1>2. /\ entries' = Append(entries, done) /\ undone_entries' = Tail(undone_entries)
      /\ current_board' = undone.board
  BY <1>1 DEF Redo, Enter
<1>3. done.board = current_board /\ done.move = undone.move
  BY DEF Entry
<1>4. entries \in Seq(GoodEntries)
  BY DEF Typed
<1> HIDE DEF done
<1>5. Len(entries') = n + 1 /\ entries'[n + 1] = done /\ \A i \in 1 .. n : entries'[i] = entries[i]
  BY <1>1, <1>2, <1>4
<1>6. Len(undone_entries') = m - 1 /\ \A i \in 1 .. m - 1 : undone_entries'[i] = undone_entries[i + 1]
  BY <1>2, EndsTyped DEF Redo
<1>7. LineLength' = LineLength
  BY <1>1, <1>5, <1>6 DEF LineLength
<1>8. \A i \in 1 .. LineLength + 1 :
        (IF i <= n + 1 THEN entries'[i].board
         ELSE IF i = n + 1 + 1 THEN current_board'
         ELSE undone_entries'[i - (n + 1) - 1].board)
        = (IF i <= n THEN entries[i].board
           ELSE IF i = n + 1 THEN current_board
           ELSE undone_entries[i - n - 1].board)
  <2> TAKE i \in 1 .. LineLength + 1
  <2>1. CASE i <= n
    BY <1>1, <1>5, <2>1
  <2>2. CASE i = n + 1
    <3>1. entries'[i].board = current_board
      BY <1>3, <1>5, <2>2
    <3>2. i <= n + 1 /\ ~(i <= n)
      BY <1>1, <2>2
    <3> QED
      BY <2>2, <3>1, <3>2
  <2>3. CASE i = n + 2
    BY <1>1, <1>2, <2>3
  <2>4. CASE i > n + 2
    <3>1. i - (n + 1) - 1 \in 1 .. m - 1 /\ i - n - 1 = (i - (n + 1) - 1) + 1
      BY <1>1, <2>4 DEF LineLength
    <3>2. undone_entries'[i - (n + 1) - 1] = undone_entries[i - n - 1]
      BY <1>6, <3>1
    <3>3. ~(i <= n) /\ ~(i <= n + 1) /\ i # n + 1 /\ i # n + 1 + 1
      BY <1>1, <2>4
    <3> QED
      BY <3>2, <3>3
  <2> QED
    BY <1>1, <2>1, <2>2, <2>3, <2>4
<1>9. \A i \in 1 .. LineLength :
        (IF i <= n + 1 THEN entries'[i].move ELSE undone_entries'[i - (n + 1)].move)
        = (IF i <= n THEN entries[i].move ELSE undone_entries[i - n].move)
  <2> TAKE i \in 1 .. LineLength
  <2>1. CASE i <= n
    BY <1>1, <1>5, <2>1
  <2>2. CASE i = n + 1
    BY <1>1, <1>3, <1>5, <2>2
  <2>3. CASE i > n + 1
    <3>1. i - (n + 1) \in 1 .. m - 1 /\ i - n = (i - (n + 1)) + 1
      BY <1>1, <2>3 DEF LineLength
    <3>2. undone_entries'[i - (n + 1)] = undone_entries[i - n]
      BY <1>6, <3>1
    <3>3. ~(i <= n) /\ ~(i <= n + 1)
      BY <1>1, <2>3
    <3> QED
      BY <3>2, <3>3
  <2> QED
    BY <1>1, <2>1, <2>2, <2>3
<1>10. Line' = Line
  BY <1>5, <1>7, <1>8 DEF Line
<1>11. LineMoves' = LineMoves
  BY <1>5, <1>7, <1>9 DEF LineMoves
<1> QED
  BY <1>7, <1>10, <1>11

\* A move made ends the line after it.
LEMMA MakeMoveLine ==
  ASSUME Typed, NEW m \in Legal[current_board.pos], NEW cc,
         entries' = Append(entries, Entry(current_board, m, cc)),
         current_board' = Played(current_board, m), undone_entries' = <<>>
  PROVE  /\ Len(entries') = Len(entries) + 1
         /\ LineLength' = Len(entries) + 1
         /\ \A i \in 1 .. Len(entries) + 1 : Line'[i] = Line[i]
         /\ Line'[Len(entries) + 2] = Played(Line[Len(entries) + 1], m)
         /\ Line[Len(entries) + 1] = current_board
         /\ \A i \in 1 .. Len(entries) : LineMoves'[i] = LineMoves[i]
         /\ LineMoves'[Len(entries) + 1] = m
<1> DEFINE n == Len(entries)
           done == Entry(current_board, m, cc)
           k == Len(undone_entries)
<1>1. n \in Nat /\ k \in Nat
  BY EndsTyped
<1>2. done.board = current_board /\ done.move = m
  BY DEF Entry
<1>3. entries \in Seq(GoodEntries)
  BY DEF Typed
<1> HIDE DEF done
<1>4. Len(entries') = n + 1 /\ entries'[n + 1] = done /\ \A i \in 1 .. n : entries'[i] = entries[i]
  BY <1>1, <1>3 DEF done
<1>5. Len(undone_entries') = 0 /\ LineLength' = n + 1
  BY <1>1, <1>4 DEF LineLength
<1>6. Line' = [i \in 1 .. n + 2 |-> IF i <= n + 1 THEN entries'[i].board
                                    ELSE IF i = n + 2 THEN current_board'
                                    ELSE undone_entries'[i - (n + 1) - 1].board]
  BY <1>1, <1>4, <1>5 DEF Line
<1>7. LineMoves' = [i \in 1 .. n + 1 |-> IF i <= n + 1 THEN entries'[i].move
                                         ELSE undone_entries'[i - (n + 1)].move]
  BY <1>1, <1>4, <1>5 DEF LineMoves
<1>8. Line[n + 1] = current_board /\ \A i \in 1 .. n : Line[i] = entries[i].board
  BY <1>1 DEF Line, LineLength
<1>9. \A i \in 1 .. n : LineMoves[i] = entries[i].move
  BY <1>1 DEF LineMoves, LineLength
<1>10. Line'[n + 2] = Played(Line[n + 1], m) /\ Line'[n + 1] = done.board
       /\ \A i \in 1 .. n : Line'[i] = Line[i]
  BY <1>1, <1>4, <1>6, <1>8
<1>11. LineMoves'[n + 1] = m /\ \A i \in 1 .. n : LineMoves'[i] = LineMoves[i]
  BY <1>1, <1>2, <1>4, <1>7, <1>9
<1>12. \A i \in 1 .. n + 1 : i \in 1 .. n \/ i = n + 1
  BY <1>1
<1> QED
  BY <1>2, <1>4, <1>5, <1>8, <1>10, <1>11, <1>12

\* A board without history is its own line.
LEMMA EmptyLine ==
  ASSUME entries = <<>>, undone_entries = <<>>
  PROVE  LineLength = 0 /\ Line[1] = current_board
BY DEF LineLength, Line

\* The line of a game from a file is the file's.
LEMMA LoadedLine ==
  ASSUME NEW g \in Games, NEW cc,
         entries' = [i \in 1 .. Len(g.moves) |-> Entry(g.boards[i], g.moves[i], cc)],
         current_board' = g.boards[Len(g.moves) + 1], undone_entries' = <<>>
  PROVE  /\ Len(entries') = Len(g.moves) /\ LineLength' = Len(g.moves)
         /\ Len(g.moves) \in Nat
         /\ \A i \in 1 .. Len(g.moves) + 1 : Line'[i] = g.boards[i]
         /\ \A i \in 1 .. Len(g.moves) : LineMoves'[i] = g.moves[i]
<1> DEFINE n == Len(g.moves)
<1>1. n \in Nat
  BY GamesAssumption
<1>2. \A i \in 1 .. n : entries'[i].board = g.boards[i] /\ entries'[i].move = g.moves[i]
  BY <1>1 DEF Entry
<1>3. Len(entries') = n /\ Len(undone_entries') = 0
  BY <1>1
<1>4. LineLength' = n
  BY <1>1, <1>3 DEF LineLength
<1>5. \A i \in 1 .. n + 1 : Line'[i] = IF i <= n THEN entries'[i].board ELSE current_board'
  BY <1>1, <1>3, <1>4 DEF Line
<1>6. \A i \in 1 .. n : LineMoves'[i] = entries'[i].move
  BY <1>1, <1>3, <1>4 DEF LineMoves
<1> HIDE DEF n
<1>7. \A i \in 1 .. n + 1 : Line'[i] = g.boards[i]
  <2> TAKE i \in 1 .. n + 1
  <2>1. CASE i = n + 1
    <3>1. Line'[i] = current_board'
      BY <1>1, <1>5, <2>1
    <3> QED
      BY <2>1, <3>1 DEF n
  <2>2. CASE i \in 1 .. n
    <3>1. i <= n
      BY <1>1, <2>2
    <3>2. Line'[i] = entries'[i].board
      BY <1>5, <3>1
    <3> QED
      BY <1>2, <2>2, <3>2
  <2> QED
    BY <1>1, <2>1, <2>2
<1>8. \A i \in 1 .. n : LineMoves'[i] = g.moves[i]
  BY <1>2, <1>6
<1> QED
  BY <1>1, <1>3, <1>4, <1>7, <1>8 DEF n

\* What leaves board, history and result alone leaves the line alone.
LEMMA LineKept ==
  ASSUME UNCHANGED <<initial_board, current_board, entries, undone_entries, result>>
  PROVE  /\ LineInv => LineInv'
         /\ ResultInv => ResultInv'
<1>1. LineLength' = LineLength
  BY DEF LineLength
<1>2. Line' = Line
  BY <1>1 DEF Line
<1>3. LineMoves' = LineMoves
  BY <1>1 DEF LineMoves
<1>4. ResultByRule => ResultByRule'
  BY DEF ResultByRule
<1> QED
  BY <1>1, <1>2, <1>3, <1>4 DEF LineInv, ResultInv

LEMMA LineInit == Init => LineInv /\ ResultInv
<1> SUFFICES ASSUME Init PROVE LineInv /\ ResultInv
  OBVIOUS
<1>1. LineLength = 0 /\ Line[1] = current_board /\ initial_board = current_board
  BY EmptyLine DEF Init
<1>2. result = ResultOf(current_board, entries) /\ result # "ILLEGAL"
  BY DEF Init, ResultOf
<1> QED
  BY <1>1, <1>2 DEF LineInv, ResultInv, LegalLine, OpenLine, ResultByRule

\* The cases of Next that leave the line alone.
LEMMA QuietSteps ==
  ASSUME UNCHANGED vars \/ Start \/ UndoNothing \/ SetClocks \/ TurnBackClock \/ SetRemainingTime
  PROVE  UNCHANGED <<initial_board, current_board, entries, undone_entries, result>>
BY DEF vars, Start, UndoNothing, SetClocks, TurnBackClock, SetRemainingTime

\* A legal move continues the line.
LEMMA MadeLine ==
  ASSUME Typed, LineInv, ~Over, NEW m \in Legal[current_board.pos], NEW cc, NEW dd,
         Enter(Entry(current_board, m, cc), Played(current_board, m), dd),
         undone_entries' = <<>>, initial_board' = initial_board
  PROVE  LineInv'
<1> DEFINE n == Len(entries)
<1>1. /\ entries' = Append(entries, Entry(current_board, m, cc))
      /\ current_board' = Played(current_board, m)
      /\ result = "OPEN" /\ result' # "ILLEGAL"
  BY DEF Enter, Over, ResultOf
<1>2. /\ LineLength' = n + 1
      /\ \A i \in 1 .. n + 1 : Line'[i] = Line[i]
      /\ Line'[n + 2] = Played(Line[n + 1], m) /\ Line[n + 1] = current_board
      /\ \A i \in 1 .. n : LineMoves'[i] = LineMoves[i]
      /\ LineMoves'[n + 1] = m
  BY <1>1, MakeMoveLine
<1>3. n \in Nat /\ n <= LineLength /\ LineLength \in Nat
  BY EndsTyped DEF LineLength
<1>4. \A i \in 1 .. n + 1 : /\ LineMoves'[i] \in Legal[Line'[i].pos]
                            /\ Line'[i + 1] = Played(Line'[i], LineMoves'[i])
  <2> TAKE i \in 1 .. n + 1
  <2>1. CASE i = n + 1
    BY <1>2, <1>3, <2>1
  <2>2. CASE i \in 1 .. n
    <3>1. i \in 1 .. LineLength /\ i + 1 \in 1 .. n + 1
      BY <1>3, <2>2
    <3> QED
      BY <1>2, <2>2, <3>1 DEF LineInv, LegalLine
  <2> QED
    BY <1>3, <2>1, <2>2
<1>5. initial_board' = Line'[1]
  BY <1>1, <1>2, <1>3 DEF LineInv
<1> HIDE DEF n
<1> QED
  BY <1>1, <1>2, <1>4, <1>5 DEF LineInv, LegalLine

\* The game was open when a move was made, and is what the result says after it.
LEMMA MadeResult ==
  ASSUME Typed, ResultInv, ~Over, NEW m \in Legal[current_board.pos], NEW cc, NEW dd,
         Enter(Entry(current_board, m, cc), Played(current_board, m), dd),
         undone_entries' = <<>>
  PROVE  ResultInv'
<1> DEFINE n == Len(entries)
<1>1. /\ entries' = Append(entries, Entry(current_board, m, cc))
      /\ current_board' = Played(current_board, m)
      /\ result = "OPEN" /\ result' = ResultOf(current_board', entries')
  BY DEF Enter, Over
<1>2. LineLength' = n + 1 /\ \A i \in 1 .. n + 1 : Line'[i] = Line[i]
  BY <1>1, MakeMoveLine
<1>3. n \in Nat /\ n <= LineLength /\ LineLength \in Nat
  BY EndsTyped DEF LineLength
<1>4. ResultIn(Line, n + 1) = "OPEN"
  BY <1>1, CurrentResult DEF ResultInv, ResultByRule
<1>5. \A i \in 1 .. n + 1 : ResultIn(Line', i) = "OPEN"
  <2> TAKE i \in 1 .. n + 1
  <2>1. i \in Nat /\ i > 0 /\ \A j \in 1 .. i : Line'[j] = Line[j]
    BY <1>2, <1>3
  <2>2. ResultIn(Line', i) = ResultIn(Line, i)
    BY <2>1, SamePrefix
  <2>3. i = n + 1 \/ i \in 1 .. LineLength
    BY <1>3
  <2> QED
    BY <1>4, <2>2, <2>3 DEF ResultInv, OpenLine
<1> HIDE DEF n
<1> QED
  BY <1>1, <1>2, <1>5 DEF ResultInv, OpenLine, ResultByRule

LEMMA LineStep ==
  ASSUME ~SetupWhenUndone, Typed, LineInv, [Next]_vars
  PROVE  LineInv'
<1>1. CASE UNCHANGED vars \/ Start \/ UndoNothing \/ SetClocks \/ TurnBackClock \/ SetRemainingTime
  BY <1>1, QuietSteps, LineKept
<1>2. CASE MakeMove
  <2>1. PICK m \in Legal[current_board.pos], e \in Elapses :
          Enter(Entry(current_board, m, old_clock), Played(current_board, m),
                StopSide(current_clock, Side, e))
    BY <1>2 DEF MakeMove
  <2>2. undone_entries' = <<>> /\ initial_board' = initial_board /\ ~Over
    BY <1>2 DEF MakeMove
  <2> QED
    BY <2>1, <2>2, MadeLine
<1>3. CASE Undo
  <2>1. LineLength' = LineLength /\ Line' = Line /\ LineMoves' = LineMoves
    BY <1>3, UndoLine
  <2>2. initial_board' = initial_board
    BY <1>3 DEF Undo
  <2>3. result' = "OPEN" /\ entries # <<>>
    BY <1>3 DEF Undo
  <2> QED
    BY <2>1, <2>2, <2>3 DEF LineInv
<1>4. CASE Redo
  <2>1. LineLength' = LineLength /\ Line' = Line /\ LineMoves' = LineMoves
    BY <1>4, RedoLine
  <2>2. initial_board' = initial_board
    BY <1>4 DEF Redo
  <2>3. result' # "ILLEGAL" /\ undone_entries # <<>>
    BY <1>4 DEF Redo, Enter, ResultOf
  <2> QED
    BY <2>1, <2>2, <2>3 DEF LineInv
<1>5. CASE SetBoard \/ RefuseBoard
  <2>1. entries' = <<>> /\ undone_entries' = <<>>
    BY <1>5 DEF SetBoard, RefuseBoard
  <2>2. LineLength' = 0
    BY <2>1 DEF LineLength
  <2>3. Line'[1] = current_board'
    BY <2>1, <2>2 DEF Line
  <2>4. result' = "ILLEGAL" \/ initial_board' = current_board'
    BY <1>5 DEF SetBoard, RefuseBoard
  <2> QED
    BY <2>1, <2>2, <2>3, <2>4 DEF LineInv, LegalLine
<1>6. CASE LoadGame
  <2>1. PICK g \in Games :
          /\ initial_board' = g.boards[1] /\ current_board' = g.boards[Len(g.moves) + 1]
          /\ entries' = [i \in 1 .. Len(g.moves) |->
                           Entry(g.boards[i], g.moves[i], Both(NewClock("NONE")))]
          /\ undone_entries' = <<>> /\ result' # "ILLEGAL"
    BY <1>6 DEF LoadGame, ResultOf
  <2>2. /\ LineLength' = Len(g.moves) /\ Len(g.moves) \in Nat
        /\ \A i \in 1 .. Len(g.moves) + 1 : Line'[i] = g.boards[i]
        /\ \A i \in 1 .. Len(g.moves) : LineMoves'[i] = g.moves[i]
    BY <2>1, LoadedLine
  <2>3. \A i \in 1 .. Len(g.moves) : i \in 1 .. Len(g.moves) + 1 /\ i + 1 \in 1 .. Len(g.moves) + 1
    BY <2>2
  <2>4. 1 \in 1 .. Len(g.moves) + 1
    BY <2>2
  <2>5. \A i \in 1 .. Len(g.moves) : /\ LineMoves'[i] \in Legal[Line'[i].pos]
                                     /\ Line'[i + 1] = Played(Line'[i], LineMoves'[i])
    <3> TAKE i \in 1 .. Len(g.moves)
    <3>1. Line'[i] = g.boards[i] /\ Line'[i + 1] = g.boards[i + 1] /\ LineMoves'[i] = g.moves[i]
      BY <2>2, <2>3
    <3> QED
      BY <3>1, GamesAssumption
  <2> QED
    BY <2>1, <2>2, <2>4, <2>5 DEF LineInv, LegalLine
<1> QED
  BY <1>1, <1>2, <1>3, <1>4, <1>5, <1>6 DEF Next

LEMMA ResultStep ==
  ASSUME ~SetupWhenUndone, FilesEndOnce, Typed, ResultInv, result = "ILLEGAL" => entries = <<>>,
         [Next]_vars
  PROVE  ResultInv'
<1>1. CASE UNCHANGED vars \/ Start \/ UndoNothing \/ SetClocks \/ TurnBackClock \/ SetRemainingTime
  BY <1>1, QuietSteps, LineKept
<1>2. CASE MakeMove
  <2>1. PICK m \in Legal[current_board.pos], e \in Elapses :
          Enter(Entry(current_board, m, old_clock), Played(current_board, m),
                StopSide(current_clock, Side, e))
    BY <1>2 DEF MakeMove
  <2>2. undone_entries' = <<>> /\ ~Over
    BY <1>2 DEF MakeMove
  <2> QED
    BY <2>1, <2>2, MadeResult
<1>3. CASE Undo
  <2> DEFINE n == Len(entries')
  <2>1. LineLength' = LineLength /\ Line' = Line /\ n + 1 = Len(entries)
    BY <1>3, UndoLine
  <2>2. Typed' /\ n \in Nat /\ Len(undone_entries') \in Nat
    BY TypedStep DEF Typed
  <2>3. Line'[n + 1] = current_board' /\ \A j \in 1 .. n : Line'[j] = entries'[j].board
    BY <2>2 DEF Line, LineLength
  <2>4. ResultOf(current_board', entries') = ResultIn(Line', n + 1)
    BY <2>2, <2>3, ResultOfLine
  <2>5. n + 1 \in 1 .. LineLength
    BY <2>1, <2>2, EndsTyped DEF LineLength
  <2>6. ResultIn(Line', n + 1) = "OPEN"
    BY <2>1, <2>5 DEF ResultInv, OpenLine
  <2>7. result' = "OPEN"
    BY <1>3 DEF Undo
  <2> QED
    BY <2>1, <2>4, <2>6, <2>7 DEF ResultInv, ResultByRule
<1>4. CASE Redo
  <2>1. LineLength' = LineLength /\ Line' = Line
    BY <1>4, RedoLine
  <2>2. result' = ResultOf(current_board', entries')
    BY <1>4 DEF Redo, Enter
  <2> QED
    BY <2>1, <2>2 DEF ResultInv, ResultByRule
<1>5. CASE SetBoard \/ RefuseBoard
  <2>1. entries' = <<>> /\ undone_entries' = <<>>
    BY <1>5 DEF SetBoard, RefuseBoard
  <2>2. LineLength' = 0
    BY <2>1 DEF LineLength
  <2>3. result' = "ILLEGAL" \/ result' = ResultOf(current_board', entries')
    BY <1>5 DEF SetBoard, RefuseBoard
  <2> QED
    BY <2>2, <2>3 DEF ResultInv, OpenLine, ResultByRule
<1>6. CASE LoadGame
  <2>1. PICK g \in Games :
          /\ current_board' = g.boards[Len(g.moves) + 1]
          /\ entries' = [i \in 1 .. Len(g.moves) |->
                           Entry(g.boards[i], g.moves[i], Both(NewClock("NONE")))]
          /\ undone_entries' = <<>>
          /\ result' = IF Len(g.moves) = 0 THEN "OPEN" ELSE ResultOf(current_board', entries')
    BY <1>6 DEF LoadGame
  <2> DEFINE n == Len(g.moves)
  <2>2. /\ Len(entries') = n /\ LineLength' = n /\ n \in Nat
        /\ \A i \in 1 .. n + 1 : Line'[i] = g.boards[i]
    BY <2>1, LoadedLine
  <2>3. \A i \in 1 .. n + 1 : ResultIn(Line', i) = ResultIn(g.boards, i)
    <3> TAKE i \in 1 .. n + 1
    <3>1. i \in Nat /\ i > 0 /\ \A j \in 1 .. i : Line'[j] = g.boards[j]
      BY <2>2
    <3> QED
      BY <3>1, SamePrefix
  <2>4. \A i \in 1 .. n : ResultIn(Line', i) = "OPEN"
    <3> TAKE i \in 1 .. n
    <3>1. i \in 1 .. n + 1
      BY <2>2
    <3> QED
      BY <2>3, <3>1 DEF FilesEndOnce, OpenLine
  <2>5. CASE n = 0
    <3>1. Line'[1] = current_board' /\ 1 \in 1 .. n + 1
      BY <2>1, <2>2, <2>5
    <3>2. ResultOf(current_board', entries') = ResultIn(Line', 0 + 1)
      <4>1. /\ 0 \in Nat /\ Len(entries') = 0 /\ Line'[0 + 1] = current_board'
            /\ \A j \in 1 .. 0 : Line'[j] = entries'[j].board
        BY <2>2, <2>5, <3>1
      <4> QED
        BY <4>1, ResultOfLine
    <3>3. ResultIn(Line', 1) = "OPEN"
      BY <2>3, <2>5, <3>1 DEF FilesEndOnce
    <3>4. result' = ResultOf(current_board', entries')
      BY <2>1, <2>5, <3>2, <3>3
    <3> QED
      BY <2>2, <2>4, <3>4 DEF ResultInv, OpenLine, ResultByRule
  <2>6. CASE n # 0
    BY <2>1, <2>2, <2>4, <2>6 DEF ResultInv, OpenLine, ResultByRule
  <2> QED
    BY <2>5, <2>6
<1> QED
  BY <1>1, <1>2, <1>3, <1>4, <1>5, <1>6 DEF Next

\* The line makes both lists consistent.
LEMMA LineConsistent ==
  ASSUME Typed, LineInv
  PROVE  HistoryConsistent
<1> DEFINE n == Len(entries)
           k == Len(undone_entries)
<1>1. n \in Nat /\ k \in Nat /\ LineLength = n + k
  BY EndsTyped DEF LineLength
<1>2. HistoryReplays
  <2> SUFFICES ASSUME result = "OPEN"
               PROVE  /\ initial_board = IF entries = <<>> THEN current_board ELSE entries[1].board
                      /\ \A i \in 1 .. n :
                           /\ entries[i].move \in Legal[entries[i].board.pos]
                           /\ BoardAfter(i) = Played(entries[i].board, entries[i].move)
    BY DEF HistoryReplays, Over
  <2>1. entries = <<>> <=> n = 0
    BY EndsTyped
  <2>2. Line[1] = IF n = 0 THEN current_board ELSE entries[1].board
    BY <1>1 DEF Line
  <2>3. initial_board = IF entries = <<>> THEN current_board ELSE entries[1].board
    BY <2>1, <2>2 DEF LineInv
  <2>4. \A i \in 1 .. n : /\ entries[i].move \in Legal[entries[i].board.pos]
                          /\ BoardAfter(i) = Played(entries[i].board, entries[i].move)
    <3> TAKE i \in 1 .. n
    <3>1. i \in 1 .. LineLength /\ Line[i] = entries[i].board /\ LineMoves[i] = entries[i].move
      BY <1>1 DEF Line, LineMoves
    <3>2. Line[i + 1] = BoardAfter(i)
      BY <1>1 DEF Line, BoardAfter
    <3> QED
      BY <3>1, <3>2 DEF LineInv, LegalLine
  <2> QED
    BY <2>3, <2>4
<1>3. RedoLegal
  <2> SUFFICES ASSUME NEW i \in 1 .. k
               PROVE  /\ undone_entries[i].move \in Legal[BoardBefore(i).pos]
                      /\ undone_entries[i].board = Played(BoardBefore(i), undone_entries[i].move)
    BY DEF RedoLegal
  <2>1. n + i \in 1 .. LineLength /\ (n + i) - n = i
    BY <1>1
  <2>2. LineMoves[n + i] = undone_entries[i].move
    BY <1>1, <2>1 DEF LineMoves
  <2>3. Line[n + i] = BoardBefore(i)
    <3>1. (n + i) - n - 1 = i - 1 /\ n + i \in 1 .. LineLength + 1
      BY <1>1
    <3> QED
      BY <1>1, <3>1 DEF Line, BoardBefore
  <2>4. Line[n + i + 1] = undone_entries[i].board
    <3>1. (n + i + 1) - n - 1 = i /\ n + i + 1 \in 1 .. LineLength + 1
      BY <1>1
    <3> QED
      BY <1>1, <3>1 DEF Line
  <2> QED
    BY <2>1, <2>2, <2>3, <2>4 DEF LineInv, LegalLine
<1> QED
  BY <1>2, <1>3 DEF HistoryConsistent

\* Whatever is made, taken back, redone, set up or loaded, in any order, the
\* boards before and after the current one are one legal game from the initial
\* board, if no board is set up while moves can be redone.
THEOREM HistoryIsConsistent ==
  ASSUME ~SetupWhenUndone
  PROVE  Spec => []HistoryConsistent
<1>1. Init => LineInv
  BY LineInit
<1>2. Typed /\ LineInv /\ [Next]_vars => LineInv'
  BY LineStep
<1>3. Typed /\ LineInv => HistoryConsistent
  BY LineConsistent
<1> QED
  BY <1>1, <1>2, <1>3, TypedInit, TypedStep, PTL DEF Spec

\* The result is that of the rules after every command, under the same
\* condition and if the games in files do not go on after their end.
THEOREM ResultIsByRule ==
  ASSUME ~SetupWhenUndone, FilesEndOnce
  PROVE  Spec => []ResultByRule
<1>1. Init => LineInv /\ ResultInv
  BY LineInit
<1>2. Typed /\ LineInv /\ [Next]_vars => LineInv'
  BY LineStep
<1>3. Typed /\ LineInv /\ ResultInv /\ [Next]_vars => ResultInv'
  BY ResultStep DEF LineInv
<1>4. ResultInv => ResultByRule
  BY DEF ResultInv
<1> QED
  BY <1>1, <1>2, <1>3, <1>4, TypedInit, TypedStep, PTL DEF Spec

-----------------------------------------------------------------------------
(* The clocks of the line: an entry keeps those of the beginning of its move. *)

LineClocks == [i \in 1 .. LineLength + 1 |->
                 IF i <= Len(entries) THEN entries[i].clock
                 ELSE IF i = Len(entries) + 1 THEN old_clock
                 ELSE undone_entries[i - Len(entries) - 1].clock]

\* A move of one side charges its clock once at most, and the other one never.
Charged(mover, before, after, s) ==
  \E known \in {before[s].remaining_time} \union Reported :
    after[s].remaining_time \in IF s = mover THEN ShownAfter(before[s], known) ELSE {known}
ChargedLine(line, clocks, n) ==
  \A i \in 1 .. n, s \in Sides : Charged(SideOf(line[i].pos), clocks[i], clocks[i + 1], s)

AtRest(clocks) == \A s \in Sides : ~clocks[s].running

\* A clock that is running, or has been set, since the beginning of the move.
During(now, old) ==
  /\ now.mode = old.mode /\ now.remaining_moves = old.remaining_moves
  /\ now.remaining_time \in {old.remaining_time} \union Reported

\* The inductive invariant: the clocks of the line are at rest, so that undo and
\* redo charge nothing when they stop them, and only the side to move has a
\* clock that runs.
ClockInv ==
  /\ ChargedLine(Line, LineClocks, LineLength)
  /\ \A i \in 1 .. LineLength + 1 : AtRest(LineClocks[i])
  /\ AtRest(initial_clock)
  /\ \A s \in Sides : /\ During(current_clock[s], old_clock[s])
                      /\ current_clock[s].running => s = Side

\* What update_remaining() makes of a clock depends on its mode, its moves and
\* its time.
LEMMA SameUpdate ==
  ASSUME NEW c \in Clock, NEW d \in Clock, c.mode = d.mode, c.remaining_moves = d.remaining_moves, NEW e
  PROVE  Updated(c, e).remaining_time
           = Updated([d EXCEPT !.remaining_time = c.remaining_time], e).remaining_time
<1> DEFINE x == [d EXCEPT !.remaining_time = c.remaining_time]
<1>1. x.mode = c.mode /\ x.remaining_moves = c.remaining_moves /\ x.remaining_time = c.remaining_time
  BY DEF Clock
<1>2. x \in Clock
  BY DEF Clock
<1> HIDE DEF x
<1>3. CASE c.mode = "CONV"
  BY <1>1, <1>2, <1>3 DEF Updated, Clock
<1>4. CASE c.mode # "CONV"
  BY <1>1, <1>2, <1>4 DEF Updated, Clock
<1> QED
  BY <1>3, <1>4 DEF x

\* Clocks at rest are not changed by stopping them, and may then be started.
LEMMA RestStops ==
  ASSUME NEW cc \in GoodClocks, AtRest(cc)
  PROVE  StopBoth(cc) = cc
<1>1. \A s \in Sides : Stopped(cc[s], 0) = cc[s]
  BY DEF AtRest, Stopped
<1> QED
  BY <1>1 DEF StopBoth, GoodClocks

LEMMA RestStarts ==
  ASSUME NEW cc \in GoodClocks, AtRest(cc), NEW side \in Sides
  PROVE  \A s \in Sides : /\ During(StartSide(cc, side)[s], cc[s])
                          /\ StartSide(cc, side)[s].running => s = side
<1> TAKE s \in Sides
<1>1. cc[s] \in Clock /\ ~cc[s].running
  BY DEF GoodClocks, GoodClock, AtRest
<1>2. CASE s = side
  <2>1. StartSide(cc, side)[s] = [cc[s] EXCEPT !.running = TRUE]
    BY <1>2 DEF StartSide, Started, GoodClocks
  <2> QED
    BY <1>1, <1>2, <2>1 DEF During, Clock
<1>3. CASE s # side
  <2>1. StartSide(cc, side)[s] = cc[s]
    BY <1>3 DEF StartSide, GoodClocks
  <2> QED
    BY <1>1, <2>1 DEF During
<1> QED
  BY <1>2, <1>3

LEMMA RestDuring ==
  ASSUME NEW cc \in GoodClocks, AtRest(cc)
  PROVE  \A s \in Sides : During(cc[s], cc[s]) /\ ~cc[s].running
BY DEF During, AtRest

\* The clocks where the line is now.
LEMMA CurrentClocks ==
  ASSUME Typed
  PROVE  /\ LineClocks[Len(entries) + 1] = old_clock
         /\ \A i \in 1 .. Len(entries) : LineClocks[i] = entries[i].clock
         /\ Len(entries) + 1 \in 1 .. LineLength + 1
         /\ entries # <<>> => LineClocks[Len(entries)] = entries[Len(entries)].clock
                              /\ Len(entries) \in 1 .. LineLength + 1
         /\ undone_entries # <<>> => LineClocks[Len(entries) + 2] = undone_entries[1].clock
                                     /\ Len(entries) + 2 \in 1 .. LineLength + 1
BY EndsTyped DEF LineClocks, LineLength

LEMMA UndoClocks ==
  ASSUME Typed, Undo, AtRest(old_clock)
  PROVE  LineClocks' = LineClocks
<1> DEFINE n == Len(entries)
           m == Len(undone_entries)
           undone == Entry(current_board, entries[n].move, StopBoth(old_clock))
<1>1. n \in Nat /\ m \in Nat /\ n \in 1 .. n /\ entries[n] \in GoodEntries
  BY EndsTyped DEF Undo
<1>2. /\ entries' = SubSeq(entries, 1, n - 1) /\ undone_entries' = <<undone>> \o undone_entries
      /\ old_clock' = entries[n].clock
  BY DEF Undo
<1>3. Len(entries') = n - 1 /\ \A i \in 1 .. n - 1 : entries'[i] = entries[i]
  BY <1>2, FrontTyped DEF Undo
<1>4. undone \in GoodEntries /\ undone.clock = old_clock
  <2>1. entries[n].move \in Moves
    BY <1>1 DEF GoodEntries
  <2>2. StopBoth(old_clock) = old_clock /\ old_clock \in GoodClocks /\ current_board \in Board
    BY RestStops DEF Typed
  <2>3. undone \in GoodEntries
    BY <2>1, <2>2, EntryTyped
  <2> QED
    BY <2>2, <2>3 DEF Entry
<1> HIDE DEF undone
<1>5. /\ Len(undone_entries') = m + 1 /\ undone_entries'[1] = undone
      /\ \A i \in 1 .. m : undone_entries'[i + 1] = undone_entries[i]
  BY <1>2, <1>4, UndoneTyped
<1>6. LineLength' = LineLength
  BY UndoLine
<1>7. \A i \in 1 .. LineLength + 1 :
        (IF i <= n - 1 THEN entries'[i].clock
         ELSE IF i = n - 1 + 1 THEN old_clock'
         ELSE undone_entries'[i - (n - 1) - 1].clock)
        = (IF i <= n THEN entries[i].clock
           ELSE IF i = n + 1 THEN old_clock
           ELSE undone_entries[i - n - 1].clock)
  <2> TAKE i \in 1 .. LineLength + 1
  <2>1. CASE i <= n - 1
    BY <1>1, <1>3, <2>1
  <2>2. CASE i = n
    BY <1>1, <1>2, <2>2
  <2>3. CASE i = n + 1
    BY <1>1, <1>4, <1>5, <2>3
  <2>4. CASE i > n + 1
    <3>1. i - n - 1 \in 1 .. m /\ i - (n - 1) - 1 = (i - n - 1) + 1
      BY <1>1, <2>4 DEF LineLength
    <3>2. undone_entries'[i - (n - 1) - 1] = undone_entries[i - n - 1]
      BY <1>5, <3>1
    <3>3. ~(i <= n) /\ ~(i <= n - 1) /\ i # n + 1 /\ i # n - 1 + 1
      BY <1>1, <2>4
    <3> QED
      BY <3>2, <3>3
  <2> QED
    BY <1>1, <2>1, <2>2, <2>3, <2>4
<1> QED
  BY <1>3, <1>6, <1>7 DEF LineClocks

LEMMA RedoClocks ==
  ASSUME Typed, Redo, AtRest(old_clock)
  PROVE  LineClocks' = LineClocks
<1> DEFINE n == Len(entries)
           m == Len(undone_entries)
           undone == undone_entries[1]
           done == Entry(current_board, undone.move, StopBoth(old_clock))
<1>1. /\ n \in Nat /\ m \in Nat /\ 1 \in 1 .. m /\ undone \in GoodEntries
      /\ Head(undone_entries) = undone
  BY EndsTyped DEF Redo
<1>2. /\ entries' = Append(entries, done) /\ undone_entries' = Tail(undone_entries)
      /\ old_clock' = undone.clock
  BY <1>1 DEF Redo, Enter
<1>3. done.clock = old_clock
  BY RestStops DEF Entry, Typed
<1>4. entries \in Seq(GoodEntries)
  BY DEF Typed
<1> HIDE DEF done
<1>5. Len(entries') = n + 1 /\ entries'[n + 1] = done /\ \A i \in 1 .. n : entries'[i] = entries[i]
  BY <1>1, <1>2, <1>4
<1>6. \A i \in 1 .. m - 1 : undone_entries'[i] = undone_entries[i + 1]
  BY <1>2, EndsTyped DEF Redo
<1>7. LineLength' = LineLength
  BY RedoLine
<1>8. \A i \in 1 .. LineLength + 1 :
        (IF i <= n + 1 THEN entries'[i].clock
         ELSE IF i = n + 1 + 1 THEN old_clock'
         ELSE undone_entries'[i - (n + 1) - 1].clock)
        = (IF i <= n THEN entries[i].clock
           ELSE IF i = n + 1 THEN old_clock
           ELSE undone_entries[i - n - 1].clock)
  <2> TAKE i \in 1 .. LineLength + 1
  <2>1. CASE i <= n
    BY <1>1, <1>5, <2>1
  <2>2. CASE i = n + 1
    <3>1. entries'[i].clock = old_clock
      BY <1>3, <1>5, <2>2
    <3>2. i <= n + 1 /\ ~(i <= n)
      BY <1>1, <2>2
    <3> QED
      BY <2>2, <3>1, <3>2
  <2>3. CASE i = n + 2
    BY <1>1, <1>2, <2>3
  <2>4. CASE i > n + 2
    <3>1. i - (n + 1) - 1 \in 1 .. m - 1 /\ i - n - 1 = (i - (n + 1) - 1) + 1
      BY <1>1, <2>4 DEF LineLength
    <3>2. undone_entries'[i - (n + 1) - 1] = undone_entries[i - n - 1]
      BY <1>6, <3>1
    <3>3. ~(i <= n) /\ ~(i <= n + 1) /\ i # n + 1 /\ i # n + 1 + 1
      BY <1>1, <2>4
    <3> QED
      BY <3>2, <3>3
  <2> QED
    BY <1>1, <2>1, <2>2, <2>3, <2>4
<1> QED
  BY <1>5, <1>7, <1>8 DEF LineClocks

\* A move charges its side, once, for what its clock has shown.
LEMMA MoveCharges ==
  ASSUME NEW old \in GoodClocks, NEW now \in GoodClocks, AtRest(old), NEW mover \in Sides,
         \A s \in Sides : During(now[s], old[s]) /\ (now[s].running => s = mover),
         NEW e \in Elapses
  PROVE  /\ AtRest(StopSide(now, mover, e))
         /\ \A s \in Sides : Charged(mover, old, StopSide(now, mover, e), s)
<1> DEFINE after == StopSide(now, mover, e)
<1>1. after[mover] = Stopped(now[mover], e) /\ \A s \in Sides : s # mover => after[s] = now[s]
  BY DEF StopSide, GoodClocks
<1> HIDE DEF after
<1>2. \A s \in Sides : now[s] \in Clock /\ old[s] \in Clock
  BY DEF GoodClocks, GoodClock
<1>3. Updated(now[mover], e) \in Clock
  BY ClocksGood, BoardAssumption DEF GoodClocks, GoodClock
<1>4. /\ ~Stopped(now[mover], e).running
      /\ Stopped(now[mover], e).remaining_time
           \in {now[mover].remaining_time, Updated(now[mover], e).remaining_time}
  BY <1>3 DEF Stopped, Clock
<1>5. AtRest(after)
  BY <1>1, <1>4 DEF AtRest
<1>6. ASSUME NEW s \in Sides PROVE Charged(mover, old, after, s)
  <2> DEFINE known == now[s].remaining_time
  <2>1. known \in {old[s].remaining_time} \union Reported
    BY DEF During
  <2>2. CASE s = mover
    <3>1. Updated(now[s], e).remaining_time
            = Updated([old[s] EXCEPT !.remaining_time = known], e).remaining_time
      BY <1>2, SameUpdate DEF During
    <3>2. after[s].remaining_time \in ShownAfter(old[s], known)
      BY <1>1, <1>4, <2>2, <3>1 DEF ShownAfter
    <3> QED
      BY <2>1, <2>2, <3>2 DEF Charged
  <2>3. CASE s # mover
    BY <1>1, <2>1, <2>3 DEF Charged
  <2> QED
    BY <2>2, <2>3
<1> QED
  BY <1>5, <1>6 DEF after

\* A legal move, made while the clock of its side may be running, continues the
\* line of clocks.
LEMMA MadeClocks ==
  ASSUME Typed, ClockInv, NEW m \in Legal[current_board.pos], NEW now \in GoodClocks, NEW e \in Elapses,
         \A s \in Sides : During(now[s], old_clock[s]) /\ (now[s].running => s = Side),
         Enter(Entry(current_board, m, old_clock), Played(current_board, m), StopSide(now, Side, e)),
         undone_entries' = <<>>, initial_clock' = initial_clock
  PROVE  ClockInv'
<1> DEFINE n == Len(entries)
           clocks == StopSide(now, Side, e)
<1>1. n \in Nat /\ Len(undone_entries) \in Nat /\ LineLength \in Nat /\ n <= LineLength
  BY EndsTyped DEF LineLength
<1>2. /\ entries' = Append(entries, Entry(current_board, m, old_clock))
      /\ current_board' = Played(current_board, m) /\ old_clock' = clocks
      /\ current_clock' = IF running' THEN StartSide(clocks, SideOf(current_board'.pos)) ELSE clocks
  BY DEF Enter
<1>3. /\ Len(entries') = n + 1 /\ LineLength' = n + 1
      /\ \A i \in 1 .. n + 1 : Line'[i] = Line[i]
      /\ Line[n + 1] = current_board
  BY <1>2, MakeMoveLine
<1>4. LineClocks[n + 1] = old_clock /\ AtRest(old_clock)
  BY CurrentClocks DEF ClockInv
<1>5. Side \in Sides /\ old_clock \in GoodClocks /\ e \in Nat
  BY SideTyped, BoardAssumption DEF Side, Typed
<1>6. AtRest(clocks) /\ \A s \in Sides : Charged(Side, old_clock, clocks, s)
  BY <1>4, <1>5, MoveCharges
<1>7. clocks \in GoodClocks
  BY <1>5, PairsGood
<1> HIDE DEF clocks
<1>8. entries'[n + 1].clock = old_clock /\ \A i \in 1 .. n : entries'[i] = entries[i]
  <2>1. entries \in Seq(GoodEntries)
    BY DEF Typed
  <2>2. Entry(current_board, m, old_clock).clock = old_clock
    BY DEF Entry
  <2> DEFINE done == Entry(current_board, m, old_clock)
  <2> HIDE DEF done
  <2>3. entries' = Append(entries, done) /\ done.clock = old_clock
    BY <1>2, <2>2 DEF done
  <2> QED
    BY <1>1, <2>1, <2>3
<1>9. LineClocks' = [i \in 1 .. n + 2 |-> IF i <= n + 1 THEN entries'[i].clock
                                          ELSE IF i = n + 2 THEN old_clock'
                                          ELSE undone_entries'[i - (n + 1) - 1].clock]
  BY <1>1, <1>3 DEF LineClocks
<1>10. LineClocks'[n + 2] = clocks /\ \A i \in 1 .. n + 1 : LineClocks'[i] = LineClocks[i]
  <2>1. LineClocks'[n + 2] = clocks
    BY <1>1, <1>2, <1>9
  <2>2. \A i \in 1 .. n + 1 : LineClocks'[i] = entries'[i].clock
    BY <1>1, <1>9
  <2>3. \A i \in 1 .. n : LineClocks[i] = entries[i].clock
    BY CurrentClocks
  <2>4. \A i \in 1 .. n + 1 : i \in 1 .. n \/ i = n + 1
    BY <1>1
  <2> QED
    BY <1>4, <1>8, <2>1, <2>2, <2>3, <2>4
<1>11. \A i \in 1 .. n + 2 : AtRest(LineClocks'[i])
  <2> TAKE i \in 1 .. n + 2
  <2>1. CASE i = n + 2
    BY <1>6, <1>10, <2>1
  <2>2. CASE i \in 1 .. n + 1
    <3>1. i \in 1 .. LineLength + 1
      BY <1>1, <2>2
    <3> QED
      BY <1>10, <2>2, <3>1 DEF ClockInv
  <2> QED
    BY <1>1, <2>1, <2>2
<1>12. ChargedLine(Line', LineClocks', n + 1)
  <2>1. SUFFICES ASSUME NEW i \in 1 .. n + 1, NEW s \in Sides
                 PROVE  Charged(SideOf(Line'[i].pos), LineClocks'[i], LineClocks'[i + 1], s)
    BY DEF ChargedLine
  <2>2. Line'[i] = Line[i] /\ LineClocks'[i] = LineClocks[i]
    BY <1>3, <1>10
  <2>3. CASE i = n + 1
    <3>1. SideOf(Line'[i].pos) = Side /\ LineClocks'[i] = old_clock
      BY <1>3, <1>4, <2>2, <2>3 DEF Side
    <3>2. i + 1 = n + 2
      BY <1>1, <2>3
    <3> QED
      BY <1>6, <1>10, <3>1, <3>2
  <2>4. CASE i \in 1 .. n
    <3>1. i \in 1 .. LineLength /\ i + 1 \in 1 .. n + 1
      BY <1>1, <2>4
    <3>2. LineClocks'[i + 1] = LineClocks[i + 1]
      BY <1>10, <3>1
    <3> QED
      BY <2>2, <3>1, <3>2 DEF ClockInv, ChargedLine
  <2> QED
    BY <1>1, <2>3, <2>4
<1>13. \A s \in Sides : /\ During(current_clock'[s], clocks[s])
                        /\ current_clock'[s].running => s = SideOf(current_board'.pos)
  <2>1. SideOf(current_board'.pos) \in Sides
    BY SideTyped
  <2> QED
    BY <1>2, <1>6, <1>7, <2>1, RestStarts, RestDuring
<1>14. n + 1 + 1 = n + 2
  BY <1>1
<1> QED
  BY <1>2, <1>3, <1>11, <1>12, <1>13, <1>14 DEF ClockInv, Side

\* The clocks of a game without history.
LEMMA EmptyClocks ==
  ASSUME entries = <<>>, undone_entries = <<>>, AtRest(old_clock), AtRest(initial_clock),
         \A s \in Sides : During(current_clock[s], old_clock[s]) /\ (current_clock[s].running => s = Side)
  PROVE  ClockInv
<1>1. LineLength = 0 /\ Len(entries) = 0
  BY DEF LineLength
<1>2. LineClocks[1] = old_clock
  BY <1>1 DEF LineClocks
<1>3. ChargedLine(Line, LineClocks, LineLength)
  BY <1>1 DEF ChargedLine
<1>4. \A i \in 1 .. LineLength + 1 : i = 1
  BY <1>1
<1> QED
  BY <1>2, <1>3, <1>4 DEF ClockInv

\* The same after a step that forgets the history.
LEMMA EmptyClocksNext ==
  ASSUME entries' = <<>>, undone_entries' = <<>>, AtRest(old_clock'), AtRest(initial_clock'),
         \A s \in Sides : /\ During(current_clock'[s], old_clock'[s])
                          /\ current_clock'[s].running => s = Side'
  PROVE  ClockInv'
<1>1. LineLength' = 0 /\ Len(entries') = 0
  BY DEF LineLength
<1>2. LineClocks'[1] = old_clock'
  BY <1>1 DEF LineClocks
<1>3. ChargedLine(Line', LineClocks', LineLength')
  BY <1>1 DEF ChargedLine
<1>4. \A i \in 1 .. LineLength' + 1 : i = 1
  BY <1>1
<1> QED
  BY <1>2, <1>3, <1>4 DEF ClockInv

LEMMA NewAtRest == \A mode \in Modes : AtRest(Both(NewClock(mode)))
BY DEF AtRest, Both, NewClock

LEMMA ClockInit == Init => ClockInv
<1> SUFFICES ASSUME Init PROVE ClockInv
  OBVIOUS
<1>1. old_clock \in GoodClocks /\ "EXACT" \in Modes
  BY TypedInit DEF Typed, Modes
<1>2. AtRest(old_clock) /\ current_clock = old_clock /\ initial_clock = old_clock
  BY <1>1, NewAtRest DEF Init
<1>3. entries = <<>> /\ undone_entries = <<>>
  BY DEF Init
<1> QED
  BY <1>1, <1>2, <1>3, RestDuring, EmptyClocks

\* The clocks of a game from a file measure nothing.
LEMMA LoadedClocks ==
  ASSUME Typed', LoadGame
  PROVE  ClockInv'
<1> DEFINE none == Both(NewClock("NONE"))
<1>1. "NONE" \in Modes
  BY DEF Modes
<1>2. none \in GoodClocks /\ AtRest(none)
  BY <1>1, PairsGood, NewAtRest
<1> HIDE DEF none
<1>3. PICK g \in Games :
        /\ current_board' = g.boards[Len(g.moves) + 1]
        /\ entries' = [i \in 1 .. Len(g.moves) |-> Entry(g.boards[i], g.moves[i], none)]
        /\ undone_entries' = <<>> /\ initial_clock' = none /\ old_clock' = none
        /\ current_clock' = IF running' THEN StartSide(none, SideOf(current_board'.pos)) ELSE none
  BY DEF LoadGame, none
<1> DEFINE n == Len(g.moves)
<1>4. n \in Nat /\ Len(entries') = n /\ LineLength' = n
  BY <1>3, LoadedLine
<1>5. \A i \in 1 .. n : entries'[i].clock = none
  BY <1>3, <1>4 DEF Entry
<1> HIDE DEF n
<1>6. LineClocks' = [i \in 1 .. n + 1 |-> IF i <= n THEN entries'[i].clock
                                          ELSE IF i = n + 1 THEN old_clock'
                                          ELSE undone_entries'[i - n - 1].clock]
  BY <1>4 DEF LineClocks
<1>7. \A i \in 1 .. n + 1 : LineClocks'[i] = none
  <2>1. n \in Nat /\ old_clock' = none
    BY <1>3, <1>4
  <2> QED
    BY <1>5, <1>6, <2>1
<1>8. ChargedLine(Line', LineClocks', n)
  <2>1. SUFFICES ASSUME NEW i \in 1 .. n, NEW s \in Sides
                 PROVE  Charged(SideOf(Line'[i].pos), LineClocks'[i], LineClocks'[i + 1], s)
    BY DEF ChargedLine
  <2>2. LineClocks'[i] = none /\ LineClocks'[i + 1] = none
    BY <1>4, <1>7
  <2> QED
    BY <2>2 DEF Charged, ShownAfter
<1>9. \A s \in Sides : /\ During(current_clock'[s], none[s])
                       /\ current_clock'[s].running => s = SideOf(current_board'.pos)
  <2>1. SideOf(current_board'.pos) \in Sides
    BY SideTyped
  <2> QED
    BY <1>2, <1>3, <2>1, RestStarts, RestDuring
<1> QED
  BY <1>2, <1>3, <1>4, <1>7, <1>8, <1>9 DEF ClockInv, Side

\* What leaves the board and its history alone keeps the clocks of the line.
LEMMA ClocksKept ==
  ASSUME ClockInv, UNCHANGED <<initial_clock, current_board, old_clock, entries, undone_entries>>,
         \A s \in Sides : /\ During(current_clock'[s], old_clock[s])
                          /\ current_clock'[s].running => s = Side
  PROVE  ClockInv'
<1>1. LineLength' = LineLength /\ Side' = Side
  BY DEF LineLength, Side
<1>2. Line' = Line /\ LineClocks' = LineClocks
  BY <1>1 DEF Line, LineClocks
<1> QED
  BY <1>1, <1>2 DEF ClockInv

\* Clocks started, turned back or set by the interface.
LEMMA SetDuring ==
  ASSUME NEW now \in GoodClock, NEW old \in GoodClock, During(now, old)
  PROVE  /\ During(Started(now), old)
         /\ During(TurnedBack(now), old) /\ TurnedBack(now).running = now.running
         /\ \A t \in Reported : /\ During(WithRemaining(now, t), old)
                                /\ WithRemaining(now, t).running = now.running
<1>1. now \in Clock
  BY DEF GoodClock
<1>2. /\ During(Started(now), old)
      /\ During(TurnedBack(now), old) /\ TurnedBack(now).running = now.running
  BY <1>1 DEF Started, TurnedBack, During, Clock
<1>3. ASSUME NEW t \in Reported
      PROVE  During(WithRemaining(now, t), old) /\ WithRemaining(now, t).running = now.running
  <2> DEFINE lost == IF t < now.remaining_time THEN now.remaining_time - t ELSE 0
             w == WithRemaining(now, t)
  <2>1. w = [now EXCEPT !.remaining_time = t, !.lost_time = lost]
    BY DEF WithRemaining
  <2> HIDE DEF w, lost
  <2>2. w.remaining_time = t /\ w.mode = now.mode /\ w.remaining_moves = now.remaining_moves
        /\ w.running = now.running
    BY <1>1, <2>1 DEF Clock
  <2> QED
    BY <2>2 DEF During, w
<1> QED
  BY <1>2, <1>3

\* Undo and redo take the clocks of the line, at rest, and start one of them.
LEMMA WalkedClocks ==
  ASSUME Typed, ClockInv, LineLength' = LineLength, Line' = Line, LineClocks' = LineClocks,
         old_clock' \in GoodClocks, AtRest(old_clock'), initial_clock' = initial_clock,
         current_clock' \in {old_clock', StartSide(old_clock', Side')}
  PROVE  ClockInv'
<1>1. Side' \in Sides
  BY SideTyped DEF Side
<1>2. \A s \in Sides : /\ During(current_clock'[s], old_clock'[s])
                       /\ current_clock'[s].running => s = Side'
  BY <1>1, RestStarts, RestDuring
<1> QED
  BY <1>2 DEF ClockInv

LEMMA ClockStep ==
  ASSUME ~SetupWhenUndone, ~LevelMidGame, Typed, Typed', ClockInv, [Next]_vars
  PROVE  ClockInv'
<1>0. /\ Side \in Sides /\ current_clock \in GoodClocks /\ old_clock \in GoodClocks
      /\ AtRest(old_clock)
      /\ \A s \in Sides : current_clock[s] \in GoodClock /\ old_clock[s] \in GoodClock
      /\ \A s \in Sides : During(current_clock[s], old_clock[s]) /\ (current_clock[s].running => s = Side)
  BY SideTyped, CurrentClocks DEF ClockInv, Typed, Side, GoodClocks
<1>1. CASE UNCHANGED vars \/ UndoNothing
  BY <1>0, <1>1, ClocksKept DEF vars, UndoNothing
<1>2. CASE Start
  <2>1. \A s \in Sides : current_clock'[s] = IF s = Side THEN Started(current_clock[s]) ELSE current_clock[s]
    BY <1>0, <1>2 DEF Start, StartSide, GoodClocks
  <2>2. \A s \in Sides : /\ During(current_clock'[s], old_clock[s])
                         /\ current_clock'[s].running => s = Side
    BY <1>0, <2>1, SetDuring
  <2> QED
    BY <1>2, <2>2, ClocksKept DEF Start
<1>3. CASE TurnBackClock
  <2>1. \A s \in Sides : current_clock'[s] = IF s = Side THEN TurnedBack(current_clock[s]) ELSE current_clock[s]
    BY <1>0, <1>3 DEF TurnBackClock, GoodClocks
  <2>2. \A s \in Sides : /\ During(current_clock'[s], old_clock[s])
                         /\ current_clock'[s].running => s = Side
    BY <1>0, <2>1, SetDuring
  <2> QED
    BY <1>3, <2>2, ClocksKept DEF TurnBackClock
<1>4. CASE SetRemainingTime
  <2>1. PICK r \in Sides, t \in Reported :
          \A s \in Sides : current_clock'[s] = IF s = r THEN WithRemaining(current_clock[s], t)
                                               ELSE current_clock[s]
    BY <1>0, <1>4 DEF SetRemainingTime, GoodClocks
  <2>2. \A s \in Sides : /\ During(current_clock'[s], old_clock[s])
                         /\ current_clock'[s].running => s = Side
    BY <1>0, <2>1, SetDuring
  <2> QED
    BY <1>4, <2>2, ClocksKept DEF SetRemainingTime
<1>5. CASE MakeMove
  <2>1. PICK m \in Legal[current_board.pos], e \in Elapses :
          Enter(Entry(current_board, m, old_clock), Played(current_board, m),
                StopSide(current_clock, Side, e))
    BY <1>5 DEF MakeMove
  <2>2. undone_entries' = <<>> /\ initial_clock' = initial_clock
    BY <1>5 DEF MakeMove
  <2> QED
    BY <1>0, <2>1, <2>2, MadeClocks
<1>6. CASE Undo
  <2>1. /\ entries # <<>> /\ old_clock' = entries[Len(entries)].clock
        /\ current_clock' = StartSide(old_clock', Side')
        /\ initial_clock' = initial_clock
    BY <1>6 DEF Undo, Side
  <2>2. AtRest(old_clock')
    BY <2>1, CurrentClocks DEF ClockInv
  <2>3. old_clock' \in GoodClocks
    BY DEF Typed
  <2> QED
    BY <1>0, <1>6, <2>1, <2>2, <2>3, UndoLine, UndoClocks, WalkedClocks
<1>7. CASE Redo
  <2>1. undone_entries # <<>> /\ Head(undone_entries) = undone_entries[1]
    BY <1>7, EndsTyped DEF Redo
  <2>2. /\ old_clock' = undone_entries[1].clock
        /\ current_clock' \in {old_clock', StartSide(old_clock', Side')}
        /\ initial_clock' = initial_clock
    BY <1>7, <2>1 DEF Redo, Enter, Side
  <2>3. AtRest(old_clock')
    BY <2>1, <2>2, CurrentClocks DEF ClockInv
  <2>4. old_clock' \in GoodClocks
    BY DEF Typed
  <2> QED
    BY <1>0, <1>7, <2>2, <2>3, <2>4, RedoLine, RedoClocks, WalkedClocks
<1>8. CASE SetBoard
  <2>1. /\ entries' = <<>> /\ undone_entries' = <<>>
        /\ old_clock' = initial_clock /\ current_clock' = initial_clock /\ initial_clock' = initial_clock
    BY <1>8 DEF SetBoard
  <2>2. initial_clock \in GoodClocks /\ AtRest(initial_clock)
    BY DEF Typed, ClockInv
  <2>3. \A s \in Sides : During(current_clock'[s], old_clock'[s]) /\ (current_clock'[s].running => s = Side')
    BY <2>1, <2>2, RestDuring
  <2> QED
    BY <2>1, <2>2, <2>3, EmptyClocksNext
<1>9. CASE RefuseBoard
  <2>1. /\ entries' = <<>> /\ undone_entries' = <<>> /\ Side' = Side
        /\ UNCHANGED <<old_clock, current_clock, initial_clock>>
    BY <1>9 DEF RefuseBoard, Side
  <2> QED
    BY <1>0, <2>1, EmptyClocksNext DEF ClockInv
<1>10. CASE SetClocks
  <2>1. PICK mode \in Controls : initial_clock' = Both(NewClock(mode))
    BY <1>10 DEF SetClocks
  <2>2. mode \in Modes
    BY BoardAssumption
  <2>3. initial_clock' \in GoodClocks /\ AtRest(initial_clock')
    BY <2>1, <2>2, PairsGood, NewAtRest
  <2>4. /\ entries' = <<>> /\ undone_entries' = <<>> /\ Side' = Side /\ old_clock' = initial_clock'
        /\ current_clock' \in {initial_clock', StartSide(initial_clock', Side)}
    BY <1>10 DEF SetClocks, Side
  <2>5. \A s \in Sides : During(current_clock'[s], old_clock'[s]) /\ (current_clock'[s].running => s = Side')
    BY <1>0, <2>3, <2>4, RestStarts, RestDuring
  <2> QED
    BY <2>3, <2>4, <2>5, EmptyClocksNext
<1>11. CASE LoadGame
  BY <1>11, LoadedClocks
<1> QED
  BY <1>1, <1>2, <1>3, <1>4, <1>5, <1>6, <1>7, <1>8, <1>9, <1>10, <1>11 DEF Next

LEMMA ClocksCharged ==
  ASSUME Typed, ClockInv
  PROVE  MoverCharged
<1>1. SUFFICES ASSUME NEW i \in 1 .. Len(entries), NEW s \in Sides
               PROVE  Charged(SideOf(entries[i].board.pos), entries[i].clock, ClockAfter(i), s)
  BY DEF MoverCharged, Charged
<1>2. Len(entries) \in Nat /\ i \in 1 .. LineLength /\ Len(undone_entries) \in Nat
  BY EndsTyped DEF LineLength
<1>3. Line[i] = entries[i].board
  BY <1>2 DEF Line, LineLength
<1>4. LineClocks[i] = entries[i].clock /\ LineClocks[i + 1] = ClockAfter(i)
  BY <1>2 DEF LineClocks, LineLength, ClockAfter
<1> QED
  BY <1>2, <1>3, <1>4 DEF ClockInv, ChargedLine

\* However moves are made, taken back and redone, with any time controls, a move
\* is charged once at most and to its side; if no board is set up while moves
\* can be redone and the time control is not changed during a game.
THEOREM MoverIsCharged ==
  ASSUME ~SetupWhenUndone, ~LevelMidGame
  PROVE  Spec => []MoverCharged
<1>1. Typed /\ Typed' /\ ClockInv /\ [Next]_vars => ClockInv'
  BY ClockStep
<1>2. Typed /\ ClockInv => MoverCharged
  BY ClocksCharged
<1> QED
  BY <1>1, <1>2, TypedInit, TypedStep, ClockInit, PTL DEF Spec


-----------------------------------------------------------------------------
(* The attempts of one key in one file. *)

\* A set of keys has a first one, which the order of the map finds.
LEMMA NextKeyIn ==
  ASSUME NEW S \in SUBSET Nat, S # {}
  PROVE  NextKey(S) \in S
<1>1. \E k \in S : \A l \in S : ~(<<l, k>> \in OpToRel(<, Nat))
  BY NatLessThanWellFounded, WFMin
<1>2. \A k \in S, l \in S : l < k => <<l, k>> \in OpToRel(<, Nat)
  BY DEF OpToRel
<1>3. \A k \in S, l \in S : ~(l < k) => k <= l
  OBVIOUS
<1>4. \E k \in S : \A l \in S : k <= l
  BY <1>1, <1>2, <1>3
<1> QED
  BY <1>4 DEF NextKey

\* The slots of a file of n entries are 0 to n - 1.
LEMMA SizeOfFile ==
  ASSUME NEW n \in Nat, NEW slots, DOMAIN slots = 0 .. n - 1
  PROVE  Size(slots) = n
<1>1. 0 \in Int /\ n - 1 \in Int
  OBVIOUS
<1>2. Cardinality(0 .. n - 1) = IF 0 > n - 1 THEN 0 ELSE n - 1 - 0 + 1
  BY <1>1, FS_Interval
<1>3. (IF 0 > n - 1 THEN 0 ELSE n - 1 - 0 + 1) = n
  OBVIOUS
<1> QED
  BY <1>2, <1>3 DEF Size

LEMMA Remainder ==
  ASSUME NEW x \in Int, NEW n \in Nat \ {0}
  PROVE  x % n \in 0 .. n - 1
OBVIOUS

\* Every attempt looks at a slot of the file, if it has not just one.
LEMMA AttemptInFile ==
  ASSUME NEW n \in Nat, n # 1, NEW slots, DOMAIN slots = 0 .. n - 1,
         NEW k \in Nat, NEW i \in Attempts(slots)
  PROVE  hashfunc(slots, k, i) \in DOMAIN slots
<1>1. Size(slots) = n /\ i \in 0 .. n - 1
  BY SizeOfFile DEF Attempts
<1>2. n \in Nat \ {0} /\ n - 1 \in Nat \ {0} /\ i \in Int
  BY <1>1
<1>3. k % n \in Int /\ k % (n - 1) \in Int
  BY <1>2, Remainder
<1>4. (k % n) + (i * (k % (n - 1))) \in Int
  BY <1>2, <1>3
<1>5. ((k % n) + (i * (k % (n - 1)))) % n \in 0 .. n - 1
  BY <1>2, <1>4, Remainder
<1> QED
  BY <1>1, <1>5 DEF hashfunc

\* The search for a key ends once.
LEMMA OneFirstStop ==
  ASSUME NEW n \in Nat, NEW slots, DOMAIN slots = 0 .. n - 1, NEW k,
         NEW i, NEW j, FirstStop(slots, k, i), FirstStop(slots, k, j)
  PROVE  i = j
<1>1. i \in Int /\ j \in Int /\ 0 <= i /\ 0 <= j
  BY SizeOfFile DEF FirstStop, Attempts
<1>2. ~(i < j) /\ ~(j < i)
  BY <1>1 DEF FirstStop
<1> QED
  BY <1>1, <1>2

-----------------------------------------------------------------------------
(* Writing the book. *)

EntriesGood ==
  \A k \in DOMAIN book_entries : book_entries[k].key = k /\ ~IsEmpty(book_entries[k])

\* An entry is found where the search for its key ends.
Found(f, k) ==
  \E i \in Attempts(f) : FirstStop(f, k, i) /\ f[hashfunc(f, k, i)] = book_entries[k]

\* Nothing is written before the file is made; then each key to be written has
\* an entry that says so, and is not written twice.
BookInv ==
  /\ bookpc \in {"none", "read", "group", "write", "made", "crashed"}
  /\ bookpc \in {"none", "read", "group"} => written = {}
  /\ bookpc = "group" => todo \subseteq Keys /\ EntriesGood /\ IsFiniteSet(DOMAIN book_entries)
                         /\ DOMAIN book_entries \subseteq Keys
  /\ bookpc = "write" =>
       /\ EntriesGood
       /\ DOMAIN book_entries \subseteq Keys
       /\ todo \subseteq DOMAIN book_entries /\ written \subseteq DOMAIN book_entries
       /\ todo \cap written = {}
       /\ \E n \in Nat : DOMAIN file = 0 .. n - 1
       /\ file = [s \in DOMAIN file |-> file[s]]
  /\ \A k \in written : Found(file, k)

LEMMA KeysAreNumbers == Keys \subseteq Nat
BY BookAssumption DEF Keys

LEMMA BookInvInit == BookInit => BookInv
BY DEF BookInit, BookInv

\* An entry that is written stays found: the slot that put() fills is empty or
\* has its own key, so it is neither the slot of another entry nor an end of
\* the attempts before it, before or after it is filled.
LEMMA PutKeepsFound ==
  ASSUME BookInv, bookpc = "write", Size(file) # 1,
         NEW k \in todo, NEW i, FirstStop(file, k, i),
         NEW f, f = [file EXCEPT ![hashfunc(file, k, i)] = book_entries[k]],
         NEW l \in written
  PROVE  Found(f, l)
<1> DEFINE s == hashfunc(file, k, i)
<1>1. /\ k \in DOMAIN book_entries /\ l \in DOMAIN book_entries /\ k # l
      /\ book_entries[k].key = k /\ ~IsEmpty(book_entries[k])
      /\ book_entries[l].key = l /\ ~IsEmpty(book_entries[l])
  BY DEF BookInv, EntriesGood
<1>2. PICK j \in Attempts(file) : FirstStop(file, l, j) /\ file[hashfunc(file, l, j)] = book_entries[l]
  BY DEF BookInv, Found
<1>3. IsEmpty(file[s]) \/ file[s].key = k
  BY DEF FirstStop, StopsAt
<1>4. hashfunc(file, l, j) # s
  BY <1>1, <1>2, <1>3
<1>5. DOMAIN f = DOMAIN file
  OBVIOUS
<1>6. Attempts(f) = Attempts(file) /\ \A m, h : hashfunc(f, m, h) = hashfunc(file, m, h)
  BY <1>5 DEF Attempts, Size, hashfunc
<1>7. \A x : x # s => f[x] = file[x]
  OBVIOUS
<1>8. ASSUME NEW h \in 0 .. j - 1 PROVE ~StopsAt(f, l, h)
  <2> DEFINE x == hashfunc(file, l, h)
  <2>1. ~IsEmpty(file[x]) /\ file[x].key # l
    BY <1>2 DEF FirstStop, StopsAt
  <2>2. CASE x # s
    <3>1. f[x] = file[x]
      BY <1>7, <2>2
    <3> QED
      BY <1>6, <2>1, <3>1 DEF StopsAt
  <2>3. CASE x = s
    <3>1. f[x] = file[x] \/ f[x] = book_entries[k]
      BY <2>3
    <3>2. ~IsEmpty(f[x]) /\ f[x].key # l
      BY <1>1, <2>1, <3>1
    <3> QED
      BY <1>6, <3>2 DEF StopsAt
  <2> QED
    BY <2>2, <2>3
<1>9. f[hashfunc(file, l, j)] = book_entries[l]
  BY <1>2, <1>4, <1>7
<1>10. StopsAt(f, l, j)
  BY <1>1, <1>6, <1>9 DEF StopsAt
<1> HIDE DEF s
<1> QED
  BY <1>2, <1>6, <1>8, <1>9, <1>10 DEF Found, FirstStop

\* An entry that put() writes is found.
LEMMA PutIsFound ==
  ASSUME BookInv, bookpc = "write", Size(file) # 1,
         NEW k \in todo, NEW i, FirstStop(file, k, i),
         NEW f, f = [file EXCEPT ![hashfunc(file, k, i)] = book_entries[k]]
  PROVE  Found(f, k)
<1> DEFINE s == hashfunc(file, k, i)
<1>1. k \in DOMAIN book_entries /\ book_entries[k].key = k /\ k \in Nat
  BY KeysAreNumbers DEF BookInv, EntriesGood
<1>2. i \in Attempts(file) /\ StopsAt(file, k, i) /\ \A h \in 0 .. i - 1 : ~StopsAt(file, k, h)
  BY DEF FirstStop
<1>3. s \in DOMAIN file
  <2>1. PICK n \in Nat : DOMAIN file = 0 .. n - 1
    BY DEF BookInv
  <2>2. n # 1
    BY <2>1, SizeOfFile
  <2> QED
    BY <1>1, <1>2, <2>1, <2>2, AttemptInFile
<1>4. DOMAIN f = DOMAIN file
  OBVIOUS
<1>5. Attempts(f) = Attempts(file) /\ \A m, h : hashfunc(f, m, h) = hashfunc(file, m, h)
  BY <1>4 DEF Attempts, Size, hashfunc
<1>6. f[s] = book_entries[k] /\ \A x : x # s => f[x] = file[x]
  BY <1>3
<1>7. StopsAt(f, k, i)
  <2>1. hashfunc(f, k, i) = s
    BY <1>5
  <2> QED
    BY <1>1, <1>6, <2>1 DEF StopsAt
<1>8. ASSUME NEW h \in 0 .. i - 1 PROVE ~StopsAt(f, k, h)
  <2> DEFINE x == hashfunc(file, k, h)
  <2>1. ~IsEmpty(file[x]) /\ file[x].key # k
    BY <1>2 DEF StopsAt
  <2>2. x # s
    BY <1>2, <2>1 DEF StopsAt
  <2>3. f[x] = file[x]
    BY <1>6, <2>2
  <2> QED
    BY <1>5, <2>1, <2>3 DEF StopsAt
<1> HIDE DEF s
<1> QED
  BY <1>2, <1>5, <1>6, <1>7, <1>8 DEF Found, FirstStop, s

\* What leaves the book alone keeps the invariant.
LEMMA BookKept ==
  ASSUME BookInv, UNCHANGED <<book_entries, todo, written, file>>,
         bookpc' = bookpc \/ bookpc' = "made" \/ bookpc' = "crashed", bookpc' = "group" => bookpc = "group"
  PROVE  BookInv'
<1>1. \A k \in written' : Found(file, k)'
  BY DEF BookInv, Found, FirstStop, StopsAt, Attempts, hashfunc, Size
<1>2. EntriesGood => EntriesGood'
  BY DEF EntriesGood
<1> QED
  BY <1>1, <1>2 DEF BookInv

LEMMA PutStep ==
  ASSUME BookInv, Put
  PROVE  BookInv'
<1> DEFINE k == NextKey(todo)
<1>1. /\ bookpc = "write" /\ Size(file) # 1 /\ bookpc' = bookpc /\ book_entries' = book_entries
      /\ todo' = todo \ {k}
  BY DEF Put
<1>2. k \in todo /\ k \in DOMAIN book_entries
  <2>1. todo \in SUBSET Nat /\ todo # {}
    BY KeysAreNumbers DEF BookInv, Put
  <2> QED
    BY <1>1, <2>1, NextKeyIn DEF BookInv
<1> DEFINE slots == {hashfunc(file, k, i) : i \in {i \in Attempts(file) : FirstStop(file, k, i)}}
<1>3. /\ file' = [s \in DOMAIN file |-> IF s \in slots THEN book_entries[k] ELSE file[s]]
      /\ written' = IF slots = {} THEN written ELSE written \union {k}
  BY DEF Put
<1>4. file = [s \in DOMAIN file |-> file[s]] /\ \E n \in Nat : DOMAIN file = 0 .. n - 1
  BY <1>1 DEF BookInv
<1>5. DOMAIN file' = DOMAIN file /\ file' = [s \in DOMAIN file' |-> file'[s]]
  BY <1>3
<1> HIDE DEF k
<1>6. EntriesGood' /\ todo' \subseteq DOMAIN book_entries' /\ DOMAIN book_entries' \subseteq Keys
  BY <1>1 DEF BookInv, EntriesGood
<1>7. CASE slots = {}
  <2>1. file' = file
    BY <1>3, <1>4, <1>7
  <2>2. written' = written
    BY <1>3, <1>7
  <2>3. \A l \in written' : Found(file, l)'
    BY <1>1, <2>1, <2>2 DEF BookInv, Found
  <2> QED
    BY <1>1, <1>4, <1>5, <1>6, <2>2, <2>3 DEF BookInv
<1>8. CASE slots # {}
  <2>1. PICK i \in Attempts(file) : FirstStop(file, k, i)
    BY <1>8
  <2>2. \A j \in Attempts(file) : FirstStop(file, k, j) => j = i
    BY <1>4, <2>1, OneFirstStop
  <2>3. slots = {hashfunc(file, k, i)}
    BY <2>1, <2>2
  <2>4. file' = [file EXCEPT ![hashfunc(file, k, i)] = book_entries[k]]
    BY <1>3, <1>4, <2>3
  <2> HIDE DEF slots
  <2>5. written' = written \union {k}
    BY <1>3, <1>8
  <2>6. \A l \in written : Found(file', l)
    BY <1>1, <1>2, <2>1, <2>4, PutKeepsFound
  <2>7. Found(file', k)
    BY <1>1, <1>2, <2>1, <2>4, PutIsFound
  <2>8. \A l \in written' : Found(file, l)'
    BY <1>1, <2>5, <2>6, <2>7 DEF Found
  <2>9. written' \subseteq DOMAIN book_entries' /\ todo' \cap written' = {}
    BY <1>1, <1>2, <2>5 DEF BookInv
  <2> QED
    BY <1>1, <1>4, <1>5, <1>6, <2>8, <2>9 DEF BookInv
<1> QED
  BY <1>7, <1>8

LEMMA BookStep == BookInv /\ [BookNext]_<<vars, bookVars>> => BookInv'
<1> SUFFICES ASSUME BookInv, [BookNext]_<<vars, bookVars>> PROVE BookInv'
  OBVIOUS
<1>1. CASE UNCHANGED bookVars \/ PutCrash \/ BookCreated \/ OpenBook \/ CloseBook
  BY <1>1, BookKept DEF bookVars, PutCrash, BookCreated, OpenBook, CloseBook
<1>2. CASE CreateBook \/ ReadGame
  <2>1. bookpc \in {"none", "read"} /\ bookpc' = "read" /\ written' = written
    BY <1>2 DEF CreateBook, ReadGame, AtStart
  <2> QED
    BY <2>1 DEF BookInv
<1>3. CASE GamesRead
  <2>1. /\ bookpc = "read" /\ bookpc' = "group" /\ written' = written
        /\ todo' = Keys /\ book_entries' = <<>>
    BY <1>3 DEF GamesRead
  <2>2. DOMAIN book_entries' = {} /\ IsFiniteSet({})
    BY <2>1, FS_EmptySet
  <2>3. EntriesGood'
    BY <2>2 DEF EntriesGood
  <2>4. DOMAIN book_entries' \subseteq Keys' /\ IsFiniteSet(DOMAIN book_entries')
    BY <2>2
  <2> QED
    BY <2>1, <2>3, <2>4 DEF BookInv
<1>4. CASE GroupMoves
  <2> DEFINE k == NextKey(todo)
  <2>1. PICK S \in Grouped(k) :
          book_entries' = IF S = {} THEN book_entries
                          ELSE [l \in DOMAIN book_entries \union {k} |->
                                  IF l = k THEN EntryOf(k, S) ELSE book_entries[l]]
    BY <1>4 DEF GroupMoves
  <2>2. /\ bookpc = "group" /\ bookpc' = bookpc /\ written' = written
        /\ todo' = todo \ {k} /\ todo # {}
    BY <1>4 DEF GroupMoves
  <2>3. k \in todo /\ k \in Keys
    BY <2>2, KeysAreNumbers, NextKeyIn DEF BookInv
  <2> HIDE DEF k
  <2>4. CASE S = {}
    BY <2>1, <2>2, <2>4 DEF BookInv, EntriesGood
  <2>5. CASE S # {}
    <3>1. EntryOf(k, S).key = k /\ ~IsEmpty(EntryOf(k, S))
      BY <2>5 DEF EntryOf, IsEmpty
    <3>2. book_entries' = [l \in DOMAIN book_entries \union {k} |->
                             IF l = k THEN EntryOf(k, S) ELSE book_entries[l]]
      BY <2>1, <2>5
    <3>3. DOMAIN book_entries' = DOMAIN book_entries \union {k}
      BY <3>2
    <3>4. IsFiniteSet(DOMAIN book_entries')
      BY <2>2, <3>3, FS_AddElement DEF BookInv
    <3>5. EntriesGood'
      BY <2>2, <3>1, <3>2, <3>3 DEF BookInv, EntriesGood
    <3> QED
      BY <2>2, <2>3, <3>3, <3>4, <3>5 DEF BookInv
  <2> QED
    BY <2>4, <2>5
<1>5. CASE NewFile
  <2> DEFINE n == (Cardinality(DOMAIN book_entries) * 11) \div 10
  <2>1. /\ bookpc = "group" /\ bookpc' = "write" /\ written' = {}
        /\ todo' = DOMAIN book_entries /\ book_entries' = book_entries
        /\ file' = [s \in 0 .. n - 1 |-> NoEntry]
    BY <1>5 DEF NewFile
  <2>2. n \in Nat
    <3>1. Cardinality(DOMAIN book_entries) \in Nat
      BY <2>1, FS_CardinalityType DEF BookInv
    <3> QED
      BY <3>1
  <2>3. DOMAIN file' = 0 .. n - 1 /\ file' = [s \in DOMAIN file' |-> file'[s]]
    BY <2>1
  <2>4. EntriesGood' /\ DOMAIN book_entries' \subseteq Keys'
    BY <2>1 DEF BookInv, EntriesGood
  <2> HIDE DEF n
  <2> QED
    BY <2>1, <2>2, <2>3, <2>4 DEF BookInv
<1>6. CASE Put
  BY <1>6, PutStep
<1>7. CASE EngineMove \/ GameStep
  <2>1. UNCHANGED bookVars
    BY <1>7 DEF EngineMove, GameStep
  <2> QED
    BY <1>1, <2>1
<1> QED
  BY <1>1, <1>2, <1>3, <1>4, <1>5, <1>6, <1>7 DEF BookNext

\* Whatever keys collide and however full the file is, lookup() finds every
\* entry that put() has written, unharmed by those written after it.
THEOREM WrittenFound == BookSpec => []WrittenIsFound
<1>1. BookInv => WrittenIsFound
  BY DEF BookInv, WrittenIsFound, Found
<1> QED
  BY <1>1, BookInvInit, BookStep, PTL DEF BookSpec

-----------------------------------------------------------------------------
(* The game with a book. *)

\* The book offers legal moves only, whatever is in the file.
LEMMA OfferedLegal == \A slots, p : Offered(slots, p) \subseteq Legal[p]
BY DEF Offered, Lookup

\* What engine_move() leaves: a move made, after the clock has been started.
LEMMA EngineMade ==
  ASSUME Typed, EngineMove
  PROVE  /\ \E m \in Legal[current_board.pos], clocks \in GoodClocks :
              Enter(Entry(current_board, m, old_clock), Played(current_board, m), clocks)
         /\ ~Over /\ undone_entries' = <<>> /\ UNCHANGED <<initial_board, initial_clock>>
<1>1. PICK m \in Moves, e \in Elapses :
        /\ m \in (IF Offered(book, current_board.pos) # {}
                     THEN Offered(book, current_board.pos) ELSE Legal[current_board.pos])
        /\ Enter(Entry(current_board, m, old_clock), Played(current_board, m),
                 StopSide(StartSide(current_clock, Side), Side, e))
  BY DEF EngineMove
<1>2. m \in Legal[current_board.pos]
  BY <1>1, OfferedLegal
<1>3. StopSide(StartSide(current_clock, Side), Side, e) \in GoodClocks
  <2>1. Side \in Sides /\ current_clock \in GoodClocks /\ e \in Nat
    BY SideTyped, BoardAssumption DEF Side, Typed
  <2>2. StartSide(current_clock, Side) \in GoodClocks
    BY <2>1, PairsGood
  <2> QED
    BY <2>1, <2>2, PairsGood
<1>4. ~Over /\ undone_entries' = <<>> /\ UNCHANGED <<initial_board, initial_clock>>
  BY DEF EngineMove
<1> QED
  BY <1>1, <1>2, <1>3, <1>4

LEMMA EngineKeeps ==
  ASSUME Typed, LineInv, EngineMove
  PROVE  Typed' /\ LineInv' /\ (ResultInv => ResultInv')
<1>1. PICK m \in Legal[current_board.pos], clocks \in GoodClocks :
        Enter(Entry(current_board, m, old_clock), Played(current_board, m), clocks)
  BY EngineMade
<1>2. ~Over /\ undone_entries' = <<>> /\ UNCHANGED <<initial_board, initial_clock>>
  BY EngineMade
<1>3. current_board \in Board /\ old_clock \in GoodClocks
  BY DEF Typed
<1>4. Played(current_board, m) \in Board /\ m \in Moves
  BY <1>3, PlayedTyped
<1>5. Entry(current_board, m, old_clock) \in GoodEntries
  BY <1>3, <1>4, EntryTyped
<1>6. undone_entries' \in Seq(GoodEntries)
  BY <1>2, EmptySeq
<1>7. Typed'
  BY <1>1, <1>2, <1>4, <1>5, <1>6, EnterTyped
<1>8. LineInv'
  BY <1>1, <1>2, MadeLine
<1>9. ResultInv => ResultInv'
  BY <1>1, <1>2, MadeResult
<1> QED
  BY <1>7, <1>8, <1>9

\* A step of the game with a book is one of the game, a move of the engine or
\* one that leaves the game alone.
LEMMA GameSteps ==
  ASSUME [BookNext]_<<vars, bookVars>>
  PROVE  [Next]_vars \/ EngineMove
BY DEF BookNext, GameStep

LEMMA GameInv ==
  ASSUME ~SetupWhenUndone, Typed, LineInv, [BookNext]_<<vars, bookVars>>
  PROVE  Typed' /\ LineInv'
<1>1. CASE [Next]_vars
  BY <1>1, TypedStep, LineStep
<1>2. CASE EngineMove
  BY <1>2, EngineKeeps
<1> QED
  BY <1>1, <1>2, GameSteps

\* With moves from a book, whatever is in the file, as without: the boards
\* before and after the current one are one legal game.
THEOREM BookHistory ==
  ASSUME ~SetupWhenUndone
  PROVE  BookSpec => []HistoryConsistent
<1>1. BookInit => Typed /\ LineInv
  BY TypedInit, LineInit DEF BookInit
<1>2. Typed /\ LineInv /\ [BookNext]_<<vars, bookVars>> => Typed' /\ LineInv'
  BY GameInv
<1>3. Typed /\ LineInv => HistoryConsistent
  BY LineConsistent
<1> QED
  BY <1>1, <1>2, <1>3, PTL DEF BookSpec

\* And the result is that of the rules, if the games in files do not go on
\* after their end.
THEOREM BookResult ==
  ASSUME ~SetupWhenUndone, FilesEndOnce
  PROVE  BookSpec => []ResultByRule
<1>1. BookInit => Typed /\ LineInv /\ ResultInv
  BY TypedInit, LineInit DEF BookInit
<1>2. ASSUME Typed, LineInv, ResultInv, [BookNext]_<<vars, bookVars>>
      PROVE  ResultInv'
  <2>1. CASE [Next]_vars
    BY <1>2, <2>1, ResultStep DEF LineInv
  <2>2. CASE EngineMove
    BY <1>2, <2>2, EngineKeeps
  <2> QED
    BY <1>2, <2>1, <2>2, GameSteps
<1>3. Typed /\ LineInv /\ ResultInv /\ [BookNext]_<<vars, bookVars>>
        => Typed' /\ LineInv' /\ ResultInv'
  BY <1>2, GameInv
<1>4. ResultInv => ResultByRule
  BY DEF ResultInv
<1> QED
  BY <1>1, <1>3, <1>4, PTL DEF BookSpec

\* engine_move() starts the clock of its side, makes its move and stops it.
LEMMA EngineCharged ==
  ASSUME Typed, ClockInv, EngineMove
  PROVE  ClockInv'
<1> DEFINE now == StartSide(current_clock, Side)
<1>1. PICK m \in Moves, e \in Elapses :
        /\ m \in (IF Offered(book, current_board.pos) # {}
                     THEN Offered(book, current_board.pos) ELSE Legal[current_board.pos])
        /\ Enter(Entry(current_board, m, old_clock), Played(current_board, m), StopSide(now, Side, e))
  BY DEF EngineMove
<1>2. m \in Legal[current_board.pos]
  BY <1>1, OfferedLegal
<1>3. /\ Side \in Sides /\ current_clock \in GoodClocks
      /\ \A s \in Sides : current_clock[s] \in GoodClock /\ old_clock[s] \in GoodClock
  BY SideTyped DEF Typed, Side, GoodClocks
<1>4. now \in GoodClocks
  BY <1>3, PairsGood
<1>5. \A s \in Sides : now[s] = IF s = Side THEN Started(current_clock[s]) ELSE current_clock[s]
  BY <1>3 DEF StartSide, GoodClocks
<1>6. \A s \in Sides : During(now[s], old_clock[s]) /\ (now[s].running => s = Side)
  BY <1>3, <1>5, SetDuring DEF ClockInv
<1>7. undone_entries' = <<>> /\ initial_clock' = initial_clock
  BY DEF EngineMove
<1> HIDE DEF now
<1> QED
  BY <1>1, <1>2, <1>4, <1>6, <1>7, MadeClocks

\* And a move is charged once at most and to its side, the engine's from the
\* book as well; if the time control is not changed during a game.
THEOREM BookCharged ==
  ASSUME ~SetupWhenUndone, ~LevelMidGame
  PROVE  BookSpec => []MoverCharged
<1>1. BookInit => Typed /\ LineInv /\ ClockInv
  BY TypedInit, LineInit, ClockInit DEF BookInit
<1>2. Typed /\ LineInv /\ [BookNext]_<<vars, bookVars>> => Typed' /\ LineInv'
  BY GameInv
<1>3. ASSUME Typed, Typed', ClockInv, [BookNext]_<<vars, bookVars>>
      PROVE  ClockInv'
  BY <1>3, ClockStep, EngineCharged, GameSteps
<1>4. Typed /\ Typed' /\ ClockInv /\ [BookNext]_<<vars, bookVars>> => ClockInv'
  BY <1>3
<1>5. Typed /\ ClockInv => MoverCharged
  BY ClocksCharged
<1> QED
  BY <1>1, <1>2, <1>4, <1>5, PTL DEF BookSpec

-----------------------------------------------------------------------------
(* What the book tells: reading games. *)

LEMMA LeastOf ==
  ASSUME NEW S \in SUBSET Nat, S # {}
  PROVE  \E m \in S : \A n \in S : m <= n
<1>1. PICK m \in S : \A n \in S : ~(<<n, m>> \in OpToRel(<, Nat))
  BY NatLessThanWellFounded, WFMin
<1>2. \A n \in S : n < m => <<n, m>> \in OpToRel(<, Nat)
  BY DEF OpToRel
<1>3. \A n \in S : ~(n < m) => m <= n
  OBVIOUS
<1> QED
  BY <1>1, <1>2, <1>3

\* Legal moves from an opening, through the boards bs.
LegalThrough(opening, moves, bs) ==
  /\ opening \in Board /\ moves \in Seq(Moves)
  /\ bs \in [0 .. Len(moves) -> Board] /\ bs[0] = opening
  /\ \A i \in 1 .. Len(moves) :
       moves[i] \in Legal[bs[i - 1].pos] /\ bs[i] = Played(bs[i - 1], moves[i])

\* They are the boards of the game.
LEMMA BoardsAre ==
  ASSUME NEW opening, NEW moves, NEW bs, LegalThrough(opening, moves, bs)
  PROVE  BoardsOf(opening, moves) = bs
<1> DEFINE f == BoardsOf(opening, moves)
           n == Len(moves)
           Bad == {i \in 0 .. n : f[i] # bs[i]}
<1>1. n \in Nat
  BY DEF LegalThrough
<1>2. bs = [i \in 0 .. n |-> IF i = 0 THEN opening ELSE Played(bs[i - 1], moves[i])]
  <2>1. \A i \in 0 .. n : bs[i] = IF i = 0 THEN opening ELSE Played(bs[i - 1], moves[i])
    BY <1>1 DEF LegalThrough
  <2>2. bs = [i \in 0 .. n |-> bs[i]]
    BY DEF LegalThrough
  <2> QED
    BY <2>1, <2>2
<1>3. f = [i \in 0 .. n |-> IF i = 0 THEN opening ELSE Played(f[i - 1], moves[i])]
  BY <1>2 DEF BoardsOf
<1> HIDE DEF f
<1>4. Bad = {}
  <2> SUFFICES ASSUME Bad # {} PROVE FALSE
    OBVIOUS
  <2>1. Bad \in SUBSET Nat
    OBVIOUS
  <2>2. PICK i \in Bad : \A j \in Bad : i <= j
    <3> HIDE DEF Bad
    <3> QED
      BY <2>1, LeastOf
  <2>3. i # 0 /\ i \in 1 .. n /\ i - 1 \in 0 .. n /\ ~(i <= i - 1)
    BY <1>1, <1>2, <1>3
  <2>4. f[i - 1] = bs[i - 1]
    BY <2>2, <2>3
  <2> QED
    BY <1>2, <1>3, <2>3, <2>4
<1>5. f = [i \in 0 .. n |-> f[i]] /\ bs = [i \in 0 .. n |-> bs[i]]
  BY <1>2, <1>3
<1>6. \A i \in 0 .. n : f[i] = bs[i]
  BY <1>4
<1> QED
  BY <1>5, <1>6 DEF f

\* A move more.
LEMMA OneMore ==
  ASSUME NEW opening, NEW moves, NEW bs, LegalThrough(opening, moves, bs),
         NEW m \in Legal[bs[Len(moves)].pos]
  PROVE  \E cs : /\ LegalThrough(opening, Append(moves, m), cs)
                 /\ cs[Len(Append(moves, m))] = Played(bs[Len(moves)], m)
<1> DEFINE n == Len(moves)
           after == Played(bs[n], m)
           ms == Append(moves, m)
           cs == [i \in 0 .. n + 1 |-> IF i = n + 1 THEN after ELSE bs[i]]
<1>1. n \in Nat /\ bs[n] \in Board /\ moves \in Seq(Moves) /\ opening \in Board
  BY DEF LegalThrough
<1>2. after \in Board /\ m \in Moves
  BY <1>1, PlayedTyped
<1>3. /\ ms \in Seq(Moves) /\ Len(ms) = n + 1 /\ ms[n + 1] = m
      /\ \A i \in 1 .. n : ms[i] = moves[i]
  BY <1>1, <1>2, AppendProperties
<1>4. cs \in [0 .. Len(ms) -> Board]
  BY <1>1, <1>2, <1>3 DEF LegalThrough
<1>5. cs[0] = opening /\ cs[n + 1] = after /\ \A i \in 0 .. n : cs[i] = bs[i]
  BY <1>1 DEF LegalThrough
<1> HIDE DEF ms, cs, n
<1>6. ASSUME NEW i \in 1 .. Len(ms)
      PROVE  ms[i] \in Legal[cs[i - 1].pos] /\ cs[i] = Played(cs[i - 1], ms[i])
  <2>1. CASE i = n + 1
    <3>1. cs[i - 1] = bs[n]
      BY <1>1, <1>5, <2>1
    <3> QED
      BY <1>3, <1>5, <2>1, <3>1 DEF n
  <2>2. CASE i # n + 1
    <3>1. i \in 1 .. n /\ i - 1 \in 0 .. n
      BY <1>1, <1>3, <2>2
    <3>2. cs[i] = bs[i] /\ cs[i - 1] = bs[i - 1] /\ ms[i] = moves[i]
      BY <1>1, <1>3, <1>5, <3>1
    <3> QED
      BY <3>1, <3>2 DEF LegalThrough, n
  <2> QED
    BY <2>1, <2>2
<1>7. LegalThrough(opening, ms, cs)
  BY <1>1, <1>3, <1>4, <1>5, <1>6 DEF LegalThrough
<1> QED
  BY <1>3, <1>5, <1>7 DEF ms, n

\* How far the reading of a game has come.
ReadStates == [moves: Seq(Moves), board: Board, stop: Nat]
ReadGood(opening, r) ==
  /\ r \in ReadStates
  /\ \E bs : LegalThrough(opening, r.moves, bs) /\ bs[Len(r.moves)] = r.board

\* What is made of the item before i.
ReadNext(t, before, i) ==
  LET x == t[i - 1]
  IN  IF before.stop > 0 \/ x.item \in {"blank", "note"} THEN before
      ELSE IF x.item = "move"
        THEN IF x.move \in Legal[before.board.pos]
               THEN [before EXCEPT !.moves = Append(@, x.move),
                                   !.board = Played(@, x.move)]
               ELSE [before EXCEPT !.stop = i - 1]
      ELSE [before EXCEPT !.stop = i - 1]

LEMMA ReadNextGood ==
  ASSUME NEW opening, NEW t, NEW before, ReadGood(opening, before), NEW i \in Nat \ {0}
  PROVE  ReadGood(opening, ReadNext(t, before, i))
<1> DEFINE x == t[i - 1]
<1>1. CASE ReadNext(t, before, i) = before
  BY <1>1
<1>2. CASE ReadNext(t, before, i) = [before EXCEPT !.stop = i - 1]
  <2>1. /\ ReadNext(t, before, i) \in ReadStates
        /\ ReadNext(t, before, i).moves = before.moves
        /\ ReadNext(t, before, i).board = before.board
    BY <1>2 DEF ReadGood, ReadStates
  <2> QED
    BY <2>1 DEF ReadGood
<1>3. CASE /\ x.move \in Legal[before.board.pos]
           /\ ReadNext(t, before, i) = [before EXCEPT !.moves = Append(@, x.move),
                                                      !.board = Played(@, x.move)]
  <2>1. PICK bs : LegalThrough(opening, before.moves, bs) /\ bs[Len(before.moves)] = before.board
    BY DEF ReadGood
  <2>2. PICK cs : /\ LegalThrough(opening, Append(before.moves, x.move), cs)
                  /\ cs[Len(Append(before.moves, x.move))] = Played(before.board, x.move)
    BY <1>3, <2>1, OneMore
  <2>3. /\ before.board \in Board /\ before.moves \in Seq(Moves) /\ before.stop \in Nat
        /\ before = [moves |-> before.moves, board |-> before.board, stop |-> before.stop]
    BY DEF ReadGood, ReadStates
  <2>4. Played(before.board, x.move) \in Board /\ x.move \in Moves
    BY <1>3, <2>3, PlayedTyped
  <2>5. ReadNext(t, before, i) = [moves |-> Append(before.moves, x.move),
                                  board |-> Played(before.board, x.move), stop |-> before.stop]
    BY <1>3, <2>3
  <2>6. Append(before.moves, x.move) \in Seq(Moves)
    BY <2>3, <2>4, AppendProperties
  <2>7. ReadNext(t, before, i) \in ReadStates
    BY <2>3, <2>4, <2>5, <2>6 DEF ReadStates
  <2> QED
    BY <2>2, <2>5, <2>7 DEF ReadGood
<1> QED
  BY <1>1, <1>2, <1>3 DEF ReadNext

\* What is read before the first item.
ReadStart(opening) == [moves |-> <<>>, board |-> opening, stop |-> 0]

LEMMA ReadStartGood ==
  ASSUME NEW opening \in Board
  PROVE  ReadGood(opening, ReadStart(opening))
<1> DEFINE bs == [i \in 0 .. 0 |-> opening]
<1>1. <<>> \in Seq(Moves) /\ Len(<<>>) = 0
  OBVIOUS
<1>2. bs \in [0 .. 0 -> Board] /\ bs[0] = opening
  OBVIOUS
<1>3. LegalThrough(opening, <<>>, bs)
  BY <1>1, <1>2 DEF LegalThrough
<1>4. ReadStart(opening) \in ReadStates
  BY <1>1 DEF ReadStart, ReadStates
<1> HIDE DEF bs
<1> QED
  BY <1>1, <1>2, <1>3, <1>4 DEF ReadGood, ReadStart

\* The states of reading, up to item n.
AreRead(f, t, from, opening, n) ==
  f = [i \in from .. n |-> IF i = from THEN ReadStart(opening) ELSE ReadNext(t, f[i - 1], i)]

LEMMA ReadingExists ==
  ASSUME NEW t, NEW from \in Nat, NEW opening, NEW last \in Nat, from <= last
  PROVE  \E f : AreRead(f, t, from, opening, last)
<1> DEFINE Bad == {n \in from .. last : ~\E f : AreRead(f, t, from, opening, n)}
<1> SUFFICES ASSUME Bad # {} PROVE FALSE
  OBVIOUS
<1>1. Bad \in SUBSET Nat
  OBVIOUS
<1>2. PICK n \in Bad : \A m \in Bad : n <= m
  <2> HIDE DEF Bad
  <2> QED
    BY <1>1, LeastOf
<1>3. CASE n = from
  <2> DEFINE f == [i \in from .. n |-> ReadStart(opening)]
  <2>1. AreRead(f, t, from, opening, n)
    BY <1>3 DEF AreRead
  <2> QED
    BY <2>1
<1>4. CASE n # from
  <2>1. n \in Nat /\ n - 1 \in from .. last /\ ~(n <= n - 1) /\ from <= n - 1
    BY <1>4
  <2>2. PICK h : AreRead(h, t, from, opening, n - 1)
    BY <1>2, <2>1
  <2> DEFINE f == [i \in from .. n |-> IF i = n THEN ReadNext(t, h[n - 1], n) ELSE h[i]]
  <2>3. \A i \in from .. n - 1 : f[i] = h[i]
    BY <2>1
  <2>4. ASSUME NEW i \in from .. n
        PROVE  f[i] = IF i = from THEN ReadStart(opening) ELSE ReadNext(t, f[i - 1], i)
    <3>1. CASE i = n
      <4>1. f[i] = ReadNext(t, h[n - 1], n) /\ f[n - 1] = h[n - 1] /\ i # from
        BY <1>4, <2>1, <2>3, <3>1
      <4> HIDE DEF f
      <4> QED
        BY <3>1, <4>1
    <3>2. CASE i # n /\ i # from
      <4>1. i \in from .. n - 1 /\ i - 1 \in from .. n - 1
        BY <2>1, <3>2
      <4>2. f[i] = h[i] /\ f[i - 1] = h[i - 1]
        BY <2>3, <4>1
      <4>3. h[i] = ReadNext(t, h[i - 1], i)
        BY <2>2, <3>2, <4>1 DEF AreRead
      <4> HIDE DEF f
      <4> QED
        BY <3>2, <4>2, <4>3
    <3>3. CASE i = from
      <4>1. i \in from .. n - 1
        BY <2>1, <3>3
      <4>2. f[i] = h[i]
        BY <2>3, <4>1
      <4>3. h[i] = ReadStart(opening)
        BY <2>2, <3>3, <4>1 DEF AreRead
      <4> HIDE DEF f
      <4> QED
        BY <3>3, <4>2, <4>3
    <3> QED
      BY <3>1, <3>2, <3>3
  <2>5. f = [i \in from .. n |-> f[i]]
    OBVIOUS
  <2> HIDE DEF f
  <2>6. AreRead(f, t, from, opening, n)
    BY <2>4, <2>5 DEF AreRead
  <2> QED
    BY <2>6
<1> QED
  BY <1>3, <1>4

LEMMA ReadingGood ==
  ASSUME NEW t, NEW from \in Nat, NEW opening \in Board, NEW last \in Nat, from <= last,
         NEW f, AreRead(f, t, from, opening, last)
  PROVE  \A i \in from .. last : ReadGood(opening, f[i])
<1> DEFINE Bad == {n \in from .. last : ~ReadGood(opening, f[n])}
<1> SUFFICES ASSUME Bad # {} PROVE FALSE
  OBVIOUS
<1>1. Bad \in SUBSET Nat
  OBVIOUS
<1>2. PICK n \in Bad : \A m \in Bad : n <= m
  <2> HIDE DEF Bad
  <2> QED
    BY <1>1, LeastOf
<1>3. f[n] = IF n = from THEN ReadStart(opening) ELSE ReadNext(t, f[n - 1], n)
  BY DEF AreRead
<1>4. CASE n = from
  BY <1>3, <1>4, ReadStartGood
<1>5. CASE n # from
  <2>1. n \in Nat \ {0} /\ n - 1 \in from .. last /\ ~(n <= n - 1)
    BY <1>5
  <2>2. ReadGood(opening, f[n - 1])
    BY <1>2, <2>1
  <2>3. ReadGood(opening, ReadNext(t, f[n - 1], n))
    BY <2>1, <2>2, ReadNextGood
  <2> QED
    BY <1>3, <1>5, <2>3
<1> QED
  BY <1>4, <1>5

LEMMA MovesReadGood ==
  ASSUME NEW t \in Seq(Item), NEW from \in 1 .. Len(t) + 1, NEW opening \in Board
  PROVE  ReadGood(opening, MovesRead(t, from, opening))
<1> DEFINE last == Len(t) + 1
           made == CHOOSE f : AreRead(f, t, from, opening, last)
<1>1. from \in Nat /\ last \in Nat /\ from <= last /\ last \in from .. last
  OBVIOUS
<1>2. MovesRead(t, from, opening) = made[last]
  BY DEF MovesRead, AreRead, ReadStart, ReadNext
<1>3. AreRead(made, t, from, opening, last)
  <2> HIDE DEF last
  <2>1. \E f : AreRead(f, t, from, opening, last)
    BY <1>1, ReadingExists
  <2> QED
    BY <2>1
<1> HIDE DEF made, last
<1>4. ReadGood(opening, made[last])
  BY <1>1, <1>3, ReadingGood
<1> QED
  BY <1>2, <1>4

\* A game that parse() may return: its moves are legal through its boards.
GoodGames == [opening: Board, moves: Seq(Moves)]
GoodGame(g) ==
  /\ g \in GoodGames
  /\ LegalThrough(g.opening, g.moves, BoardsOf(g.opening, g.moves))

\* The last of some items.
LEMMA LastOf ==
  ASSUME NEW n \in Nat, NEW S \in SUBSET (1 .. n), S # {}
  PROVE  \E i \in S : \A j \in S : j <= i
<1> DEFINE T == {k \in 0 .. n : n - k \in S}
<1>1. T \in SUBSET Nat
  OBVIOUS
<1>2. T # {}
  <2>1. PICK i \in S : TRUE
    OBVIOUS
  <2>2. i \in 1 .. n /\ n - i \in 0 .. n /\ n - (n - i) = i
    OBVIOUS
  <2> QED
    BY <2>1, <2>2
<1>3. PICK k \in T : \A l \in T : k <= l
  <2> HIDE DEF T
  <2> QED
    BY <1>1, <1>2, LeastOf
<1>4. ASSUME NEW j \in S
      PROVE  j <= n - k
  <2>1. j \in 1 .. n /\ n - j \in 0 .. n /\ n - (n - j) = j
    OBVIOUS
  <2>2. n - j \in T
    BY <2>1
  <2>3. k <= n - j
    BY <1>3, <2>2
  <2>4. k \in 0 .. n
    OBVIOUS
  <2> QED
    BY <2>1, <2>3, <2>4
<1> QED
  BY <1>4

\* What SelectInSubSeq finds.
LEMMA Selected ==
  ASSUME NEW S, NEW from \in Nat, NEW to \in Nat, S \subseteq from .. to,
         NEW x, x = IF S # {} THEN Min(S) ELSE 0
  PROVE  x = 0 \/ x \in S
<1>1. CASE S # {}
  <2>1. S \in SUBSET Nat
    OBVIOUS
  <2>2. \E m \in S : \A n \in S : m <= n
    BY <1>1, <2>1, LeastOf
  <2> QED
    BY <1>1, <2>2 DEF Min
<1> QED
  BY <1>1

LEMMA ItemIs ==
  ASSUME NEW x \in Item
  PROVE  /\ x.item = "fen" => x.board \in Board
         /\ x.item \in {"tag", "badtag", "badfen", "blank", "note", "result", "fen", "move"}
BY DEF Item

LEMMA OpeningRead ==
  ASSUME NEW t \in Seq(Item), NEW first \in 1 .. Len(t), NEW last \in 0 .. Len(t),
         OpeningTag(t, first, last).item # "badfen"
  PROVE  OpeningTag(t, first, last).board \in Board
<1> DEFINE fens == {i \in first .. last : t[i].item \in {"fen", "badfen"}}
<1>1. CASE fens = {}
  <2>1. [pos |-> Opening, fifty |-> 0] \in Board
    BY BoardAssumption DEF Board
  <2> QED
    BY <1>1, <2>1 DEF OpeningTag
<1>2. CASE fens # {}
  <2>1. fens \in SUBSET (1 .. Len(t)) /\ Len(t) \in Nat
    OBVIOUS
  <2>2. \A i \in fens : t[i].item \in {"fen", "badfen"} /\ t[i] \in Item
    OBVIOUS
  <2>3. OpeningTag(t, first, last) = t[CHOOSE i \in fens : \A j \in fens : j <= i]
    BY <1>2 DEF OpeningTag
  <2> HIDE DEF fens
  <2>4. \E i \in fens : \A j \in fens : j <= i
    BY <1>2, <2>1, LastOf
  <2>5. (CHOOSE i \in fens : \A j \in fens : j <= i) \in fens
    BY <2>4
  <2>6. PICK i \in fens : OpeningTag(t, first, last) = t[i]
    BY <2>3, <2>5
  <2> QED
    BY <2>2, <2>6, ItemIs
<1> QED
  BY <1>1, <1>2

LEMMA ParsedGood ==
  ASSUME NEW t \in Seq(Item)
  PROVE  Parsed(t).consumed \in Nat /\ (Parsed(t).ok => GoodGame(Parsed(t).game))
<1> DEFINE Bad(x) == x.item = "badtag" \/ ~IsTag(x)
           first == SelectInSubSeq(t, 1, Len(t), IsTag)
           last == SelectInSubSeq(t, first, Len(t), Bad)
           failed(n) == [ok |-> FALSE, consumed |-> n]
           opening == OpeningTag(t, first, last - 1).board
           read == MovesRead(t, last + 1, opening)
           stop == IF read.stop = 0 THEN Len(t) ELSE read.stop
           good == [ok |-> TRUE, consumed |-> stop,
                    game |-> [opening |-> opening, moves |-> read.moves]]
<1>0. Len(t) \in Nat
  OBVIOUS
<1>1. first = 0 \/ first \in 1 .. Len(t)
  <2> DEFINE S == {i \in 1 .. Len(t) : IsTag(t[i])}
  <2>1. S \subseteq 1 .. Len(t) /\ first = IF S # {} THEN Min(S) ELSE 0
    BY DEF SelectInSubSeq
  <2> HIDE DEF S, first
  <2> QED
    BY <1>0, <2>1, Selected
<1>2. first # 0 => last = 0 \/ last \in first .. Len(t)
  <2> DEFINE S == {i \in first .. Len(t) : Bad(t[i])}
  <2>1. S \subseteq first .. Len(t) /\ last = IF S # {} THEN Min(S) ELSE 0
    BY DEF SelectInSubSeq
  <2> HIDE DEF S, first, last
  <2>2. ASSUME first # 0 PROVE last = 0 \/ last \in S
    <3>1. first \in Nat
      BY <1>1, <2>2
    <3> QED
      BY <1>0, <2>1, <3>1, Selected
  <2> QED
    BY <2>1, <2>2
<1>3. Parsed(t) =
        IF first = 0 \/ last = 0 THEN failed(Len(t))
        ELSE IF IsTag(t[last]) THEN failed(last)
        ELSE IF OpeningTag(t, first, last - 1).item = "badfen" THEN failed(last)
        ELSE IF read.stop > 0 /\ t[stop].item # "result" THEN failed(stop)
        ELSE good
  BY DEF Parsed
<1> HIDE DEF first, last
<1>4. CASE Parsed(t) = failed(Len(t)) \/ (first # 0 /\ last # 0 /\ Parsed(t) = failed(last))
  <2>1. \A n : failed(n).consumed = n /\ failed(n).ok = FALSE
    OBVIOUS
  <2>2. first # 0 /\ last # 0 => last \in Nat
    BY <1>0, <1>1, <1>2
  <2> HIDE DEF failed
  <2> QED
    BY <1>0, <1>4, <2>1, <2>2
<1>5. CASE /\ first # 0 /\ last # 0 /\ OpeningTag(t, first, last - 1).item # "badfen"
           /\ Parsed(t) = failed(stop) \/ Parsed(t) = good
  <2>1. first \in 1 .. Len(t) /\ last \in first .. Len(t) /\ last - 1 \in 0 .. Len(t)
        /\ last + 1 \in 1 .. Len(t) + 1
    BY <1>0, <1>1, <1>2, <1>5
  <2>2. opening \in Board
    BY <1>5, <2>1, OpeningRead
  <2> HIDE DEF opening
  <2>3. ReadGood(opening, read)
    BY <2>1, <2>2, MovesReadGood
  <2> HIDE DEF read
  <2>4. PICK bs : LegalThrough(opening, read.moves, bs)
    BY <2>3 DEF ReadGood
  <2>5. BoardsOf(opening, read.moves) = bs
    BY <2>4, BoardsAre
  <2>6. read.moves \in Seq(Moves) /\ read.stop \in Nat
    BY <2>3 DEF ReadGood, ReadStates
  <2>7. stop \in Nat
    BY <1>0, <2>6
  <2>8. GoodGame([opening |-> opening, moves |-> read.moves])
    BY <2>2, <2>4, <2>5, <2>6 DEF GoodGame, GoodGames
  <2> HIDE DEF stop
  <2> QED
    BY <1>5, <2>7, <2>8
<1> QED
  BY <1>3, <1>4, <1>5

-----------------------------------------------------------------------------
(* Counting their moves. *)

\* Where a move is played in a position of some key, in the first d + 1 moves of
\* one game, and in all games.
PlaysIn(d, game, k, m) ==
  {i \in 1 .. Len(game.moves) :
     /\ d > 0 => i <= d + 1
     /\ game.moves[i] = m
     /\ Key[BoardsOf(game.opening, game.moves)[i - 1].pos] = k}
Plays(gs, d, k, m) == UNION {{g} \X PlaysIn(d, gs[g], k, m) : g \in DOMAIN gs}

LEMMA CountedAre ==
  ASSUME depth \in Nat, NEW game \in GoodGames, NEW k, NEW m
  PROVE  /\ CountedIn(game, k, m) = PlaysIn(depth, game, k, m)
         /\ PlaysIn(depth, game, k, m) \subseteq 1 .. Len(game.moves)
         /\ Len(game.moves) \in Nat
         /\ IsFiniteSet(PlaysIn(depth, game, k, m))
<1>1. Len(game.moves) \in Nat
  BY DEF GoodGames
<1>2. Counted(game) = {i \in 1 .. Len(game.moves) : depth > 0 => i <= depth + 1}
  BY <1>1 DEF Counted
<1>3. IsFiniteSet(1 .. Len(game.moves))
  BY <1>1, FS_Interval, 1 \in Int
<1>4. PlaysIn(depth, game, k, m) \subseteq 1 .. Len(game.moves)
  BY DEF PlaysIn
<1> QED
  BY <1>1, <1>2, <1>3, <1>4, FS_Subset DEF CountedIn, PlaysIn

\* One game more.
LEMMA MorePlays ==
  ASSUME NEW gs \in Seq(GoodGames), NEW game \in GoodGames, NEW d, NEW k, NEW m,
         IsFiniteSet(Plays(gs, d, k, m)), IsFiniteSet(PlaysIn(d, game, k, m))
  PROVE  /\ IsFiniteSet(Plays(Append(gs, game), d, k, m))
         /\ Cardinality(Plays(Append(gs, game), d, k, m))
              = Cardinality(Plays(gs, d, k, m)) + Cardinality(PlaysIn(d, game, k, m))
<1> DEFINE n == Len(gs)
           hs == Append(gs, game)
           new == {n + 1} \X PlaysIn(d, game, k, m)
<1>1. /\ n \in Nat /\ DOMAIN gs = 1 .. n /\ DOMAIN hs = 1 .. n + 1
      /\ \A i \in 1 .. n : hs[i] = gs[i]
      /\ hs[n + 1] = game
  BY AppendProperties
<1> HIDE DEF n, hs
<1>2. Plays(hs, d, k, m) = Plays(gs, d, k, m) \cup new
  <2>1. \A g \in DOMAIN hs : g \in DOMAIN gs \/ g = n + 1
    BY <1>1
  <2>2. \A g \in DOMAIN gs : g \in DOMAIN hs /\ hs[g] = gs[g]
    BY <1>1
  <2>3. n + 1 \in DOMAIN hs
    BY <1>1
  <2> QED
    BY <1>1, <2>1, <2>2, <2>3 DEF Plays
<1>3. Plays(gs, d, k, m) \cap new = {}
  BY <1>1 DEF Plays
<1>4. IsFiniteSet(new) /\ Cardinality(new) = Cardinality(PlaysIn(d, game, k, m))
  <2>1. IsFiniteSet({n + 1}) /\ Cardinality({n + 1}) = 1
    BY FS_Singleton
  <2>2. /\ IsFiniteSet(new)
        /\ Cardinality(new) = Cardinality({n + 1}) * Cardinality(PlaysIn(d, game, k, m))
    BY <2>1, FS_Product
  <2>3. Cardinality(PlaysIn(d, game, k, m)) \in Nat
    BY FS_CardinalityType
  <2> QED
    BY <2>1, <2>2, <2>3
<1>5. Cardinality(Plays(gs, d, k, m)) \in Nat /\ Cardinality(new) \in Nat /\ Cardinality({}) = 0
  BY <1>4, FS_CardinalityType, FS_EmptySet
<1>6. /\ IsFiniteSet(Plays(gs, d, k, m) \cup new)
      /\ Cardinality(Plays(gs, d, k, m) \cup new) =
           Cardinality(Plays(gs, d, k, m)) + Cardinality(new) - Cardinality(Plays(gs, d, k, m) \cap new)
  <2> HIDE DEF new
  <2> QED
    BY <1>4, FS_Union
<1> HIDE DEF new
<1>7. /\ IsFiniteSet(Plays(hs, d, k, m))
      /\ Cardinality(Plays(hs, d, k, m)) =
           Cardinality(Plays(gs, d, k, m)) + Cardinality(new) - 0
  BY <1>2, <1>3, <1>5, <1>6
<1>8. Cardinality(Plays(gs, d, k, m)) + Cardinality(new) - 0
        = Cardinality(Plays(gs, d, k, m)) + Cardinality(PlaysIn(d, game, k, m))
  BY <1>4, <1>5
<1> QED
  BY <1>7, <1>8 DEF hs

LEMMA NoPlays ==
  ASSUME NEW d, NEW k, NEW m
  PROVE  IsFiniteSet(Plays(<<>>, d, k, m)) /\ Cardinality(Plays(<<>>, d, k, m)) = 0
<1>1. Plays(<<>>, d, k, m) = {}
  BY DEF Plays
<1> QED
  BY <1>1, FS_EmptySet

\* The map counts the games that have been read.
TallyInv ==
  /\ text \in Seq(Item) /\ depth \in Nat /\ min_move_count \in Nat
  /\ games \in Seq(GoodGames) /\ \A g \in DOMAIN games : GoodGame(games[g])
  /\ pgnmap \in [Keys -> [Moves -> Nat]]
  /\ \A k \in Keys : \A m \in Moves :
       /\ IsFiniteSet(Plays(games, depth, k, m))
       /\ pgnmap[k][m] = Cardinality(Plays(games, depth, k, m))
  /\ \A k \in Keys : IsFiniteSet({m \in Moves : pgnmap[k][m] > 0})

LEMMA TallyEmpty ==
  ASSUME text \in Seq(Item), depth \in Nat, min_move_count \in Nat,
         games = <<>>, pgnmap = [k \in Keys |-> [m \in Moves |-> 0]]
  PROVE  TallyInv
<1>1. games \in Seq(GoodGames) /\ DOMAIN games = {}
  OBVIOUS
<1>2. pgnmap \in [Keys -> [Moves -> Nat]] /\ \A k \in Keys : \A m \in Moves : pgnmap[k][m] = 0
  OBVIOUS
<1>3. \A k \in Keys : {m \in Moves : pgnmap[k][m] > 0} = {}
  BY <1>2
<1> QED
  BY <1>1, <1>2, <1>3, NoPlays, FS_EmptySet DEF TallyInv

LEMMA TallyReads ==
  ASSUME TallyInv, ReadGame
  PROVE  TallyInv'
<1> DEFINE parsed == Parsed(text)
           game == parsed.game
<1>1. /\ text' = SubSeq(text, parsed.consumed + 1, Len(text))
      /\ depth' = depth /\ min_move_count' = min_move_count
      /\ IF parsed.ok
           THEN /\ games' = Append(games, game)
                /\ pgnmap' = [k \in Keys |-> [m \in Moves |->
                     pgnmap[k][m] + Cardinality(CountedIn(game, k, m))]]
           ELSE games' = games /\ pgnmap' = pgnmap
  BY DEF ReadGame
<1>2. text \in Seq(Item) /\ parsed.consumed \in Nat /\ (parsed.ok => GoodGame(game))
  BY ParsedGood DEF TallyInv
<1> HIDE DEF parsed
<1>3. text' \in Seq(Item)
  <2>1. \A i \in parsed.consumed + 1 .. Len(text) : text[i] \in Item
    BY <1>2
  <2> QED
    BY <1>1, <1>2, <2>1, SubSeqProperties
<1>4. CASE ~parsed.ok
  BY <1>1, <1>3, <1>4 DEF TallyInv
<1>5. CASE parsed.ok
  <2> HIDE DEF game
  <2>1. game \in GoodGames /\ GoodGame(game) /\ depth \in Nat /\ games \in Seq(GoodGames)
    BY <1>2, <1>5 DEF GoodGame, TallyInv
  <2>2. games' \in Seq(GoodGames) /\ \A g \in DOMAIN games' : GoodGame(games'[g])
    <3>1. /\ games' = Append(games, game) /\ games' \in Seq(GoodGames)
          /\ Len(games') = Len(games) + 1 /\ Len(games) \in Nat
          /\ \A i \in 1 .. Len(games) : games'[i] = games[i]
          /\ games'[Len(games) + 1] = game
      BY <1>1, <1>5, <2>1, AppendProperties
    <3>2. \A g \in DOMAIN games' : (g \in DOMAIN games /\ games'[g] = games[g]) \/ g = Len(games) + 1
      BY <2>1, <3>1
    <3> QED
      BY <2>1, <3>1, <3>2 DEF TallyInv
  <2>3. ASSUME NEW k \in Keys, NEW m \in Moves
        PROVE  /\ Cardinality(CountedIn(game, k, m)) = Cardinality(PlaysIn(depth, game, k, m))
               /\ Cardinality(CountedIn(game, k, m)) \in Nat
               /\ pgnmap[k][m] \in Nat
               /\ IsFiniteSet(Plays(games', depth', k, m))
               /\ Cardinality(Plays(games', depth', k, m))
                    = pgnmap[k][m] + Cardinality(CountedIn(game, k, m))
    <3>1. /\ CountedIn(game, k, m) = PlaysIn(depth, game, k, m)
          /\ IsFiniteSet(PlaysIn(depth, game, k, m))
      BY <2>1, CountedAre
    <3>2. /\ IsFiniteSet(Plays(games, depth, k, m)) /\ pgnmap[k][m] \in Nat
          /\ pgnmap[k][m] = Cardinality(Plays(games, depth, k, m))
      BY DEF TallyInv
    <3>3. games' = Append(games, game) /\ depth' = depth
      BY <1>1, <1>5
    <3>4. /\ IsFiniteSet(Plays(Append(games, game), depth, k, m))
          /\ Cardinality(Plays(Append(games, game), depth, k, m))
               = Cardinality(Plays(games, depth, k, m)) + Cardinality(PlaysIn(depth, game, k, m))
      BY <2>1, <3>1, <3>2, MorePlays
    <3> QED
      BY <3>1, <3>2, <3>3, <3>4, FS_CardinalityType
  <2>4. pgnmap' = [k \in Keys |-> [m \in Moves |->
                     pgnmap[k][m] + Cardinality(CountedIn(game, k, m))]]
    BY <1>1, <1>5
  <2>5. pgnmap' \in [Keys -> [Moves -> Nat]]
    BY <2>3, <2>4
  <2>6. \A k \in Keys : \A m \in Moves :
          pgnmap'[k][m] = pgnmap[k][m] + Cardinality(CountedIn(game, k, m))
    BY <2>4
  <2>7. ASSUME NEW k \in Keys
        PROVE  IsFiniteSet({m \in Moves : pgnmap'[k][m] > 0})
    <3> DEFINE before == {m \in Moves : pgnmap[k][m] > 0}
               named == {game.moves[i] : i \in 1 .. Len(game.moves)}
    <3>1. IsFiniteSet(before)
      BY DEF TallyInv
    <3>2. Len(game.moves) \in Nat
      BY <2>1 DEF GoodGames
    <3>3. IsFiniteSet(named)
      <4>1. IsFiniteSet(1 .. Len(game.moves))
        BY <3>2, FS_Interval, 1 \in Int
      <4> DEFINE f == [i \in 1 .. Len(game.moves) |-> game.moves[i]]
      <4>2. f \in Surjection(1 .. Len(game.moves), named)
        BY DEF Surjection
      <4> HIDE DEF f, named
      <4> QED
        BY <4>1, <4>2, FS_Surjection
    <3>4. ASSUME NEW m \in Moves, pgnmap'[k][m] > 0, m \notin before
          PROVE  m \in named
      <4>1. /\ pgnmap[k][m] = 0
            /\ pgnmap[k][m] \in Nat /\ Cardinality(CountedIn(game, k, m)) \in Nat
        BY <2>3, <3>4
      <4>2. Cardinality(CountedIn(game, k, m)) # 0
        BY <2>6, <3>4, <4>1
      <4>3. CountedIn(game, k, m) # {}
        BY <4>2, FS_EmptySet
      <4>4. CountedIn(game, k, m) = PlaysIn(depth, game, k, m)
        BY <2>1, CountedAre
      <4> QED
        BY <4>3, <4>4 DEF PlaysIn
    <3> HIDE DEF before, named
    <3>5. {m \in Moves : pgnmap'[k][m] > 0} \subseteq before \cup named
      BY <3>4
    <3>6. IsFiniteSet(before \cup named)
      BY <3>1, <3>3, FS_Union
    <3> QED
      BY <3>5, <3>6, FS_Subset
  <2> QED
    BY <1>1, <1>3, <2>2, <2>3, <2>5, <2>6, <2>7 DEF TallyInv
<1> QED
  BY <1>4, <1>5

LEMMA TallyInit == BookInit => TallyInv
<1> SUFFICES ASSUME BookInit PROVE TallyInv
  OBVIOUS
<1>1. text = <<>> /\ depth = 0 /\ min_move_count = 0
      /\ games = <<>> /\ pgnmap = [k \in Keys |-> [m \in Moves |-> 0]]
  BY DEF BookInit
<1>2. text \in Seq(Item) /\ depth \in Nat /\ min_move_count \in Nat
  BY <1>1
<1> QED
  BY <1>1, <1>2, TallyEmpty

LEMMA TallyStep == TallyInv /\ [BookNext]_<<vars, bookVars>> => TallyInv'
<1> SUFFICES ASSUME TallyInv, [BookNext]_<<vars, bookVars>> PROVE TallyInv'
  OBVIOUS
<1>1. CASE UNCHANGED <<text, depth, min_move_count, games, pgnmap>>
  BY <1>1 DEF TallyInv
<1>2. CASE CreateBook
  <2>1. /\ text' \in Texts /\ depth' \in Depths /\ min_move_count' \in MinCounts
        /\ games' = <<>> /\ pgnmap' = [k \in Keys |-> [m \in Moves |-> 0]]
    BY <1>2 DEF CreateBook
  <2>2. text' \in Seq(Item) /\ depth' \in Nat /\ min_move_count' \in Nat
    BY <2>1, BookAssumption
  <2>3. games' \in Seq(GoodGames) /\ DOMAIN games' = {}
    BY <2>1
  <2>4. pgnmap' \in [Keys -> [Moves -> Nat]] /\ \A k \in Keys : \A m \in Moves : pgnmap'[k][m] = 0
    BY <2>1
  <2>5. \A k \in Keys : {m \in Moves : pgnmap'[k][m] > 0} = {}
    BY <2>4
  <2>6. \A k, m : /\ IsFiniteSet(Plays(games', depth', k, m))
                  /\ Cardinality(Plays(games', depth', k, m)) = 0
    BY <2>1, NoPlays
  <2> QED
    BY <2>2, <2>3, <2>4, <2>5, <2>6, FS_EmptySet DEF TallyInv
<1>3. CASE ReadGame
  BY <1>3, TallyReads
<1>4. CASE GamesRead \/ GroupMoves \/ NewFile \/ Put \/ PutCrash \/ BookCreated
  BY <1>1, <1>4 DEF GamesRead, GroupMoves, NewFile, Put, PutCrash, BookCreated
<1>5. CASE OpenBook \/ CloseBook \/ EngineMove \/ GameStep \/ UNCHANGED bookVars
  BY <1>1, <1>5 DEF OpenBook, CloseBook, EngineMove, GameStep, bookVars
<1> QED
  BY <1>2, <1>3, <1>4, <1>5 DEF BookNext, vars

-----------------------------------------------------------------------------
(* The entries, the file and the book. *)

\* An entry has moves that are played most often for its key; a slot of the file
\* has an entry or nothing, and the book that is open is the file.
EntryMade(k) ==
  /\ k \in Keys
  /\ \E S \in Grouped(k) : S # {} /\ book_entries[k] = EntryOf(k, S)
FileInv ==
  /\ bookpc \in {"none", "read"} => book_entries = <<>>
  /\ \A k \in DOMAIN book_entries : EntryMade(k)
  /\ bookpc \in {"write", "made"} =>
       /\ \E n \in Nat : DOMAIN file = 0 .. n - 1
       /\ \A s \in DOMAIN file :
            file[s] = NoEntry \/ \E k \in DOMAIN book_entries : file[s] = book_entries[k]
       /\ written \subseteq DOMAIN book_entries
       /\ Size(file) = 1 => written = {}
  /\ book = <<>> \/ (bookpc = "made" /\ book = file)

LEMMA FileInit == BookInit => FileInv
BY DEF BookInit, FileInv

LEMMA EntriesKept ==
  ASSUME UNCHANGED <<book_entries, pgnmap, min_move_count>>,
         \A k \in DOMAIN book_entries : EntryMade(k)
  PROVE  \A k \in DOMAIN book_entries' : EntryMade(k)'
<1>1. \A k : Grouped(k)' = Grouped(k) /\ \A R : EntryOf(k, R)' = EntryOf(k, R)
  BY DEF Grouped, EntryOf
<1>2. book_entries' = book_entries
  OBVIOUS
<1> QED
  BY <1>1, <1>2 DEF EntryMade

\* What changes neither entries nor file nor the counts keeps the invariant.
LEMMA FileKept ==
  ASSUME FileInv, UNCHANGED <<book_entries, pgnmap, min_move_count, file, written>>,
         bookpc' = bookpc \/ (bookpc = "write" /\ bookpc' \in {"made", "crashed"}),
         book' = book \/ book' = <<>> \/ (bookpc = "made" /\ book' = file)
  PROVE  FileInv'
<1>1. \A k \in DOMAIN book_entries' : EntryMade(k)'
  BY EntriesKept DEF FileInv
<1> QED
  BY <1>1 DEF FileInv, Size

LEMMA FileStep == BookInv /\ FileInv /\ [BookNext]_<<vars, bookVars>> => FileInv'
<1> SUFFICES ASSUME BookInv, FileInv, [BookNext]_<<vars, bookVars>> PROVE FileInv'
  OBVIOUS
<1>1. CASE PutCrash \/ BookCreated \/ OpenBook \/ CloseBook
  BY <1>1, FileKept DEF PutCrash, BookCreated, OpenBook, CloseBook
<1>2. CASE EngineMove \/ GameStep \/ UNCHANGED bookVars
  <2>1. UNCHANGED bookVars
    BY <1>2 DEF EngineMove, GameStep
  <2> QED
    BY <2>1, FileKept DEF bookVars
<1>3. CASE CreateBook \/ ReadGame \/ GamesRead
  <2>1. /\ bookpc \in {"none", "read"} /\ bookpc' \in {"read", "group"}
        /\ book_entries' = <<>> /\ book' = book
    BY <1>3 DEF CreateBook, ReadGame, GamesRead, AtStart, FileInv
  <2>2. DOMAIN book_entries' = {} /\ book' = <<>>
    BY <2>1 DEF FileInv
  <2> QED
    BY <2>1, <2>2 DEF FileInv
<1>4. CASE GroupMoves
  <2> DEFINE k == NextKey(todo)
  <2>1. PICK S \in Grouped(k) :
          book_entries' = IF S = {} THEN book_entries
                          ELSE [l \in DOMAIN book_entries \union {k} |->
                                  IF l = k THEN EntryOf(k, S) ELSE book_entries[l]]
    BY <1>4 DEF GroupMoves
  <2>2. /\ bookpc = "group" /\ bookpc' = bookpc /\ book' = book /\ todo # {}
        /\ pgnmap' = pgnmap /\ min_move_count' = min_move_count
    BY <1>4 DEF GroupMoves
  <2>3. k \in todo /\ k \in Keys
    BY <2>2, KeysAreNumbers, NextKeyIn DEF BookInv
  <2>4. book' = <<>>
    BY <2>2 DEF FileInv
  <2> HIDE DEF k
  <2>5. \A l : Grouped(l)' = Grouped(l) /\ \A R : EntryOf(l, R)' = EntryOf(l, R)
    BY <2>2 DEF Grouped, EntryOf
  <2>6. ASSUME NEW l \in DOMAIN book_entries'
        PROVE  EntryMade(l)'
    <3>1. CASE l \in DOMAIN book_entries /\ book_entries'[l] = book_entries[l]
      <4>1. EntryMade(l)
        BY <3>1 DEF FileInv
      <4> QED
        BY <2>5, <3>1, <4>1 DEF EntryMade
    <3>2. CASE S # {} /\ l = k /\ book_entries'[l] = EntryOf(k, S)
      BY <2>1, <2>3, <2>5, <3>2 DEF EntryMade
    <3> QED
      BY <2>1, <3>1, <3>2
  <2> QED
    BY <2>2, <2>4, <2>6 DEF FileInv
<1>5. CASE NewFile
  <2> DEFINE n == (Cardinality(DOMAIN book_entries) * 11) \div 10
  <2>1. /\ bookpc = "group" /\ bookpc' = "write" /\ written' = {}
        /\ book_entries' = book_entries /\ pgnmap' = pgnmap /\ min_move_count' = min_move_count
        /\ file' = [s \in 0 .. n - 1 |-> NoEntry] /\ book' = book
    BY <1>5 DEF NewFile
  <2>2. n \in Nat
    <3>1. Cardinality(DOMAIN book_entries) \in Nat
      BY <2>1, FS_CardinalityType DEF BookInv
    <3> QED
      BY <3>1
  <2> HIDE DEF n
  <2>3. DOMAIN file' = 0 .. n - 1 /\ \A s \in DOMAIN file' : file'[s] = NoEntry
    BY <2>1
  <2>4. \A k \in DOMAIN book_entries' : EntryMade(k)'
    BY <2>1, EntriesKept DEF FileInv
  <2>5. book' = <<>>
    BY <2>1 DEF FileInv
  <2> QED
    BY <2>1, <2>2, <2>3, <2>4, <2>5 DEF FileInv, NoEntry
<1>6. CASE Put
  <2> DEFINE k == NextKey(todo)
             slots == {hashfunc(file, k, i) : i \in {i \in Attempts(file) : FirstStop(file, k, i)}}
  <2>1. /\ bookpc = "write" /\ bookpc' = bookpc /\ todo # {} /\ book' = book
        /\ book_entries' = book_entries /\ pgnmap' = pgnmap /\ min_move_count' = min_move_count
        /\ file' = [s \in DOMAIN file |-> IF s \in slots THEN book_entries[k] ELSE file[s]]
        /\ written' = IF slots = {} THEN written ELSE written \union {k}
    BY <1>6 DEF Put
  <2>2. k \in todo /\ k \in DOMAIN book_entries
    <3>1. todo \in SUBSET Nat /\ todo # {}
      BY <2>1, KeysAreNumbers DEF BookInv
    <3> QED
      BY <2>1, <3>1, NextKeyIn DEF BookInv
  <2> HIDE DEF k, slots
  <2>3. DOMAIN file' = DOMAIN file
        /\ \A s \in DOMAIN file : file'[s] = book_entries[k] \/ file'[s] = file[s]
    BY <2>1
  <2>4. \A s \in DOMAIN file' :
          file'[s] = NoEntry \/ \E l \in DOMAIN book_entries' : file'[s] = book_entries'[l]
    BY <2>1, <2>2, <2>3 DEF FileInv
  <2>5. \A l \in DOMAIN book_entries' : EntryMade(l)'
    BY <2>1, EntriesKept DEF FileInv
  <2>6. written' \subseteq DOMAIN book_entries' /\ book' = <<>> /\ Size(file') # 1
    BY <1>6, <2>1, <2>2, <2>3 DEF FileInv, Put, Size
  <2> QED
    BY <2>1, <2>3, <2>4, <2>5, <2>6 DEF FileInv, NoEntry
<1> QED
  BY <1>1, <1>2, <1>3, <1>4, <1>5, <1>6 DEF BookNext

-----------------------------------------------------------------------------
(* What the book tells. *)

\* All that is offered in a position is of the one entry that lookup() finds.
LEMMA OneEntry ==
  ASSUME FileInv, NEW p \in Positions, NEW e \in Range(book), Lookup(book, p, e)
  PROVE  /\ Offered(book, p) = DOMAIN e.count
         /\ \E S \in Grouped(Key[p]) : S # {} /\ e = EntryOf(Key[p], S)
<1>1. PICK i \in Attempts(book) :
        /\ FirstStop(book, Key[p], i) /\ e = book[hashfunc(book, Key[p], i)] /\ ~IsEmpty(e)
  BY DEF Lookup
<1>2. bookpc = "made" /\ book = file
  <2>1. Range(<<>>) = {}
    BY DEF Range
  <2> QED
    BY <2>1 DEF FileInv
<1>3. PICK n \in Nat : DOMAIN book = 0 .. n - 1
  BY <1>2 DEF FileInv
<1>4. ASSUME NEW d \in Range(book), Lookup(book, p, d)
      PROVE  d = e
  <2>1. PICK j \in Attempts(book) : FirstStop(book, Key[p], j) /\ d = book[hashfunc(book, Key[p], j)]
    BY <1>4 DEF Lookup
  <2>2. j = i
    BY <1>1, <1>3, <2>1, OneFirstStop
  <2> QED
    BY <1>1, <2>1, <2>2
<1>5. {d \in Range(book) : Lookup(book, p, d)} = {e}
  BY <1>4
<1>6. Offered(book, p) = DOMAIN e.count
  BY <1>5 DEF Offered
<1>7. e # NoEntry
  BY <1>1 DEF NoEntry, IsEmpty
<1>8. PICK k \in DOMAIN book_entries : e = book_entries[k]
  <2>1. PICK s \in DOMAIN book : e = book[s]
    BY DEF Range
  <2> QED
    BY <1>2, <1>7, <2>1 DEF FileInv
<1>9. PICK S \in Grouped(k) : S # {} /\ e = EntryOf(k, S)
  BY <1>8 DEF FileInv, EntryMade
<1>10. e.key = Key[p]
  BY <1>1 DEF FirstStop, StopsAt
<1>11. k = Key[p]
  BY <1>9, <1>10 DEF EntryOf
<1> QED
  BY <1>6, <1>9, <1>11

\* The moves of an entry are those played most often.
LEMMA GroupedAre ==
  ASSUME TallyInv, NEW k \in Keys, NEW S \in Grouped(k)
  PROVE  /\ \A m \in S : m \in Moves /\ pgnmap[k][m] > 0 /\ pgnmap[k][m] >= min_move_count
         /\ \A m \in S, n \in Moves \ S : pgnmap[k][n] <= pgnmap[k][m]
         /\ Cardinality(S) < NrMoves =>
              \A n \in Moves \ S : pgnmap[k][n] = 0 \/ pgnmap[k][n] < min_move_count
<1> DEFINE played == {m \in Moves : pgnmap[k][m] > 0 /\ pgnmap[k][m] >= min_move_count}
<1>1. /\ S \in SUBSET played
      /\ Cardinality(S) = IF Cardinality(played) < NrMoves THEN Cardinality(played) ELSE NrMoves
      /\ \A m \in S, n \in played \ S : pgnmap[k][n] <= pgnmap[k][m]
  BY DEF Grouped
<1>2. min_move_count \in Nat /\ NrMoves \in Nat /\ \A m \in Moves : pgnmap[k][m] \in Nat
  BY BookAssumption DEF TallyInv
<1>3. \A m \in S : m \in Moves /\ pgnmap[k][m] > 0 /\ pgnmap[k][m] >= min_move_count
  BY <1>1
<1>4. \A n \in Moves \ played : pgnmap[k][n] = 0 \/ pgnmap[k][n] < min_move_count
  BY <1>2
<1>5. IsFiniteSet(played)
  <2>1. IsFiniteSet({m \in Moves : pgnmap[k][m] > 0}) /\ played \subseteq {m \in Moves : pgnmap[k][m] > 0}
    BY DEF TallyInv
  <2> HIDE DEF played
  <2> QED
    BY <2>1, FS_Subset
<1> HIDE DEF played
<1>6. ASSUME NEW m \in S, NEW n \in Moves \ S
      PROVE  pgnmap[k][n] <= pgnmap[k][m]
  <2>1. pgnmap[k][n] \in Nat /\ pgnmap[k][m] \in Nat /\ pgnmap[k][m] > 0 /\ pgnmap[k][m] >= min_move_count
    BY <1>2, <1>3
  <2> QED
    BY <1>1, <1>2, <1>4, <2>1
<1>7. Cardinality(S) < NrMoves => S = played
  <2>1. Cardinality(played) \in Nat
    BY <1>5, FS_CardinalityType
  <2>2. Cardinality(S) < NrMoves => Cardinality(played) = Cardinality(S)
    BY <1>1, <1>2, <2>1
  <2> QED
    BY <1>1, <1>5, <2>2, FS_Subset
<1> QED
  BY <1>3, <1>4, <1>6, <1>7

\* How often a move was played, as the map has counted it.
LEMMA TimesAre ==
  ASSUME TallyInv, NEW p \in Positions, NEW m \in Moves
  PROVE  TimesPlayed(p, m) = pgnmap[Key[p]][m]
<1>1. Key[p] \in Keys
  BY DEF Keys
<1>2. UNION {{g} \X {i \in 1 .. Len(games[g].moves) :
               /\ depth > 0 => i <= depth + 1
               /\ games[g].moves[i] = m
               /\ Key[BoardsOf(games[g].opening, games[g].moves)[i - 1].pos] = Key[p]} :
             g \in DOMAIN games}
        = Plays(games, depth, Key[p], m)
  BY DEF Plays, PlaysIn
<1>3. TimesPlayed(p, m) = Cardinality(Plays(games, depth, Key[p], m))
  BY <1>2 DEF TimesPlayed
<1> QED
  BY <1>1, <1>3 DEF TallyInv

\* A move that was played in a position with a key of its own is legal there.
LEMMA PlayedLegal ==
  ASSUME TallyInv, NEW p \in Positions, OwnKey(p), NEW m \in Moves, pgnmap[Key[p]][m] > 0
  PROVE  m \in Legal[p]
<1>1. Key[p] \in Keys
  BY DEF Keys
<1>2. Plays(games, depth, Key[p], m) # {}
  <2>1. Cardinality(Plays(games, depth, Key[p], m)) # 0
    BY <1>1 DEF TallyInv
  <2> QED
    BY <2>1, FS_EmptySet
<1>3. PICK g \in DOMAIN games : PlaysIn(depth, games[g], Key[p], m) # {}
  BY <1>2 DEF Plays
<1> DEFINE game == games[g]
           bs == BoardsOf(game.opening, game.moves)
<1>4. PICK i \in 1 .. Len(game.moves) : game.moves[i] = m /\ Key[bs[i - 1].pos] = Key[p]
  BY <1>3 DEF PlaysIn
<1>5. LegalThrough(game.opening, game.moves, bs)
  BY DEF TallyInv, GoodGame
<1> HIDE DEF bs, game
<1>6. bs[i - 1] \in Board /\ m \in Legal[bs[i - 1].pos]
  <2>1. Len(game.moves) \in Nat
    BY <1>5 DEF LegalThrough
  <2>2. i - 1 \in 0 .. Len(game.moves)
    BY <2>1
  <2> QED
    BY <1>4, <1>5, <2>2 DEF LegalThrough
<1>7. bs[i - 1].pos \in Positions
  BY <1>6 DEF Board
<1>8. bs[i - 1].pos = p
  BY <1>4, <1>7 DEF OwnKey
<1> QED
  BY <1>6, <1>8

LEMMA BookTells ==
  ASSUME BookInv, TallyInv, FileInv
  PROVE  BookTellsTheGames
<1> SUFFICES ASSUME NEW p \in Positions
             PROVE  LET offered == Offered(book, p) IN
                    IF offered = {} THEN book = <<>> \/ Key[p] \notin written \/ ~OwnKey(p)
                    ELSE
                      /\ \A m \in offered :
                           m \in Legal[p] /\ TimesPlayed(p, m) > 0 /\ TimesPlayed(p, m) >= min_move_count
                      /\ \A m \in offered, n \in Moves \ offered : TimesPlayed(p, n) <= TimesPlayed(p, m)
                      /\ Cardinality(offered) < NrMoves =>
                           \A n \in Moves \ offered :
                             TimesPlayed(p, n) = 0 \/ TimesPlayed(p, n) < min_move_count
  BY DEF BookTellsTheGames
<1> DEFINE offered == Offered(book, p)
<1>1. Key[p] \in Keys
  BY DEF Keys
<1>2. CASE offered # {}
  <2>1. PICK e \in Range(book) : Lookup(book, p, e)
    BY <1>2 DEF Offered
  <2>2. PICK S \in Grouped(Key[p]) : offered = S
    BY <2>1, OneEntry DEF EntryOf
  <2>3. offered \subseteq Legal[p]
    BY OfferedLegal
  <2> HIDE DEF offered
  <2>4. /\ \A m \in S : m \in Moves /\ pgnmap[Key[p]][m] > 0 /\ pgnmap[Key[p]][m] >= min_move_count
        /\ \A m \in S, n \in Moves \ S : pgnmap[Key[p]][n] <= pgnmap[Key[p]][m]
        /\ Cardinality(S) < NrMoves =>
             \A n \in Moves \ S : pgnmap[Key[p]][n] = 0 \/ pgnmap[Key[p]][n] < min_move_count
    BY <1>1, GroupedAre
  <2>5. \A m \in Moves : TimesPlayed(p, m) = pgnmap[Key[p]][m]
    BY TimesAre
  <2>6. /\ \A m \in offered :
             m \in Legal[p] /\ TimesPlayed(p, m) > 0 /\ TimesPlayed(p, m) >= min_move_count
        /\ \A m \in offered, n \in Moves \ offered : TimesPlayed(p, n) <= TimesPlayed(p, m)
        /\ Cardinality(offered) < NrMoves =>
             \A n \in Moves \ offered :
               TimesPlayed(p, n) = 0 \/ TimesPlayed(p, n) < min_move_count
    BY <2>2, <2>3, <2>4, <2>5
  <2> QED
    BY <1>2, <2>6 DEF offered
<1>3. ASSUME book # <<>>, Key[p] \in written, OwnKey(p)
      PROVE  offered # {}
  <2> DEFINE k == Key[p]
  <2>1. bookpc = "made" /\ book = file
    BY <1>3 DEF FileInv
  <2>2. PICK i \in Attempts(book) : FirstStop(book, k, i) /\ book[hashfunc(book, k, i)] = book_entries[k]
    BY <1>3, <2>1 DEF BookInv, Found
  <2>3. PICK S \in Grouped(k) : S # {} /\ book_entries[k] = EntryOf(k, S)
    BY <1>3, <2>1 DEF FileInv, EntryMade
  <2> DEFINE e == book_entries[k]
             s == hashfunc(book, k, i)
  <2>4. DOMAIN e.count = S /\ e.key = k /\ ~IsEmpty(e)
    BY <2>3 DEF EntryOf, IsEmpty
  <2>5. S \subseteq Legal[p]
    <3>1. \A m \in S : m \in Moves /\ pgnmap[k][m] > 0
      BY <1>1, GroupedAre
    <3> QED
      BY <1>3, <3>1, PlayedLegal
  <2>6. e \in Range(book)
    <3>1. PICK n \in Nat : DOMAIN book = 0 .. n - 1
      BY <2>1 DEF FileInv
    <3>2. n # 1
      BY <1>3, <2>1, <3>1, SizeOfFile DEF FileInv
    <3>3. k \in Nat
      BY <1>1, KeysAreNumbers
    <3>4. s \in DOMAIN book
      BY <2>2, <3>1, <3>2, <3>3, AttemptInFile
    <3> QED
      BY <2>2, <3>4 DEF Range
  <2>7. Lookup(book, p, e)
    BY <2>2, <2>4, <2>5 DEF Lookup
  <2> QED
    BY <2>3, <2>4, <2>6, <2>7 DEF Offered
<1> QED
  BY <1>2, <1>3

\* What the book offers are legal moves, those that the games have played most
\* often in the position, whatever the files, the order of their games, the keys
\* that collide and the argument depth.
THEOREM BookTellsGames == BookSpec => []BookTellsTheGames
<1>1. BookInit => BookInv /\ TallyInv /\ FileInv
  BY BookInvInit, TallyInit, FileInit
<1>2. BookInv /\ TallyInv /\ FileInv => BookTellsTheGames
  BY BookTells
<1> QED
  BY <1>1, <1>2, BookStep, TallyStep, FileStep, PTL DEF BookSpec
==============================================================================
