-------------------------------- MODULE Book --------------------------------
(***************************************************************************)
(* The opening book (src/src/common/book.cc): a file with a hash table of   *)
(* positions and the moves played in them.  book create makes it from the   *)
(* games of a PGN file (src/src/common/pgn.cc), book open and close attach  *)
(* it to the shell, and Shell::engine_move() plays from it in the game of   *)
(* module Game.                                                            *)
(***************************************************************************)
EXTENDS Game, SequencesExt

CONSTANTS
  Texts,        \* PGN files, sequences of items
  Depths,       \* the argument depth of book create, 0 for whole games
  MinCounts,    \* its argument min_move_count
  Key,          \* get_hashkey(), which positions may share
  NrMoves,      \* NR_MOVES, moves of an entry
  BookMoves     \* bound: moves of a game once a book has been created

\* What PGN::parse() tells apart: the tags and the empty line after them, then
\* moves, notes (numbers, comments, glyphs) and the result.
Item == [item: {"tag", "badtag", "badfen", "blank", "note", "result"}]
          \union [item: {"fen"}, board: Board] \union [item: {"move"}, move: Moves]

ASSUME BookAssumption ==
  /\ Texts \subseteq Seq(Item)
  /\ Depths \subseteq Nat /\ MinCounts \subseteq Nat
  /\ Key \in [Positions -> Nat]
  /\ NrMoves \in Nat \ {0} /\ BookMoves \in Nat

VARIABLES
  bookpc,        \* none, read, group, write, made, or crashed
  text,          \* what is left to be read
  depth, min_move_count,
  games,         \* the games read so far
  pgnmap,        \* how often each move was played, by hash key
  book_entries,  \* the entries made of it, by hash key
  todo,          \* the keys of those not yet put
  written,       \* the keys of those that put() has written
  file,          \* the slots of the book file
  book           \* Shell::book: the slots of the open file, none if there is none

bookVars == <<bookpc, text, depth, min_move_count, games, pgnmap, book_entries,
              todo, written, file, book>>

Keys == {Key[p] : p \in Positions}

\* BookEntry; the order of its moves matters to nobody.
NoEntry == [key |-> 0, count |-> <<>>]
IsEmpty(entry) == DOMAIN entry.count = {}

-----------------------------------------------------------------------------
(* Reading games: PGN::parse(). *)

IsTag(x) == x.item \in {"tag", "badtag", "fen", "badfen"}

\* What is read with the tags from first to last: the last FEN tag counts.
OpeningTag(t, first, last) ==
  LET fens == {i \in first .. last : t[i].item \in {"fen", "badfen"}} IN
  IF fens = {} THEN [item |-> "fen", board |-> [pos |-> Opening, fifty |-> 0]]
  ELSE t[CHOOSE i \in fens : \A j \in fens : j <= i]

\* The moves made from a board, up to the item that ends the game: a result, a
\* tag of the next game, an illegal move, or the end of the file.
MovesRead(t, from, board) ==
  LET made[i \in from .. Len(t) + 1] ==   \* the moves before item i, and the board
        IF i = from THEN [moves |-> <<>>, board |-> board, stop |-> 0]
        ELSE LET before == made[i - 1]
                 x == t[i - 1]
             IN  IF before.stop > 0 \/ x.item \in {"blank", "note"} THEN before
                 ELSE IF x.item = "move"
                   THEN IF x.move \in Legal[before.board.pos]
                          THEN [before EXCEPT !.moves = Append(@, x.move),
                                              !.board = Played(@, x.move)]
                          ELSE [before EXCEPT !.stop = i - 1]
                 ELSE [before EXCEPT !.stop = i - 1]
  IN  made[Len(t) + 1]

\* parse(): whether a game was read, which, and how many items it has consumed.
Parsed(t) ==
  LET first == SelectInSubSeq(t, 1, Len(t), IsTag)
      Bad(x) == x.item = "badtag" \/ ~IsTag(x)
      last == SelectInSubSeq(t, first, Len(t), Bad)
      failed(n) == [ok |-> FALSE, consumed |-> n]
  IN  IF first = 0 \/ last = 0 THEN failed(Len(t))
      ELSE IF IsTag(t[last]) THEN failed(last)
      ELSE IF OpeningTag(t, first, last - 1).item = "badfen" THEN failed(last)
      ELSE LET opening == OpeningTag(t, first, last - 1).board
               read == MovesRead(t, last + 1, opening)
               stop == IF read.stop = 0 THEN Len(t) ELSE read.stop
           IN  IF read.stop > 0 /\ t[stop].item # "result" THEN failed(stop)
               ELSE [ok |-> TRUE, consumed |-> stop,
                     game |-> [opening |-> opening, moves |-> read.moves]]

-----------------------------------------------------------------------------
(* The file: a hash table with open addressing. *)

Size(slots) == Cardinality(DOMAIN slots)

\* hashfunc()
hashfunc(slots, key, i) ==
  ((key % Size(slots)) + (i * (key % (Size(slots) - 1)))) % Size(slots)

\* The slot that the i-th attempt looks at ends the search for a key.
StopsAt(slots, key, i) ==
  LET entry == slots[hashfunc(slots, key, i)] IN IsEmpty(entry) \/ entry.key = key

\* The attempts made, and the first of them that ends the search, if one does.
Attempts(slots) == 0 .. Size(slots) - 1
FirstStop(slots, key, i) ==
  /\ i \in Attempts(slots)
  /\ StopsAt(slots, key, i)
  /\ \A j \in 0 .. i - 1 : ~StopsAt(slots, key, j)

\* lookup(): the entry found for a position, with moves that are all legal in it.
Lookup(slots, p, entry) ==
  \E i \in Attempts(slots) :
    /\ FirstStop(slots, Key[p], i)
    /\ entry = slots[hashfunc(slots, Key[p], i)]
    /\ ~IsEmpty(entry)
    /\ DOMAIN entry.count \subseteq Legal[p]

\* What the book offers in a position.
Offered(slots, p) ==
  UNION {DOMAIN e.count : e \in {e \in Range(slots) : Lookup(slots, p, e)}}

-----------------------------------------------------------------------------
(* book create *)

\* Commands are executed, and games played, while no book is being created.
InShell == bookpc \in {"none", "made"}

BookInit ==
  /\ Init
  /\ bookpc = "none" /\ text = <<>> /\ depth = 0 /\ min_move_count = 0
  /\ games = <<>> /\ pgnmap = [k \in Keys |-> [m \in Moves |-> 0]]
  /\ book_entries = <<>> /\ todo = {} /\ written = {}
  /\ file = <<>> /\ book = <<>>

\* Bound: one book is created, before the first move.
AtStart == bookpc = "none" /\ entries = <<>> /\ undone_entries = <<>> /\ ~running

CreateBook ==
  /\ AtStart
  /\ text' \in Texts /\ depth' \in Depths /\ min_move_count' \in MinCounts
  /\ games' = <<>> /\ pgnmap' = [k \in Keys |-> [m \in Moves |-> 0]]
  /\ bookpc' = "read"
  /\ UNCHANGED <<book_entries, todo, written, file, book>>

\* The moves of a game that are counted: one more than depth.
Counted(game) ==
  IF depth > 0 /\ Len(game.moves) > depth THEN 1 .. depth + 1 ELSE 1 .. Len(game.moves)

\* The boards of a game, the opening at 0.
BoardsOf(opening, moves) ==
  LET board[i \in 0 .. Len(moves)] ==
        IF i = 0 THEN opening ELSE Played(board[i - 1], moves[i])
  IN  board

\* Fault: a move is counted for the position that it leads to.
CountedInFault(game, k, m) ==
  {i \in Counted(game) :
     game.moves[i] = m /\ Key[BoardsOf(game.opening, game.moves)[i].pos] = k}

\* The moves m of a game that are counted for a key.
CountedIn(game, k, m) ==
  {i \in Counted(game) :
     game.moves[i] = m /\ Key[BoardsOf(game.opening, game.moves)[i - 1].pos] = k}

ReadGame ==
  /\ bookpc = "read" /\ text # <<>>
  /\ LET parsed == Parsed(text) IN
       /\ text' = SubSeq(text, parsed.consumed + 1, Len(text))
       /\ IF parsed.ok
            THEN /\ games' = Append(games, parsed.game)
                 /\ pgnmap' = [k \in Keys |-> [m \in Moves |->
                      pgnmap[k][m] + Cardinality(CountedIn(parsed.game, k, m))]]
            ELSE UNCHANGED <<games, pgnmap>>
  /\ UNCHANGED <<bookpc, depth, min_move_count, book_entries, todo, written, file, book>>

\* group_moves() and what BookEntry takes of it: the moves played most often;
\* which of several that were played equally often is the sort's choice.
Grouped(k) ==
  LET played == {m \in Moves : pgnmap[k][m] > 0 /\ pgnmap[k][m] >= min_move_count}
  IN  {S \in SUBSET played :
         /\ Cardinality(S) = IF Cardinality(played) < NrMoves THEN Cardinality(played)
                             ELSE NrMoves
         /\ \A m \in S, n \in played \ S : pgnmap[k][n] <= pgnmap[k][m]}

EntryOf(k, S) == [key |-> k, count |-> [m \in S |-> pgnmap[k][m]]]

\* All games have been read.
GamesRead ==
  /\ bookpc = "read" /\ text = <<>>
  /\ todo' = Keys /\ book_entries' = <<>>
  /\ bookpc' = "group"
  /\ UNCHANGED <<text, depth, min_move_count, games, pgnmap, written, file, book>>

\* The map and the list of entries are in the order of their keys.
NextKey(keys) == CHOOSE k \in keys : \A l \in keys : k <= l

\* An entry for a position, if any of its moves is kept.
GroupMoves ==
  /\ bookpc = "group" /\ todo # {}
  /\ LET k == NextKey(todo) IN
       /\ \E S \in Grouped(k) :
            book_entries' = IF S = {} THEN book_entries
                            ELSE [l \in DOMAIN book_entries \union {k} |->
                                    IF l = k THEN EntryOf(k, S) ELSE book_entries[l]]
       /\ todo' = todo \ {k}
  /\ UNCHANGED <<bookpc, text, depth, min_move_count, games, pgnmap, written, file, book>>

\* The constructor that makes an empty file, with a tenth more slots than entries.
NewFile ==
  /\ bookpc = "group" /\ todo = {}
  /\ todo' = DOMAIN book_entries
  /\ file' = [s \in 0 .. ((Cardinality(todo') * 11) \div 10) - 1 |-> NoEntry]
  /\ written' = {}
  /\ bookpc' = "write"
  /\ UNCHANGED <<text, depth, min_move_count, games, pgnmap, book_entries, book>>

\* Fault: the last slot tried is written although it belongs to another position.
PutFault ==
  /\ bookpc = "write" /\ todo # {} /\ Size(file) # 1
  /\ LET k == NextKey(todo) IN
       /\ \E i \in Attempts(file) :
            /\ FirstStop(file, k, i) \/ (i = Size(file) - 1 /\ ~\E j \in Attempts(file) : FirstStop(file, k, j))
            /\ file' = [file EXCEPT ![hashfunc(file, k, i)] = book_entries[k]]
       /\ written' = written \union {k}
       /\ todo' = todo \ {k}
  /\ UNCHANGED <<bookpc, text, depth, min_move_count, games, pgnmap, book_entries, book>>

\* put(): the first slot that is free or has the key, or none.
Put ==
  /\ bookpc = "write" /\ todo # {} /\ Size(file) # 1
  /\ LET k == NextKey(todo)
         slots == {hashfunc(file, k, i) : i \in {i \in Attempts(file) : FirstStop(file, k, i)}}
     IN  /\ file' = [s \in DOMAIN file |-> IF s \in slots THEN book_entries[k] ELSE file[s]]
         /\ written' = IF slots = {} THEN written ELSE written \union {k}
         /\ todo' = todo \ {k}
  /\ UNCHANGED <<bookpc, text, depth, min_move_count, games, pgnmap, book_entries, book>>

\* hashfunc() in a book of one position: the remainder of a division by zero.
PutCrash ==
  /\ bookpc = "write" /\ todo # {} /\ Size(file) = 1
  /\ bookpc' = "crashed"
  /\ UNCHANGED <<text, depth, min_move_count, games, pgnmap, book_entries, todo,
                 written, file, book>>

BookCreated ==
  /\ bookpc = "write" /\ todo = {}
  /\ bookpc' = "made"
  /\ UNCHANGED <<text, depth, min_move_count, games, pgnmap, book_entries, todo,
                 written, file, book>>

\* set_book(), by the command book open.
OpenBook ==
  /\ bookpc = "made" /\ book' = file
  /\ UNCHANGED <<bookpc, text, depth, min_move_count, games, pgnmap, book_entries,
                 todo, written, file>>

\* book close, and set_book() with a file that is no book.
CloseBook ==
  /\ InShell /\ book' = <<>>
  /\ UNCHANGED <<bookpc, text, depth, min_move_count, games, pgnmap, book_entries,
                 todo, written, file>>

-----------------------------------------------------------------------------
(* The game with a book. *)

\* engine_move(): the book's move, or else one that is searched for.
EngineMove ==
  /\ InShell /\ ~Over
  /\ \E m \in Moves, e \in Elapses :
       /\ m \in (IF Offered(book, current_board.pos) # {}
                   THEN Offered(book, current_board.pos) ELSE Legal[current_board.pos])
       /\ Enter(Entry(current_board, m, old_clock), Played(current_board, m),
                StopSide(StartSide(current_clock, Side), Side, e))
  /\ undone_entries' = <<>>
  /\ UNCHANGED <<initial_board, initial_clock, bookVars>>

\* Everything else that happens to the game, between the commands for books.
GameStep == InShell /\ Next /\ UNCHANGED bookVars

BookNext ==
  \/ /\ CreateBook \/ ReadGame \/ GamesRead \/ GroupMoves \/ NewFile \/ Put
          \/ PutCrash \/ BookCreated \/ OpenBook \/ CloseBook
     /\ UNCHANGED vars
  \/ /\ EngineMove \/ GameStep
     /\ Len(entries') <= IF bookpc = "none" THEN MaxMoves ELSE BookMoves

BookSpec == BookInit /\ [][BookNext]_<<vars, bookVars>>

-----------------------------------------------------------------------------
(* Properties. *)

\* Whatever collides: put() breaks the path of attempts to no entry that it has
\* written before, and lookup() finds each of them, as create made it.
WrittenIsFound ==
  \A k \in written :
    \E i \in Attempts(file) :
      FirstStop(file, k, i) /\ file[hashfunc(file, k, i)] = book_entries[k]

\* How often a move was played in a position, in the part of the games that
\* create looks at: their first depth + 1 moves.
TimesPlayed(p, m) ==
  Cardinality(UNION {
    {g} \X {i \in 1 .. Len(games[g].moves) :
              /\ depth > 0 => i <= depth + 1
              /\ games[g].moves[i] = m
              /\ Key[BoardsOf(games[g].opening, games[g].moves)[i - 1].pos] = Key[p]} :
    g \in DOMAIN games})

\* Keys that only one position has.
OwnKey(p) == \A q \in Positions : Key[q] = Key[p] => q = p

\* A move that the book offers to engine_move() is legal, so that its BUGs are
\* never met, and was played often enough; none that it does not offer was played
\* more often, or could have been added; and a position that has a key of its own
\* and an entry is offered moves.
BookTellsTheGames ==
  \A p \in Positions : LET offered == Offered(book, p) IN
    IF offered = {} THEN book = <<>> \/ Key[p] \notin written \/ ~OwnKey(p)
    ELSE
      /\ \A m \in offered :
           m \in Legal[p] /\ TimesPlayed(p, m) > 0 /\ TimesPlayed(p, m) >= min_move_count
      /\ \A m \in offered, n \in Moves \ offered : TimesPlayed(p, n) <= TimesPlayed(p, m)
      /\ Cardinality(offered) < NrMoves =>
           \A n \in Moves \ offered :
             TimesPlayed(p, n) = 0 \/ TimesPlayed(p, n) < min_move_count

=============================================================================
