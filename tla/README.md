# HoiChess in TLA+

HoiChess is a chess and xiangqi program: a command line (or xboard) shell around
an alpha-beta search with transposition tables, time control, pondering and a
parallel search of several threads. This directory holds TLA+ modules that model
its core, configurations for the model checker TLC, and proofs that the TLA+
proof system (TLAPS) checks. Paths below are relative to the repository's `src/`
directory (`src/common/search.cc` and so on).

    tlc -config ParallelSearch.cfg ParallelSearch       # a run
    tlapm ParallelSearchProofs.tla                      # a proof module

`PROJECT.json` lists the runs, the faults each property detects, the lines of
code each definition stands for, the hazards, the findings and the theorems.

## 1. The system and its parts

| part | state | operations | who calls it, on which thread |
|---|---|---|---|
| Shell (`common/shell*.cc`) | flags force, ponder, analyze, playboth; `myside`; `stop`, `quit`; owns game, book, search | `main` loop, `exec_command`, about 60 commands, `interrupt` | main thread; `interrupt` from the handler of SIGINT, on the same thread between any two instructions |
| Game (`common/game.*`) | board, opening, `entries`, `undone_entries`, result, running, two clocks | make, undo and redo a move, set board, set clocks, read and write PGN | main thread; read by the background search |
| Clock (`common/clock.*`) | mode, base, increment, remaining moves and time, limits, lost time | start, stop, allocate time, allocate more, check timeout | game (main thread), search (any thread) |
| Search (`common/search*.cc`) | root list, `stop`, statistics, tables, one thread | `start`, `start_thread`, `stop_thread`, `interrupt`, iterative deepening, alpha-beta, quiescence, time checks | main thread, its own thread, or a slave's |
| Parallel search (`common/parallelsearch.*`) | slaves (free, node, bounds), `ready_queue` | the overridden `search`, start, wait for and abort slaves | master thread; slaves run `Search::slave_main` |
| Queue (`queue.h`) | list, mutex, condition | put, get, wait with timeout, clear | slaves put, master gets and clears |
| Hash table (`common/hash.*`) | slots in 64 locked domains, age | put, probe, clear | all search threads, if shared |
| Pawn hash, evaluation cache, evaluator | direct-mapped entries | put, probe | each search its own |
| Nodes and move lists (`common/node.*`, `movelist.*`, `historytable.h`) | board, moves, scores, killers | make a move, first, pick, score moves | search threads |
| Opening book (`common/book.*`), PGN, EPD | a file of hashed positions with move counts | create from PGN, look up, choose | main thread |
| Board (`chess/`, `xiangqi/`) | pieces, side, castling, en passant, counters, incremental keys and material | make a move, generate, attacks, legality, mate, draw, parse and print | everybody; copied into each node, so no thread shares one |
| Start-up (`main.cc`, `init.cc`), utilities, debugging, libraries | options | read the command line, install the handler | main thread |

How they interact. The main loop of the shell decides, before each command,
whether the engine moves (`Game::start`, `Search::start` in the foreground,
`Game::make_move`), whether a background search is started for pondering or
analysis (`Search::start_thread`), or neither, and then reads a command. Commands
that change what the background search works on call `stop_search` first, which
sets the stop flag and joins the thread. SIGINT sets the stop flags of the shell
and of the search from a signal handler. A parallel search is a search whose
recursion hands moves or whole nodes to slaves, each a search with a thread per
job; they report by putting their index into the queue. All of them read the
clock, and only the master may raise its limit.

What is hard: the order in which slaves finish, are aborted and are started
again; flags that one thread sets and another resets; indices left in the queue;
scores of cut-off searches that leak into results or tables; time limits that
change while several threads look at them; signals that arrive between a test and
a reset; a history that is replayed after undo, redo and setup; allocators of
fixed size. `PROJECT.json` lists these as hazards with their lines.

What makes each part correct:

* parallel search: slaves are idle between calls; no index is left or doubled; a
  wait is always answered; no stop is lost; statistics are complete; node
  allocators are balanced; what a cancelled search returns is not accepted; every search ends;
* queue: it behaves as one atomic queue and no wakeup is lost;
* clock: no division by zero, the reserve is kept, the limit only grows;
* game: history and board agree, redo is legal, the result is the one of the
  rules, and the clocks charge their owner once;
* shell: one search at a time and only one that is wanted, undisturbed, stoppable
  and joined;
* hash table: an entry that is found belongs to the position (up to the key), its
  depth and bound are those that were stored, and a score that answers a probe is one that
  a search could return;
* search: without prunings an iteration that is completed returns the minimax value and
  a move that has it, whatever windows, orders of moves, earlier searches and table hits led there; stored
  bounds are bounds, after an abort and in later searches too; with all prunings a mate that ends the search is one;
* evaluator: its two caches return what would be worked out, and no colour is favoured;
* boards: the boards that moves lead to are those of the rules of chess and of xiangqi; keys,
  unions and material equal those computed from scratch; generators agree with each other and
  with the tests of moves; what is written as text is read back; a repetition in xiangqi is
  scored by who has checked;
* book: what `create` has counted and `put` has written is what `lookup` finds, and what
  the engine plays of it was played in the games, often enough.

## 2. Plan

In the order in which the modules were written, the most important behaviour first:

1. ParallelSearch, 2. Queue and Fifo, 3. Clock, 4. Game, 5. Shell, 6. HashTable, 7. Bitboards, Board
   and Notation against Chess, 8. XiangqiBoard and XiangqiLine against Xiangqi, 9. Evaluator on top of
   Board, 10. Search against minimax, 11. Book on top of Game. All are built, see below.
12. Proofs for the components 1 to 6, the boards and generators of 7 and 8, the caches and the symmetry of 9, and 11: all are
   done. QueueClockProofs has those about Queue and Clock, GameProofs those about Game and Book, BoardProofs those about the state of Board and about Evaluator, and
   RulesProofs, which extends it, those about Board and the rules: moves, generators, draws. Each other component has a module of its own.

Composition: Queue implements Fifo, which is the queue that ParallelSearch uses; Game uses the
clocks of ClockOps, which Clock drives alone; Book drives Game; Evaluator is called for every board that
Board reaches; Board implements Chess, XiangqiLine (which uses XiangqiBoard) implements Xiangqi. HashTable has the
table and its locks, Search has what a search makes of it.

What would come next: proofs about the notations, the evaluation of xiangqi, and the limit MAXPLY of the search.

## 3. The modules

Every module is translated from the code; a definition called `...Fault` (or
`..._fault`, `StoppingUneasy`) is a plausible bug that
`PROJECT.json` uses to show that a property detects it, and no specification uses it.

### ParallelSearch (ParallelSearchProofs)

The master's call stack is the variable `stack`, one frame per call of
`search_root()` or `search()`; `mpc` is the control point in the innermost one, and
`arg`, `ret`, `id` are its argument, return value and local variable. A slave is a
record in `slaves` (the master's view: `struct slave`) and one in `search` (its
`Search` object and thread). `ready_queue` is a sequence of slave indices.

| actions | code |
|---|---|
| Start, IterateRoot, RootMove, RootSearch, RootReturn, Iterated | `Search::start`, `iterate`, `search_root` |
| SearchLeaf, NonparallelStart, NonparallelWait, NonparallelJoin, NonparallelDone | `ParallelSearch::search`, `nonparallel_search` |
| SearchNode, NullMove, NullReturn, InternalDeepening, DeepeningReturn, FirstMove, FirstReturn, FirstDone | `parallel_search` up to its slave loop |
| GiveMove, NoMoveToGive, TestStop, WaitSlaveReady, SearchAgain, CollectSlave, AbortSlave, AbortJoin, AbortEnd, ParallelEnd | the slave loop, `give_move`, `wait_slave_ready`, `abort_all_slaves` |
| SeqReduce, SeqMove, SeqReturn, SeqDone, SeqEnd | `Search::search` run by the master itself |
| CheckTimeout, ExtendTime, Tick | `check_time`, `extend_time_iteration`, the clock |
| SlaveThread (its steps search, finish and report) | `Search::slave_main`, `slave_thread_main`, `set_slave_ready` |
| Interrupt, InterruptSlave | `ParallelSearch::interrupt`, slave by slave |

Decisions. Scores are reduced to how they were obtained: "score" (genuine),
"cancelled" (the `INT_MIN` of a search that saw its stop flag; `-INT_MIN` is again
`INT_MIN`, so it always compares low) and "tainted" (computed from a cancelled one);
how a genuine score compares with the window is chosen freely. So is whether a move
is searched with a null window, which covers the three values of the option
`search_parallel_pvs_mode`. The time check of `Search::search` happens only every so
many nodes, so it may be skipped. A slave counts one node per job. The queue is a
sequence with atomic operations, which is what module Queue implements
(`QueueImplementsFifo`). The mutexes around starting and stopping a slave's thread are
taken by the master only, so these are single steps, except that `interrupt` comes in
between. A new search starts only after an `interrupt` that is under way has
returned: both run on the main thread. `MinMoves >= 1` leaves out the option value 0,
for which the code makes a move that does not exist (see the hazards).

### Queue, Fifo (QueueClockProofs)

`Fifo` is what the users of `queue.h` rely on: a list with atomic operations, of
which `get` returns only with an element. `Queue` is the pthread code: `pc[t]` is
where thread `t` is in its operation, `mutex` who holds the mutex, `waiting` who is
blocked on the condition. Spurious wakeups and the two ways a timed wait ends are
actions. There is at most one consumer, as in the program (the master), and a
producer puts again only when its index has been taken or dropped, as a slave does;
this bounds the list. The Win32 variant of `queue.h` is not modelled.

### ClockOps, Clock (QueueClockProofs)

`ClockOps` has the methods of the class as operators on a record with its
attributes (`Started`, `Allocated`, `MoreTime`, `Updated`, `WithRemaining`...), used
by both `Clock` and `Game`. `Clock` drives one clock the way the program does: a
search begins and allocates, checks the time and extends it, ends, and the move stops
the clock and updates it; the user's `time` and `go` come in between moves, since no
command is read while the engine thinks. (`ClockInit`, `ClockNext` and so on have
their prefix because the module of proofs extends Queue as well.) Time is in units of the configuration's
choice (`Second` is one second of the code); the divisions are the code's integer
divisions.

### Game (MCGame, GameProofs)

Positions and moves are a constant graph, standing for the board and its generator.
The state is that of class `Game`: board, opening, the two lists, result, running,
the two clocks. Actions are its methods, one each: MakeMove, Undo, Redo, SetBoard,
RefuseBoard (the branch that rejects an illegal position), SetClocks, TurnBackClock,
SetRemainingTime, Start, LoadGame. A command that does several of them (`remove`,
`undo all`, `undo 3`) is several steps. A clock without a time control leaves
`remaining_time` uninitialized in the code; nothing reads it there. `Rule50` stands
for the 100 half moves of the rule. Two constants restrict the user: with
`SetupWhenUndone = FALSE` a board is set up only when there is nothing to redo (the
finding of run `game_stale_redo` is what happens otherwise), with `LevelMidGame =
FALSE` the time control is changed only before the first move. A game in a file (`Games`) is a
record of boards and moves that fit together, as the parser makes them.

### Book (MCGame, GameProofs)

`Book` EXTENDS `Game`. A PGN file is a sequence of items, which is what `PGN::parse()` tells apart: tags,
among them a position and malformed ones, the empty line after them, moves, notes, results. `Parsed` is one
call of `parse()`, with its failures and with how far it has read when it fails. `bookpc` is where
`book create` is: reading games (ReadGame), grouping the moves of each position (GroupMoves), making an
empty file (NewFile) and putting the entries (Put), in the order of their keys as in the code. The file is an array of slots, `hashfunc`
the double hashing of the code, `FirstStop` the loop of `put()` and `lookup()`. Keys are numbers that several
positions may share. EngineMove is `Shell::engine_move()`: a move that the opened book offers (any, since the code
chooses at random), or a move found by a search. All of the game goes on between the commands for books.

A book of one position gets one slot, for which `hashfunc()` divides by zero: PutCrash. The byte order and the errors of
the file are left out; the file that is created is another than the open one. One book is created, before
the first move (`AtStart`), and games with a book have at most `BookMoves` moves; both bound the run only.

### Shell (ShellProofs)

`pc` is where the main thread is: deciding (`loop`, `decide`), in a foreground search
(`begin`, `think`, `solve`, `solving`), reading a command (`input`), in
`stop_thread()` (`join`), executing (`exec`), or returned from `main()` (`done`). The
commands are those that change the game, the mode or the search; `Stopping` is the
set of those whose code begins with `stop_search()`. The thread of the search is
"none", "created" (it has not yet taken over its arguments), "searching" or
"finished" (not yet joined). Of the game only what the decisions read is kept:
whose turn it is, over, running, and how long the two lists are.

SIGINT is an action that is enabled between any two steps. The ghost variable `late`
counts the searches that begin after it, until the user types the next command;
signals while a command that has already been read waits or executes are not
counted, since that command is to be executed. `cores`, which deletes the search and
creates another, is one step: in the code a signal in between would use the deleted
search. `ClearBusy = FALSE` keeps the user from clearing a table during a search,
which the code does not prevent (see the hazards). A background search that has been
told to stop ends (weak fairness of ThreadStop), which is what run `parallel_deep`
shows of the search itself.

### Search (MCSearch)

The searches of a game, one after the other, on an abstract game: positions in layers, moves to a later layer, so that different
lines meet in the same position. A position has what the search asks of a board: whether the side to move is
in check, material, a positional score, moves of which some are illegal, whether it is drawn, and where passing leads. `search`,
`search_root` and `quiescence_search` are recursive operators named as in the code, one for each kind of node,
which take and return the environment: the hash table, the history table, the node count and the stop
flag. Each call of `search_root()` by `iterate()` is one step (Iteration); NoTime is the end of `iterate()`
between two of them. The clock is a number of nodes after which a search sees its stop flag (`limit`), so a
search can be aborted in any node. When a search has ended, by whatever means, NewSearch begins the next one, for the same position or
after the move found and a reply: it resets what `main()` and `iterate()` reset, and leaves the hash table as it is.

So a position is met at several depths and at several distances from the root: by lines that skip layers (a move of the games
of an odd seed can lead three layers on), by null moves and reductions, and by the next search, whose root is two plies
later. Entries that are deeper than asked answer probes then (`>=` in `probe_hashtable()`), and so do mates found at
another ply and the bounds of the cases that the FIXME at `search.cc:1145` leaves open.

`Values` and `Mates` are the references: minimax without windows, orders and tables, and the
existence of a forced mate. A position that was stored at a greater depth may be given its value at that depth, and those after it
likewise; therefore a value in `Values` is an interval, which is a single number unless a position has been stored deeper than it is
asked for (`env.met` keeps the depths). Without this allowance `IterationExact` and `EntriesSound` fail in the run, so the case arises.
`MateIsReal` asks for a forced mate of any length and needs no allowance.

A game comes with options: fail-soft, the three variants of principal variation search, with or without a hash table. The games are
drawn from numbered seeds. In `calm` games no side passes and no pruning applies, so that the search has to be exact; the sharp
ones have null moves, extensions, futility pruning and reductions, and there only mates are judged. Left out: the depth
limit MAXPLY, statistics, output and killers (see section 6). No line repeats a position, except by null moves, so a draw by repetition that is stored
for one path and used on another does not occur; and positions have distinct keys and a slot each, so no entry is displaced.

### HashTable (MCHashTable, HashTableProofs)

`table` and `pvtable` are the two arrays of the table, `spinlock` the locks of its
domains, `pc` and `call` where each thread is in its `put()` or `probe()` and with which
arguments, `copy` and `line` what a probe has copied. Each copy is made in
two steps, so that only the locks keep threads from seeing half of an entry. A put
begins with what `store_hashtable()` makes of a node's score (BeginPut, `Stored`), and
what a probe returns is what `probe_hashtable()` does with it (`Usable`, `Returned`).

What a position is worth at a depth is a constant: one score, or the scores a mate has
at different distances from the root. `Result` is what a search with a window may return
for it, fail-hard or fail-soft, and serves both as the source of what is stored and as the
yardstick for what is found. Positions have distinct keys, so the second check of `probe()`, that
the entry's move is legal, is left out: the table cannot do better when keys collide.
`Clear` happens only when no thread is in a call, which Shell's `ClearBusy` is about. Probes are made with every
depth from 0 on, which `quiescence_search()` uses, and with every window, those beyond the bounds of the mate scores included.

Three kinds of entries are not true of their position, and the code stores them all the same:

* in the two cases that the FIXME at `search.cc:1145` names (`FailAtMate`: a score of mate that failed low, one of being mated that failed
  high) the bound has the wrong side;
* with `search_parallel_min_depth` of 2 or less `nonparallel_search()` stores nodes of negative depth (`Negative`), and an `unsigned short`
  makes them deeper than any;
* what `parallel_search()` stores of a slave (BeginPutSlave, by the threads in `Masters`) has the sign of the other side, and is classified by a window that need not be the
  slave's (`parallelsearch.cc:416`, 449).

All three are put and probed in the run. The history field `origin` of an entry tells them from the others, and
`HitSound` says that nothing else makes a probe return a wrong score. `HitDirectlyUsable` is what the comment at `search.cc:1070`
says of every probe; `HashTableMate.cfg`, `HashTableNegative.cfg` and `HashTableSlave.cfg` each let one kind in and end with
a counterexample to it.

### Bitboards, Board, Chess, Notation (MCBoard, BoardProofs, RulesProofs)

`Bitboards` has the tables of `chess/bitboard.cc`: a bitboard is the set of its squares, and
the sliding attacks are functions of the occupied squares, which is what the three rotated
copies and their tables compute. `Board` is class `Board` of chess as a record: `position`,
`position_all`, `occupied`, `king`, `material`, flags, `epsq`, counters and both hash keys,
changed by operators with the names of the methods. A hash key is the set of the random
numbers xor-ed into it, so an xor is a symmetric difference; this takes the numbers as
independent, as Zobrist keys intend. A move list is the set of its moves, since the order only
matters to the search. A move has the fields of the code's word; its promotion piece shares the field of the
piece, as there.

The state is one board and the number of moves made; MakeMove makes any legal move, as the
game and the search do, MakeNullMove passes, as the search does when it is not in check (that
it does not pass twice in a row is left out). Boards are copied and never
taken back, so there is no unmake. The variants that `config.h` switches off (`unmake_move()`,
independent generators of moves) and `Move::autoselect()` of the command line are left out.

`Chess` states the rules without the code's means: a board is a map from squares to men, a
move is legal if it leaves no king attacked, attacks are walks along lines. `FollowsTheRules` is
the refinement `Board` implements `Chess` under `Abstract`; together with `NoMoveMissing` the
generated moves are exactly the legal ones. As a cross-check, counting the boards after some plies gives the
published numbers: 48 and 2039 for the position known as Kiwipete, 14, 191 and 2812 for the
one that is `Pinned` here, 26 and 568 for `Corners`.

`Notation` adds `Move::str()` and `Move::san()`, both move parsers, `get_fen()` and
`parse_fen()`, on sequences of characters. `parse_move()` generates all moves and compares texts;
`parse_move_1()`, which reads games, works on the text. Where it takes "the first" of several
pieces, which one depends on how a build finds the first bit, so the model returns the set of
possible results.

The openings are boards of which `is_valid()` holds and that are `Consistent`: the incremental state is exact, no square has two
men, a castling flag has its king and rook at home, an en passant square has the pawn that has just passed it, with both squares behind that pawn empty, and the
king of the side that is not to move is not attacked. `make_move()` takes this for granted and never tests it;
`parse_fen()` sets up the pieces and keys so, but takes the flags and the en passant square as the text says. `OpeningsAssumption` is
checked by run `board` for its openings. That the boards stay `Consistent` is part of `IncrementalStateExact`.

One more thing is taken for granted of an en passant square, by `generate_escapes()` alone: the pawn that has passed opened no line to
the king (`EpEarned`; with that pawn back where it came from the king was not attacked). The generator looks for a capture en passant
only to take a checking pawn, never to step between a slider and the king. In a game such a capture cannot be: the slider would have
attacked the king before the pawn moved. On a board set up from a text that tells otherwise, the legal capture would be missed.

### Evaluator (MCBoard, BoardProofs)

`Evaluator` EXTENDS `Board`: `eval()` with all plugins of the chess evaluation, the tables of scores (written by
formulas where the code writes 64 numbers), the cut-offs by the window, and the two caches, of two slots each so that
positions and structures displace each other. Every board that moves lead to is evaluated, with the caches as its
predecessors have left them. A window lies between `-INFTY` and `INFTY`, where the search begins (`WindowsAssumption`).
The commands that resize or clear the caches are left out: they leave an empty cache, as there is at the outset.

### XiangqiBoard, XiangqiLine, Xiangqi (MCXiangqi, XiangqiProofs)

`XiangqiBoard` is class `Board` of xiangqi: the arrays `position_pieces` and
`position_colors`, and what is kept beside them. The mailbox on which the code steps is the
operator `Step`; keys and move lists are sets, as for chess. `is_valid_move()` tests only which
men stand on the two squares, as the code does.

The state of `XiangqiLine` is a line of search nodes from the root (`line`: board, whether in
check, the move that led there) and the plies that are left. MakeMove makes any legal move,
MakeNullMove is the null move of `Search::search()` with its own guard, which looks at the move that led to the
parent. `is_repetition` is the function of that name, without the distance from the root by which
it grades a mate.

`Xiangqi` states the rules without the code's means, with the generals facing each other as an attack of a
general. `FollowsTheRules` is the refinement under `Abstract`, `NoMoveMissing` the converse; as a
cross-check, the initial position has 44 moves. `PerpetualCheckLoses` judges a repetition by the positions
and moves of the line alone.

Left out: writing positions and moves as text, `unmake_move()` (which `node.cc:27` excludes), and
the parsers of moves. `kings_facing()` takes for granted that the white king stands below the black one;
the openings are positions where the men stand where the rules can bring them. `OpeningsAssumption` says so, and that
`parse_fen()` has accepted them: what is kept beside the arrays is exact, and no side can take the other's king. Run `xiangqi`
checks it for its openings.

## 4. Runs

| run | bounds | shows |
|---|---|---|
| parallel | 2 slaves, depth 2, 1 root move, 0 or 3 moves per node, hash table, 1 timeout, time extension, 1 interrupt | the invariants of the slave loop; when the score of a cancelled search is accepted |
| parallel_deep | 1 slave, depth 4, hash table, timeout, time extension, fair threads | node allocator balanced through null moves, internal deepening, sequential nodes and early returns; every search ends |
| queue | 3 producers, 1 consumer | no lost wakeup, the list is a fifo, `get` returns |
| clock | 3 moves of all time controls, elapsed times to 32 with limits of about 20 | remaining moves, reserve, flag |
| game | 9 moves, 3 with a book; 6 texts, 7 keys of which two are shared; repetitions, mate, 50 moves, material; undo and redo | history and redo, result, clocks, what is written is found, the book tells the games |
| shell | 2 moves, 2 SIGINTs, all commands | one, wanted, undisturbed, stoppable, joined search |
| hash | 2 threads, one of them a master; 2 positions in a slot, 3 windows, two of them beyond the mates; depths -1 to 1, scores around a mate | what is found may be returned but for the three kinds of wrong entries, and belongs together |
| board | 10 positions, 2 plies, null moves | boards and moves are those of the rules; incremental state; generators, tests and notations agree; caches and colours of the evaluation |
| xiangqi | 5 openings, 1 to 5 plies, null moves | boards and moves are those of the rules; incremental state; repetitions and perpetual check |
| search | 24 calm games in all variants and with two limits, 300 sharp ones; 2 searches each, depth 4, 3 moves a position | completed iterations are exact, returns lie in the window, entries are true, mates are real |
| cancelled_accepted, game_stale_redo | small | the findings of section 6 |

Why these bounds are enough. Two slaves are the least with which one can finish while
another is aborted, started or interrupted; three moves in a node are one for the
recursion and one for each slave; depth 2 gives a split node below the root and
single-slave nodes below that; more depth only repeats the same frames, which
`parallel_deep` checks with one slave and the proofs for all. The order of two
interrupts is covered by one, since the flag is only set. Three producers and a
consumer show every race on the condition variable, which has one waiter. Three moves
with two per period cross the end of a period; the elapsed times pass the limit, the
hard limit and the margin. Nine moves complete a repetition of the four-move cycle
twice, the third occurrence of a position. Two SIGINTs can both hit the same reset, and
with two moves the game can be taken back and played again. Two positions that share a
slot show every conflict of two threads: a slot is overwritten before, while and after it is
read; the scores lie below, in and above the windows. The openings of `board` were chosen for what
they contain: rooks that can be taken at home by rooks, castling through and out of attacked squares,
en passant captures that uncover a check along the rank, promotions with capture and check, checks that can be
met by a capture, an en passant capture, a double step or a man in between, pieces pinned on different lines, and
nearly no material. The openings of `xiangqi` hold blocked legs and eyes, screens, a soldier at the river,
men pinned by chariot and cannon, and three endings: one side that always checks, the same seen from the
other side, and soldiers that move irreversibly. Four plies complete a repetition, a fifth puts an irreversible move before it; all results of
`is_repetition()` are reached. Two plies are what the interplay of two moves needs (a double step and its
capture, a captured rook and the castling it forbids); in chess 3763 boards are visited and all their moves examined.

The texts of `game` hold games that agree for some moves, a mate, a position set up by a tag, a missing result, an illegal
move and malformed tags; with an argument of 2 the games are cut in the middle, with a least count of 2 moves are
dropped, with one move per entry (`NrMoves = 1`) the most frequent one is kept. The run reaches entries that collide, one that
finds no slot, a book of one position, and a shared key whose move is illegal in the other position. The games of `search` are few but drawn
blindly; each fault that `PROJECT.json` names for the search shows in at least one of them.

Deadlock is checked except in the runs of the shell, whose program ends, of the game, where the program may die
(PutCrash), of the search, which ends, and of the boards, where games end and the plies are bounded.

Fairness. `ParallelSearch!FairSpec` has weak fairness of the master while it searches
and of each slave's thread: the operating system schedules them, and the tree of a
search is finite because depth and moves are. Nothing is assumed of the clock or of
interrupts. `Queue!FairSpec` has weak fairness of each thread's own steps once it is in
an operation; nobody is forced to begin one, so `GetReturns` says that a get returns
if something is in the list. `Shell!FairSpec` has weak fairness of the main
thread's own steps, of the beginning of the background thread, and of its end once it has
been told to stop; the user and the end of a file are not forced.

## 5. Proofs

TLC shows the properties for the instances above, TLAPS for all values of the
constants that satisfy the modules' assumptions.

* ParallelSearchProofs. `TypeInv` (types, the frame on top of the stack fits the
  control point) is inductive by itself. `SlaveInv` relates, for every control point,
  which slaves are free, which have a thread and where the index of a finished
  slave is; it is needed because no invariant about the queue alone is inductive: an
  index may stay there after its slave was freed, but only while `abort_all_slaves()`
  runs. From it follow `SlavesIdle`, `QueueSound`, `NonparallelOwnSlave`,
  `ThreadsMatch`, `SlaveNodes` and `WaitAnswered` (`NonparallelOwnSlave` and `SlaveNodes` are proved only, no run checks them); `StatisticsAreTaken` and
  `StopReachesSlaves` have an invariant of their own on top of it. `TotalComplete` rests on `TotalInv`: the master's count is at
  any time the sum of what it has taken over from each slave. The sum is a recursive function, so that it exists (`SumsExist`)
  and what a change of one count does to it (`SumChanges`) are proved by induction, as the least number of a set of
  counterexamples (`LeastNumber`). `NodesBalanced` rests on `NodesInv`, which counts the nodes below the call on top and its
  own apart and says where each frame must stand while its child is in use; a call continues, calls or returns
  (`ContinuesKeeps`, `CallsKeep`, `ReturnsKeep`).
  `AcceptedGenuine` is about `CancelledOnlyWhenExtended`, with time extension and hash table in use. Its invariant says that, unless
  the limit has been raised or the table was stale from the beginning (`Kept`), whatever is not genuine exists only once the search
  is over, for the queue of slaves, the stack, and the master's registers; and that an iteration which follows a raised limit is the last one.
* QueueClockProofs, queue. `NoLostWakeup` and `MutualExclusion` (the list is only touched by the owner of the mutex) with a relation between control
  points and operations are inductive; `QueueImplementsFifo` maps each step of the
  queue to a step of `Fifo` or to none, for any number of producers.
* QueueClockProofs, clock. Lemmas say what each method preserves (`Sane` clocks, the reserve);
  the invariant adds what holds while a search runs. `ClockMovesRemain`,
  `ClockReserveKept`, `ClockNeverFlagged`, `ClockLimitGrows` follow for all time
  controls and all elapsed times.
* ShellProofs. The invariant has a part for the places where the thread may exist
  (`ThreadPlaces`: where the shell has not yet decided to stop it, it is wanted;
  where a search starts, it is gone), for `Search::game`, for `quit`, for the turn
  (after the engine's move it is not on turn unless in playboth), and for `late`. The
  six theorems are the safety properties of the run, `SearchIsUndisturbed` under the
  assumption `ClearBusy = FALSE`.
* HashTableProofs. The invariant says who holds which lock, what a put has written when it
  has written half of it, that an entry nobody is writing claims only what is true of its
  position at every ply (`Sound`) and has its own line or none, and that what a probe has
  copied is such an entry. Two lemmas about scores carry the meaning: `StoredSound` (what
  `store_hashtable()` makes of a result is a true claim) and `UsableSound` (what
  `probe_hashtable()` makes of a true claim is a result). Both need neither a bound on windows nor one on depths: an
  entry of the three wrong kinds keeps its `origin`, and the invariant says nothing of it.

* GameProofs. The moves made, the current board and the moves taken back are read as one line of boards (`Line`,
  `LineMoves`). `LineInv` says that it is a legal game which begins at the initial board; undo and redo only walk
  along it (`UndoLine`, `RedoLine`), a move cuts it off (`MakeMoveLine`). `HistoryIsConsistent` follows: replaying and
  redoing are the two halves of it. It assumes that no board is set up while moves can be redone, which run `game_stale_redo` shows to be
  needed. `ResultIsByRule` needs in addition that the game was open wherever a move was made (`OpenLine`), since undo
  declares it open without looking; for games in files that is the assumption `FilesEndOnce`, because the parser
  reads on after a mate or a draw (the files of the run satisfy it). `MoverIsCharged`
  reads the clocks along the line as well (`LineClocks`): they are at rest at the beginning of each move, so undo and redo charge nothing
  when they stop them, and only the side to move has a clock that runs (`ClockInv`). `GameTypes` has the types, with a conventional clock that always has moves left.
* GameProofs, second part. `BookInv` says that each entry written is where the search for its key first stops. `PutKeepsFound`
  carries it: the slot that `put()` fills is empty or has the new key, so it is neither the slot of another entry nor, before or after,
  an end of the attempts that lead to it. `WrittenFound` follows for any keys, collisions and sizes, a full table and a second hash
  that is zero included. `BookHistory`, `BookResult` and `BookCharged` carry the theorems of the first part over to games with a book: the book
  offers only legal moves whatever is in its file (`OfferedLegal`), so the engine's moves continue the line.
* GameProofs, third part. `BookTellsGames` needs `BookInv` and two invariants of what came before the lookup. `TallyInv`: the map in memory
  counts exactly the plays of the games read so far (`Plays`, `MorePlays`, `TallyReads`), and each game read is legal through its
  boards (`GoodGame`, `ParsedGood`, `MovesReadGood`); the recursive functions that read a game are shown to exist (`ReadingExists`,
  `BoardsAre`) by a counterexample that is least. `FileInv`: an entry holds moves that were played most often (`EntryMade`), a slot has
  an entry or nothing, the open book is the file, and a file of one slot has nothing written. Where a key belongs to one position, the
  entry that the lookup stops at is that position's (`OneEntry`, `GroupedAre`, `TimesAre`, `PlayedLegal`), and `BookTells` puts this together.
* BoardProofs. `IncrementalExact` is about any openings and games of any length. The invariant is `Consistent`: that keys,
  unions and material are exact (`StateExact`) is not inductive, since a captured rook must take its flag away, a pawn captured en passant
  must stand where the square says, and a captured king would leave a side without one. The steps, from below: what an elementary
  change of a board does to its pieces and keys is told square by square (`Sound`, equivalent to `StateExact` and `OneEach` by
  `SoundMeans`), so that sums of material over sets never have to be taken apart; each kind of move keeps this (`QuietKept`,
  `TakingKept`, `PromotionKept`, `PromotionCaptureKept`, `PassingKept`, `CastlingKept`, `NullKept`); every generated move is of one of these kinds and
  finds its men in place (`MovesFine`); the man it captures is no king, because the side that has just moved left no king attacked, and
  the tables and walks of attacks are symmetric (`AttackBack`, `RayBack`); and the flags, the en passant square
  and the pawns fit again afterwards (`MoveConsistent`).
* BoardProofs, second part. `CachesAreExact` is about the same boards and any windows. A key tells where the men are that went into it
  (`KeyTellsMen`, `KeyTellsPawns`), so the boards that share a key share every score that is worked out of the men alone, and the
  material that decides the phase. What is worked out is one number as White sees it (`SameWhiteValue`) and its sign turns with the side to move, in the evaluation and in the
  cache alike. The invariant `CachesTrue` therefore says of every entry, not which board it was made for, but that it is true of every consistent board
  that it can be asked about; `CachesExact` alone, about the last evaluation, is not inductive. That `eval()` keeps it (`EvalKeeps`)
  needs `IncrementalExact`, since the caches are asked by the keys that the board carries along. In the opening `score_devel()` reads more
  than the key has, and nothing is claimed; since the key tells the phase, such a score does not come up later. That the scores are
  numbers at all is proved by a counterexample that is least (`SumsExist`), because sums over sets are recursive.
* BoardProofs, third part. `ColoursAreEqual` says that the evaluation favours neither colour. Squares are reflected by exchanging the ranks
  (`FlipFacts`), and with them the tables, the rays and therefore the attacks of every man (`TablesMirrored`, `RayMirrored`, `SlidersSee`,
  `AttackersMirrored`). What is counted is carried over by the reflection (`ReflectedCount`), and what is summed over sets of
  men by a bijection of their elements (`SumMoved`, from a least counterexample again); `SumAdded` takes the score of pawns apart. One thing does not
  carry over: of two connected passed pawns the one that is visited last gets the bonus, and after the exchange of ranks that is the
  other one when they stand on different ranks. There the bijection exchanges the two (`PairsMirrored`), which is why the property asks
  that a passed pawn has at most one passed neighbour (`AtMostPairs`): the score of a longer chain depends on the order of the visits.
  Of the board only `Consistent` is needed, for the men to be on squares of the board and the kings to be there.
* RulesProofs. `ChessFollowsRules` is the refinement under `Abstract`: every step of `Board` is a step of `Chess`.
  The squares of the code and the points of the rules correspond (`PointsAre`), and so do its tables and the walks of the rules
  (`LeapIs`, `LineTo`, `Along`); hence an attack is the same on both sides (`AttackedIs`, `CheckIs`). For each kind of move it is shown
  which board of the rules its result is (`MoveLeads`, one lemma a kind) and that the rules allow it. Both directions are proved:
  `SuccessorsAre` says that the successors by the rules are exactly the results of the legal moves, so no move that the rules allow is missing.
  What needs the game, not the board alone, is in `Consistent`: rights to castle with king and rook at
  home, and an en passant square that a pawn has just passed, with both squares behind it empty - `make_move()` relies on the pawn, the rules on the squares.
  Before castling the rules want the square unattacked that the king goes to; the code tests only that no king is left attacked afterwards.
  It is the same, because whoever attacks that square before still does so when king and rook have moved (`LineHeld`, `AttackHeld`).
* RulesProofs, second part. `GeneratorsAreExact` has three parts. *No move is missing*: legal moves and successors by the rules
  correspond one to one (`MovesCounted`). `SuccessorsAre` has made every successor the result of a legal move; here two moves with the same result
  are the same (`MovesDiffer`), because the position afterwards tells where the man came from, where it went and what it is now
  (`Traced`, `Told`; `Jumped` for castling). *The assertions hold* (`EachAsserted`): `is_valid_move()` accepts what is generated, because it asks again
  what the generator has asked (`Reaching`); the men that `make_move()` takes are there. *Escapes*: what `generate_escapes()` returns is
  returned by `generate_moves()` (`EscapesCome`), and what is legal is not missed (`EscapeFound`). For the latter the argument is that of a chess player, told by
  lines: a move of another man than the king ends a check by taking the checker or stepping between (`CheckEnded`), and
  cannot end two (`TwoChecks`), since two lines that share a square before the king are one (`LinesNest`), and
  one checker would shield the king from the other; the king is offered only squares that are not attacked while it
  stands where it was, and no legal one is lost by that (`KingEscapesFound`): what attacks the square before the king has moved still does afterwards. A pawn that
  captures en passant never steps between (`PassingBetween`): the line was open before the other pawn passed, which `EpEarned` excludes, or
  that pawn stood on it where it came from; then the line is its file, and it stands on it still. That moves keep `EpEarned` is part of `IncrementalExact` (`EarnedKept`):
  the king that a double step must not open a line to was not attacked before it, because the side that moved before was not left in check.
* RulesProofs, third part. `MaterialDrawStays` needs no new invariant, only `Consistent`. Material 0 means bare kings (`NoMaterial`), so a
  drawn board is `Alone` (`DrawIs`): beside the kings it has a single knight, or bishops of any number on squares of one colour, which the code
  finds out with masks of squares and the proof says with parities (`Tint`). No such board is a mate (`AloneNoMate`). A knight that gives check attacks
  squares of the colour of the king's square only, and so do bishops that give check; the squares beside the king on its rank and
  file have the other colour, none of these men stands there or attacks there, and the enemy king, which does not touch
  this one, cannot guard both of them (`KingNear`, `Flight`): the king has a move. A move brings no
  new man, and a bishop keeps its colour (`TintMoves`, `AloneKept`), so the board stays drawn.

* XiangqiProofs. `IncrementalExact` is about any openings and lines of any length. It needs `LineInv`, which speaks of all nodes of
  the line: each board is exact (`StateExact`, with one king a side on the square that `king` names) and legal, and each has
  the counter that its predecessor and its move give it. What an elementary change does is told square by square again (`RemoveTold`, `MoveTold`, `SwitchTold`);
  sums of material change by one man at most (`MaterialChange`). The generated moves keep on the board (`AttacksOnBoard`), and no king is captured,
  because the board before the move was legal (`KingSafe`); after a null move it is legal because the side was not in check, which the guard of the search has tested and
  nothing in `make_move()` does (`PassLegal`).
* XiangqiProofs, second part. `FollowsRules` is the refinement: every step of the line is a step of Xiangqi under `Abstract`, the null move
  a pass. The squares of the code and the points of the rules are put into correspondence (`PointsAre`), and for each kind of man it is
  shown that the table or walk by which the code generates reaches what the rules say (`ElephantAlike`, `HorseAlike`,
  `ChariotAlike`, `CannonAlike` and so on, together `Alike`); the walks rest on `StepAlong` and `BetweenAre`, and the screens that the code counts on its
  way are the men that the rules count between two points (`ScreensAre`). The code asks neither whether a soldier stands where a
  soldier can get to, nor whether an advisor, an elephant or a general has left its region: it has tables by the square alone. So the two agree only as
  long as all men stand on points that the rules let them reach. That is `Stationed`, the strengthening which the opening has
  (`OpeningsAssumption`) and moves keep (`Stays`); it also puts the white general below the black one, which
  `kings_facing()` takes for granted (`KingsThere`, `FacingIs`). A check is then the same on both sides (`CheckIs`, `InCheckIs`): in the code it is a move
  generated for the opponent, after a null move if need be, in the rules an attack with no turn to move.
* `AllMovesMade` is the converse. Legal moves and successors correspond one to one (`MovesCounted`): a board tells by which
  move it was reached (`PlayedDiffer`), and the move generated from one square to another is one and the same record (`TheMove`).
* `PerpetualCheckScored`. `is_repetition()` stops at the last irreversible move, and this loses nothing because no position comes again
  after one. What such a move uses up is made a number: the men, and the ranks before each soldier (`Reserve`); no move adds to it, and
  a capture or an advancing soldier takes from it (`LessLeft`, by an injection). The invariant `Past` says so of any two nodes of
  the line, with all men at their stations (so that a check is a check by the rules at every node) and the sides by turns (so that parities tell
  them apart). Keys are equal exactly where positions are (`KeyMeansMen`, `PositionMeansMen`).

The assumptions of the modules on their constants are checked by the runs. The theorems on types name no property of a run:
the runs check the properties that say more, and the proofs the types for all instances.

Model-checked only: of the board of chess the notations (`TextReadBack`); the search (its operators are recursive,
which the prover does not support), and all liveness, which is out of the prover's reach, as are `ENABLED` and induction over recursive data.

## 6. Findings

* `cancelled_accepted`: the arbitrary value of a cancelled slave is stored in the hash table, and the next search takes it for a score and
  accepts what comes of it. `iterate()` can also accept one without any table: `ParallelSearchExtended.cfg` shows a slave that times out at the old limit
  while the master's `check_time()` at `parallelsearch.cc:398` raises it; the master has not stopped, and collects `INT_MIN` at line 416.
  (In `nonparallel_search()`, where the check at line 549 is made for this purpose, nobody raises the limit in between.) `CancelledOnlyWhenExtended`, checked
  and proved, says that there is no third way.
* `game_stale_redo`: after undo and setboard, redo plays a move of the old game.

Observed while modelling, without a run of their own.

Parallel search and time:

* a stop that arrives just before `nonparallel_search()` starts its slave is lost for that slave, because starting it
  clears its flag (`search.cc:187`, `parallelsearch.cc:535`), and the clock ends it;
* `parallelsearch.cc:449` stores a score with the sign of the wrong side (`HashTableSlave.cfg`); with `search_parallel_min_move_ratio` = 0
  a node without moves reaches the slave loop (`parallelsearch.cc:208`);
* `clock.cc:176-178` gives up the margin for late searches when the limit is raised to the remaining
  time, which the comment at 166 does not say.

Shell and game:

* a failing command of a script ends `main()` past `stop_search()` (`shell.cc:117-119`, `main.cc:391`), and the search is
  deleted under its thread; `cores` replaces the search, and a SIGINT in between interrupts the old one (`shell_cmd.cc:538`);
* a game read from a file without moves is open whatever its position (`game.cc:74`); the game tests `movecnt50 == 100`, the
  search `>= 100` (`game.cc:399`, `search.cc:979`).

Search:

* the "Test for checkmate" of `quiescence_search()` (`search.cc:940-948`) has no effect in the default mode, where
  the score is bounded by the window afterwards: the first iteration does not see a mate in one, and a mated position is stored as exact;
* with `search_failsoft` a node whose moves are all pruned returns `-INFTY`, and its parent announces a mate (`MateIsReal` is
  about the default); the return at MAXPLY is not bounded by the window;
* the guard of the null move looks at the move before the last (`search.cc:679`), so that two null moves in a row are
  possible, after which the node is scored as a repetition;
* `store_hashtable()` stores a bound with the wrong side for windows beyond the mate scores, its own FIXME (`search.cc:1145`, `HashTableMate.cfg`). Such
  windows do come up in run `search`, and the entries answer probes there, but no wrong result comes of it in its games (`EntriesSound` leaves these entries out,
  `IterationExact` and `MateIsReal` do not);
* a node of negative depth is stored as the deepest of all (`hash.h:73`, `HashTableNegative.cfg`);
* killer moves are kept in the node that they were found in and reach no sibling; `score_moves()` in `node.cc` reads `mat_values` beyond its end
  for quiet promotions; the history table of a quiescence node may be that of an earlier search: all three
  affect the order of moves only;
* `is_repetition()` stops at an irreversible move before it compares the position that move led to, so that a
  repetition of exactly that position is seen one cycle later (`search.cc:1023`, 1027).

Evaluation and boards:

* `isolated_pawn_mask` contains the pawn's own square, so the penalty for isolated pawns is never given (`bitboard.cc:377-391`, `eval.cc:308`);
* the bonus for three connected passed pawns depends on the order in which they are visited, against the comment at `eval.cc:329`
  (`EvalMirrored` is about pairs at most);
* in the opening the evaluation reads which pieces have moved and who has castled, which the key of the evaluation cache does
  not tell: it then returns the score of another history (`CachesExact` says nothing there);
* the parser of moves in games refuses a legal move when all candidates are pinned and the right one moves
  along its pin away from its king (`board_util.cc:728` of chess).

Book and PGN:

* `create` counts one move more than its argument says (`book.cc:430`, against the comment at 395);
* a book of one position makes `hashfunc()` divide by zero (PutCrash); double hashing does not visit all slots, so an entry may
  find none although there are free ones;
* a game without a result takes the first tag of the next one; after a malformed tag the rest of the tags is read as
  a game of its own; `loadgame` ignores that `parse()` failed; the loop of `parse_all()` never reads.

## 7. Not modelled

* Printing, help, the options and their ranges, the command line and init files: input and output. Of the
  commands, those that change the game, the mode, the search, a table or the book are actions. `bench` and `perft`
  block the main thread without a search thread; `atexit` commands run after the background search has been joined.
* The evaluation of xiangqi: a sum of weights, with caches of the same code as in chess.
* EPD and the characters of a PGN file; Book has the items that the parser makes of them. The bytes of a book file.
* The unmade variants: `unmake_move()`, independent generators and others that `config.h` switches off, the Win32
  branches of `queue.h`, `thread.h` and `mutex.h`.
* Rotated bitboards, bit scans and processor instructions below the level of sets of squares; the random numbers of the
  hash keys (`uint64_table.cc`), which are data: keys are sets of independent numbers, so collisions of keys are left out, except in
  Book, whose keys are shared on purpose.
* Third-party code under `lib/`, assertions and utilities, build files and packaging.
