-------------------------------- MODULE Search --------------------------------
(***************************************************************************)
(* The searches of a game, one after the other: iterative deepening with    *)
(* aspiration windows (Search::main(), iterate(), search_root()), the       *)
(* alpha-beta search with its variants and prunings (search(),              *)
(* quiescence_search()), the order of moves (common/node.cc,                *)
(* common/historytable.h) and the hash table, which outlives a search.      *)
(* Every call of search_root() is a step.                                   *)
(*                                                                         *)
(* A game is abstracted to a graph: positions come in layers, and a move is *)
(* the position of a later layer that it leads to.  Different lines reach   *)
(* the same position, at different distances from the root if moves skip    *)
(* layers, but no line repeats one.  A position knows what the search asks  *)
(* of a board.                                                              *)
(***************************************************************************)
EXTENDS Integers, Sequences, FiniteSets, FiniteSetsExt, TLC

CONSTANTS
  Setups,    \* games to search with the options and limits to search them with
  MaxDepth,  \* bound: depth of the last iteration
  MaxSearches   \* bound: searches of a game

INFTY == 100000
MATE == 90000
DRAW == 0
INT_MIN == -2147483647 - 1
WINDOW == 50
NoMove == <<>>
NULL == <<"null">>

VARIABLES
  setup,      \* the game and the options of this search
  rootnode,   \* the root: its moves with their scores, its best line
  pvlines,    \* ply1_pvline_map
  env,        \* hash table, history table, node count and stop flag
  searches,   \* searches begun
  depth,      \* rootdepth
  alpha, beta,
  best,       \* the move that iterate() will return
  result      \* what became of the last call: its kind, depth, score and move
vars == <<setup, rootnode, pvlines, env, searches, depth, alpha, beta, best, result>>

(***************************************************************************)
(* What the search sees of a position.                                      *)
(***************************************************************************)
in_check(p) == p \in setup.checked
material_balance(p) == setup.material[p]
IsCapture(p, m) == m # NULL /\ setup.material[m] # -setup.material[p]
IsLegal(p, m) == m = NULL \/ <<p, m>> \notin setup.illegal
LegalMoves(p) == {m \in setup.moves[p] : IsLegal(p, m)}
After(p, m) == IF m = NULL THEN setup.passed[p] ELSE m

(***************************************************************************)
(* Nodes.                                                                   *)
(***************************************************************************)
make_move(n, m) ==
  LET p == After(n.pos, m)
  IN  [pos |-> p, ply |-> n.ply + 1,
       \* positions that may be repeated
       path |-> IF IsCapture(n.pos, m) THEN {} ELSE n.path \cup {n.pos},
       played |-> m, parent_played |-> n.played,
       pv |-> IF Len(n.pv) > 1 /\ n.pv[1] = m THEN Tail(n.pv) ELSE <<>>,
       hashmv |-> NoMove, line |-> <<>>, list |-> <<>>]

get_best_move(n) == IF n.line = <<>> THEN NoMove ELSE n.line[1]
get_pvmove(n) == IF n.pv = <<>> THEN NoMove ELSE n.pv[1]
set_best(n, m, child) == [n EXCEPT !.line = <<m>> \o child.line]

\* The generators: every move, or captures only.
generate(p, moves) ==
  [i \in 1 .. Cardinality(moves) |->
     [mov |-> CHOOSE m \in moves : Cardinality({x \in moves : x[2] < m[2]}) = i - 1,
      score |-> 0]]
Captures(p) == {m \in setup.moves[p] : IsCapture(p, m)}

HistoryKey(p, m) == <<p[1] % 2, p[2], m[2]>>
history(e, p, m) == IF HistoryKey(p, m) \in DOMAIN e.hist THEN e.hist[HistoryKey(p, m)] ELSE 0

score_of(n, m, e) ==
  IF n.pv # <<>> /\ m = n.pv[1] THEN 1000000
  ELSE IF m = n.hashmv THEN 900000
  ELSE IF IsCapture(n.pos, m) THEN 500000
  ELSE history(e, n.pos, m)
score_moves(n, e) ==
  [n EXCEPT !.list = [i \in DOMAIN @ |->
     [mov |-> @[i].mov, score |-> score_of(n, @[i].mov, e)]]]

\* Node::first() of a full-width node keeps the moves of internal deepening.
first_fullwidth(n, e) ==
  score_moves(IF n.list # <<>> THEN n
              ELSE [n EXCEPT !.list = generate(n.pos, setup.moves[n.pos])], e)
first_quiesce(n, e) ==
  score_moves([n EXCEPT !.list =
    generate(n.pos, IF in_check(n.pos) THEN setup.moves[n.pos] ELSE Captures(n.pos))], e)

\* Node::pick(): the k-th move of the list is exchanged with the best one left.
Left(n, k) == {i \in k .. Len(n.list) : n.list[i].score > -INFTY}
Picked(n, k) ==
  LET best_i == CHOOSE i \in Left(n, k) :
             \A j \in Left(n, k) : \/ n.list[j].score < n.list[i].score
                                   \/ n.list[j].score = n.list[i].score /\ i <= j
  IN  [n EXCEPT !.list[k] = n.list[best_i], !.list[best_i] = n.list[k]]

(***************************************************************************)
(* The environment: counts, stop, tables.                                   *)
(***************************************************************************)
Count(e) == [e EXCEPT !.nodes = @ + 1]
\* The clock runs out when a number of nodes has been searched.
check_time(e) == [e EXCEPT !.stop = @ \/ e.nodes >= setup.limit]
add_history(n, e) ==
  IF n.line = <<>> THEN e
  ELSE LET k == HistoryKey(n.pos, n.line[1])
       IN  [e EXCEPT !.hist = [x \in DOMAIN @ \cup {k} |->
              IF x = k THEN history(e, n.pos, n.line[1]) + 1 ELSE @[x]]]

bound_score(score, a, b) == IF score > b THEN b ELSE IF score < a THEN a ELSE score
\* The option is forgotten and every score returned as it is.
HardFault(score, a, b) == score
Hard(score, a, b) == IF setup.failsoft THEN score ELSE bound_score(score, a, b)
Return(n, e, score) == [n |-> n, e |-> e, score |-> score]
Neg(score) == IF score = INT_MIN THEN INT_MIN ELSE -score

\* The program's own check of the fail-hard condition, after a child's search.
CheckBounds(e, score, a, b) ==
  [e EXCEPT !.broken = @ \/ (~setup.failsoft /\ ~e.stop /\ (score < a \/ score > b))]

\* Whether an entry answers a probe with this window.
Usable(entry, d, a, b) ==
  /\ entry.depth >= d
  /\ \/ entry.type = "EXACT"
     \/ entry.type = "ALPHA" /\ entry.score <= a
     \/ entry.type = "BETA" /\ entry.score >= b

\* The cases that the FIXME of store_hashtable() leaves open.
FailAtMate(score, a, b) == (a >= score /\ score >= MATE) \/ (-MATE >= score /\ score >= b)

Entries(e, p) == IF p \in DOMAIN e.table THEN {e.table[p]} ELSE {}
\* What a probe leaves in the node: the move and the longer line.
Probed(n, e) ==
  IF Entries(e, n.pos) = {} THEN n
  ELSE LET entry == e.table[n.pos]
       IN  [n EXCEPT !.hashmv = entry.move,
                     !.pv = IF Len(entry.line) > Len(@) THEN entry.line ELSE @]

\* A score at or below the window is taken for exact, and so are scores of mate.
ScoreTypeFault(score, a, b) ==
  IF score >= b THEN "BETA" ELSE "EXACT"
ScoreType(score, a, b) ==
  IF score >= MATE THEN "BETA" ELSE IF score <= -MATE THEN "ALPHA"
  ELSE IF score >= b THEN "BETA" ELSE IF score <= a THEN "ALPHA" ELSE "EXACT"
store_hashtable(n, e, d, a, b, score) ==
  IF ~setup.hashing THEN e
  ELSE LET entry == [depth |-> d, type |-> ScoreType(score, a, b),
                     score |-> bound_score(score, -MATE, MATE),
                     move |-> get_best_move(n), line |-> n.line,
                     fixme |-> FailAtMate(score, a, b)]
       IN  [e EXCEPT !.table = [p \in DOMAIN @ \cup {n.pos} |->
                                  IF p = n.pos THEN entry ELSE @[p]],
                     !.met = @ \cup {<<n.pos, d>>}]

\* Repetitions, and draws by material or by fifty moves.
is_draw(n) == n.pos \in setup.drawn \/ n.pos \in n.path

\* The evaluation is not worked out for a side far ahead or behind.
EVAL_CUTOFF_MATERIAL == 150
eval(p, a, b) ==
  IF \/ material_balance(p) >= b + EVAL_CUTOFF_MATERIAL
     \/ material_balance(p) <= a - EVAL_CUTOFF_MATERIAL
    THEN material_balance(p) ELSE material_balance(p) + setup.positional[p]

-----------------------------------------------------------------------------
(***************************************************************************)
(* quiescence_search().  x holds the variables of the loop over the moves.  *)
(***************************************************************************)
RECURSIVE quiescence_search(_, _, _, _), QuiesceMoves(_, _, _, _), Quiesced(_, _, _, _, _)

quiescence_search(n, a, b, e0) ==
  LET e == Count(e0)
      m == Probed(n, e)
      usable == {x \in Entries(e, n.pos) : Usable(x, 0, a, b)}
      score == eval(n.pos, a, b)
  IN  IF usable # {} THEN Return(m, e, Hard((CHOOSE x \in usable : TRUE).score, a, b))
      ELSE IF score >= b THEN Return(m, e, Hard(score, a, b))
      ELSE QuiesceMoves(first_quiesce(m, e), 1,
             [alpha |-> IF score > a THEN score ELSE a, beta |-> b, save |-> a, moves |-> 0,
              best |-> IF setup.failsoft THEN score ELSE -INFTY], e)

\* The end of the loop: a side in check without a move is mated.
QuiesceEnd(n, x, e) ==
  LET mated == x.moves = 0 /\ in_check(n.pos)
      mate == -INFTY + n.ply
      score == IF setup.failsoft THEN (IF mated THEN mate ELSE x.best)
               ELSE IF mated THEN bound_score(mate, x.alpha, x.beta) ELSE x.alpha
  IN  Return(n, store_hashtable(n, e, 0, x.save, x.beta, score), score)

\* How a child's score changes the loop's variables.
Better(x, score) ==
  [x EXCEPT !.best = IF score > @ THEN score ELSE @,
            !.alpha = IF score > @ THEN score ELSE @,
            !.moves = @ + 1]

\* The k-th move has been searched, with the result r.
Quiesced(n, k, x, m, r) ==
  LET score == Neg(r.score)
      e1 == check_time(CheckBounds(r.e, score, x.alpha, x.beta))
      y == Better(x, score)
      n1 == IF score > x.best THEN set_best(n, m, r.n) ELSE n
  IN  IF e1.stop THEN Return(n, e1, INT_MIN)
      ELSE IF score >= x.beta THEN QuiesceEnd(n1, y, e1)
      ELSE QuiesceMoves(n1, k + 1, y, e1)

QuiesceMoves(n0, k, x, e) ==
  IF Left(n0, k) = {} THEN QuiesceEnd(n0, x, e)
  ELSE LET n == Picked(n0, k)
           m == n.list[k].mov
       IN  IF ~IsLegal(n.pos, m) THEN QuiesceMoves(n, k + 1, x, e)
           ELSE Quiesced(n, k, x, m,
                  quiescence_search(make_move(n, m), -x.beta, -x.alpha, e))

-----------------------------------------------------------------------------
(***************************************************************************)
(* search().                                                                *)
(***************************************************************************)
RECURSIVE search(_, _, _, _, _), SearchMoves(_, _, _, _), Searched(_, _, _, _, _)

\* The window of a move after the first: empty, and widened if the score is in it.
NullWindow(x) == \/ setup.pvs_mode = 1 /\ ~x.first
                 \/ setup.pvs_mode = 2 /\ x.alpha > x.save
\* The result of the empty window is taken as it is.
ChildSearchFault(child, x, e) ==
  IF NullWindow(x) THEN search(child, x.depth - 1, -x.alpha - 1, -x.alpha, e)
  ELSE search(child, x.depth - 1, -x.beta, -x.alpha, e)
Researched(x, r) ==
  IF Neg(r.score) > x.alpha /\ Neg(r.score) < x.beta
    THEN search(r.n, x.depth - 1, -x.beta, -x.alpha, r.e) ELSE r
ChildSearch(child, x, e) ==
  IF NullWindow(x) THEN Researched(x, search(child, x.depth - 1, -x.alpha - 1, -x.alpha, e))
  ELSE search(child, x.depth - 1, -x.beta, -x.alpha, e)

\* Null-move pruning looks at the move before the one played to reach the node.
NullOk(n) == ~in_check(n.pos) /\ n.parent_played # NULL /\ ~setup.endgame
NullSearch(n, d, b, e) ==
  IF NullOk(n) THEN search(make_move(n, NULL), d - 2 - 1, -b, -b + 1, e)
               ELSE Return(n, e, INFTY)

\* Internal iterative deepening: a shallower search for the move to begin with.
Deepened(n, d, a, b, e) ==
  IF get_pvmove(n) = NoMove /\ n.hashmv = NoMove /\ d > 2
    THEN LET Shallow(r) == Return([r.n EXCEPT !.hashmv = get_best_move(r.n)], r.e, r.score)
         IN  Shallow(search(n, d - 2, a, b, e))
    ELSE Return(n, e, 0)

\* Razoring at depth 3, then futility pruning at depth 1 and 2.
Reduced(n, d, a) ==
  LET d1 == IF d = 3 /\ material_balance(n.pos) + 900 <= a THEN 2 ELSE d
      extended == d1 = 2 /\ material_balance(n.pos) + 500 <= a
  IN  [depth |-> IF extended THEN 1 ELSE d1,
       fprune |-> extended \/ (d1 = 1 /\ material_balance(n.pos) + 300 <= a)]
Pruned(n, m, x) == /\ x.fprune /\ ~in_check(n.pos) /\ ~in_check(After(n.pos, m))
                   /\ ~IsCapture(n.pos, m)

\* The moves of a node, after its internal deepening.
Expanded(d, a, b, deep) ==
  LET reduced == Reduced(deep.n, d, a)
  IN  SearchMoves(first_fullwidth(deep.n, deep.e), 1,
        [depth |-> reduced.depth, fprune |-> reduced.fprune, alpha |-> a, beta |-> b,
         save |-> a, best |-> -INFTY, moves |-> 0, first |-> TRUE], deep.e)

\* A null move that has failed high, or the moves.
Passed(n, d, a, b, null) ==
  IF Neg(null.score) >= b THEN Return(n, null.e, Hard(Neg(null.score), a, b))
  ELSE Expanded(d, a, b, Deepened(n, d, a, b, null.e))

search(n, d, a, b, e0) ==
  IF d <= 0 THEN quiescence_search(n, a, b, e0)
  ELSE IF is_draw(n) THEN Return(n, e0, Hard(DRAW, a, b))
  ELSE
  LET e == Count(e0)
      m == Probed(n, e)
      usable == {y \in Entries(e, n.pos) : Usable(y, d, a, b)}
  IN  IF usable # {} THEN Return(m, e, Hard((CHOOSE y \in usable : TRUE).score, a, b))
      ELSE Passed(m, d, a, b, NullSearch(m, d, b, e))

\* Stalemate is taken for checkmate.
FinalScoreFault(n, x) ==
  IF x.moves = 0 THEN Hard(-INFTY + n.ply, x.alpha, x.beta)
  ELSE IF setup.failsoft THEN x.best ELSE x.alpha
\* Checkmate, stalemate, or the score of the best move.
FinalScore(n, x) ==
  LET matescore == IF in_check(n.pos) THEN -INFTY + n.ply ELSE DRAW
  IN  IF x.moves = 0 THEN Hard(matescore, x.alpha, x.beta)
      ELSE IF setup.failsoft THEN x.best ELSE x.alpha
SearchEnd(n, x, e) ==
  Return(n, add_history(n, store_hashtable(n, e, x.depth, x.save, x.beta, FinalScore(n, x))),
         FinalScore(n, x))

\* The k-th move has been searched, with the result r.
Searched(n, k, x, m, r) ==
  LET score == Neg(r.score)
      e1 == check_time(CheckBounds(r.e, score, x.alpha, x.beta))
      y == [Better(x, score) EXCEPT !.first = FALSE]
      n1 == IF score > x.best THEN set_best(n, m, r.n) ELSE n
  IN  IF e1.stop THEN Return(n, e1, INT_MIN)
      ELSE IF score >= x.beta THEN SearchEnd(n1, y, e1)
      ELSE SearchMoves(n1, k + 1, y, e1)

SearchMoves(n0, k, x, e) ==
  IF Left(n0, k) = {} THEN SearchEnd(n0, x, e)
  ELSE LET n == Picked(n0, k)
           m == n.list[k].mov
       IN  IF ~IsLegal(n.pos, m) THEN SearchMoves(n, k + 1, x, e)
           ELSE IF Pruned(n, m, x) THEN SearchMoves(n, k + 1, [x EXCEPT !.moves = @ + 1], e)
           ELSE Searched(n, k, x, m, ChildSearch(make_move(n, m), x, e))

-----------------------------------------------------------------------------
(***************************************************************************)
(* search_root(): the root's moves are legal, keep their scores of the last *)
(* iteration and their lines in pvlines.                                    *)
(***************************************************************************)
RECURSIVE RootMoves(_, _, _, _, _), RootSearched(_, _, _, _, _, _)
RootEnd(n, x, e, lines) ==
  [n |-> n, e |-> add_history(n, e), lines |-> lines,
   score |-> IF setup.failsoft THEN x.best ELSE x.alpha]

\* The k-th move has been searched, with the result r.
RootSearched(n, k, x, m, lines, r) ==
  LET score == Neg(r.score)
      e == CheckBounds(r.e, score, x.alpha, x.beta)
      y == [Better(x, score) EXCEPT !.first = FALSE]
      n1 == [IF score > x.best THEN set_best(n, m, r.n) ELSE n EXCEPT !.list[k].score = score]
      known == [q \in DOMAIN lines \cup {m} |-> IF q = m THEN r.n.line ELSE lines[q]]
  IN  IF e.stop THEN [n |-> n, e |-> e, lines |-> known, score |-> INT_MIN]
      ELSE IF score >= x.beta THEN RootEnd(n1, y, e, known)
      ELSE RootMoves(n1, k + 1, y, e, known)

RootMoves(n0, k, x, e, lines) ==
  IF Left(n0, k) = {} THEN RootEnd(n0, x, e, lines)
  ELSE LET n == Picked(n0, k)
           m == n.list[k].mov
           child == [make_move(n, m) EXCEPT !.pv = IF m \in DOMAIN lines THEN lines[m] ELSE @]
       IN  RootSearched(n, k, x, m, lines, ChildSearch(child, x, check_time(e)))

search_root ==
  RootMoves(rootnode, 1,
    [depth |-> depth, alpha |-> alpha, beta |-> beta, save |-> alpha, best |-> -INFTY,
     moves |-> 0, first |-> TRUE], env, pvlines)

\* Node::init_root(): the legal moves; one of them is best for a start.
init_root(n) ==
  LET list == generate(n.pos, LegalMoves(n.pos))
  IN  [n EXCEPT !.ply = 0, !.pv = <<>>, !.hashmv = NoMove, !.line = <<list[1].mov>>,
                !.list = list]
\* The node of the opening, from which main() replays the game.
openingnode(p) ==
  [pos |-> p, ply |-> 0, path |-> {}, played |-> NoMove, parent_played |-> NoMove,
   pv |-> <<>>, hashmv |-> NoMove, line |-> <<>>, list |-> <<>>]

(***************************************************************************)
(* iterate().                                                               *)
(***************************************************************************)
Idle == [kind |-> "none", depth |-> 0, score |-> 0, move |-> NoMove, alpha |-> 0, beta |-> 0]
Init ==
  /\ setup \in Setups
  /\ LegalMoves(setup.root) # {}
  /\ rootnode = init_root(openingnode(setup.root))
  /\ pvlines = <<>>
  /\ env = [table |-> <<>>, hist |-> <<>>, nodes |-> 0, stop |-> FALSE, broken |-> FALSE,
            met |-> {}]          \* history: positions stored, with the depth
  /\ searches = 1
  /\ depth = 1 /\ alpha = -INFTY /\ beta = INFTY
  /\ best = get_best_move(rootnode)
  /\ result = Idle

Searching == result.kind \notin {"stopped", "mate", "finished", "ended"}
\* What iterate() makes of a score.
Kind(score) ==
  IF score <= alpha /\ score > -MATE THEN "faillow"
  ELSE IF score >= beta /\ score < MATE THEN "failhigh"
  ELSE IF score >= MATE \/ score <= -MATE THEN "mate"
  ELSE IF depth = MaxDepth THEN "finished" ELSE "depth"

WindowAfter(kind, score) ==
  CASE kind = "faillow" -> <<-INFTY, beta>>
    [] kind = "failhigh" -> <<alpha, INFTY>>
    [] OTHER -> <<score - WINDOW, score + WINDOW>>

\* search_root() has returned r.
Completes(r) ==
  LET e == check_time(CheckBounds(r.e, r.score, alpha, beta))
      kind == IF e.stop THEN "stopped" ELSE Kind(r.score)
      window == WindowAfter(kind, r.score)
      completed == kind \in {"depth", "mate", "finished"}
  IN  /\ rootnode' = r.n /\ pvlines' = r.lines /\ env' = e
      /\ best' = IF completed /\ get_best_move(r.n) # NoMove THEN get_best_move(r.n) ELSE best
      /\ depth' = IF kind = "depth" THEN depth + 1 ELSE depth
      /\ alpha' = IF kind = "stopped" THEN alpha ELSE window[1]
      /\ beta' = IF kind = "stopped" THEN beta ELSE window[2]
      /\ result' = [kind |-> kind, depth |-> depth, score |-> r.score,
                    move |-> get_best_move(r.n), alpha |-> alpha, beta |-> beta]
      /\ UNCHANGED <<setup, searches>>
Iteration == Searching /\ Completes(search_root)

\* No time for another iteration, or for a wider window (stop_iteration).
NoTime ==
  /\ Searching /\ result.kind # "none"
  /\ result' = [result EXCEPT !.kind = "ended"]
  /\ UNCHANGED <<setup, rootnode, pvlines, env, searches, depth, alpha, beta, best>>

\* The move found and a reply have been played, and the game goes on.
Replies == {m \in LegalMoves(best) : {best, m} \cap setup.drawn = {} /\ LegalMoves(m) # {}}
\* main() and iterate() begin again, for the same position or the next: all is reset but
\* the hash table.
NewSearch ==
  /\ ~Searching /\ searches < MaxSearches
  /\ searches' = searches + 1
  /\ \E n \in {rootnode} \cup {make_move(make_move(rootnode, best), m) : m \in Replies} :
       /\ rootnode' = init_root(n)
       /\ best' = get_best_move(init_root(n))
  /\ pvlines' = <<>>
  /\ env' = [env EXCEPT !.hist = <<>>, !.nodes = 0, !.stop = FALSE]
  /\ depth' = 1 /\ alpha' = -INFTY /\ beta' = INFTY
  /\ result' = Idle
  /\ UNCHANGED setup

Next == Iteration \/ NoTime \/ NewSearch
Spec == Init /\ [][Next]_vars

-----------------------------------------------------------------------------
(***************************************************************************)
(* What the search is to compute: the minimax value of a position, with the *)
(* side to move free to stand pat beyond the horizon.  A position that was  *)
(* stored at a greater depth may be given the value of that depth, so that  *)
(* a value lies between two bounds; they are equal where no position was    *)
(* stored deeper than it is asked for.  Mates count from the position.      *)
(***************************************************************************)
Up(v) == IF v >= MATE THEN v - 1 ELSE IF v <= -MATE THEN v + 1 ELSE v
Negated(x) == [lo |-> Up(-x.hi), hi |-> Up(-x.lo)]
Exactly(v) == [lo |-> v, hi |-> v]
\* The best of what a side can choose from.
Best(xs) == [lo |-> Max({x.lo : x \in xs}), hi |-> Max({x.hi : x \in xs})]
\* One of several, nobody knows which.
Either(xs) == [lo |-> Min({x.lo : x \in xs}), hi |-> Max({x.hi : x \in xs})]

\* The value of a position searched to a depth, given those of later layers.
Minimax(p, d, values) ==
  LET Reply(m) == Negated(values[m][IF d = 0 THEN 0 ELSE d - 1])
      tried == IF in_check(p) THEN LegalMoves(p) ELSE Captures(p) \cap LegalMoves(p)
  IN  IF d = 0 THEN Best({Exactly(material_balance(p) + setup.positional[p])}
                         \cup {Reply(m) : m \in tried})
      ELSE IF p \in setup.drawn THEN Exactly(DRAW)
      ELSE IF LegalMoves(p) = {} THEN Exactly(IF in_check(p) THEN -INFTY ELSE DRAW)
      ELSE Best({Reply(m) : m \in LegalMoves(p)})

\* The values of all positions, from the last layer to the first.
Layer(k) == {p \in DOMAIN setup.moves : p[1] = k}
Layers == {p[1] : p \in DOMAIN setup.moves}
LayerValues(k, values) ==
  [p \in Layer(k) |->
     LET own == [d \in 0 .. MaxDepth |-> Minimax(p, d, values)]
     IN  [d \in 0 .. MaxDepth |->
            Either({own[d]} \cup {own[x] : x \in {y \in d .. MaxDepth : <<p, y>> \in env.met}})]]
Values ==
  LET last == Max(Layers)
      from[k \in 0 .. last] ==
        IF k = 0 THEN LayerValues(last, <<>>)
        ELSE LET later == from[k - 1] IN later @@ LayerValues(last - k, later)
  IN  from[last - rootnode.pos[1]]
\* The value of the root is not taken from the table.
RootValue(d, values) == Best({Negated(values[m][d - 1]) : m \in LegalMoves(rootnode.pos)})
Within(v, x) == x.lo <= v /\ v <= x.hi

\* A game without null moves in which no material is worth a pruning, and in
\* which nobody is mated beyond the horizon if scores are not bounded.
Calm == setup.calm
Completed == result.kind \in {"depth", "mate", "finished"}
CompletedDepth == IF result.kind \in {"mate", "finished"} THEN depth ELSE depth - 1

\* A completed iteration returns the minimax value of its depth and a move that has it,
\* whatever the window it began with, the order of moves, the variant of the search and
\* what earlier searches have left in the hash table, the entries of the cases of the
\* FIXME included; a position that was stored deeper than it is asked for may have its
\* deeper value.  However the search ends, the move
\* that iterate() returns is the best one at the last depth completed.
IterationExact ==
  Calm =>
    LET values == Values IN
    /\ Completed => Within(result.score, RootValue(result.depth, values))
    /\ CompletedDepth > 0 => Negated(values[best][CompletedDepth - 1]).hi
                                >= RootValue(CompletedDepth, values).lo

\* The program's own check never fires: without the fail-soft option every
\* search returns a score within its window.
FailHard == ~env.broken

\* What the hash table holds is true at the depth it was stored with, after an abort in
\* the middle, in later searches and for every distance from the root.  The entries of
\* the cases of the FIXME are not: they are known to be on the wrong side.
EntriesSound ==
  Calm /\ ~setup.failsoft =>
    LET values == Values IN
    \A p \in {q \in DOMAIN env.table : q[1] >= rootnode.pos[1] /\ ~env.table[q].fixme} :
      LET entry == env.table[p]
          value == values[p][entry.depth]
      IN  CASE entry.type = "EXACT" -> Within(entry.score, value)
            [] entry.type = "ALPHA" -> value.lo <= entry.score
            [] entry.type = "BETA" -> value.hi >= entry.score

\* Whether the side to move can force mate.
RECURSIVE Mates(_), IsMated(_)
Mates(p) == p \notin setup.drawn /\ \E m \in LegalMoves(p) : IsMated(m)
IsMated(p) ==
  /\ p \notin setup.drawn
  /\ in_check(p) \/ LegalMoves(p) # {}
  /\ \A m \in LegalMoves(p) : Mates(m)

\* "When a mate is detected, we can stop immediately": a search that ends because a mate
\* was found has found one, in the sharpest of games, and not an artefact of a window, of
\* a pruning or of an entry met again at another ply or in a later search, the entries of
\* the cases of the FIXME included.
MateIsReal ==
  ~setup.failsoft /\ result.kind = "mate" =>
    IF result.score >= MATE THEN IsMated(result.move) ELSE IsMated(rootnode.pos)
===============================================================================
