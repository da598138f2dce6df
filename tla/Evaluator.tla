------------------------------ MODULE Evaluator ------------------------------
(***************************************************************************)
(* The evaluation of a chess board (common/eval.cc, chess/eval.cc) with the *)
(* two caches it keeps: the pawn hash table (common/pawnhash.cc), which     *)
(* remembers the score of a pawn structure, and the evaluation cache        *)
(* (common/evalcache.cc), which remembers the score of a position.  The     *)
(* evaluator is composed with the board: every board that moves lead to is  *)
(* evaluated, with the caches as the boards before it have left them.       *)
(*                                                                         *)
(* Words of the caches' arrays are reached by hashkey % size.  With hash    *)
(* keys as sets of random numbers, both tables have two slots and all the   *)
(* random numbers are odd.                                                  *)
(***************************************************************************)
EXTENDS Board, Sequences

CONSTANT Windows   \* the windows (alpha, beta) that eval() is called with

INFTY == 100000
ASSUME WindowsAssumption == \A w \in Windows : w \in ((-INFTY) .. INFTY) \X ((-INFTY) .. INFTY)
OPENING == "OPENING"
MIDGAME == "MIDGAME"
ENDGAME == "ENDGAME"
Phases == {OPENING, MIDGAME, ENDGAME}

EVAL_CUTOFF_MATERIAL == 150
EVAL_CUTOFF_PHASE1 == 5

\* Division as C does it, towards zero.
Quot(a, b) == IF a >= 0 THEN a \div b ELSE -((-a) \div b)

material_balance(ms, mxs) == Quot((8192 - (ms + mxs) + 65536) * (ms - mxs), 65536)

get_phase(b) ==
  LET mat == b.material[WHITE] + b.material[BLACK]
  IN  IF mat > 7000 THEN OPENING ELSE IF mat > 3200 THEN MIDGAME ELSE ENDGAME

-----------------------------------------------------------------------------
(***************************************************************************)
(* Tables, the first number for A1.                                         *)
(***************************************************************************)
pawn_scores == [phase \in Phases |->
  CASE phase = OPENING ->
    << 0,  0,  0,  0,  0,  0,  0,  0,     8,  5,  8,-10,-15,  8,  5,  8,
      -5,  5,  0, -8, -8,  0,  5, -5,    -5, -5, -5, 24, 32, -5, -5, -5,
       0,  0,  0, 12, 12,  0,  0,  0,     0,  0,  8,  8,  8,  8,  0,  0,
       0,  8,  8,  8,  8,  8,  8,  0,     0,  0,  0,  0,  0,  0,  0,  0>>
  [] phase = MIDGAME ->
    << 0,  0,  0,  0,  0,  0,  0,  0,     5,  5,  4,-25,-25,  4,  5,  5,
       0,  0,  0,-10,-10,  0,  0,  0,     0,  0,  0, 32, 32,  0,  0,  0,
       0,  0,  0, 12, 12,  0,  0,  0,     0,  0,  8,  8,  8,  8,  0,  0,
       0,  8,  8,  8,  8,  8,  8,  0,     0,  0,  0,  0,  0,  0,  0,  0>>
  [] phase = ENDGAME -> [i \in 1 .. 64 |-> <<0, 0, 2, 4, 8, 12, 16, 0>>[RNK(i - 1) + 1]]]

\* The distance of a square from the edge: 0 on the rim, 3 in the centre.
Centre(sq) == LET Depth(n) == IF n < 4 THEN n ELSE 7 - n
              IN  IF Depth(RNK(sq)) < Depth(FIL(sq)) THEN Depth(RNK(sq)) ELSE Depth(FIL(sq))
Corners4 == {0, 7, 56, 63}
knight_scores == [sq \in Squares |->
  IF sq \in Corners4 THEN -15 ELSE <<-5, 0, 5, 10>>[Centre(sq) + 1]]
king_scores == [sq \in Squares |->
  CASE RNK(sq) \in {0, 7} -> <<12, 12, 10, 0, 0, 10, 16, 16>>[FIL(sq) + 1]
    [] RNK(sq) \notin {0, 7} -> <<0, -70, -75, -80>>[Centre(sq) + 1]]
king_scores_endgame == [sq \in Squares |-> <<0, 5, 15, 20>>[Centre(sq) + 1]]
control_score == [sq \in Squares |-> Centre(sq) + 1]
control_maxattackers == [sq \in Squares |-> <<5, 5, 7, 8>>[Centre(sq) + 1]]

passed_pawn_mask == [side \in Colors |-> [sq \in Squares |->
  {to \in Squares : /\ Abs(Files(sq, to)) <= 1
                    /\ IF side = WHITE THEN Ranks(sq, to) > 0 ELSE Ranks(sq, to) < 0}]]
isolated_pawn_mask == [sq \in Squares |-> {to \in Squares : Abs(Files(sq, to)) <= 1}]
connected_pawn_mask == [sq \in Squares |-> attack_bb[KING][sq] \ file[FIL(sq)]]

-----------------------------------------------------------------------------
(***************************************************************************)
(* The scoring plugins: what one side is given beyond its material.         *)
(***************************************************************************)
Bonus(condition, score) == IF condition THEN score ELSE 0
Rank8(side) == IF side = WHITE THEN 7 ELSE 0
Rank7(side) == IF side = WHITE THEN 6 ELSE 1

\* Without the reflection of Black's squares.
TableSquareFault(side, sq) == sq
TableSquare(side, sq) == IF side = WHITE THEN sq ELSE SQUARE(7 - RNK(sq), FIL(sq))

Passed(b, side) ==
  {sq \in b.position[side][PAWN] :
     passed_pawn_mask[side][sq] \cap b.position[XSIDE(side)][PAWN] = {}}

\* Pawns are visited from H8 down to A1; the bonus for a connected passed pawn
\* is given if one visited before is a neighbour.
score_passed(b, side, sq) ==
  25 + (80 \div Abs(Rank8(side) - RNK(sq)))
     + Bonus(\E pp \in Passed(b, side) : pp > sq /\ pp \in connected_pawn_mask[sq], 20)

isolated_pawn(b, side, sq) == isolated_pawn_mask[sq] \cap b.position[side][PAWN] = {}

score_pawns(b, phase, side) ==
  LET pawns == b.position[side][PAWN]
      doubled == {f \in 0 .. 7 : Cardinality(pawns \cap file[f]) > 1}
      score == [sq \in pawns |-> pawn_scores[phase][TableSquare(side, sq) + 1]
                                   + Bonus(isolated_pawn(b, side, sq), -10)
                                   + Bonus(sq \in Passed(b, side), score_passed(b, side, sq))]
  IN  SumFunction(score) - 5 * Cardinality(doubled)

score_knights(b, side) ==
  SumFunction([sq \in b.position[side][KNIGHT] |->
    knight_scores[sq] + 2 * Cardinality(attack_bb[KNIGHT][sq] \ b.position_all[side])])

score_bishops(b, side) ==
  SumFunction([sq \in b.position[side][BISHOP] |->
    2 * Cardinality(bishop_attacks(b, sq) \ b.position_all[side])
      + 25 * Cardinality(pawn_captures(b, sq, XSIDE(side)) \cap b.position[side][PAWN])
      + Bonus(RNK(sq) = Rank7(XSIDE(side)) /\ FIL(sq) \in {1, 6}, 15)])

\* A rook before a passed pawn of its side is in the way, one behind supports it.
score_rook_passed(passed, side, sq) ==
  LET pps == passed \cap file[FIL(sq)]
      ahead == {pp \in pps : IF side = WHITE THEN Ranks(pp, sq) > 0 ELSE Ranks(pp, sq) < 0}
      behind == {pp \in pps \ ahead : Ranks(pp, sq) # 0}
  IN  25 * Cardinality(behind) - 15 * Cardinality(ahead)

score_rooks(b, phase, passed, side) ==
  LET theirs == b.position[XSIDE(side)]
      Open(pawns, sq) == file[FIL(sq)] \cap pawns = {}
  IN  SumFunction([sq \in b.position[side][ROOK] |->
        2 * Cardinality(rook_attacks(b, sq) \ b.position_all[side])
          + Bonus(phase # ENDGAME /\ RNK(sq) # Rank8(XSIDE(side)), -10)
          + Bonus(Open(b.position[side][PAWN], sq), IF Open(theirs[PAWN], sq) THEN 10 ELSE 5)
          + Bonus(phase # ENDGAME /\ RNK(sq) = Rank7(side),
               Bonus(theirs[PAWN] \cap rank[Rank7(side)] # {}, 20)
                 + Bonus(RNK(b.king[XSIDE(side)]) = Rank8(side), 50))
          + score_rook_passed(passed, side, sq)])

score_queens(b, side) ==
  SumFunction([sq \in b.position[side][QUEEN] |->
    Cardinality(queen_attacks(b, sq) \ b.position_all[side])])

\* The wings of the first two ranks, where a king has a shield of pawns.
Wings(r) == {sq \in rank[r] : FIL(sq) \notin {3, 4}}
score_king(b, phase, side) ==
  LET k == b.king[side]
      shield == attack_bb[KING][k] \cap Wings(Rank7(XSIDE(side))) \cap b.position[side][PAWN]
  IN  IF phase = ENDGAME THEN king_scores_endgame[k]
      ELSE king_scores[k] + Bonus(k \in Wings(Rank8(XSIDE(side))), 8 * Cardinality(shield))

score_devel(b, phase, side) ==
  LET own == b.position[side]
      moved == {sq \in Squares : b.pce_movecnt[sq] > 0}
  IN  Bonus(phase = OPENING,
         -15 * Cardinality((own[KNIGHT] \cup own[BISHOP]) \ moved)
           - 20 * Cardinality(own[ROOK] \cap moved)
           - 25 * Cardinality(own[QUEEN] \cap moved)
           + (IF b.has_castled[side] THEN 32 ELSE Bonus(b.flags \cap FlagsOf(side) # {}, 16)))

score_combo(b, side) ==
  SumFunction([q \in b.position[side][QUEEN] |->
    15 * Cardinality(bishop_attacks(b, q) \cap b.position[side][BISHOP])
      + 30 * Cardinality(rook_attacks(b, q) \cap b.position[side][ROOK])])

score_control(b, side) ==
  SumFunction([sq \in Squares |->
    LET n == Cardinality(attackers(b, sq, side))
    IN  control_score[sq] * (IF n < control_maxattackers[sq]
                               THEN n ELSE control_maxattackers[sq])])

-----------------------------------------------------------------------------
(***************************************************************************)
(* The caches.                                                              *)
(***************************************************************************)
Slots == {0, 1}
Slot(hashkey) == Cardinality(hashkey) % 2
Holds(e, hashkey) == DOMAIN e # {} /\ e.hashkey = hashkey   \* an empty word is <<>>
get_hashkey_noside(b) == b.hashkey \ {SideKey}

\* The score is kept as it is, whoever is to move.
put_fault(b, score) == [hashkey |-> get_hashkey_noside(b), score |-> score]
put(b, score) ==
  [hashkey |-> get_hashkey_noside(b),
   score |-> IF b.side = WHITE THEN score ELSE -score]
Probe(evalcache, b) ==
  LET e == evalcache[Slot(get_hashkey_noside(b))]
  IN  {IF b.side = WHITE THEN f.score ELSE -f.score :
         f \in {g \in {e} : Holds(g, get_hashkey_noside(b))}}

\* Any entry of the pawn structure will do.
PawnEntryFault(table, b, phase) ==
  {e \in {table[Slot(b.pawnhashkey)]} : Holds(e, b.pawnhashkey)}
PawnEntry(table, b, phase) ==
  {e \in {table[Slot(b.pawnhashkey)]} : Holds(e, b.pawnhashkey) /\ e.phase = phase}

\* What score_pawns() finds or works out for both sides and finish() stores.
Pawns(table, b, phase) ==
  IF PawnEntry(table, b, phase) # {}
    THEN [(CHOOSE e \in PawnEntry(table, b, phase) : TRUE) EXCEPT !.phase = phase]
    ELSE [hashkey |-> b.pawnhashkey, phase |-> phase,
          score |-> [c \in Colors |-> score_pawns(b, phase, c)],
          passed |-> [c \in Colors |-> Passed(b, c)]]

\* The sums of the plugins of both phases, for the side to move.
Difference(scores, side) == scores[side] - scores[XSIDE(side)]
Phase1(b, phase, pawns) ==
  LET Plugins(c) ==
        pawns.score[c] + score_knights(b, c) + score_bishops(b, c)
          + score_rooks(b, phase, pawns.passed[c], c) + score_queens(b, c)
          + score_king(b, phase, c) + score_devel(b, phase, c) + score_combo(b, c)
  IN  Difference([c \in Colors |-> Plugins(c)], b.side)
Phase2(b) == Difference([c \in Colors |-> score_control(b, c)], b.side)

Balance(b) == material_balance(b.material[b.side], b.material[XSIDE(b.side)])
CutOff(b, window) == \/ Balance(b) >= window[2] + EVAL_CUTOFF_MATERIAL
                     \/ Balance(b) <= window[1] - EVAL_CUTOFF_MATERIAL

\* The second phase only if the first decides little.
Refined(b, score1) == score1 + Bonus(Abs(score1) <= EVAL_CUTOFF_PHASE1, Phase2(b))
Positional(b, phase, pawns) == Balance(b) + Refined(b, Phase1(b, phase, pawns))

(***************************************************************************)
(* The evaluator: its two caches and the last call of eval().               *)
(***************************************************************************)
VARIABLE evaluator
EmptyTable == [s \in Slots |-> <<>>]
NoEvaluation == [pawnhash |-> EmptyTable, evalcache |-> EmptyTable,
                 window |-> <<0, 0>>, score |-> 0]

Scored(ev, b, pawns, score) ==
  [ev EXCEPT !.pawnhash[Slot(b.pawnhashkey)] = pawns,
             !.evalcache[Slot(get_hashkey_noside(b))] = put(b, score),
             !.score = score]
Worked(ev, b, pawns) == Scored(ev, b, pawns, Positional(b, get_phase(b), pawns))
Looked(ev, b, hits) ==
  IF hits # {} THEN [ev EXCEPT !.score = CHOOSE s \in hits : TRUE]
  ELSE Worked(ev, b, Pawns(ev.pawnhash, b, get_phase(b)))

eval(ev, b, window) ==
  IF CutOff(b, window) THEN [ev EXCEPT !.window = window, !.score = Balance(b)]
  ELSE Looked([ev EXCEPT !.window = window], b, Probe(ev.evalcache, b))

evars == <<board, ply, evaluator>>
EInit == Init /\ \E w \in Windows : evaluator = eval(NoEvaluation, board, w)
Evaluate == \E w \in Windows : evaluator' = eval(evaluator, board', w)
ENext == (MakeMove /\ Evaluate) \/ (MakeNullMove /\ Evaluate)
ESpec == EInit /\ [][ENext]_evars

-----------------------------------------------------------------------------
\* The evaluation of a board without caches and cut-offs.
Fresh(b) == eval(NoEvaluation, b, <<-INFTY, INFTY>>).score

\* What the caches return is what would be worked out: an entry is used only for
\* the position, the side and the phase it is true of.  In the opening the score
\* depends on moves the key does not tell (see score_devel): there the property
\* says nothing.
CachesExact ==
  ~CutOff(board, evaluator.window) /\ get_phase(board) # OPENING =>
    evaluator.score = Fresh(board)

\* The board with colours and ranks exchanged.
Flip(sq) == IF sq = NO_SQUARE THEN sq ELSE SQUARE(7 - RNK(sq), FIL(sq))
FlipAll(sqs) == {Flip(sq) : sq \in sqs}
FlipFlag == [WKCASTLE |-> "BKCASTLE", WQCASTLE |-> "BQCASTLE",
             BKCASTLE |-> "WKCASTLE", BQCASTLE |-> "WQCASTLE"]
Mirror(b) ==
  [b EXCEPT !.side = XSIDE(@),
            !.position = [c \in Colors |-> [p \in Pieces |-> FlipAll(b.position[XSIDE(c)][p])]],
            !.position_all = [c \in Colors |-> FlipAll(b.position_all[XSIDE(c)])],
            !.occupied = FlipAll(@),
            !.king = [c \in Colors |-> Flip(b.king[XSIDE(c)])],
            !.flags = {FlipFlag[f] : f \in @}, !.epsq = Flip(@),
            !.material = [c \in Colors |-> b.material[XSIDE(c)]],
            !.has_castled = [c \in Colors |-> b.has_castled[XSIDE(c)]],
            !.pce_movecnt = [sq \in Squares |-> b.pce_movecnt[Flip(sq)]]]

\* No passed pawn has two passed neighbours.  The bonus of a longer chain depends
\* on the order in which its pawns are visited.
AtMostPairs(b) ==
  \A c \in Colors : \A sq \in Passed(b, c) :
    Cardinality(connected_pawn_mask[sq] \cap Passed(b, c)) <= 1

\* Neither colour is favoured: the same position with colours exchanged has the
\* same score for the side to move.
EvalMirrored == AtMostPairs(board) => Fresh(Mirror(board)) = Fresh(board)
=============================================================================
