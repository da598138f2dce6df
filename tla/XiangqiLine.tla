----------------------------- MODULE XiangqiLine -----------------------------
(***************************************************************************)
(* A line of nodes as the search of hoixiangqi walks it, from the root down *)
(* to the current node: Search::search() makes a move or a null move, and   *)
(* is_repetition() looks back along the line, for perpetual check too.      *)
(***************************************************************************)
EXTENDS XiangqiBoard

CONSTANT
  Openings   \* [board, plies]: a board that parse_fen() has accepted at the
             \* root, and a bound on the moves made from it

VARIABLES
  line,      \* the nodes, each [board, incheck, played_move]
  left       \* the plies that are left
vars == <<line, left>>

Node(b, m) == [board |-> b, incheck |-> in_check(b), played_move |-> m]
node == Last(line)
board == node.board

Init == \E o \in Openings : line = <<Node(o.board, NO_MOVE)>> /\ left = o.plies

MakeMove ==
  /\ left > 0
  /\ \E m \in LegalMoves(board) : line' = Append(line, Node(make_move(board, m), m))
  /\ left' = left - 1

\* The test for a null move before looks at the parent of the node.
MakeNullMove ==
  /\ left > 0
  /\ Len(line) > 1
  /\ ~node.incheck
  /\ line[Len(line) - 1].played_move # NullMove
  /\ line' = Append(line, Node(make_move(board, NullMove), NullMove))
  /\ left' = left - 1

Next == MakeMove \/ MakeNullMove
Spec == Init /\ [][Next]_vars

(***************************************************************************)
(* Search::is_repetition(): whether the current node is scored as a         *)
(* repetition, and for whom.  The distance from the root, which makes one   *)
(* lost game better than another, is left out.                              *)
(***************************************************************************)
\* The loop from the current node up: it stops at an irreversible move and at
\* the first node with the same key.
Stop == Max({i \in DOMAIN line : is_irreversible(line[i].played_move)} \cup {0})
Same == {i \in Stop + 1 .. Len(line) - 1 : line[i].board.hashkey = board.hashkey}

\* Who has moved last is found by the wrong parity.
IsRepetitionFault ==
  LET first == Max(Same)
      Always(k) == \A i \in first .. Len(line) : (Len(line) - i) % 2 = k => line[i].incheck
  IN  IF Same = {} THEN "open"
      ELSE IF Always(0) = Always(1) THEN "draw"
      ELSE IF Always(0) THEN "lost" ELSE "won"

\* A node is in check if the move to it was one: at even distances from the
\* current node those of the side that does not move now.
is_repetition ==
  LET first == Max(Same)
      Always(k) == \A i \in first .. Len(line) : (Len(line) - i) % 2 = k => line[i].incheck
  IN  IF Same = {} THEN "open"
      ELSE IF Always(0) = Always(1) THEN "draw"
      ELSE IF Always(1) THEN "lost" ELSE "won"

-----------------------------------------------------------------------------
(***************************************************************************)
(* What a board says twice: its arrays, and what is kept beside them.       *)
(***************************************************************************)
Keys == {Key(c, p, sq) : c \in Colors, p \in Pieces, sq \in Squares} \cup {SideKey}
Boards ==
  [side : Colors, moveno : Nat, movecnt50 : Nat,
   position_pieces : [Squares -> Pieces \cup {NO_PIECE}],
   position_colors : [Squares -> Colors \cup {NO_COLOR}],
   king : [Colors -> Squares], material : [Colors -> Int], pce_movecnt : [Squares -> Nat],
   hashkey : SUBSET Keys, pawnhashkey : SUBSET Keys]

Standing(b, c, ps) == {sq \in Squares : color_at(b, sq) = c /\ piece_at(b, sq) \in ps}
Worth(b, c, p) == mat_values[p] * Cardinality(Standing(b, c, {p}))
MaterialOf(b, c) ==
  Worth(b, c, PAWN) + Worth(b, c, GUARD) + Worth(b, c, ELEPHANT)
    + Worth(b, c, KNIGHT) + Worth(b, c, CANNON) + Worth(b, c, ROOK)
KeysOf(b, ps) == UNION {{Key(c, piece_at(b, sq), sq) : sq \in Standing(b, c, ps)} : c \in Colors}
SideKeys(b) == IF b.side = BLACK THEN {SideKey} ELSE {}

StateExact(b) ==
  /\ b \in Boards
  /\ \A sq \in Squares : Occupied(b, sq) <=> piece_at(b, sq) # NO_PIECE
  /\ \A c \in Colors : Standing(b, c, {KING}) = {b.king[c]}
  /\ \A c \in Colors : b.material[c] = MaterialOf(b, c)
  /\ b.hashkey = KeysOf(b, Pieces) \cup SideKeys(b)
  /\ b.pawnhashkey = KeysOf(b, {PAWN}) \cup SideKeys(b)
  /\ \A sq \in Squares : ~Occupied(b, sq) => b.pce_movecnt[sq] = 0

\* The position that the rules of xiangqi see.
Kind == <<"soldier", "advisor", "elephant", "horse", "cannon", "chariot", "general">>
Side(c) == IF c = WHITE THEN "white" ELSE "black"
Abstract(b) ==
  [at |-> [s \in (0 .. 8) \X (0 .. 9) |->
             LET sq == SQUARE(s[2], s[1])
             IN  IF ~Occupied(b, sq) THEN [side |-> "none", kind |-> "none"]
                 ELSE [side |-> Side(color_at(b, sq)), kind |-> Kind[piece_at(b, sq) + 1]]],
   turn |-> Side(b.side)]

Rules == INSTANCE Xiangqi WITH position <- Abstract(board)

\* What parse_fen() sets up for a position that the rules know, and accepts.
ASSUME OpeningsAssumption ==
  \A o \in Openings :
    /\ o.plies \in Nat /\ o.board.movecnt50 = 0
    /\ StateExact(o.board) /\ is_legal(o.board) /\ Rules!Possible(Abstract(o.board))

\* Refinement: every move made along a line is one that the rules of xiangqi
\* allow, with the river, the palaces, the blocked horses and elephants, the
\* screens of the cannons and the generals that must not face each other.
FollowsTheRules == Rules!Spec

\* generate_captures() and generate_noncaptures() miss no move: as many legal
\* moves are generated as the rules know, and in_check() agrees with them.
NoMoveMissing ==
  /\ Cardinality(LegalMoves(board)) = Cardinality(Rules!Successors(Abstract(board)))
  /\ node.incheck = Rules!InCheck(Abstract(board).at, Side(board.side))
  /\ \A m \in generate_moves(board) : is_valid_move(board, m)

\* Everything make_move() updates incrementally is what a computation from the
\* arrays gives, and movecnt50 counts the plies since the last irreversible move.
IncrementalStateExact ==
  StateExact(board) /\ board.movecnt50 = Len(line) - Max({Stop, 1})

\* "If between the repeating positions, one side always checks but the other
\* side does not, a mate score is returned" (search.cc:1002): told from the
\* moves that were made and from the positions, by the rules. No repetition is
\* lost by the end of the search at an irreversible move, except one of the very
\* position that the move led to.
Position(i) == Abstract(line[i].board)
PerpetualCheckLoses ==
  LET n == Len(line)
      seen == {i \in 1 .. n - 1 : Position(i) = Position(n)}
      first == Max(seen)
      MovesOf(c) == {i \in first + 1 .. n : Position(i - 1).turn = c}
      Checks(c) == \A i \in MovesOf(c) : Rules!InCheck(Position(i).at, Position(i).turn)
      mover == Position(n).turn
      other == Rules!Other(mover)
  IN  CASE seen = {} -> is_repetition = "open"
        [] seen # {} /\ is_irreversible(line[first].played_move) -> is_repetition = "open"
        [] seen # {} /\ ~is_irreversible(line[first].played_move) ->
             is_repetition = (IF Checks(mover) /\ ~Checks(other) THEN "lost"
                              ELSE IF Checks(other) /\ ~Checks(mover) THEN "won"
                              ELSE "draw")
=============================================================================
