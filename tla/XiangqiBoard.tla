---------------------------- MODULE XiangqiBoard ----------------------------
(***************************************************************************)
(* The xiangqi board (xiangqi/board.cc, board_attack.cc, board_generate.cc, *)
(* board_util.cc): two arrays of pieces and colors, and beside them the     *)
(* state that make_move() keeps up to date.                                 *)
(*                                                                         *)
(* A hash key is the set of the random numbers that have been xor-ed into   *)
(* it, and a Movelist is the set of its moves.                              *)
(***************************************************************************)
EXTENDS Integers, Sequences, FiniteSets, FiniteSetsExt, SequencesExt

WHITE == 0
BLACK == 1
Colors == {WHITE, BLACK}
NO_COLOR == -1
XSIDE(side) == 1 - side

PAWN == 0
GUARD == 1
ELEPHANT == 2
KNIGHT == 3
CANNON == 4
ROOK == 5
KING == 6
Pieces == PAWN .. KING
NO_PIECE == -1
mat_values == [p \in Pieces |->
  CASE p = PAWN -> 100 [] p \in {GUARD, ELEPHANT} -> 200 [] p = KNIGHT -> 400
    [] p = CANNON -> 450 [] p = ROOK -> 900 [] p = KING -> 0]

Squares == 0 .. 89     \* A0 = 0, B0 = 1, ..., I9 = 89
NO_SQUARE == -1
FIL(sq) == sq % 9
RNK(sq) == sq \div 9
SQUARE(rnk, fil) == rnk * 9 + fil

(***************************************************************************)
(* Moves.                                                                   *)
(***************************************************************************)
Move(from, to, ptype, cap_ptype, flag) ==
  [from |-> from, to |-> to, ptype |-> ptype, cap_ptype |-> cap_ptype, flag |-> flag]
Normal(from, to, ptype) == Move(from, to, ptype, NO_PIECE, "NORMAL")
Capture(from, to, ptype, cap) == Move(from, to, ptype, cap, "CAPTURE")
NullMove == Move(NO_SQUARE, NO_SQUARE, NO_PIECE, NO_PIECE, "NULL")
NO_MOVE == Move(NO_SQUARE, NO_SQUARE, NO_PIECE, NO_PIECE, "NONE")

is_irreversible(m) ==
  \/ m.ptype = PAWN /\ RNK(m.from) # RNK(m.to)
  \/ m.flag = "CAPTURE"

(***************************************************************************)
(* The parts of a board and their elementary changes.                       *)
(***************************************************************************)
Key(side, p, sq) == <<"piece", side, p, sq>>
SideKey == <<"side">>

EmptyBoard ==
  [side |-> WHITE, moveno |-> 1, movecnt50 |-> 0,
   position_pieces |-> [sq \in Squares |-> NO_PIECE],
   position_colors |-> [sq \in Squares |-> NO_COLOR],
   king |-> [c \in Colors |-> NO_SQUARE], material |-> [c \in Colors |-> 0],
   pce_movecnt |-> [sq \in Squares |-> 0], hashkey |-> {}, pawnhashkey |-> {}]

color_at(b, sq) == b.position_colors[sq]
piece_at(b, sq) == b.position_pieces[sq]
Occupied(b, sq) == color_at(b, sq) # NO_COLOR

\* What both keys gain and lose when a piece appears on or leaves squares.
Rekey(b, side, p, sqs) ==
  LET keys == {Key(side, p, sq) : sq \in sqs}
  IN  [b EXCEPT !.hashkey = SymDiff(@, keys),
                !.pawnhashkey = IF p = PAWN THEN SymDiff(@, keys) ELSE @]

place_piece(b, sq, side, p) ==
  Rekey([b EXCEPT !.position_pieces[sq] = p, !.position_colors[sq] = side,
                  !.king[side] = IF p = KING THEN sq ELSE @,
                  !.material[side] = @ + mat_values[p]], side, p, {sq})

remove_piece(b, sq, side, p) ==
  Rekey([b EXCEPT !.position_pieces[sq] = NO_PIECE, !.position_colors[sq] = NO_COLOR,
                  !.king[side] = IF p = KING THEN NO_SQUARE ELSE @,
                  !.material[side] = @ - mat_values[p]], side, p, {sq})

move_piece(b, from, to, side, p) ==
  Rekey([b EXCEPT !.position_pieces = [@ EXCEPT ![from] = NO_PIECE, ![to] = p],
                  !.position_colors = [@ EXCEPT ![from] = NO_COLOR, ![to] = side],
                  !.king[side] = IF p = KING THEN to ELSE @], side, p, {from, to})

switch_sides(b) ==
  [b EXCEPT !.side = XSIDE(@), !.hashkey = SymDiff(@, {SideKey}),
            !.pawnhashkey = SymDiff(@, {SideKey})]

\* The captured piece is overwritten and not removed.
MovePiecesFault(b, m) ==
  IF m.flag = "NULL" THEN b ELSE move_piece(b, m.from, m.to, b.side, m.ptype)
MovePieces(b, m) ==
  LET taken == IF m.flag = "CAPTURE"
                 THEN remove_piece(b, m.to, XSIDE(b.side), m.cap_ptype) ELSE b
  IN  IF m.flag = "NULL" THEN b ELSE move_piece(taken, m.from, m.to, b.side, m.ptype)

make_move(b, m) ==
  [switch_sides(MovePieces(b, m)) EXCEPT
     !.moveno = IF b.side = BLACK THEN @ + 1 ELSE @,
     !.movecnt50 = IF is_irreversible(m) THEN 0 ELSE @ + 1,
     !.pce_movecnt = IF m.flag = "NULL" THEN @
                     ELSE [@ EXCEPT ![m.to] = b.pce_movecnt[m.from] + 1, ![m.from] = 0]]

(***************************************************************************)
(* Attacks.  The code steps on a mailbox of 13 by 14 squares; a step is     *)
(* here a pair of ranks and files, and leads to NO_SQUARE off the board.    *)
(***************************************************************************)
Step(from, d, n) ==
  LET r == RNK(from) + (n * d[1])
      f == FIL(from) + (n * d[2])
  IN  IF r \in 0 .. 9 /\ f \in 0 .. 8 THEN SQUARE(r, f) ELSE NO_SQUARE

Straight == {<<0, 1>>, <<1, 0>>, <<0, -1>>, <<-1, 0>>}
Diagonal == {<<1, -1>>, <<1, 1>>, <<-1, 1>>, <<-1, -1>>}
palace == {sq \in Squares : FIL(sq) \in 3 .. 5 /\ RNK(sq) \in (0 .. 2) \cup (7 .. 9)}
half == [side \in Colors |-> {sq \in Squares : (RNK(sq) <= 4) = (side = WHITE)}]

pawn_attacks(from, side) ==
  LET forward == IF side = WHITE THEN <<1, 0>> ELSE <<-1, 0>>
      crossed == from \notin half[side]
  IN  {Step(from, d, 1) : d \in {forward} \cup (IF crossed THEN {<<0, 1>>, <<0, -1>>} ELSE {})}
        \cap Squares
guard_attacks(from) == {Step(from, d, 1) : d \in Diagonal} \cap palace
king_attacks(from) == {Step(from, d, 1) : d \in Straight} \cap palace
elephant_attacks(b, from, side) ==
  {Step(from, d, 2) : d \in {e \in Diagonal : /\ Step(from, e, 1) \in half[side]
                                              /\ ~Occupied(b, Step(from, e, 1))}}
    \cap half[side]

\* The piece that blocks the leg is forgotten.
KnightAttacksFault(b, from) ==
  {to \in Squares : {(RNK(to) - RNK(from)) * (RNK(to) - RNK(from)),
                     (FIL(to) - FIL(from)) * (FIL(to) - FIL(from))} = {1, 4}}
\* The knight makes one step straight on, to a free square, and one diagonally.
knight_attacks(b, from) ==
  LET legs == {x \in Straight : /\ Step(from, x, 1) # NO_SQUARE
                               /\ ~Occupied(b, Step(from, x, 1))}
      Onward(d) == {e \in Diagonal : (e[1] * d[1]) + (e[2] * d[2]) = 1}
      Leap(d, e) == Step(from, <<d[1] + e[1], d[2] + e[2]>>, 1)
  IN  (UNION {{Leap(d, e) : e \in Onward(d)} : d \in legs}) \cap Squares

\* How many pieces stand before the n-th square of a line.
Screens(b, from, d, n) == Cardinality({i \in 1 .. n - 1 : Occupied(b, Step(from, d, i))})
\* The directions and distances that stay on the board.
Reach(from) == {l \in Straight \X (1 .. 9) : Step(from, l[1], l[2]) # NO_SQUARE}
rook_attacks(b, from) ==
  {Step(from, l[1], l[2]) : l \in {x \in Reach(from) : Screens(b, from, x[1], x[2]) = 0}}
\* Moves to an empty square, captures over one piece.
cannon_attacks(b, from, side) ==
  {Step(from, l[1], l[2]) : l \in {x \in Reach(from) :
    LET to == Step(from, x[1], x[2])
    IN  \/ Screens(b, from, x[1], x[2]) = 0 /\ ~Occupied(b, to)
        \/ Screens(b, from, x[1], x[2]) = 1 /\ color_at(b, to) = XSIDE(side)}}

Attacks(b, from) ==
  LET side == color_at(b, from)
      p == piece_at(b, from)
  IN  CASE p = PAWN -> pawn_attacks(from, side)
        [] p = GUARD -> guard_attacks(from)
        [] p = ELEPHANT -> elephant_attacks(b, from, side)
        [] p = KNIGHT -> knight_attacks(b, from)
        [] p = CANNON -> cannon_attacks(b, from, side)
        [] p = ROOK -> rook_attacks(b, from)
        [] p = KING -> king_attacks(from)

generate_captures(b) ==
  UNION {{Capture(from, to, piece_at(b, from), piece_at(b, to)) :
            to \in {sq \in Attacks(b, from) : color_at(b, sq) = XSIDE(b.side)}} :
         from \in {sq \in Squares : color_at(b, sq) = b.side}}
generate_noncaptures(b) ==
  UNION {{Normal(from, to, piece_at(b, from)) :
            to \in {sq \in Attacks(b, from) : ~Occupied(b, sq)}} :
         from \in {sq \in Squares : color_at(b, sq) = b.side}}
generate_moves(b) == generate_captures(b) \cup generate_noncaptures(b)

\* Any move of the side, made at once or after a null move, that ends there.
is_attacked(b, to, atkside) ==
  LET c == IF atkside = b.side THEN b ELSE make_move(b, NullMove)
  IN  \E m \in generate_moves(c) : m.to = to

\* The white king stands below the black one.
kings_facing(b) ==
  /\ FIL(b.king[WHITE]) = FIL(b.king[BLACK])
  /\ \A r \in RNK(b.king[WHITE]) + 1 .. RNK(b.king[BLACK]) - 1 :
       ~Occupied(b, SQUARE(r, FIL(b.king[WHITE])))

\* The kings are forgotten.
IsLegalFault(b) == ~is_attacked(b, b.king[XSIDE(b.side)], b.side)
in_check(b) == kings_facing(b) \/ is_attacked(b, b.king[b.side], XSIDE(b.side))
is_legal(b) == ~kings_facing(b) /\ ~is_attacked(b, b.king[XSIDE(b.side)], b.side)
is_legal_move(b, m) == is_legal(make_move(b, m))
LegalMoves(b) == {m \in generate_moves(b) : is_legal_move(b, m)}

is_valid_move(b, m) ==
  m.flag # "NULL" =>
    /\ color_at(b, m.from) = b.side /\ piece_at(b, m.from) = m.ptype
    /\ color_at(b, m.to) = (IF m.flag = "CAPTURE" THEN XSIDE(b.side) ELSE NO_COLOR)

(***************************************************************************)
(* Forsyth-Edwards notation, the position character by character.           *)
(***************************************************************************)
piece_char == <<"P", "A", "E", "H", "C", "R", "K">>
small_char == <<"p", "a", "e", "h", "c", "r", "k">>
digit_char == <<"0", "1", "2", "3", "4", "5", "6", "7", "8", "9">>
Index(chars, c) == CHOOSE i \in DOMAIN chars : chars[i] = c
In(c, chars) == \E i \in DOMAIN chars : chars[i] = c

parse_position(pos) ==
  LET Char(acc, c) ==
        IF ~acc.ok \/ acc.fil > 9 \/ acc.rnk < 0 THEN [acc EXCEPT !.ok = FALSE]
        ELSE IF In(c, digit_char) THEN [acc EXCEPT !.fil = @ + Index(digit_char, c) - 1]
        ELSE IF c = "/" THEN [acc EXCEPT !.fil = 0, !.rnk = @ - 1]
        ELSE LET side == IF In(c, piece_char) THEN WHITE ELSE BLACK
                 p == Index(IF side = WHITE THEN piece_char ELSE small_char, c) - 1
             IN  [acc EXCEPT !.b = place_piece(@, SQUARE(acc.rnk, acc.fil), side, p), !.fil = @ + 1]
  IN  FoldLeft(Char, [b |-> EmptyBoard, fil |-> 0, rnk |-> 9, ok |-> TRUE], pos)

\* A board is accepted if it is legal.
parse_fen(fen) ==
  LET placed == parse_position(fen.pos).b
  IN  [(IF fen.clr = "w" THEN placed ELSE switch_sides(placed))
         EXCEPT !.movecnt50 = fen.hmc, !.moveno = fen.fmc]
=============================================================================
