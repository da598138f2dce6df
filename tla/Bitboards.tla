----------------------------- MODULE Bitboards -----------------------------
(***************************************************************************)
(* Squares, pieces and the attack tables of chess (chess/basic.h,           *)
(* chess/bitboard.cc, chess/bitboard_rotated.cc).  A Bitboard, a word with  *)
(* one bit for each square, is the set of its squares.                      *)
(***************************************************************************)
EXTENDS Integers

WHITE == 0
BLACK == 1
Colors == {WHITE, BLACK}
XSIDE(side) == 1 - side

PAWN == 0
KNIGHT == 1
BISHOP == 2
ROOK == 3
QUEEN == 4
KING == 5
Pieces == PAWN .. KING
NO_PIECE == -1
mat_values == [p \in Pieces |->
  CASE p = PAWN -> 100 [] p = KNIGHT -> 300 [] p = BISHOP -> 325
    [] p = ROOK -> 500 [] p = QUEEN -> 900 [] p = KING -> 0]

Squares == 0 .. 63     \* A1 = 0, B1 = 1, ..., H8 = 63
NO_SQUARE == -1
FIL(sq) == sq % 8
RNK(sq) == sq \div 8
SQUARE(rnk, fil) == rnk * 8 + fil

Abs(n) == IF n < 0 THEN -n ELSE n
Larger(m, n) == IF m < n THEN n ELSE m
Sign(n) == IF n < 0 THEN -1 ELSE IF n > 0 THEN 1 ELSE 0
Ranks(from, to) == RNK(to) - RNK(from)
Files(from, to) == FIL(to) - FIL(from)

\* Light squares: file and rank of different parity.
LIGHTBITBOARD == {sq \in Squares : (RNK(sq) + FIL(sq)) % 2 = 1}
DARKBITBOARD == Squares \ LIGHTBITBOARD
rank == [r \in 0 .. 7 |-> {sq \in Squares : RNK(sq) = r}]
file == [f \in 0 .. 7 |-> {sq \in Squares : FIL(sq) = f}]

Diagonal(from, to) == from # to /\ Abs(Ranks(from, to)) = Abs(Files(from, to))
Straight(from, to) == from # to /\ (Ranks(from, to) = 0 \/ Files(from, to) = 0)

\* The squares a piece other than a pawn reaches on an empty board.
attack_bb == [p \in Pieces \ {PAWN} |-> [from \in Squares |->
  {to \in Squares :
     CASE p = KNIGHT -> {Abs(Ranks(from, to)), Abs(Files(from, to))} = {1, 2}
       [] p = BISHOP -> Diagonal(from, to)
       [] p = ROOK -> Straight(from, to)
       [] p = QUEEN -> Diagonal(from, to) \/ Straight(from, to)
       [] p = KING -> Larger(Abs(Ranks(from, to)), Abs(Files(from, to))) = 1}]]

\* The squares a pawn captures on.
pawn_capt_bb == [side \in Colors |-> [from \in Squares |->
  {to \in Squares : /\ Ranks(from, to) = (IF side = WHITE THEN 1 ELSE -1)
                    /\ Abs(Files(from, to)) = 1}]]

\* The squares strictly between two squares of a rank, file or diagonal.
ray_bb == [from \in Squares |-> [to \in Squares |->
  IF Straight(from, to) \/ Diagonal(from, to)
    THEN LET dir == 8 * Sign(Ranks(from, to)) + Sign(Files(from, to))
             dist == Larger(Abs(Ranks(from, to)), Abs(Files(from, to)))
         IN  {from + n * dir : n \in 1 .. dist - 1}
    ELSE {}]]

(***************************************************************************)
(* Sliding attacks for a set of occupied squares: everything on the line up *)
(* to and including the first occupied square.  The tables rot_atk_* of the *)
(* code are indexed by the bits of one rank, file or diagonal, cut out of a *)
(* rotated copy of occ.                                                     *)
(***************************************************************************)
Visible(occ, from, line) == {to \in line : ray_bb[from][to] \cap occ = {}}
atk0(occ, from) == Visible(occ, from, rank[RNK(from)] \ {from})
atkl90(occ, from) == Visible(occ, from, file[FIL(from)] \ {from})
atkl45(occ, from) ==
  Visible(occ, from, {to \in attack_bb[BISHOP][from] : Ranks(from, to) = Files(from, to)})
atkr45(occ, from) ==
  Visible(occ, from, {to \in attack_bb[BISHOP][from] : Ranks(from, to) = -Files(from, to)})

=============================================================================
