-------------------------------- MODULE Board --------------------------------
(***************************************************************************)
(* The chess board (chess/board.cc, board_attack.cc, board_generate.cc,     *)
(* move.h): pieces, castling flags and en passant square with everything    *)
(* that make_move() keeps up to date beside them, the pseudo-legal move     *)
(* generators and the test whether a move is valid or legal.                *)
(*                                                                         *)
(* A hash key is the set of the random numbers that have been xor-ed into   *)
(* it, that is, the numbers are taken to be independent.  The three rotated *)
(* copies of `occupied' change where `occupied' changes and stand for the   *)
(* same set.                                                                *)
(***************************************************************************)
EXTENDS Bitboards, FiniteSets, FiniteSetsExt

CONSTANTS
  Openings,   \* boards that parse_fen() has accepted
  MaxPly      \* bound: moves made from an opening

Flags == {"WKCASTLE", "WQCASTLE", "BKCASTLE", "BQCASTLE"}
FlagsOf(side) == IF side = WHITE THEN {"WKCASTLE", "WQCASTLE"}
                                 ELSE {"BKCASTLE", "BQCASTLE"}

\* The corner of the rook, and the squares of king and rook after castling.
Castle == [WKCASTLE |-> [side |-> WHITE, king |-> 4, to |-> 6, rook |-> 7, rookto |-> 5],
           WQCASTLE |-> [side |-> WHITE, king |-> 4, to |-> 2, rook |-> 0, rookto |-> 3],
           BKCASTLE |-> [side |-> BLACK, king |-> 60, to |-> 62, rook |-> 63, rookto |-> 61],
           BQCASTLE |-> [side |-> BLACK, king |-> 60, to |-> 58, rook |-> 56, rookto |-> 59]]

(***************************************************************************)
(* Moves: the fields of the word of class Move.                             *)
(***************************************************************************)
Move(from, to, piece, cap_ptype, flags) ==
  [from |-> from % 64, to |-> to % 64, piece |-> piece % 8,
   cap_ptype |-> cap_ptype % 8, flags |-> flags]

Normal(from, to, ptype) == Move(from, to, ptype, NO_PIECE, {"NORMAL"})
Capture(from, to, ptype, cap) == Move(from, to, ptype, cap, {"CAPTURE"})
EnPassant(from, to) == Move(from, to, PAWN, PAWN, {"ENPASSANT"})
Promotion(from, to, promo) ==
  Move(from, to, promo, NO_PIECE, {"PROMOTION", "NORMAL"})
PromotionCapture(from, to, promo, cap) ==
  Move(from, to, promo, cap, {"PROMOTION", "CAPTURE"})
Castling(from, to) == Move(from, to, KING, NO_PIECE, {"CASTLE"})
NullMove == Move(NO_SQUARE, NO_SQUARE, NO_PIECE, NO_PIECE, {"NULL"})

Is(m, flag) == flag \in m.flags
ptype(m) == IF Is(m, "PROMOTION") THEN PAWN ELSE m.piece

(***************************************************************************)
(* The parts of a board and their elementary changes.                       *)
(***************************************************************************)
Key(side, p, sq) == <<"piece", side, p, sq>>
EpKey(sq) == <<"ep", sq>>
FlagKey(flag) == <<"castle", flag>>
SideKey == <<"side">>

EmptyBoard ==
  [side |-> WHITE, moveno |-> 1, movecnt50 |-> 0,
   position |-> [c \in Colors |-> [p \in Pieces |-> {}]],
   position_all |-> [c \in Colors |-> {}], occupied |-> {},
   king |-> [c \in Colors |-> NO_SQUARE], flags |-> {}, epsq |-> NO_SQUARE,
   material |-> [c \in Colors |-> 0], has_castled |-> [c \in Colors |-> FALSE],
   pce_movecnt |-> [sq \in Squares |-> 0], hashkey |-> {}, pawnhashkey |-> {}]

color_at(b, sq) == IF sq \in b.position_all[WHITE] THEN WHITE
                   ELSE IF sq \in b.position_all[BLACK] THEN BLACK ELSE -1
piece_at(b, sq) ==
  IF \E p \in Pieces : sq \in b.position[WHITE][p] \cup b.position[BLACK][p]
    THEN CHOOSE p \in Pieces :
           /\ sq \in b.position[WHITE][p] \cup b.position[BLACK][p]
           /\ \A q \in Pieces : q < p =>
                sq \notin b.position[WHITE][q] \cup b.position[BLACK][q]
    ELSE NO_PIECE

\* What both keys gain and lose when a piece appears on or leaves squares.
Rekey(b, side, p, sqs) ==
  LET keys == {Key(side, p, sq) : sq \in sqs}
  IN  [b EXCEPT !.hashkey = SymDiff(@, keys),
                !.pawnhashkey = IF p = PAWN THEN SymDiff(@, keys) ELSE @]

place_piece(b, sq, side, p) ==
  Rekey([b EXCEPT !.position[side][p] = @ \cup {sq},
                  !.position_all[side] = @ \cup {sq},
                  !.occupied = @ \cup {sq},
                  !.king[side] = IF p = KING THEN sq ELSE @,
                  !.material[side] = @ + mat_values[p]], side, p, {sq})

remove_piece(b, sq, side, p) ==
  Rekey([b EXCEPT !.position[side][p] = @ \ {sq},
                  !.position_all[side] = @ \ {sq},
                  !.occupied = @ \ {sq},
                  !.king[side] = IF p = KING THEN NO_SQUARE ELSE @,
                  !.material[side] = @ - mat_values[p]], side, p, {sq})

move_piece(b, from, to, side, p) ==
  Rekey([b EXCEPT !.position[side][p] = (@ \ {from}) \cup {to},
                  !.position_all[side] = (@ \ {from}) \cup {to},
                  !.occupied = (@ \ {from}) \cup {to},
                  !.king[side] = IF p = KING THEN to ELSE @], side, p, {from, to})

set_flags(b, new) ==
  [b EXCEPT !.flags = @ \cup new,
            !.hashkey = SymDiff(@, {FlagKey(f) : f \in new \ b.flags})]
\* Without the test whether the flag is set.
clear_flags_fault(b, old) ==
  [b EXCEPT !.flags = @ \ old, !.hashkey = SymDiff(@, {FlagKey(f) : f \in old})]
clear_flags(b, old) ==
  [b EXCEPT !.flags = @ \ old,
            !.hashkey = SymDiff(@, {FlagKey(f) : f \in old \cap b.flags})]

EpKeys(sq) == IF sq = NO_SQUARE THEN {} ELSE {EpKey(sq)}
set_epsq(b, sq) ==
  [b EXCEPT !.epsq = sq,
            !.hashkey = SymDiff(SymDiff(@, EpKeys(b.epsq)), EpKeys(sq))]
clear_epsq(b) == set_epsq(b, NO_SQUARE)

switch_sides(b) ==
  [b EXCEPT !.side = XSIDE(@), !.hashkey = SymDiff(@, {SideKey}),
            !.pawnhashkey = SymDiff(@, {SideKey})]

\* The ranks exchanged.
get_eppawn_fault(b) == IF b.epsq # NO_SQUARE /\ RNK(b.epsq) = 2 THEN b.epsq - 8
                       ELSE IF b.epsq # NO_SQUARE /\ RNK(b.epsq) = 5 THEN b.epsq + 8
                       ELSE NO_SQUARE
\* RNK(NO_SQUARE) is 0 in C: no en passant square, no pawn.
get_eppawn(b) == IF b.epsq # NO_SQUARE /\ RNK(b.epsq) = 2 THEN b.epsq + 8
                 ELSE IF b.epsq # NO_SQUARE /\ RNK(b.epsq) = 5 THEN b.epsq - 8
                 ELSE NO_SQUARE

(***************************************************************************)
(* make_move().                                                             *)
(***************************************************************************)
FlagOfCastling(m) == CHOOSE f \in Flags : Castle[f].to = m.to

MovePieces(b, m) ==
  LET s == b.side
      taken == IF Is(m, "CAPTURE")
                 THEN remove_piece(b, m.to, XSIDE(s), m.cap_ptype) ELSE b
  IN  CASE Is(m, "PROMOTION") ->
             place_piece(remove_piece(taken, m.from, s, PAWN), m.to, s, m.piece)
        [] ~Is(m, "PROMOTION") /\ (Is(m, "CAPTURE") \/ Is(m, "NORMAL")) ->
             move_piece(taken, m.from, m.to, s, ptype(m))
        [] Is(m, "CASTLE") ->
             LET c == Castle[FlagOfCastling(m)]
             IN  [move_piece(move_piece(b, m.from, m.to, s, KING), c.rook, c.rookto, s, ROOK)
                    EXCEPT !.has_castled[s] = TRUE]
        [] Is(m, "ENPASSANT") ->
             remove_piece(move_piece(b, m.from, m.to, s, PAWN), get_eppawn(b), XSIDE(s), PAWN)
        [] Is(m, "NULL") -> b

CornerFlags(sq) == {f \in Flags : Castle[f].rook = sq}
\* A rook captured at home is forgotten.
LostFlagsFault(b, m) ==
  (IF ptype(m) = KING THEN FlagsOf(b.side) ELSE {})
    \cup (IF ptype(m) = ROOK THEN CornerFlags(m.from) ELSE {})
LostFlags(b, m) ==
  (IF ptype(m) = KING THEN FlagsOf(b.side) ELSE {})
    \cup (IF ptype(m) = ROOK THEN CornerFlags(m.from) ELSE {})
    \cup (IF Is(m, "CAPTURE") /\ m.cap_ptype = ROOK THEN CornerFlags(m.to) ELSE {})

EpSquare(m) ==
  IF ptype(m) = PAWN /\ m.to - m.from = 16 THEN m.to - 8
  ELSE IF ptype(m) = PAWN /\ m.to - m.from = -16 THEN m.to + 8
  ELSE NO_SQUARE

CountMove(b, m) ==
  [b EXCEPT !.moveno = IF b.side = WHITE THEN @ + 1 ELSE @,
            !.movecnt50 = IF ptype(m) = PAWN \/ Is(m, "CAPTURE") THEN 0 ELSE @ + 1,
            !.pce_movecnt = IF Is(m, "NULL") THEN @
                            ELSE [@ EXCEPT ![m.to] = b.pce_movecnt[m.from] + 1,
                                     ![m.from] = 0]]

make_move(b, m) ==
  CountMove(switch_sides(set_epsq(
    clear_flags(MovePieces(b, m), LostFlags(b, m)), EpSquare(m))), m)

(***************************************************************************)
(* Attacks.  Captures of own pieces are included.                           *)
(***************************************************************************)
pawn_captures(b, from, side) ==
  pawn_capt_bb[side][from] \cap (b.occupied \cup {b.epsq})
pawn_noncaptures(b, from, side) ==
  LET dir == IF side = WHITE THEN 8 ELSE -8
      home == IF side = WHITE THEN 1 ELSE 6
  IN  {from + n * dir : n \in {k \in 1 .. 2 :
         /\ \A i \in 1 .. k : from + i * dir \notin b.occupied
         /\ k = 2 => RNK(from) = home}}
bishop_attacks(b, from) == atkl45(b.occupied, from) \cup atkr45(b.occupied, from)
rook_attacks(b, from) == atk0(b.occupied, from) \cup atkl90(b.occupied, from)
queen_attacks(b, from) == bishop_attacks(b, from) \cup rook_attacks(b, from)

\* The squares that a piece other than a pawn attacks.
piece_attacks(b, p, from) ==
  CASE p \in {KNIGHT, KING} -> attack_bb[p][from]
    [] p = BISHOP -> bishop_attacks(b, from)
    [] p = ROOK -> rook_attacks(b, from)
    [] p = QUEEN -> queen_attacks(b, from)

is_attacked(b, to, atkside) ==
  LET own == b.position[atkside]
  IN  \/ rook_attacks(b, to) \cap (own[ROOK] \cup own[QUEEN]) # {}
      \/ bishop_attacks(b, to) \cap (own[BISHOP] \cup own[QUEEN]) # {}
      \/ pawn_captures(b, to, XSIDE(atkside)) \cap own[PAWN] # {}
      \/ attack_bb[KNIGHT][to] \cap own[KNIGHT] # {}
      \/ attack_bb[KING][to] \cap own[KING] # {}

attackers(b, to, atkside) ==
  (pawn_captures(b, to, XSIDE(atkside)) \cap b.position[atkside][PAWN])
    \cup (UNION {piece_attacks(b, p, to) \cap b.position[atkside][p] :
                 p \in Pieces \ {PAWN}})

\* The only piece between a slider of the other side and the square.
pinned(b, to, side) ==
  LET own == b.position[XSIDE(side)]
      Between(from, p) == attack_bb[p][to] \cap ray_bb[from][to] \cap b.occupied
      By(p) == {Between(from, p) : from \in own[p] \cup own[QUEEN]}
  IN  UNION {ps \in By(BISHOP) \cup By(ROOK) :
               ps \cap b.position_all[XSIDE(side)] = {} /\ Cardinality(ps) = 1}

in_check(b) == is_attacked(b, b.king[b.side], XSIDE(b.side))
is_legal(b) == ~is_attacked(b, b.king[XSIDE(b.side)], b.side)
is_legal_move(b, m) == is_legal(make_move(b, m))

(***************************************************************************)
(* Move generation.  A Movelist is the set of its moves.                    *)
(***************************************************************************)
PromotionRank(side) == rank[IF side = WHITE THEN 7 ELSE 0]
BeforePromotion(side) == rank[IF side = WHITE THEN 6 ELSE 1]
Promotions(allpromo) == {QUEEN, KNIGHT} \cup (IF allpromo THEN {BISHOP, ROOK} ELSE {})

\* A move given by its squares; several if a pawn promotes.
add_move(b, from, to, allpromo) ==
  LET p == piece_at(b, from)
      cap == piece_at(b, to)
      taking == to \in b.position_all[XSIDE(b.side)]
      promoting == p = PAWN /\ to \in PromotionRank(b.side)
  IN  IF p = PAWN /\ to = b.epsq THEN {EnPassant(from, to)}
      ELSE IF taking /\ promoting
        THEN {PromotionCapture(from, to, q, cap) : q \in Promotions(allpromo)}
      ELSE IF taking THEN {Capture(from, to, p, cap)}
      ELSE IF promoting THEN {Promotion(from, to, q) : q \in Promotions(allpromo)}
      ELSE {Normal(from, to, p)}

generate_captures(b, allpromo) ==
  LET s == b.side
      theirs == b.position_all[XSIDE(s)]
      last == b.position[s][PAWN] \cap BeforePromotion(s)
      PromotingPawn(from) ==
        {PromotionCapture(from, to, q, piece_at(b, to)) :
           to \in pawn_captures(b, from, s) \cap theirs, q \in Promotions(allpromo)}
          \cup {Promotion(from, to, q) :
                to \in pawn_noncaptures(b, from, s), q \in Promotions(allpromo)}
      Pawn(from) ==
        {IF to = b.epsq THEN EnPassant(from, to) ELSE Capture(from, to, PAWN, piece_at(b, to)) :
           to \in pawn_captures(b, from, s) \ b.position_all[s]}
      Piece(p, from) ==
        {Capture(from, to, p, piece_at(b, to)) : to \in piece_attacks(b, p, from) \cap theirs}
  IN  (UNION {PromotingPawn(from) : from \in last})
        \cup (UNION {Pawn(from) : from \in b.position[s][PAWN] \ last})
        \cup (UNION {UNION {Piece(p, from) : from \in b.position[s][p]} :
                     p \in KNIGHT .. QUEEN})
        \cup Piece(KING, b.king[s])

\* No square between king and rook may be attacked.
CanCastleFault(b, f) ==
  /\ f \in b.flags
  /\ b.occupied \cap ray_bb[Castle[f].king][Castle[f].rook] = {}
  /\ \A sq \in ray_bb[Castle[f].king][Castle[f].rook] : ~is_attacked(b, sq, XSIDE(b.side))
CanCastle(b, f) ==
  /\ f \in b.flags
  /\ b.occupied \cap ray_bb[Castle[f].king][Castle[f].rook] = {}
  /\ ~is_attacked(b, Castle[f].rookto, XSIDE(b.side))
generate_castling(b) ==
  IF in_check(b) THEN {}
  ELSE {Castling(Castle[f].king, Castle[f].to) : f \in {g \in FlagsOf(b.side) : CanCastle(b, g)}}

generate_noncaptures(b) ==
  LET s == b.side
      Pawn(from) == {Normal(from, to, PAWN) : to \in pawn_noncaptures(b, from, s)}
      Piece(p, from) == {Normal(from, to, p) : to \in piece_attacks(b, p, from) \ b.occupied}
  IN  generate_castling(b)
        \cup (UNION {Pawn(from) : from \in b.position[s][PAWN] \ BeforePromotion(s)})
        \cup (UNION {UNION {Piece(p, from) : from \in b.position[s][p]} :
                     p \in KNIGHT .. QUEEN})
        \cup Piece(KING, b.king[s])

generate_moves(b, allpromo) == generate_captures(b, allpromo) \cup generate_noncaptures(b)
filter_illegal(b, moves) == {m \in moves : is_legal_move(b, m)}
LegalMoves(b) == filter_illegal(b, generate_moves(b, TRUE))

(***************************************************************************)
(* generate_escapes(), called in check only.                                *)
(***************************************************************************)
KingEscapes(b) ==
  LET k == b.king[b.side]
      theirs == b.position_all[XSIDE(b.side)]
  IN  {IF to \in theirs THEN Capture(k, to, KING, piece_at(b, to)) ELSE Normal(k, to, KING) :
         to \in {sq \in attack_bb[KING][k] \ b.position_all[b.side] :
                   ~is_attacked(b, sq, XSIDE(b.side))}}

EscapeCaptures(b, checker) ==
  (UNION {add_move(b, from, checker, FALSE) :
            from \in attackers(b, checker, b.side) \ b.position[b.side][KING]})
    \cup (IF checker # get_eppawn(b) THEN {}
          ELSE {EnPassant(from, b.epsq) :
                  from \in pawn_captures(b, b.epsq, XSIDE(b.side))
                             \cap b.position[b.side][PAWN]})

\* The double step is forgotten.
PawnBlockerFault(b, to) ==
  {to + (IF b.side = WHITE THEN -8 ELSE 8)} \cap b.position[b.side][PAWN]

\* The pawn that reaches an empty square by a forward move.
PawnBlocker(b, to) ==
  LET back == IF b.side = WHITE THEN -8 ELSE 8
      fourth == IF b.side = WHITE THEN 3 ELSE 4
      pawns == b.position[b.side][PAWN]
  IN  IF to + back \in pawns THEN {to + back}
      ELSE IF RNK(to) = fourth /\ to + back \notin b.occupied
        THEN {to + 2 * back} \cap pawns
      ELSE {}

Blocks(b, checker) ==
  UNION {UNION {add_move(b, from, to, FALSE) :
                  from \in {sq \in (attackers(b, to, b.side)
                                      \ (b.position[b.side][PAWN] \cup b.position[b.side][KING]))
                                     \cup PawnBlocker(b, to) :
                              b.occupied \cap ray_bb[sq][to] = {}}} :
           to \in ray_bb[checker][b.king[b.side]]}

generate_escapes(b) ==
  LET checkers == attackers(b, b.king[b.side], XSIDE(b.side))
      checker == CHOOSE sq \in checkers : TRUE
      p == piece_at(b, checker)
  IN  IF Cardinality(checkers) > 1 THEN KingEscapes(b)
      ELSE IF p \in {PAWN, KNIGHT} THEN KingEscapes(b) \cup EscapeCaptures(b, checker)
      ELSE KingEscapes(b) \cup EscapeCaptures(b, checker) \cup Blocks(b, checker)

(***************************************************************************)
(* Tests of a move and of a board.                                          *)
(***************************************************************************)
is_valid_castling(b, m) == ~in_check(b) /\ CanCastle(b, FlagOfCastling(m))
is_valid_move(b, m) ==
  \/ Is(m, "NULL")
  \/ Is(m, "CASTLE") /\ is_valid_castling(b, m)
  \/ /\ ~Is(m, "NULL") /\ ~Is(m, "CASTLE")
     /\ color_at(b, m.from) = b.side /\ piece_at(b, m.from) = ptype(m)
     /\ IF Is(m, "CAPTURE") THEN color_at(b, m.to) = XSIDE(b.side)
        ELSE IF Is(m, "ENPASSANT") THEN m.to = b.epsq
        ELSE color_at(b, m.to) = -1
     /\ IF ptype(m) # PAWN THEN m.to \in piece_attacks(b, ptype(m), m.from)
        ELSE IF Is(m, "CAPTURE") \/ Is(m, "ENPASSANT")
          THEN m.to \in pawn_captures(b, m.from, b.side)
        ELSE m.to \in pawn_noncaptures(b, m.from, b.side)

is_valid(b) ==
  /\ \A c \in Colors : Cardinality(b.position[c][KING]) = 1
  /\ \A c \in Colors : b.position[c][PAWN] \cap (rank[0] \cup rank[7]) = {}
  /\ is_legal(b)

is_mate(b) == in_check(b) /\ LegalMoves(b) = {}
is_stalemate(b) == ~in_check(b) /\ LegalMoves(b) = {}

\* A side with a pawn is forgotten.
is_material_draw_fault(b) ==
  LET Both(p) == b.position[WHITE][p] \cup b.position[BLACK][p]
  IN  /\ Both(ROOK) = {} /\ Both(QUEEN) = {}
      /\ Cardinality(Both(KNIGHT) \cup Both(BISHOP)) <= 1
is_material_draw(b) ==
  LET Both(p) == b.position[WHITE][p] \cup b.position[BLACK][p]
      bishops == Both(BISHOP)
  IN  \/ b.material[WHITE] = 0 /\ b.material[BLACK] = 0
      \/ /\ Both(PAWN) = {} /\ Both(ROOK) = {} /\ Both(QUEEN) = {}
         /\ \/ Cardinality(Both(KNIGHT)) = 1 /\ bishops = {}
            \/ /\ Both(KNIGHT) = {}
               /\ \/ Cardinality(bishops) = 1
                  \/ bishops \subseteq LIGHTBITBOARD
                  \/ bishops \subseteq DARKBITBOARD

\* The values a board and its parts can have.
Keys == {Key(c, p, sq) : c \in Colors, p \in Pieces, sq \in Squares}
          \cup {EpKey(sq) : sq \in Squares} \cup {FlagKey(f) : f \in Flags} \cup {SideKey}
Boards ==
  [side : Colors, moveno : Nat, movecnt50 : Nat,
   position : [Colors -> [Pieces -> SUBSET Squares]], position_all : [Colors -> SUBSET Squares],
   occupied : SUBSET Squares, king : [Colors -> Squares], flags : SUBSET Flags,
   epsq : Squares \cup {NO_SQUARE}, material : [Colors -> Int],
   has_castled : [Colors -> BOOLEAN], pce_movecnt : [Squares -> Nat],
   hashkey : SUBSET Keys, pawnhashkey : SUBSET Keys]

\* What make_move() updates incrementally, worked out from the pieces: the unions,
\* the kings, the material and both hash keys.
MaterialOf(b, c) ==
  LET Worth(p) == mat_values[p] * Cardinality(b.position[c][p])
  IN  Worth(PAWN) + Worth(KNIGHT) + Worth(BISHOP) + Worth(ROOK) + Worth(QUEEN)
PieceKeys(b, ps) == {Key(x[1], x[2], x[3]) : x \in
                      {y \in Colors \X ps \X Squares : y[3] \in b.position[y[1]][y[2]]}}
SideKeys(b) == IF b.side = BLACK THEN {SideKey} ELSE {}
StateExact(b) ==
  /\ \A c \in Colors : b.position_all[c] = UNION {b.position[c][p] : p \in Pieces}
  /\ b.occupied = b.position_all[WHITE] \cup b.position_all[BLACK]
  /\ \A c \in Colors : b.position[c][KING] = {b.king[c]}
  /\ \A c \in Colors : b.material[c] = MaterialOf(b, c)
  /\ b.hashkey = PieceKeys(b, Pieces) \cup {FlagKey(f) : f \in b.flags}
                   \cup EpKeys(b.epsq) \cup SideKeys(b)
  /\ b.pawnhashkey = PieceKeys(b, {PAWN}) \cup SideKeys(b)

\* What the code takes for granted of the pieces: no square has two, a castling
\* flag has its king and rook at home, an en passant square the pawn that has
\* just passed it on its way from the square behind, and no pawn stands on the
\* first or last rank.
OneEach(b) ==
  \A c, d \in Colors : \A p, q \in Pieces :
    <<c, p>> # <<d, q>> => b.position[c][p] \cap b.position[d][q] = {}
FlagsFit(b) ==
  \A f \in b.flags : LET s == Castle[f].side
                     IN  b.king[s] = Castle[f].king /\ Castle[f].rook \in b.position[s][ROOK]
EpFits(b) ==
  LET origin == b.epsq + (IF b.side = WHITE THEN 8 ELSE -8)
  IN  b.epsq # NO_SQUARE =>
        /\ RNK(b.epsq) = (IF b.side = WHITE THEN 5 ELSE 2)
        /\ {b.epsq, origin} \cap b.occupied = {}
        /\ get_eppawn(b) \in b.position[XSIDE(b.side)][PAWN]
\* The pawn that has passed opened no line to the king: with the pawn back on the
\* square that it came from, the king was not attacked, because it was then the
\* other side's turn.
EpEarned(b) ==
  LET origin == b.epsq + (IF b.side = WHITE THEN 8 ELSE -8)
      before == move_piece(b, get_eppawn(b), origin, XSIDE(b.side), PAWN)
  IN  b.epsq # NO_SQUARE => ~is_attacked(before, b.king[b.side], XSIDE(b.side))
PawnsWithin(b) == \A c \in Colors : b.position[c][PAWN] \cap (rank[0] \cup rank[7]) = {}
Consistent(b) ==
  /\ StateExact(b) /\ OneEach(b) /\ FlagsFit(b) /\ EpFits(b) /\ PawnsWithin(b) /\ is_legal(b)
  /\ EpEarned(b)

(***************************************************************************)
(* A board on which moves are made, as the game and the search make them.   *)
(* parse_fen() takes castling flags and en passant square as the text says  *)
(* and does not look for king, rook and pawn: only texts where these are at *)
(* their places are openings here.                                          *)
(***************************************************************************)
ASSUME OpeningsAssumption ==
  MaxPly \in Nat /\ \A b \in Openings : is_valid(b) /\ b \in Boards /\ Consistent(b)

VARIABLES board, ply
vars == <<board, ply>>

Init == board \in Openings /\ ply = 0

MakeMove ==
  /\ ply < MaxPly
  /\ \E m \in LegalMoves(board) : board' = make_move(board, m)
  /\ ply' = ply + 1

\* The search passes only when it is not in check.
MakeNullMove ==
  /\ ply < MaxPly
  /\ ~in_check(board)
  /\ board' = make_move(board, NullMove)
  /\ ply' = ply + 1

Next == MakeMove \/ MakeNullMove
Spec == Init /\ [][Next]_vars

-----------------------------------------------------------------------------
\* The type invariant: squares, counts, flags and keys have their ranges.
TypeOK == board \in Boards /\ ply \in 0 .. MaxPly

\* The position that the rules of chess see.
Colour(c) == IF c = WHITE THEN "white" ELSE "black"
Kind == [p \in Pieces |-> <<"pawn", "knight", "bishop", "rook", "queen", "king">>[p + 1]]
Side == [r \in {"white", "black"} \X {"short", "long"} |->
  CHOOSE f \in Flags : /\ f \in FlagsOf(IF r[1] = "white" THEN WHITE ELSE BLACK)
                       /\ FIL(Castle[f].to) = (IF r[2] = "short" THEN 6 ELSE 2)]
Abstract(b) ==
  [at |-> [s \in (0 .. 7) \X (0 .. 7) |->
             LET sq == SQUARE(s[2], s[1])
             IN  IF sq \notin b.occupied THEN [colour |-> "none", kind |-> "none"]
                 ELSE [colour |-> Colour(color_at(b, sq)), kind |-> Kind[piece_at(b, sq)]]],
   turn |-> Colour(b.side),
   rights |-> {r \in DOMAIN Side : Side[r] \in b.flags},
   ep |-> IF b.epsq = NO_SQUARE THEN <<>> ELSE <<FIL(b.epsq), RNK(b.epsq)>>]

Rules == INSTANCE Chess WITH position <- Abstract(board)

\* Refinement: every move made on the board, with all its flags and its en
\* passant square, is a move that the rules of chess allow in the position, and
\* every board is a possible position at the outset.
FollowsTheRules == Rules!Spec

\* generate_captures() and generate_noncaptures() miss no move: as many legal
\* moves are generated as the rules know, underpromotions included.
NoMoveMissing ==
  Cardinality(LegalMoves(board)) = Cardinality(Rules!Successors(Abstract(board)))

\* Everything make_move() updates incrementally is what a computation from the
\* pieces gives, and what it takes for granted of the board it is given holds of
\* the board it leaves.
IncrementalStateExact == TypeOK /\ Consistent(board)

\* The assertions of make_move() and of the elementary changes hold for every
\* move that a generator returns, legal or not: is_valid_move() accepts it, the
\* pieces taken away are where the move says, and pieces are put on empty squares.
Generated(b) == generate_moves(b, TRUE) \cup (IF in_check(b) THEN generate_escapes(b) ELSE {})
RookReady(b, m) ==
  LET c == Castle[FlagOfCastling(m)]
  IN  /\ c.side = b.side /\ b.king[b.side] = c.king
      /\ c.rook \in b.position[b.side][ROOK]
      /\ {c.to, c.rookto} \cap b.occupied = {}
Asserted(b, m) ==
  /\ is_valid_move(b, m)
  /\ Is(m, "CAPTURE") => m.to \in b.position[XSIDE(b.side)][m.cap_ptype]
  /\ Is(m, "ENPASSANT") =>
       m.to \notin b.occupied /\ get_eppawn(b) \in b.position[XSIDE(b.side)][PAWN]
  /\ Is(m, "CASTLE") => RookReady(b, m)
  /\ m.to # b.king[XSIDE(b.side)]
AssertionsHold == \A m \in Generated(board) : Asserted(board, m)

\* In check, the specialised generator finds exactly the legal moves that the
\* general one finds (the test that board_generate.cc keeps under #if 0).
EscapesComplete ==
  in_check(board) =>
    filter_illegal(board, generate_escapes(board))
      = filter_illegal(board, generate_moves(board, FALSE))

\* Whichever generator is asked, it finds the moves of the rules and only moves
\* that the rest of the board can be given.
GeneratorsExact == NoMoveMissing /\ AssertionsHold /\ EscapesComplete

\* A draw by insufficient material is final: no continuation mates or brings
\* back enough material.
MaterialDrawIsFinal ==
  [][is_material_draw(board) => is_material_draw(board') /\ ~is_mate(board')]_board
=============================================================================
