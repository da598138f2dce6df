------------------------------ MODULE Notation ------------------------------
(***************************************************************************)
(* Moves and boards as text (chess/move.cc, chess/board_util.cc).  A text   *)
(* is the sequence of its characters.                                       *)
(***************************************************************************)
EXTENDS Board, Sequences, SequencesExt

file_char == <<"a", "b", "c", "d", "e", "f", "g", "h">>
rank_char == <<"1", "2", "3", "4", "5", "6", "7", "8">>
piece_char == <<"P", "N", "B", "R", "Q", "K">>
small_char == <<"p", "n", "b", "r", "q", "k">>
FileOf(sq) == <<file_char[FIL(sq) + 1]>>
RankOf(sq) == <<rank_char[RNK(sq) + 1]>>
SquareOf(sq) == FileOf(sq) \o RankOf(sq)
Index(chars, c) == CHOOSE i \in DOMAIN chars : chars[i] = c
In(c, chars) == \E i \in DOMAIN chars : chars[i] = c
If(cond, text) == IF cond THEN text ELSE <<>>

\* Move::str(): coordinate notation.
str(m) == SquareOf(m.from) \o SquareOf(m.to)
            \o If(Is(m, "PROMOTION"), <<small_char[m.piece + 1]>>)

(***************************************************************************)
(* Move::san() of a legal move; legal is what generate_moves() leaves after *)
(* filter_illegal().  With nonstd 1 to 5 the mark of a check or the x is    *)
(* left out, or file or rank are added without need.                        *)
(***************************************************************************)
\* By rank only.
DisambiguationFault(legal, m, nonstd) ==
  If(nonstd \in {4, 5} \/ \E x \in legal : ptype(x) = ptype(m) /\ x.to = m.to /\ x.from # m.from,
     RankOf(m.from))
Disambiguation(legal, m, nonstd) ==
  LET rivals == {x \in legal : ptype(x) = ptype(m) /\ x.to = m.to /\ x.from # m.from}
  IN  If(nonstd \in {3, 5} \/ \E x \in rivals : FIL(x.from) # FIL(m.from), FileOf(m.from))
        \o If(nonstd \in {4, 5} \/ \E x \in rivals : FIL(x.from) = FIL(m.from), RankOf(m.from))

CheckMark(b, m) ==
  LET after == make_move(b, m)
  IN  If(in_check(after), IF is_mate(after) THEN <<"#">> ELSE <<"+">>)

san(b, legal, m, nonstd) ==
  LET taking == Is(m, "CAPTURE") \/ Is(m, "ENPASSANT")
  IN  (IF Is(m, "CASTLE") THEN <<"O", "-", "O">> \o If(FIL(m.to) = 2, <<"-", "O">>)
       ELSE IF ptype(m) = PAWN THEN If(taking, FileOf(m.from))
       ELSE <<piece_char[m.piece + 1]>> \o Disambiguation(legal, m, nonstd))
      \o If(taking /\ nonstd # 2, <<"x">>)
      \o If(~Is(m, "CASTLE"), SquareOf(m.to))
      \o If(Is(m, "PROMOTION"), <<"=", piece_char[m.piece + 1]>>)
      \o If(nonstd # 1, CheckMark(b, m))

\* The texts for which Board::parse_move() returns a move.
Names(b, legal, m) == {str(m)} \cup {san(b, legal, m, n) : n \in 0 .. 5}

(***************************************************************************)
(* Board::parse_move_1(), the parser for games in PGN.  NO_MOVE if the text *)
(* is not understood or the move is not legal.                              *)
(***************************************************************************)
NO_MOVE == Move(0, 0, 0, 0, {})
At(t, i) == IF i \in DOMAIN t THEN t[i] ELSE " "
IsFile(t, i) == In(At(t, i), file_char)
IsRank(t, i) == In(At(t, i), rank_char)
File(t, i) == Index(file_char, At(t, i)) - 1
Rank(t, i) == Index(rank_char, At(t, i)) - 1
IsPromo(c, chars) == \E p \in KNIGHT .. QUEEN : chars[p + 1] = c
Promo(c, chars) == Index(chars, c) - 1

ParseCastling(b, f) == IF f \in b.flags THEN Castling(Castle[f].king, Castle[f].to) ELSE NO_MOVE

ParseCoordinates(b, t) ==
  LET from == SQUARE(Rank(t, 2), File(t, 1))
      to == SQUARE(Rank(t, 4), File(t, 3))
      p == piece_at(b, from)
      cap == piece_at(b, to)
      castle == {f \in FlagsOf(b.side) \cap b.flags :
                   p = KING /\ Castle[f].king = from /\ Castle[f].to = to}
  IN  IF castle # {} THEN Castling(from, to)
      ELSE IF Len(t) = 5
        THEN IF ~IsPromo(t[5], small_char) THEN NO_MOVE
             ELSE IF cap # NO_PIECE THEN PromotionCapture(from, to, Promo(t[5], small_char), cap)
             ELSE Promotion(from, to, Promo(t[5], small_char))
      ELSE IF cap # NO_PIECE THEN Capture(from, to, p, cap)
      ELSE IF to = b.epsq THEN EnPassant(from, to)
      ELSE Normal(from, to, p)

ParsePawnCapture(b, t) ==
  LET back == IF b.side = WHITE THEN -1 ELSE 1
      from == SQUARE(Rank(t, 4) + back, File(t, 1))
      to == SQUARE(Rank(t, 4), File(t, 3))
      cap == piece_at(b, to)
  IN  IF At(t, 5) = "="
        THEN IF IsPromo(At(t, 6), piece_char)
               THEN PromotionCapture(from, to, Promo(t[6], piece_char), cap) ELSE NO_MOVE
      ELSE IF to = b.epsq THEN EnPassant(from, to)
      ELSE Capture(from, to, PAWN, cap)

\* A pawn that is not found one rank behind is looked for two ranks behind; by
\* a misplaced parenthesis the code then only asks for a pawn on a1 (square 0).
ParsePawnMove(b, t) ==
  LET f == File(t, 1)
      r == Rank(t, 2)
      back == IF b.side = WHITE THEN -1 ELSE 1
      double == r = (IF b.side = WHITE THEN 3 ELSE 4) /\ piece_at(b, SQUARE(r + back, f)) # PAWN
      from == SQUARE(IF double THEN r + 2 * back ELSE r + back, f)
  IN  IF double /\ piece_at(b, 0) = PAWN THEN NO_MOVE
      ELSE IF At(t, 3) # "=" THEN Normal(from, SQUARE(r, f), PAWN)
      ELSE IF IsPromo(At(t, 4), piece_char)
        THEN Promotion(from, SQUARE(r, f), Promo(t[4], piece_char))
      ELSE NO_MOVE

\* A piece, its file and rank if needed, and the destination.  If several pieces
\* reach it the first one is taken that is not pinned, or is between its king and
\* the destination; which bit is the first depends on the build.
ParsePiece(b, t) ==
  LET p == Index(piece_char, t[1]) - 1
      i == IF IsFile(t, 2) THEN 3 ELSE 2
      j == IF IsRank(t, i) THEN i + 1 ELSE i
      k == IF At(t, j) = "x" THEN j + 1 ELSE j
      full == IsFile(t, k) /\ IsRank(t, k + 1)
      short == ~IsFile(t, k) /\ ~IsRank(t, k) /\ IsFile(t, 2) /\ IsRank(t, i)
      to == IF full THEN SQUARE(Rank(t, k + 1), File(t, k)) ELSE SQUARE(Rank(t, i), File(t, 2))
      reach == {sq \in piece_attacks(b, p, to) \cap b.position[b.side][p] :
                  full => /\ IsFile(t, 2) => FIL(sq) = File(t, 2)
                          /\ IsRank(t, i) => RNK(sq) = Rank(t, i)}
      pins == pinned(b, b.king[b.side], b.side)
      from == IF full /\ IsFile(t, 2) /\ IsRank(t, i)
                THEN {sq \in {SQUARE(Rank(t, i), File(t, 2))} : piece_at(b, sq) = p}
              ELSE IF Cardinality(reach) = 1 THEN reach
              ELSE {sq \in reach : sq \in pins => sq \in ray_bb[to][b.king[b.side]]}
      cap == piece_at(b, to)
  IN  IF (~full /\ ~short) \/ from = {} \/ (At(t, j) = "x") # (cap # NO_PIECE) THEN {NO_MOVE}
      ELSE {IF cap # NO_PIECE THEN Capture(sq, to, p, cap) ELSE Normal(sq, to, p) : sq \in from}

do_parse_move_1(b, t) ==
  IF At(t, 1) = "O"
    THEN {IF \E mark \in {<<>>, <<"+">>, <<"#">>} : t = <<"O", "-", "O">> \o mark
            THEN ParseCastling(b, IF b.side = WHITE THEN "WKCASTLE" ELSE "BKCASTLE")
          ELSE IF \E mark \in {<<>>, <<"+">>, <<"#">>} : t = <<"O", "-", "O", "-", "O">> \o mark
            THEN ParseCastling(b, IF b.side = WHITE THEN "WQCASTLE" ELSE "BQCASTLE")
          ELSE NO_MOVE}
  ELSE IF Len(t) \in {4, 5} /\ IsFile(t, 1) /\ IsRank(t, 2) /\ IsFile(t, 3) /\ IsRank(t, 4)
    THEN {ParseCoordinates(b, t)}
  ELSE IF IsFile(t, 1)
    THEN {IF At(t, 2) = "x" /\ IsFile(t, 3) /\ IsRank(t, 4) THEN ParsePawnCapture(b, t)
          ELSE IF IsRank(t, 2) THEN ParsePawnMove(b, t)
          ELSE NO_MOVE}
  ELSE IF \E p \in KNIGHT .. KING : At(t, 1) = piece_char[p + 1] THEN ParsePiece(b, t)
  ELSE {NO_MOVE}

\* The moves that parse_move_1() may return, depending on the build.
parse_move_1(b, t) ==
  {IF m # NO_MOVE /\ is_valid_move(b, m) /\ is_legal_move(b, m) THEN m ELSE NO_MOVE :
     m \in do_parse_move_1(b, t)}

(***************************************************************************)
(* Forsyth-Edwards notation: the fields of the text, the first of them      *)
(* character by character.                                                  *)
(***************************************************************************)
Digit(n) == If(n > 0, <<rank_char[n]>>)
Letter(side, p) == IF side = WHITE THEN piece_char[p + 1] ELSE small_char[p + 1]

\* One rank: the number of empty squares before each piece and at the end.
RankText(b, r) ==
  LET Field(acc, f) ==
        LET sq == SQUARE(r, f)
        IN  IF piece_at(b, sq) = NO_PIECE THEN [acc EXCEPT !.empty = @ + 1]
            ELSE [text |-> acc.text \o Digit(acc.empty)
                             \o <<Letter(color_at(b, sq), piece_at(b, sq))>>, empty |-> 0]
      done == FoldLeft(Field, [text |-> <<>>, empty |-> 0], [f \in 1 .. 8 |-> f - 1])
  IN  done.text \o Digit(done.empty)

get_fen(b) ==
  [pos |-> FoldLeft(LAMBDA acc, r : acc \o If(r < 7, <<"/">>) \o RankText(b, r), <<>>,
                    [i \in 1 .. 8 |-> 8 - i]),
   clr |-> IF b.side = WHITE THEN "w" ELSE "b",
   flg |-> b.flags, ep |-> b.epsq, hmc |-> b.movecnt50, fmc |-> b.moveno]

\* The squares in the order of the text.  The code does not look at the number
\* of squares of a rank before it has placed the piece.
parse_position(pos) ==
  LET Char(acc, c) ==
        IF ~acc.ok \/ acc.fil > 8 \/ acc.rnk < 0 THEN [acc EXCEPT !.ok = FALSE]
        ELSE IF c = "/" THEN [acc EXCEPT !.fil = 0, !.rnk = @ - 1]
        ELSE IF In(c, rank_char) THEN [acc EXCEPT !.fil = @ + Index(rank_char, c)]
        ELSE LET side == IF In(c, piece_char) THEN WHITE ELSE BLACK
                 p == Index(IF side = WHITE THEN piece_char ELSE small_char, c) - 1
             IN  [acc EXCEPT !.b = place_piece(@, SQUARE(acc.rnk, acc.fil), side, p), !.fil = @ + 1]
  IN  FoldLeft(Char, [b |-> EmptyBoard, fil |-> 0, rnk |-> 7, ok |-> TRUE], pos)

parse_fen(fen) ==
  LET placed == parse_position(fen.pos).b
      sided == IF fen.clr = "w" THEN placed ELSE switch_sides(placed)
  IN  [set_epsq(set_flags(sided, fen.flg), fen.ep)
         EXCEPT !.movecnt50 = fen.hmc, !.moveno = fen.fmc]
fen_accepted(fen) ==
  /\ parse_position(fen.pos).ok
  /\ fen.ep # NO_SQUARE => RNK(fen.ep) \in {2, 5}
  /\ is_valid(parse_fen(fen))
-----------------------------------------------------------------------------
\* Every text that Move::str() and Move::san(), standard or not, produce for a
\* legal move is read back as that move by Board::parse_move(), which takes the
\* first move that has the text: no two legal moves share one. parse_move_1()
\* reads it as that move or refuses it, and never takes it for another one.
NotationReadBack ==
  LET legal == LegalMoves(board)
      texts == UNION {{<<t, m>> : t \in Names(board, legal, m)} : m \in legal}
  IN  /\ Cardinality({tm[1] : tm \in texts}) = Cardinality(texts)
      /\ \A tm \in texts : parse_move_1(board, tm[1]) \subseteq {tm[2], NO_MOVE}

\* Board::parse_fen() restores from Board::get_fen() everything but the count of
\* moves of each piece and whether a side has castled, the hash keys included.
FenRestores ==
  LET fen == get_fen(board)
  IN  /\ fen_accepted(fen)
      /\ parse_fen(fen) = [board EXCEPT !.has_castled = [c \in Colors |-> FALSE],
                                        !.pce_movecnt = [sq \in Squares |-> 0]]

\* What is written as text, moves and positions alike, is read back.
TextReadBack == NotationReadBack /\ FenRestores
=============================================================================
