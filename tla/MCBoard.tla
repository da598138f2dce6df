------------------------------- MODULE MCBoard -------------------------------
(* Positions rich in what is hard: castling with rooks that can be captured  *)
(* at home, en passant captures of pinned pawns, promotions with check, and  *)
(* checks that can be answered in every way.                                 *)
EXTENDS Notation, Evaluator

Fen(pos, clr, flg, ep) ==
  parse_fen([pos |-> pos, clr |-> clr, flg |-> flg, ep |-> ep, hmc |-> 0, fmc |-> 1])
Rows(rows) == FoldLeft(LAMBDA acc, r : acc \o <<"/">> \o r, rows[1], Tail(rows))

\* r3k2r/8/8/8/8/8/8/R3K2R w KQkq -
Corners == Fen(Rows(<<<<"r", "3", "k", "2", "r">>, <<"8">>, <<"8">>, <<"8">>, <<"8">>, <<"8">>,
                     <<"8">>, <<"R", "3", "K", "2", "R">>>>), "w", Flags, NO_SQUARE)
\* 8/2p5/3p4/KP5r/1R3p1k/8/4P1P1/8 w - -
Pinned == Fen(Rows(<<<<"8">>, <<"2", "p", "5">>, <<"3", "p", "4">>, <<"K", "P", "5", "r">>,
                    <<"1", "R", "3", "p", "1", "k">>, <<"8">>, <<"4", "P", "1", "P", "1">>,
                    <<"8">>>>), "w", {}, NO_SQUARE)
\* n1n5/PPPk4/8/8/8/8/4Kppp/5N1N b - -
Promoting == Fen(Rows(<<<<"n", "1", "n", "5">>, <<"P", "P", "P", "k", "4">>, <<"8">>, <<"8">>,
                       <<"8">>, <<"8">>, <<"4", "K", "p", "p", "p">>,
                       <<"5", "N", "1", "N">>>>), "b", {}, NO_SQUARE)
\* 4r1k1/8/8/b3R3/2pP4/1PR5/8/4K3 b - d3: two rooks pinned on different lines
TwoPins == Fen(Rows(<<<<"4", "r", "1", "k", "1">>, <<"8">>, <<"8">>, <<"b", "3", "R", "3">>,
                     <<"2", "p", "P", "4">>, <<"1", "P", "R", "5">>, <<"8">>,
                     <<"4", "K", "3">>>>), "b", {}, 19)
\* 8/8/8/2k5/3Pp3/8/4B3/1b2K3 b - d3: a check by a pawn that can be taken en passant
CheckedByPawn == Fen(Rows(<<<<"8">>, <<"8">>, <<"8">>, <<"2", "k", "5">>, <<"3", "P", "p", "3">>,
                           <<"8">>, <<"4", "B", "3">>, <<"1", "b", "2", "K", "3">>>>), "b", {}, 19)
\* 7k/8/8/8/K6r/2N5/1PP5/8 w - -: a check that a knight and a pawn can block
Interpose == Fen(Rows(<<<<"7", "k">>, <<"8">>, <<"8">>, <<"8">>, <<"K", "6", "r">>,
                       <<"2", "N", "5">>, <<"1", "P", "P", "5">>, <<"8">>>>), "w", {}, NO_SQUARE)
\* 8/8/8/8/8/1k6/3p4/K1B5 b - -: little material
Bare == Fen(Rows(<<<<"8">>, <<"8">>, <<"8">>, <<"8">>, <<"8">>, <<"1", "k", "6">>,
                  <<"3", "p", "4">>, <<"K", "1", "B", "5">>>>), "b", {}, NO_SQUARE)
\* The position every game begins with.
Men(k, q, r, b, n) == <<r, n, b, q, k, b, n, r>>
Start == Fen(Rows(<<Men("k", "q", "r", "b", "n"), [i \in 1 .. 8 |-> "p"], <<"8">>, <<"8">>, <<"8">>,
                   <<"8">>, [i \in 1 .. 8 |-> "P"], Men("K", "Q", "R", "B", "N")>>),
             "w", Flags, NO_SQUARE)
\* r1b1k1r1/1p3p1p/8/8/1P6/8/5P1P/R1B1K1R1 w - -: a capture of a rook begins the endgame
Threshold == Fen(Rows(<<<<"r", "1", "b", "1", "k", "1", "r", "1">>, <<"1", "p", "3", "p", "1", "p">>,
                       <<"8">>, <<"8">>, <<"1", "P", "6">>, <<"8">>, <<"5", "P", "1", "P">>,
                       <<"R", "1", "B", "1", "K", "1", "R", "1">>>>), "w", {}, NO_SQUARE)
\* 8/7k/1P6/P1P5/6p1/8/8/R5K1 w - -: three passed pawns side by side
Chain == Fen(Rows(<<<<"8">>, <<"7", "k">>, <<"1", "P", "6">>, <<"P", "1", "P", "5">>,
                   <<"6", "p", "1">>, <<"8">>, <<"8">>, <<"R", "5", "K", "1">>>>), "w", {}, NO_SQUARE)
MCOpenings == {Corners, Pinned, Promoting, TwoPins, CheckedByPawn, Interpose, Bare,
               Start, Threshold, Chain}
\* A side a queen ahead is not evaluated any further.
MCWindows == {<<-450, 450>>}
=============================================================================
