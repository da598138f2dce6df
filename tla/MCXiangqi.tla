------------------------------ MODULE MCXiangqi ------------------------------
(* The initial position and endings in which pieces block, pin and repeat.   *)
EXTENDS XiangqiLine

Opening(rows, clr, plies) ==
  [board |-> parse_fen([pos |-> FoldLeft(LAMBDA acc, r : acc \o <<"/">> \o r, rows[1], Tail(rows)),
                        clr |-> clr, hmc |-> 0, fmc |-> 1]),
   plies |-> plies]

\* rheakaehr/9/1c5c1/p1p1p1p1p/9/9/P1P1P1P1P/1C5C1/9/RHEAKAEHR w
Start == Opening(<<<<"r", "h", "e", "a", "k", "a", "e", "h", "r">>, <<"9">>,
                   <<"1", "c", "5", "c", "1">>,
                   <<"p", "1", "p", "1", "p", "1", "p", "1", "p">>, <<"9">>, <<"9">>,
                   <<"P", "1", "P", "1", "P", "1", "P", "1", "P">>,
                   <<"1", "C", "5", "C", "1">>, <<"9">>,
                   <<"R", "H", "E", "A", "K", "A", "E", "H", "R">>>>, "w", 1)
\* 4k4/4h4/4e4/2H1p4/6P2/2E6/1c2C4/4E4/4A4/4K4 w: pins on the file of the kings
\* by cannon and rook, a soldier at the river, legs and eyes that are blocked
Blocked == Opening(<<<<"4", "k", "4">>, <<"4", "h", "4">>, <<"4", "e", "4">>,
                     <<"2", "H", "1", "p", "4">>, <<"6", "P", "2">>, <<"2", "E", "6">>,
                     <<"1", "c", "2", "C", "4">>, <<"4", "E", "4">>, <<"4", "A", "4">>,
                     <<"4", "K", "4">>>>, "w", 2)
\* 3k5/R8/9/9/9/9/9/9/9/4K4 w: white checks at every move, and is to move again
Checking == Opening(<<<<"3", "k", "5">>, <<"R", "8">>, <<"9">>, <<"9">>, <<"9">>, <<"9">>, <<"9">>,
                      <<"9">>, <<"9">>, <<"4", "K", "4">>>>, "w", 4)
\* R2k5/9/9/9/9/9/9/9/9/4K4 b: black is in check, and again after each of its moves
Checked == Opening(<<<<"R", "2", "k", "5">>, <<"9">>, <<"9">>, <<"9">>, <<"9">>, <<"9">>, <<"9">>,
                     <<"9">>, <<"9">>, <<"4", "K", "4">>>>, "b", 4)
\* 3k5/9/9/P8/9/9/9/9/8p/5K3 w: soldiers that go sideways
Sideways == Opening(<<<<"3", "k", "5">>, <<"9">>, <<"9">>, <<"P", "8">>, <<"9">>, <<"9">>, <<"9">>,
                      <<"9">>, <<"8", "p">>, <<"5", "K", "3">>>>, "w", 5)
MCOpenings == {Start, Blocked, Checking, Checked, Sideways}
=============================================================================
