------------------------------- MODULE MCGame -------------------------------
(* A small game graph: a cycle of four moves by which positions repeat, a    *)
(* capture that mates, and a capture that leaves no mating material.         *)
EXTENDS Book

MCPositions == {"a", "b", "c", "d", "mated", "e", "bare"}
MCMoves == {"out1", "out2", "back1", "back2", "mate", "take", "strip"}
MCWhite == {"a", "c", "mated", "bare"}

MCAfter ==
  [a |-> [out1 |-> "b"],
   b |-> [out2 |-> "c", mate |-> "mated"],
   c |-> [back1 |-> "d", take |-> "e"],
   d |-> [back2 |-> "a"],
   e |-> [strip |-> "bare"],
   bare |-> [take |-> "e"],
   mated |-> <<>>]
MCLegal == [p \in MCPositions |-> DOMAIN MCAfter[p]]
MCIrreversible == {"take", "strip", "mate"}

At(p, n) == [pos |-> p, fifty |-> n]

\* The opening, and a position two moves from a draw by the 50 move rule.
MCSetups == {At("a", 0), At("c", 8)}

\* Games that end where the rules end them, or earlier.
FromOpening(b, moves) ==
  [boards |-> [i \in 1 .. Len(moves) + 1 |-> BoardsOf(b, moves)[i - 1]], moves |-> moves]
MCGames ==
  {FromOpening(At("a", 0), <<"out1", "out2", "take">>), FromOpening(At("b", 3), <<"mate">>)}

\* PGN files: games that agree for some moves, one that ends with a mate, one set
\* up by a tag; a game without a result, which costs the next one its first tag;
\* an illegal move and malformed tags.
Tag == [item |-> "tag"]
Blank == [item |-> "blank"]
Note == [item |-> "note"]
Result == [item |-> "result"]
Fen(b) == [item |-> "fen", board |-> b]
M(m) == [item |-> "move", move |-> m]

Short == <<Tag, Blank, Note, M("out1"), M("mate"), Result>>
Long == <<Tag, Blank, M("out1"), M("out2"), Note, M("back1"), M("back2"), M("out1"), M("out2"), Result>>
Ending == <<Fen(At("c", 0)), Tag, Blank, M("take"), M("strip"), M("take"), Result>>
Unfinished == <<Tag, Blank, M("out1"), M("out2"), M("take")>>
Illegal == <<Tag, Blank, M("out1"), M("back1"), Result>>
Malformed == <<[item |-> "badtag"], Fen(At("c", 0)), Blank, M("take"), Result>>
NoBoard == <<Tag, [item |-> "badfen"], Blank, M("out1"), Result>>

MCTexts ==
  {Short, Long \o Short \o Long, Long \o Ending, Ending \o Unfinished,
   Unfinished \o Ending \o Long, Illegal \o Malformed \o NoBoard \o Long \o Short \o Ending}

MCKey == [a |-> 7, b |-> 3, c |-> 12, d |-> 11, mated |-> 1, e |-> 6, bare |-> 11]

=============================================================================
