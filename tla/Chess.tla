-------------------------------- MODULE Chess --------------------------------
(***************************************************************************)
(* The rules of chess, as far as they say which positions may follow each   *)
(* other: what a board with all its derived state promises to implement.    *)
(* A square is a pair of file and rank, both from 0 to 7.                   *)
(***************************************************************************)
EXTENDS Integers

VARIABLE position   \* [at, turn, rights, ep]

Squares == (0 .. 7) \X (0 .. 7)
None == <<>>        \* no en passant square
Colours == {"white", "black"}
Other(c) == IF c = "white" THEN "black" ELSE "white"
Kinds == {"pawn", "knight", "bishop", "rook", "queen", "king"}
Man(c, k) == [colour |-> c, kind |-> k]
Empty == Man("none", "none")
Men == {Man(c, k) : c \in Colours, k \in Kinds}

\* A right to castle, named by the rook that it needs.
Rights == Colours \X {"short", "long"}
HomeRank(c) == IF c = "white" THEN 0 ELSE 7
KingHome(r) == <<4, HomeRank(r[1])>>
RookHome(r) == <<IF r[2] = "short" THEN 7 ELSE 0, HomeRank(r[1])>>
KingPath(r) == {<<f, HomeRank(r[1])>> : f \in IF r[2] = "short" THEN 4 .. 6 ELSE 2 .. 4}
Between(r) == {<<f, HomeRank(r[1])>> : f \in IF r[2] = "short" THEN 5 .. 6 ELSE 1 .. 3}

Forward(c) == IF c = "white" THEN 1 ELSE -1
Plus(s, d, n) == <<s[1] + n * d[1], s[2] + n * d[2]>>
Compass == {d \in (-1 .. 1) \X (-1 .. 1) : d # <<0, 0>>}
Directions(k) == {d \in Compass : \/ k = "queen"
                                  \/ k = "rook" /\ (d[1] = 0 \/ d[2] = 0)
                                  \/ k = "bishop" /\ d[1] # 0 /\ d[2] # 0}
Leaps(k) == IF k = "king" THEN Compass
            ELSE {d \in (-2 .. 2) \X (-2 .. 2) : d[1] * d[1] + d[2] * d[2] = 5}

\* Where a man on a square may take.
Takes(at, s) ==
  LET k == at[s].kind
  IN  CASE k = "pawn" ->
             {Plus(s, <<f, Forward(at[s].colour)>>, 1) : f \in {-1, 1}} \cap Squares
        [] k \in {"knight", "king"} -> {Plus(s, d, 1) : d \in Leaps(k)} \cap Squares
        [] k \in {"bishop", "rook", "queen"} ->
             UNION {{Plus(s, d, n) : n \in {i \in 1 .. 7 :
                       /\ Plus(s, d, i) \in Squares
                       /\ \A j \in 1 .. i - 1 : at[Plus(s, d, j)] = Empty}} :
                     d \in Directions(k)}

Of(at, c) == {s \in Squares : at[s].colour = c}
Attacked(at, t, c) == \E s \in Of(at, c) : t \in Takes(at, s)
InCheck(at, c) == \E s \in Of(at, c) : at[s].kind = "king" /\ Attacked(at, s, Other(c))

\* A man leaves a square for another; a right is lost with its king or rook.
Moved(p, from, to, man) ==
  [at |-> [p.at EXCEPT ![from] = Empty, ![to] = man],
   turn |-> Other(p.turn),
   rights |-> {r \in p.rights : {KingHome(r), RookHome(r)} \cap {from, to} = {}},
   ep |-> None]

Officers(p) ==
  UNION {{Moved(p, from, to, p.at[from]) : to \in Takes(p.at, from) \ Of(p.at, p.turn)} :
           from \in {s \in Of(p.at, p.turn) : p.at[s].kind # "pawn"}}

\* A pawn that reaches the last rank becomes another man.
PawnTo(p, from, to) ==
  IF to[2] = HomeRank(Other(p.turn))
    THEN {Moved(p, from, to, Man(p.turn, k)) : k \in {"knight", "bishop", "rook", "queen"}}
    ELSE {Moved(p, from, to, p.at[from])}
OneAhead(p, from) == Plus(from, <<0, Forward(p.turn)>>, 1)
TwoAhead(p, from) == Plus(from, <<0, Forward(p.turn)>>, 2)

Pawn(p, from) ==
  (UNION {PawnTo(p, from, to) : to \in Takes(p.at, from) \cap Of(p.at, Other(p.turn))})
    \cup (IF p.at[OneAhead(p, from)] = Empty THEN PawnTo(p, from, OneAhead(p, from)) ELSE {})
    \cup (IF /\ from[2] = HomeRank(p.turn) + Forward(p.turn)
             /\ p.at[OneAhead(p, from)] = Empty /\ p.at[TwoAhead(p, from)] = Empty
            THEN {[Moved(p, from, TwoAhead(p, from), p.at[from])
                     EXCEPT !.ep = OneAhead(p, from)]} ELSE {})
    \cup (IF p.ep \in Takes(p.at, from)
            THEN {[Moved(p, from, p.ep, p.at[from])
                     EXCEPT !.at[<<p.ep[1], from[2]>>] = Empty]} ELSE {})
Pawns(p) == UNION {Pawn(p, from) : from \in {s \in Of(p.at, p.turn) : p.at[s].kind = "pawn"}}

\* The king goes two squares towards the rook, which jumps over it.
Castled(p, r) ==
  LET f == IF r[2] = "short" THEN 6 ELSE 2
      passed == IF r[2] = "short" THEN 5 ELSE 3
      q == Moved(p, KingHome(r), <<f, KingHome(r)[2]>>, Man(p.turn, "king"))
  IN  [q EXCEPT !.at[RookHome(r)] = Empty,
                !.at[<<passed, KingHome(r)[2]>>] = Man(p.turn, "rook")]
Castlings(p) ==
  {Castled(p, r) : r \in {x \in p.rights :
     /\ x[1] = p.turn
     /\ \A s \in Between(x) : p.at[s] = Empty
     /\ \A s \in KingPath(x) : ~Attacked(p.at, s, Other(p.turn))}}

Successors(p) ==
  {q \in Officers(p) \cup Pawns(p) \cup Castlings(p) : ~InCheck(q.at, p.turn)}

\* A right needs king and rook at home, an en passant square the pawn that passed it.
RightsPossible(p) ==
  \A r \in p.rights : /\ p.at[KingHome(r)] = Man(r[1], "king")
                      /\ p.at[RookHome(r)] = Man(r[1], "rook")
EpPossible(p) ==
  p.ep # None =>
    LET back == Forward(Other(p.turn))
    IN  /\ p.ep[2] = HomeRank(Other(p.turn)) + 2 * back
        /\ p.at[p.ep] = Empty
        /\ p.at[Plus(p.ep, <<0, back>>, 1)] = Man(Other(p.turn), "pawn")
        /\ p.at[Plus(p.ep, <<0, back>>, -1)] = Empty

Possible(p) ==
  /\ p.at \in [Squares -> Men \cup {Empty}]
  /\ p.turn \in Colours /\ p.rights \subseteq Rights /\ p.ep \in Squares \cup {None}
  /\ \A c \in Colours : \E s \in Squares :
       \A t \in Squares : p.at[t] = Man(c, "king") <=> t = s
  /\ \A s \in Squares : p.at[s].kind = "pawn" => s[2] \in 1 .. 6
  /\ RightsPossible(p) /\ EpPossible(p)
  /\ ~InCheck(p.at, Other(p.turn))

Init == Possible(position)

Play == \E q \in Successors(position) : position' = q

\* Not a rule of the game: the null move that a search tries.
Pass == /\ ~InCheck(position.at, position.turn)
        /\ position' = [position EXCEPT !.turn = Other(@), !.ep = None]

Next == Play \/ Pass
Spec == Init /\ [][Next]_position
=============================================================================
