------------------------------- MODULE MCSearch -------------------------------
(* Games of three moves a position in layers of three positions, with values  *)
(* drawn from a seed: quiet games in which the search must be exact, and sharp *)
(* ones in which it passes, prunes and reduces.  In the games of an odd seed a *)
(* move may skip two layers.                                                  *)
EXTENDS Search

CalmSeeds == 1 .. 24
SharpSeeds == 1 .. 300

Width == 3
Last == MaxDepth + 5     \* layer of the last positions
Positions == (0 .. Last) \X (0 .. 2 * Width - 1)
IsPassed(p) == p[2] >= Width   \* the position before, with the other side to move
Before(p) == <<p[1] - 1, p[2] - Width>>
Sign(p) == IF p[1] % 2 = 0 THEN 1 ELSE -1

\* One of n values, for what k is drawn at a position.
Draw(seed, k, p, n) ==
  LET x == seed * 31 + k * 17 + p[1] * 7 + p[2] * 3 + 11
      y == (x * x) % 10007
  IN  ((y * (y + k)) % 9973) % n

Game(seed, calm, nomate) ==
  LET root == <<0, 0>>
      Materials == IF calm THEN <<0, 0, 0, 0, 100, -100>> ELSE <<0, 0, 0, 400, -400, 900>>
      White(p) == Materials[Draw(seed, 1, p, 6) + 1]
      material == [p \in Positions |->
        IF IsPassed(p) THEN Sign(p) * White(Before(p)) ELSE Sign(p) * White(p)]
      Score(p) == 10 * (Draw(seed, 2, p, 11) - 5)
      dead == {p \in Positions : p # root /\ Draw(seed, 3, p, 6) = 0}
      checked == {p \in Positions : /\ ~IsPassed(p) /\ p[1] < Last /\ Draw(seed, 4, p, 4) = 0
                                    /\ ~(nomate /\ p \in dead)}
      moves == [p \in Positions |->
        {m \in {<<p[1] + (IF seed % 2 = 1 /\ p[1] <= 2 /\ j = p[2] % Width THEN 3 ELSE 1), j>> :
                  j \in 0 .. Width - 1} : m[1] <= Last}]
  IN  [root |-> root, material |-> material,
       positional |-> [p \in Positions |->
         IF IsPassed(p) THEN Sign(p) * Score(Before(p)) ELSE Sign(p) * Score(p)],
       checked |-> checked, moves |-> moves,
       drawn |-> {p \in Positions : p # root /\ Draw(seed, 5, p, 8) = 0},
       passed |-> [p \in Positions |->
         IF IsPassed(p) THEN Before(p) ELSE <<p[1] + 1, p[2] + Width>>],
       illegal |-> UNION {{<<p, m>> : m \in {x \in moves[p] :
                      p \in dead \/ material[x] > -material[p] \/ Draw(seed, 6 + x[2], p, 9) = 0}}
                    : p \in Positions},
       endgame |-> calm, calm |-> calm]

Variant(game, failsoft, pvs_mode, hashing, limit) ==
  [f \in DOMAIN game \cup {"failsoft", "pvs_mode", "hashing", "limit"} |->
     CASE f = "failsoft" -> failsoft [] f = "pvs_mode" -> pvs_mode
       [] f = "hashing" -> hashing [] f = "limit" -> limit [] OTHER -> game[f]]
NoLimit == 100000

\* Quiet games: every variant, without a limit and with one.
CalmSetups ==
  {Variant(Game(s, TRUE, fs), fs, pvs, h, lim) :
     s \in CalmSeeds, fs \in BOOLEAN, pvs \in 0 .. 2, h \in BOOLEAN, lim \in {NoLimit}}
  \cup
  {Variant(Game(s, TRUE, FALSE), FALSE, s % 3, TRUE, lim) : s \in CalmSeeds, lim \in {25, 60}}
SharpSetups ==
  {Variant(Game(s, FALSE, FALSE), fs, s % 3, TRUE, NoLimit) : s \in SharpSeeds, fs \in BOOLEAN}
MCSetups == {x \in CalmSetups \cup SharpSetups : \E m \in x.moves[x.root] : <<x.root, m>> \notin x.illegal}
=============================================================================
