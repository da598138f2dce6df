------------------------------- MODULE Xiangqi -------------------------------
(***************************************************************************)
(* The rules of xiangqi, as far as they say which positions may follow each *)
(* other.  A point is a pair of file, 0 to 8, and rank, 0 to 9; red is at   *)
(* the bottom and is called white, as in the program.                       *)
(***************************************************************************)
EXTENDS Integers, FiniteSets

VARIABLE position   \* [at, turn]

Points == (0 .. 8) \X (0 .. 9)
Sides == {"white", "black"}
Other(c) == IF c = "white" THEN "black" ELSE "white"
Kinds == {"soldier", "advisor", "elephant", "horse", "cannon", "chariot", "general"}
Man(c, k) == [side |-> c, kind |-> k]
Empty == Man("none", "none")
Men == {Man(c, k) : c \in Sides, k \in Kinds}

\* The rank as its side counts it: 0 at home, 5 beyond the river.
Depth(c, s) == IF c = "white" THEN s[2] ELSE 9 - s[2]
Palace(c) == {s \in Points : s[1] \in 3 .. 5 /\ Depth(c, s) <= 2}
Home(c) == {s \in Points : Depth(c, s) <= 4}

Rows(s, t) == t[2] - s[2]
Cols(s, t) == t[1] - s[1]
Size(n) == IF n < 0 THEN -n ELSE n
InLine(s, t) == s # t /\ (Rows(s, t) = 0 \/ Cols(s, t) = 0)
\* The points strictly between two points of a line.
Between(s, t) ==
  {u \in Points : /\ InLine(s, u) /\ InLine(u, t)
                  /\ Size(Rows(s, u)) + Size(Rows(u, t)) = Size(Rows(s, t))
                  /\ Size(Cols(s, u)) + Size(Cols(u, t)) = Size(Cols(s, t))}
MenBetween(at, s, t) == Cardinality({u \in Between(s, t) : at[u] # Empty})

\* How far from and in which shape a man may go, before anything stands in its way.
Shape(s, t) == {Size(Rows(s, t)), Size(Cols(s, t))}
Eye(s, t) == <<(s[1] + t[1]) \div 2, (s[2] + t[2]) \div 2>>
Leg(s, t) == IF Size(Rows(s, t)) = 2 THEN <<s[1], (s[2] + t[2]) \div 2>>
                                     ELSE <<(s[1] + t[1]) \div 2, s[2]>>

\* A man on s reaches t, were it not for a man of its own there.
Reaches(at, s, t) ==
  LET c == at[s].side
  IN  CASE at[s].kind = "soldier" ->
             /\ InLine(s, t) /\ Shape(s, t) = {0, 1}
             /\ \/ Depth(c, t) = Depth(c, s) + 1
                \/ Depth(c, s) >= 5 /\ Depth(c, t) = Depth(c, s)
        [] at[s].kind = "advisor" -> Shape(s, t) = {1} /\ t \in Palace(c)
        [] at[s].kind = "elephant" ->
             Shape(s, t) = {2} /\ t \in Home(c) /\ at[Eye(s, t)] = Empty
        [] at[s].kind = "horse" -> Shape(s, t) = {1, 2} /\ at[Leg(s, t)] = Empty
        [] at[s].kind = "cannon" ->
             InLine(s, t) /\ MenBetween(at, s, t) = (IF at[t] = Empty THEN 0 ELSE 1)
        [] at[s].kind = "chariot" -> InLine(s, t) /\ MenBetween(at, s, t) = 0
        [] at[s].kind = "general" ->
             \/ InLine(s, t) /\ Shape(s, t) = {0, 1} /\ t \in Palace(c)
             \/ /\ Cols(s, t) = 0 /\ at[t] = Man(Other(c), "general")   \* flying
                /\ MenBetween(at, s, t) = 0

Of(at, c) == {s \in Points : at[s].side = c}
General(at, c) == CHOOSE s \in Points : at[s] = Man(c, "general")
InCheck(at, c) ==
  LET g == General(at, c) IN \E s \in Of(at, Other(c)) : Reaches(at, s, g)

Successors(p) ==
  LET moves == UNION {{<<s, t>> : t \in {u \in Points \ Of(p.at, p.turn) : Reaches(p.at, s, u)}} :
                      s \in Of(p.at, p.turn)}
  IN  {q \in {[at |-> [p.at EXCEPT ![st[1]] = Empty, ![st[2]] = p.at[st[1]]],
               turn |-> Other(p.turn)] : st \in moves} : ~InCheck(q.at, p.turn)}

\* Where the men of a side may ever stand.
Stations(c, k) ==
  CASE k = "general" -> Palace(c)
    [] k = "advisor" -> {s \in Palace(c) : (s[1] + Depth(c, s)) % 2 = 1}
    [] k = "elephant" -> {s \in Home(c) : s[1] % 2 = 0 /\ Depth(c, s) % 2 = 0
                                          /\ (s[1] \div 2 + Depth(c, s) \div 2) % 2 = 1}
    [] k = "soldier" -> {s \in Points : \/ Depth(c, s) >= 5
                                        \/ Depth(c, s) \in 3 .. 4 /\ s[1] % 2 = 0}
    [] k \in {"horse", "cannon", "chariot"} -> Points

Possible(p) ==
  /\ p.at \in [Points -> Men \cup {Empty}] /\ p.turn \in Sides
  /\ \A c \in Sides : Cardinality({s \in Points : p.at[s] = Man(c, "general")}) = 1
  /\ \A s \in Points : p.at[s] # Empty => s \in Stations(p.at[s].side, p.at[s].kind)
  /\ ~InCheck(p.at, Other(p.turn))

Init == Possible(position)

Play == \E q \in Successors(position) : position' = q

\* Not a rule of the game: the null move that a search tries.
Pass == /\ ~InCheck(position.at, position.turn)
        /\ position' = [position EXCEPT !.turn = Other(@)]

Next == Play \/ Pass
Spec == Init /\ [][Next]_position
=============================================================================
