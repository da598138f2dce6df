----------------------------- MODULE RulesProofs -----------------------------
(***************************************************************************)
(* Proofs about the chess board and the rules: the board implements the     *)
(* rules, its generators are exact, and a draw by material is final.        *)
(***************************************************************************)
EXTENDS BoardProofs

-----------------------------------------------------------------------------
(***************************************************************************)
(* Squares and men as the rules of chess name them.                         *)
(***************************************************************************)
Pt(x) == <<FIL(x), RNK(x)>>

LEMMA PointsAre ==
  /\ \A x \in Squares : /\ Pt(x) \in Rules!Squares /\ Pt(x)[1] = FIL(x) /\ Pt(x)[2] = RNK(x)
                        /\ SQUARE(RNK(x), FIL(x)) = x
  /\ \A s \in Rules!Squares : SQUARE(s[2], s[1]) \in Squares /\ s = Pt(SQUARE(s[2], s[1]))
  /\ \A x, y \in Squares : Pt(x) = Pt(y) <=> x = y
<1>1. ASSUME NEW x \in Squares
      PROVE  /\ Pt(x) \in Rules!Squares /\ Pt(x)[1] = FIL(x) /\ Pt(x)[2] = RNK(x)
             /\ SQUARE(RNK(x), FIL(x)) = x
  <2>1. RNK(x) \in 0 .. 7 /\ FIL(x) \in 0 .. 7 /\ x = 8 * RNK(x) + FIL(x)
    BY RankOf
  <2>2. SQUARE(RNK(x), FIL(x)) = x
    BY <2>1 DEF SQUARE
  <2> QED
    BY <2>1, <2>2 DEF Pt, Rules!Squares
<1>2. ASSUME NEW s \in Rules!Squares
      PROVE  SQUARE(s[2], s[1]) \in Squares /\ s = Pt(SQUARE(s[2], s[1]))
  <2>1. s[1] \in 0 .. 7 /\ s[2] \in 0 .. 7 /\ s = <<s[1], s[2]>>
    BY DEF Rules!Squares
  <2>2. \A r, f \in 0 .. 7 : /\ SQUARE(r, f) \in Squares /\ RNK(SQUARE(r, f)) = r
                             /\ FIL(SQUARE(r, f)) = f
    BY DEF SQUARE, Squares, RNK, FIL
  <2> QED
    BY <2>1, <2>2 DEF Pt
<1>3. ASSUME NEW x \in Squares, NEW y \in Squares PROVE Pt(x) = Pt(y) <=> x = y
  BY <1>1, RankOf DEF Pt
<1> QED
  BY <1>1, <1>2, <1>3

LEMMA NamesAre ==
  /\ Colour(WHITE) = "white" /\ Colour(BLACK) = "black"
  /\ \A c, d \in Colors : Colour(c) = Colour(d) <=> c = d
  /\ \A c \in Colors : /\ Colour(c) \in Rules!Colours /\ Colour(XSIDE(c)) = Rules!Other(Colour(c))
                       /\ Colour(c) # "none" /\ XSIDE(c) \in Colors /\ XSIDE(c) # c
                       /\ XSIDE(XSIDE(c)) = c
  /\ \A p \in Pieces : Kind[p] \in Rules!Kinds /\ Kind[p] # "none"
  /\ \A p, q \in Pieces : Kind[p] = Kind[q] <=> p = q
  /\ Kind[PAWN] = "pawn" /\ Kind[KNIGHT] = "knight" /\ Kind[BISHOP] = "bishop"
  /\ Kind[ROOK] = "rook" /\ Kind[QUEEN] = "queen" /\ Kind[KING] = "king"
<1>1. /\ Kind[PAWN] = "pawn" /\ Kind[KNIGHT] = "knight" /\ Kind[BISHOP] = "bishop"
      /\ Kind[ROOK] = "rook" /\ Kind[QUEEN] = "queen" /\ Kind[KING] = "king"
  BY DEF Kind, Pieces, PAWN, KNIGHT, BISHOP, ROOK, QUEEN, KING
<1>2. \A p \in Pieces : \/ p = PAWN \/ p = KNIGHT \/ p = BISHOP \/ p = ROOK \/ p = QUEEN \/ p = KING
  BY DEF Pieces, PAWN, KNIGHT, BISHOP, ROOK, QUEEN, KING
<1>3. \A p \in Pieces : Kind[p] \in Rules!Kinds /\ Kind[p] # "none"
  BY <1>1, <1>2 DEF Rules!Kinds
<1>4. \A p, q \in Pieces : Kind[p] = Kind[q] <=> p = q
  BY <1>1, <1>2
<1>5. /\ Colour(WHITE) = "white" /\ Colour(BLACK) = "black"
      /\ \A c, d \in Colors : Colour(c) = Colour(d) <=> c = d
      /\ \A c \in Colors : Colour(c) \in Rules!Colours /\ Colour(c) # "none"
      /\ \A c \in Colors : Colour(XSIDE(c)) = Rules!Other(Colour(c))
      /\ \A c \in Colors : XSIDE(c) \in Colors /\ XSIDE(c) # c /\ XSIDE(XSIDE(c)) = c
  BY DEF Colour, Colors, WHITE, BLACK, XSIDE, Rules!Colours, Rules!Other
<1> QED
  BY <1>1, <1>3, <1>4, <1>5

\* The man of a colour and a kind.
Man(c, p) == Rules!Man(Colour(c), Kind[p])

LEMMA ManFacts ==
  ASSUME NEW c \in Colors, NEW p \in Pieces
  PROVE  /\ Man(c, p).colour = Colour(c) /\ Man(c, p).kind = Kind[p]
         /\ Man(c, p) # Rules!Empty /\ Man(c, p) \in Rules!Men
         /\ Rules!Empty.colour = "none" /\ Rules!Empty.kind = "none"
         /\ \A d \in Colors : \A q \in Pieces : Man(c, p) = Man(d, q) <=> c = d /\ p = q
<1>1. /\ Man(c, p).colour = Colour(c) /\ Man(c, p).kind = Kind[p]
      /\ Rules!Empty.colour = "none" /\ Rules!Empty.kind = "none"
      /\ \A d \in Colors : \A q \in Pieces : Man(d, q).colour = Colour(d) /\ Man(d, q).kind = Kind[q]
  BY DEF Man, Rules!Man, Rules!Empty
<1>2. Man(c, p) \in Rules!Men
  BY NamesAre DEF Man, Rules!Men
<1>3. Man(c, p) # Rules!Empty
  BY <1>1, NamesAre
<1>4. \A d \in Colors : \A q \in Pieces : Man(c, p) = Man(d, q) <=> c = d /\ p = q
  BY <1>1, NamesAre
<1> QED
  BY <1>1, <1>2, <1>3, <1>4

\* What stands where.
LEMMA Stands ==
  ASSUME NEW b \in Boards, Sound(b), NEW x \in Squares
  PROVE  /\ \A c \in Colors : \A p \in Pieces :
              x \in b.position[c][p] <=> Abstract(b).at[Pt(x)] = Man(c, p)
         /\ x \notin b.occupied <=> Abstract(b).at[Pt(x)] = Rules!Empty
         /\ \A c \in Colors : x \in b.position_all[c] <=> Abstract(b).at[Pt(x)].colour = Colour(c)
<1> DEFINE What(s) == IF SQUARE(s[2], s[1]) \notin b.occupied THEN [colour |-> "none", kind |-> "none"]
                      ELSE [colour |-> Colour(color_at(b, SQUARE(s[2], s[1]))),
                            kind |-> Kind[piece_at(b, SQUARE(s[2], s[1]))]]
           man == Abstract(b).at[Pt(x)]
<1>1. man = What(Pt(x))
  <2>1. Abstract(b).at = [s \in (0 .. 7) \X (0 .. 7) |-> What(s)]
    BY DEF Abstract
  <2>2. Pt(x) \in (0 .. 7) \X (0 .. 7)
    BY PointsAre DEF Rules!Squares
  <2> HIDE DEF What
  <2> QED
    BY <2>1, <2>2
<1>2. SQUARE(Pt(x)[2], Pt(x)[1]) = x
  BY PointsAre
<1>3. man = IF x \notin b.occupied THEN Rules!Empty
            ELSE Rules!Man(Colour(color_at(b, x)), Kind[piece_at(b, x)])
  BY <1>1, <1>2 DEF Rules!Man, Rules!Empty
<1> HIDE DEF man, What
<1>4. /\ WHITE \in Colors /\ BLACK \in Colors /\ Colors = {WHITE, BLACK}
      /\ b.occupied = b.position_all[WHITE] \cup b.position_all[BLACK]
      /\ \A c \in Colors : x \in b.position_all[c] <=> \E p \in Pieces : x \in b.position[c][p]
      /\ \A c, d \in Colors : \A p, q \in Pieces :
           x \in b.position[c][p] /\ x \in b.position[d][q] => c = d /\ p = q
  BY DEF Sound, MenTold, Colors
<1>5. ASSUME NEW c \in Colors, NEW p \in Pieces, x \in b.position[c][p]
      PROVE  man = Man(c, p) /\ x \in b.occupied
  <2>1. x \in b.position_all[c] /\ x \in b.occupied
    BY <1>4, <1>5
  <2>2. \A d \in Colors : x \in b.position_all[d] => d = c
    BY <1>4, <1>5
  <2>3. color_at(b, x) = c
    BY <1>4, <2>1, <2>2 DEF color_at
  <2>4. piece_at(b, x) = p
    BY <1>5, ManAt
  <2> QED
    BY <1>3, <2>1, <2>3, <2>4 DEF Man
<1>6. x \in b.occupied => \E c \in Colors : \E p \in Pieces : x \in b.position[c][p]
  BY <1>4
<1>7. ASSUME NEW c \in Colors, NEW p \in Pieces
      PROVE  x \in b.position[c][p] <=> man = Man(c, p)
  <2>1. ASSUME man = Man(c, p)
        PROVE  x \in b.position[c][p]
    <3>1. x \in b.occupied
      BY <1>3, <2>1, ManFacts
    <3>2. PICK d \in Colors, q \in Pieces : x \in b.position[d][q]
      BY <1>6, <3>1
    <3>3. Man(c, p) = Man(d, q)
      BY <1>5, <2>1, <3>2
    <3>4. c = d /\ p = q
      BY <3>3, ManFacts
    <3> QED
      BY <3>2, <3>4
  <2> QED
    BY <1>5, <2>1
<1>8. x \notin b.occupied <=> man = Rules!Empty
  BY <1>3, <1>5, <1>6, ManFacts
<1>9. ASSUME NEW c \in Colors
      PROVE  x \in b.position_all[c] <=> man.colour = Colour(c)
  <2>1. CASE x \notin b.occupied
    <3>1. man.colour = "none" /\ x \notin b.position_all[c]
      BY <1>3, <1>4, <1>9, <2>1, ManFacts, PieceNames
    <3> QED
      BY <3>1, NamesAre
  <2>2. CASE x \in b.occupied
    <3>1. PICK d \in Colors, q \in Pieces : x \in b.position[d][q]
      BY <1>6, <2>2
    <3>2. man.colour = Colour(d)
      BY <1>5, <3>1, ManFacts
    <3>3. x \in b.position_all[c] <=> c = d
      BY <1>4, <3>1
    <3> QED
      BY <3>2, <3>3, NamesAre
  <2> QED
    BY <2>1, <2>2
<1> QED
  BY <1>7, <1>8, <1>9 DEF man

-----------------------------------------------------------------------------
(***************************************************************************)
(* Lines, and where a man of each kind takes.                               *)
(***************************************************************************)
Units == {-1, 0, 1}

LEMMA CompassIs ==
  /\ \A d \in Rules!Compass : /\ d = <<d[1], d[2]>> /\ d[1] \in Units /\ d[2] \in Units
                              /\ ~(d[1] = 0 /\ d[2] = 0)
  /\ \A f, r \in Units : ~(f = 0 /\ r = 0) => <<f, r>> \in Rules!Compass
<1>1. -1 .. 1 = Units
  BY DEF Units
<1>2. Rules!Compass = {d \in Units \X Units : d # <<0, 0>>}
  BY <1>1 DEF Rules!Compass
<1> QED
  BY <1>2

LEMMA UnitTimes ==
  ASSUME NEW n \in Int
  PROVE  n * (-1) = 0 - n /\ n * 0 = 0 /\ n * 1 = n
OBVIOUS

LEMMA Along ==
  ASSUME NEW x \in Squares, NEW f \in Int, NEW r \in Int
  PROVE  LET s == <<FIL(x) + f, RNK(x) + r>>
             y == x + 8 * r + f
         IN  /\ s \in Rules!Squares <=> FIL(x) + f \in 0 .. 7 /\ RNK(x) + r \in 0 .. 7
             /\ s \in Rules!Squares =>
                  y \in Squares /\ Pt(y) = s /\ Files(x, y) = f /\ Ranks(x, y) = r
             /\ \A z \in Squares : Pt(z) = s <=> Files(x, z) = f /\ Ranks(x, z) = r
<1> DEFINE s == <<FIL(x) + f, RNK(x) + r>>
           y == x + 8 * r + f
<1>1. s \in Rules!Squares <=> FIL(x) + f \in 0 .. 7 /\ RNK(x) + r \in 0 .. 7
  BY DEF Rules!Squares
<1>2. RNK(x) \in 0 .. 7 /\ FIL(x) \in 0 .. 7 /\ x = 8 * RNK(x) + FIL(x)
  BY RankOf
<1>3. ASSUME NEW z \in Squares PROVE Pt(z) = s <=> Files(x, z) = f /\ Ranks(x, z) = r
  <2>1. RNK(z) \in 0 .. 7 /\ FIL(z) \in 0 .. 7
    BY RankOf
  <2> QED
    BY <1>2, <2>1 DEF Pt, Files, Ranks
<1>4. ASSUME s \in Rules!Squares PROVE y \in Squares /\ Pt(y) = s
  <2>1. SQUARE(s[2], s[1]) \in Squares /\ s = Pt(SQUARE(s[2], s[1]))
    BY <1>4, PointsAre
  <2>2. SQUARE(s[2], s[1]) = y
    BY <1>2 DEF SQUARE
  <2> QED
    BY <2>1, <2>2
<1> QED
  BY <1>1, <1>3, <1>4

LEMMA PlusIs ==
  ASSUME NEW x \in Squares, NEW f \in Int, NEW r \in Int, NEW n \in Int
  PROVE  Rules!Plus(Pt(x), <<f, r>>, n) = <<FIL(x) + n * f, RNK(x) + n * r>>
BY DEF Rules!Plus, Pt

\* Along a direction of the compass the squares between are those of the ray.
LEMMA RayIs ==
  ASSUME NEW x \in Squares, NEW f \in Units, NEW r \in Units, ~(f = 0 /\ r = 0), NEW n \in 1 .. 7,
         NEW y \in Squares, Pt(y) = Rules!Plus(Pt(x), <<f, r>>, n)
  PROVE  /\ Straight(x, y) <=> f = 0 \/ r = 0
         /\ Diagonal(x, y) <=> f # 0 /\ r # 0
         /\ ray_bb[x][y] = {x + i * (8 * r + f) : i \in 1 .. n - 1}
<1>1. f \in Int /\ r \in Int /\ n \in Int /\ n > 0
  BY DEF Units
<1>2. Files(x, y) = n * f /\ Ranks(x, y) = n * r
  <2>1. n * f \in Int /\ n * r \in Int
    BY <1>1
  <2>2. Pt(y) = <<FIL(x) + n * f, RNK(x) + n * r>>
    BY <1>1, PlusIs
  <2> QED
    BY <2>1, <2>2, Along
<1>3. \A u \in Units : /\ Sign(n * u) = u /\ Abs(n * u) = (IF u = 0 THEN 0 ELSE n)
                       /\ (n * u = 0 <=> u = 0)
  <2>1. Sign(0) = 0 /\ Abs(0) = 0
    BY DEF Sign, Abs
  <2>2. Sign(n) = 1 /\ Abs(n) = n
    BY <1>1 DEF Sign, Abs
  <2>3. Sign(0 - n) = -1 /\ Abs(0 - n) = n
    BY <1>1 DEF Sign, Abs
  <2>4. n * (-1) = 0 - n /\ n * 0 = 0 /\ n * 1 = n
    BY <1>1, UnitTimes
  <2> QED
    BY <1>1, <2>1, <2>2, <2>3, <2>4 DEF Units
<1>4. /\ Sign(Files(x, y)) = f /\ Sign(Ranks(x, y)) = r
      /\ Abs(Files(x, y)) = (IF f = 0 THEN 0 ELSE n) /\ Abs(Ranks(x, y)) = (IF r = 0 THEN 0 ELSE n)
      /\ (Files(x, y) = 0 <=> f = 0) /\ (Ranks(x, y) = 0 <=> r = 0)
  BY <1>2, <1>3
<1>5. x # y
  <2>1. Files(x, x) = 0 /\ Ranks(x, x) = 0
    BY RankOf DEF Files, Ranks
  <2> QED
    BY <1>4, <2>1
<1>6. Larger(Abs(Ranks(x, y)), Abs(Files(x, y))) = n
  BY <1>1, <1>4 DEF Larger
<1>7. Straight(x, y) <=> f = 0 \/ r = 0
  BY <1>4, <1>5 DEF Straight
<1>8. Diagonal(x, y) <=> f # 0 /\ r # 0
  BY <1>1, <1>4, <1>5 DEF Diagonal
<1>9. ray_bb[x][y] = {x + i * (8 * r + f) : i \in 1 .. n - 1}
  <2>1. ray_bb[x][y] =
          {x + i * (8 * Sign(Ranks(x, y)) + Sign(Files(x, y))) :
             i \in 1 .. Larger(Abs(Ranks(x, y)), Abs(Files(x, y))) - 1}
    BY <1>7, <1>8 DEF ray_bb
  <2> QED
    BY <1>4, <1>6, <2>1
<1> QED
  BY <1>7, <1>8, <1>9

\* Two squares of a line lie in a direction of the compass.
LEMMA AimIs ==
  ASSUME NEW x \in Squares, NEW y \in Squares, Straight(x, y) \/ Diagonal(x, y)
  PROVE  \E f, r \in Units : \E n \in 1 .. 7 :
           ~(f = 0 /\ r = 0) /\ Pt(y) = Rules!Plus(Pt(x), <<f, r>>, n)
<1>1. /\ FIL(x) \in 0 .. 7 /\ RNK(x) \in 0 .. 7 /\ FIL(y) \in 0 .. 7 /\ RNK(y) \in 0 .. 7
      /\ Files(x, y) = FIL(y) - FIL(x) /\ Ranks(x, y) = RNK(y) - RNK(x)
  BY RankOf DEF Files, Ranks
<1>2. x # y
  BY DEF Straight, Diagonal
<1>3. ~(Files(x, y) = 0 /\ Ranks(x, y) = 0)
  <2>1. Files(x, y) = 0 /\ Ranks(x, y) = 0 => FIL(x) = FIL(y) /\ RNK(x) = RNK(y)
    BY <1>1
  <2>2. FIL(x) = FIL(y) /\ RNK(x) = RNK(y) => x = y
    BY RankOf
  <2> QED
    BY <1>2, <2>1, <2>2
<1> DEFINE f == Files(x, y)
           r == Ranks(x, y)
<1>4. f \in -7 .. 7 /\ r \in -7 .. 7
  BY <1>1
<1>5. r = 0 \/ f = 0 \/ r = f \/ r = 0 - f
  <2>1. Diagonal(x, y) => Abs(r) = Abs(f)
    BY DEF Diagonal
  <2>2. Abs(r) = Abs(f) => r = f \/ r = 0 - f
    BY <1>4 DEF Abs
  <2> QED
    BY <2>1, <2>2 DEF Straight
<1>6. ASSUME NEW u \in Units, NEW v \in Units, NEW n \in 1 .. 7, f = n * u, r = n * v
      PROVE  Pt(y) = Rules!Plus(Pt(x), <<u, v>>, n) /\ ~(u = 0 /\ v = 0)
  <2>1. u \in Int /\ v \in Int /\ n \in Int
    BY DEF Units
  <2>2. n * u \in Int /\ n * v \in Int /\ n * 0 = 0
    BY <2>1
  <2> DEFINE a == n * u
             c == n * v
  <2>3. a \in Int /\ c \in Int /\ Files(x, y) = a /\ Ranks(x, y) = c
    BY <1>6, <2>2
  <2> HIDE DEF a, c
  <2>4. Pt(y) = <<FIL(x) + a, RNK(x) + c>>
    BY <1>1, <2>3 DEF Pt
  <2>5. Pt(y) = <<FIL(x) + n * u, RNK(x) + n * v>>
    BY <2>4 DEF a, c
  <2>6. Pt(y) = Rules!Plus(Pt(x), <<u, v>>, n)
    BY <2>1, <2>5, PlusIs
  <2>7. ~(u = 0 /\ v = 0)
    <3>1. u = 0 /\ v = 0 => a = 0 /\ c = 0
      BY <2>2 DEF a, c
    <3> QED
      BY <1>3, <2>3, <3>1
  <2> QED
    BY <2>6, <2>7
<1> HIDE DEF f, r
<1>7. \A n \in 1 .. 7 : n \in Int /\ n * (-1) = 0 - n /\ n * 0 = 0 /\ n * 1 = n
  BY UnitTimes
<1>8. -1 \in Units /\ 0 \in Units /\ 1 \in Units
  BY DEF Units
<1>9. f \in 1 .. 7 \/ f = 0 \/ 0 - f \in 1 .. 7
  BY <1>4
<1>10. r \in 1 .. 7 \/ r = 0 \/ 0 - r \in 1 .. 7
  BY <1>4
<1>11. f \in Int /\ r \in Int
  BY <1>4
<1>12. CASE f \in 1 .. 7 /\ r = 0
  <2>1. f = f * 1 /\ r = f * 0
    BY <1>7, <1>12
  <2> QED
    BY <1>6, <1>8, <1>12, <2>1
<1>13. CASE 0 - f \in 1 .. 7 /\ r = 0
  <2>1. f = (0 - f) * (-1) /\ r = (0 - f) * 0
    BY <1>11, <1>13
  <2> QED
    BY <1>6, <1>8, <1>13, <2>1
<1>14. CASE f = 0 /\ r \in 1 .. 7
  <2>1. r = r * 1 /\ f = r * 0
    BY <1>7, <1>14
  <2> QED
    BY <1>6, <1>8, <1>14, <2>1
<1>15. CASE f = 0 /\ 0 - r \in 1 .. 7
  <2>1. r = (0 - r) * (-1) /\ f = (0 - r) * 0
    BY <1>11, <1>15
  <2> QED
    BY <1>6, <1>8, <1>15, <2>1
<1>16. CASE r = f /\ f \in 1 .. 7
  <2>1. f = f * 1 /\ r = f * 1
    BY <1>7, <1>16
  <2> QED
    BY <1>6, <1>8, <1>16, <2>1
<1>17. CASE r = f /\ 0 - f \in 1 .. 7
  <2>1. f = (0 - f) * (-1) /\ r = (0 - f) * (-1)
    BY <1>11, <1>17
  <2> QED
    BY <1>6, <1>8, <1>17, <2>1
<1>18. CASE r = 0 - f /\ f \in 1 .. 7
  <2>1. f = f * 1 /\ r = f * (-1)
    BY <1>7, <1>18
  <2> QED
    BY <1>6, <1>8, <1>18, <2>1
<1>19. CASE r = 0 - f /\ 0 - f \in 1 .. 7
  <2>1. f = (0 - f) * (-1) /\ r = (0 - f) * 1
    BY <1>11, <1>19
  <2> QED
    BY <1>6, <1>8, <1>19, <2>1
<1> QED
  BY <1>3, <1>5, <1>9, <1>10, <1>12, <1>13, <1>14, <1>15, <1>16, <1>17, <1>18, <1>19 DEF f, r

LEMMA Sliding ==
  ASSUME NEW b, NEW x \in Squares, NEW y
  PROVE  /\ y \in rook_attacks(b, x) <=>
              y \in Squares /\ Straight(x, y) /\ ray_bb[x][y] \cap b.occupied = {}
         /\ y \in bishop_attacks(b, x) <=>
              y \in Squares /\ Diagonal(x, y) /\ ray_bb[x][y] \cap b.occupied = {}
<1>1. RNK(x) \in 0 .. 7 /\ FIL(x) \in 0 .. 7
  BY RankOf
<1>2. rank[RNK(x)] = {z \in Squares : RNK(z) = RNK(x)} /\ file[FIL(x)] = {z \in Squares : FIL(z) = FIL(x)}
  BY <1>1 DEF rank, file
<1>3. y \in Squares =>
        (Straight(x, y) <=> x # y /\ (RNK(y) = RNK(x) \/ FIL(y) = FIL(x)))
  <2> SUFFICES ASSUME y \in Squares
               PROVE  Straight(x, y) <=> x # y /\ (RNK(y) = RNK(x) \/ FIL(y) = FIL(x))
    OBVIOUS
  <2>1. RNK(y) \in 0 .. 7 /\ FIL(y) \in 0 .. 7
    BY RankOf
  <2> QED
    BY <1>1, <2>1 DEF Straight, Ranks, Files
<1>4. y \in rook_attacks(b, x) <=>
        y \in Squares /\ Straight(x, y) /\ ray_bb[x][y] \cap b.occupied = {}
  BY <1>2, <1>3 DEF rook_attacks, atk0, atkl90, Visible
<1>5. attack_bb[BISHOP][x] = {z \in Squares : Diagonal(x, z)}
  BY DEF attack_bb, Pieces, PAWN, KNIGHT, BISHOP, ROOK, QUEEN, KING
<1>6. y \in Squares /\ Diagonal(x, y) =>
        Ranks(x, y) = Files(x, y) \/ Ranks(x, y) = -Files(x, y)
  <2> SUFFICES ASSUME y \in Squares, Diagonal(x, y)
               PROVE  Ranks(x, y) = Files(x, y) \/ Ranks(x, y) = -Files(x, y)
    OBVIOUS
  <2>1. Ranks(x, y) \in Int /\ Files(x, y) \in Int
    BY Slopes
  <2>2. Abs(Ranks(x, y)) = Abs(Files(x, y))
    BY DEF Diagonal
  <2> QED
    BY <2>1, <2>2 DEF Abs
<1>7. y \in bishop_attacks(b, x) <=>
        y \in Squares /\ Diagonal(x, y) /\ ray_bb[x][y] \cap b.occupied = {}
  BY <1>5, <1>6 DEF bishop_attacks, atkl45, atkr45, Visible
<1> QED
  BY <1>4, <1>7

\* A step of a line between two squares of the board stays on the board.
LEMMA Within ==
  ASSUME NEW n \in Int, NEW i \in Int, 0 <= i, i <= n, NEW u \in Units, NEW a \in 0 .. 7,
         a + n * u \in 0 .. 7
  PROVE  a + i * u \in 0 .. 7
<1>1. /\ n * (-1) = 0 - n /\ n * 0 = 0 /\ n * 1 = n
      /\ i * (-1) = 0 - i /\ i * 0 = 0 /\ i * 1 = i
  BY UnitTimes
<1>2. CASE u = -1
  <2>1. a - n \in 0 .. 7 /\ a + i * u = a - i
    BY <1>1, <1>2
  <2> QED
    BY <2>1
<1>3. CASE u = 0
  BY <1>1, <1>3
<1>4. CASE u = 1
  <2>1. a + n \in 0 .. 7 /\ a + i * u = a + i
    BY <1>1, <1>4
  <2> QED
    BY <2>1
<1> QED
  BY <1>2, <1>3, <1>4 DEF Units

\* The squares that the rules let a slider reach in one direction.
LineTo(at, s, d) ==
  {Rules!Plus(s, d, n) : n \in {i \in 1 .. 7 :
     /\ Rules!Plus(s, d, i) \in Rules!Squares
     /\ \A j \in 1 .. i - 1 : at[Rules!Plus(s, d, j)] = Rules!Empty}}

LEMMA PlusOnBoard ==
  ASSUME NEW x \in Squares, NEW f \in Units, NEW r \in Units, NEW n \in 1 .. 7,
         Rules!Plus(Pt(x), <<f, r>>, n) \in Rules!Squares, NEW i \in 1 .. n
  PROVE  /\ x + i * (8 * r + f) \in Squares
         /\ Pt(x + i * (8 * r + f)) = Rules!Plus(Pt(x), <<f, r>>, i)
<1>1. f \in Int /\ r \in Int /\ n \in Int /\ i \in Int /\ 0 <= i /\ i <= n
  BY DEF Units
<1>2. FIL(x) \in 0 .. 7 /\ RNK(x) \in 0 .. 7 /\ x \in Int
  BY RankOf DEF Squares
<1> DEFINE a == i * f
           c == i * r
<1>3. a \in Int /\ c \in Int
  BY <1>1
<1>4. <<FIL(x) + n * f, RNK(x) + n * r>> \in Rules!Squares
  BY <1>1, PlusIs
<1>5. FIL(x) + n * f \in 0 .. 7 /\ RNK(x) + n * r \in 0 .. 7
  BY <1>4 DEF Rules!Squares
<1>6. FIL(x) + a \in 0 .. 7 /\ RNK(x) + c \in 0 .. 7
  BY <1>1, <1>2, <1>5, Within
<1>7. x + i * (8 * r + f) = x + 8 * c + a
  <2>1. /\ i * (-1) = 0 - i /\ i * 0 = 0 /\ i * 1 = i
        /\ i * (8 * (-1) + (-1)) = 0 - 9 * i /\ i * (8 * (-1) + 0) = 0 - 8 * i
        /\ i * (8 * (-1) + 1) = 0 - 7 * i /\ i * (8 * 0 + (-1)) = 0 - i /\ i * (8 * 0 + 0) = 0
        /\ i * (8 * 0 + 1) = i /\ i * (8 * 1 + (-1)) = 7 * i /\ i * (8 * 1 + 0) = 8 * i
        /\ i * (8 * 1 + 1) = 9 * i
    BY <1>1
  <2>2. (f = -1 \/ f = 0 \/ f = 1) /\ (r = -1 \/ r = 0 \/ r = 1)
    BY DEF Units
  <2>3. i * (8 * r + f) = 8 * c + a
    <3>1. CASE r = -1 /\ f = -1
      BY <1>1, <2>1, <3>1
    <3>2. CASE r = -1 /\ f = 0
      BY <1>1, <2>1, <3>2
    <3>3. CASE r = -1 /\ f = 1
      BY <1>1, <2>1, <3>3
    <3>4. CASE r = 0 /\ f = -1
      BY <1>1, <2>1, <3>4
    <3>5. CASE r = 0 /\ f = 0
      BY <1>1, <2>1, <3>5
    <3>6. CASE r = 0 /\ f = 1
      BY <1>1, <2>1, <3>6
    <3>7. CASE r = 1 /\ f = -1
      BY <1>1, <2>1, <3>7
    <3>8. CASE r = 1 /\ f = 0
      BY <1>1, <2>1, <3>8
    <3>9. CASE r = 1 /\ f = 1
      BY <1>1, <2>1, <3>9
    <3> QED
      BY <2>2, <3>1, <3>2, <3>3, <3>4, <3>5, <3>6, <3>7, <3>8, <3>9
  <2> HIDE DEF a, c
  <2> QED
    BY <1>2, <1>3, <2>3
<1>8. Rules!Plus(Pt(x), <<f, r>>, i) = <<FIL(x) + a, RNK(x) + c>>
  BY <1>1, PlusIs
<1> HIDE DEF a, c
<1>9. <<FIL(x) + a, RNK(x) + c>> \in Rules!Squares
  BY <1>6 DEF Rules!Squares
<1>10. x + 8 * c + a \in Squares /\ Pt(x + 8 * c + a) = <<FIL(x) + a, RNK(x) + c>>
  BY <1>3, <1>9, Along
<1> QED
  BY <1>7, <1>8, <1>10

LEMMA SlideIs ==
  ASSUME NEW b \in Boards, Sound(b), NEW x \in Squares, NEW y \in Squares,
         NEW f \in Units, NEW r \in Units, ~(f = 0 /\ r = 0)
  PROVE  Pt(y) \in LineTo(Abstract(b).at, Pt(x), <<f, r>>) <=>
           /\ \E n \in 1 .. 7 : Pt(y) = Rules!Plus(Pt(x), <<f, r>>, n)
           /\ ray_bb[x][y] \cap b.occupied = {}
<1> DEFINE d == <<f, r>>
           at == Abstract(b).at
           Free(n) == \A j \in 1 .. n - 1 : at[Rules!Plus(Pt(x), d, j)] = Rules!Empty
<1>1. ASSUME NEW n \in 1 .. 7, Pt(y) = Rules!Plus(Pt(x), d, n)
      PROVE  Free(n) <=> ray_bb[x][y] \cap b.occupied = {}
  <2>1. ray_bb[x][y] = {x + i * (8 * r + f) : i \in 1 .. n - 1}
    BY <1>1, RayIs
  <2>2. ASSUME NEW i \in 1 .. n - 1
        PROVE  at[Rules!Plus(Pt(x), d, i)] = Rules!Empty <=> x + i * (8 * r + f) \notin b.occupied
    <3>1. i \in 1 .. n
      OBVIOUS
    <3>2. Pt(y) \in Rules!Squares
      BY PointsAre
    <3>3. /\ x + i * (8 * r + f) \in Squares
          /\ Pt(x + i * (8 * r + f)) = Rules!Plus(Pt(x), d, i)
      BY <1>1, <3>1, <3>2, PlusOnBoard
    <3> DEFINE z == x + i * (8 * r + f)
    <3> HIDE DEF z, d
    <3>4. z \notin b.occupied <=> at[Pt(z)] = Rules!Empty
      BY <3>3, Stands DEF z
    <3> QED
      BY <3>3, <3>4 DEF z
  <2> HIDE DEF at, d
  <2> QED
    BY <2>1, <2>2
<1>2. Pt(y) \in LineTo(at, Pt(x), d) <=> \E n \in 1 .. 7 : Pt(y) = Rules!Plus(Pt(x), d, n) /\ Free(n)
  <2>1. Pt(y) \in Rules!Squares
    BY PointsAre
  <2> HIDE DEF at, d
  <2> QED
    BY <2>1 DEF LineTo
<1> HIDE DEF Free, at, d
<1>3. Pt(y) \in LineTo(at, Pt(x), d) <=>
           /\ \E n \in 1 .. 7 : Pt(y) = Rules!Plus(Pt(x), d, n)
           /\ ray_bb[x][y] \cap b.occupied = {}
  BY <1>1, <1>2
<1> QED
  BY <1>3 DEF at, d

\* Where a man of the board takes.
Reach(b, c, p, x) == IF p = PAWN THEN pawn_capt_bb[c][x] ELSE piece_attacks(b, p, x)

\* A slider takes along the directions of its kind.
LEMMA SliderTakes ==
  ASSUME NEW b \in Boards, Sound(b), NEW p \in {BISHOP, ROOK, QUEEN}, NEW x \in Squares,
         NEW y \in Squares
  PROVE  Pt(y) \in UNION {LineTo(Abstract(b).at, Pt(x), d) : d \in Rules!Directions(Kind[p])} <=>
           y \in piece_attacks(b, p, x)
<1> DEFINE at == Abstract(b).at
           D == Rules!Directions(Kind[p])
           clear == ray_bb[x][y] \cap b.occupied = {}
           straight == p \in {ROOK, QUEEN}
           diagonal == p \in {BISHOP, QUEEN}
           Goes(f, r) == (straight /\ (f = 0 \/ r = 0)) \/ (diagonal /\ f # 0 /\ r # 0)
<1>0. PAWN = 0 /\ KNIGHT = 1 /\ BISHOP = 2 /\ ROOK = 3 /\ QUEEN = 4 /\ KING = 5
      /\ p \in Pieces
  BY DEF Pieces, PAWN, KNIGHT, BISHOP, ROOK, QUEEN, KING
<1>1. \A f, r \in Units : <<f, r>> \in D <=> ~(f = 0 /\ r = 0) /\ Goes(f, r)
  <2>1. /\ Kind[p] = "queen" <=> p = QUEEN
        /\ Kind[p] = "rook" <=> p = ROOK
        /\ Kind[p] = "bishop" <=> p = BISHOP
    BY <1>0, NamesAre
  <2>2. \A d \in Rules!Compass : d \in D <=> \/ p = QUEEN
                                            \/ (p = ROOK /\ (d[1] = 0 \/ d[2] = 0))
                                            \/ (p = BISHOP /\ d[1] # 0 /\ d[2] # 0)
    BY <2>1 DEF Rules!Directions
  <2>3. D \subseteq Rules!Compass
    BY DEF Rules!Directions
  <2> HIDE DEF D
  <2>4. ASSUME NEW f \in Units, NEW r \in Units
        PROVE  <<f, r>> \in D <=> ~(f = 0 /\ r = 0) /\ Goes(f, r)
    <3>1. <<f, r>> \in Rules!Compass <=> ~(f = 0 /\ r = 0)
      BY CompassIs
    <3>2. <<f, r>>[1] = f /\ <<f, r>>[2] = r
      OBVIOUS
    <3> QED
      BY <1>0, <2>2, <2>3, <3>1, <3>2
  <2> QED
    BY <2>4
<1>2. \A d \in D : \E f, r \in Units : d = <<f, r>>
  BY CompassIs DEF Rules!Directions
<1>3. y \in piece_attacks(b, p, x) <=>
        clear /\ ((straight /\ Straight(x, y)) \/ (diagonal /\ Diagonal(x, y)))
  <2>1. /\ y \in rook_attacks(b, x) <=> Straight(x, y) /\ clear
        /\ y \in bishop_attacks(b, x) <=> Diagonal(x, y) /\ clear
    BY Sliding
  <2> HIDE DEF clear
  <2>2. CASE p = BISHOP
    BY <1>0, <2>1, <2>2 DEF piece_attacks
  <2>3. CASE p = ROOK
    BY <1>0, <2>1, <2>3 DEF piece_attacks
  <2>4. CASE p = QUEEN
    BY <1>0, <2>1, <2>4 DEF piece_attacks, queen_attacks
  <2> QED
    BY <2>2, <2>3, <2>4
<1>4. \A f, r \in Units : ~(f = 0 /\ r = 0) =>
        (Pt(y) \in LineTo(at, Pt(x), <<f, r>>) <=>
           (\E n \in 1 .. 7 : Pt(y) = Rules!Plus(Pt(x), <<f, r>>, n)) /\ clear)
  BY SlideIs
<1>5. \A f, r \in Units : \A n \in 1 .. 7 :
        ~(f = 0 /\ r = 0) /\ Pt(y) = Rules!Plus(Pt(x), <<f, r>>, n) =>
          /\ Straight(x, y) <=> f = 0 \/ r = 0
          /\ Diagonal(x, y) <=> f # 0 /\ r # 0
  BY RayIs
<1>6. Straight(x, y) \/ Diagonal(x, y) =>
        \E f, r \in Units : \E n \in 1 .. 7 :
          ~(f = 0 /\ r = 0) /\ Pt(y) = Rules!Plus(Pt(x), <<f, r>>, n)
  BY AimIs
<1> HIDE DEF at, D, clear, straight, diagonal
<1>7. ASSUME Pt(y) \in UNION {LineTo(at, Pt(x), d) : d \in D}
      PROVE  clear /\ ((straight /\ Straight(x, y)) \/ (diagonal /\ Diagonal(x, y)))
  <2>1. PICK d \in D : Pt(y) \in LineTo(at, Pt(x), d)
    BY <1>7
  <2>2. PICK f \in Units, r \in Units : d = <<f, r>>
    BY <1>2
  <2>3. ~(f = 0 /\ r = 0) /\ Goes(f, r)
    BY <1>1, <2>1, <2>2
  <2>4. clear /\ \E n \in 1 .. 7 : Pt(y) = Rules!Plus(Pt(x), <<f, r>>, n)
    BY <1>4, <2>1, <2>2, <2>3
  <2> QED
    BY <1>5, <2>3, <2>4
<1>8. ASSUME clear, (straight /\ Straight(x, y)) \/ (diagonal /\ Diagonal(x, y))
      PROVE  Pt(y) \in UNION {LineTo(at, Pt(x), d) : d \in D}
  <2>1. PICK f \in Units, r \in Units, n \in 1 .. 7 :
          ~(f = 0 /\ r = 0) /\ Pt(y) = Rules!Plus(Pt(x), <<f, r>>, n)
    BY <1>6, <1>8
  <2>2. Goes(f, r)
    BY <1>5, <1>8, <2>1
  <2>3. <<f, r>> \in D
    BY <1>1, <2>1, <2>2
  <2>4. Pt(y) \in LineTo(at, Pt(x), <<f, r>>)
    BY <1>4, <1>8, <2>1
  <2> QED
    BY <2>3, <2>4
<1> QED
  BY <1>3, <1>7, <1>8 DEF at, D

\* The leaps of knight and king.
LEMMA LeapNumbers ==
  ASSUME NEW f \in Int, NEW r \in Int
  PROVE  /\ f \in -2 .. 2 /\ r \in -2 .. 2 /\ f * f + r * r = 5 <=> {Abs(r), Abs(f)} = {1, 2}
         /\ f \in Units /\ r \in Units /\ ~(f = 0 /\ r = 0) <=> Larger(Abs(r), Abs(f)) = 1
<1>1. {Abs(r), Abs(f)} = {1, 2} <=> (Abs(r) = 1 /\ Abs(f) = 2) \/ (Abs(r) = 2 /\ Abs(f) = 1)
  OBVIOUS
<1>2. \A n \in Int : /\ Abs(n) = 1 <=> n = 1 \/ n = -1
                     /\ Abs(n) = 2 <=> n = 2 \/ n = -2
                     /\ Abs(n) = 0 <=> n = 0
                     /\ Abs(n) \in Nat
  BY DEF Abs
<1>3. \A n \in -2 .. 2 : n = -2 \/ n = -1 \/ n = 0 \/ n = 1 \/ n = 2
  OBVIOUS
<1>4. 2 * 2 = 4 /\ (-2) * (-2) = 4 /\ 1 * 1 = 1 /\ (-1) * (-1) = 1 /\ 0 * 0 = 0
  OBVIOUS
<1>5. /\ -2 \in -2 .. 2 /\ -1 \in -2 .. 2 /\ 1 \in -2 .. 2 /\ 2 \in -2 .. 2
  OBVIOUS
<1>6. ASSUME f \in -2 .. 2, r \in -2 .. 2, f * f + r * r = 5
      PROVE  (Abs(r) = 1 /\ Abs(f) = 2) \/ (Abs(r) = 2 /\ Abs(f) = 1)
  <2>1. f * f \in {0, 1, 4} /\ r * r \in {0, 1, 4}
    BY <1>3, <1>4, <1>6
  <2>2. (f * f = 1 /\ r * r = 4) \/ (f * f = 4 /\ r * r = 1)
    BY <1>6, <2>1
  <2> QED
    BY <1>2, <1>3, <1>4, <1>6, <2>2
<1>7. ASSUME (Abs(r) = 1 /\ Abs(f) = 2) \/ (Abs(r) = 2 /\ Abs(f) = 1)
      PROVE  f \in -2 .. 2 /\ r \in -2 .. 2 /\ f * f + r * r = 5
  <2>1. (f * f = 4 /\ r * r = 1) \/ (f * f = 1 /\ r * r = 4)
    BY <1>2, <1>4, <1>7
  <2>2. f * f + r * r = 5
    BY <2>1
  <2> QED
    BY <1>2, <1>5, <1>7, <2>2
<1>8. f \in Units /\ r \in Units /\ ~(f = 0 /\ r = 0) <=> Larger(Abs(r), Abs(f)) = 1
  BY <1>2 DEF Larger, Units
<1> QED
  BY <1>1, <1>6, <1>7, <1>8

\* A leap on the board.
LEMMA LeapIs ==
  ASSUME NEW x \in Squares, NEW y \in Squares, NEW f \in Int, NEW r \in Int
  PROVE  Pt(y) = Rules!Plus(Pt(x), <<f, r>>, 1) <=> Files(x, y) = f /\ Ranks(x, y) = r
<1>1. 1 * f = f /\ 1 * r = r
  OBVIOUS
<1>2. Rules!Plus(Pt(x), <<f, r>>, 1) = <<FIL(x) + f, RNK(x) + r>>
  BY <1>1, PlusIs
<1>3. RNK(x) \in 0 .. 7 /\ FIL(x) \in 0 .. 7 /\ RNK(y) \in 0 .. 7 /\ FIL(y) \in 0 .. 7
  BY RankOf
<1>4. Pt(y) = <<FIL(x) + f, RNK(x) + r>> <=> Files(x, y) = f /\ Ranks(x, y) = r
  BY <1>3 DEF Pt, Files, Ranks
<1> QED
  BY <1>2, <1>4

LEMMA TakesAre ==
  ASSUME NEW b \in Boards, Sound(b), NEW c \in Colors, NEW p \in Pieces,
         NEW x \in Squares, x \in b.position[c][p], NEW y \in Squares
  PROVE  Pt(y) \in Rules!Takes(Abstract(b).at, Pt(x)) <=> y \in Reach(b, c, p, x)
<1> DEFINE at == Abstract(b).at
           s == Pt(x)
           T == Rules!Takes(at, s)
<1>0. /\ PAWN = 0 /\ KNIGHT = 1 /\ BISHOP = 2 /\ ROOK = 3 /\ QUEEN = 4 /\ KING = 5
      /\ p \in {PAWN, KNIGHT, BISHOP, ROOK, QUEEN, KING}
  BY DEF Pieces, PAWN, KNIGHT, BISHOP, ROOK, QUEEN, KING
<1>1. at[s] = Man(c, p)
  BY Stands
<1>2. at[s].kind = Kind[p] /\ at[s].colour = Colour(c)
  BY <1>1, ManFacts
<1>3. Pt(y) \in Rules!Squares
  BY PointsAre
<1>4. Ranks(x, y) \in Int /\ Files(x, y) \in Int
  BY Slopes
<1> HIDE DEF at, s
<1>5. CASE p = PAWN
  <2> DEFINE w == Rules!Forward(Colour(c))
  <2>1. w \in Int /\ w = (IF c = WHITE THEN 1 ELSE -1)
    BY NamesAre DEF Rules!Forward, Colors, WHITE, BLACK
  <2>2. at[s].kind = "pawn"
    BY <1>2, <1>5, NamesAre
  <2>3. T = {Rules!Plus(s, <<f, w>>, 1) : f \in {-1, 1}} \cap Rules!Squares
    BY <1>2, <2>2 DEF Rules!Takes
  <2> HIDE DEF w
  <2>4. Pt(y) \in T <=> \E f \in {-1, 1} : Pt(y) = Rules!Plus(s, <<f, w>>, 1)
    BY <1>3, <2>3
  <2>5. \A f \in {-1, 1} : Pt(y) = Rules!Plus(s, <<f, w>>, 1) <=> Files(x, y) = f /\ Ranks(x, y) = w
    BY <2>1, LeapIs DEF s
  <2>6. Abs(Files(x, y)) = 1 <=> Files(x, y) \in {-1, 1}
    BY <1>4 DEF Abs
  <2>7. y \in pawn_capt_bb[c][x] <=> Ranks(x, y) = w /\ Abs(Files(x, y)) = 1
    BY <2>1 DEF pawn_capt_bb
  <2>8. Pt(y) \in T <=> y \in pawn_capt_bb[c][x]
    BY <2>4, <2>5, <2>6, <2>7
  <2> QED
    BY <1>5, <2>8 DEF Reach, at, s
<1>6. CASE p \in {KNIGHT, KING}
  <2> DEFINE k == Kind[p]
  <2>1. k = "knight" \/ k = "king"
    BY <1>6, NamesAre
  <2>2. T = {Rules!Plus(s, d, 1) : d \in Rules!Leaps(k)} \cap Rules!Squares
    BY <1>2, <2>1 DEF Rules!Takes
  <2>3. \A d \in Rules!Leaps(k) : d[1] \in Int /\ d[2] \in Int /\ d = <<d[1], d[2]>>
    BY CompassIs DEF Rules!Leaps, Units
  <2> HIDE DEF k
  <2>4. \A f, r \in Int : <<f, r>> \in Rules!Leaps(k) <=>
          IF p = KING THEN f \in Units /\ r \in Units /\ ~(f = 0 /\ r = 0)
          ELSE f \in -2 .. 2 /\ r \in -2 .. 2 /\ f * f + r * r = 5
    <3>1. CASE p = KING
      <4>1. k = "king"
        BY <3>1, NamesAre DEF k
      <4>2. Rules!Leaps(k) = Rules!Compass
        BY <4>1 DEF Rules!Leaps
      <4>3. \A f, r : <<f, r>> \in Rules!Compass <=> f \in Units /\ r \in Units /\ ~(f = 0 /\ r = 0)
        BY CompassIs
      <4> QED
        BY <3>1, <4>2, <4>3
    <3>2. CASE p = KNIGHT
      <4>1. k = "knight"
        BY <3>2, NamesAre DEF k
      <4>2. Rules!Leaps(k) = {d \in (-2 .. 2) \X (-2 .. 2) : d[1] * d[1] + d[2] * d[2] = 5}
        BY <4>1 DEF Rules!Leaps
      <4> DEFINE L == Rules!Leaps(k)
      <4>3. ASSUME NEW f \in Int, NEW r \in Int
            PROVE  <<f, r>> \in L <=> f \in -2 .. 2 /\ r \in -2 .. 2 /\ f * f + r * r = 5
        <5>1. <<f, r>>[1] = f /\ <<f, r>>[2] = r
          OBVIOUS
        <5>2. <<f, r>> \in (-2 .. 2) \X (-2 .. 2) <=> f \in -2 .. 2 /\ r \in -2 .. 2
          OBVIOUS
        <5> QED
          BY <4>2, <5>1, <5>2
      <4>4. p # KING
        BY <1>0, <3>2
      <4> QED
        BY <4>3, <4>4, Zenon DEF L
    <3> QED
      BY <1>6, <3>1, <3>2
  <2>5. y \in attack_bb[p][x] <=>
          IF p = KING THEN Larger(Abs(Ranks(x, y)), Abs(Files(x, y))) = 1
          ELSE {Abs(Ranks(x, y)), Abs(Files(x, y))} = {1, 2}
    <3>1. attack_bb[KNIGHT][x] = {z \in Squares : {Abs(Ranks(x, z)), Abs(Files(x, z))} = {1, 2}}
      BY <1>0 DEF attack_bb, Pieces
    <3>2. attack_bb[KING][x] = {z \in Squares : Larger(Abs(Ranks(x, z)), Abs(Files(x, z))) = 1}
      BY <1>0 DEF attack_bb, Pieces
    <3> QED
      BY <1>0, <1>6, <3>1, <3>2
  <2>6. y \in attack_bb[p][x] <=> <<Files(x, y), Ranks(x, y)>> \in Rules!Leaps(k)
    BY <1>4, <2>4, <2>5, LeapNumbers
  <2>7. Pt(y) \in T <=> \E d \in Rules!Leaps(k) : Pt(y) = Rules!Plus(s, d, 1)
    BY <1>3, <2>2
  <2>8. \A f, r \in Int : Pt(y) = Rules!Plus(s, <<f, r>>, 1) <=> Files(x, y) = f /\ Ranks(x, y) = r
    BY LeapIs DEF s
  <2>9. Pt(y) \in T <=> <<Files(x, y), Ranks(x, y)>> \in Rules!Leaps(k)
    BY <1>4, <2>3, <2>7, <2>8
  <2>10. Reach(b, c, p, x) = attack_bb[p][x]
    BY <1>0, <1>6 DEF Reach, piece_attacks
  <2> QED
    BY <2>6, <2>9, <2>10 DEF at, s
<1>7. CASE p \in {BISHOP, ROOK, QUEEN}
  <2> DEFINE k == Kind[p]
  <2>1. k \in {"bishop", "rook", "queen"}
    BY <1>7, NamesAre
  <2>2. T = UNION {LineTo(at, s, d) : d \in Rules!Directions(k)}
    BY <1>2, <2>1 DEF Rules!Takes, LineTo
  <2>3. Pt(y) \in UNION {LineTo(at, s, d) : d \in Rules!Directions(k)} <=> y \in piece_attacks(b, p, x)
    BY <1>7, SliderTakes DEF at, s
  <2>4. Reach(b, c, p, x) = piece_attacks(b, p, x)
    BY <1>0, <1>7 DEF Reach
  <2> QED
    BY <2>2, <2>3, <2>4 DEF at, s
<1> QED
  BY <1>0, <1>5, <1>6, <1>7

\* What the rules let a man take lies on the board.
LEMMA TakesOnBoard ==
  ASSUME NEW b \in Boards, Sound(b), NEW c \in Colors, NEW p \in Pieces,
         NEW x \in Squares, x \in b.position[c][p]
  PROVE  Rules!Takes(Abstract(b).at, Pt(x)) = {Pt(y) : y \in Reach(b, c, p, x) \cap Squares}
<1> DEFINE T == Rules!Takes(Abstract(b).at, Pt(x))
<1>1. T \subseteq Rules!Squares
  <2> DEFINE at == Abstract(b).at
             s == Pt(x)
             k == at[s].kind
  <2>1. k \in Rules!Kinds
    <3>1. at[s] = Man(c, p)
      BY Stands
    <3> QED
      BY <3>1, ManFacts, NamesAre
  <2>2. CASE k = "pawn"
    BY <2>2 DEF Rules!Takes
  <2>3. CASE k \in {"knight", "king"}
    BY <2>3 DEF Rules!Takes
  <2>4. CASE k \in {"bishop", "rook", "queen"}
    <3>1. T = UNION {LineTo(at, s, d) : d \in Rules!Directions(k)}
      BY <2>4 DEF Rules!Takes, LineTo
    <3>2. \A d : LineTo(at, s, d) \subseteq Rules!Squares
      BY DEF LineTo
    <3> HIDE DEF at, s, k, T
    <3> QED
      BY <3>1, <3>2 DEF T
  <2> QED
    BY <2>1, <2>2, <2>3, <2>4 DEF Rules!Kinds
<1> HIDE DEF T
<1>2. \A y \in Squares : Pt(y) \in T <=> y \in Reach(b, c, p, x)
  BY TakesAre DEF T
<1>3. \A t \in T : \E y \in Squares : t = Pt(y)
  BY <1>1, PointsAre
<1>4. T = {Pt(y) : y \in Reach(b, c, p, x) \cap Squares}
  BY <1>2, <1>3
<1> QED
  BY <1>4 DEF T

-----------------------------------------------------------------------------
(***************************************************************************)
(* What is attacked on the board is attacked by the rules.                  *)
(***************************************************************************)
LEMMA AttackMeans ==
  ASSUME NEW b \in Boards, Sound(b), NEW c \in Colors, NEW t \in Squares
  PROVE  is_attacked(b, t, c) <=>
           \E p \in Pieces : \E x \in b.position[c][p] : t \in Reach(b, c, p, x)
<1> DEFINE own == b.position[c]
<1>0. /\ PAWN = 0 /\ KNIGHT = 1 /\ BISHOP = 2 /\ ROOK = 3 /\ QUEEN = 4 /\ KING = 5
      /\ \A p \in Pieces : p \in {PAWN, KNIGHT, BISHOP, ROOK, QUEEN, KING}
  BY DEF Pieces, PAWN, KNIGHT, BISHOP, ROOK, QUEEN, KING
<1>1. \A p \in Pieces : own[p] \subseteq Squares /\ own[p] \subseteq b.occupied
  BY MenOccupy DEF Boards
<1>2. \A p \in Pieces \ {PAWN} : \A x \in Squares : t \in piece_attacks(b, p, x) <=> x \in piece_attacks(b, p, t)
  BY AttackBack
<1>3. \A x \in Squares : t \in pawn_capt_bb[c][x] <=> x \in pawn_capt_bb[XSIDE(c)][t]
  <2>1. XSIDE(c) \in Colors /\ XSIDE(XSIDE(c)) = c
    BY NamesAre
  <2> QED
    BY <2>1, PawnTakes
<1>4. pawn_captures(b, t, XSIDE(c)) \cap own[PAWN] # {} <=>
        \E x \in own[PAWN] : t \in pawn_capt_bb[c][x]
  BY <1>1, <1>3, PieceNames DEF pawn_captures
<1>5. /\ piece_attacks(b, KNIGHT, t) = attack_bb[KNIGHT][t] /\ piece_attacks(b, KING, t) = attack_bb[KING][t]
      /\ piece_attacks(b, BISHOP, t) = bishop_attacks(b, t)
      /\ piece_attacks(b, ROOK, t) = rook_attacks(b, t)
      /\ piece_attacks(b, QUEEN, t) = bishop_attacks(b, t) \cup rook_attacks(b, t)
  BY <1>0 DEF piece_attacks, queen_attacks
<1>6. is_attacked(b, t, c) <=>
        \/ rook_attacks(b, t) \cap (own[ROOK] \cup own[QUEEN]) # {}
        \/ bishop_attacks(b, t) \cap (own[BISHOP] \cup own[QUEEN]) # {}
        \/ \E x \in own[PAWN] : t \in pawn_capt_bb[c][x]
        \/ attack_bb[KNIGHT][t] \cap own[KNIGHT] # {}
        \/ attack_bb[KING][t] \cap own[KING] # {}
  BY <1>4 DEF is_attacked
<1> HIDE DEF own
<1>7. ASSUME NEW p \in Pieces \ {PAWN}
      PROVE  (\E x \in own[p] : t \in Reach(b, c, p, x)) <=> piece_attacks(b, p, t) \cap own[p] # {}
  <2>1. \A x \in own[p] : t \in Reach(b, c, p, x) <=> x \in piece_attacks(b, p, t)
    BY <1>1, <1>2, <1>7 DEF Reach
  <2> QED
    BY <2>1
<1>8. (\E x \in own[PAWN] : t \in Reach(b, c, PAWN, x)) <=> \E x \in own[PAWN] : t \in pawn_capt_bb[c][x]
  BY DEF Reach
<1>9. (\E p \in Pieces : \E x \in own[p] : t \in Reach(b, c, p, x)) <=>
        \/ \E x \in own[PAWN] : t \in pawn_capt_bb[c][x]
        \/ piece_attacks(b, KNIGHT, t) \cap own[KNIGHT] # {}
        \/ piece_attacks(b, BISHOP, t) \cap own[BISHOP] # {}
        \/ piece_attacks(b, ROOK, t) \cap own[ROOK] # {}
        \/ piece_attacks(b, QUEEN, t) \cap own[QUEEN] # {}
        \/ piece_attacks(b, KING, t) \cap own[KING] # {}
  <2> DEFINE A(p) == \E x \in own[p] : t \in Reach(b, c, p, x)
  <2>1. (\E p \in Pieces : A(p)) <=> \/ A(PAWN) \/ A(KNIGHT) \/ A(BISHOP)
                                      \/ A(ROOK) \/ A(QUEEN) \/ A(KING)
    <3> HIDE DEF A
    <3> QED
      BY <1>0, PieceNames
  <2>2. /\ A(KNIGHT) <=> piece_attacks(b, KNIGHT, t) \cap own[KNIGHT] # {}
        /\ A(BISHOP) <=> piece_attacks(b, BISHOP, t) \cap own[BISHOP] # {}
        /\ A(ROOK) <=> piece_attacks(b, ROOK, t) \cap own[ROOK] # {}
        /\ A(QUEEN) <=> piece_attacks(b, QUEEN, t) \cap own[QUEEN] # {}
        /\ A(KING) <=> piece_attacks(b, KING, t) \cap own[KING] # {}
    <3>1. {KNIGHT, BISHOP, ROOK, QUEEN, KING} \subseteq Pieces \ {PAWN}
      BY <1>0, PieceNames
    <3> QED
      BY <1>7, <3>1
  <2> QED
    BY <1>8, <2>1, <2>2
<1> QED
  BY <1>5, <1>6, <1>9 DEF own

LEMMA AttackedIs ==
  ASSUME NEW b \in Boards, Sound(b), NEW c \in Colors, NEW t \in Squares
  PROVE  Rules!Attacked(Abstract(b).at, Pt(t), Colour(c)) <=> is_attacked(b, t, c)
<1> DEFINE at == Abstract(b).at
<1>1. Rules!Attacked(at, Pt(t), Colour(c)) <=>
        \E s \in Rules!Squares : at[s].colour = Colour(c) /\ Pt(t) \in Rules!Takes(at, s)
  BY DEF Rules!Attacked, Rules!Of
<1>2. Rules!Attacked(at, Pt(t), Colour(c)) <=>
        \E x \in Squares : at[Pt(x)].colour = Colour(c) /\ Pt(t) \in Rules!Takes(at, Pt(x))
  <2> HIDE DEF at
  <2> QED
    BY <1>1, PointsAre
<1>3. \A x \in Squares : at[Pt(x)].colour = Colour(c) <=> \E p \in Pieces : x \in b.position[c][p]
  BY Stands DEF Sound, MenTold
<1>4. \A p \in Pieces : \A x \in Squares : x \in b.position[c][p] =>
        (Pt(t) \in Rules!Takes(at, Pt(x)) <=> t \in Reach(b, c, p, x))
  BY TakesAre
<1>5. \A p \in Pieces : b.position[c][p] \subseteq Squares
  BY DEF Boards
<1> HIDE DEF at
<1>6. Rules!Attacked(at, Pt(t), Colour(c)) <=>
        \E p \in Pieces : \E x \in b.position[c][p] : t \in Reach(b, c, p, x)
  BY <1>2, <1>3, <1>4, <1>5
<1> QED
  BY <1>6, AttackMeans DEF at

LEMMA CheckIs ==
  ASSUME NEW b \in Boards, Sound(b), NEW c \in Colors
  PROVE  Rules!InCheck(Abstract(b).at, Colour(c)) <=> is_attacked(b, b.king[c], XSIDE(c))
<1> DEFINE at == Abstract(b).at
           k == b.king[c]
<1>1. k \in Squares /\ b.position[c][KING] = {k} /\ XSIDE(c) \in Colors
      /\ Colour(XSIDE(c)) = Rules!Other(Colour(c))
  BY NamesAre DEF Boards, Sound, MenTold
<1>2. Rules!InCheck(at, Colour(c)) <=>
        \E s \in Rules!Squares : /\ at[s].colour = Colour(c) /\ at[s].kind = "king"
                                 /\ Rules!Attacked(at, s, Colour(XSIDE(c)))
  BY <1>1 DEF Rules!InCheck, Rules!Of
<1>3. \A x \in Squares : at[Pt(x)].colour = Colour(c) /\ at[Pt(x)].kind = "king" <=> x = k
  <2>1. \A x \in Squares : x \in b.position[c][KING] <=> at[Pt(x)] = Man(c, KING)
    BY PieceNames, Stands
  <2>2. Man(c, KING).colour = Colour(c) /\ Man(c, KING).kind = "king"
    BY PieceNames, ManFacts, NamesAre
  <2>3. ASSUME NEW x \in Squares, at[Pt(x)].colour = Colour(c), at[Pt(x)].kind = "king"
        PROVE  at[Pt(x)] = Man(c, KING)
    <3>1. \E p \in Pieces : x \in b.position[c][p]
      BY <2>3, Stands DEF Sound, MenTold
    <3>2. PICK p \in Pieces : at[Pt(x)] = Man(c, p)
      BY <3>1, Stands
    <3>3. Kind[p] = Kind[KING]
      BY <2>3, <3>2, ManFacts, NamesAre
    <3> QED
      BY <3>2, <3>3, NamesAre, PieceNames
  <2> HIDE DEF at
  <2> QED
    BY <1>1, <2>1, <2>2, <2>3
<1>4. Rules!InCheck(at, Colour(c)) <=> Rules!Attacked(at, Pt(k), Colour(XSIDE(c)))
  <2> HIDE DEF at, k
  <2>1. Pt(k) \in Rules!Squares
    BY <1>1, PointsAre
  <2>2. \A s \in Rules!Squares : \E x \in Squares : s = Pt(x)
    BY PointsAre
  <2> QED
    BY <1>1, <1>2, <1>3, <2>1, <2>2
<1> QED
  BY <1>1, <1>4, AttackedIs

-----------------------------------------------------------------------------
(***************************************************************************)
(* The men after a move: squares that are cleared, men that are put down.   *)
(***************************************************************************)
Changed(b, r, gone, come) ==
  \A c \in Colors : \A p \in Pieces : \A y \in Squares :
    y \in r.position[c][p] <=> (y \in b.position[c][p] /\ y \notin gone) \/ <<c, p, y>> \in come

LEMMA MovedMen ==
  ASSUME NEW b \in Boards, Sound(b), NEW s \in Colors, NEW from \in Squares, NEW to \in Squares,
         NEW p \in Pieces, from \in b.position[s][p], to \notin b.occupied
  PROVE  LET r == move_piece(b, from, to, s, p)
         IN  /\ Changed(b, r, {from, to}, {<<s, p, to>>}) /\ r \in Boards /\ Sound(r)
             /\ r.occupied = (b.occupied \ {from}) \cup {to}
<1> DEFINE r == move_piece(b, from, to, s, p)
           Q == (b.position[s][p] \ {from}) \cup {to}
<1>1. Sound(r) /\ Repositioned(b, r, s, p, b.position[s][p], Q)
  BY MoveSound
<1>2. from # to
  BY MenOccupy
<1> HIDE DEF r
<1>3. \A c \in Colors : \A q \in Pieces : r.position[c][q] = IF c = s /\ q = p THEN Q ELSE b.position[c][q]
  BY <1>1 DEF Repositioned
<1>4. \A c \in Colors : \A q \in Pieces : from \in b.position[c][q] => c = s /\ q = p
  BY DEF Sound, MenTold
<1>5. \A c \in Colors : \A q \in Pieces : to \notin b.position[c][q]
  BY MenOccupy
<1>6. ASSUME NEW c \in Colors, NEW q \in Pieces, NEW y \in Squares
      PROVE  y \in r.position[c][q] <=>
               (y \in b.position[c][q] /\ y \notin {from, to}) \/ <<c, q, y>> \in {<<s, p, to>>}
  <2>1. <<c, q, y>> \in {<<s, p, to>>} <=> c = s /\ q = p /\ y = to
    OBVIOUS
  <2>2. CASE c = s /\ q = p
    BY <1>2, <1>3, <2>1, <2>2 DEF Q
  <2>3. CASE ~(c = s /\ q = p)
    BY <1>3, <1>4, <1>5, <2>1, <2>3
  <2> QED
    BY <2>2, <2>3
<1>7. Changed(b, r, {from, to}, {<<s, p, to>>})
  BY <1>6 DEF Changed
<1>8. r.occupied = (b.occupied \ {from}) \cup {to}
  BY <1>1, MenOccupy DEF Repositioned, Q
<1>9. r \in Boards
  BY <1>1 DEF Sound
<1> QED
  BY <1>1, <1>7, <1>8, <1>9 DEF r

LEMMA RemovedMen ==
  ASSUME NEW b \in Boards, Sound(b), NEW sq \in Squares, NEW s \in Colors, NEW q \in Pieces,
         q # KING, sq \in b.position[s][q]
  PROVE  Changed(b, remove_piece(b, sq, s, q), {sq}, {})
<1> DEFINE r == remove_piece(b, sq, s, q)
<1>1. \A c \in Colors : \A p \in Pieces : \A y \in Squares :
        y \in r.position[c][p] <=> y \in b.position[c][p] /\ ~(c = s /\ p = q /\ y = sq)
  BY RemoveFacts
<1>2. \A c \in Colors : \A p \in Pieces : sq \in b.position[c][p] => c = s /\ p = q
  BY DEF Sound, MenTold
<1> HIDE DEF r
<1>3. Changed(b, r, {sq}, {})
  BY <1>1, <1>2 DEF Changed
<1> QED
  BY <1>3 DEF r

\* Two changes one after the other.
LEMMA ChangedTwice ==
  ASSUME NEW b, NEW t, NEW r, NEW A, NEW B, NEW P, NEW Q, Changed(b, t, A, P), Changed(t, r, B, Q)
  PROVE  Changed(b, r, A \cup B, {x \in P : x[3] \notin B} \cup Q)
<1> SUFFICES ASSUME NEW c \in Colors, NEW p \in Pieces, NEW y \in Squares
             PROVE  y \in r.position[c][p] <=>
                      \/ y \in b.position[c][p] /\ y \notin A \cup B
                      \/ <<c, p, y>> \in {x \in P : x[3] \notin B} \cup Q
  BY DEF Changed
<1>1. y \in t.position[c][p] <=> (y \in b.position[c][p] /\ y \notin A) \/ <<c, p, y>> \in P
  BY DEF Changed
<1>2. y \in r.position[c][p] <=> (y \in t.position[c][p] /\ y \notin B) \/ <<c, p, y>> \in Q
  BY DEF Changed
<1>3. <<c, p, y>>[3] = y
  OBVIOUS
<1> DEFINE z == <<c, p, y>>
<1>4. z[3] = y
  BY <1>3
<1> HIDE DEF z
<1>5. z \in {x \in P : x[3] \notin B} \cup Q <=> (z \in P /\ y \notin B) \/ z \in Q
  BY <1>4
<1> QED
  BY <1>1, <1>2, <1>5 DEF z

LEMMA NormalMen ==
  ASSUME NEW b \in Boards, Sound(b), NEW from \in Squares, NEW to \in Squares,
         NEW p \in Pieces, from \in b.position[b.side][p], to \notin b.occupied
  PROVE  Changed(b, MovePieces(b, Normal(from, to, p)), {from, to}, {<<b.side, p, to>>})
<1>1. b.side \in Colors
  BY DEF Boards
<1>2. MovePieces(b, Normal(from, to, p)) = move_piece(b, from, to, b.side, p)
  BY NormalParts DEF MovePieces
<1>3. Changed(b, move_piece(b, from, to, b.side, p), {from, to}, {<<b.side, p, to>>})
  BY <1>1, MovedMen
<1> QED
  BY <1>2, <1>3

LEMMA CaptureMen ==
  ASSUME NEW b \in Boards, Sound(b), NEW from \in Squares, NEW to \in Squares,
         NEW p \in Pieces, NEW q \in Pieces, from \in b.position[b.side][p],
         q # KING, to \in b.position[XSIDE(b.side)][q]
  PROVE  Changed(b, MovePieces(b, Capture(from, to, p, q)), {from, to}, {<<b.side, p, to>>})
<1> DEFINE s == b.side
           m == Capture(from, to, p, q)
           t == remove_piece(b, to, XSIDE(s), q)
           r == MovePieces(b, m)
<1>1. s \in Colors /\ XSIDE(s) \in Colors /\ s # XSIDE(s)
  BY NamesAre DEF Boards
<1>2. r = move_piece(t, from, to, s, p)
  BY CaptureParts DEF MovePieces
<1>3. t \in Boards /\ Sound(t) /\ t.occupied = b.occupied \ {to}
  BY <1>1, RemoveFacts
<1>4. Changed(b, t, {to}, {})
  BY <1>1, RemovedMen
<1> HIDE DEF r, t, m
<1>5. from \in t.position[s][p] /\ to \notin t.occupied
  <2>1. from # to
    BY <1>1 DEF Sound, MenTold
  <2> QED
    BY <1>1, <1>3, <1>4, <2>1 DEF Changed
<1>6. Changed(t, r, {from, to}, {<<s, p, to>>})
  BY <1>1, <1>2, <1>3, <1>5, MovedMen
<1>7. Changed(b, r, {to} \cup {from, to}, {x \in {} : x[3] \notin {from, to}} \cup {<<s, p, to>>})
  BY <1>4, <1>6, ChangedTwice
<1>8. /\ {to} \cup {from, to} = {from, to}
      /\ {x \in {} : x[3] \notin {from, to}} \cup {<<s, p, to>>} = {<<s, p, to>>}
  OBVIOUS
<1> QED
  BY <1>7, <1>8 DEF r, m

LEMMA PromotedMen ==
  ASSUME NEW b \in Boards, Sound(b), NEW from \in Squares, NEW to \in Squares,
         NEW s \in Colors, NEW q \in Pieces, q # KING,
         from \in b.position[s][PAWN], to \notin b.occupied
  PROVE  Changed(b, place_piece(remove_piece(b, from, s, PAWN), to, s, q), {from, to},
                 {<<s, q, to>>})
<1> DEFINE r == place_piece(remove_piece(b, from, s, PAWN), to, s, q)
<1>1. \A c \in Colors : \A p \in Pieces : \A y \in Squares :
        y \in r.position[c][p] <=>
          \/ y \in b.position[c][p] /\ ~(c = s /\ p = PAWN /\ y = from)
          \/ c = s /\ p = q /\ y = to
  BY PromoteFacts
<1>2. \A c \in Colors : \A p \in Pieces :
        /\ from \in b.position[c][p] => c = s /\ p = PAWN
        /\ to \notin b.position[c][p]
  BY PieceNames, MenOccupy DEF Sound, MenTold
<1> HIDE DEF r
<1>3. ASSUME NEW c \in Colors, NEW p \in Pieces, NEW y \in Squares
      PROVE  y \in r.position[c][p] <=>
               (y \in b.position[c][p] /\ y \notin {from, to}) \/ <<c, p, y>> \in {<<s, q, to>>}
  <2>1. <<c, p, y>> \in {<<s, q, to>>} <=> c = s /\ p = q /\ y = to
    OBVIOUS
  <2> QED
    BY <1>1, <1>2, <2>1
<1>4. Changed(b, r, {from, to}, {<<s, q, to>>})
  BY <1>3 DEF Changed
<1> QED
  BY <1>4 DEF r

LEMMA PromotionMen ==
  ASSUME NEW b \in Boards, Sound(b), NEW from \in Squares, NEW to \in Squares,
         NEW q \in Promoted, from \in b.position[b.side][PAWN], to \notin b.occupied
  PROVE  Changed(b, MovePieces(b, Promotion(from, to, q)), {from, to}, {<<b.side, q, to>>})
<1>1. b.side \in Colors /\ q \in Pieces /\ q # KING
  BY PromotedFacts DEF Boards
<1>2. MovePieces(b, Promotion(from, to, q)) =
        place_piece(remove_piece(b, from, b.side, PAWN), to, b.side, q)
  BY <1>1, PromotionParts DEF MovePieces
<1> QED
  BY <1>1, <1>2, PromotedMen

LEMMA PromotionCaptureMen ==
  ASSUME NEW b \in Boards, Sound(b), NEW from \in Squares, NEW to \in Squares,
         NEW q \in Promoted, NEW cap \in Pieces, from \in b.position[b.side][PAWN],
         cap # KING, to \in b.position[XSIDE(b.side)][cap]
  PROVE  Changed(b, MovePieces(b, PromotionCapture(from, to, q, cap)), {from, to},
                 {<<b.side, q, to>>})
<1> DEFINE s == b.side
           m == PromotionCapture(from, to, q, cap)
           t == remove_piece(b, to, XSIDE(s), cap)
           r == MovePieces(b, m)
<1>1. /\ s \in Colors /\ XSIDE(s) \in Colors /\ s # XSIDE(s)
      /\ q \in Pieces /\ q # KING
  BY NamesAre, PromotedFacts DEF Boards
<1>2. r = place_piece(remove_piece(t, from, s, PAWN), to, s, q)
  BY <1>1, PromotionCaptureParts DEF MovePieces
<1>3. t \in Boards /\ Sound(t) /\ t.occupied = b.occupied \ {to}
  BY <1>1, RemoveFacts
<1>4. Changed(b, t, {to}, {})
  BY <1>1, RemovedMen
<1> HIDE DEF r, t, m
<1>5. from \in t.position[s][PAWN] /\ to \notin t.occupied
  <2>1. from # to
    BY <1>1, PieceNames DEF Sound, MenTold
  <2> QED
    BY <1>1, <1>3, <1>4, <2>1, PieceNames DEF Changed
<1>6. Changed(t, r, {from, to}, {<<s, q, to>>})
  BY <1>1, <1>2, <1>3, <1>5, PromotedMen
<1>7. Changed(b, r, {to} \cup {from, to}, {x \in {} : x[3] \notin {from, to}} \cup {<<s, q, to>>})
  BY <1>4, <1>6, ChangedTwice
<1>8. /\ {to} \cup {from, to} = {from, to}
      /\ {x \in {} : x[3] \notin {from, to}} \cup {<<s, q, to>>} = {<<s, q, to>>}
  OBVIOUS
<1> QED
  BY <1>7, <1>8 DEF r, m

LEMMA EnPassantMen ==
  ASSUME NEW b \in Boards, Sound(b), EpFits(b), b.epsq # NO_SQUARE,
         NEW from \in Squares, from \in b.position[b.side][PAWN]
  PROVE  LET r == MovePieces(b, EnPassant(from, b.epsq))
         IN  Changed(b, r, {from, b.epsq, get_eppawn(b)}, {<<b.side, PAWN, b.epsq>>})
<1> DEFINE s == b.side
           to == b.epsq
           pawn == get_eppawn(b)
           m == EnPassant(from, to)
           t == move_piece(b, from, to, s, PAWN)
           r == MovePieces(b, m)
<1>1. s \in Colors /\ XSIDE(s) \in Colors /\ s # XSIDE(s)
  BY NamesAre DEF Boards
<1>2. to \in Squares /\ to \notin b.occupied /\ pawn \in b.position[XSIDE(s)][PAWN]
  BY DEF Boards, EpFits
<1>3. r = remove_piece(t, pawn, XSIDE(s), PAWN)
  BY <1>2, EnPassantParts DEF MovePieces
<1> HIDE DEF r, m, pawn
<1>4. pawn \in Squares /\ pawn # to /\ pawn # from
  <2>1. pawn \in Squares /\ pawn \in b.occupied
    BY <1>1, <1>2, PieceNames, MenOccupy
  <2>2. pawn # from
    BY <1>1, <1>2, PieceNames DEF Sound, MenTold
  <2> QED
    BY <1>2, <2>1, <2>2
<1>5. Changed(b, t, {from, to}, {<<s, PAWN, to>>}) /\ t \in Boards /\ Sound(t)
  BY <1>1, <1>2, PieceNames, MovedMen
<1> HIDE DEF t
<1>6. pawn \in t.position[XSIDE(s)][PAWN]
  BY <1>1, <1>2, <1>4, <1>5, PieceNames DEF Changed
<1>7. Changed(t, r, {pawn}, {})
  BY <1>1, <1>3, <1>4, <1>5, <1>6, PieceNames, RemovedMen
<1>8. Changed(b, r, {from, to} \cup {pawn}, {x \in {<<s, PAWN, to>>} : x[3] \notin {pawn}} \cup {})
  BY <1>5, <1>7, ChangedTwice
<1>9. {from, to} \cup {pawn} = {from, to, pawn}
  OBVIOUS
<1>10. {x \in {<<s, PAWN, to>>} : x[3] \notin {pawn}} \cup {} = {<<s, PAWN, to>>}
  <2>1. <<s, PAWN, to>>[3] = to
    OBVIOUS
  <2> DEFINE z == <<s, PAWN, to>>
  <2> HIDE DEF z
  <2>2. {x \in {z} : x[3] \notin {pawn}} \cup {} = {z}
    BY <1>4, <2>1 DEF z
  <2> QED
    BY <2>2 DEF z
<1> QED
  BY <1>8, <1>9, <1>10 DEF r, m, pawn

\* Two men of one side move, one after the other.
LEMMA TwoMoved ==
  ASSUME NEW b \in Boards, Sound(b), NEW s \in Colors, NEW k \in Squares, NEW kt \in Squares,
         NEW r \in Squares, NEW rt \in Squares, k \in b.position[s][KING], r \in b.position[s][ROOK],
         kt \notin b.occupied, rt \notin b.occupied, kt # rt
  PROVE  /\ Changed(b, move_piece(move_piece(b, k, kt, s, KING), r, rt, s, ROOK), {k, kt, r, rt},
                    {<<s, KING, kt>>, <<s, ROOK, rt>>})
         /\ move_piece(move_piece(b, k, kt, s, KING), r, rt, s, ROOK) \in Boards
<1> DEFINE t == move_piece(b, k, kt, s, KING)
           u == move_piece(t, r, rt, s, ROOK)
           y == <<s, KING, kt>>
           z == <<s, ROOK, rt>>
<1>1. KING \in Pieces /\ ROOK \in Pieces /\ KING # ROOK
  BY PieceNames
<1>2. kt # r /\ rt # k /\ r # k
  <2>1. k \in b.occupied /\ r \in b.occupied
    BY <1>1, MenOccupy
  <2>2. \A c, d \in Colors : \A p, q \in Pieces : \A x \in Squares :
          x \in b.position[c][p] /\ x \in b.position[d][q] => c = d /\ p = q
    BY DEF Sound, MenTold
  <2> QED
    BY <1>1, <2>1, <2>2
<1>3. Changed(b, t, {k, kt}, {y})
  BY <1>1, MovedMen
<1>4. t \in Boards /\ Sound(t)
  BY <1>1, MovedMen
<1>5. t.occupied = (b.occupied \ {k}) \cup {kt}
  BY <1>1 DEF move_piece, Rekey, Boards
<1> HIDE DEF t
<1>6. r \in t.position[s][ROOK] /\ rt \notin t.occupied
  BY <1>1, <1>2, <1>3, <1>5 DEF Changed
<1>7. Changed(t, u, {r, rt}, {z})
  BY <1>1, <1>4, <1>6, MovedMen
<1>8. u \in Boards
  BY <1>1, <1>4, <1>6, MovedMen
<1> HIDE DEF u
<1>9. y[3] = kt
  OBVIOUS
<1> HIDE DEF y, z
<1>10. Changed(b, u, {k, kt} \cup {r, rt}, {x \in {y} : x[3] \notin {r, rt}} \cup {z})
  BY <1>3, <1>7, ChangedTwice
<1>11. {k, kt} \cup {r, rt} = {k, kt, r, rt} /\ {x \in {y} : x[3] \notin {r, rt}} \cup {z} = {y, z}
  BY <1>2, <1>9
<1>12. Changed(b, u, {k, kt, r, rt}, {y, z})
  BY <1>10, <1>11
<1> QED
  BY <1>8, <1>12 DEF t, u, y, z

LEMMA CastlingMen ==
  ASSUME NEW b \in Boards, Sound(b), NEW f \in Flags, Castle[f].side = b.side, HomeMen(b, f),
         b.occupied \cap ray_bb[Castle[f].king][Castle[f].rook] = {}
  PROVE  Changed(b, MovePieces(b, Castling(Castle[f].king, Castle[f].to)),
                 {Castle[f].king, Castle[f].to, Castle[f].rook, Castle[f].rookto},
                 {<<b.side, KING, Castle[f].to>>, <<b.side, ROOK, Castle[f].rookto>>})
<1> DEFINE s == b.side
           c == Castle[f]
           m == Castling(c.king, c.to)
           u == move_piece(move_piece(b, c.king, c.to, s, KING), c.rook, c.rookto, s, ROOK)
           r == MovePieces(b, m)
<1>1. s \in Colors /\ c.king \in Squares /\ c.to \in Squares /\ c.rook \in Squares
      /\ c.rookto \in Squares
  BY CastleTable DEF Boards
<1>2. /\ c.to \notin b.occupied /\ c.rookto \notin b.occupied /\ c.to # c.rookto
      /\ FlagOfCastling(m) = f
  BY CastleRays
<1>3. /\ Is(m, "CASTLE") /\ ~Is(m, "CAPTURE") /\ ~Is(m, "PROMOTION") /\ m.from = c.king /\ m.to = c.to
      /\ ~Is(m, "ENPASSANT") /\ ~Is(m, "NORMAL") /\ ~Is(m, "NULL")
  BY <1>1, CastlingParts
<1>4. c.king \in b.position[s][KING] /\ c.rook \in b.position[s][ROOK]
  BY <1>1 DEF HomeMen, Sound, MenTold
<1> HIDE DEF m
<1>5. r = [u EXCEPT !.has_castled[s] = TRUE]
  BY <1>2, <1>3 DEF MovePieces
<1> HIDE DEF c
<1>6. Changed(b, u, {c.king, c.to, c.rook, c.rookto}, {<<s, KING, c.to>>, <<s, ROOK, c.rookto>>})
      /\ u \in Boards
  BY <1>1, <1>2, <1>4, TwoMoved
<1> HIDE DEF u, r, s
<1>7. r.position = u.position
  BY <1>5, <1>6 DEF Boards
<1>8. Changed(b, r, {c.king, c.to, c.rook, c.rookto}, {<<s, KING, c.to>>, <<s, ROOK, c.rookto>>})
  BY <1>6, <1>7 DEF Changed
<1> QED
  BY <1>8 DEF r, m, s, c

\* A change of the board as the rules see it.
LEMMA MapChanged ==
  ASSUME NEW b \in Boards, Sound(b), NEW r \in Boards, Sound(r), NEW gone, NEW come,
         Changed(b, r, gone, come), NEW y \in Squares
  PROVE  /\ y \notin gone /\ (\A c \in Colors : \A p \in Pieces : <<c, p, y>> \notin come) =>
              Abstract(r).at[Pt(y)] = Abstract(b).at[Pt(y)]
         /\ \A c \in Colors : \A p \in Pieces :
              <<c, p, y>> \in come => Abstract(r).at[Pt(y)] = Man(c, p)
         /\ y \in gone /\ (\A c \in Colors : \A p \in Pieces : <<c, p, y>> \notin come) =>
              Abstract(r).at[Pt(y)] = Rules!Empty
<1> DEFINE None == \A c \in Colors : \A p \in Pieces : <<c, p, y>> \notin come
           old == Abstract(b).at[Pt(y)]
           new == Abstract(r).at[Pt(y)]
<1>1. \A c \in Colors : \A p \in Pieces :
        y \in r.position[c][p] <=> (y \in b.position[c][p] /\ y \notin gone) \/ <<c, p, y>> \in come
  BY DEF Changed
<1>2. \A c \in Colors : \A p \in Pieces : /\ y \in b.position[c][p] <=> old = Man(c, p)
                                          /\ y \in r.position[c][p] <=> new = Man(c, p)
  BY Stands
<1>3. /\ y \notin b.occupied <=> old = Rules!Empty
      /\ y \notin r.occupied <=> new = Rules!Empty
  BY Stands
<1>4. /\ y \in b.occupied <=> \E c \in Colors : \E p \in Pieces : y \in b.position[c][p]
      /\ y \in r.occupied <=> \E c \in Colors : \E p \in Pieces : y \in r.position[c][p]
  BY DEF Sound, MenTold, Colors
<1> HIDE DEF old, new
<1>5. ASSUME y \notin gone, None PROVE new = old
  <2>1. \A c \in Colors : \A p \in Pieces : y \in r.position[c][p] <=> y \in b.position[c][p]
    BY <1>1, <1>5
  <2> QED
    BY <1>2, <1>3, <1>4, <2>1
<1>6. ASSUME y \in gone, None PROVE new = Rules!Empty
  BY <1>1, <1>3, <1>4, <1>6
<1>7. \A c \in Colors : \A p \in Pieces : <<c, p, y>> \in come => new = Man(c, p)
  BY <1>1, <1>2
<1> QED
  BY <1>5, <1>6, <1>7 DEF old, new

-----------------------------------------------------------------------------
(***************************************************************************)
(* The parts of a position: rights are castling flags, and a man that moves *)
(* costs both the same.                                                     *)
(***************************************************************************)
LEMMA AbstractIs ==
  ASSUME NEW b
  PROVE  /\ DOMAIN Abstract(b).at = Rules!Squares
         /\ Abstract(b).at = [s \in Rules!Squares |-> Abstract(b).at[s]]
         /\ Abstract(b) = [at |-> Abstract(b).at, turn |-> Abstract(b).turn,
                           rights |-> Abstract(b).rights, ep |-> Abstract(b).ep]
         /\ Abstract(b).turn = Colour(b.side)
         /\ Abstract(b).rights = {r \in DOMAIN Side : Side[r] \in b.flags}
         /\ Abstract(b).ep = IF b.epsq = NO_SQUARE THEN Rules!None ELSE Pt(b.epsq)
BY DEF Abstract, Rules!Squares, Rules!None, Pt

LEMMA SameMap ==
  ASSUME NEW f, NEW g, DOMAIN f = Rules!Squares, DOMAIN g = Rules!Squares,
         f = [s \in Rules!Squares |-> f[s]], g = [s \in Rules!Squares |-> g[s]],
         \A x \in Squares : f[Pt(x)] = g[Pt(x)]
  PROVE  f = g
<1>1. \A s \in Rules!Squares : f[s] = g[s]
  BY PointsAre
<1> QED
  BY <1>1

Sides == {<<"white", "short">>, <<"white", "long">>, <<"black", "short">>, <<"black", "long">>}

LEMMA SideIs ==
  /\ Rules!Rights = Sides /\ DOMAIN Side = Sides
  /\ Side[<<"white", "short">>] = "WKCASTLE" /\ Side[<<"white", "long">>] = "WQCASTLE"
  /\ Side[<<"black", "short">>] = "BKCASTLE" /\ Side[<<"black", "long">>] = "BQCASTLE"
<1>1. Rules!Rights = Sides
  BY DEF Rules!Rights, Rules!Colours, Sides
<1>2. DOMAIN Side = Sides
  BY DEF Side, Sides
<1>3. FIL(6) = 6 /\ FIL(2) = 2 /\ FIL(62) = 6 /\ FIL(58) = 2
  BY DEF FIL
<1>4. \A r \in Sides : Side[r] = CHOOSE f \in Flags :
        /\ f \in FlagsOf(IF r[1] = "white" THEN WHITE ELSE BLACK)
        /\ FIL(Castle[f].to) = (IF r[2] = "short" THEN 6 ELSE 2)
  BY DEF Side, Sides
<1>5. /\ Castle["WKCASTLE"].to = 6 /\ Castle["WQCASTLE"].to = 2
      /\ Castle["BKCASTLE"].to = 62 /\ Castle["BQCASTLE"].to = 58
  BY DEF Castle
<1>6. FlagsOf(WHITE) = {"WKCASTLE", "WQCASTLE"} /\ FlagsOf(BLACK) = {"BKCASTLE", "BQCASTLE"}
  BY DEF FlagsOf, WHITE, BLACK
<1>7. Side[<<"white", "short">>] = "WKCASTLE"
  <2>1. Side[<<"white", "short">>] = CHOOSE f \in Flags : f \in FlagsOf(WHITE) /\ FIL(Castle[f].to) = 6
    BY <1>4 DEF Sides
  <2>2. \A f \in Flags : f \in FlagsOf(WHITE) /\ FIL(Castle[f].to) = 6 <=> f = "WKCASTLE"
    BY <1>3, <1>5, <1>6 DEF Flags
  <2> QED
    BY <2>1, <2>2 DEF Flags
<1>8. Side[<<"white", "long">>] = "WQCASTLE"
  <2>1. Side[<<"white", "long">>] = CHOOSE f \in Flags : f \in FlagsOf(WHITE) /\ FIL(Castle[f].to) = 2
    BY <1>4 DEF Sides
  <2>2. \A f \in Flags : f \in FlagsOf(WHITE) /\ FIL(Castle[f].to) = 2 <=> f = "WQCASTLE"
    BY <1>3, <1>5, <1>6 DEF Flags
  <2> QED
    BY <2>1, <2>2 DEF Flags
<1>9. Side[<<"black", "short">>] = "BKCASTLE"
  <2>1. Side[<<"black", "short">>] = CHOOSE f \in Flags : f \in FlagsOf(BLACK) /\ FIL(Castle[f].to) = 6
    BY <1>4 DEF Sides
  <2>2. \A f \in Flags : f \in FlagsOf(BLACK) /\ FIL(Castle[f].to) = 6 <=> f = "BKCASTLE"
    BY <1>3, <1>5, <1>6 DEF Flags
  <2> QED
    BY <2>1, <2>2 DEF Flags
<1>10. Side[<<"black", "long">>] = "BQCASTLE"
  <2>1. Side[<<"black", "long">>] = CHOOSE f \in Flags : f \in FlagsOf(BLACK) /\ FIL(Castle[f].to) = 2
    BY <1>4 DEF Sides
  <2>2. \A f \in Flags : f \in FlagsOf(BLACK) /\ FIL(Castle[f].to) = 2 <=> f = "BQCASTLE"
    BY <1>3, <1>5, <1>6 DEF Flags
  <2> QED
    BY <2>1, <2>2 DEF Flags
<1> QED
  BY <1>1, <1>2, <1>7, <1>8, <1>9, <1>10

\* Where king and rook stand, come to and pass when they castle.
LEMMA RightIs ==
  ASSUME NEW r \in Sides
  PROVE  /\ Side[r] \in Flags /\ Colour(Castle[Side[r]].side) = r[1]
         /\ Rules!KingHome(r) = Pt(Castle[Side[r]].king)
         /\ Rules!RookHome(r) = Pt(Castle[Side[r]].rook)
         /\ <<IF r[2] = "short" THEN 6 ELSE 2, Rules!KingHome(r)[2]>> = Pt(Castle[Side[r]].to)
         /\ <<IF r[2] = "short" THEN 5 ELSE 3, Rules!KingHome(r)[2]>> = Pt(Castle[Side[r]].rookto)
<1>1. /\ Pt(4) = <<4, 0>> /\ Pt(60) = <<4, 7>> /\ Pt(7) = <<7, 0>> /\ Pt(0) = <<0, 0>>
      /\ Pt(63) = <<7, 7>> /\ Pt(56) = <<0, 7>> /\ Pt(6) = <<6, 0>> /\ Pt(2) = <<2, 0>>
      /\ Pt(62) = <<6, 7>> /\ Pt(58) = <<2, 7>> /\ Pt(5) = <<5, 0>> /\ Pt(3) = <<3, 0>>
      /\ Pt(61) = <<5, 7>> /\ Pt(59) = <<3, 7>>
  BY DEF Pt, FIL, RNK
<1>2. CASE r = <<"white", "short">>
  BY <1>1, <1>2, SideIs DEF Rules!KingHome, Rules!RookHome, Rules!HomeRank, Castle, Flags, Colour,
     WHITE, BLACK
<1>3. CASE r = <<"white", "long">>
  BY <1>1, <1>3, SideIs DEF Rules!KingHome, Rules!RookHome, Rules!HomeRank, Castle, Flags, Colour,
     WHITE, BLACK
<1>4. CASE r = <<"black", "short">>
  BY <1>1, <1>4, SideIs DEF Rules!KingHome, Rules!RookHome, Rules!HomeRank, Castle, Flags, Colour,
     WHITE, BLACK
<1>5. CASE r = <<"black", "long">>
  BY <1>1, <1>5, SideIs DEF Rules!KingHome, Rules!RookHome, Rules!HomeRank, Castle, Flags, Colour,
     WHITE, BLACK
<1> QED
  BY <1>2, <1>3, <1>4, <1>5 DEF Sides

LEMMA EachFlag ==
  /\ \A f \in Flags : \E r \in Sides : Side[r] = f
  /\ \A q, r \in Sides : Side[q] = Side[r] => q = r
BY SideIs DEF Sides, Flags

LEMMA PathIs ==
  ASSUME NEW r \in Sides
  PROVE  LET c == Castle[Side[r]]
         IN  /\ Rules!Between(r) = {Pt(x) : x \in ray_bb[c.king][c.rook]}
             /\ Rules!KingPath(r) = {Pt(c.king), Pt(c.rookto), Pt(c.to)}
<1>1. /\ 5 .. 6 = {5, 6} /\ 1 .. 3 = {3, 2, 1} /\ 4 .. 6 = {4, 5, 6} /\ 2 .. 4 = {4, 3, 2}
  OBVIOUS
<1>2. /\ Pt(4) = <<4, 0>> /\ Pt(60) = <<4, 7>> /\ Pt(6) = <<6, 0>> /\ Pt(2) = <<2, 0>>
      /\ Pt(62) = <<6, 7>> /\ Pt(58) = <<2, 7>> /\ Pt(5) = <<5, 0>> /\ Pt(3) = <<3, 0>>
      /\ Pt(61) = <<5, 7>> /\ Pt(59) = <<3, 7>> /\ Pt(1) = <<1, 0>> /\ Pt(57) = <<1, 7>>
  BY DEF Pt, FIL, RNK
<1>3. /\ Rules!Between(r) = {<<f, Rules!HomeRank(r[1])>> : f \in IF r[2] = "short" THEN {5, 6} ELSE {3, 2, 1}}
      /\ Rules!KingPath(r) = {<<f, Rules!HomeRank(r[1])>> : f \in IF r[2] = "short" THEN {4, 5, 6}
                                                                 ELSE {4, 3, 2}}
  BY <1>1 DEF Rules!Between, Rules!KingPath
<1>4. \A a, b, n : {<<f, n>> : f \in {a, b}} = {<<a, n>>, <<b, n>>}
  OBVIOUS
<1>5. \A a, b, c, n : {<<f, n>> : f \in {a, b, c}} = {<<a, n>>, <<b, n>>, <<c, n>>}
  OBVIOUS
<1>6. \A a, b, c : /\ {Pt(x) : x \in {a, b, c}} = {Pt(a), Pt(b), Pt(c)}
                   /\ {Pt(x) : x \in {a, b}} = {Pt(a), Pt(b)}
  OBVIOUS
<1>7. CASE r = <<"white", "short">>
  <2>1. Rules!HomeRank(r[1]) = 0 /\ r[2] = "short"
    BY <1>7 DEF Rules!HomeRank
  <2>2. Castle[Side[r]] = [side |-> WHITE, king |-> 4, to |-> 6, rook |-> 7, rookto |-> 5]
    BY <1>7, SideIs DEF Castle
  <2>3. Rules!Between(r) = {<<5, 0>>, <<6, 0>>} /\ Rules!KingPath(r) = {<<4, 0>>, <<5, 0>>, <<6, 0>>}
    BY <1>3, <1>4, <1>5, <2>1
  <2> QED
    BY <1>2, <1>6, <2>2, <2>3, CastleWays
<1>8. CASE r = <<"white", "long">>
  <2>1. Rules!HomeRank(r[1]) = 0 /\ r[2] # "short"
    BY <1>8 DEF Rules!HomeRank
  <2>2. Castle[Side[r]] = [side |-> WHITE, king |-> 4, to |-> 2, rook |-> 0, rookto |-> 3]
    BY <1>8, SideIs DEF Castle
  <2>3. /\ Rules!Between(r) = {<<3, 0>>, <<2, 0>>, <<1, 0>>}
        /\ Rules!KingPath(r) = {<<4, 0>>, <<3, 0>>, <<2, 0>>}
    BY <1>3, <1>4, <1>5, <2>1
  <2> QED
    BY <1>2, <1>6, <2>2, <2>3, CastleWays
<1>9. CASE r = <<"black", "short">>
  <2>1. Rules!HomeRank(r[1]) = 7 /\ r[2] = "short"
    BY <1>9 DEF Rules!HomeRank
  <2>2. Castle[Side[r]] = [side |-> BLACK, king |-> 60, to |-> 62, rook |-> 63, rookto |-> 61]
    BY <1>9, SideIs DEF Castle
  <2>3. Rules!Between(r) = {<<5, 7>>, <<6, 7>>} /\ Rules!KingPath(r) = {<<4, 7>>, <<5, 7>>, <<6, 7>>}
    BY <1>3, <1>4, <1>5, <2>1
  <2> QED
    BY <1>2, <1>6, <2>2, <2>3, CastleWays
<1>10. CASE r = <<"black", "long">>
  <2>1. Rules!HomeRank(r[1]) = 7 /\ r[2] # "short"
    BY <1>10 DEF Rules!HomeRank
  <2>2. Castle[Side[r]] = [side |-> BLACK, king |-> 60, to |-> 58, rook |-> 56, rookto |-> 59]
    BY <1>10, SideIs DEF Castle
  <2>3. /\ Rules!Between(r) = {<<3, 7>>, <<2, 7>>, <<1, 7>>}
        /\ Rules!KingPath(r) = {<<4, 7>>, <<3, 7>>, <<2, 7>>}
    BY <1>3, <1>4, <1>5, <2>1
  <2> QED
    BY <1>2, <1>6, <2>2, <2>3, CastleWays
<1> QED
  BY <1>7, <1>8, <1>9, <1>10 DEF Sides

\* A move of a man of the side to move to an empty square or onto an enemy man
\* other than the king.
Sent(b, m) ==
  /\ m.from \in Squares /\ m.to \in Squares /\ ptype(m) \in Pieces
  /\ m.from \in b.position[b.side][ptype(m)]
  /\ IF Is(m, "CAPTURE")
       THEN m.cap_ptype \in Pieces \ {KING} /\ m.to \in b.position[XSIDE(b.side)][m.cap_ptype]
       ELSE m.to \notin b.occupied

\* make_move() drops a castling flag exactly when the king or the rook it needs
\* leaves its square or is captured there.
LEMMA FlagLost ==
  ASSUME NEW b \in Boards, Sound(b), FlagsFit(b), NEW m, Sent(b, m), NEW f \in b.flags
  PROVE  f \in LostFlags(b, m) <=> {Castle[f].king, Castle[f].rook} \cap {m.from, m.to} # {}
<1> DEFINE c == Castle[f]
           s == b.side
           x == XSIDE(b.side)
<1>1. f \in Flags /\ s \in Colors /\ x \in Colors /\ c.side \in Colors
  BY CastleTable, NamesAre DEF Boards
<1>2. c.king \in b.position[c.side][KING] /\ c.rook \in b.position[c.side][ROOK]
  BY <1>1 DEF FlagsFit, Sound, MenTold
<1>3. /\ \A d, e \in Colors : \A p, q \in Pieces : \A y \in Squares :
           y \in b.position[d][p] /\ y \in b.position[e][q] => d = e /\ p = q
      /\ \A d \in Colors : b.position[d][KING] = {b.king[d]}
  BY DEF Sound, MenTold
<1>4. /\ KING \in Pieces /\ ROOK \in Pieces /\ KING # ROOK
      /\ c.king \in Squares /\ c.rook \in Squares
  BY <1>1, PieceNames, CastleTable
<1>5. /\ m.from \in Squares /\ m.to \in Squares /\ ptype(m) \in Pieces
      /\ m.from \in b.position[s][ptype(m)]
  BY DEF Sent
<1>6. IF Is(m, "CAPTURE")
        THEN m.cap_ptype \in Pieces /\ m.cap_ptype # KING /\ m.to \in b.position[x][m.cap_ptype]
        ELSE m.to \notin b.occupied
  BY DEF Sent
<1>7. c.king \in b.occupied /\ c.rook \in b.occupied
  BY <1>1, <1>2, <1>4, MenOccupy
<1>8. f \in FlagsOf(s) <=> c.side = s
  BY <1>1, CastleTable
<1>9. f \in LostFlags(b, m) <=>
        \/ ptype(m) = KING /\ c.side = s
        \/ ptype(m) = ROOK /\ c.rook = m.from
        \/ Is(m, "CAPTURE") /\ m.cap_ptype = ROOK /\ c.rook = m.to
  BY <1>1, <1>8 DEF LostFlags, CornerFlags
<1> HIDE DEF c, s, x
<1>10. ptype(m) = KING /\ c.side = s <=> c.king = m.from
  BY <1>1, <1>2, <1>3, <1>4, <1>5
<1>11. ptype(m) = ROOK /\ c.rook = m.from <=> c.rook = m.from
  BY <1>1, <1>2, <1>3, <1>4, <1>5
<1>12. m.to # c.king
  BY <1>1, <1>2, <1>3, <1>4, <1>5, <1>6, <1>7
<1>13. Is(m, "CAPTURE") /\ m.cap_ptype = ROOK /\ c.rook = m.to <=> c.rook = m.to
  BY <1>1, <1>2, <1>3, <1>4, <1>5, <1>6, <1>7
<1>14. f \in LostFlags(b, m) <=> c.king = m.from \/ c.rook = m.from \/ c.rook = m.to
  BY <1>9, <1>10, <1>11, <1>13
<1> QED
  BY <1>12, <1>14 DEF c

\* The rights, in the rules and on the board.
LEMMA RightsAre ==
  ASSUME NEW b \in Boards, Sound(b), FlagsFit(b), NEW m, Sent(b, m),
         NEW r, r.flags = b.flags \ LostFlags(b, m)
  PROVE  Abstract(r).rights =
           {x \in Abstract(b).rights :
              {Rules!KingHome(x), Rules!RookHome(x)} \cap {Pt(m.from), Pt(m.to)} = {}}
<1>1. /\ Abstract(r).rights = {x \in Sides : Side[x] \in r.flags}
      /\ Abstract(b).rights = {x \in Sides : Side[x] \in b.flags}
  BY AbstractIs, SideIs
<1>2. ASSUME NEW x \in Sides, Side[x] \in b.flags
      PROVE  Side[x] \in r.flags <=>
               {Rules!KingHome(x), Rules!RookHome(x)} \cap {Pt(m.from), Pt(m.to)} = {}
  <2> DEFINE c == Castle[Side[x]]
  <2>1. Side[x] \in LostFlags(b, m) <=> {c.king, c.rook} \cap {m.from, m.to} # {}
    BY <1>2, FlagLost
  <2>2. Rules!KingHome(x) = Pt(c.king) /\ Rules!RookHome(x) = Pt(c.rook)
    BY RightIs
  <2>3. c.king \in Squares /\ c.rook \in Squares /\ m.from \in Squares /\ m.to \in Squares
    BY RightIs, CastleTable DEF Sent
  <2> HIDE DEF c
  <2>4. {Pt(c.king), Pt(c.rook)} \cap {Pt(m.from), Pt(m.to)} = {} <=>
          {c.king, c.rook} \cap {m.from, m.to} = {}
    BY <2>3, PointsAre
  <2> QED
    BY <1>2, <2>1, <2>2, <2>4
<1> QED
  BY <1>1, <1>2

\* The position after make_move(): the men are those MovePieces() leaves.
Led(b, m, at) ==
  [at |-> at, turn |-> Rules!Other(Abstract(b).turn),
   rights |-> {x \in Abstract(b).rights :
                 {Rules!KingHome(x), Rules!RookHome(x)} \cap {Pt(m.from), Pt(m.to)} = {}},
   ep |-> IF EpSquare(m) = NO_SQUARE THEN Rules!None ELSE Pt(EpSquare(m))]

LEMMA MoveLeads ==
  ASSUME NEW b \in Boards, Sound(b), FlagsFit(b), NEW m, Sent(b, m), Fine(b, m)
  PROVE  Abstract(make_move(b, m)) = Led(b, m, Abstract(MovePieces(b, m)).at)
<1> DEFINE r == make_move(b, m)
           t == MovePieces(b, m)
<1>1. Sound(t) /\ t.side = b.side /\ t.flags = b.flags /\ m.from \in Squares /\ m.to \in Squares
  BY DEF Fine, Kept
<1>2. SameMen(t, r) /\ r.side = XSIDE(b.side) /\ r.flags = b.flags \ LostFlags(b, m)
      /\ r.epsq = EpSquare(m)
  BY <1>1, MoveMade
<1> HIDE DEF r, t
<1>3. Abstract(r).at = Abstract(t).at
  BY <1>2 DEF Abstract, SameMen, color_at, piece_at
<1>4. Abstract(r).rights =
        {x \in Abstract(b).rights :
           {Rules!KingHome(x), Rules!RookHome(x)} \cap {Pt(m.from), Pt(m.to)} = {}}
  BY <1>2, RightsAre
<1>5. Abstract(r).turn = Rules!Other(Abstract(b).turn)
  <2>1. b.side \in Colors
    BY DEF Boards
  <2>2. Abstract(r).turn = Colour(r.side) /\ Abstract(b).turn = Colour(b.side)
    BY AbstractIs
  <2>3. Colour(XSIDE(b.side)) = Rules!Other(Colour(b.side))
    BY <2>1, NamesAre
  <2> QED
    BY <1>2, <2>2, <2>3
<1>6. Abstract(r).ep = IF EpSquare(m) = NO_SQUARE THEN Rules!None ELSE Pt(EpSquare(m))
  BY <1>2, AbstractIs
<1>7. Abstract(r) = [at |-> Abstract(r).at, turn |-> Abstract(r).turn,
                     rights |-> Abstract(r).rights, ep |-> Abstract(r).ep]
  BY AbstractIs
<1>8. Abstract(r) = Led(b, m, Abstract(t).at)
  BY <1>3, <1>4, <1>5, <1>6, <1>7 DEF Led
<1> QED
  BY <1>8 DEF r, t

\* The men after a move of one man, after one that takes a third square's man
\* away, and after castling.
LEMMA OneMoves ==
  ASSUME NEW b \in Boards, Sound(b), NEW t, Sound(t), NEW x \in Squares, NEW y \in Squares, x # y,
         NEW s \in Colors, NEW q \in Pieces, Changed(b, t, {x, y}, {<<s, q, y>>})
  PROVE  Abstract(t).at = [Abstract(b).at EXCEPT ![Pt(x)] = Rules!Empty, ![Pt(y)] = Man(s, q)]
<1> DEFINE at == Abstract(b).at
           gone == {x, y}
           come == {<<s, q, y>>}
           new == [at EXCEPT ![Pt(x)] = Rules!Empty, ![Pt(y)] = Man(s, q)]
<1>1. t \in Boards
  BY DEF Sound
<1>2. \A c \in Colors : \A p \in Pieces : \A z \in Squares :
        <<c, p, z>> \in come <=> c = s /\ p = q /\ z = y
  OBVIOUS
<1>3. Changed(b, t, gone, come)
  OBVIOUS
<1> HIDE DEF come, gone
<1>4. ASSUME NEW z \in Squares
      PROVE  Abstract(t).at[Pt(z)] = IF z = y THEN Man(s, q) ELSE IF z = x THEN Rules!Empty ELSE at[Pt(z)]
  <2>1. /\ z \notin gone /\ (\A c \in Colors : \A p \in Pieces : <<c, p, z>> \notin come) =>
             Abstract(t).at[Pt(z)] = Abstract(b).at[Pt(z)]
        /\ \A c \in Colors : \A p \in Pieces :
             <<c, p, z>> \in come => Abstract(t).at[Pt(z)] = Man(c, p)
        /\ z \in gone /\ (\A c \in Colors : \A p \in Pieces : <<c, p, z>> \notin come) =>
             Abstract(t).at[Pt(z)] = Rules!Empty
    BY <1>1, <1>3, MapChanged
  <2> QED
    BY <1>2, <2>1 DEF gone
<1>5. DOMAIN at = Rules!Squares /\ at = [z \in Rules!Squares |-> at[z]]
  BY AbstractIs
<1>6. DOMAIN Abstract(t).at = Rules!Squares
      /\ Abstract(t).at = [z \in Rules!Squares |-> Abstract(t).at[z]]
  BY AbstractIs
<1> HIDE DEF at
<1>7. DOMAIN new = Rules!Squares /\ new = [z \in Rules!Squares |-> new[z]]
  BY <1>5
<1>8. ASSUME NEW z \in Squares PROVE Abstract(t).at[Pt(z)] = new[Pt(z)]
  <2>1. (Pt(z) = Pt(x) <=> z = x) /\ (Pt(z) = Pt(y) <=> z = y) /\ Pt(z) \in Rules!Squares
    BY PointsAre
  <2> QED
    BY <1>4, <1>5, <2>1
<1> HIDE DEF new
<1>9. Abstract(t).at = new
  BY <1>6, <1>7, <1>8, SameMap
<1> QED
  BY <1>9 DEF new, at

OneGone(at, x, y, g, man) ==
  [[at EXCEPT ![Pt(x)] = Rules!Empty, ![Pt(y)] = man] EXCEPT ![Pt(g)] = Rules!Empty]

LEMMA OneGoes ==
  ASSUME NEW b \in Boards, Sound(b), NEW t, Sound(t), NEW x \in Squares, NEW y \in Squares,
         NEW g \in Squares, x # y, g # y,
         NEW s \in Colors, NEW q \in Pieces, Changed(b, t, {x, y, g}, {<<s, q, y>>})
  PROVE  Abstract(t).at = OneGone(Abstract(b).at, x, y, g, Man(s, q))
<1> DEFINE at == Abstract(b).at
           gone == {x, y, g}
           come == {<<s, q, y>>}
           new == [[at EXCEPT ![Pt(x)] = Rules!Empty, ![Pt(y)] = Man(s, q)]
                     EXCEPT ![Pt(g)] = Rules!Empty]
<1>1. t \in Boards
  BY DEF Sound
<1>2. \A c \in Colors : \A p \in Pieces : \A z \in Squares :
        <<c, p, z>> \in come <=> c = s /\ p = q /\ z = y
  OBVIOUS
<1>3. Changed(b, t, gone, come)
  OBVIOUS
<1> HIDE DEF come, gone
<1>4. ASSUME NEW z \in Squares
      PROVE  Abstract(t).at[Pt(z)] = IF z = y THEN Man(s, q)
                                     ELSE IF z = x \/ z = g THEN Rules!Empty ELSE at[Pt(z)]
  <2>1. /\ z \notin gone /\ (\A c \in Colors : \A p \in Pieces : <<c, p, z>> \notin come) =>
             Abstract(t).at[Pt(z)] = Abstract(b).at[Pt(z)]
        /\ \A c \in Colors : \A p \in Pieces :
             <<c, p, z>> \in come => Abstract(t).at[Pt(z)] = Man(c, p)
        /\ z \in gone /\ (\A c \in Colors : \A p \in Pieces : <<c, p, z>> \notin come) =>
             Abstract(t).at[Pt(z)] = Rules!Empty
    BY <1>1, <1>3, MapChanged
  <2> QED
    BY <1>2, <2>1 DEF gone
<1>5. DOMAIN at = Rules!Squares /\ at = [z \in Rules!Squares |-> at[z]]
  BY AbstractIs
<1>6. DOMAIN Abstract(t).at = Rules!Squares
      /\ Abstract(t).at = [z \in Rules!Squares |-> Abstract(t).at[z]]
  BY AbstractIs
<1> HIDE DEF at
<1>7. DOMAIN new = Rules!Squares /\ new = [z \in Rules!Squares |-> new[z]]
  BY <1>5
<1>8. ASSUME NEW z \in Squares PROVE Abstract(t).at[Pt(z)] = new[Pt(z)]
  <2>1. /\ Pt(z) = Pt(x) <=> z = x
        /\ Pt(z) = Pt(y) <=> z = y
        /\ Pt(z) = Pt(g) <=> z = g
        /\ Pt(z) \in Rules!Squares
    BY PointsAre
  <2> QED
    BY <1>4, <1>5, <2>1
<1> HIDE DEF new
<1>9. Abstract(t).at = new
  BY <1>6, <1>7, <1>8, SameMap
<1> QED
  BY <1>9 DEF new, at, OneGone

TwoMoving(at, x, y, man, v, w, other) ==
  [[at EXCEPT ![Pt(x)] = Rules!Empty, ![Pt(y)] = man]
     EXCEPT ![Pt(v)] = Rules!Empty, ![Pt(w)] = other]

LEMMA TwoMove ==
  ASSUME NEW b \in Boards, Sound(b), NEW t, Sound(t), NEW x \in Squares, NEW y \in Squares,
         NEW v \in Squares, NEW w \in Squares, x # y, v # y, w # y, v # w, x # w,
         NEW s \in Colors, NEW p \in Pieces, NEW q \in Pieces,
         Changed(b, t, {x, y, v, w}, {<<s, p, y>>, <<s, q, w>>})
  PROVE  Abstract(t).at = TwoMoving(Abstract(b).at, x, y, Man(s, p), v, w, Man(s, q))
<1> DEFINE at == Abstract(b).at
           gone == {x, y, v, w}
           come == {<<s, p, y>>, <<s, q, w>>}
           new == [[at EXCEPT ![Pt(x)] = Rules!Empty, ![Pt(y)] = Man(s, p)]
                     EXCEPT ![Pt(v)] = Rules!Empty, ![Pt(w)] = Man(s, q)]
<1>1. t \in Boards
  BY DEF Sound
<1>2. \A c \in Colors : \A n \in Pieces : \A z \in Squares :
        <<c, n, z>> \in come <=> (c = s /\ n = p /\ z = y) \/ (c = s /\ n = q /\ z = w)
  OBVIOUS
<1>3. Changed(b, t, gone, come)
  OBVIOUS
<1> HIDE DEF come, gone
<1>4. ASSUME NEW z \in Squares
      PROVE  Abstract(t).at[Pt(z)] = IF z = y THEN Man(s, p) ELSE IF z = w THEN Man(s, q)
                                     ELSE IF z = x \/ z = v THEN Rules!Empty ELSE at[Pt(z)]
  <2>1. /\ z \notin gone /\ (\A c \in Colors : \A n \in Pieces : <<c, n, z>> \notin come) =>
             Abstract(t).at[Pt(z)] = Abstract(b).at[Pt(z)]
        /\ \A c \in Colors : \A n \in Pieces :
             <<c, n, z>> \in come => Abstract(t).at[Pt(z)] = Man(c, n)
        /\ z \in gone /\ (\A c \in Colors : \A n \in Pieces : <<c, n, z>> \notin come) =>
             Abstract(t).at[Pt(z)] = Rules!Empty
    BY <1>1, <1>3, MapChanged
  <2> QED
    BY <1>2, <2>1 DEF gone
<1>5. DOMAIN at = Rules!Squares /\ at = [z \in Rules!Squares |-> at[z]]
  BY AbstractIs
<1>6. DOMAIN Abstract(t).at = Rules!Squares
      /\ Abstract(t).at = [z \in Rules!Squares |-> Abstract(t).at[z]]
  BY AbstractIs
<1> HIDE DEF at
<1>7. DOMAIN new = Rules!Squares /\ new = [z \in Rules!Squares |-> new[z]]
  BY <1>5
<1>8. ASSUME NEW z \in Squares PROVE Abstract(t).at[Pt(z)] = new[Pt(z)]
  <2>1. /\ Pt(z) = Pt(x) <=> z = x
        /\ Pt(z) = Pt(y) <=> z = y
        /\ Pt(z) = Pt(v) <=> z = v
        /\ Pt(z) = Pt(w) <=> z = w
        /\ Pt(z) \in Rules!Squares
    BY PointsAre
  <2> QED
    BY <1>4, <1>5, <2>1
<1> HIDE DEF new
<1>9. Abstract(t).at = new
  BY <1>6, <1>7, <1>8, SameMap
<1> QED
  BY <1>9 DEF new, at, TwoMoving

-----------------------------------------------------------------------------
(***************************************************************************)
(* Every generated move makes the position that the rules say.              *)
(***************************************************************************)
\* Everyone else's man, or nobody's.
LEMMA Others ==
  ASSUME NEW b \in Boards, Sound(b), NEW x \in Squares
  PROVE  /\ x \notin b.position_all[b.side] <=>
              x \notin b.occupied \/ x \in b.position_all[XSIDE(b.side)]
         /\ ~(x \notin b.occupied /\ x \in b.position_all[XSIDE(b.side)])
BY DEF Boards, Sound, MenTold, Colors, XSIDE, WHITE, BLACK

LEMMA EnemyMan ==
  ASSUME NEW b \in Boards, Fit(b), NEW p \in Pieces, NEW from \in b.position[b.side][p],
         NEW to \in b.position_all[XSIDE(b.side)],
         IF p = PAWN THEN to \in pawn_captures(b, from, b.side) ELSE to \in piece_attacks(b, p, from)
  PROVE  /\ piece_at(b, to) \in Pieces \ {KING} /\ to \in Squares
         /\ to \in b.position[XSIDE(b.side)][piece_at(b, to)]
<1>1. b.side \in Colors /\ XSIDE(b.side) \in Colors
  BY NamesAre DEF Boards
<1>2. to \in Squares
  BY <1>1 DEF Boards
<1>3. to # b.king[XSIDE(b.side)]
  BY KingSafe, KingSafeFromPawns DEF Fit
<1> QED
  BY <1>1, <1>2, <1>3, Taken DEF Fit

\* A man that moves, and becomes q.
Then(b, m, q) ==
  [Rules!Moved(Abstract(b), Pt(m.from), Pt(m.to), Man(b.side, q)) EXCEPT
     !.ep = IF EpSquare(m) = NO_SQUARE THEN Rules!None ELSE Pt(EpSquare(m))]

LEMMA ThenIs ==
  ASSUME NEW b, NEW m, NEW q
  PROVE  /\ Then(b, m, q) = Led(b, m, [Abstract(b).at EXCEPT ![Pt(m.from)] = Rules!Empty,
                                                            ![Pt(m.to)] = Man(b.side, q)])
         /\ EpSquare(m) = NO_SQUARE =>
              Then(b, m, q) = Rules!Moved(Abstract(b), Pt(m.from), Pt(m.to), Man(b.side, q))
<1> DEFINE R == {x \in Abstract(b).rights :
                   {Rules!KingHome(x), Rules!RookHome(x)} \cap {Pt(m.from), Pt(m.to)} = {}}
           A == [Abstract(b).at EXCEPT ![Pt(m.from)] = Rules!Empty, ![Pt(m.to)] = Man(b.side, q)]
           E == IF EpSquare(m) = NO_SQUARE THEN Rules!None ELSE Pt(EpSquare(m))
           T == Rules!Other(Abstract(b).turn)
           M == Rules!Moved(Abstract(b), Pt(m.from), Pt(m.to), Man(b.side, q))
<1>1. M = [at |-> A, turn |-> T, rights |-> R, ep |-> Rules!None]
  BY Zenon DEF Rules!Moved
<1>2. Then(b, m, q) = [M EXCEPT !.ep = E]
  BY Zenon DEF Then
<1>3. Led(b, m, A) = [at |-> A, turn |-> T, rights |-> R, ep |-> E]
  BY Zenon DEF Led
<1>4. EpSquare(m) = NO_SQUARE => E = Rules!None
  OBVIOUS
<1> HIDE DEF R, A, E, T, M
<1>5. Then(b, m, q) = [at |-> A, turn |-> T, rights |-> R, ep |-> E]
  BY <1>1, <1>2
<1> QED
  BY <1>1, <1>3, <1>4, <1>5 DEF A, M

LEMMA OneLeads ==
  ASSUME NEW b \in Boards, Fit(b), NEW m, Sent(b, m), Fine(b, m), NEW q \in Pieces,
         Changed(b, MovePieces(b, m), {m.from, m.to}, {<<b.side, q, m.to>>})
  PROVE  Abstract(make_move(b, m)) = Then(b, m, q)
<1> DEFINE t == MovePieces(b, m)
<1>1. Sound(b) /\ FlagsFit(b) /\ b.side \in Colors /\ XSIDE(b.side) \in Colors /\ XSIDE(b.side) # b.side
  BY NamesAre DEF Fit, Boards
<1>2. Sound(t) /\ m.from \in Squares /\ m.to \in Squares /\ m.from # m.to
  <2>1. \A c, d \in Colors : \A i, j \in Pieces : \A x \in Squares :
          x \in b.position[c][i] /\ x \in b.position[d][j] => c = d
    BY <1>1 DEF Sound, MenTold
  <2>2. m.from \in b.occupied
    BY <1>1, MenOccupy DEF Sent
  <2> QED
    BY <1>1, <2>1, <2>2 DEF Sent, Fine, Kept
<1>3. Abstract(make_move(b, m)) = Led(b, m, Abstract(t).at)
  BY <1>1, MoveLeads
<1> DEFINE x == m.from
           y == m.to
           s == b.side
<1>4. /\ Changed(b, t, {x, y}, {<<s, q, y>>})
      /\ Sound(b) /\ Sound(t) /\ x \in Squares /\ y \in Squares /\ x # y /\ s \in Colors
  BY <1>1, <1>2
<1> HIDE DEF t, x, y, s
<1>5. Abstract(t).at = [Abstract(b).at EXCEPT ![Pt(x)] = Rules!Empty, ![Pt(y)] = Man(s, q)]
  BY <1>4, OneMoves
<1>6. Abstract(make_move(b, m)) = Led(b, m, [Abstract(b).at EXCEPT ![Pt(m.from)] = Rules!Empty,
                                                                   ![Pt(m.to)] = Man(b.side, q)])
  BY <1>3, <1>5 DEF x, y, s
<1> QED
  BY <1>6, ThenIs

\* The moves of all men but pawns.
LEMMA PieceTakesLeads ==
  ASSUME NEW b \in Boards, Fit(b), NEW p \in Pieces \ {PAWN}, NEW from \in b.position[b.side][p],
         NEW to \in piece_attacks(b, p, from) \cap b.position_all[XSIDE(b.side)]
  PROVE  LET m == Capture(from, to, p, piece_at(b, to))
         IN  /\ Sent(b, m)
             /\ Abstract(make_move(b, m)) = Rules!Moved(Abstract(b), Pt(from), Pt(to), Man(b.side, p))
<1> DEFINE cap == piece_at(b, to)
           m == Capture(from, to, p, cap)
<1>1. /\ b.side \in Colors /\ from \in Squares /\ p \in Pieces /\ Sound(b) /\ is_legal(b)
  BY DEF Fit, Boards
<1>2. cap \in Pieces \ {KING} /\ to \in Squares /\ to \in b.position[XSIDE(b.side)][cap]
  BY <1>1, EnemyMan
<1>3. Fine(b, m)
  BY <1>1, PieceTakesFine
<1> HIDE DEF cap
<1>4. /\ m.from = from /\ m.to = to /\ ptype(m) = p /\ m.cap_ptype = cap /\ Is(m, "CAPTURE")
  BY <1>1, <1>2, CaptureParts
<1>5. Changed(b, MovePieces(b, m), {from, to}, {<<b.side, p, to>>})
  BY <1>1, <1>2, CaptureMen
<1> HIDE DEF m
<1>6. Sent(b, m)
  BY <1>1, <1>2, <1>4 DEF Sent
<1>7. Abstract(make_move(b, m)) = Then(b, m, p)
  BY <1>1, <1>3, <1>4, <1>5, <1>6, OneLeads
<1>8. EpSquare(m) = NO_SQUARE
  BY <1>4 DEF EpSquare
<1>9. Then(b, m, p) = Rules!Moved(Abstract(b), Pt(from), Pt(to), Man(b.side, p))
  BY <1>4, <1>8, ThenIs
<1> QED
  BY <1>6, <1>7, <1>9 DEF m, cap

LEMMA PieceGoesLeads ==
  ASSUME NEW b \in Boards, Fit(b), NEW p \in Pieces \ {PAWN}, NEW from \in b.position[b.side][p],
         NEW to \in piece_attacks(b, p, from) \ b.occupied
  PROVE  LET m == Normal(from, to, p)
         IN  /\ Sent(b, m)
             /\ Abstract(make_move(b, m)) = Rules!Moved(Abstract(b), Pt(from), Pt(to), Man(b.side, p))
<1> DEFINE m == Normal(from, to, p)
<1>1. /\ b.side \in Colors /\ from \in Squares /\ p \in Pieces /\ Sound(b) /\ is_legal(b)
  BY DEF Fit, Boards
<1>2. to \in Squares
  BY <1>1, AttackBack
<1>3. Fine(b, m)
  BY <1>1, PieceGoesFine
<1>4. /\ m.from = from /\ m.to = to /\ ptype(m) = p /\ ~Is(m, "CAPTURE")
  BY <1>1, <1>2, NormalParts
<1>5. Changed(b, MovePieces(b, m), {from, to}, {<<b.side, p, to>>})
  BY <1>1, <1>2, NormalMen
<1> HIDE DEF m
<1>6. Sent(b, m)
  BY <1>1, <1>2, <1>4 DEF Sent
<1>7. Abstract(make_move(b, m)) = Then(b, m, p)
  BY <1>1, <1>3, <1>4, <1>5, <1>6, OneLeads
<1>8. EpSquare(m) = NO_SQUARE
  BY <1>4 DEF EpSquare
<1>9. Then(b, m, p) = Rules!Moved(Abstract(b), Pt(from), Pt(to), Man(b.side, p))
  BY <1>4, <1>8, ThenIs
<1> QED
  BY <1>6, <1>7, <1>9 DEF m

\* The moves of pawns that stay in the rules' Moved().
LEMMA PawnTakesLeads ==
  ASSUME NEW b \in Boards, Fit(b), NEW from \in b.position[b.side][PAWN],
         NEW to \in pawn_captures(b, from, b.side) \cap b.position_all[XSIDE(b.side)]
  PROVE  /\ \A q \in Promoted :
              LET m == PromotionCapture(from, to, q, piece_at(b, to))
              IN  /\ Sent(b, m)
                  /\ Abstract(make_move(b, m)) = Rules!Moved(Abstract(b), Pt(from), Pt(to), Man(b.side, q))
         /\ from \notin BeforePromotion(b.side) =>
              LET m == Capture(from, to, PAWN, piece_at(b, to))
              IN  /\ Sent(b, m)
                  /\ Abstract(make_move(b, m)) = Rules!Moved(Abstract(b), Pt(from), Pt(to), Man(b.side, PAWN))
<1> DEFINE cap == piece_at(b, to)
<1>1. /\ b.side \in Colors /\ from \in Squares /\ PAWN \in Pieces /\ Sound(b) /\ is_legal(b)
      /\ PawnsWithin(b)
  BY PieceNames DEF Fit, Boards
<1>2. cap \in Pieces /\ cap # KING /\ to \in Squares /\ to \in b.position[XSIDE(b.side)][cap]
  <2>1. cap \in Pieces \ {KING} /\ to \in Squares /\ to \in b.position[XSIDE(b.side)][cap]
    BY <1>1, EnemyMan
  <2> QED
    BY <2>1
<1>3. to - from \notin {16, -16}
  <2>2. to \in pawn_capt_bb[b.side][from]
    BY DEF pawn_captures
  <2> QED
    BY <1>1, <2>2, PawnTakes
<1>4. /\ \A q \in Promoted : Fine(b, PromotionCapture(from, to, q, cap))
      /\ from \notin BeforePromotion(b.side) => Fine(b, Capture(from, to, PAWN, cap))
  BY <1>1, PawnTakesFine
<1> HIDE DEF cap
<1>5. ASSUME NEW q \in Promoted
      PROVE  LET m == PromotionCapture(from, to, q, cap)
             IN  /\ Sent(b, m)
                 /\ Abstract(make_move(b, m)) = Rules!Moved(Abstract(b), Pt(from), Pt(to), Man(b.side, q))
  <2> DEFINE m == PromotionCapture(from, to, q, cap)
  <2>1. q \in Pieces
    BY PromotedFacts
  <2>2. /\ m.from = from /\ m.to = to /\ ptype(m) = PAWN /\ m.cap_ptype = cap /\ Is(m, "CAPTURE")
    BY <1>1, <1>2, <2>1, PromotionCaptureParts
  <2>3. Changed(b, MovePieces(b, m), {from, to}, {<<b.side, q, to>>})
    BY <1>1, <1>2, PromotionCaptureMen
  <2>4. Fine(b, m)
    BY <1>4
  <2> HIDE DEF m
  <2>5. Sent(b, m)
    BY <1>1, <1>2, <2>2 DEF Sent
  <2>6. Abstract(make_move(b, m)) = Then(b, m, q)
    BY <2>1, <2>2, <2>3, <2>4, <2>5, OneLeads
  <2>7. EpSquare(m) = NO_SQUARE
    BY <1>3, <2>2 DEF EpSquare
  <2>8. Then(b, m, q) = Rules!Moved(Abstract(b), Pt(from), Pt(to), Man(b.side, q))
    BY <2>2, <2>7, ThenIs
  <2> QED
    BY <2>5, <2>6, <2>8 DEF m
<1>6. ASSUME from \notin BeforePromotion(b.side)
      PROVE  LET m == Capture(from, to, PAWN, cap)
             IN  /\ Sent(b, m)
                 /\ Abstract(make_move(b, m)) = Rules!Moved(Abstract(b), Pt(from), Pt(to), Man(b.side, PAWN))
  <2> DEFINE m == Capture(from, to, PAWN, cap)
  <2>2. /\ m.from = from /\ m.to = to /\ ptype(m) = PAWN /\ m.cap_ptype = cap /\ Is(m, "CAPTURE")
    BY <1>1, <1>2, CaptureParts
  <2>3. Changed(b, MovePieces(b, m), {from, to}, {<<b.side, PAWN, to>>})
    BY <1>1, <1>2, CaptureMen
  <2>4. Fine(b, m)
    BY <1>4, <1>6
  <2> HIDE DEF m
  <2>5. Sent(b, m)
    BY <1>1, <1>2, <2>2 DEF Sent
  <2>6. Abstract(make_move(b, m)) = Then(b, m, PAWN)
    BY <1>1, <2>2, <2>3, <2>4, <2>5, OneLeads
  <2>7. EpSquare(m) = NO_SQUARE
    BY <1>3, <2>2 DEF EpSquare
  <2>8. Then(b, m, PAWN) = Rules!Moved(Abstract(b), Pt(from), Pt(to), Man(b.side, PAWN))
    BY <2>2, <2>7, ThenIs
  <2> QED
    BY <2>5, <2>6, <2>8 DEF m
<1> QED
  BY <1>5, <1>6 DEF cap

LEMMA PawnGoesLeads ==
  ASSUME NEW b \in Boards, Fit(b), NEW from \in b.position[b.side][PAWN],
         NEW to \in pawn_noncaptures(b, from, b.side)
  PROVE  /\ from \in BeforePromotion(b.side) => \A q \in Promoted :
              LET m == Promotion(from, to, q)
              IN  /\ Sent(b, m)
                  /\ Abstract(make_move(b, m)) = Rules!Moved(Abstract(b), Pt(from), Pt(to), Man(b.side, q))
         /\ from \notin BeforePromotion(b.side) =>
              LET m == Normal(from, to, PAWN)
              IN  Sent(b, m) /\ Abstract(make_move(b, m)) = Then(b, m, PAWN)
<1>1. /\ b.side \in Colors /\ from \in Squares /\ PAWN \in Pieces /\ Sound(b) /\ PawnsWithin(b)
      /\ RNK(from) \in 1 .. 6
  <2>1. b.side \in Colors /\ PawnsWithin(b)
    BY DEF Fit, Boards
  <2> QED
    BY <2>1, PieceNames, PawnPlace DEF Fit
<1>2. to \in Squares /\ to \notin b.occupied
  BY <1>1, PawnGoes
<1>3. from \in BeforePromotion(b.side) => to - from \notin {16, -16}
  BY <1>1, PawnGoes
<1>4. /\ from \in BeforePromotion(b.side) => \A q \in Promoted : Fine(b, Promotion(from, to, q))
      /\ from \notin BeforePromotion(b.side) => Fine(b, Normal(from, to, PAWN))
  BY <1>1, PawnGoesFine
<1>5. ASSUME from \in BeforePromotion(b.side), NEW q \in Promoted
      PROVE  LET m == Promotion(from, to, q)
             IN  /\ Sent(b, m)
                 /\ Abstract(make_move(b, m)) = Rules!Moved(Abstract(b), Pt(from), Pt(to), Man(b.side, q))
  <2> DEFINE m == Promotion(from, to, q)
  <2>1. q \in Pieces
    BY PromotedFacts
  <2>2. /\ m.from = from /\ m.to = to /\ ptype(m) = PAWN /\ ~Is(m, "CAPTURE")
    BY <1>1, <1>2, <2>1, PromotionParts
  <2>3. Changed(b, MovePieces(b, m), {from, to}, {<<b.side, q, to>>})
    BY <1>1, <1>2, PromotionMen
  <2>4. Fine(b, m)
    BY <1>4, <1>5
  <2> HIDE DEF m
  <2>5. Sent(b, m)
    BY <1>1, <1>2, <2>2 DEF Sent
  <2>6. Abstract(make_move(b, m)) = Then(b, m, q)
    BY <2>1, <2>2, <2>3, <2>4, <2>5, OneLeads
  <2>7. EpSquare(m) = NO_SQUARE
    BY <1>3, <1>5, <2>2 DEF EpSquare
  <2>8. Then(b, m, q) = Rules!Moved(Abstract(b), Pt(from), Pt(to), Man(b.side, q))
    BY <2>2, <2>7, ThenIs
  <2> QED
    BY <2>5, <2>6, <2>8 DEF m
<1>6. ASSUME from \notin BeforePromotion(b.side)
      PROVE  LET m == Normal(from, to, PAWN)
             IN  Sent(b, m) /\ Abstract(make_move(b, m)) = Then(b, m, PAWN)
  <2> DEFINE m == Normal(from, to, PAWN)
  <2>2. /\ m.from = from /\ m.to = to /\ ptype(m) = PAWN /\ ~Is(m, "CAPTURE")
    BY <1>1, <1>2, NormalParts
  <2>3. Changed(b, MovePieces(b, m), {from, to}, {<<b.side, PAWN, to>>})
    BY <1>1, <1>2, NormalMen
  <2>4. Fine(b, m)
    BY <1>4, <1>6
  <2> HIDE DEF m
  <2>5. Sent(b, m)
    BY <1>1, <1>2, <2>2 DEF Sent
  <2>6. Abstract(make_move(b, m)) = Then(b, m, PAWN)
    BY <1>1, <2>2, <2>3, <2>4, <2>5, OneLeads
  <2> QED
    BY <2>5, <2>6 DEF m
<1> QED
  BY <1>5, <1>6

\* The pawn that has just passed is taken where it stands.
LEMMA PassingPlaces ==
  ASSUME NEW b \in Boards, Fit(b), NEW from \in b.position[b.side][PAWN],
         b.epsq \in pawn_captures(b, from, b.side)
  PROVE  /\ from \in Squares /\ b.epsq \in Squares /\ get_eppawn(b) \in Squares
         /\ b.epsq # NO_SQUARE /\ b.epsq \notin b.occupied
         /\ from \notin BeforePromotion(b.side) /\ b.epsq - from \notin {16, -16}
         /\ get_eppawn(b) # b.epsq /\ from # b.epsq /\ get_eppawn(b) \in b.position[XSIDE(b.side)][PAWN]
         /\ Pt(get_eppawn(b)) = <<Pt(b.epsq)[1], Pt(from)[2]>>
<1> DEFINE e == b.epsq
           s == b.side
<1>1. s \in Colors /\ from \in Squares /\ PawnsWithin(b) /\ Sound(b) /\ EpFits(b) /\ PAWN \in Pieces
  BY PieceNames DEF Boards, Fit
<1>2. e \in pawn_capt_bb[s][from]
  BY DEF pawn_captures
<1>3. /\ e \in Squares /\ e - from \notin {16, -16}
      /\ RNK(e) = RNK(from) + (IF s = WHITE THEN 1 ELSE -1)
  BY <1>1, <1>2, PawnTakes
<1>4. e # NO_SQUARE
  BY <1>3 DEF Squares, NO_SQUARE
<1>5. /\ RNK(e) = (IF s = WHITE THEN 5 ELSE 2) /\ e \notin b.occupied
      /\ get_eppawn(b) \in b.position[XSIDE(s)][PAWN]
  BY <1>1, <1>4 DEF EpFits
<1>6. get_eppawn(b) \in Squares /\ get_eppawn(b) \in b.occupied
  <2>1. XSIDE(s) \in Colors
    BY <1>1, NamesAre
  <2> QED
    BY <1>1, <1>5, <2>1, MenOccupy
<1>7. from \in b.occupied
  BY <1>1, MenOccupy
<1>8. /\ RNK(from) \in 0 .. 7 /\ FIL(e) \in 0 .. 7 /\ e = 8 * RNK(e) + FIL(e)
      /\ RNK(get_eppawn(b)) \in 0 .. 7 /\ FIL(get_eppawn(b)) \in 0 .. 7
      /\ get_eppawn(b) = 8 * RNK(get_eppawn(b)) + FIL(get_eppawn(b))
  BY <1>1, <1>3, <1>6, RankOf
<1>9. get_eppawn(b) = IF s = WHITE THEN e - 8 ELSE e + 8
  BY <1>4, <1>5 DEF get_eppawn
<1>10. RNK(from) = IF s = WHITE THEN 4 ELSE 3
  BY <1>3, <1>5, <1>8
<1>11. from \notin BeforePromotion(s)
  BY <1>1, <1>10, PawnPlace
<1>12. FIL(get_eppawn(b)) = FIL(e) /\ RNK(get_eppawn(b)) = RNK(from)
  <2> DEFINE g == get_eppawn(b)
             fg == FIL(g)
             rg == RNK(g)
             fe == FIL(e)
             re == RNK(e)
  <2>1. /\ fg \in 0 .. 7 /\ rg \in 0 .. 7 /\ fe \in 0 .. 7 /\ g = 8 * rg + fg /\ e = 8 * re + fe
        /\ re = (IF s = WHITE THEN 5 ELSE 2) /\ g = IF s = WHITE THEN e - 8 ELSE e + 8
    BY <1>5, <1>8, <1>9
  <2> HIDE DEF g, fg, rg, fe, re
  <2>2. fg = fe /\ rg = IF s = WHITE THEN 4 ELSE 3
    BY <2>1
  <2> QED
    BY <1>10, <2>2 DEF fg, rg, fe, g
<1>13. Pt(get_eppawn(b)) = <<Pt(e)[1], Pt(from)[2]>>
  BY <1>12 DEF Pt
<1> QED
  BY <1>1, <1>3, <1>4, <1>5, <1>6, <1>7, <1>11, <1>13

LEMMA PawnPassesLeads ==
  ASSUME NEW b \in Boards, Fit(b), NEW from \in b.position[b.side][PAWN],
         b.epsq \in pawn_captures(b, from, b.side)
  PROVE  LET m == EnPassant(from, b.epsq)
         IN  /\ Sent(b, m)
             /\ Abstract(make_move(b, m)) =
                  [Rules!Moved(Abstract(b), Pt(from), Pt(b.epsq), Man(b.side, PAWN))
                     EXCEPT !.at[<<Pt(b.epsq)[1], Pt(from)[2]>>] = Rules!Empty]
<1> DEFINE e == b.epsq
           g == get_eppawn(b)
           m == EnPassant(from, e)
           t == MovePieces(b, m)
           s == b.side
<1>1. /\ s \in Colors /\ PAWN \in Pieces /\ Sound(b) /\ FlagsFit(b) /\ EpFits(b) /\ PawnsWithin(b)
  BY PieceNames DEF Fit, Boards
<1>2. /\ from \in Squares /\ e \in Squares /\ g \in Squares /\ e # NO_SQUARE /\ e \notin b.occupied
      /\ e - from \notin {16, -16} /\ g # e /\ from # e /\ Pt(g) = <<Pt(e)[1], Pt(from)[2]>>
  BY PassingPlaces
<1>3. Fine(b, m)
  BY <1>1, PawnPassesFine
<1>4. /\ m.from = from /\ m.to = e /\ ptype(m) = PAWN /\ ~Is(m, "CAPTURE")
  BY <1>2, EnPassantParts
<1>5. Changed(b, t, {from, e, g}, {<<s, PAWN, e>>})
  BY <1>1, <1>2, EnPassantMen
<1> HIDE DEF m
<1>6. Sent(b, m)
  BY <1>1, <1>2, <1>4 DEF Sent
<1>7. EpSquare(m) = NO_SQUARE
  BY <1>2, <1>4 DEF EpSquare
<1>8. Sound(t)
  BY <1>3 DEF Fine, Kept
<1>9. Abstract(make_move(b, m)) = Led(b, m, Abstract(t).at)
  BY <1>1, <1>3, <1>6, MoveLeads
<1> HIDE DEF t, e, g, s
<1>10. Abstract(t).at = OneGone(Abstract(b).at, from, e, g, Man(s, PAWN))
  <2>1. from \in Squares /\ e \in Squares /\ g \in Squares /\ g # e /\ from # e
    BY <1>2
  <2>2. Sound(b) /\ s \in Colors /\ PAWN \in Pieces
    BY <1>1
  <2> QED
    BY <1>5, <1>8, <2>1, <2>2, OneGoes
<1> DEFINE R == {x \in Abstract(b).rights :
                   {Rules!KingHome(x), Rules!RookHome(x)} \cap {Pt(from), Pt(e)} = {}}
           A == [Abstract(b).at EXCEPT ![Pt(from)] = Rules!Empty, ![Pt(e)] = Man(s, PAWN)]
           C == [A EXCEPT ![Pt(g)] = Rules!Empty]
           T == Rules!Other(Abstract(b).turn)
           M == Rules!Moved(Abstract(b), Pt(from), Pt(e), Man(s, PAWN))
<1>11. M = [at |-> A, turn |-> T, rights |-> R, ep |-> Rules!None]
  BY Zenon DEF Rules!Moved
<1>12. Led(b, m, C) = [at |-> C, turn |-> T, rights |-> R, ep |-> Rules!None]
  BY <1>4, <1>7 DEF Led
<1>13. Abstract(make_move(b, m)) = Led(b, m, C)
  BY <1>9, <1>10 DEF OneGone
<1> HIDE DEF R, A, T, M
<1>14. [M EXCEPT !.at[Pt(g)] = Rules!Empty] = [at |-> C, turn |-> T, rights |-> R, ep |-> Rules!None]
  <2>1. M.at = A
    BY <1>11
  <2> QED
    BY <1>11, <2>1
<1>15. Abstract(make_move(b, m)) = [M EXCEPT !.at[<<Pt(e)[1], Pt(from)[2]>>] = Rules!Empty]
  BY <1>2, <1>12, <1>13, <1>14
<1> QED
  BY <1>6, <1>15 DEF m, M, e, s

LEMMA CastlesAre ==
  ASSUME NEW b \in Boards, NEW m
  PROVE  Castles(b, m) <=>
           /\ ~in_check(b)
           /\ \E f \in Flags : /\ Castle[f].side = b.side /\ CanCastle(b, f)
                               /\ m = Castling(Castle[f].king, Castle[f].to)
<1>1. b.side \in Colors
  BY DEF Boards
<1>2. \A f : f \in FlagsOf(b.side) <=> f \in Flags /\ Castle[f].side = b.side
  <2>1. FlagsOf(b.side) \subseteq Flags
    BY DEF FlagsOf, Flags
  <2> QED
    BY <1>1, <2>1, CastleTable
<1> QED
  BY <1>2 DEF Castles, generate_castling

LEMMA CastlingLeads ==
  ASSUME NEW b \in Boards, Fit(b), NEW r \in Sides, Castle[Side[r]].side = b.side,
         CanCastle(b, Side[r]), ~in_check(b)
  PROVE  LET m == Castling(Castle[Side[r]].king, Castle[Side[r]].to)
         IN  /\ Sent(b, m) /\ Fine(b, m)
             /\ Abstract(make_move(b, m)) = Rules!Castled(Abstract(b), r)
<1> DEFINE f == Side[r]
           c == Castle[f]
           m == Castling(c.king, c.to)
           t == MovePieces(b, m)
           s == b.side
<1>1. /\ f \in Flags /\ c.king \in Squares /\ c.to \in Squares /\ c.rook \in Squares
      /\ c.rookto \in Squares /\ c.side \in Colors
  <2>1. f \in Flags
    BY RightIs
  <2> QED
    BY <2>1, CastleTable
<1>2. Sound(b) /\ FlagsFit(b) /\ s \in Colors /\ KING \in Pieces /\ ROOK \in Pieces
  BY PieceNames DEF Fit, Boards
<1>3. f \in b.flags /\ b.occupied \cap ray_bb[c.king][c.rook] = {}
  BY DEF CanCastle
<1>4. HomeMen(b, f)
  BY <1>2, <1>3 DEF FlagsFit, HomeMen
<1>5. c.king \in b.position[s][KING] /\ c.rook \in b.position[s][ROOK]
  BY <1>2, <1>4 DEF HomeMen, Sound, MenTold
<1>6. /\ c.to \notin b.occupied /\ c.rookto \notin b.occupied
      /\ c.to # c.rookto /\ c.to # c.rook /\ c.to # c.king /\ c.rookto # c.king
  BY <1>1, <1>3, CastleRays
<1>7. c.rook # c.rookto
  BY <1>1, <1>2, <1>5, <1>6, MenOccupy
<1>8. Castles(b, m)
  BY <1>1, CastlesAre
<1>9. Fine(b, m)
  BY <1>2, <1>8, CastlingFine DEF Castles
<1>10. /\ m.from = c.king /\ m.to = c.to /\ ptype(m) = KING /\ ~Is(m, "CAPTURE")
  BY <1>1, CastlingParts
<1>11. Changed(b, t, {c.king, c.to, c.rook, c.rookto}, {<<s, KING, c.to>>, <<s, ROOK, c.rookto>>})
  BY <1>1, <1>2, <1>3, <1>4, CastlingMen
<1>12. /\ Rules!KingHome(r) = Pt(c.king) /\ Rules!RookHome(r) = Pt(c.rook)
       /\ <<IF r[2] = "short" THEN 6 ELSE 2, Rules!KingHome(r)[2]>> = Pt(c.to)
       /\ <<IF r[2] = "short" THEN 5 ELSE 3, Rules!KingHome(r)[2]>> = Pt(c.rookto)
  BY RightIs
<1> HIDE DEF m
<1>13. Sent(b, m)
  BY <1>1, <1>2, <1>5, <1>6, <1>10 DEF Sent
<1>14. EpSquare(m) = NO_SQUARE
  BY <1>10, PieceNames DEF EpSquare
<1>15. Sound(t)
  BY <1>9 DEF Fine, Kept
<1>16. Abstract(make_move(b, m)) = Led(b, m, Abstract(t).at)
  BY <1>2, <1>9, <1>13, MoveLeads
<1> HIDE DEF t, c, f
<1> DEFINE x == c.king
           y == c.to
           v == c.rook
           w == c.rookto
<1>17. /\ x \in Squares /\ y \in Squares /\ v \in Squares /\ w \in Squares
       /\ x # y /\ v # y /\ w # y /\ v # w /\ x # w
  BY <1>1, <1>6, <1>7
<1>18. Changed(b, t, {x, y, v, w}, {<<s, KING, y>>, <<s, ROOK, w>>})
  BY <1>11
<1>19. /\ Rules!KingHome(r) = Pt(x) /\ Rules!RookHome(r) = Pt(v) /\ m.from = x /\ m.to = y
       /\ <<IF r[2] = "short" THEN 6 ELSE 2, Rules!KingHome(r)[2]>> = Pt(y)
       /\ <<IF r[2] = "short" THEN 5 ELSE 3, Rules!KingHome(r)[2]>> = Pt(w)
  BY <1>10, <1>12
<1> HIDE DEF x, y, v, w, s
<1>20. Abstract(t).at = TwoMoving(Abstract(b).at, x, y, Man(s, KING), v, w, Man(s, ROOK))
  BY <1>2, <1>15, <1>17, <1>18, TwoMove
<1>21. /\ Rules!Man(Abstract(b).turn, "king") = Man(s, KING)
       /\ Rules!Man(Abstract(b).turn, "rook") = Man(s, ROOK)
  BY AbstractIs, NamesAre DEF Man, s
<1> DEFINE R == {n \in Abstract(b).rights :
                   {Rules!KingHome(n), Rules!RookHome(n)} \cap {Pt(x), Pt(y)} = {}}
           A == [Abstract(b).at EXCEPT ![Pt(x)] = Rules!Empty, ![Pt(y)] = Man(s, KING)]
           T == Rules!Other(Abstract(b).turn)
           M == Rules!Moved(Abstract(b), Pt(x), Pt(y), Man(s, KING))
           C == [A EXCEPT ![Pt(v)] = Rules!Empty, ![Pt(w)] = Man(s, ROOK)]
<1>22. M = [at |-> A, turn |-> T, rights |-> R, ep |-> Rules!None]
  BY Zenon DEF Rules!Moved
<1>23. Led(b, m, C) = [at |-> C, turn |-> T, rights |-> R, ep |-> Rules!None]
  BY <1>14, <1>19 DEF Led
<1>24. Abstract(make_move(b, m)) = Led(b, m, C)
  BY <1>16, <1>20 DEF TwoMoving
<1>25. Rules!Castled(Abstract(b), r) =
         [M EXCEPT !.at[Pt(v)] = Rules!Empty, !.at[Pt(w)] = Man(s, ROOK)]
  BY <1>19, <1>21 DEF Rules!Castled
<1> HIDE DEF R, A, T, M
<1>26. [M EXCEPT !.at[Pt(v)] = Rules!Empty, !.at[Pt(w)] = Man(s, ROOK)]
         = [at |-> C, turn |-> T, rights |-> R, ep |-> Rules!None]
  <2> DEFINE B == [A EXCEPT ![Pt(v)] = Rules!Empty]
             D == [B EXCEPT ![Pt(w)] = Man(s, ROOK)]
             N == [M EXCEPT !.at[Pt(v)] = Rules!Empty]
  <2>1. M.at = A
    BY <1>22
  <2>2. N = [M EXCEPT !.at = B]
    BY <2>1
  <2>3. D = C
    OBVIOUS
  <2> HIDE DEF B
  <2>4. N = [at |-> B, turn |-> T, rights |-> R, ep |-> Rules!None]
    BY <1>22, <2>2
  <2> HIDE DEF N
  <2>5. N.at = B
    BY <2>4
  <2>6. [N EXCEPT !.at[Pt(w)] = Man(s, ROOK)] = [N EXCEPT !.at = D]
    BY <2>5
  <2> HIDE DEF D
  <2>7. [N EXCEPT !.at[Pt(w)] = Man(s, ROOK)] = [at |-> D, turn |-> T, rights |-> R, ep |-> Rules!None]
    BY <2>4, <2>6
  <2> QED
    BY <2>3, <2>7 DEF N
<1>27. Abstract(make_move(b, m)) = Rules!Castled(Abstract(b), r)
  BY <1>23, <1>24, <1>25, <1>26
<1> QED
  BY <1>9, <1>13, <1>27 DEF m, c, f

-----------------------------------------------------------------------------
(***************************************************************************)
(* The moves of the rules are the moves that are generated.                 *)
(***************************************************************************)
Ahead(s, x) == IF s = WHITE THEN x + 8 ELSE x - 8
TwiceAhead(s, x) == IF s = WHITE THEN x + 16 ELSE x - 16
StartRank(s) == IF s = WHITE THEN 1 ELSE 6

LEMMA StepsAre ==
  ASSUME NEW b, NEW s \in Colors, NEW x \in Squares, NEW y
  PROVE  y \in pawn_noncaptures(b, x, s) <=>
           \/ y = Ahead(s, x) /\ Ahead(s, x) \notin b.occupied
           \/ /\ y = TwiceAhead(s, x) /\ RNK(x) = StartRank(s)
              /\ Ahead(s, x) \notin b.occupied /\ TwiceAhead(s, x) \notin b.occupied
<1> DEFINE d == IF s = WHITE THEN 8 ELSE -8
           Clear(n) == \A i \in 1 .. n : x + i * d \notin b.occupied
<1>1. /\ x + 1 * d = Ahead(s, x) /\ x + 2 * d = TwiceAhead(s, x)
  <2>1. x \in Int /\ \A n \in Int : n + 1 * (-8) = n - 8 /\ n + 2 * (-8) = n - 16
    BY DEF Squares
  <2>2. \A n \in Int : n + 1 * 8 = n + 8 /\ n + 2 * 8 = n + 16
    OBVIOUS
  <2> QED
    BY <2>1, <2>2 DEF Ahead, TwiceAhead
<1>2. y \in pawn_noncaptures(b, x, s) <=>
        \E n \in 1 .. 2 : Clear(n) /\ (n = 2 => RNK(x) = StartRank(s)) /\ y = x + n * d
  BY DEF pawn_noncaptures, StartRank
<1>3. 1 .. 2 = {1, 2} /\ 1 .. 1 = {1}
  OBVIOUS
<1>4. /\ Clear(1) <=> x + 1 * d \notin b.occupied
      /\ Clear(2) <=> x + 1 * d \notin b.occupied /\ x + 2 * d \notin b.occupied
  BY <1>3
<1> HIDE DEF d, Clear
<1> QED
  BY <1>1, <1>2, <1>3, <1>4

\* The square ahead of a pawn, and the one ahead of that.
LEMMA AheadIs ==
  ASSUME NEW b \in Boards, PawnsWithin(b), NEW x \in b.position[b.side][PAWN]
  PROVE  /\ x \in Squares /\ Ahead(b.side, x) \in Squares
         /\ Rules!OneAhead(Abstract(b), Pt(x)) = Pt(Ahead(b.side, x))
         /\ RNK(x) = StartRank(b.side) =>
              /\ TwiceAhead(b.side, x) \in Squares
              /\ Rules!TwoAhead(Abstract(b), Pt(x)) = Pt(TwiceAhead(b.side, x))
         /\ Pt(x)[2] = Rules!HomeRank(Abstract(b).turn) + Rules!Forward(Abstract(b).turn) <=>
              RNK(x) = StartRank(b.side)
<1> DEFINE s == b.side
           r == IF s = WHITE THEN 1 ELSE -1
           at == Abstract(b)
<1>1. s \in Colors /\ x \in Squares /\ RNK(x) \in 1 .. 6
  <2>1. s \in Colors
    BY DEF Boards
  <2> QED
    BY <2>1, PawnPlace
<1>2. at.turn = Colour(s)
  BY AbstractIs
<1>3. Rules!Forward(Colour(s)) = r /\ Rules!HomeRank(Colour(s)) = IF s = WHITE THEN 0 ELSE 7
  BY <1>1 DEF Rules!Forward, Rules!HomeRank, Colour, Colors, WHITE, BLACK
<1>4. r \in Int /\ 0 \in Int /\ 1 \in Int /\ 2 \in Int /\ FIL(x) \in 0 .. 7
  BY <1>1, RankOf
<1>5. /\ Rules!OneAhead(at, Pt(x)) = Rules!Plus(Pt(x), <<0, r>>, 1)
      /\ Rules!TwoAhead(at, Pt(x)) = Rules!Plus(Pt(x), <<0, r>>, 2)
  BY <1>2, <1>3 DEF Rules!OneAhead, Rules!TwoAhead
<1> HIDE DEF at
<1>6. /\ Rules!Plus(Pt(x), <<0, r>>, 1) = <<FIL(x) + 1 * 0, RNK(x) + 1 * r>>
      /\ Rules!Plus(Pt(x), <<0, r>>, 2) = <<FIL(x) + 2 * 0, RNK(x) + 2 * r>>
  <2> HIDE DEF r
  <2> QED
    BY <1>1, <1>4, PlusIs
<1>7. /\ FIL(x) + 1 * 0 = FIL(x) + 0 /\ FIL(x) + 2 * 0 = FIL(x) + 0
      /\ RNK(x) + 1 * r = RNK(x) + r /\ RNK(x) + 2 * r = RNK(x) + (r + r)
      /\ r + r \in Int
  <2>1. \A f \in Int : f + 1 * 0 = f + 0 /\ f + 2 * 0 = f + 0
    OBVIOUS
  <2>2. \A m, n \in Int : m + 1 * n = m + n /\ m + 2 * n = m + (n + n) /\ n + n \in Int
    OBVIOUS
  <2>3. FIL(x) \in Int /\ RNK(x) \in Int
    BY <1>1, <1>4
  <2> HIDE DEF r
  <2> QED
    BY <1>4, <2>1, <2>2, <2>3
<1>8. /\ x + 8 * r + 0 = Ahead(s, x) /\ x + 8 * (r + r) + 0 = TwiceAhead(s, x)
  <2>1. x \in Int
    BY <1>1 DEF Squares
  <2>2. CASE s = WHITE
    BY <2>1, <2>2 DEF Ahead, TwiceAhead
  <2>3. CASE s # WHITE
    <3>1. r = -1 /\ \A n \in Int : n + 8 * (-1) + 0 = n - 8 /\ n + 8 * ((-1) + (-1)) + 0 = n - 16
      BY <2>3
    <3> QED
      BY <2>1, <2>3, <3>1 DEF Ahead, TwiceAhead
  <2> QED
    BY <2>2, <2>3
<1>9. RNK(x) + r \in 0 .. 7 /\ FIL(x) + 0 \in 0 .. 7
      /\ (RNK(x) = StartRank(s) => RNK(x) + (r + r) \in 0 .. 7)
  BY <1>1, <1>4 DEF StartRank
<1> HIDE DEF r
<1>10. ASSUME NEW f \in Int, NEW g \in Int, FIL(x) + f \in 0 .. 7, RNK(x) + g \in 0 .. 7
       PROVE  x + 8 * g + f \in Squares /\ Pt(x + 8 * g + f) = <<FIL(x) + f, RNK(x) + g>>
  BY <1>1, <1>10, Along
<1>11. Ahead(s, x) \in Squares /\ Pt(Ahead(s, x)) = <<FIL(x) + 0, RNK(x) + r>>
  <2>1. x + 8 * r + 0 \in Squares /\ Pt(x + 8 * r + 0) = <<FIL(x) + 0, RNK(x) + r>>
    BY <1>4, <1>9, <1>10
  <2> QED
    BY <1>8, <2>1
<1>12. RNK(x) = StartRank(s) =>
         TwiceAhead(s, x) \in Squares /\ Pt(TwiceAhead(s, x)) = <<FIL(x) + 0, RNK(x) + (r + r)>>
  <2> SUFFICES ASSUME RNK(x) = StartRank(s)
               PROVE  TwiceAhead(s, x) \in Squares
                      /\ Pt(TwiceAhead(s, x)) = <<FIL(x) + 0, RNK(x) + (r + r)>>
    OBVIOUS
  <2> DEFINE g == r + r
  <2>1. g \in Int /\ RNK(x) + g \in 0 .. 7 /\ x + 8 * g + 0 = TwiceAhead(s, x)
    BY <1>7, <1>8, <1>9
  <2> HIDE DEF g
  <2>2. x + 8 * g + 0 \in Squares /\ Pt(x + 8 * g + 0) = <<FIL(x) + 0, RNK(x) + g>>
    BY <1>4, <1>9, <1>10, <2>1
  <2> QED
    BY <2>1, <2>2 DEF g
<1>13. Pt(x)[2] = Rules!HomeRank(at.turn) + Rules!Forward(at.turn) <=> RNK(x) = StartRank(s)
  <2>1. Rules!HomeRank(at.turn) + Rules!Forward(at.turn) = StartRank(s)
    BY <1>2, <1>3 DEF StartRank, r
  <2> QED
    BY <2>1 DEF Pt
<1> QED
  BY <1>1, <1>5, <1>6, <1>7, <1>11, <1>12, <1>13 DEF at

\* Whose man stands on a square.
LEMMA OfIs ==
  ASSUME NEW b \in Boards, Sound(b), NEW c \in Colors
  PROVE  /\ \A x \in Squares : Pt(x) \in Rules!Of(Abstract(b).at, Colour(c)) <=> x \in b.position_all[c]
         /\ \A s : s \in Rules!Of(Abstract(b).at, Colour(c)) =>
              \E x \in b.position_all[c] : x \in Squares /\ s = Pt(x)
<1>1. \A x \in Squares : Pt(x) \in Rules!Squares
                         /\ (x \in b.position_all[c] <=> Abstract(b).at[Pt(x)].colour = Colour(c))
  BY Stands, PointsAre
<1>2. \A x \in Squares : Pt(x) \in Rules!Of(Abstract(b).at, Colour(c)) <=> x \in b.position_all[c]
  BY <1>1 DEF Rules!Of
<1>3. ASSUME NEW s \in Rules!Of(Abstract(b).at, Colour(c))
      PROVE  \E x \in b.position_all[c] : x \in Squares /\ s = Pt(x)
  <2>1. s \in Rules!Squares
    BY DEF Rules!Of
  <2>2. PICK x \in Squares : s = Pt(x)
    BY <2>1, PointsAre
  <2> QED
    BY <1>2, <2>2
<1> QED
  BY <1>2, <1>3

\* What a man of the side to move is.
LEMMA ManIs ==
  ASSUME NEW b \in Boards, Sound(b), NEW c \in Colors, NEW x \in Squares, x \in b.position_all[c]
  PROVE  \E p \in Pieces : /\ x \in b.position[c][p] /\ Abstract(b).at[Pt(x)] = Man(c, p)
                           /\ Abstract(b).at[Pt(x)].kind = Kind[p]
<1>1. PICK p \in Pieces : x \in b.position[c][p]
  BY DEF Sound, MenTold
<1>2. Abstract(b).at[Pt(x)] = Man(c, p)
  BY <1>1, Stands
<1> QED
  BY <1>1, <1>2, ManFacts

LEMMA OfficersAre ==
  ASSUME NEW b \in Boards, Sound(b), NEW q
  PROVE  q \in Rules!Officers(Abstract(b)) <=>
           \E p \in Pieces \ {PAWN} : \E x \in b.position[b.side][p] :
             \E y \in piece_attacks(b, p, x) \ b.position_all[b.side] :
               q = Rules!Moved(Abstract(b), Pt(x), Pt(y), Man(b.side, p))
<1> DEFINE P == Abstract(b)
           s == b.side
           Own == Rules!Of(P.at, P.turn)
           S == {u \in Own : P.at[u].kind # "pawn"}
<1>1. s \in Colors /\ PAWN \in Pieces /\ Kind[PAWN] = "pawn"
      /\ \A p \in Pieces : p # PAWN => Kind[p] # "pawn"
  BY PieceNames, NamesAre DEF Boards
<1>2. P.turn = Colour(s)
  BY AbstractIs
<1>3. q \in Rules!Officers(P) <=>
        \E u \in S : \E v \in Rules!Takes(P.at, u) \ Own : q = Rules!Moved(P, u, v, P.at[u])
  <2> DEFINE T(u) == {Rules!Moved(P, u, v, P.at[u]) : v \in Rules!Takes(P.at, u) \ Own}
  <2>1. Rules!Officers(P) = UNION {T(u) : u \in S}
    BY DEF Rules!Officers
  <2>2. \A u : q \in T(u) <=> \E v \in Rules!Takes(P.at, u) \ Own : q = Rules!Moved(P, u, v, P.at[u])
    OBVIOUS
  <2> HIDE DEF T, S
  <2>3. q \in UNION {T(u) : u \in S} <=> \E u \in S : q \in T(u)
    BY Zenon
  <2> QED
    BY <2>1, <2>2, <2>3
<1>4. ASSUME NEW u \in S, NEW v \in Rules!Takes(P.at, u) \ Own, q = Rules!Moved(P, u, v, P.at[u])
      PROVE  \E p \in Pieces \ {PAWN} : \E x \in b.position[s][p] :
               \E y \in piece_attacks(b, p, x) \ b.position_all[s] :
                 q = Rules!Moved(P, Pt(x), Pt(y), Man(s, p))
  <2>1. PICK x \in b.position_all[s] : x \in Squares /\ u = Pt(x)
    BY <1>1, <1>2, OfIs
  <2>2. PICK p \in Pieces : /\ x \in b.position[s][p] /\ P.at[u] = Man(s, p)
                            /\ P.at[u].kind = Kind[p]
    BY <1>1, <2>1, ManIs
  <2>3. p # PAWN
    BY <1>1, <2>2
  <2>4. PICK y \in Reach(b, s, p, x) \cap Squares : v = Pt(y)
    BY <1>1, <1>4, <2>1, <2>2, TakesOnBoard
  <2>5. y \notin b.position_all[s]
    BY <1>1, <1>2, <1>4, <2>4, OfIs
  <2> HIDE DEF P
  <2> QED
    BY <1>4, <2>1, <2>2, <2>3, <2>4, <2>5 DEF Reach
<1>5. ASSUME NEW p \in Pieces \ {PAWN}, NEW x \in b.position[s][p],
             NEW y \in piece_attacks(b, p, x) \ b.position_all[s],
             q = Rules!Moved(P, Pt(x), Pt(y), Man(s, p))
      PROVE  \E u \in S : \E v \in Rules!Takes(P.at, u) \ Own : q = Rules!Moved(P, u, v, P.at[u])
  <2>1. x \in Squares /\ p \in Pieces /\ p # PAWN
    BY <1>1 DEF Boards
  <2>2. y \in Squares
    BY <2>1, AttackBack
  <2>3. P.at[Pt(x)] = Man(s, p) /\ x \in b.position_all[s]
    BY <1>1, <2>1, Stands, MenOccupy
  <2>4. P.at[Pt(x)].kind # "pawn"
    BY <1>1, <2>1, <2>3, ManFacts
  <2>5. Pt(x) \in Own /\ Pt(y) \notin Own
    BY <1>1, <1>2, <2>1, <2>2, <2>3, OfIs
  <2>6. Pt(y) \in Rules!Takes(P.at, Pt(x))
    BY <1>1, <2>1, <2>2, TakesAre DEF Reach
  <2> HIDE DEF P, Own
  <2> QED
    BY <1>5, <2>3, <2>4, <2>5, <2>6
<1> HIDE DEF P, S, Own
<1>6. (\E u \in S : \E v \in Rules!Takes(P.at, u) \ Own : q = Rules!Moved(P, u, v, P.at[u])) <=>
        \E p \in Pieces \ {PAWN} : \E x \in b.position[s][p] :
          \E y \in piece_attacks(b, p, x) \ b.position_all[s] :
            q = Rules!Moved(P, Pt(x), Pt(y), Man(s, p))
  BY <1>4, <1>5
<1> QED
  BY <1>3, <1>6 DEF P

LEMMA OfficerMoves ==
  ASSUME NEW b \in Boards, Fit(b), NEW q
  PROVE  q \in Rules!Officers(Abstract(b)) <=>
           \E m : (PieceTakes(b, m) \/ PieceGoes(b, m)) /\ q = Abstract(make_move(b, m))
<1> DEFINE s == b.side
           theirs == b.position_all[XSIDE(s)]
           Goal(p, x, y) == q = Rules!Moved(Abstract(b), Pt(x), Pt(y), Man(s, p))
<1>1. Sound(b)
  BY DEF Fit
<1>2. q \in Rules!Officers(Abstract(b)) <=>
        \E p \in Pieces \ {PAWN} : \E x \in b.position[s][p] :
          \E y \in piece_attacks(b, p, x) \ b.position_all[s] : Goal(p, x, y)
  BY <1>1, OfficersAre
<1>3. ASSUME NEW p \in Pieces \ {PAWN}, NEW x \in b.position[s][p]
      PROVE  /\ \A y \in piece_attacks(b, p, x) \cap theirs :
                  Goal(p, x, y) <=> q = Abstract(make_move(b, Capture(x, y, p, piece_at(b, y))))
             /\ \A y \in piece_attacks(b, p, x) \ b.occupied :
                  Goal(p, x, y) <=> q = Abstract(make_move(b, Normal(x, y, p)))
  <2>1. ASSUME NEW y \in piece_attacks(b, p, x) \cap theirs
        PROVE  Goal(p, x, y) <=> q = Abstract(make_move(b, Capture(x, y, p, piece_at(b, y))))
    <3>1. Abstract(make_move(b, Capture(x, y, p, piece_at(b, y))))
            = Rules!Moved(Abstract(b), Pt(x), Pt(y), Man(s, p))
      BY PieceTakesLeads
    <3> QED
      BY <3>1
  <2>2. ASSUME NEW y \in piece_attacks(b, p, x) \ b.occupied
        PROVE  Goal(p, x, y) <=> q = Abstract(make_move(b, Normal(x, y, p)))
    <3>1. Abstract(make_move(b, Normal(x, y, p)))
            = Rules!Moved(Abstract(b), Pt(x), Pt(y), Man(s, p))
      BY PieceGoesLeads
    <3> QED
      BY <3>1
  <2> QED
    BY <2>1, <2>2
<1>4. \A p \in Pieces \ {PAWN} : \A x \in b.position[s][p] :
        piece_attacks(b, p, x) \ b.position_all[s]
          = (piece_attacks(b, p, x) \cap theirs) \cup (piece_attacks(b, p, x) \ b.occupied)
  <2> SUFFICES ASSUME NEW p \in Pieces \ {PAWN}, NEW x \in b.position[s][p]
               PROVE  \A y \in piece_attacks(b, p, x) : y \notin b.position_all[s] <=> y \in theirs \/ y \notin b.occupied
    BY <1>1, Others
  <2>1. x \in Squares
    <3>1. s \in Colors
      BY DEF Boards
    <3> QED
      BY <3>1 DEF Boards
  <2>2. \A y \in piece_attacks(b, p, x) : y \in Squares
    BY <2>1, AttackBack
  <2> QED
    BY <1>1, <2>2, Others
<1>5. (\E m : PieceTakes(b, m) /\ q = Abstract(make_move(b, m))) <=>
        \E p \in Pieces \ {PAWN} : \E x \in b.position[s][p] :
          \E y \in piece_attacks(b, p, x) \cap theirs :
            q = Abstract(make_move(b, Capture(x, y, p, piece_at(b, y))))
  BY DEF PieceTakes
<1>6. (\E m : PieceGoes(b, m) /\ q = Abstract(make_move(b, m))) <=>
        \E p \in Pieces \ {PAWN} : \E x \in b.position[s][p] :
          \E y \in piece_attacks(b, p, x) \ b.occupied :
            q = Abstract(make_move(b, Normal(x, y, p)))
  BY DEF PieceGoes
<1> HIDE DEF Goal, theirs, s
<1> QED
  BY <1>2, <1>3, <1>4, <1>5, <1>6

\* A pawn of the rules that arrives, promoted or not.
LEMMA PawnToIs ==
  ASSUME NEW b \in Boards, Fit(b), NEW x \in b.position[b.side][PAWN], NEW y \in Squares,
         RNK(y) = RNK(x) + (IF b.side = WHITE THEN 1 ELSE -1), NEW q
  PROVE  q \in Rules!PawnTo(Abstract(b), Pt(x), Pt(y)) <=>
           IF x \in BeforePromotion(b.side)
             THEN \E p \in Promoted : q = Rules!Moved(Abstract(b), Pt(x), Pt(y), Man(b.side, p))
             ELSE q = Rules!Moved(Abstract(b), Pt(x), Pt(y), Man(b.side, PAWN))
<1> DEFINE s == b.side
           P == Abstract(b)
           To(man) == Rules!Moved(P, Pt(x), Pt(y), man)
<1>1. s \in Colors /\ x \in Squares /\ PAWN \in Pieces /\ Sound(b)
      /\ RNK(x) \in 1 .. 6 /\ (x \in BeforePromotion(s) <=> RNK(x) = (IF s = WHITE THEN 6 ELSE 1))
  <2>1. s \in Colors /\ PawnsWithin(b)
    BY DEF Boards, Fit
  <2> QED
    BY <2>1, PawnPlace, PieceNames DEF Fit
<1>2. P.turn = Colour(s)
  BY AbstractIs
<1>3. Rules!HomeRank(Rules!Other(P.turn)) = IF s = WHITE THEN 7 ELSE 0
  BY <1>1, <1>2 DEF Rules!HomeRank, Rules!Other, Colour, Colors, WHITE, BLACK
<1>4. Pt(y)[2] = Rules!HomeRank(Rules!Other(P.turn)) <=> x \in BeforePromotion(s)
  <2>1. Pt(y)[2] = RNK(y)
    BY DEF Pt
  <2> QED
    BY <1>1, <1>3, <2>1
<1>5. P.at[Pt(x)] = Man(s, PAWN)
  BY <1>1, Stands
<1>6. {"knight", "bishop", "rook", "queen"} = {Kind[p] : p \in Promoted}
  BY NamesAre DEF Promoted
<1>7. \A p : Rules!Man(P.turn, Kind[p]) = Man(s, p)
  BY <1>2 DEF Man
<1> HIDE DEF P
<1>8. Rules!PawnTo(P, Pt(x), Pt(y)) =
        IF x \in BeforePromotion(s)
          THEN {To(Rules!Man(P.turn, k)) : k \in {Kind[p] : p \in Promoted}} ELSE {To(Man(s, PAWN))}
  BY <1>4, <1>5, <1>6 DEF Rules!PawnTo
<1> HIDE DEF To, s
<1> DEFINE F(k) == To(Rules!Man(P.turn, k))
           K == {Kind[p] : p \in Promoted}
<1>9. (q \in {F(k) : k \in K}) <=> \E p \in Promoted : q = To(Man(s, p))
  <2>1. q \in {F(k) : k \in K} <=> \E k \in K : q = F(k)
    <3> HIDE DEF F, K
    <3> QED
      OBVIOUS
  <2>2. \A p \in Promoted : Kind[p] \in K /\ F(Kind[p]) = To(Man(s, p))
    BY <1>7
  <2>3. \A k \in K : \E p \in Promoted : k = Kind[p]
    OBVIOUS
  <2> HIDE DEF F, K
  <2> QED
    BY <2>1, <2>2, <2>3
<1>10. q \in {To(Man(s, PAWN))} <=> q = To(Man(s, PAWN))
  OBVIOUS
<1>11. q \in Rules!PawnTo(P, Pt(x), Pt(y)) <=>
         IF x \in BeforePromotion(s) THEN q \in {F(k) : k \in K} ELSE q \in {To(Man(s, PAWN))}
  BY <1>8
<1>12. q \in Rules!PawnTo(P, Pt(x), Pt(y)) <=>
         IF x \in BeforePromotion(s) THEN \E p \in Promoted : q = To(Man(s, p))
         ELSE q = To(Man(s, PAWN))
  BY <1>9, <1>10, <1>11
<1> QED
  BY <1>12 DEF To, P, s

\* The moves of one pawn.
FromHere(b, x, m) ==
  \/ /\ x \in BeforePromotion(b.side)
     /\ \E y \in pawn_captures(b, x, b.side) \cap b.position_all[XSIDE(b.side)] :
          \E q \in Promoted : m = PromotionCapture(x, y, q, piece_at(b, y))
  \/ /\ x \in BeforePromotion(b.side)
     /\ \E y \in pawn_noncaptures(b, x, b.side) : \E q \in Promoted : m = Promotion(x, y, q)
  \/ /\ x \notin BeforePromotion(b.side)
     /\ \E y \in pawn_captures(b, x, b.side) \cap b.position_all[XSIDE(b.side)] :
          m = Capture(x, y, PAWN, piece_at(b, y))
  \/ /\ x \notin BeforePromotion(b.side)
     /\ b.epsq \in pawn_captures(b, x, b.side) /\ m = EnPassant(x, b.epsq)
  \/ /\ x \notin BeforePromotion(b.side)
     /\ \E y \in pawn_noncaptures(b, x, b.side) : m = Normal(x, y, PAWN)

LEMMA PawnsFromHere ==
  ASSUME NEW b, NEW m
  PROVE  PawnTakesUp(b, m) \/ PawnGoesUp(b, m) \/ PawnTakesMan(b, m) \/ PawnPasses(b, m)
           \/ PawnSteps(b, m) <=> \E x \in b.position[b.side][PAWN] : FromHere(b, x, m)
BY DEF FromHere, PawnTakesUp, PawnGoesUp, PawnTakesMan, PawnPasses, PawnSteps

\* The taking moves of a pawn are those of the rules.
LEMMA PawnTakings ==
  ASSUME NEW b \in Boards, Fit(b), NEW x \in b.position[b.side][PAWN], NEW q
  PROVE  (\E v \in Rules!Takes(Abstract(b).at, Pt(x)) \cap
                     Rules!Of(Abstract(b).at, Rules!Other(Abstract(b).turn)) :
            q \in Rules!PawnTo(Abstract(b), Pt(x), v)) <=>
         \E y \in pawn_captures(b, x, b.side) \cap b.position_all[XSIDE(b.side)] :
           IF x \in BeforePromotion(b.side)
             THEN \E p \in Promoted :
                    q = Abstract(make_move(b, PromotionCapture(x, y, p, piece_at(b, y))))
             ELSE q = Abstract(make_move(b, Capture(x, y, PAWN, piece_at(b, y))))
<1> DEFINE s == b.side
           P == Abstract(b)
           theirs == b.position_all[XSIDE(s)]
           Hits == pawn_captures(b, x, s) \cap theirs
           Aims == Rules!Takes(P.at, Pt(x)) \cap Rules!Of(P.at, Rules!Other(P.turn))
           To(y, p) == Rules!Moved(P, Pt(x), Pt(y), Man(s, p))
<1>1. /\ s \in Colors /\ XSIDE(s) \in Colors /\ x \in Squares /\ PAWN \in Pieces /\ Sound(b)
      /\ P.turn = Colour(s) /\ Rules!Other(P.turn) = Colour(XSIDE(s))
  <2>1. s \in Colors /\ P.turn = Colour(s)
    BY AbstractIs DEF Boards
  <2> QED
    BY <2>1, NamesAre, PieceNames DEF Fit, Boards
<1>2. \A y \in Hits : y \in Squares /\ Pt(y) \in Aims
                      /\ RNK(y) = RNK(x) + (IF s = WHITE THEN 1 ELSE -1)
  <2> SUFFICES ASSUME NEW y \in Hits
               PROVE  y \in Squares /\ Pt(y) \in Aims
                      /\ RNK(y) = RNK(x) + (IF s = WHITE THEN 1 ELSE -1)
    OBVIOUS
  <2>1. y \in pawn_capt_bb[s][x] /\ y \in theirs
    BY DEF pawn_captures
  <2>2. y \in Squares /\ RNK(y) = RNK(x) + (IF s = WHITE THEN 1 ELSE -1)
    BY <1>1, <2>1, PawnTakes
  <2>3. Pt(y) \in Rules!Takes(P.at, Pt(x))
    BY <1>1, <2>1, <2>2, TakesAre DEF Reach
  <2>4. Pt(y) \in Rules!Of(P.at, Rules!Other(P.turn))
    BY <1>1, <2>1, <2>2, OfIs
  <2> QED
    BY <2>2, <2>3, <2>4
<1>3. \A v \in Aims : \E y \in Hits : v = Pt(y)
  <2> SUFFICES ASSUME NEW v \in Aims PROVE \E y \in Hits : v = Pt(y)
    OBVIOUS
  <2>1. PICK y \in theirs : y \in Squares /\ v = Pt(y)
    BY <1>1, OfIs
  <2>2. y \in pawn_capt_bb[s][x]
    BY <1>1, <2>1, TakesAre DEF Reach
  <2>3. y \in b.occupied
    BY <1>1, <2>1, Others, MenOccupy
  <2> QED
    BY <2>1, <2>2, <2>3 DEF pawn_captures
<1> DEFINE Made(y) == IF x \in BeforePromotion(s)
                        THEN \E p \in Promoted :
                               q = Abstract(make_move(b, PromotionCapture(x, y, p, piece_at(b, y))))
                        ELSE q = Abstract(make_move(b, Capture(x, y, PAWN, piece_at(b, y))))
<1>4. ASSUME NEW y \in Hits
      PROVE  q \in Rules!PawnTo(P, Pt(x), Pt(y)) <=> Made(y)
  <2>1. q \in Rules!PawnTo(P, Pt(x), Pt(y)) <=>
          IF x \in BeforePromotion(s) THEN \E p \in Promoted : q = To(y, p) ELSE q = To(y, PAWN)
    BY <1>2, PawnToIs
  <2>2. \A p \in Promoted : Abstract(make_move(b, PromotionCapture(x, y, p, piece_at(b, y)))) = To(y, p)
    BY PawnTakesLeads
  <2>3. x \notin BeforePromotion(s) =>
          Abstract(make_move(b, Capture(x, y, PAWN, piece_at(b, y)))) = To(y, PAWN)
    BY PawnTakesLeads
  <2> HIDE DEF To
  <2> QED
    BY <2>1, <2>2, <2>3
<1> HIDE DEF P, Hits, Aims, Made
<1>5. (\E v \in Aims : q \in Rules!PawnTo(P, Pt(x), v)) <=> \E y \in Hits : Made(y)
  BY <1>2, <1>3, <1>4
<1> QED
  BY <1>5 DEF P, Hits, Aims, Made

\* A step to the next square, a step over it, and the passing pawn's loss.
LEMMA PawnSteppings ==
  ASSUME NEW b \in Boards, Fit(b), NEW x \in b.position[b.side][PAWN], NEW q
  PROVE  LET P == Abstract(b)
         IN  P.at[Rules!OneAhead(P, Pt(x))] = Rules!Empty
               /\ q \in Rules!PawnTo(P, Pt(x), Rules!OneAhead(P, Pt(x))) <=>
                Ahead(b.side, x) \notin b.occupied /\
                (IF x \in BeforePromotion(b.side)
                   THEN \E p \in Promoted :
                          q = Abstract(make_move(b, Promotion(x, Ahead(b.side, x), p)))
                   ELSE q = Abstract(make_move(b, Normal(x, Ahead(b.side, x), PAWN))))
<1> DEFINE s == b.side
           P == Abstract(b)
           y == Ahead(s, x)
           To(p) == Rules!Moved(P, Pt(x), Pt(y), Man(s, p))
<1>1. /\ s \in Colors /\ x \in Squares /\ PAWN \in Pieces /\ Sound(b) /\ PawnsWithin(b)
      /\ RNK(x) \in 1 .. 6 /\ x = 8 * RNK(x) + FIL(x) /\ FIL(x) \in 0 .. 7
  <2>1. s \in Colors /\ PawnsWithin(b)
    BY DEF Fit, Boards
  <2>2. x \in Squares /\ RNK(x) \in 1 .. 6
    BY <2>1, PawnPlace
  <2> QED
    BY <2>1, <2>2, RankOf, PieceNames DEF Fit
<1>2. y \in Squares /\ Rules!OneAhead(P, Pt(x)) = Pt(y)
  BY <1>1, AheadIs
<1>3. P.at[Pt(y)] = Rules!Empty <=> y \notin b.occupied
  BY <1>1, <1>2, Stands
<1>4. RNK(y) = RNK(x) + (IF s = WHITE THEN 1 ELSE -1)
  <2>1. /\ RNK(y) \in 0 .. 7 /\ FIL(y) \in 0 .. 7 /\ y = 8 * RNK(y) + FIL(y)
        /\ y = IF s = WHITE THEN x + 8 ELSE x - 8
    BY <1>2, RankOf DEF Ahead
  <2> DEFINE ry == RNK(y)
             fy == FIL(y)
             rx == RNK(x)
             fx == FIL(x)
  <2>2. /\ ry \in 0 .. 7 /\ fy \in 0 .. 7 /\ rx \in 1 .. 6 /\ fx \in 0 .. 7
        /\ 8 * ry + fy = IF s = WHITE THEN (8 * rx + fx) + 8 ELSE (8 * rx + fx) - 8
    BY <1>1, <2>1
  <2> HIDE DEF ry, fy, rx, fx
  <2>3. ry = rx + (IF s = WHITE THEN 1 ELSE -1)
    BY <2>2
  <2> QED
    BY <2>3 DEF ry, rx
<1>5. q \in Rules!PawnTo(P, Pt(x), Pt(y)) <=>
        IF x \in BeforePromotion(s) THEN \E p \in Promoted : q = To(p) ELSE q = To(PAWN)
  BY <1>2, <1>4, PawnToIs
<1>6. ASSUME y \notin b.occupied
      PROVE  /\ x \in BeforePromotion(s) =>
                  \A p \in Promoted : Abstract(make_move(b, Promotion(x, y, p))) = To(p)
             /\ x \notin BeforePromotion(s) => Abstract(make_move(b, Normal(x, y, PAWN))) = To(PAWN)
  <2>1. y \in pawn_noncaptures(b, x, s)
    BY <1>1, <1>6, StepsAre
  <2>2. x \in BeforePromotion(s) =>
          \A p \in Promoted : Abstract(make_move(b, Promotion(x, y, p))) = To(p)
    BY <2>1, PawnGoesLeads
  <2>3. x \notin BeforePromotion(s) =>
          Abstract(make_move(b, Normal(x, y, PAWN))) = Then(b, Normal(x, y, PAWN), PAWN)
    BY <2>1, PawnGoesLeads
  <2>4. Then(b, Normal(x, y, PAWN), PAWN) = To(PAWN)
    <3> DEFINE m == Normal(x, y, PAWN)
    <3>1. m.from = x /\ m.to = y
      BY <1>1, <1>2, NormalParts
    <3>2. y - x \notin {16, -16}
      BY <1>1 DEF Ahead, Squares
    <3> HIDE DEF m, y
    <3>3. EpSquare(m) = NO_SQUARE
      BY <3>1, <3>2 DEF EpSquare
    <3> QED
      BY <3>1, <3>3, ThenIs DEF m
  <2> QED
    BY <2>2, <2>3, <2>4
<1> HIDE DEF P, y, To
<1>7. P.at[Rules!OneAhead(P, Pt(x))] = Rules!Empty
        /\ q \in Rules!PawnTo(P, Pt(x), Rules!OneAhead(P, Pt(x))) <=>
      y \notin b.occupied /\
      (IF x \in BeforePromotion(s)
         THEN \E p \in Promoted : q = Abstract(make_move(b, Promotion(x, y, p)))
         ELSE q = Abstract(make_move(b, Normal(x, y, PAWN))))
  BY <1>2, <1>3, <1>5, <1>6
<1> QED
  BY <1>7 DEF P, y

LEMMA PawnDouble ==
  ASSUME NEW b \in Boards, Fit(b), NEW x \in b.position[b.side][PAWN], NEW q
  PROVE  LET P == Abstract(b)
             start == Pt(x)[2] = Rules!HomeRank(P.turn) + Rules!Forward(P.turn)
             one == Rules!OneAhead(P, Pt(x))
             two == Rules!TwoAhead(P, Pt(x))
             y == TwiceAhead(b.side, x)
         IN  start /\ P.at[one] = Rules!Empty /\ P.at[two] = Rules!Empty
               /\ q = [Rules!Moved(P, Pt(x), two, P.at[Pt(x)]) EXCEPT !.ep = one] <=>
             RNK(x) = StartRank(b.side) /\ Ahead(b.side, x) \notin b.occupied /\ y \notin b.occupied
               /\ q = Abstract(make_move(b, Normal(x, y, PAWN)))
<1> DEFINE s == b.side
           P == Abstract(b)
           start == Pt(x)[2] = Rules!HomeRank(P.turn) + Rules!Forward(P.turn)
           one == Rules!OneAhead(P, Pt(x))
           two == Rules!TwoAhead(P, Pt(x))
           w == Ahead(s, x)
           y == TwiceAhead(s, x)
           m == Normal(x, y, PAWN)
<1>1. /\ s \in Colors /\ x \in Squares /\ PAWN \in Pieces /\ Sound(b) /\ PawnsWithin(b)
  <2>1. s \in Colors /\ PawnsWithin(b)
    BY DEF Fit, Boards
  <2> QED
    BY <2>1, PawnPlace, PieceNames DEF Fit
<1>2. start <=> RNK(x) = StartRank(s)
  BY <1>1, AheadIs
<1>3. w \in Squares /\ one = Pt(w)
  BY <1>1, AheadIs
<1>4. start => y \in Squares /\ two = Pt(y)
  BY <1>1, <1>2, AheadIs
<1>5. P.at[one] = Rules!Empty <=> w \notin b.occupied
  BY <1>1, <1>3, Stands
<1>6. start => (P.at[two] = Rules!Empty <=> y \notin b.occupied)
  BY <1>1, <1>4, Stands
<1>7. P.at[Pt(x)] = Man(s, PAWN)
  BY <1>1, Stands
<1>8. ASSUME start, w \notin b.occupied, y \notin b.occupied
      PROVE  Abstract(make_move(b, m)) =
               [Rules!Moved(P, Pt(x), Pt(y), Man(s, PAWN)) EXCEPT !.ep = Pt(w)]
  <2>1. y \in pawn_noncaptures(b, x, s)
    BY <1>1, <1>2, <1>8, StepsAre
  <2>2. x \notin BeforePromotion(s)
    <3>1. RNK(x) = StartRank(s)
      BY <1>2, <1>8
    <3> QED
      BY <1>1, <3>1, PawnPlace DEF StartRank
  <2>3. Abstract(make_move(b, m)) = Then(b, m, PAWN)
    BY <2>1, <2>2, PawnGoesLeads
  <2>4. m.from = x /\ m.to = y /\ ptype(m) = PAWN
    BY <1>1, <1>4, <1>8, NormalParts
  <2> HIDE DEF m
  <2>5. EpSquare(m) = w
    <3>1. x \in Int
      BY <1>1 DEF Squares
    <3>2. CASE s = WHITE
      <4>1. y = x + 16 /\ w = x + 8
        BY <3>2 DEF Ahead, TwiceAhead
      <4>2. y - x = 16 /\ y - 8 = w
        BY <3>1, <4>1
      <4> HIDE DEF y, w
      <4> QED
        BY <2>4, <4>2 DEF EpSquare
    <3>3. CASE s # WHITE
      <4>1. y = x - 16 /\ w = x - 8
        BY <3>3 DEF Ahead, TwiceAhead
      <4>2. y - x = -16 /\ y - x # 16 /\ y + 8 = w
        BY <3>1, <4>1
      <4> HIDE DEF y, w
      <4> QED
        BY <2>4, <4>2 DEF EpSquare
    <3> QED
      BY <3>2, <3>3
  <2>6. w # NO_SQUARE
    BY <1>3 DEF Squares, NO_SQUARE
  <2> HIDE DEF w, y
  <2>7. Then(b, m, PAWN) =
          [Rules!Moved(P, Pt(x), Pt(y), Man(s, PAWN)) EXCEPT !.ep = Pt(w)]
    BY <2>4, <2>5, <2>6 DEF Then
  <2> QED
    BY <2>3, <2>7
<1> HIDE DEF start, one, two, w, y, m, P
<1>9. start /\ P.at[one] = Rules!Empty /\ P.at[two] = Rules!Empty
        /\ q = [Rules!Moved(P, Pt(x), two, P.at[Pt(x)]) EXCEPT !.ep = one] <=>
      RNK(x) = StartRank(s) /\ w \notin b.occupied /\ y \notin b.occupied
        /\ q = Abstract(make_move(b, m))
  BY <1>2, <1>3, <1>4, <1>5, <1>6, <1>7, <1>8
<1> QED
  BY <1>9 DEF start, one, two, w, y, m, P

LEMMA PawnPassings ==
  ASSUME NEW b \in Boards, Fit(b), NEW x \in b.position[b.side][PAWN], NEW q
  PROVE  LET P == Abstract(b)
         IN  P.ep \in Rules!Takes(P.at, Pt(x))
               /\ q = [Rules!Moved(P, Pt(x), P.ep, P.at[Pt(x)])
                         EXCEPT !.at[<<P.ep[1], Pt(x)[2]>>] = Rules!Empty] <=>
             x \notin BeforePromotion(b.side) /\ b.epsq \in pawn_captures(b, x, b.side)
               /\ q = Abstract(make_move(b, EnPassant(x, b.epsq)))
<1> DEFINE s == b.side
           P == Abstract(b)
           e == b.epsq
<1>1. /\ s \in Colors /\ x \in Squares /\ PAWN \in Pieces /\ Sound(b)
  <2>1. s \in Colors /\ PawnsWithin(b)
    BY DEF Fit, Boards
  <2> QED
    BY <2>1, PawnPlace, PieceNames DEF Fit
<1>2. P.ep = IF e = NO_SQUARE THEN Rules!None ELSE Pt(e)
  BY AbstractIs
<1>3. e \in Squares \/ e = NO_SQUARE
  BY DEF Boards
<1>4. NO_SQUARE \notin Squares
  BY DEF Squares, NO_SQUARE
<1>5. Rules!Takes(P.at, Pt(x)) = {Pt(y) : y \in pawn_capt_bb[s][x] \cap Squares}
  BY <1>1, TakesOnBoard DEF Reach
<1>6. \A y : Rules!None # Pt(y)
  BY DEF Rules!None, Pt
<1>7. e \in pawn_captures(b, x, s) <=> e \in pawn_capt_bb[s][x]
  BY DEF pawn_captures
<1>8. e \in pawn_capt_bb[s][x] => e \in Squares
  BY <1>1, PawnTakes
<1>9. P.ep \in Rules!Takes(P.at, Pt(x)) <=> e \in pawn_captures(b, x, s)
  <2>1. CASE e = NO_SQUARE
    BY <1>2, <1>4, <1>5, <1>6, <1>7, <1>8, <2>1
  <2>2. CASE e \in Squares
    <3>1. P.ep = Pt(e)
      BY <1>2, <1>4, <2>2
    <3>2. Pt(e) \in Rules!Takes(P.at, Pt(x)) <=> e \in pawn_capt_bb[s][x]
      BY <1>1, <2>2, TakesAre DEF Reach
    <3> QED
      BY <1>7, <3>1, <3>2
  <2> QED
    BY <1>3, <2>1, <2>2
<1>10. P.at[Pt(x)] = Man(s, PAWN)
  BY <1>1, Stands
<1>11. ASSUME e \in pawn_captures(b, x, s)
       PROVE  /\ x \notin BeforePromotion(s) /\ P.ep = Pt(e)
              /\ Abstract(make_move(b, EnPassant(x, e))) =
                   [Rules!Moved(P, Pt(x), Pt(e), Man(s, PAWN))
                      EXCEPT !.at[<<Pt(e)[1], Pt(x)[2]>>] = Rules!Empty]
  <2>1. x \notin BeforePromotion(s) /\ e # NO_SQUARE
    BY <1>11, PassingPlaces
  <2> QED
    BY <1>2, <1>11, <2>1, PawnPassesLeads
<1> HIDE DEF P, e, s
<1>12. P.ep \in Rules!Takes(P.at, Pt(x))
         /\ q = [Rules!Moved(P, Pt(x), P.ep, P.at[Pt(x)])
                   EXCEPT !.at[<<P.ep[1], Pt(x)[2]>>] = Rules!Empty] <=>
       x \notin BeforePromotion(s) /\ e \in pawn_captures(b, x, s)
         /\ q = Abstract(make_move(b, EnPassant(x, e)))
  <2>1. ASSUME e \in pawn_captures(b, x, s)
        PROVE  [Rules!Moved(P, Pt(x), P.ep, P.at[Pt(x)])
                  EXCEPT !.at[<<P.ep[1], Pt(x)[2]>>] = Rules!Empty]
                 = Abstract(make_move(b, EnPassant(x, e)))
    BY <1>10, <1>11, <2>1
  <2> QED
    BY <1>9, <1>11, <2>1
<1> QED
  BY <1>12 DEF P, e, s

LEMMA PawnIs ==
  ASSUME NEW P, NEW u, NEW q
  PROVE  q \in Rules!Pawn(P, u) <=>
           \/ \E v \in Rules!Takes(P.at, u) \cap Rules!Of(P.at, Rules!Other(P.turn)) :
                q \in Rules!PawnTo(P, u, v)
           \/ P.at[Rules!OneAhead(P, u)] = Rules!Empty /\ q \in Rules!PawnTo(P, u, Rules!OneAhead(P, u))
           \/ /\ u[2] = Rules!HomeRank(P.turn) + Rules!Forward(P.turn)
              /\ P.at[Rules!OneAhead(P, u)] = Rules!Empty /\ P.at[Rules!TwoAhead(P, u)] = Rules!Empty
              /\ q = [Rules!Moved(P, u, Rules!TwoAhead(P, u), P.at[u])
                        EXCEPT !.ep = Rules!OneAhead(P, u)]
           \/ /\ P.ep \in Rules!Takes(P.at, u)
              /\ q = [Rules!Moved(P, u, P.ep, P.at[u]) EXCEPT !.at[<<P.ep[1], u[2]>>] = Rules!Empty]
<1> DEFINE S == Rules!Takes(P.at, u) \cap Rules!Of(P.at, Rules!Other(P.turn))
           T(v) == Rules!PawnTo(P, u, v)
           start == u[2] = Rules!HomeRank(P.turn) + Rules!Forward(P.turn)
           one == Rules!OneAhead(P, u)
           two == Rules!TwoAhead(P, u)
           A == P.at[one] = Rules!Empty
           B == start /\ P.at[one] = Rules!Empty /\ P.at[two] = Rules!Empty
           C == P.ep \in Rules!Takes(P.at, u)
           D == [Rules!Moved(P, u, two, P.at[u]) EXCEPT !.ep = one]
           E == [Rules!Moved(P, u, P.ep, P.at[u]) EXCEPT !.at[<<P.ep[1], u[2]>>] = Rules!Empty]
<1>1. Rules!Pawn(P, u) = (UNION {T(v) : v \in S}) \cup (IF A THEN T(one) ELSE {})
                           \cup (IF B THEN {D} ELSE {}) \cup (IF C THEN {E} ELSE {})
  BY Zenon DEF Rules!Pawn
<1> HIDE DEF S, T, A, B, C, D, E
<1>2. q \in UNION {T(v) : v \in S} <=> \E v \in S : q \in T(v)
  BY Zenon
<1>3. q \in Rules!Pawn(P, u) <=> (\E v \in S : q \in T(v)) \/ (A /\ q \in T(one)) \/ (B /\ q = D)
                                   \/ (C /\ q = E)
  BY <1>1, <1>2
<1> QED
  BY <1>3 DEF S, T, A, B, C, D, E

LEMMA PawnMove ==
  ASSUME NEW b \in Boards, Fit(b), NEW x \in b.position[b.side][PAWN], NEW q
  PROVE  q \in Rules!Pawn(Abstract(b), Pt(x)) <=>
           \E m : FromHere(b, x, m) /\ q = Abstract(make_move(b, m))
<1> DEFINE s == b.side
           P == Abstract(b)
           u == Pt(x)
           last == x \in BeforePromotion(s)
           theirs == b.position_all[XSIDE(s)]
           Hits == pawn_captures(b, x, s)
           w == Ahead(s, x)
           z == TwiceAhead(s, x)
           G(m) == q = Abstract(make_move(b, m))
           Taking == \E y \in Hits \cap theirs :
                       IF last THEN \E p \in Promoted : G(PromotionCapture(x, y, p, piece_at(b, y)))
                       ELSE G(Capture(x, y, PAWN, piece_at(b, y)))
           Stepping == w \notin b.occupied /\
                       (IF last THEN \E p \in Promoted : G(Promotion(x, w, p)) ELSE G(Normal(x, w, PAWN)))
           Doubling == RNK(x) = StartRank(s) /\ w \notin b.occupied /\ z \notin b.occupied
                         /\ G(Normal(x, z, PAWN))
           Passing == ~last /\ b.epsq \in Hits /\ G(EnPassant(x, b.epsq))
<1>1. s \in Colors /\ x \in Squares /\ (last => RNK(x) # StartRank(s))
  <2>1. s \in Colors /\ PawnsWithin(b)
    BY DEF Fit, Boards
  <2>2. x \in Squares /\ (last <=> RNK(x) = (IF s = WHITE THEN 6 ELSE 1))
    BY <2>1, PawnPlace
  <2> QED
    BY <2>1, <2>2 DEF StartRank
<1>2. (\E v \in Rules!Takes(P.at, u) \cap Rules!Of(P.at, Rules!Other(P.turn)) :
         q \in Rules!PawnTo(P, u, v)) <=> Taking
  BY Zenon, PawnTakings
<1>3. P.at[Rules!OneAhead(P, u)] = Rules!Empty
        /\ q \in Rules!PawnTo(P, u, Rules!OneAhead(P, u)) <=> Stepping
  BY Zenon, PawnSteppings
<1>4. u[2] = Rules!HomeRank(P.turn) + Rules!Forward(P.turn)
        /\ P.at[Rules!OneAhead(P, u)] = Rules!Empty /\ P.at[Rules!TwoAhead(P, u)] = Rules!Empty
        /\ q = [Rules!Moved(P, u, Rules!TwoAhead(P, u), P.at[u])
                  EXCEPT !.ep = Rules!OneAhead(P, u)] <=> Doubling
  BY Zenon, PawnDouble
<1>5. P.ep \in Rules!Takes(P.at, u)
        /\ q = [Rules!Moved(P, u, P.ep, P.at[u]) EXCEPT !.at[<<P.ep[1], u[2]>>] = Rules!Empty]
        <=> Passing
  BY Zenon, PawnPassings
<1>6. q \in Rules!Pawn(P, u) <=> Taking \/ Stepping \/ Doubling \/ Passing
  <2> HIDE DEF P, u, Taking, Stepping, Doubling, Passing
  <2> QED
    BY <1>2, <1>3, <1>4, <1>5, PawnIs
<1>7. \A y : y \in pawn_noncaptures(b, x, s) <=>
           \/ y = w /\ w \notin b.occupied
           \/ y = z /\ RNK(x) = StartRank(s) /\ w \notin b.occupied /\ z \notin b.occupied
  BY <1>1, StepsAre
<1> HIDE DEF P, u, w, z
<1>8. (\E m : FromHere(b, x, m) /\ G(m)) <=>
        \/ last /\ \E y \in Hits \cap theirs : \E p \in Promoted :
             G(PromotionCapture(x, y, p, piece_at(b, y)))
        \/ last /\ \E y \in pawn_noncaptures(b, x, s) : \E p \in Promoted : G(Promotion(x, y, p))
        \/ ~last /\ \E y \in Hits \cap theirs : G(Capture(x, y, PAWN, piece_at(b, y)))
        \/ Passing
        \/ ~last /\ \E y \in pawn_noncaptures(b, x, s) : G(Normal(x, y, PAWN))
  <2> HIDE DEF G
  <2> QED
    BY DEF FromHere
<1> HIDE DEF G, last, Hits, theirs
<1>9. Taking <=> \/ last /\ \E y \in Hits \cap theirs : \E p \in Promoted :
                      G(PromotionCapture(x, y, p, piece_at(b, y)))
                 \/ ~last /\ \E y \in Hits \cap theirs : G(Capture(x, y, PAWN, piece_at(b, y)))
  OBVIOUS
<1>10. Stepping \/ Doubling <=>
         \/ last /\ \E y \in pawn_noncaptures(b, x, s) : \E p \in Promoted : G(Promotion(x, y, p))
         \/ ~last /\ \E y \in pawn_noncaptures(b, x, s) : G(Normal(x, y, PAWN))
  BY <1>1, <1>7
<1> HIDE DEF Taking, Stepping, Doubling, Passing
<1>11. q \in Rules!Pawn(P, u) <=> \E m : FromHere(b, x, m) /\ G(m)
  BY <1>6, <1>8, <1>9, <1>10
<1> QED
  BY <1>11 DEF P, u, G

\* The moves of all pawns.
LEMMA PawnMoves ==
  ASSUME NEW b \in Boards, Fit(b), NEW q
  PROVE  q \in Rules!Pawns(Abstract(b)) <=>
           \E m : /\ \/ PawnTakesUp(b, m) \/ PawnGoesUp(b, m) \/ PawnTakesMan(b, m)
                     \/ PawnPasses(b, m) \/ PawnSteps(b, m)
                  /\ q = Abstract(make_move(b, m))
<1> DEFINE P == Abstract(b)
           s == b.side
           S == {u \in Rules!Of(P.at, P.turn) : P.at[u].kind = "pawn"}
           T(u) == Rules!Pawn(P, u)
<1>1. s \in Colors /\ PAWN \in Pieces /\ Kind[PAWN] = "pawn" /\ Sound(b)
      /\ \A p \in Pieces : p # PAWN => Kind[p] # "pawn"
  BY PieceNames, NamesAre DEF Boards, Fit
<1>2. P.turn = Colour(s)
  BY AbstractIs
<1>3. \A u : u \in S <=> \E x \in b.position[s][PAWN] : u = Pt(x)
  <2>1. ASSUME NEW u \in S PROVE \E x \in b.position[s][PAWN] : u = Pt(x)
    <3>1. PICK x \in b.position_all[s] : x \in Squares /\ u = Pt(x)
      BY <1>1, <1>2, OfIs
    <3>2. PICK p \in Pieces : x \in b.position[s][p] /\ P.at[u].kind = Kind[p]
      BY <1>1, <3>1, ManIs
    <3>3. p = PAWN
      BY <1>1, <3>2
    <3> QED
      BY <3>1, <3>2, <3>3
  <2>2. ASSUME NEW x \in b.position[s][PAWN] PROVE Pt(x) \in S
    <3>1. x \in Squares /\ x \in b.position_all[s] /\ P.at[Pt(x)] = Man(s, PAWN)
      <4>1. x \in Squares
        BY <1>1 DEF Boards
      <4> QED
        BY <1>1, <4>1, Stands, MenOccupy
    <3>2. Pt(x) \in Rules!Of(P.at, P.turn)
      BY <1>1, <1>2, <3>1, OfIs
    <3>3. P.at[Pt(x)].kind = "pawn"
      BY <1>1, <3>1, ManFacts
    <3> QED
      BY <3>2, <3>3
  <2> HIDE DEF S
  <2> QED
    BY <2>1, <2>2
<1>4. Rules!Pawns(P) = UNION {T(u) : u \in S}
  BY Zenon DEF Rules!Pawns
<1> HIDE DEF S, T
<1>5. q \in UNION {T(u) : u \in S} <=> \E u \in S : q \in T(u)
  BY Zenon
<1>6. q \in Rules!Pawns(P) <=> \E x \in b.position[s][PAWN] : q \in T(Pt(x))
  BY <1>3, <1>4, <1>5
<1>7. \A x \in b.position[s][PAWN] :
        q \in T(Pt(x)) <=> \E m : FromHere(b, x, m) /\ q = Abstract(make_move(b, m))
  BY PawnMove DEF T
<1> HIDE DEF P
<1>8. q \in Rules!Pawns(P) <=>
        \E m : (\E x \in b.position[s][PAWN] : FromHere(b, x, m)) /\ q = Abstract(make_move(b, m))
  BY <1>6, <1>7
<1> QED
  BY <1>8, PawnsFromHere DEF P

-----------------------------------------------------------------------------
(***************************************************************************)
(* Castling.  The rules forbid the king's way to be attacked before the     *)
(* move; the code tests the first two squares before it and the last one    *)
(* after it.  King and rook hide no attack on the last square: whoever      *)
(* attacks it, attacks it still when they have moved.                       *)
(***************************************************************************)
LEMMA StepApart ==
  ASSUME NEW f \in Units, NEW r \in Units, ~(f = 0 /\ r = 0), NEW n \in 1 .. 7, NEW j \in 1 .. n - 1,
         NEW a \in Int, NEW c \in Int, NEW e \in {-1, 1}
  PROVE  /\ ~(a + j * f = a + n * f /\ c + j * r = c + n * r)
         /\ a + j * f + e = a + n * f /\ c + j * r = c + n * r =>
              r = 0 /\ f = e /\ j = n - 1 /\ a + (j - 1) * f = a + j * f - e
<1>1. j \in Int /\ n \in Int /\ 1 <= j /\ j < n
  OBVIOUS
<1>2. /\ j * (-1) = 0 - j /\ j * 0 = 0 /\ j * 1 = j
      /\ n * (-1) = 0 - n /\ n * 0 = 0 /\ n * 1 = n
      /\ (j - 1) * (-1) = 1 - j /\ (j - 1) * 1 = j - 1
  BY <1>1
<1>3. (f = -1 \/ f = 0 \/ f = 1) /\ (r = -1 \/ r = 0 \/ r = 1)
  BY DEF Units
<1>4. CASE r # 0
  <2>1. j * r # n * r /\ j * r \in Int /\ n * r \in Int
    BY <1>1, <1>2, <1>3, <1>4
  <2> DEFINE jr == j * r
             nr == n * r
  <2> HIDE DEF jr, nr
  <2>2. c + jr # c + nr
    BY <2>1 DEF jr, nr
  <2> QED
    BY <1>4, <2>2 DEF jr, nr
<1>5. CASE r = 0 /\ f = 1
  BY <1>1, <1>2, <1>5
<1>6. CASE r = 0 /\ f = -1
  BY <1>1, <1>2, <1>6
<1> QED
  BY <1>3, <1>4, <1>5, <1>6

LEMMA LineHeld ==
  ASSUME NEW at, NEW bt, NEW h \in 0 .. 7, NEW e \in {-1, 1}, NEW x \in Squares,
         NEW f \in Units, NEW r \in Units, ~(f = 0 /\ r = 0),
         at[<<4, h>>] # Rules!Empty, Pt(x) # <<4, h>>,
         \A u \in Rules!Squares \ {<<4 + e, h>>, <<4 + e + e, h>>} :
           at[u] = Rules!Empty => bt[u] = Rules!Empty,
         <<4 + e + e, h>> \in LineTo(at, Pt(x), <<f, r>>)
  PROVE  <<4 + e + e, h>> \in LineTo(bt, Pt(x), <<f, r>>)
<1> DEFINE s == Pt(x)
           d == <<f, r>>
           t == <<4 + e + e, h>>
           w == <<4 + e, h>>
           k == <<4, h>>
<1>1. PICK n \in 1 .. 7 : /\ t = Rules!Plus(s, d, n) /\ Rules!Plus(s, d, n) \in Rules!Squares
                          /\ \A j \in 1 .. n - 1 : at[Rules!Plus(s, d, j)] = Rules!Empty
  <2> HIDE DEF s, d, t
  <2> QED
    BY DEF LineTo, s, d, t
<1>2. FIL(x) \in Int /\ RNK(x) \in Int /\ f \in Int /\ r \in Int /\ e \in Int /\ h \in Int
  BY RankOf DEF Units
<1>3. \A i \in Int : Rules!Plus(s, d, i) = <<FIL(x) + i * f, RNK(x) + i * r>>
  BY <1>2, PlusIs
<1>4. ASSUME NEW j \in 1 .. n - 1 PROVE bt[Rules!Plus(s, d, j)] = Rules!Empty
  <2>1. Rules!Plus(s, d, j) \in Rules!Squares
    <3>1. j \in 1 .. n
      OBVIOUS
    <3>2. x + j * (8 * r + f) \in Squares /\ Pt(x + j * (8 * r + f)) = Rules!Plus(Pt(x), <<f, r>>, j)
      BY <1>1, <3>1, PlusOnBoard
    <3> DEFINE z == x + j * (8 * r + f)
    <3> HIDE DEF z
    <3>3. Pt(z) \in Rules!Squares
      BY <3>2, PointsAre DEF z
    <3> QED
      BY <3>2, <3>3 DEF z
  <2> DEFINE a == FIL(x)
             c == RNK(x)
  <2>2. Rules!Plus(s, d, j) = <<a + j * f, c + j * r>> /\ t = <<a + n * f, c + n * r>>
    BY <1>1, <1>3
  <2>3. /\ ~(a + j * f = a + n * f /\ c + j * r = c + n * r)
        /\ a + j * f + e = a + n * f /\ c + j * r = c + n * r =>
             r = 0 /\ f = e /\ j = n - 1 /\ a + (j - 1) * f = a + j * f - e
    BY <1>2, StepApart
  <2>4. Rules!Plus(s, d, j) # t
    BY <2>2, <2>3
  <2>5. Rules!Plus(s, d, j) # w
    <3> SUFFICES ASSUME Rules!Plus(s, d, j) = w PROVE FALSE
      OBVIOUS
    <3>1. a + j * f = 4 + e /\ c + j * r = h /\ a + n * f = 4 + e + e /\ c + n * r = h
      BY <2>2
    <3>2. r = 0 /\ f = e /\ a + (j - 1) * f = a + j * f - e
      BY <2>3, <3>1
    <3>3. a + (j - 1) * f = 4
      BY <1>2, <3>1, <3>2
    <3>4. c + (j - 1) * r = h
      <4>1. j * 0 = 0 /\ (j - 1) * 0 = 0
        OBVIOUS
      <4> QED
        BY <3>1, <3>2, <4>1
    <3>5. Rules!Plus(s, d, j - 1) = k
      <4>1. j - 1 \in Int
        OBVIOUS
      <4>2. Rules!Plus(s, d, j - 1) = <<a + (j - 1) * f, c + (j - 1) * r>>
        BY <1>3, <4>1
      <4> QED
        BY <3>3, <3>4, <4>2
    <3>6. CASE j = 1
      <4>1. (1 - 1) * f = 0 /\ (1 - 1) * r = 0
        BY <1>2
      <4>2. a = 4 /\ c = h
        <5>1. a + (1 - 1) * f = 4 /\ c + (1 - 1) * r = h
          BY <3>3, <3>4, <3>6
        <5> QED
          BY <1>2, <4>1, <5>1
      <4> QED
        BY <4>2 DEF Pt
    <3>7. CASE j # 1
      <4>1. j - 1 \in 1 .. n - 1
        BY <3>7
      <4>2. at[Rules!Plus(s, d, j - 1)] = Rules!Empty
        BY <1>1, <4>1
      <4> QED
        BY <3>5, <4>2
    <3> QED
      BY <3>6, <3>7
  <2> HIDE DEF s, d, t, w
  <2> QED
    BY <1>1, <2>1, <2>4, <2>5 DEF t, w
<1> HIDE DEF s, d, t
<1>5. t \in LineTo(bt, s, d)
  BY <1>1, <1>4 DEF LineTo
<1> QED
  BY <1>5 DEF s, d, t

\* Who attacks the square that the king castles to attacks it afterwards.
LEMMA AttackHeld ==
  ASSUME NEW at, NEW bt, NEW h \in 0 .. 7, NEW e \in {-1, 1}, NEW c,
         at[<<4, h>>] # Rules!Empty, at[<<4, h>>].colour # c,
         \A u \in Rules!Squares \ {<<4 + e, h>>, <<4 + e + e, h>>} :
           at[u] = Rules!Empty => bt[u] = Rules!Empty,
         \A u \in Rules!Squares : at[u].colour = c => bt[u] = at[u] /\ at[u].kind \in Rules!Kinds,
         Rules!Attacked(at, <<4 + e + e, h>>, c)
  PROVE  Rules!Attacked(bt, <<4 + e + e, h>>, c)
<1> DEFINE t == <<4 + e + e, h>>
<1>1. PICK s \in Rules!Squares : at[s].colour = c /\ t \in Rules!Takes(at, s)
  BY DEF Rules!Attacked, Rules!Of
<1>2. bt[s] = at[s] /\ at[s].kind \in Rules!Kinds
  BY <1>1
<1>3. t \in Rules!Takes(bt, s)
  <2> DEFINE k == at[s].kind
  <2>1. CASE k = "pawn"
    BY <1>1, <1>2, <2>1 DEF Rules!Takes
  <2>2. CASE k \in {"knight", "king"}
    BY <1>1, <1>2, <2>2 DEF Rules!Takes
  <2>3. CASE k \in {"bishop", "rook", "queen"}
    <3>1. /\ Rules!Takes(at, s) = UNION {LineTo(at, s, d) : d \in Rules!Directions(k)}
          /\ Rules!Takes(bt, s) = UNION {LineTo(bt, s, d) : d \in Rules!Directions(k)}
      BY <1>2, <2>3 DEF Rules!Takes, LineTo
    <3>2. PICK d \in Rules!Directions(k) : t \in LineTo(at, s, d)
      BY <1>1, <3>1
    <3>3. d \in Rules!Compass
      BY DEF Rules!Directions
    <3>4. PICK f \in Units, r \in Units : d = <<f, r>> /\ ~(f = 0 /\ r = 0)
      BY <3>3, CompassIs
    <3>5. PICK x \in Squares : s = Pt(x)
      BY PointsAre
    <3>6. s # <<4, h>>
      BY <1>1
    <3>7. <<4 + e + e, h>> \in LineTo(at, Pt(x), <<f, r>>)
      BY <3>2, <3>4, <3>5
    <3>8. Pt(x) # <<4, h>>
      BY <3>5, <3>6
    <3>9. <<4 + e + e, h>> \in LineTo(bt, Pt(x), <<f, r>>)
      BY <3>4, <3>7, <3>8, LineHeld
    <3>10. t \in LineTo(bt, s, d)
      BY <3>4, <3>5, <3>9
    <3> HIDE DEF t, k
    <3> QED
      BY <3>1, <3>10
  <2> QED
    BY <1>2, <2>1, <2>2, <2>3 DEF Rules!Kinds
<1>4. s \in Rules!Of(bt, c)
  BY <1>1, <1>2 DEF Rules!Of
<1> QED
  BY <1>3, <1>4 DEF Rules!Attacked

LEMMA CastleSteps ==
  ASSUME NEW r \in Sides
  PROVE  \E h \in 0 .. 7 : \E e \in {-1, 1} :
           /\ Pt(Castle[Side[r]].king) = <<4, h>> /\ Pt(Castle[Side[r]].rookto) = <<4 + e, h>>
           /\ Pt(Castle[Side[r]].to) = <<4 + e + e, h>>
<1> DEFINE h == Rules!HomeRank(r[1])
           e == IF r[2] = "short" THEN 1 ELSE -1
<1>1. h \in 0 .. 7 /\ e \in {-1, 1}
  BY DEF Rules!HomeRank
<1>2. /\ Pt(Castle[Side[r]].king) = <<4, h>>
      /\ Pt(Castle[Side[r]].rookto) = <<IF r[2] = "short" THEN 5 ELSE 3, h>>
      /\ Pt(Castle[Side[r]].to) = <<IF r[2] = "short" THEN 6 ELSE 2, h>>
  BY RightIs DEF Rules!KingHome
<1>3. 4 + e = (IF r[2] = "short" THEN 5 ELSE 3) /\ 4 + e + e = (IF r[2] = "short" THEN 6 ELSE 2)
  OBVIOUS
<1> HIDE DEF h, e
<1> QED
  BY <1>1, <1>2, <1>3

\* The test after the move stands for the test of the last square before it.
LEMMA LastSquareTold ==
  ASSUME NEW b \in Boards, Fit(b), NEW r \in Sides, Castle[Side[r]].side = b.side,
         CanCastle(b, Side[r]), ~in_check(b),
         is_attacked(b, Castle[Side[r]].to, XSIDE(b.side))
  PROVE  Rules!InCheck(Abstract(make_move(b, Castling(Castle[Side[r]].king, Castle[Side[r]].to))).at,
                       Colour(b.side))
<1> DEFINE f == Side[r]
           c == Castle[f]
           m == Castling(c.king, c.to)
           t == MovePieces(b, m)
           s == b.side
           x == XSIDE(s)
           at == Abstract(b).at
           bt == Abstract(t).at
<1>1. /\ f \in Flags /\ c.king \in Squares /\ c.to \in Squares /\ c.rook \in Squares
      /\ c.rookto \in Squares
  <2>1. f \in Flags
    BY RightIs
  <2> QED
    BY <2>1, CastleTable
<1>2. /\ Sound(b) /\ FlagsFit(b) /\ s \in Colors /\ x \in Colors /\ x # s
      /\ KING \in Pieces /\ ROOK \in Pieces
  BY PieceNames, NamesAre DEF Fit, Boards
<1>3. f \in b.flags /\ b.occupied \cap ray_bb[c.king][c.rook] = {}
  BY DEF CanCastle
<1>4. HomeMen(b, f)
  BY <1>2, <1>3 DEF FlagsFit, HomeMen
<1>5. c.king \in b.position[s][KING] /\ c.rook \in b.position[s][ROOK]
  BY <1>2, <1>4 DEF HomeMen, Sound, MenTold
<1>6. /\ c.to \notin b.occupied /\ c.rookto \notin b.occupied
  BY <1>1, <1>3, CastleRays
<1>7. Sent(b, m) /\ Fine(b, m)
  BY CastlingLeads
<1>8. Sound(t) /\ t \in Boards
  BY <1>7 DEF Fine, Kept, Sound
<1>9. Abstract(make_move(b, m)) = Led(b, m, bt)
  BY <1>2, <1>7, MoveLeads
<1>10. Abstract(make_move(b, m)).at = bt
  BY <1>9 DEF Led
<1>11. Changed(b, t, {c.king, c.to, c.rook, c.rookto}, {<<s, KING, c.to>>, <<s, ROOK, c.rookto>>})
  BY <1>1, <1>2, <1>3, <1>4, CastlingMen
<1>12. PICK h \in 0 .. 7, e \in {-1, 1} :
         /\ Pt(c.king) = <<4, h>> /\ Pt(c.rookto) = <<4 + e, h>> /\ Pt(c.to) = <<4 + e + e, h>>
  BY CastleSteps
<1>13. Rules!Attacked(at, Pt(c.to), Colour(x))
  BY <1>1, <1>2, AttackedIs
<1>14. at[Pt(c.king)] = Man(s, KING) /\ at[Pt(c.rook)] = Man(s, ROOK)
       /\ at[Pt(c.to)] = Rules!Empty /\ at[Pt(c.rookto)] = Rules!Empty
  <2>1. at[Pt(c.king)] = Man(s, KING)
    BY <1>1, <1>2, <1>5, Stands
  <2>2. at[Pt(c.rook)] = Man(s, ROOK)
    BY <1>1, <1>2, <1>5, Stands
  <2>3. at[Pt(c.to)] = Rules!Empty
    BY <1>1, <1>2, <1>6, Stands
  <2>4. at[Pt(c.rookto)] = Rules!Empty
    BY <1>1, <1>2, <1>6, Stands
  <2> QED
    BY <2>1, <2>2, <2>3, <2>4
<1>15. /\ Man(s, KING) # Rules!Empty /\ Man(s, KING).colour = Colour(s) /\ Man(s, ROOK).colour = Colour(s)
       /\ Rules!Empty.colour # Colour(x) /\ Colour(s) # Colour(x)
  <2>1. Man(s, KING) # Rules!Empty /\ Man(s, KING).colour = Colour(s) /\ Rules!Empty.colour = "none"
    BY <1>2, ManFacts
  <2>2. Man(s, ROOK).colour = Colour(s)
    BY <1>2, ManFacts
  <2> QED
    BY <1>2, <2>1, <2>2, NamesAre
<1>16. ASSUME NEW y \in Squares, y \notin {c.to, c.rookto}
       PROVE  /\ y \notin {c.king, c.rook} => bt[Pt(y)] = at[Pt(y)]
              /\ at[Pt(y)] = Rules!Empty => bt[Pt(y)] = Rules!Empty
  <2> DEFINE gone == {c.king, c.to, c.rook, c.rookto}
             come == {<<s, KING, c.to>>, <<s, ROOK, c.rookto>>}
  <2>1. \A d \in Colors : \A p \in Pieces : <<d, p, y>> \notin come
    BY <1>16
  <2>2. Changed(b, t, gone, come)
    BY <1>11
  <2> HIDE DEF gone, come, at, bt, c, t
  <2>3. /\ y \notin gone => bt[Pt(y)] = at[Pt(y)]
        /\ y \in gone => bt[Pt(y)] = Rules!Empty
    BY <1>2, <1>8, <2>1, <2>2, MapChanged DEF at, bt
  <2>4. y \in gone <=> y \in {c.king, c.rook}
    BY <1>16 DEF gone
  <2> QED
    BY <2>3, <2>4
<1> HIDE DEF at, bt, c
<1>17. \A u \in Rules!Squares \ {<<4 + e, h>>, <<4 + e + e, h>>} :
         at[u] = Rules!Empty => bt[u] = Rules!Empty
  <2> SUFFICES ASSUME NEW u \in Rules!Squares, u # Pt(c.rookto), u # Pt(c.to), at[u] = Rules!Empty
               PROVE  bt[u] = Rules!Empty
    BY <1>12
  <2>1. PICK y \in Squares : u = Pt(y)
    BY PointsAre
  <2> QED
    BY <1>16, <2>1
<1>18. \A u \in Rules!Squares : at[u].colour = Colour(x) => bt[u] = at[u] /\ at[u].kind \in Rules!Kinds
  <2> SUFFICES ASSUME NEW u \in Rules!Squares, at[u].colour = Colour(x)
               PROVE  bt[u] = at[u] /\ at[u].kind \in Rules!Kinds
    OBVIOUS
  <2>1. PICK y \in Squares : u = Pt(y)
    BY PointsAre
  <2>2. y \notin {c.king, c.rook, c.to, c.rookto}
    BY <1>14, <1>15, <2>1
  <2>3. bt[u] = at[u]
    BY <1>16, <2>1, <2>2
  <2>4. y \in b.position_all[x]
    BY <1>2, <2>1, Stands DEF at
  <2>5. \E p \in Pieces : at[u].kind = Kind[p]
    BY <1>2, <2>1, <2>4, ManIs DEF at
  <2> QED
    BY <2>3, <2>5, NamesAre
<1>19. at[<<4, h>>] # Rules!Empty /\ at[<<4, h>>].colour # Colour(x)
  BY <1>12, <1>14, <1>15
<1>20. Rules!Attacked(at, <<4 + e + e, h>>, Colour(x))
  BY <1>12, <1>13
<1>21. Rules!Attacked(bt, <<4 + e + e, h>>, Colour(x))
  BY <1>17, <1>18, <1>19, <1>20, AttackHeld
<1>22. is_attacked(t, c.to, x)
  BY <1>1, <1>2, <1>8, <1>12, <1>21, AttackedIs DEF bt, c
<1>23. t.king[s] = c.to
  <2>1. c.to \in t.position[s][KING]
    BY <1>1, <1>2, <1>11 DEF Changed, c
  <2> QED
    BY <1>2, <1>8, <2>1 DEF Sound, MenTold
<1> HIDE DEF t
<1>24. Rules!InCheck(bt, Colour(s))
  BY <1>2, <1>8, <1>22, <1>23, CheckIs DEF bt
<1> QED
  BY <1>10, <1>24 DEF bt, c, t

\* The castling moves.
LEMMA CastlingMoves ==
  ASSUME NEW b \in Boards, Fit(b), NEW q
  PROVE  q \in Rules!Castlings(Abstract(b)) /\ ~Rules!InCheck(q.at, Abstract(b).turn) <=>
           \E m : /\ Castles(b, m) /\ q = Abstract(make_move(b, m))
                  /\ ~Rules!InCheck(q.at, Abstract(b).turn)
<1> DEFINE P == Abstract(b)
           s == b.side
           x == XSIDE(s)
           C(r) == Castle[Side[r]]
           m(r) == Castling(C(r).king, C(r).to)
           Ok(r) == /\ Side[r] \in b.flags /\ C(r).side = s
                    /\ b.occupied \cap ray_bb[C(r).king][C(r).rook] = {}
                    /\ ~is_attacked(b, C(r).king, x) /\ ~is_attacked(b, C(r).rookto, x)
           Safe == ~Rules!InCheck(q.at, P.turn)
<1>1. /\ s \in Colors /\ x \in Colors /\ Sound(b) /\ FlagsFit(b) /\ P.turn = Colour(s)
      /\ Colour(x) = Rules!Other(P.turn)
  <2>1. s \in Colors /\ P.turn = Colour(s)
    BY AbstractIs DEF Boards
  <2> QED
    BY <2>1, NamesAre DEF Fit
<1>2. ASSUME NEW r \in Sides
      PROVE  /\ Side[r] \in Flags /\ C(r).side \in Colors /\ C(r).king \in Squares /\ C(r).to \in Squares
             /\ C(r).rook \in Squares /\ C(r).rookto \in Squares
             /\ ray_bb[C(r).king][C(r).rook] \subseteq Squares
             /\ Colour(C(r).side) = r[1]
  <2>1. Side[r] \in Flags /\ Colour(C(r).side) = r[1]
    BY RightIs
  <2>2. /\ C(r).side \in Colors /\ C(r).king \in Squares /\ C(r).to \in Squares
        /\ C(r).rook \in Squares /\ C(r).rookto \in Squares
    BY <2>1, CastleTable
  <2>3. ray_bb[C(r).king][C(r).rook] \subseteq Squares
    BY <2>1, CastleWays DEF Castle, Flags, Squares
  <2> QED
    BY <2>1, <2>2, <2>3
<1> DEFINE Fair(r) == /\ r[1] = P.turn
                      /\ \A u \in Rules!Between(r) : P.at[u] = Rules!Empty
                      /\ \A u \in Rules!KingPath(r) : ~Rules!Attacked(P.at, u, Rules!Other(P.turn))
<1>3. q \in Rules!Castlings(P) <=> \E r \in Sides : Side[r] \in b.flags /\ Fair(r) /\ q = Rules!Castled(P, r)
  <2>1. P.rights = {r \in Sides : Side[r] \in b.flags}
    BY AbstractIs, SideIs
  <2>2. Rules!Castlings(P) = {Rules!Castled(P, r) : r \in {z \in P.rights : Fair(z)}}
    BY Zenon DEF Rules!Castlings
  <2> HIDE DEF Fair, P
  <2> QED
    BY <2>1, <2>2
<1>4. ASSUME NEW r \in Sides
      PROVE  Side[r] \in b.flags /\ Fair(r) <=> Ok(r) /\ ~is_attacked(b, C(r).to, x)
  <2>1. r[1] = P.turn <=> C(r).side = s
    BY <1>1, <1>2, NamesAre
  <2> DEFINE R == ray_bb[C(r).king][C(r).rook]
  <2>2. /\ Rules!Between(r) = {Pt(y) : y \in R}
        /\ Rules!KingPath(r) = {Pt(C(r).king), Pt(C(r).rookto), Pt(C(r).to)}
    BY PathIs
  <2>3. R \subseteq Squares
    BY <1>2
  <2> HIDE DEF R
  <2>4. (\A u \in Rules!Between(r) : P.at[u] = Rules!Empty) <=> b.occupied \cap R = {}
    <3>1. \A y \in R : P.at[Pt(y)] = Rules!Empty <=> y \notin b.occupied
      BY <1>1, <2>3, Stands
    <3> HIDE DEF P
    <3> QED
      BY <2>2, <3>1
  <2>5. \A y \in Squares : Rules!Attacked(P.at, Pt(y), Rules!Other(P.turn)) <=> is_attacked(b, y, x)
    BY <1>1, AttackedIs
  <2> HIDE DEF P
  <2>6. (\A u \in Rules!KingPath(r) : ~Rules!Attacked(P.at, u, Rules!Other(P.turn))) <=>
          ~is_attacked(b, C(r).king, x) /\ ~is_attacked(b, C(r).rookto, x) /\ ~is_attacked(b, C(r).to, x)
    BY <1>2, <2>2, <2>5
  <2> QED
    BY <2>1, <2>4, <2>6 DEF R
<1>5. ASSUME NEW r \in Sides
      PROVE  Ok(r) <=> ~in_check(b) /\ C(r).side = s /\ CanCastle(b, Side[r])
  <2>1. Side[r] \in b.flags /\ C(r).side = s => b.king[s] = C(r).king
    BY <1>1 DEF FlagsFit
  <2>2. CanCastle(b, Side[r]) <=>
          /\ Side[r] \in b.flags /\ b.occupied \cap ray_bb[C(r).king][C(r).rook] = {}
          /\ ~is_attacked(b, C(r).rookto, x)
    BY DEF CanCastle
  <2>3. in_check(b) <=> is_attacked(b, b.king[s], x)
    BY DEF in_check
  <2> HIDE DEF s, x, C
  <2> QED
    BY <2>1, <2>2, <2>3
<1>6. ASSUME NEW r \in Sides, Ok(r)
      PROVE  /\ Abstract(make_move(b, m(r))) = Rules!Castled(P, r)
             /\ q = Rules!Castled(P, r) /\ Safe => ~is_attacked(b, C(r).to, x)
  <2>1. ~in_check(b) /\ C(r).side = s /\ CanCastle(b, Side[r])
    BY <1>5, <1>6
  <2>2. Abstract(make_move(b, m(r))) = Rules!Castled(P, r)
    BY <2>1, CastlingLeads
  <2>3. is_attacked(b, C(r).to, x) => Rules!InCheck(Abstract(make_move(b, m(r))).at, Colour(s))
    BY <2>1, LastSquareTold
  <2> QED
    BY <1>1, <2>2, <2>3
<1>7. \A n : Castles(b, n) <=> \E r \in Sides : Ok(r) /\ n = m(r)
  <2>1. \A n : Castles(b, n) <=>
                 ~in_check(b) /\ \E f \in Flags : /\ Castle[f].side = s /\ CanCastle(b, f)
                                                  /\ n = Castling(Castle[f].king, Castle[f].to)
    BY CastlesAre
  <2> HIDE DEF Ok
  <2> QED
    BY <1>2, <1>5, <2>1, EachFlag
<1> HIDE DEF P, Ok, Fair, m, C, Safe, x
<1>8. q \in Rules!Castlings(P) /\ Safe <=>
        \E r \in Sides : Ok(r) /\ ~is_attacked(b, C(r).to, x) /\ q = Rules!Castled(P, r) /\ Safe
  BY <1>3, <1>4
<1>9. q \in Rules!Castlings(P) /\ Safe <=> \E r \in Sides : Ok(r) /\ q = Rules!Castled(P, r) /\ Safe
  BY <1>6, <1>8
<1>10. (\E n : Castles(b, n) /\ q = Abstract(make_move(b, n)) /\ Safe) <=>
         \E r \in Sides : Ok(r) /\ q = Rules!Castled(P, r) /\ Safe
  BY <1>6, <1>7
<1> QED
  BY <1>9, <1>10 DEF P, Safe

-----------------------------------------------------------------------------
(***************************************************************************)
(* The refinement: the legal moves are the moves of the rules.              *)
(***************************************************************************)
LEMMA LegalIs ==
  ASSUME NEW b \in Boards, Fit(b), NEW m, Comes(b, m)
  PROVE  is_legal_move(b, m) <=> ~Rules!InCheck(Abstract(make_move(b, m)).at, Abstract(b).turn)
<1> DEFINE r == make_move(b, m)
           s == b.side
<1>1. m \in generate_moves(b, TRUE)
  BY MovesAre DEF Fit
<1>2. Fine(b, m)
  BY <1>1, MovesFine DEF Fit
<1>3. Sound(r) /\ r.side = XSIDE(s)
  BY <1>2, LeftFits DEF Fine, Fit
<1> HIDE DEF r
<1>4. s \in Colors /\ XSIDE(XSIDE(s)) = s /\ r \in Boards /\ Abstract(b).turn = Colour(s)
  <2>1. s \in Colors /\ r \in Boards
    BY <1>3 DEF Boards, Sound
  <2> QED
    BY <2>1, NamesAre, AbstractIs
<1>5. Rules!InCheck(Abstract(r).at, Colour(s)) <=> is_attacked(r, r.king[s], XSIDE(s))
  BY <1>3, <1>4, CheckIs
<1>6. is_legal(r) <=> ~is_attacked(r, r.king[s], XSIDE(s))
  BY <1>3, <1>4 DEF is_legal
<1> QED
  BY <1>4, <1>5, <1>6 DEF is_legal_move, r

LEMMA SuccessorsAre ==
  ASSUME NEW b \in Boards, Fit(b), NEW q
  PROVE  q \in Rules!Successors(Abstract(b)) <=>
           \E m \in LegalMoves(b) : q = Abstract(make_move(b, m))
<1> DEFINE P == Abstract(b)
           Safe == ~Rules!InCheck(q.at, P.turn)
           G(m) == q = Abstract(make_move(b, m))
           Pawned(m) == \/ PawnTakesUp(b, m) \/ PawnGoesUp(b, m) \/ PawnTakesMan(b, m)
                        \/ PawnPasses(b, m) \/ PawnSteps(b, m)
           Led2(m) == PieceTakes(b, m) \/ PieceGoes(b, m)
<1>1. q \in Rules!Successors(P) <=>
        \/ q \in Rules!Officers(P) /\ Safe
        \/ q \in Rules!Pawns(P) /\ Safe
        \/ q \in Rules!Castlings(P) /\ Safe
  BY Zenon DEF Rules!Successors
<1>2. q \in Rules!Officers(P) <=> \E m : Led2(m) /\ G(m)
  BY OfficerMoves
<1>3. q \in Rules!Pawns(P) <=> \E m : Pawned(m) /\ G(m)
  BY PawnMoves
<1>4. q \in Rules!Castlings(P) /\ Safe <=> \E m : Castles(b, m) /\ G(m) /\ Safe
  BY Zenon, CastlingMoves
<1>5. \A m : Comes(b, m) <=> Led2(m) \/ Pawned(m) \/ Castles(b, m)
  BY DEF Comes
<1>6. \A m : m \in LegalMoves(b) <=> Comes(b, m) /\ is_legal_move(b, m)
  <2>1. \A m : m \in generate_moves(b, TRUE) <=> Comes(b, m)
    BY MovesAre DEF Fit
  <2> QED
    BY <2>1 DEF LegalMoves, filter_illegal
<1>7. \A m : Comes(b, m) /\ G(m) => (is_legal_move(b, m) <=> Safe)
  BY LegalIs
<1> HIDE DEF P, Safe, G, Pawned, Led2
<1>8. q \in Rules!Successors(P) <=> \E m : Comes(b, m) /\ G(m) /\ Safe
  BY <1>1, <1>2, <1>3, <1>4, <1>5
<1>9. q \in Rules!Successors(P) <=> \E m \in LegalMoves(b) : G(m)
  BY <1>6, <1>7, <1>8
<1> QED
  BY <1>9 DEF P, G

\* A null move is the pass that the rules of the game do not have.
LEMMA PassLeads ==
  ASSUME NEW b \in Boards, Fit(b), ~in_check(b)
  PROVE  /\ ~Rules!InCheck(Abstract(b).at, Abstract(b).turn)
         /\ Abstract(make_move(b, NullMove))
              = [Abstract(b) EXCEPT !.turn = Rules!Other(@), !.ep = Rules!None]
<1> DEFINE m == NullMove
           r == make_move(b, m)
           P == Abstract(b)
           s == b.side
<1>1. Sound(b) /\ FlagsFit(b) /\ PawnsWithin(b) /\ s \in Colors /\ P.turn = Colour(s)
      /\ Colour(XSIDE(s)) = Rules!Other(P.turn)
  <2>1. s \in Colors /\ P.turn = Colour(s)
    BY AbstractIs DEF Boards
  <2> QED
    BY <2>1, NamesAre DEF Fit
<1>2. ~Rules!InCheck(P.at, P.turn)
  BY <1>1, CheckIs DEF in_check
<1>3. m.from \in Squares /\ m.to \in Squares /\ MovePieces(b, m) = b
  BY NullParts DEF MovePieces
<1>4. SameMen(b, r) /\ r.side = XSIDE(s) /\ r.flags = b.flags \ LostFlags(b, m) /\ r.epsq = EpSquare(m)
  <2>1. Sound(MovePieces(b, m)) /\ MovePieces(b, m).side = b.side /\ MovePieces(b, m).flags = b.flags
    BY <1>1, <1>3
  <2>2. /\ SameMen(MovePieces(b, m), r) /\ r.side = XSIDE(s)
        /\ r.flags = b.flags \ LostFlags(b, m) /\ r.epsq = EpSquare(m)
    BY <1>3, <2>1, MoveMade
  <2> QED
    BY <1>3, <2>2
<1>5. EpSquare(m) = NO_SQUARE
  BY NullParts, PieceNames DEF EpSquare
<1>6. LostFlags(b, m) = {}
  BY NullParts, PieceNames DEF LostFlags
<1> HIDE DEF r, m
<1>7. Abstract(r).at = P.at
  BY <1>4 DEF Abstract, SameMen, color_at, piece_at
<1>8. Abstract(r).turn = Rules!Other(P.turn)
  BY <1>1, <1>4, AbstractIs
<1>9. Abstract(r).rights = P.rights
  <2>1. r.flags = b.flags
    BY <1>4, <1>6
  <2> QED
    BY <2>1, AbstractIs
<1>10. Abstract(r).ep = Rules!None
  BY <1>4, <1>5, AbstractIs
<1>11. /\ Abstract(r) = [at |-> Abstract(r).at, turn |-> Abstract(r).turn,
                         rights |-> Abstract(r).rights, ep |-> Abstract(r).ep]
       /\ P = [at |-> P.at, turn |-> P.turn, rights |-> P.rights, ep |-> P.ep]
  BY AbstractIs
<1> HIDE DEF P
<1>12. Abstract(r) = [P EXCEPT !.turn = Rules!Other(@), !.ep = Rules!None]
  BY <1>7, <1>8, <1>9, <1>10, <1>11
<1> QED
  BY <1>2, <1>12 DEF P, r, m

\* An opening is a possible position.
LEMMA MenPossible ==
  ASSUME NEW b \in Boards, Fit(b)
  PROVE  /\ Abstract(b).at \in [Rules!Squares -> Rules!Men \cup {Rules!Empty}]
         /\ \A c \in Rules!Colours : \E s \in Rules!Squares :
              \A t \in Rules!Squares : Abstract(b).at[t] = Rules!Man(c, "king") <=> t = s
         /\ \A s \in Rules!Squares : Abstract(b).at[s].kind = "pawn" => s[2] \in 1 .. 6
<1> DEFINE at == Abstract(b).at
<1>1. Sound(b) /\ PawnsWithin(b)
  BY DEF Fit
<1>2. ASSUME NEW x \in Squares
      PROVE  \/ at[Pt(x)] = Rules!Empty
             \/ \E c \in Colors : \E p \in Pieces : x \in b.position[c][p] /\ at[Pt(x)] = Man(c, p)
  <2>1. x \in b.occupied => \E c \in Colors : \E p \in Pieces : x \in b.position[c][p]
    BY <1>1 DEF Sound, MenTold, Colors
  <2> QED
    BY <1>1, <2>1, Stands
<1>3. \A x \in Squares : at[Pt(x)] \in Rules!Men \cup {Rules!Empty}
  <2> HIDE DEF at
  <2> QED
    BY <1>2, ManFacts
<1>4. at \in [Rules!Squares -> Rules!Men \cup {Rules!Empty}]
  <2>1. at = [s \in Rules!Squares |-> at[s]]
    BY AbstractIs
  <2> HIDE DEF at
  <2>2. \A s \in Rules!Squares : at[s] \in Rules!Men \cup {Rules!Empty}
    BY <1>3, PointsAre
  <2> QED
    BY <2>1, <2>2
<1>5. ASSUME NEW c \in Rules!Colours
      PROVE  \E s \in Rules!Squares :
               \A t \in Rules!Squares : at[t] = Rules!Man(c, "king") <=> t = s
  <2>1. PICK d \in Colors : c = Colour(d)
    BY NamesAre DEF Rules!Colours, Colors
  <2>2. Rules!Man(c, "king") = Man(d, KING)
    BY <2>1, NamesAre DEF Man
  <2>3. b.position[d][KING] = {b.king[d]} /\ b.king[d] \in Squares
    BY <1>1 DEF Sound, MenTold, Boards
  <2>4. \A x \in Squares : at[Pt(x)] = Man(d, KING) <=> x = b.king[d]
    BY <1>1, <2>3, Stands, PieceNames
  <2> DEFINE k == b.king[d]
  <2> HIDE DEF at, k
  <2>5. \A t \in Rules!Squares : at[t] = Man(d, KING) <=> t = Pt(k)
    BY <2>3, <2>4, PointsAre DEF k
  <2>6. Pt(k) \in Rules!Squares
    BY <2>3, PointsAre DEF k
  <2> QED
    BY <2>2, <2>5, <2>6
<1>6. ASSUME NEW s \in Rules!Squares, at[s].kind = "pawn"
      PROVE  s[2] \in 1 .. 6
  <2>1. PICK x \in Squares : s = Pt(x)
    BY PointsAre
  <2>2. at[Pt(x)] # Rules!Empty
    <3>1. Rules!Empty.kind # "pawn"
      BY DEF Rules!Empty, Rules!Man
    <3> QED
      BY <1>6, <2>1, <3>1
  <2>3. PICK c \in Colors, p \in Pieces : x \in b.position[c][p] /\ at[Pt(x)] = Man(c, p)
    BY <1>2, <2>2
  <2>4. p = PAWN
    <3>1. Kind[p] = Kind[PAWN]
      BY <1>6, <2>1, <2>3, ManFacts, NamesAre
    <3> QED
      BY <3>1, NamesAre, PieceNames
  <2>5. RNK(x) \in 1 .. 6
    BY <1>1, <2>3, <2>4, PawnPlace
  <2> QED
    BY <2>1, <2>5, PointsAre
<1> QED
  BY <1>4, <1>5, <1>6 DEF at

LEMMA RightsArePossible ==
  ASSUME NEW b \in Boards, Fit(b)
  PROVE  Abstract(b).rights \subseteq Rules!Rights /\ Rules!RightsPossible(Abstract(b))
<1> DEFINE P == Abstract(b)
<1>1. P.rights = {r \in Sides : Side[r] \in b.flags} /\ Rules!Rights = Sides
  BY AbstractIs, SideIs
<1>2. ASSUME NEW r \in Sides, Side[r] \in b.flags
      PROVE  /\ P.at[Rules!KingHome(r)] = Rules!Man(r[1], "king")
             /\ P.at[Rules!RookHome(r)] = Rules!Man(r[1], "rook")
  <2> DEFINE c == Castle[Side[r]]
  <2>1. /\ Side[r] \in Flags /\ Colour(c.side) = r[1]
        /\ Rules!KingHome(r) = Pt(c.king) /\ Rules!RookHome(r) = Pt(c.rook)
    BY RightIs
  <2>2. c.side \in Colors /\ c.king \in Squares /\ c.rook \in Squares
    BY <2>1, CastleTable
  <2>3. b.king[c.side] = c.king /\ c.rook \in b.position[c.side][ROOK]
    BY <1>2 DEF Fit, FlagsFit
  <2>4. c.king \in b.position[c.side][KING]
    BY <2>2, <2>3 DEF Fit, Sound, MenTold
  <2> HIDE DEF c
  <2>5. P.at[Pt(c.king)] = Man(c.side, KING)
    BY <2>2, <2>4, PieceNames, Stands DEF Fit
  <2>6. P.at[Pt(c.rook)] = Man(c.side, ROOK)
    BY <2>2, <2>3, PieceNames, Stands DEF Fit
  <2>7. Man(c.side, KING) = Rules!Man(r[1], "king") /\ Man(c.side, ROOK) = Rules!Man(r[1], "rook")
    BY <2>1, NamesAre DEF Man
  <2> QED
    BY <2>1, <2>5, <2>6, <2>7
<1> HIDE DEF P
<1>3. P.rights \subseteq Rules!Rights /\ Rules!RightsPossible(P)
  BY <1>1, <1>2 DEF Rules!RightsPossible
<1> QED
  BY <1>3 DEF P

LEMMA EpIsPossible ==
  ASSUME NEW b \in Boards, Fit(b)
  PROVE  Abstract(b).ep \in Rules!Squares \cup {Rules!None} /\ Rules!EpPossible(Abstract(b))
<1> DEFINE P == Abstract(b)
           e == b.epsq
           s == b.side
           x == XSIDE(s)
           back == IF s = WHITE THEN -1 ELSE 1
<1>1. P.ep = IF e = NO_SQUARE THEN Rules!None ELSE Pt(e)
  BY AbstractIs
<1>2. CASE e = NO_SQUARE
  BY <1>1, <1>2 DEF Rules!EpPossible
<1>3. CASE e # NO_SQUARE
  <2>1. e \in Squares /\ s \in Colors /\ x \in Colors /\ x = (IF s = WHITE THEN BLACK ELSE WHITE)
    BY <1>3 DEF Boards, Colors, XSIDE, WHITE, BLACK
  <2>2. /\ Rules!Other(P.turn) = Colour(x) /\ Rules!Forward(Colour(x)) = back
        /\ Rules!HomeRank(Colour(x)) = IF s = WHITE THEN 7 ELSE 0
    <3>1. P.turn = Colour(s)
      BY AbstractIs
    <3>2. Rules!Other(P.turn) = Colour(x)
      BY <2>1, <3>1, NamesAre
    <3>3. Colour(x) = IF s = WHITE THEN "black" ELSE "white"
      BY <2>1, NamesAre
    <3> QED
      BY <3>2, <3>3 DEF Rules!Forward, Rules!HomeRank
  <2> DEFINE pawn == IF s = WHITE THEN e - 8 ELSE e + 8
             origin == IF s = WHITE THEN e + 8 ELSE e - 8
  <2>3. /\ RNK(e) = (IF s = WHITE THEN 5 ELSE 2) /\ e \notin b.occupied /\ origin \notin b.occupied
        /\ get_eppawn(b) \in b.position[x][PAWN]
    <3>1. e + (-8) = e - 8
      BY <2>1 DEF Squares
    <3> QED
      BY <1>3, <3>1 DEF Fit, EpFits
  <2>4. pawn \in b.position[x][PAWN]
    <3>1. get_eppawn(b) = pawn
      BY <1>3, <2>3 DEF get_eppawn
    <3> QED
      BY <2>3, <3>1
  <2>5. FIL(e) \in 0 .. 7 /\ RNK(e) \in 0 .. 7 /\ e \in Int
    BY <2>1, RankOf DEF Squares
  <2>6. /\ FIL(e) + 0 \in 0 .. 7 /\ RNK(e) + back \in 0 .. 7 /\ RNK(e) - back \in 0 .. 7
        /\ FIL(e) + 1 * 0 = FIL(e) + 0 /\ FIL(e) + (-1) * 0 = FIL(e) + 0
        /\ RNK(e) + 1 * back = RNK(e) + back /\ RNK(e) + (-1) * back = RNK(e) + (0 - back)
        /\ e + 8 * back + 0 = pawn /\ e + 8 * (0 - back) + 0 = origin
        /\ RNK(e) + (0 - back) \in 0 .. 7
        /\ back \in Int /\ 0 - back \in Int
    BY <2>3, <2>5
  <2> HIDE DEF back, pawn, origin
  <2>7. pawn \in Squares /\ Pt(pawn) = <<FIL(e) + 0, RNK(e) + back>>
    <3>1. /\ <<FIL(e) + 0, RNK(e) + back>> \in Rules!Squares
          /\ e + 8 * back + 0 \in Squares /\ Pt(e + 8 * back + 0) = <<FIL(e) + 0, RNK(e) + back>>
      BY <2>1, <2>6, Along
    <3> QED
      BY <2>6, <3>1
  <2>8. origin \in Squares /\ Pt(origin) = <<FIL(e) + 0, RNK(e) + (0 - back)>>
    <3> DEFINE g == 0 - back
    <3>1. g \in Int /\ RNK(e) + g \in 0 .. 7 /\ FIL(e) + 0 \in 0 .. 7 /\ e + 8 * g + 0 = origin
      BY <2>6
    <3> HIDE DEF g
    <3>2. /\ <<FIL(e) + 0, RNK(e) + g>> \in Rules!Squares
          /\ e + 8 * g + 0 \in Squares /\ Pt(e + 8 * g + 0) = <<FIL(e) + 0, RNK(e) + g>>
      BY <2>1, <3>1, Along
    <3> QED
      BY <3>1, <3>2 DEF g
  <2>9. /\ Rules!Plus(Pt(e), <<0, back>>, 1) = <<FIL(e) + 1 * 0, RNK(e) + 1 * back>>
        /\ Rules!Plus(Pt(e), <<0, back>>, -1) = <<FIL(e) + (-1) * 0, RNK(e) + (-1) * back>>
    <3>1. 0 \in Int /\ 1 \in Int /\ -1 \in Int
      OBVIOUS
    <3>2. \A n \in Int : Rules!Plus(Pt(e), <<0, back>>, n) = <<FIL(e) + n * 0, RNK(e) + n * back>>
      BY <2>1, <2>6, <3>1, PlusIs
    <3> QED
      BY <3>1, <3>2
  <2>10. P.at[Pt(e)] = Rules!Empty
    BY <2>1, <2>3, Stands DEF Fit
  <2>11. P.at[Pt(pawn)] = Man(x, PAWN)
    BY <2>1, <2>4, <2>7, Stands, PieceNames DEF Fit
  <2>12. P.at[Pt(origin)] = Rules!Empty
    BY <2>3, <2>8, Stands DEF Fit
  <2>13. Man(x, PAWN) = Rules!Man(Colour(x), "pawn")
    BY NamesAre DEF Man
  <2>14. Pt(e)[2] = Rules!HomeRank(Colour(x)) + 2 * back
    <3>1. Pt(e)[2] = RNK(e)
      BY <2>1, PointsAre
    <3> QED
      BY <2>2, <2>3, <3>1 DEF back
  <2>15. P.ep = Pt(e) /\ Pt(e) \in Rules!Squares
    BY <1>1, <1>3, <2>1, PointsAre
  <2>16. /\ P.at[Rules!Plus(P.ep, <<0, back>>, 1)] = Rules!Man(Colour(x), "pawn")
         /\ P.at[Rules!Plus(P.ep, <<0, back>>, -1)] = Rules!Empty
         /\ P.at[P.ep] = Rules!Empty /\ P.ep[2] = Rules!HomeRank(Colour(x)) + 2 * back
    BY <2>6, <2>7, <2>8, <2>9, <2>10, <2>11, <2>12, <2>13, <2>14, <2>15
  <2> HIDE DEF P, e, x
  <2>17. Rules!EpPossible(P)
    BY <2>2, <2>16 DEF Rules!EpPossible
  <2> QED
    BY <2>15, <2>17 DEF P
<1> QED
  BY <1>2, <1>3

LEMMA OpeningPossible ==
  ASSUME NEW b \in Boards, Fit(b)
  PROVE  Rules!Possible(Abstract(b))
<1> DEFINE P == Abstract(b)
           s == b.side
           x == XSIDE(s)
<1>1. s \in Colors /\ x \in Colors /\ XSIDE(x) = s /\ P.turn = Colour(s) /\ P.turn \in Rules!Colours
      /\ Rules!Other(P.turn) = Colour(x)
  <2>1. s \in Colors /\ P.turn = Colour(s)
    BY AbstractIs DEF Boards
  <2> QED
    BY <2>1, NamesAre
<1>2. ~Rules!InCheck(P.at, Rules!Other(P.turn))
  BY <1>1, CheckIs DEF Fit, is_legal
<1> HIDE DEF P
<1>3. /\ P.at \in [Rules!Squares -> Rules!Men \cup {Rules!Empty}]
      /\ \A c \in Rules!Colours : \E u \in Rules!Squares :
           \A t \in Rules!Squares : P.at[t] = Rules!Man(c, "king") <=> t = u
      /\ \A u \in Rules!Squares : P.at[u].kind = "pawn" => u[2] \in 1 .. 6
  BY Zenon, MenPossible DEF P
<1>4. P.rights \subseteq Rules!Rights /\ Rules!RightsPossible(P)
  BY RightsArePossible DEF P
<1>5. P.ep \in Rules!Squares \cup {Rules!None} /\ Rules!EpPossible(P)
  BY EpIsPossible DEF P
<1>6. Rules!Possible(P)
  BY <1>1, <1>2, <1>3, <1>4, <1>5, Zenon DEF Rules!Possible
<1> QED
  BY <1>6 DEF P

\* One step of the board is a step of the rules.
LEMMA RuleStep ==
  IncrementalStateExact /\ [Next]_vars => [Rules!Next]_(Abstract(board))
<1> SUFFICES ASSUME IncrementalStateExact, [Next]_vars
             PROVE  Rules!Next \/ Abstract(board') = Abstract(board)
  OBVIOUS
<1>1. board \in Boards /\ Fit(board)
  BY FitIs DEF IncrementalStateExact, TypeOK
<1>2. CASE MakeMove
  <2>1. PICK m \in LegalMoves(board) : board' = make_move(board, m)
    BY <1>2 DEF MakeMove
  <2>2. Abstract(board') \in Rules!Successors(Abstract(board))
    BY <1>1, <2>1, SuccessorsAre
  <2> QED
    BY <2>2 DEF Rules!Next, Rules!Play
<1>3. CASE MakeNullMove
  <2>1. ~in_check(board) /\ board' = make_move(board, NullMove)
    BY <1>3 DEF MakeNullMove
  <2>2. /\ ~Rules!InCheck(Abstract(board).at, Abstract(board).turn)
        /\ Abstract(board') = [Abstract(board) EXCEPT !.turn = Rules!Other(@), !.ep = Rules!None]
    BY <1>1, <2>1, PassLeads
  <2> QED
    BY <2>2 DEF Rules!Next, Rules!Pass
<1>4. CASE UNCHANGED vars
  BY <1>4 DEF vars
<1> QED
  BY <1>2, <1>3, <1>4 DEF Next

\* Whatever the opening and however long the line, the board implements the rules
\* of chess: every opening is a possible position, and every move that
\* generate_captures() and generate_noncaptures() return, that leaves its king out
\* of check and that make_move() makes, with castling, en passant, promotion and
\* everything they do to the castling flags and the en passant square, is a move
\* that the rules allow.
THEOREM ChessFollowsRules == Spec => FollowsTheRules
<1>1. Init => IncrementalStateExact
  BY OpeningsAssumption DEF Init, IncrementalStateExact, TypeOK
<1>2. Init => Rules!Init
  <2> SUFFICES ASSUME Init PROVE Rules!Init
    OBVIOUS
  <2>1. board \in Boards /\ Consistent(board)
    BY OpeningsAssumption DEF Init
  <2> QED
    BY <2>1, FitIs, OpeningPossible DEF Rules!Init
<1>3. IncrementalStateExact /\ [Next]_vars => [Rules!Next]_(Abstract(board))
  BY RuleStep
<1> QED
  BY <1>1, <1>2, <1>3, BoardStep, PTL DEF Spec, FollowsTheRules, Rules!Spec

-----------------------------------------------------------------------------
(***************************************************************************)
(* No move is missing.                                                      *)
(***************************************************************************)
\* A board tells by which move it was reached: a man has left x, it is p on y, and
\* no other man of its side has moved.
Traced(b, q, x, y, p) ==
  /\ x \in b.position_all[b.side] /\ y \in Squares \ b.position_all[b.side] /\ p \in Pieces
  /\ q.at[Pt(x)] = Rules!Empty /\ q.at[Pt(y)] = Man(b.side, p)
  /\ \A z \in Squares \ {x, y} :
       \/ q.at[Pt(z)] = Abstract(b).at[Pt(z)]
       \/ z \notin b.position_all[b.side] /\ q.at[Pt(z)] = Rules!Empty

LEMMA MovedTraced ==
  ASSUME NEW b \in Boards, NEW x \in b.position_all[b.side], x \in Squares,
         NEW y \in Squares \ b.position_all[b.side], NEW p \in Pieces, NEW q, NEW g,
         LET at == [Abstract(b).at EXCEPT ![Pt(x)] = Rules!Empty, ![Pt(y)] = Man(b.side, p)]
         IN  \/ q.at = at
             \/ /\ g \in Squares \ b.position_all[b.side] /\ g # y
                /\ q.at = [at EXCEPT ![Pt(g)] = Rules!Empty]
  PROVE  Traced(b, q, x, y, p)
<1> DEFINE old == Abstract(b).at
           at == [old EXCEPT ![Pt(x)] = Rules!Empty, ![Pt(y)] = Man(b.side, p)]
<1>1. DOMAIN old = Rules!Squares
  BY AbstractIs
<1>2. \A z \in Squares : Pt(z) \in Rules!Squares
  BY PointsAre
<1>3. \A z \in Squares : /\ Pt(z) = Pt(x) <=> z = x
                         /\ Pt(z) = Pt(y) <=> z = y
                         /\ g \in Squares => (Pt(z) = Pt(g) <=> z = g)
  BY PointsAre
<1> HIDE DEF old
<1>4. \A z \in Squares : at[Pt(z)] = IF z = y THEN Man(b.side, p)
                                     ELSE IF z = x THEN Rules!Empty ELSE old[Pt(z)]
  BY <1>1, <1>2, <1>3
<1>5. DOMAIN at = Rules!Squares
  BY <1>1
<1>6. \/ q.at = at
      \/ /\ g \in Squares \ b.position_all[b.side] /\ g # y
         /\ q.at = [at EXCEPT ![Pt(g)] = Rules!Empty]
  BY DEF old
<1> HIDE DEF at
<1>7. \A z \in Squares :
        \/ q.at[Pt(z)] = at[Pt(z)]
        \/ z # y /\ z \notin b.position_all[b.side] /\ q.at[Pt(z)] = Rules!Empty
  <2>1. CASE q.at = at
    BY <2>1
  <2>2. CASE /\ g \in Squares \ b.position_all[b.side] /\ g # y
             /\ q.at = [at EXCEPT ![Pt(g)] = Rules!Empty]
    BY <1>2, <1>3, <1>5, <2>2
  <2> QED
    BY <1>6, <2>1, <2>2
<1>8. x # y
  OBVIOUS
<1>9. q.at[Pt(x)] = Rules!Empty /\ q.at[Pt(y)] = Man(b.side, p)
  BY <1>4, <1>7, <1>8
<1>10. \A z \in Squares \ {x, y} :
         \/ q.at[Pt(z)] = old[Pt(z)]
         \/ z \notin b.position_all[b.side] /\ q.at[Pt(z)] = Rules!Empty
  BY <1>4, <1>7
<1> QED
  BY <1>9, <1>10 DEF Traced, old

LEMMA TracedOnce ==
  ASSUME NEW b \in Boards, Sound(b), NEW q, NEW x, NEW y, NEW p, NEW v, NEW w, NEW r,
         Traced(b, q, x, y, p), Traced(b, q, v, w, r)
  PROVE  x = v /\ y = w /\ p = r
<1> DEFINE at == Abstract(b).at
           own == b.position_all[b.side]
           c == Colour(b.side)
           now == q.at
           Like(z) == now[Pt(z)] = at[Pt(z)] \/ (z \notin own /\ now[Pt(z)] = Rules!Empty)
<1>1. b.side \in Colors
  BY DEF Boards
<1>2. \A z \in Squares : z \in own <=> at[Pt(z)].colour = c
  BY <1>1, Stands
<1>3. own \in SUBSET Squares
  BY <1>1 DEF Boards
<1>4. Rules!Empty.colour # c
  <2>1. Rules!Empty.colour = "none"
    BY <1>1, PieceNames, ManFacts
  <2> QED
    BY <1>1, <2>1, NamesAre
<1>5. /\ x \in own /\ y \in Squares /\ y \notin own /\ p \in Pieces
      /\ now[Pt(x)] = Rules!Empty /\ now[Pt(y)] = Man(b.side, p)
      /\ \A z \in Squares \ {x, y} : Like(z)
  BY Zenon DEF Traced
<1>6. /\ v \in own /\ w \in Squares /\ w \notin own /\ r \in Pieces
      /\ now[Pt(v)] = Rules!Empty /\ now[Pt(w)] = Man(b.side, r)
      /\ \A z \in Squares \ {v, w} : Like(z)
  BY Zenon DEF Traced
<1>7. Man(b.side, p).colour = c
  BY <1>1, <1>5, ManFacts
<1> HIDE DEF at, own, c, now
<1>8. x = v
  <2> SUFFICES ASSUME x # v PROVE FALSE
    OBVIOUS
  <2>1. x \in Squares \ {v, w}
    BY <1>3, <1>5, <1>6
  <2>2. now[Pt(x)] = at[Pt(x)]
    BY <1>5, <1>6, <2>1
  <2> QED
    BY <1>2, <1>3, <1>4, <1>5, <2>2
<1>9. y = w
  <2> SUFFICES ASSUME y # w PROVE FALSE
    OBVIOUS
  <2>1. y \in Squares \ {v, w}
    BY <1>5, <1>6
  <2>2. now[Pt(y)] = at[Pt(y)] \/ now[Pt(y)] = Rules!Empty
    BY <1>6, <2>1
  <2> QED
    BY <1>2, <1>4, <1>5, <1>7, <2>2
<1>10. p = r
  BY <1>1, <1>5, <1>6, <1>9, ManFacts
<1> QED
  BY <1>8, <1>9, <1>10

\* A step of a pawn does not end where the pawn of the other side has passed,
\* because that pawn stands before the square.
LEMMA StepsElsewhere ==
  ASSUME NEW b \in Boards, Fit(b), NEW from \in b.position[b.side][PAWN],
         NEW to \in pawn_noncaptures(b, from, b.side)
  PROVE  to # b.epsq
<1> DEFINE e == b.epsq
           s == b.side
           d == IF s = WHITE THEN 8 ELSE -8
<1>1. s \in Colors /\ Sound(b) /\ PAWN \in Pieces /\ EpFits(b) /\ PawnsWithin(b)
  BY PieceNames DEF Fit, Boards
<1> SUFFICES ASSUME to = e PROVE FALSE
  OBVIOUS
<1>2. from \in Squares /\ RNK(from) \in 1 .. 6
  BY <1>1, PawnPlace
<1>3. to \in Squares
  BY <1>1, <1>2, PawnGoes
<1>4. e # NO_SQUARE
  BY <1>3 DEF Squares, NO_SQUARE
<1>5. get_eppawn(b) \in b.position[XSIDE(s)][PAWN] /\ RNK(e) = (IF s = WHITE THEN 5 ELSE 2)
  BY <1>1, <1>4 DEF EpFits
<1>6. get_eppawn(b) = IF s = WHITE THEN e - 8 ELSE e + 8
  BY <1>4, <1>5 DEF get_eppawn
<1>7. PICK n \in 1 .. 2 : to = from + n * d /\ \A i \in 1 .. n : from + i * d \notin b.occupied
  BY DEF pawn_noncaptures
<1>8. /\ get_eppawn(b) \in b.position_all[XSIDE(s)] /\ get_eppawn(b) \in b.occupied
      /\ from \in b.position_all[s]
  <2>1. XSIDE(s) \in Colors
    BY <1>1, NamesAre
  <2>2. get_eppawn(b) \in b.position_all[XSIDE(s)] /\ get_eppawn(b) \in b.occupied
    BY <1>1, <1>5, <2>1, MenOccupy
  <2>3. from \in b.position_all[s]
    BY <1>1, MenOccupy
  <2> QED
    BY <2>2, <2>3
<1>9. get_eppawn(b) # from
  BY <1>1, <1>2, <1>8, Others
<1> HIDE DEF e, s
<1>10. from + 1 * d = from + d /\ from + 2 * d = from + d + d /\ from \in Int /\ e \in Int
  BY <1>2, <1>3 DEF Squares
<1>11. CASE n = 1
  BY <1>6, <1>7, <1>9, <1>10, <1>11
<1>12. CASE n = 2
  <2>1. from + d \notin b.occupied
    BY <1>7, <1>10, <1>12
  <2>2. get_eppawn(b) = from + d
    BY <1>6, <1>7, <1>10, <1>12
  <2> QED
    BY <1>8, <2>1, <2>2
<1> QED
  BY <1>7, <1>11, <1>12

\* The one move from x to y that leaves a p there.
MoveTo(b, x, y, p) ==
  LET theirs == b.position_all[XSIDE(b.side)]
      cap == piece_at(b, y)
  IN  IF x \notin b.position[b.side][PAWN]
        THEN IF y \in theirs THEN Capture(x, y, p, cap) ELSE Normal(x, y, p)
      ELSE IF y = b.epsq THEN EnPassant(x, y)
      ELSE IF x \in BeforePromotion(b.side)
        THEN IF y \in theirs THEN PromotionCapture(x, y, p, cap) ELSE Promotion(x, y, p)
      ELSE IF y \in theirs THEN Capture(x, y, PAWN, cap) ELSE Normal(x, y, PAWN)

\* A move that is known by what it leaves.
Told(b, m) ==
  /\ Traced(b, Abstract(make_move(b, m)), m.from, m.to, m.piece)
  /\ m = MoveTo(b, m.from, m.to, m.piece) /\ ~Is(m, "CASTLE")

LEMMA SentOn ==
  ASSUME NEW b \in Boards, Fit(b), NEW m, Sent(b, m)
  PROVE  /\ m.from \in Squares /\ m.to \in Squares /\ m.from \in b.position_all[b.side]
         /\ m.to \notin b.position_all[b.side]
         /\ ptype(m) # PAWN => m.from \notin b.position[b.side][PAWN]
         /\ Is(m, "CAPTURE") => m.to \in b.position_all[XSIDE(b.side)]
         /\ ~Is(m, "CAPTURE") => m.to \notin b.position_all[XSIDE(b.side)] /\ m.to \notin b.occupied
<1> DEFINE p == ptype(m)
           x == XSIDE(b.side)
<1>1. b.side \in Colors /\ x \in Colors /\ Sound(b)
  BY NamesAre DEF Fit, Boards
<1>2. /\ m.from \in Squares /\ m.to \in Squares /\ p \in Pieces /\ m.from \in b.position[b.side][p]
      /\ Is(m, "CAPTURE") => m.cap_ptype \in Pieces /\ m.to \in b.position[x][m.cap_ptype]
      /\ ~Is(m, "CAPTURE") => m.to \notin b.occupied
  BY DEF Sent
<1>3. m.from \in b.position_all[b.side]
  BY <1>1, <1>2, MenOccupy
<1>4. Is(m, "CAPTURE") => m.to \in b.position_all[x]
  BY <1>1, <1>2, MenOccupy
<1>5. ~Is(m, "CAPTURE") => m.to \notin b.position_all[x]
  BY <1>1, <1>2, PieceNames, MenOccupy
<1>6. m.to \notin b.position_all[b.side]
  BY <1>1, <1>2, <1>4, Others
<1>7. p # PAWN => m.from \notin b.position[b.side][PAWN]
  <2>1. p # PAWN => Man(b.side, p) # Man(b.side, PAWN)
    BY <1>1, <1>2, PieceNames, ManFacts
  <2>2. /\ m.from \in b.position[b.side][p] <=> Abstract(b).at[Pt(m.from)] = Man(b.side, p)
        /\ m.from \in b.position[b.side][PAWN] <=> Abstract(b).at[Pt(m.from)] = Man(b.side, PAWN)
    BY <1>1, <1>2, PieceNames, Stands
  <2> QED
    BY <1>2, <2>1, <2>2
<1> QED
  BY <1>2, <1>3, <1>4, <1>5, <1>6, <1>7

LEMMA MovedTold ==
  ASSUME NEW b \in Boards, Fit(b), NEW m, Sent(b, m), NEW p \in Pieces,
         \/ Abstract(make_move(b, m)) = Rules!Moved(Abstract(b), Pt(m.from), Pt(m.to), Man(b.side, p))
         \/ Abstract(make_move(b, m)) = Then(b, m, p)
  PROVE  Traced(b, Abstract(make_move(b, m)), m.from, m.to, p)
<1> DEFINE q == Abstract(make_move(b, m))
           at == [Abstract(b).at EXCEPT ![Pt(m.from)] = Rules!Empty, ![Pt(m.to)] = Man(b.side, p)]
<1>1. Then(b, m, p).at = at
  BY ThenIs DEF Led
<1>2. Rules!Moved(Abstract(b), Pt(m.from), Pt(m.to), Man(b.side, p)).at = at
  BY DEF Rules!Moved
<1>3. q.at = at
  BY <1>1, <1>2
<1>4. /\ m.from \in b.position_all[b.side] /\ m.from \in Squares /\ m.to \in Squares
      /\ m.to \notin b.position_all[b.side]
  BY SentOn
<1> HIDE DEF q
<1>5. Traced(b, q, m.from, m.to, p)
  BY <1>3, <1>4, MovedTraced
<1> QED
  BY <1>5 DEF q

LEMMA PieceTakesTold ==
  ASSUME NEW b \in Boards, Fit(b), NEW p \in Pieces \ {PAWN}, NEW from \in b.position[b.side][p],
         NEW to \in piece_attacks(b, p, from) \cap b.position_all[XSIDE(b.side)]
  PROVE  LET m == Capture(from, to, p, piece_at(b, to))
         IN  Sent(b, m) /\ Told(b, m)
<1> DEFINE cap == piece_at(b, to)
           m == Capture(from, to, p, cap)
<1>1. /\ Sent(b, m)
      /\ Abstract(make_move(b, m)) = Rules!Moved(Abstract(b), Pt(from), Pt(to), Man(b.side, p))
  BY PieceTakesLeads
<1>2. cap \in Pieces /\ to \in Squares
  BY EnemyMan
<1>3. from \in Squares
  BY DEF Boards
<1>4. m.from = from /\ m.to = to /\ m.piece = p /\ ptype(m) = p /\ Is(m, "CAPTURE") /\ ~Is(m, "CASTLE")
  BY <1>2, <1>3, CaptureParts
<1> HIDE DEF m
<1>5. from \notin b.position[b.side][PAWN] /\ to \in b.position_all[XSIDE(b.side)]
  BY <1>1, <1>4, SentOn
<1>6. Traced(b, Abstract(make_move(b, m)), m.from, m.to, p)
  BY <1>1, <1>4, MovedTold
<1>7. m = MoveTo(b, from, to, p)
  BY <1>5 DEF MoveTo, m, cap
<1>8. Told(b, m)
  BY <1>4, <1>6, <1>7 DEF Told
<1> QED
  BY <1>1, <1>8 DEF m, cap

LEMMA PieceGoesTold ==
  ASSUME NEW b \in Boards, Fit(b), NEW p \in Pieces \ {PAWN}, NEW from \in b.position[b.side][p],
         NEW to \in piece_attacks(b, p, from) \ b.occupied, to \in Squares
  PROVE  LET m == Normal(from, to, p)
         IN  Sent(b, m) /\ Told(b, m)
<1> DEFINE m == Normal(from, to, p)
<1>1. /\ Sent(b, m)
      /\ Abstract(make_move(b, m)) = Rules!Moved(Abstract(b), Pt(from), Pt(to), Man(b.side, p))
  BY PieceGoesLeads
<1>3. from \in Squares
  BY DEF Boards
<1>4. m.from = from /\ m.to = to /\ m.piece = p /\ ptype(m) = p /\ ~Is(m, "CAPTURE") /\ ~Is(m, "CASTLE")
  BY <1>3, NormalParts
<1> HIDE DEF m
<1>5. from \notin b.position[b.side][PAWN] /\ to \notin b.position_all[XSIDE(b.side)]
  BY <1>1, <1>4, SentOn
<1>6. Traced(b, Abstract(make_move(b, m)), m.from, m.to, p)
  BY <1>1, <1>4, MovedTold
<1>7. m = MoveTo(b, from, to, p)
  BY <1>5 DEF MoveTo, m
<1>8. Told(b, m)
  BY <1>4, <1>6, <1>7 DEF Told
<1> QED
  BY <1>1, <1>8 DEF m

LEMMA PawnTakesTold ==
  ASSUME NEW b \in Boards, Fit(b), NEW from \in b.position[b.side][PAWN],
         NEW to \in pawn_captures(b, from, b.side) \cap b.position_all[XSIDE(b.side)]
  PROVE  /\ from \in BeforePromotion(b.side) => \A q \in Promoted :
              LET m == PromotionCapture(from, to, q, piece_at(b, to))
              IN  Sent(b, m) /\ Told(b, m)
         /\ from \notin BeforePromotion(b.side) =>
              LET m == Capture(from, to, PAWN, piece_at(b, to))
              IN  Sent(b, m) /\ Told(b, m)
<1> DEFINE cap == piece_at(b, to)
<1>1. PAWN \in Pieces /\ from \in Squares
  BY PieceNames DEF Boards
<1>2. cap \in Pieces /\ to \in Squares /\ to \in b.occupied
  <2>1. cap \in Pieces /\ to \in Squares /\ to \in b.position[XSIDE(b.side)][cap]
    BY <1>1, EnemyMan
  <2>2. Sound(b) /\ XSIDE(b.side) \in Colors
    BY NamesAre DEF Fit, Boards
  <2> QED
    BY <2>1, <2>2, MenOccupy
<1>3. to # b.epsq
  <2>1. b.epsq # NO_SQUARE => b.epsq \notin b.occupied
    BY DEF Fit, EpFits
  <2> QED
    BY <1>2, <2>1 DEF Squares, NO_SQUARE
<1>4. ASSUME NEW q \in Promoted, from \in BeforePromotion(b.side)
      PROVE  Sent(b, PromotionCapture(from, to, q, cap)) /\ Told(b, PromotionCapture(from, to, q, cap))
  <2> DEFINE m == PromotionCapture(from, to, q, cap)
  <2>1. Sent(b, m) /\ Abstract(make_move(b, m)) = Rules!Moved(Abstract(b), Pt(from), Pt(to), Man(b.side, q))
    BY PawnTakesLeads
  <2>2. q \in Pieces
    BY PromotedFacts
  <2>3. m.from = from /\ m.to = to /\ m.piece = q /\ ~Is(m, "CASTLE")
    BY <1>1, <1>2, <2>2, PromotionCaptureParts
  <2> HIDE DEF m
  <2>4. Traced(b, Abstract(make_move(b, m)), m.from, m.to, q)
    BY <2>1, <2>2, <2>3, MovedTold
  <2>5. m = MoveTo(b, from, to, q)
    BY <1>3, <1>4 DEF MoveTo, m, cap
  <2>6. Told(b, m)
    BY <2>3, <2>4, <2>5 DEF Told
  <2> QED
    BY <2>1, <2>6 DEF m
<1>5. ASSUME from \notin BeforePromotion(b.side)
      PROVE  Sent(b, Capture(from, to, PAWN, cap)) /\ Told(b, Capture(from, to, PAWN, cap))
  <2> DEFINE m == Capture(from, to, PAWN, cap)
  <2>1. Sent(b, m) /\ Abstract(make_move(b, m)) = Rules!Moved(Abstract(b), Pt(from), Pt(to), Man(b.side, PAWN))
    BY <1>5, PawnTakesLeads
  <2>3. m.from = from /\ m.to = to /\ m.piece = PAWN /\ ~Is(m, "CASTLE")
    BY <1>1, <1>2, CaptureParts
  <2> HIDE DEF m
  <2>4. Traced(b, Abstract(make_move(b, m)), m.from, m.to, PAWN)
    BY <1>1, <2>1, <2>3, MovedTold
  <2>5. m = MoveTo(b, from, to, PAWN)
    BY <1>3, <1>5 DEF MoveTo, m, cap
  <2>6. Told(b, m)
    BY <2>3, <2>4, <2>5 DEF Told
  <2> QED
    BY <2>1, <2>6 DEF m
<1> QED
  BY <1>4, <1>5

LEMMA PawnGoesTold ==
  ASSUME NEW b \in Boards, Fit(b), NEW from \in b.position[b.side][PAWN],
         NEW to \in pawn_noncaptures(b, from, b.side)
  PROVE  /\ from \in BeforePromotion(b.side) => \A q \in Promoted :
              LET m == Promotion(from, to, q)
              IN  Sent(b, m) /\ Told(b, m)
         /\ from \notin BeforePromotion(b.side) =>
              LET m == Normal(from, to, PAWN)
              IN  Sent(b, m) /\ Told(b, m)
<1>1. PAWN \in Pieces /\ from \in Squares /\ b.side \in Colors /\ Sound(b) /\ PawnsWithin(b)
  BY PieceNames DEF Boards, Fit
<1>2. to \in Squares
  <2>1. RNK(from) \in 1 .. 6
    BY <1>1, PawnPlace
  <2> QED
    BY <1>1, <2>1, PawnGoes
<1>3. to # b.epsq
  BY StepsElsewhere
<1>4. ASSUME NEW q \in Promoted, from \in BeforePromotion(b.side)
      PROVE  Sent(b, Promotion(from, to, q)) /\ Told(b, Promotion(from, to, q))
  <2> DEFINE m == Promotion(from, to, q)
  <2>1. Sent(b, m) /\ Abstract(make_move(b, m)) = Rules!Moved(Abstract(b), Pt(from), Pt(to), Man(b.side, q))
    BY <1>4, PawnGoesLeads
  <2>2. q \in Pieces
    BY PromotedFacts
  <2>3. m.from = from /\ m.to = to /\ m.piece = q /\ ~Is(m, "CASTLE") /\ ~Is(m, "CAPTURE")
    BY <1>1, <1>2, <2>2, PromotionParts
  <2> HIDE DEF m
  <2>4. Traced(b, Abstract(make_move(b, m)), m.from, m.to, q)
    BY <2>1, <2>2, <2>3, MovedTold
  <2>5. to \notin b.position_all[XSIDE(b.side)]
    BY <2>1, <2>3, SentOn
  <2>6. m = MoveTo(b, from, to, q)
    BY <1>3, <1>4, <2>5 DEF MoveTo, m
  <2>7. Told(b, m)
    BY <2>3, <2>4, <2>6 DEF Told
  <2> QED
    BY <2>1, <2>7 DEF m
<1>5. ASSUME from \notin BeforePromotion(b.side)
      PROVE  Sent(b, Normal(from, to, PAWN)) /\ Told(b, Normal(from, to, PAWN))
  <2> DEFINE m == Normal(from, to, PAWN)
  <2>1. Sent(b, m) /\ Abstract(make_move(b, m)) = Then(b, m, PAWN)
    BY <1>5, PawnGoesLeads
  <2>3. m.from = from /\ m.to = to /\ m.piece = PAWN /\ ~Is(m, "CASTLE") /\ ~Is(m, "CAPTURE")
    BY <1>1, <1>2, NormalParts
  <2> HIDE DEF m
  <2>4. Traced(b, Abstract(make_move(b, m)), m.from, m.to, PAWN)
    BY <1>1, <2>1, <2>3, MovedTold
  <2>5. to \notin b.position_all[XSIDE(b.side)]
    BY <2>1, <2>3, SentOn
  <2>6. m = MoveTo(b, from, to, PAWN)
    BY <1>3, <1>5, <2>5 DEF MoveTo, m
  <2>7. Told(b, m)
    BY <2>3, <2>4, <2>6 DEF Told
  <2> QED
    BY <2>1, <2>7 DEF m
<1> QED
  BY <1>4, <1>5

LEMMA PawnPassesTold ==
  ASSUME NEW b \in Boards, Fit(b), NEW from \in b.position[b.side][PAWN],
         b.epsq \in pawn_captures(b, from, b.side)
  PROVE  LET m == EnPassant(from, b.epsq)
         IN  Sent(b, m) /\ Told(b, m)
<1> DEFINE e == b.epsq
           g == get_eppawn(b)
           m == EnPassant(from, e)
           q == Abstract(make_move(b, m))
           was == Rules!Moved(Abstract(b), Pt(from), Pt(e), Man(b.side, PAWN))
           at == [Abstract(b).at EXCEPT ![Pt(from)] = Rules!Empty, ![Pt(e)] = Man(b.side, PAWN)]
<1>1. PAWN \in Pieces /\ b.side \in Colors /\ Sound(b) /\ XSIDE(b.side) \in Colors
  BY PieceNames, NamesAre DEF Boards, Fit
<1>2. /\ from \in Squares /\ e \in Squares /\ g \in Squares /\ g # e
      /\ g \in b.position[XSIDE(b.side)][PAWN] /\ Pt(g) = <<Pt(e)[1], Pt(from)[2]>>
  BY PassingPlaces
<1>3. Sent(b, m) /\ q = [was EXCEPT !.at[<<Pt(e)[1], Pt(from)[2]>>] = Rules!Empty]
  BY PawnPassesLeads
<1>4. was.at = at /\ DOMAIN was = {"at", "turn", "rights", "ep"}
  BY DEF Rules!Moved
<1>5. m.from = from /\ m.to = e /\ m.piece = PAWN /\ ~Is(m, "CASTLE")
  BY <1>2, EnPassantParts
<1>6. from \in b.position_all[b.side] /\ e \notin b.position_all[b.side]
  BY <1>3, <1>5, SentOn
<1>7. g \notin b.position_all[b.side]
  <2>1. g \in b.position_all[XSIDE(b.side)]
    BY <1>1, <1>2, MenOccupy
  <2> QED
    BY <1>1, <1>2, <2>1, Others
<1> HIDE DEF was, q, m, e, g
<1>8. q.at = [was.at EXCEPT ![Pt(g)] = Rules!Empty]
  BY <1>2, <1>3, <1>4
<1>9. Traced(b, q, from, e, PAWN)
  BY <1>1, <1>2, <1>4, <1>6, <1>7, <1>8, MovedTraced
<1>10. m = MoveTo(b, from, e, PAWN)
  BY DEF MoveTo, m, e
<1>11. Told(b, m)
  BY <1>5, <1>9, <1>10 DEF Told, q
<1> QED
  BY <1>3, <1>11 DEF m, e

\* Castling is told by the two squares that it leaves.
Jumped(b, q, f) ==
  LET c == Castle[f]
  IN  /\ f \in Flags /\ c.side = b.side /\ {c.king, c.rook} \subseteq b.position_all[b.side]
      /\ q.at[Pt(c.king)] = Rules!Empty /\ q.at[Pt(c.rook)] = Rules!Empty
      /\ \A z \in b.position_all[b.side] \ {c.king, c.rook} : q.at[Pt(z)] = Abstract(b).at[Pt(z)]

LEMMA CastlingTold ==
  ASSUME NEW b \in Boards, Fit(b), NEW m, Castles(b, m)
  PROVE  /\ Sent(b, m) /\ Is(m, "CASTLE")
         /\ \E f \in Flags : /\ m = Castling(Castle[f].king, Castle[f].to) /\ CanCastle(b, f)
                             /\ ~in_check(b) /\ Castle[f].side = b.side
                             /\ Jumped(b, Abstract(make_move(b, m)), f)
<1>1. PICK f \in Flags : /\ Castle[f].side = b.side /\ CanCastle(b, f)
                         /\ m = Castling(Castle[f].king, Castle[f].to) /\ ~in_check(b)
  BY CastlesAre
<1>2. PICK r \in Sides : f = Side[r]
  BY SideIs DEF Flags, Sides
<1> DEFINE c == Castle[f]
           s == b.side
           q == Abstract(make_move(b, m))
           t == MovePieces(b, m)
           at == Abstract(b).at
           bt == Abstract(t).at
           gone == {c.king, c.to, c.rook, c.rookto}
           come == {<<s, KING, c.to>>, <<s, ROOK, c.rookto>>}
<1>3. c.king \in Squares /\ c.to \in Squares /\ c.rook \in Squares /\ c.rookto \in Squares
  BY CastleTable
<1>4. /\ Sound(b) /\ FlagsFit(b) /\ s \in Colors /\ KING \in Pieces /\ ROOK \in Pieces
  BY PieceNames DEF Fit, Boards
<1>5. f \in b.flags /\ b.occupied \cap ray_bb[c.king][c.rook] = {}
  BY <1>1 DEF CanCastle
<1>6. HomeMen(b, f)
  BY <1>4, <1>5 DEF FlagsFit, HomeMen
<1>7. c.king \in b.position[s][KING] /\ c.rook \in b.position[s][ROOK]
  BY <1>1, <1>4, <1>6 DEF HomeMen, Sound, MenTold
<1>8. c.king \in b.position_all[s] /\ c.rook \in b.position_all[s] /\ b.position_all[s] \subseteq b.occupied
  <2>1. c.king \in b.position_all[s] /\ b.position_all[s] \subseteq b.occupied
    BY <1>4, <1>7, MenOccupy
  <2>2. c.rook \in b.position_all[s]
    BY <1>4, <1>7, MenOccupy
  <2> QED
    BY <2>1, <2>2
<1>9. /\ c.to \notin b.occupied /\ c.rookto \notin b.occupied
  BY <1>3, <1>5, CastleRays
<1>10. /\ Sent(b, m) /\ Fine(b, m)
  BY <1>1, <1>2, CastlingLeads
<1>11. Sound(t) /\ t \in Boards
  BY <1>10 DEF Fine, Kept, Sound
<1>12. q.at = bt
  <2>1. q = Led(b, m, bt)
    BY <1>4, <1>10, MoveLeads
  <2> QED
    BY <2>1 DEF Led
<1>13. Changed(b, t, gone, come)
  BY <1>1, <1>4, <1>5, <1>6, CastlingMen
<1>14. Is(m, "CASTLE")
  BY <1>1, <1>3, CastlingParts
<1> HIDE DEF gone, q, at, bt, t, s
<1>15. ASSUME NEW y \in Squares, y \notin {c.to, c.rookto}
       PROVE  /\ y \notin gone => bt[Pt(y)] = at[Pt(y)]
              /\ y \in gone => bt[Pt(y)] = Rules!Empty
  <2>1. \A d \in Colors : \A p \in Pieces : <<d, p, y>> \notin come
    BY <1>15
  <2> HIDE DEF come, c
  <2> QED
    BY <1>4, <1>11, <1>13, <2>1, MapChanged DEF at, bt
<1> HIDE DEF c
<1>16. c.king \notin {c.to, c.rookto} /\ c.rook \notin {c.to, c.rookto}
  BY <1>8, <1>9
<1>17. bt[Pt(c.king)] = Rules!Empty
  BY <1>3, <1>15, <1>16 DEF gone
<1>18. bt[Pt(c.rook)] = Rules!Empty
  BY <1>3, <1>15, <1>16 DEF gone
<1>19. \A z \in b.position_all[s] \ {c.king, c.rook} : bt[Pt(z)] = at[Pt(z)]
  <2>1. b.position_all[s] \subseteq Squares
    BY <1>4 DEF Boards
  <2>2. \A z \in b.position_all[s] : z \notin {c.to, c.rookto}
    BY <1>8, <1>9
  <2> QED
    BY <1>15, <2>1, <2>2 DEF gone
<1>20. Jumped(b, q, f)
  BY <1>1, <1>8, <1>12, <1>17, <1>18, <1>19 DEF Jumped, c, s, at
<1> QED
  BY <1>1, <1>10, <1>14, <1>20 DEF q

LEMMA JumpedOnce ==
  ASSUME NEW b \in Boards, Sound(b), NEW q, NEW f, Jumped(b, q, f)
  PROVE  /\ \A x, y, p : ~Traced(b, q, x, y, p)
         /\ \A g : Jumped(b, q, g) => f = g
<1> DEFINE c == Castle[f]
           own == b.position_all[b.side]
           at == Abstract(b).at
<1>1. b.side \in Colors /\ own \in SUBSET Squares
  BY DEF Boards
<1>2. /\ f \in Flags /\ c.side = b.side /\ c.king \in own /\ c.rook \in own
      /\ q.at[Pt(c.king)] = Rules!Empty /\ q.at[Pt(c.rook)] = Rules!Empty
  BY DEF Jumped
<1>3. c.king # c.rook
  BY <1>2, CastleRays
<1>4. \A z \in own : at[Pt(z)] # Rules!Empty
  <2>1. \A z \in own : z \in Squares /\ z \in b.occupied
    BY <1>1, PieceNames, MenOccupy
  <2> QED
    BY <2>1, Stands
<1>5. ASSUME NEW x, NEW y, NEW p, Traced(b, q, x, y, p) PROVE FALSE
  <2>1. /\ x \in own /\ y \notin own
        /\ \A z \in Squares \ {x, y} : z \in own => q.at[Pt(z)] = at[Pt(z)]
    BY <1>5 DEF Traced
  <2>2. PICK z \in {c.king, c.rook} : z # x
    BY <1>3
  <2> HIDE DEF own, at, c
  <2>3. z \in own /\ z \in Squares /\ z # y /\ q.at[Pt(z)] = Rules!Empty
    BY <1>1, <1>2, <2>1, <2>2
  <2> QED
    BY <1>4, <2>1, <2>2, <2>3
<1>6. ASSUME NEW g, Jumped(b, q, g) PROVE f = g
  <2> DEFINE d == Castle[g]
  <2>1. /\ g \in Flags /\ d.side = b.side
        /\ \A z \in own \ {d.king, d.rook} : q.at[Pt(z)] = at[Pt(z)]
    BY <1>6 DEF Jumped
  <2>2. c.rook \in {d.king, d.rook}
    BY <1>2, <1>4, <2>1
  <2>3. c.side = d.side
    BY <1>2, <2>1
  <2> QED
    BY <1>2, <2>1, <2>2, <2>3 DEF Castle, Flags, WHITE, BLACK
<1> QED
  BY <1>5, <1>6

LEMMA AttackOnBoard ==
  ASSUME NEW b \in Boards, NEW p \in Pieces \ {PAWN}, NEW sq \in Squares
  PROVE  piece_attacks(b, p, sq) \subseteq Squares
<1>1. /\ attack_bb[p][sq] \subseteq Squares /\ bishop_attacks(b, sq) \subseteq Squares
      /\ rook_attacks(b, sq) \subseteq Squares /\ queen_attacks(b, sq) \subseteq Squares
  BY AttacksTyped, WHITE \in Colors DEF Colors
<1>2. p \in {KNIGHT, BISHOP, ROOK, QUEEN, KING}
  BY DEF Pieces, PAWN, KNIGHT, BISHOP, ROOK, QUEEN, KING
<1> QED
  BY <1>1, <1>2 DEF piece_attacks

\* Every move is of one of the two kinds.
LEMMA AllTold ==
  ASSUME NEW b \in Boards, Fit(b), NEW m, Comes(b, m)
  PROVE  /\ Sent(b, m)
         /\ \/ ~Castles(b, m) /\ Told(b, m)
            \/ Castles(b, m) /\ Is(m, "CASTLE")
<1>1. /\ Sound(b) /\ b.side \in Colors /\ PAWN \in Pieces /\ is_legal(b)
  BY PieceNames DEF Fit, Boards
<1>2. ASSUME Castles(b, m) PROVE Sent(b, m) /\ Is(m, "CASTLE")
  BY <1>2, CastlingTold
<1>3. ASSUME ~Castles(b, m) PROVE Sent(b, m) /\ Told(b, m)
  <2>1. ASSUME PieceTakes(b, m) PROVE Sent(b, m) /\ Told(b, m)
    <3>1. PICK p \in Pieces \ {PAWN} : \E from \in b.position[b.side][p] :
            \E to \in piece_attacks(b, p, from) \cap b.position_all[XSIDE(b.side)] :
              m = Capture(from, to, p, piece_at(b, to))
      BY <2>1 DEF PieceTakes
    <3>2. PICK from \in b.position[b.side][p] :
            \E to \in piece_attacks(b, p, from) \cap b.position_all[XSIDE(b.side)] :
              m = Capture(from, to, p, piece_at(b, to))
      BY <3>1
    <3>3. PICK to \in piece_attacks(b, p, from) \cap b.position_all[XSIDE(b.side)] :
            m = Capture(from, to, p, piece_at(b, to))
      BY <3>2
    <3> QED
      BY <3>3, PieceTakesTold
  <2>2. ASSUME PieceGoes(b, m) PROVE Sent(b, m) /\ Told(b, m)
    <3>1. PICK p \in Pieces \ {PAWN} : \E from \in b.position[b.side][p] :
            \E to \in piece_attacks(b, p, from) \ b.occupied : m = Normal(from, to, p)
      BY <2>2 DEF PieceGoes
    <3>2. PICK from \in b.position[b.side][p] :
            \E to \in piece_attacks(b, p, from) \ b.occupied : m = Normal(from, to, p)
      BY <3>1
    <3>3. PICK to \in piece_attacks(b, p, from) \ b.occupied : m = Normal(from, to, p)
      BY <3>2
    <3>4. from \in Squares
      BY <1>1 DEF Boards
    <3>5. to \in Squares
      BY <3>4, AttackOnBoard
    <3> QED
      BY <3>3, <3>5, PieceGoesTold
  <2>3. ASSUME PawnTakesUp(b, m) PROVE Sent(b, m) /\ Told(b, m)
    <3>1. PICK from \in b.position[b.side][PAWN] \cap BeforePromotion(b.side) :
            \E to \in pawn_captures(b, from, b.side) \cap b.position_all[XSIDE(b.side)] :
              \E q \in Promoted : m = PromotionCapture(from, to, q, piece_at(b, to))
      BY <2>3 DEF PawnTakesUp
    <3>2. PICK to \in pawn_captures(b, from, b.side) \cap b.position_all[XSIDE(b.side)], q \in Promoted :
            m = PromotionCapture(from, to, q, piece_at(b, to))
      BY <3>1
    <3> QED
      BY <3>2, PawnTakesTold
  <2>4. ASSUME PawnGoesUp(b, m) PROVE Sent(b, m) /\ Told(b, m)
    <3>1. PICK from \in b.position[b.side][PAWN] \cap BeforePromotion(b.side) :
            \E to \in pawn_noncaptures(b, from, b.side) :
              \E q \in Promoted : m = Promotion(from, to, q)
      BY <2>4 DEF PawnGoesUp
    <3>2. PICK to \in pawn_noncaptures(b, from, b.side), q \in Promoted :
            m = Promotion(from, to, q)
      BY <3>1
    <3> QED
      BY <3>2, PawnGoesTold
  <2>5. ASSUME PawnTakesMan(b, m) PROVE Sent(b, m) /\ Told(b, m)
    <3>1. PICK from \in b.position[b.side][PAWN] \ BeforePromotion(b.side) :
            \E to \in pawn_captures(b, from, b.side) \cap b.position_all[XSIDE(b.side)] :
              m = Capture(from, to, PAWN, piece_at(b, to))
      BY <2>5 DEF PawnTakesMan
    <3>2. PICK to \in pawn_captures(b, from, b.side) \cap b.position_all[XSIDE(b.side)] :
            m = Capture(from, to, PAWN, piece_at(b, to))
      BY <3>1
    <3> QED
      BY <3>2, PawnTakesTold
  <2>6. ASSUME PawnPasses(b, m) PROVE Sent(b, m) /\ Told(b, m)
    <3>1. PICK from \in b.position[b.side][PAWN] \ BeforePromotion(b.side) :
            b.epsq \in pawn_captures(b, from, b.side) /\ m = EnPassant(from, b.epsq)
      BY <2>6 DEF PawnPasses
    <3> QED
      BY <3>1, PawnPassesTold
  <2>7. ASSUME PawnSteps(b, m) PROVE Sent(b, m) /\ Told(b, m)
    <3>1. PICK from \in b.position[b.side][PAWN] \ BeforePromotion(b.side) :
            \E to \in pawn_noncaptures(b, from, b.side) : m = Normal(from, to, PAWN)
      BY <2>7 DEF PawnSteps
    <3>2. PICK to \in pawn_noncaptures(b, from, b.side) : m = Normal(from, to, PAWN)
      BY <3>1
    <3> QED
      BY <3>2, PawnGoesTold
  <2> QED
    BY <1>3, <2>1, <2>2, <2>3, <2>4, <2>5, <2>6, <2>7 DEF Comes
<1> QED
  BY <1>2, <1>3

LEMMA MovesDiffer ==
  ASSUME NEW b \in Boards, Fit(b), NEW m, Comes(b, m), NEW n, Comes(b, n),
         Abstract(make_move(b, m)) = Abstract(make_move(b, n))
  PROVE  m = n
<1> DEFINE q == Abstract(make_move(b, m))
<1>1. Sound(b)
  BY DEF Fit
<1>2. ASSUME NEW k, Comes(b, k), q = Abstract(make_move(b, k))
      PROVE  \/ /\ ~Castles(b, k) /\ Traced(b, q, k.from, k.to, k.piece)
                /\ k = MoveTo(b, k.from, k.to, k.piece)
             \/ /\ Castles(b, k)
                /\ \E f \in Flags : k = Castling(Castle[f].king, Castle[f].to) /\ Jumped(b, q, f)
  <2>1. ASSUME ~Castles(b, k)
        PROVE  Traced(b, q, k.from, k.to, k.piece) /\ k = MoveTo(b, k.from, k.to, k.piece)
    BY <1>2, <2>1, AllTold DEF Told
  <2>2. ASSUME Castles(b, k)
        PROVE  \E f \in Flags : k = Castling(Castle[f].king, Castle[f].to) /\ Jumped(b, q, f)
    BY <1>2, <2>2, CastlingTold
  <2> QED
    BY <2>1, <2>2
<1>3. \/ /\ ~Castles(b, m) /\ Traced(b, q, m.from, m.to, m.piece)
         /\ m = MoveTo(b, m.from, m.to, m.piece)
      \/ /\ Castles(b, m)
         /\ \E f \in Flags : m = Castling(Castle[f].king, Castle[f].to) /\ Jumped(b, q, f)
  BY <1>2
<1>4. \/ /\ ~Castles(b, n) /\ Traced(b, q, n.from, n.to, n.piece)
         /\ n = MoveTo(b, n.from, n.to, n.piece)
      \/ /\ Castles(b, n)
         /\ \E f \in Flags : n = Castling(Castle[f].king, Castle[f].to) /\ Jumped(b, q, f)
  BY <1>2
<1> HIDE DEF q
<1>5. CASE ~Castles(b, m) /\ ~Castles(b, n)
  <2>1. m.from = n.from /\ m.to = n.to /\ m.piece = n.piece
    BY <1>1, <1>3, <1>4, <1>5, TracedOnce
  <2> QED
    BY <1>3, <1>4, <1>5, <2>1
<1>6. CASE Castles(b, m)
  <2>1. PICK f \in Flags : m = Castling(Castle[f].king, Castle[f].to) /\ Jumped(b, q, f)
    BY <1>3, <1>6
  <2>2. \A x, y, p : ~Traced(b, q, x, y, p)
    BY <1>1, <2>1, JumpedOnce
  <2>3. PICK g \in Flags : n = Castling(Castle[g].king, Castle[g].to) /\ Jumped(b, q, g)
    BY <1>4, <2>2
  <2>4. f = g
    BY <1>1, <2>1, <2>3, JumpedOnce
  <2> QED
    BY <2>1, <2>3, <2>4
<1>7. CASE Castles(b, n)
  <2>1. PICK f \in Flags : n = Castling(Castle[f].king, Castle[f].to) /\ Jumped(b, q, f)
    BY <1>4, <1>7
  <2>2. \A x, y, p : ~Traced(b, q, x, y, p)
    BY <1>1, <2>1, JumpedOnce
  <2>3. PICK g \in Flags : m = Castling(Castle[g].king, Castle[g].to) /\ Jumped(b, q, g)
    BY <1>3, <2>2
  <2>4. f = g
    BY <1>1, <2>1, <2>3, JumpedOnce
  <2> QED
    BY <2>1, <2>3, <2>4
<1> QED
  BY <1>5, <1>6, <1>7

LEMMA MovesFinite ==
  ASSUME NEW b \in Boards, Fit(b)
  PROVE  IsFiniteSet(generate_moves(b, TRUE))
<1> DEFINE S == generate_moves(b, TRUE)
           X == Squares \X Squares
           Y == Pieces \X BOOLEAN
           T == X \X Y
           G == [m \in S |-> <<<<m.from, m.to>>, <<m.piece, Castles(b, m)>>>>]
<1>1. \A m \in S : Comes(b, m)
  BY MovesAre DEF Fit
<1>2. ASSUME NEW m, Comes(b, m)
      PROVE  /\ m.from \in Squares /\ m.to \in Squares /\ m.piece \in Pieces
             /\ Castles(b, m) \in BOOLEAN
             /\ m = IF Castles(b, m) THEN Castling(m.from, m.to)
                                     ELSE MoveTo(b, m.from, m.to, m.piece)
  <2>1. m.from \in Squares /\ m.to \in Squares
    BY <1>2, AllTold DEF Sent
  <2>2. ASSUME ~Castles(b, m) PROVE m.piece \in Pieces /\ m = MoveTo(b, m.from, m.to, m.piece)
    BY <1>2, <2>2, AllTold DEF Told, Traced
  <2>3. ASSUME Castles(b, m) PROVE m.piece \in Pieces /\ m = Castling(m.from, m.to)
    <3>1. PICK f \in Flags : m = Castling(Castle[f].king, Castle[f].to)
      BY <2>3, CastlingTold
    <3>2. Castle[f].king \in Squares /\ Castle[f].to \in Squares
      BY CastleTable
    <3>3. m.piece = KING /\ m.from = Castle[f].king /\ m.to = Castle[f].to
      BY <3>1, <3>2, CastlingParts
    <3> QED
      BY <3>1, <3>3, PieceNames
  <2>4. Castles(b, m) \in BOOLEAN
    BY DEF Castles
  <2> QED
    BY <2>1, <2>2, <2>3, <2>4
<1>3. IsFiniteSet(T)
  <2>1. IsFiniteSet(Squares)
    BY FS_Interval, 0 \in Int, 63 \in Int DEF Squares
  <2>2. IsFiniteSet(Pieces)
    BY FS_Interval, PAWN \in Int, KING \in Int DEF Pieces, PAWN, KING
  <2>3. IsFiniteSet(BOOLEAN)
    <3>1. BOOLEAN = {TRUE, FALSE}
      OBVIOUS
    <3>2. IsFiniteSet({TRUE})
      BY FS_Singleton
    <3>3. IsFiniteSet({TRUE} \cup {FALSE})
      BY <3>2, FS_AddElement
    <3> QED
      BY <3>1, <3>3
  <2>4. IsFiniteSet(X)
    BY <2>1, FS_Product
  <2>5. IsFiniteSet(Y)
    BY <2>2, <2>3, FS_Product
  <2> QED
    BY <2>4, <2>5, FS_Product
<1>4. G \in Injection(S, T)
  <2>1. \A m \in S : <<<<m.from, m.to>>, <<m.piece, Castles(b, m)>>>> \in T
    BY <1>1, <1>2
  <2>2. ASSUME NEW m \in S, NEW n \in S, G[m] = G[n] PROVE m = n
    <3>1. m.from = n.from /\ m.to = n.to /\ m.piece = n.piece /\ Castles(b, m) = Castles(b, n)
      BY <2>2
    <3>2. m = IF Castles(b, m) THEN Castling(m.from, m.to) ELSE MoveTo(b, m.from, m.to, m.piece)
      BY <1>1, <1>2
    <3>3. n = IF Castles(b, n) THEN Castling(n.from, n.to) ELSE MoveTo(b, n.from, n.to, n.piece)
      BY <1>1, <1>2
    <3> QED
      BY <3>1, <3>2, <3>3
  <2> HIDE DEF S, T
  <2>3. G \in [S -> T]
    BY <2>1
  <2> HIDE DEF G
  <2> QED
    BY <2>2, <2>3 DEF Injection, IsInjective
<1> HIDE DEF S, G, T
<1>5. IsFiniteSet(S)
  BY <1>3, <1>4, FS_Injection
<1> QED
  BY <1>5 DEF S

LEMMA MovesCounted ==
  ASSUME NEW b \in Boards, Fit(b)
  PROVE  Cardinality(LegalMoves(b)) = Cardinality(Rules!Successors(Abstract(b)))
<1> DEFINE S == LegalMoves(b)
           T == Rules!Successors(Abstract(b))
           F == [m \in S |-> Abstract(make_move(b, m))]
<1>1. \A q : q \in T <=> \E m \in S : q = Abstract(make_move(b, m))
  BY SuccessorsAre
<1>2. \A m \in S : m \in generate_moves(b, TRUE) /\ Comes(b, m)
  <2>1. \A m : m \in generate_moves(b, TRUE) <=> Comes(b, m)
    BY MovesAre DEF Fit
  <2> QED
    BY <2>1 DEF LegalMoves, filter_illegal
<1>3. IsFiniteSet(S)
  <2> DEFINE A == generate_moves(b, TRUE)
  <2>1. IsFiniteSet(A)
    BY MovesFinite
  <2>2. S \subseteq A
    BY <1>2
  <2> HIDE DEF A, S
  <2> QED
    BY <2>1, <2>2, FS_Subset
<1>4. \A m, n \in S : Abstract(make_move(b, m)) = Abstract(make_move(b, n)) => m = n
  <2> SUFFICES ASSUME NEW m \in S, NEW n \in S, Abstract(make_move(b, m)) = Abstract(make_move(b, n))
               PROVE  m = n
    OBVIOUS
  <2> QED
    BY <1>2, MovesDiffer
<1> HIDE DEF S, T
<1>5. F \in [S -> T]
  BY <1>1
<1>6. \A m \in S : F[m] = Abstract(make_move(b, m))
  OBVIOUS
<1> HIDE DEF F
<1>7. \A m, n \in S : F[m] = F[n] => m = n
  BY <1>4, <1>6
<1>8. \A q \in T : \E m \in S : F[m] = q
  BY <1>1, <1>6
<1>9. F \in Bijection(S, T)
  BY <1>5, <1>7, <1>8 DEF Bijection, Injection, Surjection, IsInjective
<1>10. ExistsBijection(S, T)
  BY <1>9 DEF ExistsBijection
<1>11. Cardinality(T) = Cardinality(S)
  BY <1>3, <1>10, FS_Bijection
<1> QED
  BY <1>11 DEF S, T

-----------------------------------------------------------------------------
(***************************************************************************)
(* The assertions of make_move() hold.                                      *)
(***************************************************************************)
\* Where a move goes: as the man moves that it names.
Reaching(b, m) ==
  /\ ~Is(m, "CASTLE") /\ ~Is(m, "NULL")
  /\ IF ptype(m) # PAWN THEN m.to \in piece_attacks(b, ptype(m), m.from)
     ELSE IF Is(m, "CAPTURE") \/ Is(m, "ENPASSANT")
       THEN m.to \in pawn_captures(b, m.from, b.side)
     ELSE m.to \in pawn_noncaptures(b, m.from, b.side)
  /\ Is(m, "ENPASSANT") => ptype(m) = PAWN /\ ~Is(m, "CAPTURE") /\ m.to = b.epsq

LEMMA EachReaches ==
  ASSUME NEW b \in Boards, Fit(b), NEW m, Comes(b, m), ~Castles(b, m)
  PROVE  Reaching(b, m)
<1> DEFINE s == b.side
<1>1. /\ Sound(b) /\ s \in Colors /\ PAWN \in Pieces /\ is_legal(b) /\ PawnsWithin(b)
      /\ \A p \in Pieces : b.position[s][p] \subseteq Squares
  BY PieceNames DEF Fit, Boards
<1>2. ASSUME PieceTakes(b, m) PROVE Reaching(b, m)
  <2>1. PICK p \in Pieces \ {PAWN} : \E from \in b.position[s][p] :
          \E to \in piece_attacks(b, p, from) \cap b.position_all[XSIDE(s)] :
            m = Capture(from, to, p, piece_at(b, to))
    BY <1>2 DEF PieceTakes
  <2>2. PICK from \in b.position[s][p] :
          \E to \in piece_attacks(b, p, from) \cap b.position_all[XSIDE(s)] :
            m = Capture(from, to, p, piece_at(b, to))
    BY <2>1
  <2>3. PICK to \in piece_attacks(b, p, from) \cap b.position_all[XSIDE(s)] :
          m = Capture(from, to, p, piece_at(b, to))
    BY <2>2
  <2>4. from \in Squares /\ to \in Squares /\ piece_at(b, to) \in Pieces
    BY <1>1, AttackOnBoard, EnemyMan
  <2> QED
    BY <2>3, <2>4, CaptureParts DEF Reaching
<1>3. ASSUME PieceGoes(b, m) PROVE Reaching(b, m)
  <2>1. PICK p \in Pieces \ {PAWN} : \E from \in b.position[s][p] :
          \E to \in piece_attacks(b, p, from) \ b.occupied : m = Normal(from, to, p)
    BY <1>3 DEF PieceGoes
  <2>2. PICK from \in b.position[s][p] :
          \E to \in piece_attacks(b, p, from) \ b.occupied : m = Normal(from, to, p)
    BY <2>1
  <2>3. PICK to \in piece_attacks(b, p, from) \ b.occupied : m = Normal(from, to, p)
    BY <2>2
  <2>4. from \in Squares /\ to \in Squares
    BY <1>1, AttackOnBoard
  <2> QED
    BY <2>3, <2>4, NormalParts DEF Reaching
<1>4. ASSUME PawnTakesUp(b, m) \/ PawnTakesMan(b, m) PROVE Reaching(b, m)
  <2>1. PICK from \in b.position[s][PAWN] :
          \E to \in pawn_captures(b, from, s) \cap b.position_all[XSIDE(s)] :
            \/ m = Capture(from, to, PAWN, piece_at(b, to))
            \/ \E q \in Promoted : m = PromotionCapture(from, to, q, piece_at(b, to))
    BY <1>4 DEF PawnTakesUp, PawnTakesMan
  <2>2. PICK to \in pawn_captures(b, from, s) \cap b.position_all[XSIDE(s)] :
          \/ m = Capture(from, to, PAWN, piece_at(b, to))
          \/ \E q \in Promoted : m = PromotionCapture(from, to, q, piece_at(b, to))
    BY <2>1
  <2>3. from \in Squares /\ to \in Squares /\ piece_at(b, to) \in Pieces
    BY <1>1, EnemyMan
  <2>4. CASE m = Capture(from, to, PAWN, piece_at(b, to))
    BY <1>1, <2>3, <2>4, CaptureParts DEF Reaching
  <2>5. ASSUME NEW q \in Promoted, m = PromotionCapture(from, to, q, piece_at(b, to))
        PROVE  Reaching(b, m)
    BY <2>3, <2>5, PromotedFacts, PromotionCaptureParts DEF Reaching
  <2> QED
    BY <2>2, <2>4, <2>5
<1>5. ASSUME PawnGoesUp(b, m) \/ PawnSteps(b, m) PROVE Reaching(b, m)
  <2>1. PICK from \in b.position[s][PAWN] :
          \E to \in pawn_noncaptures(b, from, s) :
            m = Normal(from, to, PAWN) \/ \E q \in Promoted : m = Promotion(from, to, q)
    BY <1>5 DEF PawnGoesUp, PawnSteps
  <2>2. PICK to \in pawn_noncaptures(b, from, s) :
          m = Normal(from, to, PAWN) \/ \E q \in Promoted : m = Promotion(from, to, q)
    BY <2>1
  <2>3. from \in Squares /\ to \in Squares
    BY <1>1, PawnPlace, PawnGoes
  <2>4. CASE m = Normal(from, to, PAWN)
    BY <1>1, <2>3, <2>4, NormalParts DEF Reaching
  <2>5. ASSUME NEW q \in Promoted, m = Promotion(from, to, q)
        PROVE  Reaching(b, m)
    BY <2>3, <2>5, PromotedFacts, PromotionParts DEF Reaching
  <2> QED
    BY <2>2, <2>4, <2>5
<1>6. ASSUME PawnPasses(b, m) PROVE Reaching(b, m)
  <2>1. PICK from \in b.position[s][PAWN] :
          b.epsq \in pawn_captures(b, from, s) /\ m = EnPassant(from, b.epsq)
    BY <1>6 DEF PawnPasses
  <2>2. from \in Squares /\ b.epsq \in Squares
    BY <2>1, PassingPlaces
  <2> QED
    BY <2>1, <2>2, EnPassantParts DEF Reaching
<1> QED
  BY <1>2, <1>3, <1>4, <1>5, <1>6 DEF Comes

LEMMA ColorAt ==
  ASSUME NEW b \in Boards, Sound(b), NEW x \in Squares
  PROVE  /\ \A c \in Colors : x \in b.position_all[c] => color_at(b, x) = c
         /\ x \notin b.occupied => color_at(b, x) = -1
BY DEF Sound, MenTold, Colors, WHITE, BLACK, color_at

\* What make_move() asserts of a move holds of every one that is generated.
LEMMA EachAsserted ==
  ASSUME NEW b \in Boards, Fit(b), NEW m, Comes(b, m)
  PROVE  Asserted(b, m)
<1> DEFINE s == b.side
           x == XSIDE(s)
<1>1. /\ Sound(b) /\ s \in Colors /\ x \in Colors /\ s # x /\ FlagsFit(b)
      /\ b.occupied = b.position_all[s] \cup b.position_all[x]
      /\ b.position[x][KING] = {b.king[x]} /\ b.position[x][KING] \subseteq b.occupied
      /\ \A p, q \in Pieces : p # q => b.position[x][p] \cap b.position[x][q] = {}
  <2>1. s \in Colors /\ x \in Colors /\ s # x
    BY DEF Boards, Colors, WHITE, BLACK, XSIDE
  <2> QED
    BY <2>1, PieceNames, MenOccupy DEF Fit, Sound, MenTold, Colors, XSIDE, WHITE, BLACK
<1>2. Sent(b, m)
  BY AllTold
<1>3. m.to # b.king[x]
  BY <1>1, <1>2, PieceNames DEF Sent
<1>4. Is(m, "CAPTURE") => m.to \in b.position[x][m.cap_ptype]
  BY <1>2 DEF Sent
<1>5. ASSUME Castles(b, m) PROVE Asserted(b, m)
  <2>1. PICK f \in Flags : /\ m = Castling(Castle[f].king, Castle[f].to) /\ CanCastle(b, f)
                           /\ ~in_check(b) /\ Castle[f].side = s
    BY <1>5, CastlingTold
  <2>2. f \in b.flags /\ b.occupied \cap ray_bb[Castle[f].king][Castle[f].rook] = {}
    BY <2>1 DEF CanCastle
  <2>3. FlagOfCastling(m) = f /\ {Castle[f].to, Castle[f].rookto} \cap b.occupied = {}
    BY <2>1, <2>2, CastleRays
  <2>4. Is(m, "CASTLE") /\ ~Is(m, "CAPTURE") /\ ~Is(m, "ENPASSANT")
    BY <2>1, CastleTable, CastlingParts
  <2>5. RookReady(b, m)
    BY <1>1, <2>1, <2>2, <2>3 DEF RookReady, FlagsFit
  <2>6. is_valid_move(b, m)
    BY <2>1, <2>3, <2>4 DEF is_valid_move, is_valid_castling
  <2> QED
    BY <1>3, <2>4, <2>5, <2>6 DEF Asserted
<1>6. ASSUME ~Castles(b, m) PROVE Asserted(b, m)
  <2>1. Reaching(b, m)
    BY <1>6, EachReaches
  <2>2. Is(m, "ENPASSANT") => /\ ~Is(m, "CAPTURE") /\ m.to = b.epsq /\ ptype(m) = PAWN
                              /\ get_eppawn(b) \in b.position[x][PAWN]
    BY <2>1, <1>2, PassingPlaces DEF Reaching, Sent
  <2>3. color_at(b, m.from) = s /\ piece_at(b, m.from) = ptype(m)
    <3>1. m.from \in Squares /\ ptype(m) \in Pieces /\ m.from \in b.position[s][ptype(m)]
          /\ m.from \in b.position_all[s]
      BY <1>1, <1>2 DEF Sent, Sound, MenTold
    <3> QED
      BY <1>1, <3>1, ColorAt, ManAt
  <2>4. IF Is(m, "CAPTURE") THEN color_at(b, m.to) = x ELSE color_at(b, m.to) = -1
    <3>1. m.to \in Squares /\ IF Is(m, "CAPTURE") THEN m.to \in b.position_all[x]
                              ELSE m.to \notin b.occupied
      BY <1>1, <1>2 DEF Sent, Sound, MenTold
    <3> QED
      BY <1>1, <3>1, ColorAt
  <2>5. is_valid_move(b, m)
    BY <2>1, <2>2, <2>3, <2>4 DEF is_valid_move, Reaching
  <2>6. Is(m, "ENPASSANT") => m.to \notin b.occupied
    BY <1>2, <2>2 DEF Sent
  <2> QED
    BY <1>3, <1>4, <2>1, <2>2, <2>5, <2>6 DEF Asserted, Reaching
<1> QED
  BY <1>5, <1>6

-----------------------------------------------------------------------------
(***************************************************************************)
(* The moves with the common promotions only.                               *)
(***************************************************************************)
LEMMA FewCaptures ==
  ASSUME NEW b, NEW m
  PROVE  m \in generate_captures(b, FALSE) <=>
           /\ m \in generate_captures(b, TRUE)
           /\ Is(m, "PROMOTION") => m.piece \in {QUEEN, KNIGHT}
<1> DEFINE s == b.side
           theirs == b.position_all[XSIDE(s)]
           last == b.position[s][PAWN] \cap BeforePromotion(s)
           Up(from, all) ==
             {PromotionCapture(from, to, q, piece_at(b, to)) :
                to \in pawn_captures(b, from, s) \cap theirs, q \in Promotions(all)}
               \cup {Promotion(from, to, q) :
                     to \in pawn_noncaptures(b, from, s), q \in Promotions(all)}
           Pawn(from) ==
             {IF to = b.epsq THEN EnPassant(from, to) ELSE Capture(from, to, PAWN, piece_at(b, to)) :
                to \in pawn_captures(b, from, s) \ b.position_all[s]}
           Piece(p, from) ==
             {Capture(from, to, p, piece_at(b, to)) : to \in piece_attacks(b, p, from) \cap theirs}
           Rest1 == UNION {Pawn(from) : from \in b.position[s][PAWN] \ last}
           Rest2 == UNION {UNION {Piece(p, from) : from \in b.position[s][p]} : p \in KNIGHT .. QUEEN}
           Rest3 == Piece(KING, b.king[s])
<1>1. \A all \in BOOLEAN :
        generate_captures(b, all) = (UNION {Up(from, all) : from \in last}) \cup Rest1 \cup Rest2
                                      \cup Rest3
  BY DEF generate_captures
<1>2. /\ Promotions(FALSE) = {QUEEN, KNIGHT} /\ Promotions(TRUE) = Promoted
      /\ Promotions(FALSE) \subseteq Promotions(TRUE)
  BY DEF Promotions, Promoted
<1>3. /\ \A from, to, q, cap : Is(PromotionCapture(from, to, q, cap), "PROMOTION")
      /\ \A from, to, q : Is(Promotion(from, to, q), "PROMOTION")
      /\ \A from, to, q, cap : ~Is(Capture(from, to, q, cap), "PROMOTION")
      /\ \A from, to : ~Is(EnPassant(from, to), "PROMOTION")
      /\ \A q \in Promoted : \A from, to, cap : PromotionCapture(from, to, q, cap).piece = q
      /\ \A q \in Promoted : \A from, to : Promotion(from, to, q).piece = q
  BY DEF PromotionCapture, Promotion, Capture, EnPassant, Move, Is, Promoted, QUEEN, ROOK, BISHOP, KNIGHT
<1> DEFINE Raised(from, q) ==
             \/ \E to \in pawn_captures(b, from, s) \cap theirs :
                  m = PromotionCapture(from, to, q, piece_at(b, to))
             \/ \E to \in pawn_noncaptures(b, from, s) : m = Promotion(from, to, q)
<1>4. \A from : \A all \in BOOLEAN : m \in Up(from, all) <=> \E q \in Promotions(all) : Raised(from, q)
  OBVIOUS
<1>5. \A from : \A q \in Promoted : Raised(from, q) => Is(m, "PROMOTION") /\ m.piece = q
  <2>1. \A from : \A q \in Promoted : \A to, cap : m = PromotionCapture(from, to, q, cap) =>
          Is(m, "PROMOTION") /\ m.piece = q
    BY <1>3
  <2>2. \A from : \A q \in Promoted : \A to : m = Promotion(from, to, q) =>
          Is(m, "PROMOTION") /\ m.piece = q
    BY <1>3
  <2> QED
    BY <2>1, <2>2
<1> HIDE DEF Raised
<1>6. \A from : m \in Pawn(from) => ~Is(m, "PROMOTION")
  <2>1. \A from : m \in Pawn(from) <=> \E to \in pawn_captures(b, from, s) \ b.position_all[s] :
          m = IF to = b.epsq THEN EnPassant(from, to) ELSE Capture(from, to, PAWN, piece_at(b, to))
    OBVIOUS
  <2> HIDE DEF Pawn
  <2> QED
    BY <1>3, <2>1
<1>7. \A p, from : m \in Piece(p, from) => ~Is(m, "PROMOTION")
  <2>1. \A p, from : m \in Piece(p, from) <=> \E to \in piece_attacks(b, p, from) \cap theirs :
          m = Capture(from, to, p, piece_at(b, to))
    OBVIOUS
  <2> HIDE DEF Piece
  <2> QED
    BY <1>3, <2>1
<1> HIDE DEF Up
<1>8. \A from : /\ m \in Up(from, TRUE) <=> \E q \in Promoted : Raised(from, q)
                /\ m \in Up(from, FALSE) <=> \E q \in {QUEEN, KNIGHT} : Raised(from, q)
  BY <1>2, <1>4
<1>9. \A from : m \in Up(from, TRUE) => Is(m, "PROMOTION")
  BY <1>5, <1>8
<1>10. \A from : m \in Up(from, FALSE) <=>
                   m \in Up(from, TRUE) /\ Is(m, "PROMOTION") /\ m.piece \in {QUEEN, KNIGHT}
  BY <1>5, <1>8 DEF Promoted
<1> HIDE DEF Up, Pawn, Piece, last
<1>11. m \in Rest1 \cup Rest2 \cup Rest3 => ~Is(m, "PROMOTION")
  BY <1>6, <1>7
<1>12. m \in UNION {Up(from, FALSE) : from \in last} <=>
        /\ m \in UNION {Up(from, TRUE) : from \in last}
        /\ Is(m, "PROMOTION") /\ m.piece \in {QUEEN, KNIGHT}
  BY <1>10
<1>13. m \in UNION {Up(from, TRUE) : from \in last} => Is(m, "PROMOTION")
  BY <1>9
<1> HIDE DEF Rest1, Rest2, Rest3
<1> QED
  BY <1>1, <1>11, <1>12, <1>13

LEMMA FewMoves ==
  ASSUME NEW b \in Boards, Sound(b), EpFits(b), NEW m
  PROVE  m \in generate_moves(b, FALSE) <=>
           Comes(b, m) /\ (Is(m, "PROMOTION") => m.piece \in {QUEEN, KNIGHT})
<1>1. m \in generate_noncaptures(b) => ~Is(m, "PROMOTION")
  <2>1. \A from, to, p : ~Is(Normal(from, to, p), "PROMOTION") /\ ~Is(Castling(from, to), "PROMOTION")
    BY DEF Normal, Castling, Move, Is
  <2>2. Castles(b, m) => ~Is(m, "PROMOTION")
    <3> SUFFICES ASSUME Castles(b, m) PROVE ~Is(m, "PROMOTION")
      OBVIOUS
    <3> QED
      BY <2>1, CastlesAre
  <2>3. PieceGoes(b, m) \/ PawnSteps(b, m) => ~Is(m, "PROMOTION")
    BY <2>1 DEF PieceGoes, PawnSteps
  <2> QED
    BY <2>2, <2>3, NoncapturesAre
<1>2. Comes(b, m) <=> m \in generate_captures(b, TRUE) \/ m \in generate_noncaptures(b)
  BY MovesAre DEF generate_moves
<1> QED
  BY <1>1, <1>2, FewCaptures DEF generate_moves

-----------------------------------------------------------------------------
(***************************************************************************)
(* Lines of squares, as numbers: the squares of a line are apart by the     *)
(* same step.                                                               *)
(***************************************************************************)
Strides == {-9, -8, -7, -1, 1, 7, 8, 9}
OnLine(x, y, d, n) ==
  /\ d \in Strides /\ n \in 1 .. 7 /\ y = x + n * d
  /\ ray_bb[x][y] = {x + i * d : i \in 1 .. n - 1}

LEMMA LineIs ==
  ASSUME NEW x \in Squares, NEW y \in Squares, Straight(x, y) \/ Diagonal(x, y)
  PROVE  \E d \in Strides : \E n \in 1 .. 7 : OnLine(x, y, d, n)
<1>1. PICK f \in Units, r \in Units : \E n \in 1 .. 7 :
        ~(f = 0 /\ r = 0) /\ Pt(y) = Rules!Plus(Pt(x), <<f, r>>, n)
  BY AimIs
<1>2. PICK n \in 1 .. 7 : ~(f = 0 /\ r = 0) /\ Pt(y) = Rules!Plus(Pt(x), <<f, r>>, n)
  BY <1>1
<1>3. ray_bb[x][y] = {x + i * (8 * r + f) : i \in 1 .. n - 1}
  BY <1>2, RayIs
<1>4. f \in Int /\ r \in Int /\ n \in Int /\ n * f \in Int /\ n * r \in Int
  BY DEF Units
<1>5. Pt(y) = <<FIL(x) + n * f, RNK(x) + n * r>>
  BY <1>2, <1>4, PlusIs
<1>6. y = x + 8 * (n * r) + n * f
  <2>1. Pt(y) \in Rules!Squares
    BY PointsAre
  <2>2. x + 8 * (n * r) + n * f \in Squares /\ Pt(x + 8 * (n * r) + n * f) = Pt(y)
    BY <1>4, <1>5, <2>1, Along
  <2> QED
    BY <2>2, PointsAre
<1>7. 8 * r + f \in Strides
  BY <1>2 DEF Units, Strides
<1>8. y = x + n * (8 * r + f)
  <2>1. \A a, c, g, e \in Int : a + 8 * (c * g) + c * e = a + c * (8 * g + e)
    OBVIOUS
  <2>2. x \in Int
    BY DEF Squares
  <2> QED
    BY <1>4, <1>6, <2>1, <2>2
<1> QED
  BY <1>3, <1>7, <1>8 DEF OnLine

LEMMA BetweenThem ==
  ASSUME NEW x \in Squares, NEW y \in Squares, NEW z \in ray_bb[x][y]
  PROVE  z \in Squares /\ z # x /\ z # y /\ (Straight(x, y) \/ Diagonal(x, y))
<1>1. Straight(x, y) \/ Diagonal(x, y)
  BY DEF ray_bb
<1>2. PICK d \in Strides : \E n \in 1 .. 7 : OnLine(x, y, d, n)
  BY <1>1, LineIs
<1>3. PICK n \in 1 .. 7 : OnLine(x, y, d, n)
  BY <1>2
<1>4. PICK i \in 1 .. n - 1 : z = x + i * d
  BY <1>3 DEF OnLine
<1>5. y = x + n * d
  BY <1>3 DEF OnLine
<1>6. z \in Squares /\ z # x /\ z # y
  BY <1>4, <1>5 DEF Strides, Squares
<1> QED
  BY <1>1, <1>6

LEMMA StridesDiffer ==
  ASSUME NEW d \in Strides, NEW e \in Strides, NEW i \in 1 .. 6, NEW j \in 1 .. 6, i * d = j * e
  PROVE  d = e
<1>1. i \in {1, 2, 3, 4, 5, 6} /\ j \in {1, 2, 3, 4, 5, 6}
  OBVIOUS
<1> QED
  BY <1>1 DEF Strides

\* Two lines that end on one square and share another square lie in one another.
LEMMA LinesNest ==
  ASSUME NEW x \in Squares, NEW y \in Squares, NEW k \in Squares, x # y,
         NEW z \in ray_bb[x][k] \cap ray_bb[y][k]
  PROVE  x \in ray_bb[y][k] \/ y \in ray_bb[x][k]
<1>1. PICK d \in Strides : \E n \in 1 .. 7 : OnLine(x, k, d, n)
  BY BetweenThem, LineIs
<1>2. PICK n \in 1 .. 7 : OnLine(x, k, d, n)
  BY <1>1
<1>3. PICK e \in Strides : \E l \in 1 .. 7 : OnLine(y, k, e, l)
  BY BetweenThem, LineIs
<1>4. PICK l \in 1 .. 7 : OnLine(y, k, e, l)
  BY <1>3
<1>5. PICK i \in 1 .. n - 1 : z = x + i * d
  BY <1>2 DEF OnLine
<1>6. PICK j \in 1 .. l - 1 : z = y + j * e
  BY <1>4 DEF OnLine
<1>7. k = x + n * d /\ k = y + l * e /\ x \in Int /\ y \in Int /\ d \in Int /\ e \in Int
  BY <1>2, <1>4 DEF OnLine, Strides, Squares
<1>8. n - i \in 1 .. 6 /\ l - j \in 1 .. 6 /\ (n - i) * d = (l - j) * e
  <2>1. \A a, c, p, q, u, v, g, h \in Int :
          a + q * u = c + v * g /\ a + p * u = c + h * g => (q - p) * u = (v - h) * g
    OBVIOUS
  <2>2. (n - i) * d = (l - j) * e
    BY <1>5, <1>6, <1>7, <2>1
  <2> QED
    BY <2>2
<1>9. d = e
  BY <1>8, StridesDiffer
<1>10. n # l
  BY <1>7, <1>9
<1>11. CASE n < l
  <2>1. x = y + (l - n) * e
    <3>1. \A a, c, p, q, u \in Int : a + p * u = c + q * u => a = c + (q - p) * u
      OBVIOUS
    <3> QED
      BY <1>7, <1>9, <3>1
  <2>2. l - n \in 1 .. l - 1
    BY <1>11
  <2> QED
    BY <1>4, <2>1, <2>2 DEF OnLine
<1>12. CASE l < n
  <2>1. y = x + (n - l) * d
    <3>1. \A a, c, p, q, u \in Int : a + p * u = c + q * u => a = c + (q - p) * u
      OBVIOUS
    <3> QED
      BY <1>7, <1>9, <3>1
  <2>2. n - l \in 1 .. n - 1
    BY <1>12
  <2> QED
    BY <1>2, <2>1, <2>2 DEF OnLine
<1> QED
  BY <1>10, <1>11, <1>12

\* A line that holds the square that a pawn came from and the one that it passed
\* goes on to the square where it stands, or ends there.
LEMMA FileHeld ==
  ASSUME NEW x \in Squares, NEW k \in Squares, NEW g \in {8, -8}, NEW o,
         o \in ray_bb[x][k], o + g \in ray_bb[x][k]
  PROVE  o + 2 * g \in ray_bb[x][k] \cup {x, k}
<1>1. PICK d \in Strides : \E n \in 1 .. 7 : OnLine(x, k, d, n)
  BY BetweenThem, LineIs
<1>2. PICK n \in 1 .. 7 : OnLine(x, k, d, n)
  BY <1>1
<1>3. PICK i \in 1 .. n - 1 : o = x + i * d
  BY <1>2 DEF OnLine
<1>4. PICK j \in 1 .. n - 1 : o + g = x + j * d
  BY <1>2 DEF OnLine
<1>5. x \in Int /\ d \in Int /\ k = x + n * d /\ o \in Int /\ g \in Int
  BY <1>2, <1>3 DEF OnLine, Strides, Squares
<1>6. (j - i) * d = g
  <2>1. \A a, p, q, u, v, w \in Int : v = a + p * u /\ v + w = a + q * u => (q - p) * u = w
    OBVIOUS
  <2> QED
    BY <1>3, <1>4, <1>5, <2>1
<1>7. j - i = 1 \/ j - i = -1
  <2>1. j - i \in -5 .. 5
    OBVIOUS
  <2>2. \A u \in -5 .. 5 : u * d = g => u = 1 \/ u = -1
    BY DEF Strides
  <2> QED
    BY <1>6, <2>1, <2>2
<1>8. o + 2 * g = x + (2 * j - i) * d
  <2>1. \A a, p, q, u, v, w \in Int :
          v = a + p * u /\ v + w = a + q * u => v + 2 * w = a + (2 * q - p) * u
    OBVIOUS
  <2> QED
    BY <1>3, <1>4, <1>5, <2>1
<1>9. 2 * j - i \in 0 .. n
  BY <1>7
<1>10. CASE 2 * j - i \in 1 .. n - 1
  BY <1>2, <1>8, <1>10 DEF OnLine
<1>11. CASE 2 * j - i = 0
  BY <1>5, <1>8, <1>11
<1>12. CASE 2 * j - i = n
  BY <1>5, <1>8, <1>12
<1> QED
  BY <1>9, <1>10, <1>11, <1>12

-----------------------------------------------------------------------------
(***************************************************************************)
(* Checks and what ends them.                                               *)
(***************************************************************************)
Sliders == {BISHOP, ROOK, QUEEN}
Aims(p, x, y) ==
  \/ p \in {ROOK, QUEEN} /\ Straight(x, y)
  \/ p \in {BISHOP, QUEEN} /\ Diagonal(x, y)

LEMMA ReachIs ==
  ASSUME NEW b, NEW c \in Colors, NEW p \in Pieces, NEW x \in Squares, NEW y
  PROVE  /\ p \in Sliders =>
              (y \in Reach(b, c, p, x) <=>
                 y \in Squares /\ Aims(p, x, y) /\ ray_bb[x][y] \cap b.occupied = {})
         /\ p \notin Sliders =>
              Reach(b, c, p, x) = IF p = PAWN THEN pawn_capt_bb[c][x] ELSE attack_bb[p][x]
<1>1. p = PAWN \/ p = KNIGHT \/ p = BISHOP \/ p = ROOK \/ p = QUEEN \/ p = KING
  BY DEF Pieces, PAWN, KNIGHT, BISHOP, ROOK, QUEEN, KING
<1>2. /\ KNIGHT \notin {BISHOP, ROOK, QUEEN, PAWN} /\ KING \notin {BISHOP, ROOK, QUEEN, PAWN}
      /\ BISHOP \notin {KNIGHT, KING, PAWN, ROOK, QUEEN}
      /\ ROOK \notin {KNIGHT, KING, PAWN, BISHOP, QUEEN}
      /\ QUEEN \notin {KNIGHT, KING, PAWN, BISHOP, ROOK}
  BY DEF PAWN, KNIGHT, BISHOP, ROOK, QUEEN, KING
<1>3. CASE p \in {PAWN, KNIGHT, KING}
  BY <1>2, <1>3 DEF Reach, Sliders, piece_attacks
<1>4. CASE p = BISHOP
  <2>1. Reach(b, c, p, x) = bishop_attacks(b, x)
    BY <1>2, <1>4 DEF Reach, piece_attacks
  <2> QED
    BY <1>2, <1>4, <2>1, Sliding DEF Aims, Sliders
<1>5. CASE p = ROOK
  <2>1. Reach(b, c, p, x) = rook_attacks(b, x)
    BY <1>2, <1>5 DEF Reach, piece_attacks
  <2> QED
    BY <1>2, <1>5, <2>1, Sliding DEF Aims, Sliders
<1>6. CASE p = QUEEN
  <2>1. Reach(b, c, p, x) = bishop_attacks(b, x) \cup rook_attacks(b, x)
    BY <1>2, <1>6 DEF Reach, piece_attacks, queen_attacks
  <2> QED
    BY <1>2, <1>6, <2>1, Sliding DEF Aims, Sliders
<1> QED
  BY <1>1, <1>3, <1>4, <1>5, <1>6

\* No man reaches the square where it stands.
LEMMA ReachAway ==
  ASSUME NEW b, NEW c \in Colors, NEW p \in Pieces, NEW x \in Squares
  PROVE  x \notin Reach(b, c, p, x)
<1>1. Ranks(x, x) = 0 /\ Files(x, x) = 0
  BY RankOf DEF Ranks, Files
<1>2. ~Straight(x, x) /\ ~Diagonal(x, x)
  BY DEF Straight, Diagonal
<1>3. x \notin pawn_capt_bb[c][x]
  BY <1>1 DEF pawn_capt_bb, Abs
<1>4. p \in {KNIGHT, KING} => x \notin attack_bb[p][x]
  <2>1. Abs(0) = 0 /\ Larger(0, 0) = 0 /\ {0, 0} # {1, 2}
    BY DEF Abs, Larger
  <2>2. attack_bb[KNIGHT][x]
          = {to \in Squares : {Abs(Ranks(x, to)), Abs(Files(x, to))} = {1, 2}}
    BY DEF attack_bb, Pieces, PAWN, KNIGHT, BISHOP, ROOK, QUEEN, KING
  <2>3. attack_bb[KING][x]
          = {to \in Squares : Larger(Abs(Ranks(x, to)), Abs(Files(x, to))) = 1}
    BY DEF attack_bb, Pieces, PAWN, KNIGHT, BISHOP, ROOK, QUEEN, KING
  <2> QED
    BY <1>1, <2>1, <2>2, <2>3
<1>5. p \notin Sliders => p = PAWN \/ p \in {KNIGHT, KING}
  BY DEF Sliders, Pieces, PAWN, KNIGHT, BISHOP, ROOK, QUEEN, KING
<1> QED
  BY <1>2, <1>3, <1>4, <1>5, ReachIs DEF Aims

\* attackers() returns the men that reach a square.
LEMMA AttackersAre ==
  ASSUME NEW b \in Boards, Sound(b), NEW c \in Colors, NEW t \in Squares, NEW y
  PROVE  y \in attackers(b, t, c) <=>
           \E p \in Pieces : y \in b.position[c][p] /\ t \in Reach(b, c, p, y)
<1>1. /\ XSIDE(c) \in Colors /\ XSIDE(XSIDE(c)) = c /\ PAWN \in Pieces
      /\ \A p \in Pieces : b.position[c][p] \subseteq Squares /\ b.position[c][p] \subseteq b.occupied
  BY NamesAre, PieceNames, MenOccupy
<1>2. y \in pawn_captures(b, t, XSIDE(c)) \cap b.position[c][PAWN] <=>
        y \in b.position[c][PAWN] /\ t \in Reach(b, c, PAWN, y)
  BY <1>1, PawnTakes DEF pawn_captures, Reach
<1>3. \A p \in Pieces \ {PAWN} :
        y \in piece_attacks(b, p, t) \cap b.position[c][p] <=>
          y \in b.position[c][p] /\ t \in Reach(b, c, p, y)
  BY <1>1, AttackBack DEF Reach
<1>4. y \in attackers(b, t, c) <=>
        \/ y \in pawn_captures(b, t, XSIDE(c)) \cap b.position[c][PAWN]
        \/ \E p \in Pieces \ {PAWN} : y \in piece_attacks(b, p, t) \cap b.position[c][p]
  BY DEF attackers
<1> QED
  BY <1>1, <1>2, <1>3, <1>4

\* A man that stays where it is still reaches what it did, if nothing has come
\* between.
LEMMA ReachKept ==
  ASSUME NEW b, NEW r, NEW c \in Colors, NEW p \in Pieces, NEW x \in Squares,
         NEW y \in Reach(b, c, p, x), y \notin Reach(r, c, p, x)
  PROVE  /\ p \in Sliders /\ Aims(p, x, y) /\ y \in Squares
         /\ ray_bb[x][y] \cap b.occupied = {} /\ ray_bb[x][y] \cap r.occupied # {}
<1>1. p \in Sliders
  <2> SUFFICES ASSUME p \notin Sliders PROVE FALSE
    OBVIOUS
  <2>1. Reach(b, c, p, x) = (IF p = PAWN THEN pawn_capt_bb[c][x] ELSE attack_bb[p][x])
    BY ReachIs
  <2>2. Reach(r, c, p, x) = (IF p = PAWN THEN pawn_capt_bb[c][x] ELSE attack_bb[p][x])
    BY ReachIs
  <2> QED
    BY <2>1, <2>2
<1>2. y \in Squares /\ Aims(p, x, y) /\ ray_bb[x][y] \cap b.occupied = {}
  BY <1>1, ReachIs
<1>3. ~(y \in Squares /\ Aims(p, x, y) /\ ray_bb[x][y] \cap r.occupied = {})
  BY <1>1, ReachIs
<1> QED
  BY <1>1, <1>2, <1>3

\* The men after a move that is no castling.
Gone(b, m) == {m.from, m.to} \cup (IF Is(m, "ENPASSANT") THEN {get_eppawn(b)} ELSE {})

LEMMA MenMoved ==
  ASSUME NEW b \in Boards, Fit(b), NEW m, Comes(b, m), ~Castles(b, m)
  PROVE  /\ Changed(b, MovePieces(b, m), Gone(b, m), {<<b.side, m.piece, m.to>>})
         /\ m.piece \in Pieces /\ (m.piece = KING <=> ptype(m) = KING)
<1> DEFINE s == b.side
           Good == /\ Changed(b, MovePieces(b, m), Gone(b, m), {<<s, m.piece, m.to>>})
                   /\ m.piece \in Pieces /\ (m.piece = KING <=> ptype(m) = KING)
<1>1. /\ Sound(b) /\ s \in Colors /\ PAWN \in Pieces /\ is_legal(b) /\ PawnsWithin(b) /\ EpFits(b)
      /\ \A p \in Pieces : b.position[s][p] \subseteq Squares
      /\ PAWN # KING /\ KING \notin Promoted /\ Promoted \subseteq Pieces
  BY PieceNames DEF Fit, Boards, Promoted, KNIGHT, BISHOP, ROOK, QUEEN, KING
<1>7. ASSUME NEW from, NEW to, NEW q \in Pieces, m.from = from, m.to = to, m.piece = q,
             ~Is(m, "ENPASSANT"), q = KING <=> ptype(m) = KING,
             Changed(b, MovePieces(b, m), {from, to}, {<<s, q, to>>})
      PROVE  Good
  <2>1. Gone(b, m) = {from, to}
    BY <1>7 DEF Gone
  <2> QED
    BY <1>7, <2>1
<1> HIDE DEF Good
<1>2. ASSUME PieceTakes(b, m) PROVE Good
  <2>1. PICK p \in Pieces \ {PAWN} : \E from \in b.position[s][p] :
          \E to \in piece_attacks(b, p, from) \cap b.position_all[XSIDE(s)] :
            m = Capture(from, to, p, piece_at(b, to))
    BY <1>2 DEF PieceTakes
  <2>2. PICK from \in b.position[s][p] :
          \E to \in piece_attacks(b, p, from) \cap b.position_all[XSIDE(s)] :
            m = Capture(from, to, p, piece_at(b, to))
    BY <2>1
  <2>3. PICK to \in piece_attacks(b, p, from) \cap b.position_all[XSIDE(s)] :
          m = Capture(from, to, p, piece_at(b, to))
    BY <2>2
  <2>4. from \in Squares /\ to \in Squares /\ piece_at(b, to) \in Pieces \ {KING}
        /\ to \in b.position[XSIDE(s)][piece_at(b, to)]
    BY <1>1, AttackOnBoard, EnemyMan
  <2>5. Changed(b, MovePieces(b, m), {from, to}, {<<s, p, to>>})
    BY <1>1, <2>3, <2>4, CaptureMen
  <2> QED
    <3>1. m.from = from /\ m.to = to /\ m.piece = p /\ ptype(m) = p /\ ~Is(m, "ENPASSANT")
      BY <2>3, <2>4, CaptureParts
    <3> QED
      BY <1>7, <2>5, <3>1
<1>3. ASSUME PieceGoes(b, m) PROVE Good
  <2>1. PICK p \in Pieces \ {PAWN} : \E from \in b.position[s][p] :
          \E to \in piece_attacks(b, p, from) \ b.occupied : m = Normal(from, to, p)
    BY <1>3 DEF PieceGoes
  <2>2. PICK from \in b.position[s][p] :
          \E to \in piece_attacks(b, p, from) \ b.occupied : m = Normal(from, to, p)
    BY <2>1
  <2>3. PICK to \in piece_attacks(b, p, from) \ b.occupied : m = Normal(from, to, p)
    BY <2>2
  <2>4. from \in Squares /\ to \in Squares
    BY <1>1, AttackOnBoard
  <2>5. Changed(b, MovePieces(b, m), {from, to}, {<<s, p, to>>})
    BY <1>1, <2>3, <2>4, NormalMen
  <2> QED
    BY <1>7, <2>3, <2>4, <2>5, NormalParts
<1>4. ASSUME PawnTakesUp(b, m) \/ PawnTakesMan(b, m) PROVE Good
  <2>1. PICK from \in b.position[s][PAWN] :
          \E to \in pawn_captures(b, from, s) \cap b.position_all[XSIDE(s)] :
            \/ m = Capture(from, to, PAWN, piece_at(b, to))
            \/ \E q \in Promoted : m = PromotionCapture(from, to, q, piece_at(b, to))
    BY <1>4 DEF PawnTakesUp, PawnTakesMan
  <2>2. PICK to \in pawn_captures(b, from, s) \cap b.position_all[XSIDE(s)] :
          \/ m = Capture(from, to, PAWN, piece_at(b, to))
          \/ \E q \in Promoted : m = PromotionCapture(from, to, q, piece_at(b, to))
    BY <2>1
  <2>3. from \in Squares /\ to \in Squares /\ piece_at(b, to) \in Pieces \ {KING}
        /\ to \in b.position[XSIDE(s)][piece_at(b, to)]
    BY <1>1, EnemyMan
  <2>4. ASSUME m = Capture(from, to, PAWN, piece_at(b, to)) PROVE Good
    <3>1. Changed(b, MovePieces(b, m), {from, to}, {<<s, PAWN, to>>})
      BY <1>1, <2>3, <2>4, CaptureMen
    <3> QED
      <4>1. m.from = from /\ m.to = to /\ m.piece = PAWN /\ ptype(m) = PAWN
            /\ ~Is(m, "ENPASSANT")
        BY <1>1, <2>3, <2>4, CaptureParts
      <4> QED
        BY <1>1, <1>7, <3>1, <4>1
  <2>5. ASSUME NEW q \in Promoted, m = PromotionCapture(from, to, q, piece_at(b, to))
        PROVE  Good
    <3>1. Changed(b, MovePieces(b, m), {from, to}, {<<s, q, to>>})
      BY <1>1, <2>3, <2>5, PromotionCaptureMen
    <3> QED
      <4>1. q \in Pieces /\ q # KING /\ m.from = from /\ m.to = to /\ m.piece = q /\ ptype(m) = PAWN
            /\ ~Is(m, "ENPASSANT")
        BY <1>1, <2>3, <2>5, PromotionCaptureParts
      <4> QED
        BY <1>1, <1>7, <3>1, <4>1
  <2> QED
    BY <2>2, <2>4, <2>5
<1>5. ASSUME PawnGoesUp(b, m) \/ PawnSteps(b, m) PROVE Good
  <2>1. PICK from \in b.position[s][PAWN] :
          \E to \in pawn_noncaptures(b, from, s) :
            m = Normal(from, to, PAWN) \/ \E q \in Promoted : m = Promotion(from, to, q)
    BY <1>5 DEF PawnGoesUp, PawnSteps
  <2>2. PICK to \in pawn_noncaptures(b, from, s) :
          m = Normal(from, to, PAWN) \/ \E q \in Promoted : m = Promotion(from, to, q)
    BY <2>1
  <2>3. from \in Squares /\ to \in Squares /\ to \notin b.occupied
    BY <1>1, PawnPlace, PawnGoes
  <2>4. ASSUME m = Normal(from, to, PAWN) PROVE Good
    <3>1. Changed(b, MovePieces(b, m), {from, to}, {<<s, PAWN, to>>})
      BY <1>1, <2>3, <2>4, NormalMen
    <3> QED
      <4>1. m.from = from /\ m.to = to /\ m.piece = PAWN /\ ptype(m) = PAWN
            /\ ~Is(m, "ENPASSANT")
        BY <1>1, <2>3, <2>4, NormalParts
      <4> QED
        BY <1>1, <1>7, <3>1, <4>1
  <2>5. ASSUME NEW q \in Promoted, m = Promotion(from, to, q) PROVE Good
    <3>1. Changed(b, MovePieces(b, m), {from, to}, {<<s, q, to>>})
      BY <1>1, <2>3, <2>5, PromotionMen
    <3> QED
      <4>1. q \in Pieces /\ q # KING /\ m.from = from /\ m.to = to /\ m.piece = q /\ ptype(m) = PAWN
            /\ ~Is(m, "ENPASSANT")
        BY <1>1, <2>3, <2>5, PromotionParts
      <4> QED
        BY <1>1, <1>7, <3>1, <4>1
  <2> QED
    BY <2>2, <2>4, <2>5
<1>6. ASSUME PawnPasses(b, m) PROVE Good
  <2>1. PICK from \in b.position[s][PAWN] :
          b.epsq \in pawn_captures(b, from, s) /\ m = EnPassant(from, b.epsq)
    BY <1>6 DEF PawnPasses
  <2>2. from \in Squares /\ b.epsq \in Squares /\ b.epsq # NO_SQUARE
    BY <2>1, PassingPlaces
  <2>3. Changed(b, MovePieces(b, m), {from, b.epsq, get_eppawn(b)}, {<<s, PAWN, b.epsq>>})
    BY <1>1, <2>1, <2>2, EnPassantMen
  <2>4. /\ m.from = from /\ m.to = b.epsq /\ m.piece = PAWN /\ ptype(m) = PAWN
        /\ Is(m, "ENPASSANT")
    BY <2>1, <2>2, EnPassantParts
  <2>5. Gone(b, m) = {from, b.epsq, get_eppawn(b)}
    BY <2>4 DEF Gone
  <2> QED
    BY <1>1, <2>3, <2>4, <2>5 DEF Good
<1> QED
  BY <1>2, <1>3, <1>4, <1>5, <1>6 DEF Comes, Good

\* The same for the board that make_move() leaves: whose turn it is, what the king
\* does and which squares are occupied.
LEMMA MenAfter ==
  ASSUME NEW b \in Boards, Fit(b), NEW m, Comes(b, m), ~Castles(b, m)
  PROVE  LET r == make_move(b, m)
         IN  /\ Sound(r) /\ r \in Boards /\ r.side = XSIDE(b.side)
             /\ Changed(b, r, Gone(b, m), {<<b.side, m.piece, m.to>>})
             /\ r.king[b.side] = IF ptype(m) = KING THEN m.to ELSE b.king[b.side]
             /\ \A z \in Squares : z \in r.occupied <=>
                                     (z \in b.occupied /\ z \notin Gone(b, m)) \/ z = m.to
<1> DEFINE r == make_move(b, m)
           s == b.side
           x == XSIDE(s)
<1>1. s \in Colors /\ x \in Colors /\ s # x /\ XSIDE(x) = s /\ Sound(b) /\ FlagsFit(b) /\ PawnsWithin(b)
      /\ EpFits(b)
  BY NamesAre DEF Fit, Boards
<1>2. Fine(b, m)
  BY <1>1, MovesAre, MovesFine DEF Fit
<1>3. Sound(r) /\ SameMen(MovePieces(b, m), r) /\ r.side = x
  <2>1. m.from \in Squares /\ m.to \in Squares /\ Kept(b, MovePieces(b, m), m)
    BY <1>2 DEF Fine
  <2> QED
    BY <2>1, MoveMade DEF Kept
<1>4. Sent(b, m)
  BY AllTold
<1>5. /\ Changed(b, MovePieces(b, m), Gone(b, m), {<<s, m.piece, m.to>>})
      /\ m.piece \in Pieces /\ (m.piece = KING <=> ptype(m) = KING)
  BY MenMoved
<1> HIDE DEF r
<1>6. Changed(b, r, Gone(b, m), {<<s, m.piece, m.to>>})
  BY <1>3, <1>5 DEF SameMen, Changed
<1>7. r \in Boards /\ r.position[s][KING] = {r.king[s]} /\ b.position[s][KING] = {b.king[s]}
      /\ b.king[s] \in Squares /\ r.king[s] \in Squares
  BY <1>1, <1>3, PieceNames DEF Sound, MenTold, Boards
<1>8. m.from \in Squares /\ m.to \in Squares /\ ptype(m) \in Pieces /\ m.from \in b.position[s][ptype(m)]
      /\ m.to \notin b.position_all[s] /\ m.to # b.king[s]
  <2>1. m.to \notin b.position_all[s]
    BY <1>4, SentOn
  <2>2. b.king[s] \in b.position_all[s]
    BY <1>1, <1>7, PieceNames, MenOccupy
  <2> QED
    BY <1>4, <2>1, <2>2 DEF Sent
<1>9. r.king[s] = IF ptype(m) = KING THEN m.to ELSE b.king[s]
  <2>1. \A y \in Squares : y \in r.position[s][KING] <=>
          (y \in b.position[s][KING] /\ y \notin Gone(b, m)) \/ <<s, KING, y>> = <<s, m.piece, m.to>>
    BY <1>1, <1>6, PieceNames DEF Changed
  <2>2. ptype(m) = KING => r.king[s] = m.to
    BY <1>5, <1>7, <1>8, <2>1
  <2>3. ptype(m) # KING => r.king[s] = b.king[s]
    <3> SUFFICES ASSUME ptype(m) # KING PROVE r.king[s] = b.king[s]
      OBVIOUS
    <3>1. b.king[s] # m.from
      <4>1. m.from \notin b.position[s][KING]
        BY <1>1, <1>8, PieceNames DEF Sound, MenTold
      <4> QED
        BY <1>7, <4>1
    <3>2. Is(m, "ENPASSANT") => b.king[s] # get_eppawn(b)
      <4> SUFFICES ASSUME Is(m, "ENPASSANT") PROVE b.king[s] # get_eppawn(b)
        OBVIOUS
      <4>1. ptype(m) = PAWN /\ m.to = b.epsq /\ m.to \in pawn_captures(b, m.from, s)
        BY EachReaches DEF Reaching
      <4>2. get_eppawn(b) \in b.position[x][PAWN]
        BY <1>8, <4>1, PassingPlaces
      <4>3. get_eppawn(b) \in Squares
        BY <1>1, <4>2, PieceNames, MenOccupy
      <4>4. get_eppawn(b) \notin b.position[s][KING]
        BY <1>1, <4>2, <4>3, PieceNames DEF Sound, MenTold
      <4> QED
        BY <1>7, <4>4
    <3>3. b.king[s] \notin Gone(b, m)
      BY <1>8, <3>1, <3>2 DEF Gone
    <3> QED
      BY <1>7, <2>1, <3>3
  <2> QED
    BY <2>2, <2>3
<1>10. ASSUME NEW z \in Squares
       PROVE  z \in r.occupied <=> (z \in b.occupied /\ z \notin Gone(b, m)) \/ z = m.to
  <2>1. z \in r.occupied <=> \E c \in Colors : \E p \in Pieces : z \in r.position[c][p]
    BY <1>3 DEF Sound, MenTold, Colors
  <2>2. z \in b.occupied <=> \E c \in Colors : \E p \in Pieces : z \in b.position[c][p]
    BY <1>1 DEF Sound, MenTold, Colors
  <2>3. \A c \in Colors : \A p \in Pieces : z \in r.position[c][p] <=>
          (z \in b.position[c][p] /\ z \notin Gone(b, m)) \/ (c = s /\ p = m.piece /\ z = m.to)
    BY <1>6 DEF Changed
  <2> QED
    BY <1>1, <1>5, <2>1, <2>2, <2>3
<1> QED
  BY <1>3, <1>6, <1>7, <1>9, <1>10 DEF r

\* The squares that an attacker stands on, and what it is.
LEMMA CheckerIs ==
  ASSUME NEW b \in Boards, Fit(b), NEW c \in attackers(b, b.king[b.side], XSIDE(b.side))
  PROVE  LET x == XSIDE(b.side)
         IN  /\ c \in Squares /\ c \in b.position_all[x] /\ c \in b.occupied /\ c # b.epsq
             /\ b.king[b.side] \in Squares /\ b.king[b.side] \in b.occupied
             /\ piece_at(b, c) \in Pieces \ {KING} /\ c \in b.position[x][piece_at(b, c)]
             /\ b.king[b.side] \in Reach(b, x, piece_at(b, c), c)
<1> DEFINE s == b.side
           x == XSIDE(s)
           k == b.king[s]
<1>1. /\ s \in Colors /\ x \in Colors /\ Sound(b) /\ XSIDE(x) = s /\ k \in Squares
      /\ b.position[s][KING] = {k} /\ b.position[x][KING] = {b.king[x]}
  BY NamesAre DEF Fit, Boards, Sound, MenTold
<1>2. PICK p \in Pieces : c \in b.position[x][p] /\ k \in Reach(b, x, p, c)
  BY <1>1, AttackersAre
<1>3. c \in Squares /\ c \in b.position_all[x] /\ c \in b.occupied /\ k \in b.occupied
  BY <1>1, <1>2, PieceNames, MenOccupy
<1>4. piece_at(b, c) = p
  BY <1>1, <1>2, <1>3, ManAt
<1>5. c # b.epsq
  BY <1>3 DEF Fit, EpFits, Squares, NO_SQUARE
<1>6. p # KING
  <2> SUFFICES ASSUME p = KING PROVE FALSE
    OBVIOUS
  <2>1. c = b.king[x] /\ KING \in Pieces \ {PAWN} /\ KING # PAWN
    BY <1>1, <1>2, PieceNames
  <2>2. k \in piece_attacks(b, KING, c)
    BY <1>2, <2>1 DEF Reach
  <2>3. c \in piece_attacks(b, KING, k)
    BY <1>3, <2>1, <2>2, AttackBack
  <2> QED
    BY <1>1, <2>1, <2>3, KingSafe DEF Fit
<1> QED
  BY <1>1, <1>2, <1>3, <1>4, <1>5, <1>6

\* A move of another man ends a check: it takes the checker or steps between.
LEMMA CheckEnded ==
  ASSUME NEW b \in Boards, Fit(b), NEW m, Comes(b, m), is_legal_move(b, m), ~Castles(b, m),
         ptype(m) # KING, NEW c \in attackers(b, b.king[b.side], XSIDE(b.side))
  PROVE  \/ c = m.to
         \/ Is(m, "ENPASSANT") /\ c = get_eppawn(b)
         \/ /\ piece_at(b, c) \in Sliders /\ Aims(piece_at(b, c), c, b.king[b.side])
            /\ m.to \in ray_bb[c][b.king[b.side]] /\ ray_bb[c][b.king[b.side]] \cap b.occupied = {}
<1> DEFINE s == b.side
           x == XSIDE(s)
           k == b.king[s]
           p == piece_at(b, c)
           r == make_move(b, m)
<1>1. /\ s \in Colors /\ x \in Colors /\ s # x /\ XSIDE(x) = s /\ Sound(b)
  BY NamesAre DEF Fit, Boards
<1>2. /\ c \in Squares /\ c \in b.position_all[x] /\ c \in b.occupied /\ k \in Squares
      /\ p \in Pieces /\ c \in b.position[x][p] /\ k \in Reach(b, x, p, c)
  BY CheckerIs
<1>3. /\ Sound(r) /\ r \in Boards /\ r.side = x /\ r.king[s] = k
      /\ Changed(b, r, Gone(b, m), {<<s, m.piece, m.to>>})
      /\ \A z \in Squares : z \in r.occupied <=>
                              (z \in b.occupied /\ z \notin Gone(b, m)) \/ z = m.to
  BY MenAfter
<1>4. ~is_attacked(r, k, x)
  BY <1>1, <1>3 DEF is_legal_move, is_legal
<1> HIDE DEF r, p, k
<1>5. m.from \in b.position_all[s] /\ m.to \in Squares
  BY AllTold, SentOn
<1>6. c # m.from
  BY <1>1, <1>2, <1>5 DEF Sound, MenTold
<1>7. CASE c \in Gone(b, m)
  BY <1>6, <1>7 DEF Gone
<1>8. CASE c \notin Gone(b, m)
  <2>1. c \in r.position[x][p]
    BY <1>1, <1>2, <1>3, <1>8 DEF Changed
  <2>2. k \notin Reach(r, x, p, c)
    BY <1>1, <1>2, <1>3, <1>4, <2>1, AttackMeans
  <2>3. /\ p \in Sliders /\ Aims(p, c, k) /\ ray_bb[c][k] \cap b.occupied = {}
        /\ ray_bb[c][k] \cap r.occupied # {}
    <3> HIDE DEF x
    <3> QED
      BY <1>1, <1>2, <2>2, ReachKept
  <2>4. PICK z \in ray_bb[c][k] : z \in r.occupied
    BY <2>3
  <2>5. z \in Squares
    BY <1>2, BetweenThem
  <2>6. z = m.to
    BY <1>3, <2>3, <2>4, <2>5
  <2> QED
    BY <2>3, <2>4, <2>6 DEF p, k
<1> QED
  BY <1>7, <1>8

\* A capture en passant ends no check by stepping between: before the pawn passed
\* the line would have been open, or the pawn stands on it now.
LEMMA PassingBetween ==
  ASSUME NEW b \in Boards, Consistent(b), NEW c \in attackers(b, b.king[b.side], XSIDE(b.side)),
         piece_at(b, c) \in Sliders, Aims(piece_at(b, c), c, b.king[b.side]), b.epsq # NO_SQUARE,
         ray_bb[c][b.king[b.side]] \cap b.occupied = {}
  PROVE  b.epsq \notin ray_bb[c][b.king[b.side]]
<1> DEFINE s == b.side
           x == XSIDE(s)
           k == b.king[s]
           p == piece_at(b, c)
           e == b.epsq
           o == e + (IF s = WHITE THEN 8 ELSE -8)
           g == get_eppawn(b)
           u == move_piece(b, g, o, x, PAWN)
<1>1. /\ s \in Colors /\ x \in Colors /\ s # x /\ XSIDE(x) = s /\ Fit(b) /\ Sound(b)
      /\ e \in Squares
  BY NamesAre, FitIs DEF Fit, Boards
<1>2. /\ c \in Squares /\ c \in b.position_all[x] /\ c \in b.occupied /\ k \in Squares
      /\ p \in Pieces /\ c \in b.position[x][p] /\ k \in Reach(b, x, p, c)
  BY <1>1, CheckerIs
<1>3. /\ RNK(e) = (IF s = WHITE THEN 5 ELSE 2)
      /\ o \notin b.occupied /\ g \in b.position[x][PAWN] /\ ~is_attacked(u, k, x)
  BY DEF Consistent, EpFits, EpEarned
<1>4. g = o + 2 * (IF s = WHITE THEN -8 ELSE 8) /\ e = o + (IF s = WHITE THEN -8 ELSE 8)
      /\ o \in Int
  <2>1. CASE s = WHITE
    BY <1>1, <1>3, <2>1 DEF get_eppawn, Squares
  <2>2. CASE s # WHITE
    BY <1>1, <1>3, <2>2 DEF get_eppawn, Squares
  <2> QED
    BY <2>1, <2>2
<1>5. o \in Squares
  <2>1. RNK(e) \in {2, 5} /\ e \in 8 .. 55
    <3>1. RNK(e) \in {2, 5}
      BY <1>3
    <3> QED
      BY <1>1, <3>1 DEF RNK, Squares
  <2> QED
    BY <2>1 DEF Squares
<1>6. g \in Squares /\ g \in b.occupied /\ g # k
  <2>1. g \in Squares /\ g \in b.occupied
    BY <1>1, <1>3, PieceNames, MenOccupy
  <2>2. k \in b.position[s][KING]
    BY <1>1 DEF Sound, MenTold
  <2>3. g # k
    BY <1>1, <1>3, <2>1, <2>2, PieceNames DEF Sound, MenTold
  <2> QED
    BY <2>1, <2>3
<1> HIDE DEF g, o, u, p, k, e
<1>7. /\ Changed(b, u, {g, o}, {<<x, PAWN, o>>}) /\ u \in Boards /\ Sound(u)
      /\ u.occupied = (b.occupied \ {g}) \cup {o}
  <2> HIDE DEF s, x
  <2>1. /\ Sound(b) /\ x \in Colors /\ g \in Squares /\ o \in Squares /\ PAWN \in Pieces
        /\ g \in b.position[x][PAWN] /\ o \notin b.occupied
    BY <1>1, <1>3, <1>5, <1>6, PieceNames
  <2>2. Changed(b, u, {g, o}, {<<x, PAWN, o>>}) /\ u \in Boards /\ Sound(u)
    BY <2>1, MovedMen DEF u
  <2>3. u.occupied = (b.occupied \ {g}) \cup {o}
    <3>1. Repositioned(b, u, x, PAWN, b.position[x][PAWN], (b.position[x][PAWN] \ {g}) \cup {o})
      BY <2>1, MoveSound DEF u
    <3>2. b.position[x][PAWN] \subseteq b.occupied
      BY <2>1, MenOccupy
    <3> QED
      BY <2>1, <3>1, <3>2 DEF Repositioned
  <2> QED
    BY <2>2, <2>3
<1>8. c # g /\ c # o
  <2>1. PAWN \notin Sliders
    BY DEF Sliders, PAWN, BISHOP, ROOK, QUEEN
  <2>2. p # PAWN
    BY <2>1 DEF p
  <2>3. c # g
    BY <1>1, <1>2, <1>3, <2>2, PieceNames DEF Sound, MenTold
  <2> QED
    BY <1>2, <1>3, <2>3
<1>9. c \in u.position[x][p]
  BY <1>1, <1>2, <1>7, <1>8 DEF Changed
<1>10. k \notin Reach(u, x, p, c)
  BY <1>1, <1>2, <1>3, <1>7, <1>9, AttackMeans
<1>11. ray_bb[c][k] \cap u.occupied # {}
  BY <1>1, <1>2, <1>10, ReachKept
<1>12. o \in ray_bb[c][k]
  BY <1>7, <1>11 DEF k
<1> SUFFICES ASSUME e \in ray_bb[c][k] PROVE FALSE
  BY DEF e, k
<1>13. g \in ray_bb[c][k] \cup {c, k}
  <2>1. CASE s = WHITE
    <3>1. o + (-8) = e /\ o + 2 * (-8) = g /\ -8 \in {8, -8}
      BY <1>4, <2>1
    <3> QED
      BY <1>2, <1>12, <3>1, FileHeld
  <2>2. CASE s # WHITE
    <3>1. o + 8 = e /\ o + 2 * 8 = g /\ 8 \in {8, -8}
      BY <1>4, <2>2
    <3> QED
      BY <1>2, <1>12, <3>1, FileHeld
  <2> QED
    BY <2>1, <2>2
<1> QED
  BY <1>6, <1>8, <1>13 DEF k

\* No move of another man ends two checks.
LEMMA TwoChecks ==
  ASSUME NEW b \in Boards, Consistent(b), NEW m, Comes(b, m), is_legal_move(b, m), ~Castles(b, m),
         ptype(m) # KING, NEW c \in attackers(b, b.king[b.side], XSIDE(b.side)),
         NEW d \in attackers(b, b.king[b.side], XSIDE(b.side))
  PROVE  c = d
<1> DEFINE k == b.king[b.side]
           Between(z) == /\ piece_at(b, z) \in Sliders /\ Aims(piece_at(b, z), z, k)
                         /\ m.to \in ray_bb[z][k] /\ ray_bb[z][k] \cap b.occupied = {}
<1>1. Fit(b)
  BY FitIs
<1>2. /\ c \in Squares /\ c \in b.occupied /\ c # b.epsq /\ k \in Squares
      /\ d \in Squares /\ d \in b.occupied /\ d # b.epsq
  BY <1>1, CheckerIs
<1>3. Is(m, "ENPASSANT") => m.to = b.epsq /\ b.epsq # NO_SQUARE
  <2> SUFFICES ASSUME Is(m, "ENPASSANT") PROVE m.to = b.epsq /\ b.epsq # NO_SQUARE
    OBVIOUS
  <2>1. m.to = b.epsq
    BY <1>1, EachReaches DEF Reaching
  <2>2. m.to \in Squares
    BY <1>1, AllTold, SentOn
  <2> QED
    BY <2>1, <2>2 DEF Squares, NO_SQUARE
<1>4. c = m.to \/ (Is(m, "ENPASSANT") /\ c = get_eppawn(b)) \/ Between(c)
  BY <1>1, CheckEnded
<1>5. d = m.to \/ (Is(m, "ENPASSANT") /\ d = get_eppawn(b)) \/ Between(d)
  BY <1>1, CheckEnded
<1>6. Between(c) => ~Is(m, "ENPASSANT") /\ d # m.to
  BY <1>2, <1>3, PassingBetween
<1>7. Between(d) => ~Is(m, "ENPASSANT") /\ c # m.to
  BY <1>2, <1>3, PassingBetween
<1>8. ASSUME Between(c), Between(d) PROVE c = d
  <2> SUFFICES ASSUME c # d PROVE FALSE
    OBVIOUS
  <2>1. m.to \in ray_bb[c][k] \cap ray_bb[d][k]
    BY <1>8
  <2>2. c \in ray_bb[d][k] \/ d \in ray_bb[c][k]
    BY <1>2, <2>1, LinesNest
  <2> QED
    BY <1>2, <1>8, <2>2
<1> HIDE DEF Between
<1> QED
  BY <1>2, <1>3, <1>4, <1>5, <1>6, <1>7, <1>8

-----------------------------------------------------------------------------
(***************************************************************************)
(* generate_escapes(): what add_move() adds.                                *)
(***************************************************************************)
LEMMA LastRank ==
  ASSUME NEW b \in Boards, Fit(b), NEW from \in b.position[b.side][PAWN], NEW to,
         \/ to \in pawn_captures(b, from, b.side) \/ to \in pawn_noncaptures(b, from, b.side)
  PROVE  /\ to \in Squares
         /\ to \in PromotionRank(b.side) <=> from \in BeforePromotion(b.side)
<1> DEFINE s == b.side
<1>1. s \in Colors /\ PawnsWithin(b) /\ Sound(b)
  BY DEF Fit, Boards
<1>2. /\ from \in Squares /\ RNK(from) \in 1 .. 6
      /\ from \in BeforePromotion(s) <=> RNK(from) = (IF s = WHITE THEN 6 ELSE 1)
  BY <1>1, PawnPlace
<1>3. \A y \in Squares : y \in PromotionRank(s) <=> RNK(y) = (IF s = WHITE THEN 7 ELSE 0)
  BY RankOf DEF PromotionRank
<1>4. CASE to \in pawn_captures(b, from, s)
  <2>1. to \in Squares /\ RNK(to) = RNK(from) + (IF s = WHITE THEN 1 ELSE -1)
    BY <1>1, <1>2, <1>4, PawnTakes DEF pawn_captures
  <2> QED
    BY <1>2, <1>3, <2>1
<1>5. CASE to \in pawn_noncaptures(b, from, s)
  <2>1. to \in Squares
    BY <1>1, <1>2, <1>5, PawnGoes
  <2>2. \/ to = Ahead(s, from)
        \/ to = TwiceAhead(s, from) /\ RNK(from) = StartRank(s)
    BY <1>1, <1>2, <1>5, StepsAre
  <2>3. /\ s = WHITE => to = from + 8 \/ (to = from + 16 /\ RNK(from) = 1)
        /\ s # WHITE => to = from - 8 \/ (to = from - 16 /\ RNK(from) = 6)
    BY <2>2 DEF Ahead, TwiceAhead, StartRank
  <2>4. /\ to = from + 8 => RNK(to) = RNK(from) + 1
        /\ to = from + 16 => RNK(to) = RNK(from) + 2
        /\ to = from - 8 => RNK(to) = RNK(from) - 1
        /\ to = from - 16 => RNK(to) = RNK(from) - 2
    BY <1>2, <2>1 DEF RNK, Squares
  <2> QED
    BY <1>2, <1>3, <2>1, <2>3, <2>4
<1> QED
  BY <1>4, <1>5

\* A man goes from one square to another.
Goes(b, p, from, to) ==
  /\ p \in Pieces /\ from \in b.position[b.side][p] /\ to \in Squares \ b.position_all[b.side]
  /\ IF p # PAWN THEN to \in piece_attacks(b, p, from)
     ELSE /\ to # b.epsq
          /\ IF to \in b.position_all[XSIDE(b.side)] THEN to \in pawn_captures(b, from, b.side)
             ELSE to \in pawn_noncaptures(b, from, b.side)
Few(m) == Is(m, "PROMOTION") => m.piece \in {QUEEN, KNIGHT}

Added(b, p, from, to, m) ==
  LET theirs == b.position_all[XSIDE(b.side)]
      cap == piece_at(b, to)
  IN  IF p = PAWN /\ from \in BeforePromotion(b.side)
        THEN \E q \in {QUEEN, KNIGHT} :
               m = IF to \in theirs THEN PromotionCapture(from, to, q, cap)
                   ELSE Promotion(from, to, q)
        ELSE m = IF to \in theirs THEN Capture(from, to, p, cap) ELSE Normal(from, to, p)

LEMMA AddIs ==
  ASSUME NEW b \in Boards, Fit(b), NEW p, NEW from, NEW to, Goes(b, p, from, to), NEW m
  PROVE  m \in add_move(b, from, to, FALSE) <=> Added(b, p, from, to, m)
<1> DEFINE theirs == b.position_all[XSIDE(b.side)]
           cap == piece_at(b, to)
<1>1. b.side \in Colors /\ Sound(b)
  BY DEF Fit, Boards
<1>2. p \in Pieces /\ from \in b.position[b.side][p] /\ from \in Squares /\ to \in Squares
  BY <1>1, MenOccupy DEF Goes
<1>3. piece_at(b, from) = p
  BY <1>1, <1>2, ManAt
<1>4. p = PAWN => to # b.epsq
  BY DEF Goes
<1>5. p = PAWN => (to \in PromotionRank(b.side) <=> from \in BeforePromotion(b.side))
  BY <1>2, LastRank DEF Goes
<1>6. Promotions(FALSE) = {QUEEN, KNIGHT}
  BY DEF Promotions
<1> HIDE DEF theirs, cap
<1>7. add_move(b, from, to, FALSE) =
        IF p = PAWN /\ from \in BeforePromotion(b.side)
          THEN IF to \in theirs THEN {PromotionCapture(from, to, q, cap) : q \in {QUEEN, KNIGHT}}
               ELSE {Promotion(from, to, q) : q \in {QUEEN, KNIGHT}}
          ELSE IF to \in theirs THEN {Capture(from, to, p, cap)} ELSE {Normal(from, to, p)}
  BY <1>3, <1>4, <1>5, <1>6 DEF add_move, theirs, cap
<1>8. /\ m \in {PromotionCapture(from, to, q, cap) : q \in {QUEEN, KNIGHT}} <=>
           \E q \in {QUEEN, KNIGHT} : m = PromotionCapture(from, to, q, cap)
      /\ m \in {Promotion(from, to, q) : q \in {QUEEN, KNIGHT}} <=>
           \E q \in {QUEEN, KNIGHT} : m = Promotion(from, to, q)
  OBVIOUS
<1> QED
  BY <1>7, <1>8 DEF theirs, cap, Added

\* What is added comes, and it is all that comes from and to these squares.
LEMMA AddedComes ==
  ASSUME NEW b \in Boards, Fit(b), NEW p, NEW from, NEW to, Goes(b, p, from, to),
         NEW m \in add_move(b, from, to, FALSE)
  PROVE  Comes(b, m) /\ Few(m)
<1> DEFINE s == b.side
           theirs == b.position_all[XSIDE(s)]
           cap == piece_at(b, to)
           up == p = PAWN /\ from \in BeforePromotion(s)
<1>1. s \in Colors /\ Sound(b)
  BY DEF Fit, Boards
<1>2. /\ p \in Pieces /\ from \in b.position[s][p] /\ from \in Squares /\ to \in Squares
      /\ to \notin b.position_all[s]
  BY <1>1, MenOccupy DEF Goes
<1>3. to \notin theirs => to \notin b.occupied
  BY <1>2, Others, <1>1
<1>4. {QUEEN, KNIGHT} \subseteq Promoted
  BY DEF Promoted
<1>5. Added(b, p, from, to, m)
  BY AddIs
<1>6. Few(m)
  <2>1. /\ \A q \in {QUEEN, KNIGHT} : PromotionCapture(from, to, q, cap).piece = q
        /\ \A q \in {QUEEN, KNIGHT} : Promotion(from, to, q).piece = q
        /\ ~Is(Capture(from, to, p, cap), "PROMOTION") /\ ~Is(Normal(from, to, p), "PROMOTION")
    BY DEF PromotionCapture, Promotion, Capture, Normal, Move, Is, QUEEN, KNIGHT
  <2>2. CASE up
    <3>1. PICK q \in {QUEEN, KNIGHT} : m = IF to \in theirs THEN PromotionCapture(from, to, q, cap)
                                           ELSE Promotion(from, to, q)
      BY <1>5, <2>2 DEF Added
    <3> QED
      BY <2>1, <3>1 DEF Few
  <2>3. CASE ~up
    <3>1. m = IF to \in theirs THEN Capture(from, to, p, cap) ELSE Normal(from, to, p)
      BY <1>5, <2>3 DEF Added
    <3> QED
      BY <2>1, <3>1 DEF Few
  <2> QED
    BY <2>2, <2>3
<1>7. CASE p # PAWN
  <2>1. m = IF to \in theirs THEN Capture(from, to, p, cap) ELSE Normal(from, to, p)
    BY <1>7, <1>5 DEF Added
  <2>2. to \in piece_attacks(b, p, from)
    BY <1>7 DEF Goes
  <2>3. CASE to \in theirs
    <3>1. PieceTakes(b, m)
      BY <1>2, <1>7, <2>1, <2>2, <2>3 DEF PieceTakes
    <3> QED
      BY <1>6, <3>1 DEF Comes
  <2>4. CASE to \notin theirs
    <3>1. PieceGoes(b, m)
      BY <1>2, <1>3, <1>7, <2>1, <2>2, <2>4 DEF PieceGoes
    <3> QED
      BY <1>6, <3>1 DEF Comes
  <2> QED
    BY <2>3, <2>4
<1>8. CASE p = PAWN
  <2>1. IF to \in theirs THEN to \in pawn_captures(b, from, s) ELSE to \in pawn_noncaptures(b, from, s)
    BY <1>8 DEF Goes
  <2>2. CASE from \in BeforePromotion(s)
    <3>1. PICK q \in {QUEEN, KNIGHT} : m = IF to \in theirs THEN PromotionCapture(from, to, q, cap)
                                           ELSE Promotion(from, to, q)
      BY <1>8, <1>5, <2>2 DEF Added
    <3>2. PawnTakesUp(b, m) \/ PawnGoesUp(b, m)
      BY <1>2, <1>4, <1>8, <2>1, <2>2, <3>1 DEF PawnTakesUp, PawnGoesUp
    <3> QED
      BY <1>6, <3>2 DEF Comes
  <2>3. CASE from \notin BeforePromotion(s)
    <3>1. m = IF to \in theirs THEN Capture(from, to, p, cap) ELSE Normal(from, to, p)
      BY <1>5, <2>3 DEF Added
    <3>2. PawnTakesMan(b, m) \/ PawnSteps(b, m)
      BY <1>2, <1>8, <2>1, <2>3, <3>1 DEF PawnTakesMan, PawnSteps
    <3> QED
      BY <1>6, <3>2 DEF Comes
  <2> QED
    BY <2>2, <2>3
<1> QED
  BY <1>7, <1>8

LEMMA ComesAdded ==
  ASSUME NEW b \in Boards, Fit(b), NEW m, Comes(b, m), Few(m), ~Castles(b, m),
         ~Is(m, "ENPASSANT")
  PROVE  Goes(b, ptype(m), m.from, m.to) /\ m \in add_move(b, m.from, m.to, FALSE)
<1> DEFINE s == b.side
           p == ptype(m)
           from == m.from
           to == m.to
           theirs == b.position_all[XSIDE(s)]
           cap == piece_at(b, to)
<1>1. s \in Colors /\ Sound(b)
  BY DEF Fit, Boards
<1>2. /\ p \in Pieces /\ from \in b.position[s][p] /\ from \in Squares /\ to \in Squares
      /\ to \notin b.position_all[s] /\ (p # PAWN => from \notin b.position[s][PAWN])
      /\ Is(m, "CAPTURE") <=> to \in theirs
  BY AllTold, SentOn DEF Sent
<1>3. m = MoveTo(b, from, to, m.piece)
  BY AllTold DEF Told
<1>4. Reaching(b, m)
  BY EachReaches
<1>5. p = PAWN => to # b.epsq
  <2>1. p = PAWN /\ to = b.epsq => m = EnPassant(from, to)
    BY <1>2, <1>3 DEF MoveTo
  <2> QED
    BY <1>2, <2>1, EnPassantParts
<1>6. Goes(b, p, from, to)
  BY <1>2, <1>4, <1>5 DEF Goes, Reaching
<1>7. CASE p = PAWN /\ from \in BeforePromotion(s)
  <2>1. m = IF to \in theirs THEN PromotionCapture(from, to, m.piece, cap)
            ELSE Promotion(from, to, m.piece)
    BY <1>2, <1>3, <1>5, <1>7 DEF MoveTo
  <2>2. Is(m, "PROMOTION")
    <3>1. \A q : /\ Is(PromotionCapture(from, to, q, cap), "PROMOTION")
                 /\ Is(Promotion(from, to, q), "PROMOTION")
      BY DEF PromotionCapture, Promotion, Move, Is
    <3> HIDE DEF from, to, cap
    <3> QED
      BY <2>1, <3>1
  <2>3. m.piece \in {QUEEN, KNIGHT}
    BY <2>2 DEF Few
  <2> HIDE DEF p, from, to, theirs, cap
  <2> QED
    BY <1>6, <1>7, <2>1, <2>3, AddIs DEF theirs, cap, from, to, p, Added
<1>8. CASE ~(p = PAWN /\ from \in BeforePromotion(s))
  <2>1. m = IF to \in theirs THEN Capture(from, to, p, cap) ELSE Normal(from, to, p)
    <3>1. p = PAWN => m = IF to \in theirs THEN Capture(from, to, p, cap) ELSE Normal(from, to, p)
      BY <1>2, <1>3, <1>5, <1>8 DEF MoveTo
    <3>2. p # PAWN => m = IF to \in theirs THEN Capture(from, to, m.piece, cap)
                          ELSE Normal(from, to, m.piece)
      BY <1>2, <1>3 DEF MoveTo
    <3>3. p # PAWN => ptype(m) = m.piece
      BY DEF ptype
    <3> QED
      BY <3>1, <3>2, <3>3
  <2> HIDE DEF p, from, to, theirs, cap
  <2> QED
    BY <1>6, <1>8, <2>1, AddIs DEF theirs, cap, from, to, p, Added
<1> QED
  BY <1>6, <1>7, <1>8

-----------------------------------------------------------------------------
(***************************************************************************)
(* generate_escapes(): steps between checker and king.                      *)
(***************************************************************************)
\* A step of a pawn passes no man.
LEMMA StepRay ==
  ASSUME NEW x \in Squares, NEW y \in Squares, NEW z \in ray_bb[x][y]
  PROVE  /\ y # x + 8 /\ y # x - 8
         /\ y = x + 16 => z = x + 8
         /\ y = x - 16 => z = x - 8
<1>1. PICK d \in Strides : \E n \in 1 .. 7 : OnLine(x, y, d, n)
  BY BetweenThem, LineIs
<1>2. PICK n \in 1 .. 7 : OnLine(x, y, d, n)
  BY <1>1
<1>3. PICK i \in 1 .. n - 1 : z = x + i * d
  BY <1>2 DEF OnLine
<1>4. y = x + n * d /\ x \in Int
  BY <1>2 DEF OnLine, Squares
<1>5. n \in 2 .. 7
  BY <1>3
<1>6. /\ n * d # 8 /\ n * d # -8
      /\ n * d = 16 => n = 2 /\ d = 8
      /\ n * d = -16 => n = 2 /\ d = -8
  <2>1. n \in {2, 3, 4, 5, 6, 7}
    BY <1>5
  <2> QED
    BY <2>1 DEF Strides
<1>7. n * d \in Int
  BY DEF Strides
<1>8. y # x + 8 /\ y # x - 8
  BY <1>4, <1>6, <1>7
<1>9. ASSUME y = x + 16 PROVE z = x + 8
  <2>1. n = 2 /\ d = 8
    BY <1>4, <1>6, <1>7, <1>9
  <2> QED
    BY <1>3, <2>1
<1>10. ASSUME y = x - 16 PROVE z = x - 8
  <2>1. n = 2 /\ d = -8
    BY <1>4, <1>6, <1>7, <1>10
  <2> QED
    BY <1>3, <1>4, <2>1
<1> QED
  BY <1>8, <1>9, <1>10

LEMMA ClearWay ==
  ASSUME NEW b \in Boards, Fit(b), NEW p, NEW from, NEW to, Goes(b, p, from, to),
         to \notin b.occupied, p # KING
  PROVE  b.occupied \cap ray_bb[from][to] = {}
<1>1. b.side \in Colors /\ Sound(b) /\ PawnsWithin(b)
  BY DEF Fit, Boards
<1>2. /\ p \in Pieces /\ from \in b.position[b.side][p] /\ from \in Squares /\ to \in Squares
      /\ to \notin b.position_all[XSIDE(b.side)]
  <2>1. p \in Pieces /\ from \in b.position[b.side][p] /\ to \in Squares
    BY DEF Goes
  <2>2. b.position_all[XSIDE(b.side)] \subseteq b.occupied
    BY <1>1, NamesAre, PieceNames, MenOccupy
  <2> QED
    BY <1>1, <2>1, <2>2, MenOccupy
<1>3. p \in Sliders \/ p = PAWN \/ p = KNIGHT
  BY <1>2 DEF Sliders, Pieces, PAWN, KNIGHT, BISHOP, ROOK, QUEEN, KING
<1>4. CASE p \in Sliders
  <2>1. p # PAWN
    BY <1>4 DEF Sliders, PAWN, BISHOP, ROOK, QUEEN
  <2>2. to \in Reach(b, b.side, p, from)
    BY <2>1 DEF Goes, Reach
  <2> QED
    BY <1>1, <1>2, <1>4, <2>2, ReachIs
<1>5. CASE p = KNIGHT
  <2>1. to \in attack_bb[KNIGHT][from]
    <3>1. KNIGHT # PAWN
      BY DEF KNIGHT, PAWN
    <3>2. to \in piece_attacks(b, KNIGHT, from)
      BY <1>5, <3>1 DEF Goes
    <3>3. piece_attacks(b, KNIGHT, from) = attack_bb[KNIGHT][from]
      BY DEF piece_attacks, KNIGHT, BISHOP, ROOK, QUEEN, KING
    <3> QED
      BY <3>2, <3>3
  <2>2. {Abs(Ranks(from, to)), Abs(Files(from, to))} = {1, 2}
    BY <1>2, <2>1 DEF attack_bb, Pieces, PAWN, KNIGHT, BISHOP, ROOK, QUEEN, KING
  <2>3. Abs(Ranks(from, to)) # Abs(Files(from, to))
    BY <2>2
  <2>4. Ranks(from, to) # 0 /\ Files(from, to) # 0
    <3>1. Abs(0) = 0 /\ 0 \notin {1, 2}
      BY DEF Abs
    <3> QED
      BY <2>2, <3>1
  <2>5. ray_bb[from][to] = {}
    BY <1>2, <2>3, <2>4 DEF ray_bb, Straight, Diagonal
  <2> QED
    BY <2>5
<1>6. CASE p = PAWN
  <2>1. to \in pawn_noncaptures(b, from, b.side)
    BY <1>2, <1>6 DEF Goes
  <2>2. \/ to = Ahead(b.side, from)
        \/ to = TwiceAhead(b.side, from) /\ Ahead(b.side, from) \notin b.occupied
    BY <1>1, <1>2, <2>1, StepsAre
  <2> SUFFICES ASSUME NEW z \in ray_bb[from][to] PROVE z \notin b.occupied
    OBVIOUS
  <2>3. to = TwiceAhead(b.side, from) => z = Ahead(b.side, from)
    BY <1>2, StepRay DEF Ahead, TwiceAhead
  <2>4. to # Ahead(b.side, from)
    BY <1>2, StepRay DEF Ahead
  <2> QED
    BY <2>2, <2>3, <2>4
<1> QED
  BY <1>3, <1>4, <1>5, <1>6

\* PawnBlocker() returns the pawn that steps on the square.
LEMMA BlockerIs ==
  ASSUME NEW b \in Boards, Fit(b), NEW to \in Squares, to \notin b.occupied, NEW from
  PROVE  from \in PawnBlocker(b, to) <=>
           from \in b.position[b.side][PAWN] /\ to \in pawn_noncaptures(b, from, b.side)
<1> DEFINE s == b.side
           pawns == b.position[s][PAWN]
           back == IF s = WHITE THEN -8 ELSE 8
           fourth == IF s = WHITE THEN 3 ELSE 4
<1>1. s \in Colors /\ Sound(b) /\ pawns \subseteq Squares /\ pawns \subseteq b.occupied
  BY PieceNames, MenOccupy DEF Fit, Boards
<1>2. PawnBlocker(b, to) =
        IF to + back \in pawns THEN {to + back}
        ELSE IF RNK(to) = fourth /\ to + back \notin b.occupied THEN {to + 2 * back} \cap pawns
        ELSE {}
  BY DEF PawnBlocker
<1>3. from \in pawns =>
        (to \in pawn_noncaptures(b, from, s) <=>
           \/ to = Ahead(s, from)
           \/ to = TwiceAhead(s, from) /\ RNK(from) = StartRank(s) /\ Ahead(s, from) \notin b.occupied)
  BY <1>1, StepsAre
<1>4. from \in Squares =>
        /\ to = Ahead(s, from) <=> from = to + back
        /\ to = TwiceAhead(s, from) <=> from = to + 2 * back
        /\ to = TwiceAhead(s, from) => Ahead(s, from) = to + back
        /\ to = TwiceAhead(s, from) => (RNK(from) = StartRank(s) <=> RNK(to) = fourth)
  <2> SUFFICES ASSUME from \in Squares
               PROVE  /\ to = Ahead(s, from) <=> from = to + back
                      /\ to = TwiceAhead(s, from) <=> from = to + 2 * back
                      /\ to = TwiceAhead(s, from) => Ahead(s, from) = to + back
                      /\ to = TwiceAhead(s, from) => (RNK(from) = StartRank(s) <=> RNK(to) = fourth)
    OBVIOUS
  <2>1. from \in Int /\ to \in Int /\ RNK(from) \in Int /\ RNK(to) \in Int
    BY RankOf DEF Squares
  <2>2. /\ to = from + 16 => RNK(to) = RNK(from) + 2
        /\ to = from - 16 => RNK(to) = RNK(from) - 2
    BY DEF RNK, Squares
  <2>3. CASE s = WHITE
    BY <2>1, <2>2, <2>3 DEF Ahead, TwiceAhead, StartRank
  <2>4. CASE s # WHITE
    BY <2>1, <2>2, <2>4 DEF Ahead, TwiceAhead, StartRank
  <2> QED
    BY <2>3, <2>4
<1> HIDE DEF back, fourth
<1> QED
  BY <1>1, <1>2, <1>3, <1>4

-----------------------------------------------------------------------------
(***************************************************************************)
(* generate_escapes(): every move comes from the general generators.        *)
(***************************************************************************)
LEMMA CheckerFound ==
  ASSUME NEW b \in Boards, Fit(b), in_check(b)
  PROVE  attackers(b, b.king[b.side], XSIDE(b.side)) # {}
<1> DEFINE x == XSIDE(b.side)
           k == b.king[b.side]
<1>1. x \in Colors /\ k \in Squares /\ Sound(b) /\ is_attacked(b, k, x)
  BY NamesAre DEF Fit, Boards, in_check
<1>2. PICK p \in Pieces : \E y \in b.position[x][p] : k \in Reach(b, x, p, y)
  BY <1>1, AttackMeans
<1>3. PICK y \in b.position[x][p] : k \in Reach(b, x, p, y)
  BY <1>2
<1>4. y \in attackers(b, k, x)
  BY <1>1, <1>3, AttackersAre
<1> QED
  BY <1>4

LEMMA KingEscapesAre ==
  ASSUME NEW b \in Boards, NEW m
  PROVE  m \in KingEscapes(b) <=>
           \E to \in attack_bb[KING][b.king[b.side]] \ b.position_all[b.side] :
             /\ ~is_attacked(b, to, XSIDE(b.side))
             /\ m = IF to \in b.position_all[XSIDE(b.side)]
                      THEN Capture(b.king[b.side], to, KING, piece_at(b, to))
                    ELSE Normal(b.king[b.side], to, KING)
<1> DEFINE way(to) == IF to \in b.position_all[XSIDE(b.side)]
                        THEN Capture(b.king[b.side], to, KING, piece_at(b, to))
                      ELSE Normal(b.king[b.side], to, KING)
           safe == {sq \in attack_bb[KING][b.king[b.side]] \ b.position_all[b.side] :
                      ~is_attacked(b, sq, XSIDE(b.side))}
<1>1. KingEscapes(b) = {way(to) : to \in safe}
  BY DEF KingEscapes
<1>2. m \in {way(to) : to \in safe} <=> \E to \in safe : m = way(to)
  OBVIOUS
<1> HIDE DEF way
<1>3. \A to : to \in safe <=> /\ to \in attack_bb[KING][b.king[b.side]] \ b.position_all[b.side]
                              /\ ~is_attacked(b, to, XSIDE(b.side))
  OBVIOUS
<1> HIDE DEF safe
<1>4. m \in KingEscapes(b) <=>
        \E to \in attack_bb[KING][b.king[b.side]] \ b.position_all[b.side] :
          ~is_attacked(b, to, XSIDE(b.side)) /\ m = way(to)
  BY <1>1, <1>2, <1>3
<1> QED
  BY <1>4 DEF way

\* What the king attacks as a piece and by the table.
LEMMA KingAttacks ==
  ASSUME NEW b, NEW x
  PROVE  piece_attacks(b, KING, x) = attack_bb[KING][x]
BY DEF piece_attacks, KNIGHT, BISHOP, ROOK, QUEEN, KING

LEMMA KingEscapesCome ==
  ASSUME NEW b \in Boards, Fit(b), NEW m \in KingEscapes(b)
  PROVE  Comes(b, m) /\ Few(m)
<1> DEFINE s == b.side
           k == b.king[s]
           theirs == b.position_all[XSIDE(s)]
<1>1. s \in Colors /\ Sound(b) /\ b.position[s][KING] = {k} /\ k \in Squares
  BY DEF Fit, Boards, Sound, MenTold
<1>2. PICK to \in attack_bb[KING][k] \ b.position_all[s] :
        m = IF to \in theirs THEN Capture(k, to, KING, piece_at(b, to)) ELSE Normal(k, to, KING)
  BY KingEscapesAre
<1>3. KING \in Pieces \ {PAWN} /\ k \in b.position[s][KING] /\ to \in piece_attacks(b, KING, k)
  BY <1>1, <1>2, PieceNames, KingAttacks
<1>4. to \in Squares
  BY <1>1, <1>2, PieceNames DEF attack_bb
<1>5. to \in theirs \/ to \notin b.occupied
  BY <1>1, <1>2, <1>4, Others
<1>6. ASSUME to \in theirs PROVE Comes(b, m) /\ Few(m)
  <2>1. m = Capture(k, to, KING, piece_at(b, to))
    BY <1>2, <1>6
  <2>2. PieceTakes(b, m)
    BY <1>3, <1>6, <2>1 DEF PieceTakes
  <2>3. Few(m)
    BY <2>1 DEF Few, Is, Capture, Move
  <2> QED
    BY <2>2, <2>3 DEF Comes
<1>7. ASSUME to \notin theirs PROVE Comes(b, m) /\ Few(m)
  <2>1. m = Normal(k, to, KING)
    BY <1>2, <1>7
  <2>2. PieceGoes(b, m)
    BY <1>3, <1>5, <1>7, <2>1 DEF PieceGoes
  <2>3. Few(m)
    BY <2>1 DEF Few, Is, Normal, Move
  <2> QED
    BY <2>2, <2>3 DEF Comes
<1> QED
  BY <1>6, <1>7

LEMMA EscapeCapturesAre ==
  ASSUME NEW b \in Boards, NEW c, NEW m
  PROVE  m \in EscapeCaptures(b, c) <=>
           \/ \E from \in attackers(b, c, b.side) \ b.position[b.side][KING] :
                m \in add_move(b, from, c, FALSE)
           \/ /\ c = get_eppawn(b)
              /\ \E from \in pawn_captures(b, b.epsq, XSIDE(b.side)) \cap b.position[b.side][PAWN] :
                   m = EnPassant(from, b.epsq)
<1> DEFINE men == attackers(b, c, b.side) \ b.position[b.side][KING]
           pawns == pawn_captures(b, b.epsq, XSIDE(b.side)) \cap b.position[b.side][PAWN]
           passing == {EnPassant(from, b.epsq) : from \in pawns}
           taking == UNION {add_move(b, from, c, FALSE) : from \in men}
<1>1. EscapeCaptures(b, c) = taking \cup (IF c # get_eppawn(b) THEN {} ELSE passing)
  BY DEF EscapeCaptures
<1>2. m \in passing <=> \E from \in pawns : m = EnPassant(from, b.epsq)
  OBVIOUS
<1>3. m \in taking <=> \E from \in men : m \in add_move(b, from, c, FALSE)
  OBVIOUS
<1> HIDE DEF passing, taking
<1> QED
  BY <1>1, <1>2, <1>3

LEMMA EscapeCapturesCome ==
  ASSUME NEW b \in Boards, Fit(b), NEW c \in attackers(b, b.king[b.side], XSIDE(b.side)),
         NEW m \in EscapeCaptures(b, c)
  PROVE  Comes(b, m) /\ Few(m)
<1> DEFINE s == b.side
           x == XSIDE(s)
<1>1. s \in Colors /\ x \in Colors /\ XSIDE(x) = s /\ Sound(b)
  BY NamesAre DEF Fit, Boards
<1>2. c \in Squares /\ c \in b.position_all[x] /\ c \in b.occupied /\ c # b.epsq
  BY CheckerIs
<1>3. c \notin b.position_all[s]
  BY <1>1, <1>2, Others
<1> HIDE DEF x
<1>4. ASSUME NEW from \in attackers(b, c, s), m \in add_move(b, from, c, FALSE)
      PROVE  Comes(b, m) /\ Few(m)
  <2>1. PICK p \in Pieces : from \in b.position[s][p] /\ c \in Reach(b, s, p, from)
    BY <1>1, <1>2, AttackersAre
  <2>2. p # PAWN => c \in piece_attacks(b, p, from)
    BY <2>1 DEF Reach
  <2>3. p = PAWN => c \in pawn_captures(b, from, s)
    BY <1>2, <2>1 DEF Reach, pawn_captures
  <2>4. Goes(b, p, from, c)
    BY <1>2, <1>3, <2>1, <2>2, <2>3 DEF Goes, x
  <2> QED
    BY <1>4, <2>4, AddedComes
<1>5. ASSUME c = get_eppawn(b), NEW from \in pawn_captures(b, b.epsq, x) \cap b.position[s][PAWN],
             m = EnPassant(from, b.epsq)
      PROVE  Comes(b, m) /\ Few(m)
  <2>1. b.epsq \in Squares
    BY <1>2, <1>5 DEF get_eppawn, Boards, Squares, NO_SQUARE
  <2>2. from \in Squares /\ from \in b.occupied
    BY <1>1, PieceNames, MenOccupy
  <2>3. from \in pawn_capt_bb[x][b.epsq]
    BY <2>1, <2>2, CheckerIs DEF pawn_captures, Fit, EpFits, NO_SQUARE, Squares, pawn_capt_bb
  <2>4. b.epsq \in pawn_capt_bb[s][from]
    BY <1>1, <2>1, <2>3, PawnTakes
  <2>5. b.epsq \in pawn_captures(b, from, s)
    BY <2>4 DEF pawn_captures
  <2>6. from \notin BeforePromotion(s)
    BY <2>5, PassingPlaces
  <2>7. PawnPasses(b, m)
    BY <1>5, <2>5, <2>6 DEF PawnPasses
  <2>8. Few(m)
    BY <1>5 DEF Few, Is, EnPassant, Move
  <2> QED
    BY <2>7, <2>8 DEF Comes
<1> QED
  BY <1>4, <1>5, EscapeCapturesAre DEF x

LEMMA BlocksAre ==
  ASSUME NEW b \in Boards, NEW c, NEW m
  PROVE  m \in Blocks(b, c) <=>
           \E to \in ray_bb[c][b.king[b.side]] :
             \E from \in (attackers(b, to, b.side)
                            \ (b.position[b.side][PAWN] \cup b.position[b.side][KING]))
                           \cup PawnBlocker(b, to) :
               b.occupied \cap ray_bb[from][to] = {} /\ m \in add_move(b, from, to, FALSE)
<1> DEFINE men(to) == (attackers(b, to, b.side)
                         \ (b.position[b.side][PAWN] \cup b.position[b.side][KING]))
                        \cup PawnBlocker(b, to)
           free(to) == {from \in men(to) : b.occupied \cap ray_bb[from][to] = {}}
           moves(to) == UNION {add_move(b, from, to, FALSE) : from \in free(to)}
<1>1. Blocks(b, c) = UNION {moves(to) : to \in ray_bb[c][b.king[b.side]]}
  BY DEF Blocks
<1>2. \A to : m \in moves(to) <=> \E from \in free(to) : m \in add_move(b, from, to, FALSE)
  OBVIOUS
<1> HIDE DEF moves
<1>3. m \in UNION {moves(to) : to \in ray_bb[c][b.king[b.side]]} <=>
        \E to \in ray_bb[c][b.king[b.side]] : m \in moves(to)
  OBVIOUS
<1>4. \A to, from : from \in free(to) <=> from \in men(to) /\ b.occupied \cap ray_bb[from][to] = {}
  OBVIOUS
<1> HIDE DEF free
<1>5. m \in Blocks(b, c) <=>
        \E to \in ray_bb[c][b.king[b.side]] : \E from \in men(to) :
          b.occupied \cap ray_bb[from][to] = {} /\ m \in add_move(b, from, to, FALSE)
  BY <1>1, <1>2, <1>3, <1>4
<1> QED
  BY <1>5

LEMMA BlocksCome ==
  ASSUME NEW b \in Boards, Fit(b), NEW c \in attackers(b, b.king[b.side], XSIDE(b.side)),
         piece_at(b, c) \notin {PAWN, KNIGHT}, NEW m \in Blocks(b, c)
  PROVE  Comes(b, m) /\ Few(m)
<1> DEFINE s == b.side
           x == XSIDE(s)
           k == b.king[s]
           p == piece_at(b, c)
<1>1. s \in Colors /\ x \in Colors /\ XSIDE(x) = s /\ Sound(b)
  BY NamesAre DEF Fit, Boards
<1>2. c \in Squares /\ k \in Squares /\ p \in Pieces \ {KING} /\ k \in Reach(b, x, p, c)
  BY CheckerIs
<1> HIDE DEF x, p
<1>3. p \in Sliders
  BY <1>2 DEF p, Sliders, Pieces, PAWN, KNIGHT, BISHOP, ROOK, QUEEN, KING
<1>4. ray_bb[c][k] \cap b.occupied = {}
  BY <1>1, <1>2, <1>3, ReachIs
<1>5. PICK to \in ray_bb[c][k] :
        \E from \in (attackers(b, to, s) \ (b.position[s][PAWN] \cup b.position[s][KING]))
                      \cup PawnBlocker(b, to) : m \in add_move(b, from, to, FALSE)
  BY BlocksAre
<1>6. PICK from \in (attackers(b, to, s) \ (b.position[s][PAWN] \cup b.position[s][KING]))
                      \cup PawnBlocker(b, to) : m \in add_move(b, from, to, FALSE)
  BY <1>5
<1>7. to \in Squares /\ to \notin b.occupied
  BY <1>2, <1>4, BetweenThem
<1>8. to \notin b.position_all[s] /\ to \notin b.position_all[x]
  BY <1>1, <1>7, PieceNames, MenOccupy
<1>9. ASSUME from \in attackers(b, to, s), from \notin b.position[s][PAWN]
      PROVE  \E q : Goes(b, q, from, to)
  <2>1. PICK q \in Pieces : from \in b.position[s][q] /\ to \in Reach(b, s, q, from)
    BY <1>1, <1>7, <1>9, AttackersAre
  <2>2. q # PAWN
    BY <1>9, <2>1
  <2>3. to \in piece_attacks(b, q, from)
    BY <2>1, <2>2 DEF Reach
  <2>4. Goes(b, q, from, to)
    BY <1>7, <1>8, <2>1, <2>2, <2>3 DEF Goes
  <2> QED
    BY <2>4
<1>10. ASSUME from \in PawnBlocker(b, to)
       PROVE  \E q : Goes(b, q, from, to)
  <2>1. from \in b.position[s][PAWN] /\ to \in pawn_noncaptures(b, from, s)
    BY <1>7, <1>10, BlockerIs
  <2>2. to # b.epsq
    BY <2>1, StepsElsewhere
  <2>3. Goes(b, PAWN, from, to)
    BY <1>7, <1>8, <2>1, <2>2, PieceNames DEF Goes, x
  <2> QED
    BY <2>3
<1>11. PICK q : Goes(b, q, from, to)
  BY <1>6, <1>9, <1>10
<1> QED
  BY <1>6, <1>11, AddedComes

LEMMA EscapesAre ==
  ASSUME NEW b \in Boards, Fit(b), in_check(b)
  PROVE  LET checkers == attackers(b, b.king[b.side], XSIDE(b.side))
         IN  \E c \in checkers :
               generate_escapes(b) =
                 IF Cardinality(checkers) > 1 THEN KingEscapes(b)
                 ELSE IF piece_at(b, c) \in {PAWN, KNIGHT}
                   THEN KingEscapes(b) \cup EscapeCaptures(b, c)
                 ELSE KingEscapes(b) \cup EscapeCaptures(b, c) \cup Blocks(b, c)
<1> DEFINE checkers == attackers(b, b.king[b.side], XSIDE(b.side))
           c == CHOOSE sq \in checkers : TRUE
<1>1. c \in checkers
  BY CheckerFound
<1>2. generate_escapes(b) =
        IF Cardinality(checkers) > 1 THEN KingEscapes(b)
        ELSE IF piece_at(b, c) \in {PAWN, KNIGHT}
          THEN KingEscapes(b) \cup EscapeCaptures(b, c)
        ELSE KingEscapes(b) \cup EscapeCaptures(b, c) \cup Blocks(b, c)
  BY DEF generate_escapes
<1> HIDE DEF c
<1> QED
  BY <1>1, <1>2

LEMMA EscapesCome ==
  ASSUME NEW b \in Boards, Fit(b), in_check(b), NEW m \in generate_escapes(b)
  PROVE  Comes(b, m) /\ Few(m)
<1> DEFINE checkers == attackers(b, b.king[b.side], XSIDE(b.side))
<1>1. PICK c \in checkers :
        generate_escapes(b) =
          IF Cardinality(checkers) > 1 THEN KingEscapes(b)
          ELSE IF piece_at(b, c) \in {PAWN, KNIGHT}
            THEN KingEscapes(b) \cup EscapeCaptures(b, c)
          ELSE KingEscapes(b) \cup EscapeCaptures(b, c) \cup Blocks(b, c)
  BY EscapesAre
<1>2. \/ m \in KingEscapes(b) \/ m \in EscapeCaptures(b, c)
      \/ m \in Blocks(b, c) /\ piece_at(b, c) \notin {PAWN, KNIGHT}
  BY <1>1
<1> QED
  BY <1>2, KingEscapesCome, EscapeCapturesCome, BlocksCome

-----------------------------------------------------------------------------
(***************************************************************************)
(* generate_escapes(): it misses no legal move.                             *)
(***************************************************************************)
LEMMA KingEscapesFound ==
  ASSUME NEW b \in Boards, Fit(b), NEW m, Comes(b, m), is_legal_move(b, m), ~Castles(b, m),
         ptype(m) = KING
  PROVE  m \in KingEscapes(b)
<1> DEFINE s == b.side
           x == XSIDE(s)
           k == b.king[s]
           to == m.to
           r == make_move(b, m)
<1>1. /\ s \in Colors /\ x \in Colors /\ s # x /\ XSIDE(x) = s /\ Sound(b)
      /\ b.position[s][KING] = {k} /\ k \in Squares
  BY NamesAre DEF Fit, Boards, Sound, MenTold
<1>2. ~Is(m, "ENPASSANT") /\ ~Is(m, "PROMOTION")
  <2>1. ~Is(m, "PROMOTION")
    BY PieceNames DEF ptype
  <2>2. ~Is(m, "ENPASSANT")
    BY EachReaches, PieceNames DEF Reaching
  <2> QED
    BY <2>1, <2>2
<1>3. Goes(b, KING, m.from, to) /\ m \in add_move(b, m.from, to, FALSE)
  BY <1>2, ComesAdded DEF Few
<1>4. m.from = k /\ to \in Squares \ b.position_all[s] /\ to \in attack_bb[KING][k]
  BY <1>1, <1>3, PieceNames, KingAttacks DEF Goes
<1>5. m = IF to \in b.position_all[x] THEN Capture(k, to, KING, piece_at(b, to))
          ELSE Normal(k, to, KING)
  <2>1. Added(b, KING, m.from, to, m)
    BY <1>3, AddIs
  <2> QED
    BY <1>4, <2>1, PieceNames DEF Added
<1>6. /\ Sound(r) /\ r \in Boards /\ r.side = x /\ r.king[s] = to
      /\ Changed(b, r, Gone(b, m), {<<s, m.piece, to>>})
      /\ \A z \in Squares : z \in r.occupied <=> (z \in b.occupied /\ z \notin Gone(b, m)) \/ z = to
  BY MenAfter
<1>7. ~is_attacked(r, to, x)
  BY <1>1, <1>6 DEF is_legal_move, is_legal
<1>8. Gone(b, m) = {k, to}
  BY <1>2, <1>4 DEF Gone
<1> HIDE DEF r, x, k, to
<1>9. ~is_attacked(b, to, x)
  <2> SUFFICES ASSUME is_attacked(b, to, x) PROVE FALSE
    OBVIOUS
  <2>1. PICK p \in Pieces : \E y \in b.position[x][p] : to \in Reach(b, x, p, y)
    BY <1>1, <1>4, AttackMeans
  <2>2. PICK y \in b.position[x][p] : to \in Reach(b, x, p, y)
    BY <2>1
  <2>3. y \in Squares /\ y \in b.position_all[x] /\ y \in b.occupied
    BY <1>1, MenOccupy
  <2>4. y # to
    BY <1>1, <2>2, <2>3, ReachAway
  <2>5. y # k
    <3>1. k \in b.position_all[s]
      BY <1>1, PieceNames, MenOccupy
    <3> QED
      BY <1>1, <2>3, <3>1, Others DEF x
  <2>6. y \in r.position[x][p]
    BY <1>1, <1>6, <1>8, <2>3, <2>4, <2>5 DEF Changed
  <2>7. to \notin Reach(r, x, p, y)
    BY <1>1, <1>4, <1>6, <1>7, <2>6, AttackMeans
  <2>8. /\ ray_bb[y][to] \cap b.occupied = {} /\ ray_bb[y][to] \cap r.occupied # {}
    BY <1>1, <2>2, <2>3, <2>7, ReachKept
  <2>9. PICK z \in ray_bb[y][to] : z \in r.occupied
    BY <2>8
  <2>10. z \in Squares /\ z # to
    BY <1>4, <2>3, BetweenThem
  <2> QED
    BY <1>6, <2>8, <2>9, <2>10
<1> QED
  BY <1>4, <1>5, <1>9, KingEscapesAre DEF k, x

\* A move that captures en passant is one of PawnPasses.
LEMMA PassingIs ==
  ASSUME NEW b \in Boards, NEW m, Comes(b, m), Is(m, "ENPASSANT")
  PROVE  PawnPasses(b, m)
<1>1. ~PieceTakes(b, m) /\ ~PawnTakesMan(b, m)
  BY DEF PieceTakes, PawnTakesMan, Is, Capture, Move
<1>2. ~PieceGoes(b, m) /\ ~PawnSteps(b, m)
  BY DEF PieceGoes, PawnSteps, Is, Normal, Move
<1>3. ~PawnTakesUp(b, m)
  BY DEF PawnTakesUp, Is, PromotionCapture, Move
<1>4. ~PawnGoesUp(b, m)
  BY DEF PawnGoesUp, Is, Promotion, Move
<1>5. ~Castles(b, m)
  BY CastlesAre DEF Is, Castling, Move
<1> QED
  BY <1>1, <1>2, <1>3, <1>4, <1>5 DEF Comes

LEMMA OthersFound ==
  ASSUME NEW b \in Boards, Consistent(b), NEW m, Comes(b, m), Few(m), is_legal_move(b, m),
         ~Castles(b, m), ptype(m) # KING,
         NEW c \in attackers(b, b.king[b.side], XSIDE(b.side))
  PROVE  \/ m \in EscapeCaptures(b, c)
         \/ m \in Blocks(b, c) /\ piece_at(b, c) \notin {PAWN, KNIGHT}
<1> DEFINE s == b.side
           x == XSIDE(s)
           k == b.king[s]
           from == m.from
           to == m.to
           p == ptype(m)
           e == b.epsq
<1>1. Fit(b)
  BY FitIs
<1>2. s \in Colors /\ x \in Colors /\ s # x /\ XSIDE(x) = s /\ Sound(b)
  BY <1>1, NamesAre DEF Fit, Boards
<1>3. c \in Squares /\ c \in b.position_all[x] /\ c \in b.occupied /\ c # e /\ k \in Squares
  BY <1>1, CheckerIs
<1>4. Is(m, "ENPASSANT") => to = e /\ e # NO_SQUARE
  <2> SUFFICES ASSUME Is(m, "ENPASSANT") PROVE to = e /\ e # NO_SQUARE
    OBVIOUS
  <2>1. to = e
    BY <1>1, EachReaches DEF Reaching
  <2>2. to \in Squares
    BY <1>1, AllTold, SentOn
  <2> QED
    BY <2>1, <2>2 DEF Squares, NO_SQUARE
<1>5. ~Is(m, "ENPASSANT") => Goes(b, p, from, to) /\ m \in add_move(b, from, to, FALSE)
  BY <1>1, ComesAdded
<1> HIDE DEF from, to, p, x, e
<1>6. ASSUME Goes(b, p, from, to), to \in b.position_all[x] \/ p # PAWN
      PROVE  from \in attackers(b, to, s) \ b.position[s][KING]
  <2>1. /\ p \in Pieces /\ from \in b.position[s][p] /\ to \in Squares
        /\ p # PAWN => to \in piece_attacks(b, p, from)
        /\ p = PAWN => to \in pawn_captures(b, from, s)
    BY <1>6 DEF Goes, x
  <2>2. to \in Reach(b, s, p, from)
    BY <2>1 DEF Reach, pawn_captures
  <2>3. from \in attackers(b, to, s)
    BY <1>2, <2>1, <2>2, AttackersAre
  <2>4. from \notin b.position[s][KING]
    <3>1. from \in Squares /\ p # KING
      BY <1>2, <2>1, MenOccupy DEF p
    <3> QED
      BY <1>2, <2>1, <3>1, PieceNames DEF Sound, MenTold
  <2> QED
    BY <2>3, <2>4
<1>7. CASE c = to
  <2>1. ~Is(m, "ENPASSANT")
    BY <1>3, <1>4, <1>7
  <2>2. from \in attackers(b, c, s) \ b.position[s][KING]
    BY <1>3, <1>5, <1>6, <1>7, <2>1
  <2>3. m \in add_move(b, from, c, FALSE)
    BY <1>5, <1>7, <2>1
  <2> QED
    BY <2>2, <2>3, EscapeCapturesAre
<1>8. CASE Is(m, "ENPASSANT") /\ c = get_eppawn(b)
  <2>1. PICK y \in b.position[s][PAWN] : e \in pawn_captures(b, y, s) /\ m = EnPassant(y, e)
    BY <1>8, PassingIs DEF PawnPasses, e
  <2>2. y \in Squares /\ y \in b.occupied
    BY <1>2, PieceNames, MenOccupy
  <2>3. e \in pawn_capt_bb[s][y]
    BY <2>1 DEF pawn_captures
  <2>4. y \in pawn_capt_bb[x][e]
    BY <1>2, <2>2, <2>3, PawnTakes DEF x
  <2>5. y \in pawn_captures(b, e, x)
    BY <2>2, <2>4 DEF pawn_captures
  <2> QED
    BY <1>8, <2>1, <2>5, EscapeCapturesAre DEF e, x
<1>9. CASE /\ piece_at(b, c) \in Sliders /\ Aims(piece_at(b, c), c, k)
           /\ to \in ray_bb[c][k] /\ ray_bb[c][k] \cap b.occupied = {}
  <2>1. ~Is(m, "ENPASSANT")
    BY <1>4, <1>9, PassingBetween DEF e, x
  <2>2. Goes(b, p, from, to) /\ m \in add_move(b, from, to, FALSE)
    BY <1>5, <2>1
  <2>3. to \in Squares /\ to \notin b.occupied
    BY <1>3, <1>9, BetweenThem
  <2>4. b.occupied \cap ray_bb[from][to] = {}
    BY <1>1, <2>2, <2>3, ClearWay DEF p
  <2>5. piece_at(b, c) \notin {PAWN, KNIGHT}
    BY <1>9 DEF Sliders, PAWN, KNIGHT, BISHOP, ROOK, QUEEN
  <2>6. ASSUME p = PAWN PROVE from \in PawnBlocker(b, to)
    <3>1. to \notin b.position_all[x]
      BY <1>2, <2>3, PieceNames, MenOccupy
    <3>2. from \in b.position[s][PAWN] /\ to \in pawn_noncaptures(b, from, s)
      BY <2>2, <2>6, <3>1 DEF Goes, x
    <3> QED
      BY <1>1, <2>3, <3>2, BlockerIs
  <2>7. ASSUME p # PAWN
        PROVE  from \in attackers(b, to, s) \ (b.position[s][PAWN] \cup b.position[s][KING])
    <3>1. p \in Pieces /\ from \in b.position[s][p]
      BY <2>2 DEF Goes
    <3>2. from \notin b.position[s][PAWN]
      <4>1. from \in Squares
        BY <1>2, <3>1, MenOccupy
      <4> QED
        BY <1>2, <2>7, <3>1, <4>1, PieceNames DEF Sound, MenTold
    <3> QED
      BY <1>6, <2>2, <2>7, <3>2
  <2>8. m \in Blocks(b, c)
    BY <1>9, <2>2, <2>4, <2>6, <2>7, BlocksAre
  <2> QED
    BY <2>5, <2>8
<1>10. \/ c = to
       \/ Is(m, "ENPASSANT") /\ c = get_eppawn(b)
       \/ /\ piece_at(b, c) \in Sliders /\ Aims(piece_at(b, c), c, k)
          /\ to \in ray_bb[c][k] /\ ray_bb[c][k] \cap b.occupied = {}
  BY <1>1, CheckEnded DEF to
<1> QED
  BY <1>7, <1>8, <1>9, <1>10

LEMMA EscapeFound ==
  ASSUME NEW b \in Boards, Consistent(b), in_check(b), NEW m, Comes(b, m), Few(m),
         is_legal_move(b, m)
  PROVE  m \in generate_escapes(b)
<1> DEFINE checkers == attackers(b, b.king[b.side], XSIDE(b.side))
<1>1. Fit(b)
  BY FitIs
<1>2. ~Castles(b, m)
  BY CastlesAre
<1>3. PICK c \in checkers :
        generate_escapes(b) =
          IF Cardinality(checkers) > 1 THEN KingEscapes(b)
          ELSE IF piece_at(b, c) \in {PAWN, KNIGHT}
            THEN KingEscapes(b) \cup EscapeCaptures(b, c)
          ELSE KingEscapes(b) \cup EscapeCaptures(b, c) \cup Blocks(b, c)
  BY <1>1, EscapesAre
<1>4. ASSUME ptype(m) = KING PROVE m \in generate_escapes(b)
  <2>1. m \in KingEscapes(b)
    BY <1>1, <1>2, <1>4, KingEscapesFound
  <2> HIDE DEF checkers
  <2> QED
    BY <1>3, <2>1
<1>5. ASSUME ptype(m) # KING PROVE m \in generate_escapes(b)
  <2>1. checkers = {c}
    BY <1>2, <1>5, TwoChecks
  <2>2. Cardinality(checkers) = 1
    BY <2>1, FS_Singleton
  <2>3. m \in EscapeCaptures(b, c) \/ (m \in Blocks(b, c) /\ piece_at(b, c) \notin {PAWN, KNIGHT})
    BY <1>2, <1>5, OthersFound
  <2> HIDE DEF checkers
  <2> QED
    BY <1>3, <2>2, <2>3
<1> QED
  BY <1>4, <1>5

-----------------------------------------------------------------------------
LEMMA GeneratorsAgree ==
  ASSUME NEW b \in Boards, Consistent(b), in_check(b)
  PROVE  filter_illegal(b, generate_escapes(b)) = filter_illegal(b, generate_moves(b, FALSE))
<1>1. Fit(b) /\ Sound(b) /\ EpFits(b)
  BY FitIs DEF Fit
<1>2. ASSUME NEW m PROVE m \in generate_moves(b, FALSE) <=> Comes(b, m) /\ Few(m)
  BY <1>1, FewMoves DEF Few
<1>3. ASSUME NEW m, is_legal_move(b, m)
      PROVE  m \in generate_escapes(b) <=> m \in generate_moves(b, FALSE)
  <2>1. ASSUME m \in generate_escapes(b) PROVE m \in generate_moves(b, FALSE)
    BY <1>1, <1>2, <2>1, EscapesCome
  <2>2. ASSUME m \in generate_moves(b, FALSE) PROVE m \in generate_escapes(b)
    BY <1>2, <1>3, <2>2, EscapeFound
  <2> QED
    BY <2>1, <2>2
<1> QED
  BY <1>3 DEF filter_illegal

LEMMA ExactGenerators ==
  TypeOK /\ Consistent(board) => GeneratorsExact
<1> SUFFICES ASSUME TypeOK, Consistent(board) PROVE GeneratorsExact
  OBVIOUS
<1>1. board \in Boards /\ Fit(board) /\ Sound(board) /\ EpFits(board)
  BY FitIs DEF TypeOK, Fit
<1>2. NoMoveMissing
  BY <1>1, MovesCounted DEF NoMoveMissing
<1>3. ASSUME NEW m \in Generated(board) PROVE Asserted(board, m)
  <2>1. Comes(board, m)
    <3>1. CASE m \in generate_moves(board, TRUE)
      BY <1>1, <3>1, MovesAre
    <3>2. CASE in_check(board) /\ m \in generate_escapes(board)
      BY <1>1, <3>2, EscapesCome
    <3> QED
      BY <3>1, <3>2 DEF Generated
  <2> QED
    BY <1>1, <2>1, EachAsserted
<1>4. EscapesComplete
  BY <1>1, GeneratorsAgree DEF EscapesComplete
<1> QED
  BY <1>2, <1>3, <1>4 DEF GeneratorsExact, AssertionsHold

\* The generators of chess miss no move of the rules, return only moves whose
\* assertions in make_move() hold, and, in check, generate_escapes() finds the
\* same legal moves as generate_moves().
THEOREM GeneratorsAreExact == Spec => []GeneratorsExact
<1>1. IncrementalStateExact => GeneratorsExact
  BY ExactGenerators DEF IncrementalStateExact
<1> QED
  BY <1>1, IncrementalExact, PTL

-----------------------------------------------------------------------------
(***************************************************************************)
(* Draws by material: kings and one knight, or kings and bishops of one     *)
(* colour of squares.                                                       *)
(***************************************************************************)
Both(b, p) == b.position[WHITE][p] \cup b.position[BLACK][p]
Tint(x) == (RNK(x) + FIL(x)) % 2
Alone(b) ==
  /\ Both(b, PAWN) = {} /\ Both(b, ROOK) = {} /\ Both(b, QUEEN) = {}
  /\ \/ Both(b, KNIGHT) = {} /\ \E t \in {0, 1} : \A x \in Both(b, BISHOP) : Tint(x) = t
     \/ Both(b, BISHOP) = {} /\ \E x : Both(b, KNIGHT) = {x}

LEMMA TintIs ==
  ASSUME NEW x \in Squares
  PROVE  /\ Tint(x) \in {0, 1} /\ (x \in LIGHTBITBOARD <=> Tint(x) = 1)
         /\ x \in DARKBITBOARD <=> Tint(x) = 0
<1>1. RNK(x) \in Int /\ FIL(x) \in Int
  BY DEF RNK, FIL, Squares
<1>2. Tint(x) \in {0, 1}
  BY <1>1 DEF Tint
<1> QED
  BY <1>2 DEF Tint, LIGHTBITBOARD, DARKBITBOARD

LEMMA Parity ==
  ASSUME NEW r \in Int, NEW f \in Int, NEW u \in Int, NEW v \in Int
  PROVE  /\ (u = v \/ u = -v) => ((r + u) + (f + v)) % 2 = (r + f) % 2
         /\ (u + v) % 2 = 1 => ((r + u) + (f + v)) % 2 # (r + f) % 2
  OBVIOUS

LEMMA TintMoves ==
  ASSUME NEW x \in Squares, NEW y \in Squares
  PROVE  /\ Diagonal(x, y) => Tint(y) = Tint(x)
         /\ y \in attack_bb[KNIGHT][x] => Tint(y) # Tint(x)
<1> DEFINE u == Ranks(x, y)
           v == Files(x, y)
<1>1. RNK(x) \in Int /\ FIL(x) \in Int /\ RNK(y) \in Int /\ FIL(y) \in Int
  BY DEF RNK, FIL, Squares
<1>2. u \in Int /\ v \in Int /\ RNK(y) = RNK(x) + u /\ FIL(y) = FIL(x) + v
  BY <1>1 DEF Ranks, Files
<1> HIDE DEF u, v
<1>3. Diagonal(x, y) => u = v \/ u = -v
  BY <1>2 DEF Diagonal, Abs, u, v
<1>4. y \in attack_bb[KNIGHT][x] => (u + v) % 2 = 1
  <2> SUFFICES ASSUME y \in attack_bb[KNIGHT][x] PROVE (u + v) % 2 = 1
    OBVIOUS
  <2>1. {Abs(u), Abs(v)} = {1, 2}
    BY DEF attack_bb, Pieces, PAWN, KNIGHT, BISHOP, ROOK, QUEEN, KING, u, v
  <2>2. (Abs(u) = 1 /\ Abs(v) = 2) \/ (Abs(u) = 2 /\ Abs(v) = 1)
    BY <2>1
  <2>3. u \in {1, -1, 2, -2} /\ v \in {1, -1, 2, -2}
    BY <1>2, <2>2 DEF Abs
  <2> QED
    BY <2>2, <2>3 DEF Abs
<1> QED
  BY <1>1, <1>2, <1>3, <1>4, Parity DEF Tint

\* Where a king steps: at most one file and one rank.
LEMMA KingNear ==
  ASSUME NEW x \in Squares, NEW y \in Squares
  PROVE  y \in attack_bb[KING][x] <=>
           /\ y # x /\ Ranks(x, y) \in {-1, 0, 1} /\ Files(x, y) \in {-1, 0, 1}
<1>1. RNK(x) \in Int /\ FIL(x) \in Int /\ RNK(y) \in Int /\ FIL(y) \in Int
  BY DEF RNK, FIL, Squares
<1>2. Ranks(x, y) \in Int /\ Files(x, y) \in Int
  BY <1>1 DEF Ranks, Files
<1>3. y \in attack_bb[KING][x] <=> Larger(Abs(Ranks(x, y)), Abs(Files(x, y))) = 1
  BY DEF attack_bb, Pieces, PAWN, KNIGHT, BISHOP, ROOK, QUEEN, KING
<1>4. y = x <=> Ranks(x, y) = 0 /\ Files(x, y) = 0
  BY DEF Ranks, Files, RNK, FIL, Squares
<1>5. Larger(Abs(Ranks(x, y)), Abs(Files(x, y))) = 1 <=>
        /\ ~(Ranks(x, y) = 0 /\ Files(x, y) = 0)
        /\ Ranks(x, y) \in {-1, 0, 1} /\ Files(x, y) \in {-1, 0, 1}
  BY <1>2 DEF Larger, Abs
<1> QED
  BY <1>3, <1>4, <1>5

\* A king that the other does not touch has a square of the other colour beside it,
\* on the same rank or file, that the other king does not touch either.
LEMMA Flight ==
  ASSUME NEW k \in Squares, NEW q \in Squares, q # k, k \notin attack_bb[KING][q]
  PROVE  \E t \in attack_bb[KING][k] :
           t \in Squares /\ Tint(t) # Tint(k) /\ t # q /\ t \notin attack_bb[KING][q]
           /\ t \notin attack_bb[KNIGHT][k]
<1> DEFINE h == IF FIL(k) < 7 THEN k + 1 ELSE k - 1
           v == IF RNK(k) < 7 THEN k + 8 ELSE k - 8
<1>1. /\ h \in Squares /\ RNK(h) = RNK(k)
      /\ (FIL(h) = FIL(k) + 1 \/ FIL(h) = FIL(k) - 1)
  BY DEF RNK, FIL, Squares
<1>2. /\ v \in Squares /\ FIL(v) = FIL(k)
      /\ (RNK(v) = RNK(k) + 1 \/ RNK(v) = RNK(k) - 1)
  BY DEF RNK, FIL, Squares
<1>3. /\ RNK(k) \in Int /\ FIL(k) \in Int /\ RNK(q) \in Int /\ FIL(q) \in Int
      /\ RNK(h) \in Int /\ FIL(h) \in Int /\ RNK(v) \in Int /\ FIL(v) \in Int
  BY DEF RNK, FIL, Squares
<1> HIDE DEF h, v
<1>4. h # k /\ v # k
  BY <1>1, <1>2, <1>3
<1>5. h \in attack_bb[KING][k] /\ v \in attack_bb[KING][k]
  <2>1. Ranks(k, h) = 0 /\ Files(k, h) \in {-1, 1} /\ Files(k, v) = 0 /\ Ranks(k, v) \in {-1, 1}
    BY <1>1, <1>2, <1>3 DEF Ranks, Files
  <2> QED
    BY <1>1, <1>2, <1>4, <2>1, KingNear
<1>6. Tint(h) # Tint(k) /\ Tint(v) # Tint(k)
  BY <1>1, <1>2, <1>3 DEF Tint
<1>7. h \notin attack_bb[KNIGHT][k] /\ v \notin attack_bb[KNIGHT][k]
  <2>1. ASSUME NEW t \in Squares, Ranks(k, t) = 0 \/ Files(k, t) = 0
        PROVE  t \notin attack_bb[KNIGHT][k]
    <3>1. Abs(0) = 0 /\ 0 \notin {1, 2}
      BY DEF Abs
    <3>2. {Abs(Ranks(k, t)), Abs(Files(k, t))} # {1, 2}
      BY <2>1, <3>1
    <3> QED
      BY <3>2 DEF attack_bb, Pieces, PAWN, KNIGHT, BISHOP, ROOK, QUEEN, KING
  <2>2. Ranks(k, h) = 0 /\ Files(k, v) = 0
    BY <1>1, <1>2, <1>3 DEF Ranks, Files
  <2> QED
    BY <1>1, <1>2, <2>1, <2>2
<1>8. ASSUME h = q \/ h \in attack_bb[KING][q], v = q \/ v \in attack_bb[KING][q]
      PROVE  FALSE
  <2>1. Ranks(q, h) \in {-1, 0, 1} /\ Files(q, v) \in {-1, 0, 1}
    <3>1. Ranks(q, q) = 0 /\ Files(q, q) = 0
      BY <1>3 DEF Ranks, Files
    <3> QED
      BY <1>1, <1>2, <1>8, <3>1, KingNear
  <2>2. Ranks(q, k) = Ranks(q, h) /\ Files(q, k) = Files(q, v)
    BY <1>1, <1>2 DEF Ranks, Files
  <2> QED
    BY <2>1, <2>2, KingNear
<1> QED
  BY <1>1, <1>2, <1>5, <1>6, <1>7, <1>8

LEMMA NothingWorth ==
  ASSUME NEW i \in Nat, NEW j \in Nat, NEW k \in Nat, NEW l \in Nat, NEW m \in Nat,
         100 * i + 300 * j + 325 * k + 500 * l + 900 * m = 0
  PROVE  i = 0 /\ j = 0 /\ k = 0 /\ l = 0 /\ m = 0
  OBVIOUS

\* Material 0 is that of no man but the king.
LEMMA NoMaterial ==
  ASSUME NEW b \in Boards, Sound(b), NEW c \in Colors, b.material[c] = 0,
         NEW p \in {PAWN, KNIGHT, BISHOP, ROOK, QUEEN}
  PROVE  b.position[c][p] = {}
<1>1. \A q \in Pieces : b.position[c][q] \in SUBSET Squares
  BY MenOccupy
<1>2. \A q \in {PAWN, KNIGHT, BISHOP, ROOK, QUEEN} : q \in Pieces
  BY PieceNames
<1>3. \A q \in {PAWN, KNIGHT, BISHOP, ROOK, QUEEN} :
        /\ IsFiniteSet(b.position[c][q]) /\ Cardinality(b.position[c][q]) \in Nat
        /\ Cardinality(b.position[c][q]) = 0 <=> b.position[c][q] = {}
  <2> SUFFICES ASSUME NEW q \in {PAWN, KNIGHT, BISHOP, ROOK, QUEEN}
               PROVE  /\ IsFiniteSet(b.position[c][q]) /\ Cardinality(b.position[c][q]) \in Nat
                      /\ Cardinality(b.position[c][q]) = 0 <=> b.position[c][q] = {}
    OBVIOUS
  <2>1. IsFiniteSet(Squares)
    BY FS_Interval, 0 \in Int, 63 \in Int DEF Squares
  <2>2. IsFiniteSet(b.position[c][q])
    BY <1>1, <1>2, <2>1, FS_Subset
  <2> QED
    BY <2>2, FS_CardinalityType, FS_EmptySet
<1>4. MaterialOf(b, c) = 0
  BY DEF Sound, MaterialTold
<1> DEFINE n(q) == Cardinality(b.position[c][q])
<1>5. /\ mat_values[PAWN] = 100 /\ mat_values[KNIGHT] = 300 /\ mat_values[BISHOP] = 325
      /\ mat_values[ROOK] = 500 /\ mat_values[QUEEN] = 900
  BY Worths
<1>6. 100 * n(PAWN) + 300 * n(KNIGHT) + 325 * n(BISHOP) + 500 * n(ROOK) + 900 * n(QUEEN) = 0
  BY <1>4, <1>5 DEF MaterialOf
<1>7. n(PAWN) \in Nat /\ n(KNIGHT) \in Nat /\ n(BISHOP) \in Nat /\ n(ROOK) \in Nat /\ n(QUEEN) \in Nat
  BY <1>3
<1>8. n(PAWN) = 0 /\ n(KNIGHT) = 0 /\ n(BISHOP) = 0 /\ n(ROOK) = 0 /\ n(QUEEN) = 0
  <2> HIDE DEF n
  <2>1. PICK i \in Nat : i = n(PAWN)
    BY <1>7
  <2>2. PICK j \in Nat : j = n(KNIGHT)
    BY <1>7
  <2>3. PICK k \in Nat : k = n(BISHOP)
    BY <1>7
  <2>4. PICK l \in Nat : l = n(ROOK)
    BY <1>7
  <2>5. PICK m \in Nat : m = n(QUEEN)
    BY <1>7
  <2>6. 100 * i + 300 * j + 325 * k + 500 * l + 900 * m = 0
    BY <1>6, <2>1, <2>2, <2>3, <2>4, <2>5
  <2>7. i = 0 /\ j = 0 /\ k = 0 /\ l = 0 /\ m = 0
    BY <2>6, NothingWorth
  <2> QED
    BY <2>1, <2>2, <2>3, <2>4, <2>5, <2>7
<1> QED
  BY <1>3, <1>8 DEF n

\* A set of one element.
LEMMA SingleIs ==
  ASSUME NEW S, IsFiniteSet(S)
  PROVE  Cardinality(S) = 1 <=> \E x : S = {x}
  BY FS_Singleton

LEMMA DrawIs ==
  ASSUME NEW b \in Boards, Sound(b)
  PROVE  is_material_draw(b) <=> Alone(b)
<1>1. WHITE \in Colors /\ BLACK \in Colors
  BY DEF Colors
<1>2. ASSUME NEW p \in Pieces
      PROVE  Both(b, p) \in SUBSET Squares /\ IsFiniteSet(Both(b, p))
  <2>1. Both(b, p) \in SUBSET Squares
    BY <1>1, MenOccupy DEF Both
  <2>2. IsFiniteSet(Squares)
    BY FS_Interval, 0 \in Int, 63 \in Int DEF Squares
  <2> QED
    BY <2>1, <2>2, FS_Subset
<1>3. /\ Both(b, BISHOP) \subseteq Squares
      /\ Cardinality(Both(b, KNIGHT)) = 1 <=> \E x : Both(b, KNIGHT) = {x}
      /\ Cardinality(Both(b, BISHOP)) = 1 <=> \E x : Both(b, BISHOP) = {x}
  BY <1>2, SingleIs, PieceNames
<1>4. /\ Both(b, BISHOP) \subseteq LIGHTBITBOARD <=> \A x \in Both(b, BISHOP) : Tint(x) = 1
      /\ Both(b, BISHOP) \subseteq DARKBITBOARD <=> \A x \in Both(b, BISHOP) : Tint(x) = 0
  BY <1>3, TintIs
<1>5. \A x : Both(b, BISHOP) = {x} => Tint(x) \in {0, 1}
  BY <1>3, TintIs
<1>6. b.material[WHITE] = 0 /\ b.material[BLACK] = 0 =>
        /\ Both(b, PAWN) = {} /\ Both(b, ROOK) = {} /\ Both(b, QUEEN) = {}
        /\ Both(b, KNIGHT) = {} /\ Both(b, BISHOP) = {}
  BY <1>1, NoMaterial DEF Both
<1>7. is_material_draw(b) <=>
        \/ b.material[WHITE] = 0 /\ b.material[BLACK] = 0
        \/ /\ Both(b, PAWN) = {} /\ Both(b, ROOK) = {} /\ Both(b, QUEEN) = {}
           /\ \/ Cardinality(Both(b, KNIGHT)) = 1 /\ Both(b, BISHOP) = {}
              \/ /\ Both(b, KNIGHT) = {}
                 /\ \/ Cardinality(Both(b, BISHOP)) = 1
                    \/ Both(b, BISHOP) \subseteq LIGHTBITBOARD
                    \/ Both(b, BISHOP) \subseteq DARKBITBOARD
  BY DEF is_material_draw, Both
<1> QED
  BY <1>3, <1>4, <1>5, <1>6, <1>7 DEF Alone

\* A board that is a draw by material is no mate: in check the king has a square
\* of the other colour beside it, which no knight or bishop there is can attack.
LEMMA AloneNoMate ==
  ASSUME NEW b \in Boards, Fit(b), Alone(b), in_check(b)
  PROVE  LegalMoves(b) # {}
<1> DEFINE s == b.side
           x == XSIDE(s)
           k == b.king[s]
           q == b.king[x]
<1>1. /\ s \in Colors /\ x \in Colors /\ s # x /\ XSIDE(x) = s /\ Sound(b) /\ EpFits(b)
      /\ b.position[s][KING] = {k} /\ b.position[x][KING] = {q}
      /\ k \in Squares /\ q \in Squares
  BY NamesAre DEF Fit, Boards, Sound, MenTold
<1>2. \A c \in Colors : \A p \in Pieces : b.position[c][p] \subseteq Both(b, p)
  BY DEF Both, Colors
<1>3. PICK c \in attackers(b, k, x) : TRUE
  BY CheckerFound
<1>4. /\ c \in Squares /\ c \in b.occupied /\ k \in b.occupied
      /\ piece_at(b, c) \in Pieces \ {KING} /\ c \in b.position[x][piece_at(b, c)]
      /\ k \in Reach(b, x, piece_at(b, c), c)
  BY CheckerIs
<1>5. \A d \in Colors : b.position[d][PAWN] = {} /\ b.position[d][ROOK] = {} /\ b.position[d][QUEEN] = {}
  BY <1>2, PieceNames DEF Alone
<1>6. piece_at(b, c) = KNIGHT \/ piece_at(b, c) = BISHOP
  <2>1. piece_at(b, c) \notin {PAWN, ROOK, QUEEN, KING}
    BY <1>1, <1>4, <1>5
  <2> QED
    BY <1>4, <2>1 DEF Pieces, PAWN, KNIGHT, BISHOP, ROOK, QUEEN, KING
<1>7. q # k
  <2>1. q = k => k \in b.position[s][KING] \cap b.position[x][KING]
    BY <1>1
  <2> QED
    BY <1>1, <2>1, PieceNames DEF Sound, MenTold
<1>8. k \notin attack_bb[KING][q]
  <2> SUFFICES ASSUME k \in attack_bb[KING][q] PROVE FALSE
    OBVIOUS
  <2>1. KING \in Pieces \ {PAWN} /\ q \in piece_attacks(b, KING, k)
    BY <1>1, PieceNames, KingAttacks, AttackBack
  <2> QED
    BY <1>1, <2>1, KingSafe DEF Fit
<1>9. PICK t \in attack_bb[KING][k] :
        t \in Squares /\ Tint(t) # Tint(k) /\ t # q /\ t \notin attack_bb[KING][q]
        /\ t \notin attack_bb[KNIGHT][k]
  BY <1>1, <1>7, <1>8, Flight
<1>10. Tint(t) \in {0, 1} /\ Tint(k) \in {0, 1} /\ \A y \in Squares : Tint(y) \in {0, 1}
  BY <1>1, <1>9, TintIs
\* No man but the kings stands on t or attacks a square of its colour.
<1>11. \A y \in Both(b, BISHOP) : y \in Squares /\ Tint(y) # Tint(t)
  <2> SUFFICES ASSUME NEW y \in Both(b, BISHOP) PROVE y \in Squares /\ Tint(y) # Tint(t)
    OBVIOUS
  <2>1. y \in Squares
    BY PieceNames, <1>1, MenOccupy DEF Both, Colors
  <2>2. Both(b, KNIGHT) = {}
    BY DEF Alone
  <2>3. piece_at(b, c) = BISHOP
    BY <1>1, <1>2, <1>4, <1>6, <2>2
  <2>4. c \in Both(b, BISHOP)
    BY <1>1, <1>2, <1>4, <2>3
  <2>5. Tint(y) = Tint(c)
    BY <2>4 DEF Alone
  <2>6. Diagonal(c, k)
    <3>1. Aims(BISHOP, c, k)
      BY <1>1, <1>4, <2>3, ReachIs DEF Sliders
    <3> QED
      BY <3>1 DEF Aims, BISHOP, ROOK, QUEEN
  <2>7. Tint(k) = Tint(c)
    BY <1>1, <1>4, <2>6, TintMoves
  <2> QED
    BY <1>9, <2>1, <2>5, <2>7
<1>12. \A y \in Both(b, KNIGHT) : y \in Squares /\ Tint(y) = Tint(t) /\ y # t
  <2> SUFFICES ASSUME NEW y \in Both(b, KNIGHT) PROVE y \in Squares /\ Tint(y) = Tint(t) /\ y # t
    OBVIOUS
  <2>1. Both(b, BISHOP) = {} /\ \E z : Both(b, KNIGHT) = {z}
    BY DEF Alone
  <2>2. piece_at(b, c) = KNIGHT
    BY <1>1, <1>2, <1>4, <1>6, <2>1
  <2>3. c \in Both(b, KNIGHT)
    BY <1>1, <1>2, <1>4, <2>2
  <2>4. y = c
    BY <2>1, <2>3
  <2>5. k \in attack_bb[KNIGHT][c] /\ c \in attack_bb[KNIGHT][k]
    <3>1. KNIGHT \in Pieces \ {PAWN} /\ KNIGHT \notin Sliders
      BY DEF Pieces, Sliders, PAWN, KNIGHT, BISHOP, ROOK, QUEEN, KING
    <3>2. \A z : piece_attacks(b, KNIGHT, z) = attack_bb[KNIGHT][z]
      BY DEF piece_attacks, KNIGHT, BISHOP, ROOK, QUEEN, KING
    <3>3. k \in piece_attacks(b, KNIGHT, c)
      BY <1>4, <2>2, <3>1 DEF Reach
    <3>4. c \in piece_attacks(b, KNIGHT, k)
      BY <1>1, <1>4, <3>1, <3>3, AttackBack
    <3> QED
      BY <3>2, <3>3, <3>4
  <2>6. Tint(k) # Tint(c)
    BY <1>1, <1>4, <2>5, TintMoves
  <2> QED
    BY <1>4, <1>9, <1>10, <2>4, <2>5, <2>6
<1>13. \A d \in Colors : \A p \in Pieces :
         b.position[d][p] # {} => p \in {KNIGHT, BISHOP, KING}
  <2> SUFFICES ASSUME NEW d \in Colors, NEW p \in Pieces, p \notin {KNIGHT, BISHOP, KING}
               PROVE  b.position[d][p] = {}
    OBVIOUS
  <2>1. p \in {PAWN, ROOK, QUEEN}
    BY DEF Pieces, PAWN, KNIGHT, BISHOP, ROOK, QUEEN, KING
  <2> QED
    BY <1>5, <2>1
<1>14. t \notin b.occupied
  <2> SUFFICES ASSUME NEW d \in Colors, NEW p \in Pieces, t \in b.position[d][p] PROVE FALSE
    BY <1>1, <1>9 DEF Sound, MenTold, Colors
  <2>1. p = KING => t = k \/ t = q
    BY <1>1 DEF Colors
  <2>2. p # KING
    BY <1>9, <2>1
  <2>3. t \in Both(b, p) /\ p \in {KNIGHT, BISHOP}
    BY <1>2, <1>13, <2>2
  <2> QED
    BY <1>11, <1>12, <2>3
<1> DEFINE m == Normal(k, t, KING)
           r == make_move(b, m)
<1>15. Comes(b, m) /\ ~Castles(b, m) /\ ptype(m) = KING /\ m.from = k /\ m.to = t
       /\ Gone(b, m) = {k, t} /\ m.piece = KING
  <2>1. KING \in Pieces \ {PAWN} /\ k \in b.position[s][KING]
        /\ t \in piece_attacks(b, KING, k) \ b.occupied
    BY <1>1, <1>9, <1>14, PieceNames, KingAttacks
  <2>2. PieceGoes(b, m)
    BY <2>1 DEF PieceGoes
  <2>3. ~Castles(b, m)
    BY CastlesAre
  <2>4. m.from = k /\ m.to = t /\ m.piece = KING /\ ~Is(m, "PROMOTION") /\ ~Is(m, "ENPASSANT")
    BY <1>1, <1>9, PieceNames, NormalParts DEF Is
  <2> QED
    BY <2>2, <2>3, <2>4 DEF Comes, ptype, Gone
<1>16. /\ Sound(r) /\ r \in Boards /\ r.side = x /\ r.king[s] = t
       /\ Changed(b, r, {k, t}, {<<s, KING, t>>})
  BY <1>15, MenAfter
<1> HIDE DEF m, r
<1>17. ~is_attacked(r, t, x)
  <2> SUFFICES ASSUME NEW p \in Pieces, NEW y \in r.position[x][p], t \in Reach(r, x, p, y)
               PROVE  FALSE
    BY <1>1, <1>9, <1>16, AttackMeans
  <2>1. y \in Squares
    BY <1>1, <1>16, MenOccupy
  <2>2. y \in b.position[x][p]
    BY <1>1, <1>16, <2>1 DEF Changed
  <2>3. p \in {KNIGHT, BISHOP, KING}
    BY <1>1, <1>13, <2>2
  <2>4. y \in Both(b, p)
    BY <1>1, <1>2, <2>2
  <2>5. CASE p = BISHOP
    <3>1. Aims(BISHOP, y, t)
      BY <1>1, <2>1, <2>5, ReachIs DEF Sliders
    <3>2. Diagonal(y, t)
      BY <3>1 DEF Aims, BISHOP, ROOK, QUEEN
    <3> QED
      BY <1>9, <1>11, <2>1, <2>4, <2>5, <3>2, TintMoves
  <2>6. CASE p = KNIGHT
    <3>1. KNIGHT \notin Sliders /\ KNIGHT # PAWN
      BY DEF Sliders, PAWN, KNIGHT, BISHOP, ROOK, QUEEN
    <3>2. t \in attack_bb[KNIGHT][y]
      BY <1>1, <2>1, <2>6, <3>1, ReachIs
    <3> QED
      BY <1>9, <1>12, <2>1, <2>4, <2>6, <3>2, TintMoves
  <2>7. CASE p = KING
    <3>1. KING \notin Sliders /\ KING # PAWN /\ y = q
      BY <1>1, <2>2, <2>7 DEF Sliders, PAWN, KING, BISHOP, ROOK, QUEEN
    <3>2. t \in attack_bb[KING][q]
      BY <1>1, <2>7, <3>1, ReachIs
    <3> QED
      BY <1>9, <3>2
  <2> QED
    BY <2>3, <2>5, <2>6, <2>7
<1>18. is_legal_move(b, m)
  BY <1>1, <1>16, <1>17 DEF is_legal_move, is_legal, r
<1>19. m \in generate_moves(b, TRUE)
  BY <1>1, <1>15, MovesAre
<1> QED
  BY <1>18, <1>19 DEF LegalMoves, filter_illegal

\* Moves add no man, and a bishop stays on squares of its colour.
LEMMA AloneKept ==
  ASSUME NEW b \in Boards, Fit(b), Alone(b), NEW m, Comes(b, m)
  PROVE  Alone(make_move(b, m))
<1> DEFINE s == b.side
           r == make_move(b, m)
           x == XSIDE(s)
<1>1. s \in Colors /\ x \in Colors /\ Colors = {s, x} /\ Sound(b)
  BY NamesAre DEF Fit, Boards, Colors, WHITE, BLACK, XSIDE
<1>2. \A p : Both(b, p) = b.position[s][p] \cup b.position[x][p]
  BY <1>1 DEF Both, Colors
<1>3. ~Castles(b, m)
  <2> SUFFICES ASSUME Castles(b, m) PROVE FALSE
    OBVIOUS
  <2>1. PICK f \in Flags : Castle[f].side = b.side /\ f \in b.flags
    BY CastlesAre DEF CanCastle
  <2>2. Castle[f].rook \in b.position[s][ROOK]
    BY <2>1 DEF Fit, FlagsFit
  <2> QED
    BY <1>2, <2>2 DEF Alone
<1>4. /\ Sound(r) /\ r \in Boards /\ r.side = x
      /\ Changed(b, r, Gone(b, m), {<<s, m.piece, m.to>>})
  BY <1>3, MenAfter
<1>5. Reaching(b, m)
  BY <1>3, EachReaches
<1>6. m.from \in b.position[s][ptype(m)] /\ m.to \in Squares /\ ptype(m) \in Pieces
      /\ m.from \in Squares
  BY AllTold DEF Sent
<1> HIDE DEF r, s, x
<1>7. ptype(m) \notin {PAWN, ROOK, QUEEN} /\ m.piece = ptype(m)
  <2>1. ptype(m) \notin {PAWN, ROOK, QUEEN}
    BY <1>2, <1>6 DEF Alone
  <2> QED
    BY <2>1 DEF ptype
<1>8. \A c \in Colors : \A p \in Pieces : \A y \in Squares :
        y \in r.position[c][p] <=>
          (y \in b.position[c][p] /\ y \notin Gone(b, m)) \/ (c = s /\ p = ptype(m) /\ y = m.to)
  BY <1>4, <1>7 DEF Changed
<1>9. \A c \in Colors : \A p \in Pieces :
        b.position[c][p] \subseteq Squares /\ r.position[c][p] \subseteq Squares
  BY <1>1, <1>4, MenOccupy
<1>10. \A p : Both(r, p) = r.position[s][p] \cup r.position[x][p]
  BY <1>1 DEF Both, Colors
<1>11. ASSUME NEW p \in Pieces, NEW y \in Both(r, p)
       PROVE  \/ y \in Both(b, p) /\ y \notin Gone(b, m)
              \/ p = ptype(m) /\ y = m.to
  BY <1>1, <1>2, <1>8, <1>9, <1>10
<1>12. Both(r, PAWN) = {} /\ Both(r, ROOK) = {} /\ Both(r, QUEEN) = {}
  BY <1>7, <1>11, PieceNames DEF Alone
<1>13. m.from \in Both(b, ptype(m)) /\ m.from \in Gone(b, m)
  BY <1>2, <1>6 DEF Gone
<1>14. CASE Both(b, KNIGHT) = {}
  <2>1. PICK t \in {0, 1} : \A y \in Both(b, BISHOP) : Tint(y) = t
    BY <1>14 DEF Alone
  <2>2. ptype(m) # KNIGHT
    BY <1>13, <1>14
  <2>3. Both(r, KNIGHT) = {}
    BY <1>11, <1>14, <2>2, PieceNames
  <2>4. ASSUME ptype(m) = BISHOP PROVE Tint(m.to) = t
    <3>1. m.to \in piece_attacks(b, BISHOP, m.from)
      BY <1>5, <1>7, <2>4 DEF Reaching
    <3>2. m.to \in Reach(b, s, BISHOP, m.from)
      BY <1>7, <2>4, <3>1 DEF Reach
    <3>3. Diagonal(m.from, m.to)
      <4>1. Aims(BISHOP, m.from, m.to)
        BY <1>1, <1>6, <3>2, PieceNames, ReachIs DEF Sliders
      <4> QED
        BY <4>1 DEF Aims, BISHOP, ROOK, QUEEN
    <3>4. Tint(m.from) = t
      BY <1>13, <2>1, <2>4
    <3> QED
      BY <1>6, <3>3, <3>4, TintMoves
  <2>5. \A y \in Both(r, BISHOP) : Tint(y) = t
    BY <1>11, <2>1, <2>4, PieceNames
  <2> QED
    BY <1>12, <2>1, <2>3, <2>5 DEF Alone, r
<1>15. CASE Both(b, KNIGHT) # {}
  <2>1. Both(b, BISHOP) = {} /\ \E y : Both(b, KNIGHT) = {y}
    BY <1>15 DEF Alone
  <2>2. PICK n : Both(b, KNIGHT) = {n}
    BY <2>1
  <2>3. ptype(m) # BISHOP
    BY <1>13, <2>1
  <2>4. Both(r, BISHOP) = {}
    BY <1>11, <2>1, <2>3, PieceNames
  <2>5. \A y, z \in Both(r, KNIGHT) : y = z
    BY <1>11, <1>13, <2>2, PieceNames
  <2>6. CASE Both(r, KNIGHT) = {}
    BY <1>12, <2>4, <2>6 DEF Alone, r
  <2>7. CASE Both(r, KNIGHT) # {}
    <3>1. PICK y : y \in Both(r, KNIGHT)
      BY <2>7
    <3>2. Both(r, KNIGHT) = {y}
      BY <2>5, <3>1
    <3> QED
      BY <1>12, <2>4, <3>2 DEF Alone, r
  <2> QED
    BY <2>6, <2>7
<1> QED
  BY <1>14, <1>15

\* A null move moves no man, and it is not made in check.
LEMMA PassAlone ==
  ASSUME NEW b \in Boards, Sound(b), Alone(b)
  PROVE  Alone(make_move(b, NullMove))
<1> DEFINE q == MovePieces(b, NullMove)
           r == make_move(b, NullMove)
<1>1. SameMen(b, q) /\ q.side = b.side /\ q.flags = b.flags /\ Sound(q)
  BY NullParts, NullKept DEF MovePieces, SameMen, Kept
<1>2. SameMen(q, r)
  BY <1>1, NullParts, MoveMade
<1> HIDE DEF q, r
<1>3. \A p : Both(r, p) = Both(b, p)
  BY <1>1, <1>2 DEF SameMen, Both
<1> QED
  BY <1>3 DEF Alone, r

LEMMA DrawStep ==
  ASSUME TypeOK, Consistent(board), TypeOK', Consistent(board)', [Next]_vars,
         is_material_draw(board)
  PROVE  is_material_draw(board)' /\ ~is_mate(board)'
<1>1. /\ board \in Boards /\ Fit(board) /\ Sound(board) /\ EpFits(board)
      /\ board' \in Boards /\ Fit(board') /\ Sound(board')
  BY FitIs DEF TypeOK, Fit
<1>2. Alone(board)
  BY <1>1, DrawIs
<1>3. Alone(board')
  <2>1. CASE MakeMove
    <3>1. PICK m \in LegalMoves(board) : board' = make_move(board, m)
      BY <2>1 DEF MakeMove
    <3>2. Comes(board, m)
      BY <1>1, MovesAre DEF LegalMoves, filter_illegal
    <3> QED
      BY <1>1, <1>2, <3>1, <3>2, AloneKept
  <2>2. CASE MakeNullMove
    BY <1>1, <1>2, <2>2, PassAlone DEF MakeNullMove
  <2>3. CASE UNCHANGED vars
    BY <1>2, <2>3 DEF vars
  <2> QED
    BY <2>1, <2>2, <2>3 DEF Next
<1>4. is_material_draw(board')
  BY <1>1, <1>3, DrawIs
<1>5. ~is_mate(board')
  BY <1>1, <1>3, AloneNoMate DEF is_mate
<1> QED
  BY <1>4, <1>5

\* A draw by insufficient material is final: is_material_draw() stays true however
\* the game goes on, and no continuation mates.
THEOREM MaterialDrawStays == Spec => MaterialDrawIsFinal
<1>1. TypeOK /\ Consistent(board) /\ TypeOK' /\ Consistent(board)' /\ [Next]_vars =>
        (is_material_draw(board) => is_material_draw(board') /\ ~is_mate(board'))
  BY DrawStep
<1>2. IncrementalStateExact => TypeOK /\ Consistent(board)
  BY DEF IncrementalStateExact
<1> QED
  BY <1>1, <1>2, IncrementalExact, PTL DEF Spec, MaterialDrawIsFinal
==============================================================================
