---------------------------- MODULE XiangqiProofs ----------------------------
(***************************************************************************)
(* Proofs about the boards of xiangqi and the lines of a search.            *)
(***************************************************************************)
EXTENDS XiangqiLine, FiniteSetTheorems, NaturalsInduction, WellFoundedInduction, TLAPS

-----------------------------------------------------------------------------
(***************************************************************************)
(* What the elementary changes do to a board.                               *)
(***************************************************************************)
LEMMA KeysDiffer ==
  ASSUME NEW c \in Colors, NEW d \in Colors, NEW p \in Pieces, NEW q \in Pieces,
         NEW x \in Squares, NEW y \in Squares
  PROVE  /\ Key(c, p, x) = Key(d, q, y) <=> c = d /\ p = q /\ x = y
         /\ Key(c, p, x) # SideKey
<1>1. Key(c, p, x) = Key(d, q, y) <=> c = d /\ p = q /\ x = y
  BY DEF Key
<1>2. Key(c, p, x)[1] = "piece" /\ SideKey[1] = "side"
  BY DEF Key, SideKey
<1> QED
  BY <1>1, <1>2

LEMMA Numbers ==
  /\ Colors = {0, 1} /\ WHITE = 0 /\ BLACK = 1 /\ NO_COLOR = -1
  /\ Pieces = 0 .. 6 /\ PAWN = 0 /\ KING = 6 /\ NO_PIECE = -1
  /\ Squares = 0 .. 89 /\ Squares \subseteq Int /\ 0 \in Squares
  /\ \A c \in Colors : XSIDE(c) \in Colors /\ XSIDE(c) # c /\ XSIDE(XSIDE(c)) = c
BY DEF Colors, WHITE, BLACK, NO_COLOR, Pieces, PAWN, KING, NO_PIECE, Squares, XSIDE

LEMMA Worths ==
  /\ mat_values \in [Pieces -> Nat] /\ mat_values[KING] = 0
BY DEF mat_values, Pieces, PAWN, GUARD, ELEPHANT, KNIGHT, CANNON, ROOK, KING

LEMMA Counting ==
  ASSUME NEW P \in SUBSET Squares, NEW x \in Squares
  PROVE  /\ Cardinality(P) \in Nat
         /\ x \in P => Cardinality(P \ {x}) = Cardinality(P) - 1
         /\ x \notin P => Cardinality(P \cup {x}) = Cardinality(P) + 1
<1>1. IsFiniteSet(P)
  BY FS_Interval, FS_Subset, 0 \in Int, 89 \in Int DEF Squares
<1> QED
  BY <1>1, FS_CardinalityType, FS_RemoveElement, FS_AddElement

Removed(b, r, sq, side, p) ==
  /\ r \in Boards
  /\ r.side = b.side /\ r.moveno = b.moveno /\ r.movecnt50 = b.movecnt50
  /\ r.king = b.king /\ r.pce_movecnt = b.pce_movecnt
  /\ \A x \in Squares :
       /\ piece_at(r, x) = IF x = sq THEN NO_PIECE ELSE piece_at(b, x)
       /\ color_at(r, x) = IF x = sq THEN NO_COLOR ELSE color_at(b, x)
  /\ \A c \in Colors :
       r.material[c] = b.material[c] - (IF c = side THEN mat_values[p] ELSE 0)
  /\ r.hashkey = SymDiff(b.hashkey, {Key(side, p, sq)})
  /\ r.pawnhashkey = IF p = PAWN THEN SymDiff(b.pawnhashkey, {Key(side, p, sq)})
                     ELSE b.pawnhashkey

LEMMA RemoveParts ==
  ASSUME NEW b \in Boards, NEW sq \in Squares, NEW side \in Colors, NEW p \in Pieces, p # KING
  PROVE  Removed(b, remove_piece(b, sq, side, p), sq, side, p)
<1> DEFINE keys == {Key(side, p, x) : x \in {sq}}
           r == [b EXCEPT !.position_pieces = [b.position_pieces EXCEPT ![sq] = NO_PIECE],
                          !.position_colors = [b.position_colors EXCEPT ![sq] = NO_COLOR],
                          !.king = [b.king EXCEPT ![side] = b.king[side]],
                          !.material = [b.material EXCEPT ![side] = b.material[side] - mat_values[p]],
                          !.hashkey = SymDiff(b.hashkey, keys),
                          !.pawnhashkey = IF p = PAWN THEN SymDiff(b.pawnhashkey, keys)
                                          ELSE b.pawnhashkey]
<1>1. remove_piece(b, sq, side, p) = r
  BY DEF remove_piece, Rekey, Boards
<1>2. keys = {Key(side, p, sq)} /\ keys \subseteq Keys
  BY DEF Keys
<1>3. SymDiff(b.hashkey, keys) \in SUBSET Keys /\ SymDiff(b.pawnhashkey, keys) \in SUBSET Keys
  BY <1>2 DEF SymDiff, Boards
<1>4. mat_values[p] \in Int /\ b.material[side] \in Int /\ NO_PIECE \in Pieces \cup {NO_PIECE}
  BY Worths DEF Boards
<1> HIDE DEF keys
<1>5. r \in Boards
  <2>1. [b.position_pieces EXCEPT ![sq] = NO_PIECE] \in [Squares -> Pieces \cup {NO_PIECE}]
    BY DEF Boards
  <2>2. [b.position_colors EXCEPT ![sq] = NO_COLOR] \in [Squares -> Colors \cup {NO_COLOR}]
    BY DEF Boards
  <2>3. [b.king EXCEPT ![side] = b.king[side]] \in [Colors -> Squares]
    BY DEF Boards
  <2>4. [b.material EXCEPT ![side] = b.material[side] - mat_values[p]] \in [Colors -> Int]
    BY <1>4 DEF Boards
  <2> QED
    BY <1>3, <2>1, <2>2, <2>3, <2>4 DEF Boards
<1>6. /\ r.side = b.side /\ r.moveno = b.moveno /\ r.movecnt50 = b.movecnt50
      /\ r.king = b.king /\ r.pce_movecnt = b.pce_movecnt
  BY DEF Boards
<1>7. \A x \in Squares :
        /\ piece_at(r, x) = IF x = sq THEN NO_PIECE ELSE piece_at(b, x)
        /\ color_at(r, x) = IF x = sq THEN NO_COLOR ELSE color_at(b, x)
  BY DEF Boards, piece_at, color_at
<1>8. \A c \in Colors :
        r.material[c] = b.material[c] - (IF c = side THEN mat_values[p] ELSE 0)
  BY <1>4 DEF Boards
<1>9. /\ r.hashkey = SymDiff(b.hashkey, keys)
      /\ r.pawnhashkey = IF p = PAWN THEN SymDiff(b.pawnhashkey, keys) ELSE b.pawnhashkey
  BY DEF Boards
<1> QED
  BY <1>1, <1>2, <1>5, <1>6, <1>7, <1>8, <1>9 DEF Removed

Moved(b, r, from, to, side, p) ==
  LET keys == {Key(side, p, from), Key(side, p, to)}
  IN  /\ r \in Boards
      /\ r.side = b.side /\ r.moveno = b.moveno /\ r.movecnt50 = b.movecnt50
      /\ r.pce_movecnt = b.pce_movecnt /\ r.material = b.material
      /\ \A x \in Squares :
           /\ piece_at(r, x) = IF x = to THEN p ELSE IF x = from THEN NO_PIECE
                               ELSE piece_at(b, x)
           /\ color_at(r, x) = IF x = to THEN side ELSE IF x = from THEN NO_COLOR
                               ELSE color_at(b, x)
      /\ \A c \in Colors :
           r.king[c] = IF c = side /\ p = KING THEN to ELSE b.king[c]
      /\ r.hashkey = SymDiff(b.hashkey, keys)
      /\ r.pawnhashkey = IF p = PAWN THEN SymDiff(b.pawnhashkey, keys)
                         ELSE b.pawnhashkey

LEMMA MoveParts ==
  ASSUME NEW b \in Boards, NEW from \in Squares, NEW to \in Squares, from # to,
         NEW side \in Colors, NEW p \in Pieces
  PROVE  Moved(b, move_piece(b, from, to, side, p), from, to, side, p)
<1> DEFINE keys == {Key(side, p, x) : x \in {from, to}}
           pieces == [b.position_pieces EXCEPT ![from] = NO_PIECE, ![to] = p]
           colors == [b.position_colors EXCEPT ![from] = NO_COLOR, ![to] = side]
           kings == [b.king EXCEPT ![side] = IF p = KING THEN to ELSE b.king[side]]
           r == [b EXCEPT !.position_pieces = pieces, !.position_colors = colors,
                          !.king = kings, !.hashkey = SymDiff(b.hashkey, keys),
                          !.pawnhashkey = IF p = PAWN THEN SymDiff(b.pawnhashkey, keys)
                                          ELSE b.pawnhashkey]
<1>1. move_piece(b, from, to, side, p) = r
  BY DEF move_piece, Rekey, Boards
<1>2. keys = {Key(side, p, from), Key(side, p, to)} /\ keys \subseteq Keys
  BY DEF Keys
<1>3. SymDiff(b.hashkey, keys) \in SUBSET Keys /\ SymDiff(b.pawnhashkey, keys) \in SUBSET Keys
  BY <1>2 DEF SymDiff, Boards
<1>4. /\ pieces \in [Squares -> Pieces \cup {NO_PIECE}]
      /\ \A x \in Squares : pieces[x] = IF x = to THEN p ELSE IF x = from THEN NO_PIECE
                                        ELSE b.position_pieces[x]
  BY DEF Boards
<1>5. /\ colors \in [Squares -> Colors \cup {NO_COLOR}]
      /\ \A x \in Squares : colors[x] = IF x = to THEN side ELSE IF x = from THEN NO_COLOR
                                        ELSE b.position_colors[x]
  BY DEF Boards
<1>6. /\ kings \in [Colors -> Squares]
      /\ \A c \in Colors : kings[c] = IF c = side /\ p = KING THEN to ELSE b.king[c]
  BY DEF Boards
<1> HIDE DEF keys, pieces, colors, kings
<1>7. r \in Boards
  BY <1>3, <1>4, <1>5, <1>6 DEF Boards
<1>8. /\ r.side = b.side /\ r.moveno = b.moveno /\ r.movecnt50 = b.movecnt50
      /\ r.pce_movecnt = b.pce_movecnt /\ r.material = b.material
      /\ r.position_pieces = pieces /\ r.position_colors = colors /\ r.king = kings
      /\ r.hashkey = SymDiff(b.hashkey, keys)
      /\ r.pawnhashkey = IF p = PAWN THEN SymDiff(b.pawnhashkey, keys) ELSE b.pawnhashkey
  BY DEF Boards
<1> HIDE DEF r
<1>9. \A x \in Squares : piece_at(r, x) = pieces[x] /\ color_at(r, x) = colors[x]
  BY <1>8 DEF piece_at, color_at
<1>10. \A x \in Squares :
         /\ piece_at(b, x) = b.position_pieces[x] /\ color_at(b, x) = b.position_colors[x]
  BY DEF piece_at, color_at
<1> QED
  BY <1>1, <1>2, <1>4, <1>5, <1>6, <1>7, <1>8, <1>9, <1>10 DEF Moved

Switched(b, r) ==
  /\ r \in Boards
  /\ r.side = XSIDE(b.side) /\ r.moveno = b.moveno /\ r.movecnt50 = b.movecnt50
  /\ r.position_pieces = b.position_pieces
  /\ r.position_colors = b.position_colors
  /\ r.king = b.king /\ r.material = b.material /\ r.pce_movecnt = b.pce_movecnt
  /\ r.hashkey = SymDiff(b.hashkey, {SideKey})
  /\ r.pawnhashkey = SymDiff(b.pawnhashkey, {SideKey})

LEMMA SwitchParts ==
  ASSUME NEW b \in Boards
  PROVE  Switched(b, switch_sides(b))
<1>1. XSIDE(b.side) \in Colors
  BY Numbers DEF Boards
<1>2. SymDiff(b.hashkey, {SideKey}) \in SUBSET Keys /\ SymDiff(b.pawnhashkey, {SideKey}) \in SUBSET Keys
  BY DEF SymDiff, Boards, Keys
<1> QED
  BY <1>1, <1>2 DEF Switched, switch_sides, Boards

-----------------------------------------------------------------------------
(***************************************************************************)
(* What a generated move says is so on the board.                           *)
(***************************************************************************)
LEMMA Words == "NORMAL" # "CAPTURE" /\ "NORMAL" # "NULL" /\ "CAPTURE" # "NULL"
OBVIOUS

LEMMA Generated ==
  ASSUME NEW b, NEW m \in generate_moves(b)
  PROVE  /\ m.from \in Squares /\ m.to \in Attacks(b, m.from)
         /\ color_at(b, m.from) = b.side /\ m.ptype = piece_at(b, m.from)
         /\ \/ /\ m = Capture(m.from, m.to, m.ptype, m.cap_ptype) /\ m.flag = "CAPTURE"
               /\ color_at(b, m.to) = XSIDE(b.side) /\ m.cap_ptype = piece_at(b, m.to)
            \/ /\ m = Normal(m.from, m.to, m.ptype) /\ m.flag = "NORMAL"
               /\ m.cap_ptype = NO_PIECE /\ ~Occupied(b, m.to)
<1>1. CASE m \in generate_captures(b)
  <2>1. PICK from \in {sq \in Squares : color_at(b, sq) = b.side} :
          \E to \in {sq \in Attacks(b, from) : color_at(b, sq) = XSIDE(b.side)} :
            m = Capture(from, to, piece_at(b, from), piece_at(b, to))
    BY <1>1 DEF generate_captures
  <2> QED
    BY <2>1 DEF Capture, Move
<1>2. CASE m \in generate_noncaptures(b)
  <2>1. PICK from \in {sq \in Squares : color_at(b, sq) = b.side} :
          \E to \in {sq \in Attacks(b, from) : ~Occupied(b, sq)} :
            m = Normal(from, to, piece_at(b, from))
    BY <1>2 DEF generate_noncaptures
  <2> QED
    BY <2>1 DEF Normal, Move
<1> QED
  BY <1>1, <1>2 DEF generate_moves

-----------------------------------------------------------------------------
(***************************************************************************)
(* StateExact, square by square and key by key.                             *)
(***************************************************************************)
MenTold(b) ==
  /\ \A x \in Squares : Occupied(b, x) <=> piece_at(b, x) # NO_PIECE
  /\ \A c \in Colors, x \in Squares :
       color_at(b, x) = c /\ piece_at(b, x) = KING <=> x = b.king[c]
MaterialTold(b) == \A c \in Colors : b.material[c] = MaterialOf(b, c)
HashTold(b) ==
  /\ \A c \in Colors, p \in Pieces, x \in Squares :
       Key(c, p, x) \in b.hashkey <=> color_at(b, x) = c /\ piece_at(b, x) = p
  /\ SideKey \in b.hashkey <=> b.side = BLACK
PawnHashTold(b) ==
  /\ \A c \in Colors, p \in Pieces, x \in Squares :
       Key(c, p, x) \in b.pawnhashkey <=>
         p = PAWN /\ color_at(b, x) = c /\ piece_at(b, x) = PAWN
  /\ SideKey \in b.pawnhashkey <=> b.side = BLACK
Told(b) == b \in Boards /\ MenTold(b) /\ MaterialTold(b) /\ HashTold(b) /\ PawnHashTold(b)

\* The keys of the men on a board.
LEMMA KeysTold ==
  ASSUME NEW b \in Boards, NEW ps \in SUBSET Pieces,
         NEW c \in Colors, NEW p \in Pieces, NEW x \in Squares
  PROVE  /\ Key(c, p, x) \in KeysOf(b, ps) \cup SideKeys(b) <=>
              color_at(b, x) = c /\ piece_at(b, x) = p /\ p \in ps
         /\ SideKey \in KeysOf(b, ps) \cup SideKeys(b) <=> b.side = BLACK
         /\ KeysOf(b, ps) \cup SideKeys(b) \subseteq Keys
<1>1. \A k : k \in KeysOf(b, ps) <=>
        \E d \in Colors, y \in Squares :
          color_at(b, y) = d /\ piece_at(b, y) \in ps /\ k = Key(d, piece_at(b, y), y)
  BY DEF KeysOf, Standing
<1>2. Key(c, p, x) \in KeysOf(b, ps) <=> color_at(b, x) = c /\ piece_at(b, x) = p /\ p \in ps
  <2>1. ASSUME Key(c, p, x) \in KeysOf(b, ps)
        PROVE  color_at(b, x) = c /\ piece_at(b, x) = p /\ p \in ps
    <3>1. PICK d \in Colors, y \in Squares :
            color_at(b, y) = d /\ piece_at(b, y) \in ps /\ Key(c, p, x) = Key(d, piece_at(b, y), y)
      BY <1>1, <2>1
    <3>2. c = d /\ p = piece_at(b, y) /\ x = y
      BY <3>1, KeysDiffer
    <3> QED
      BY <3>1, <3>2
  <2> QED
    BY <1>1, <2>1
<1>3. SideKey \notin KeysOf(b, ps)
  <2> SUFFICES ASSUME NEW d \in Colors, NEW y \in Squares, piece_at(b, y) \in ps,
                      SideKey = Key(d, piece_at(b, y), y)
               PROVE  FALSE
    BY <1>1
  <2> QED
    BY KeysDiffer
<1>4. Key(c, p, x) # SideKey
  BY KeysDiffer
<1>5. KeysOf(b, ps) \subseteq Keys
  BY <1>1 DEF Keys
<1> QED
  BY <1>2, <1>3, <1>4, <1>5 DEF SideKeys, Keys

LEMMA SameKeys ==
  ASSUME NEW K \in SUBSET Keys, NEW L \in SUBSET Keys, SideKey \in K <=> SideKey \in L,
         \A c \in Colors, p \in Pieces, x \in Squares : Key(c, p, x) \in K <=> Key(c, p, x) \in L
  PROVE  K = L
BY DEF Keys

LEMMA ToldMeans ==
  ASSUME NEW b
  PROVE  StateExact(b) <=> Told(b) /\ \A x \in Squares : ~Occupied(b, x) => b.pce_movecnt[x] = 0
<1> SUFFICES ASSUME b \in Boards
             PROVE  /\ MenTold(b) <=>
                         /\ \A sq \in Squares : Occupied(b, sq) <=> piece_at(b, sq) # NO_PIECE
                         /\ \A c \in Colors : Standing(b, c, {KING}) = {b.king[c]}
                    /\ HashTold(b) <=> b.hashkey = KeysOf(b, Pieces) \cup SideKeys(b)
                    /\ PawnHashTold(b) <=> b.pawnhashkey = KeysOf(b, {PAWN}) \cup SideKeys(b)
  BY DEF StateExact, Told, MaterialTold
<1>1. MenTold(b) <=> /\ \A sq \in Squares : Occupied(b, sq) <=> piece_at(b, sq) # NO_PIECE
                     /\ \A c \in Colors : Standing(b, c, {KING}) = {b.king[c]}
  <2>1. \A c \in Colors : b.king[c] \in Squares
    BY DEF Boards
  <2>2. \A c \in Colors : Standing(b, c, {KING}) = {b.king[c]} <=>
          \A x \in Squares : color_at(b, x) = c /\ piece_at(b, x) = KING <=> x = b.king[c]
    BY <2>1 DEF Standing
  <2> QED
    BY <2>2 DEF MenTold
<1>2. b.hashkey \in SUBSET Keys /\ b.pawnhashkey \in SUBSET Keys
  BY DEF Boards
<1>3. Pieces \in SUBSET Pieces /\ {PAWN} \in SUBSET Pieces
  BY DEF Pieces, PAWN, KING
<1> DEFINE K(ps) == KeysOf(b, ps) \cup SideKeys(b)
<1>4. \A ps \in SUBSET Pieces : \A c \in Colors, p \in Pieces, x \in Squares :
        /\ Key(c, p, x) \in K(ps) <=> color_at(b, x) = c /\ piece_at(b, x) = p /\ p \in ps
        /\ SideKey \in K(ps) <=> b.side = BLACK
        /\ K(ps) \in SUBSET Keys
  BY KeysTold
<1>5. WHITE \in Colors /\ PAWN \in Pieces /\ 0 \in Squares
  BY DEF Colors, WHITE, Pieces, PAWN, KING, Squares
<1> HIDE DEF K
<1>6. HashTold(b) <=> b.hashkey = K(Pieces)
  <2>1. ASSUME HashTold(b) PROVE b.hashkey = K(Pieces)
    BY <1>2, <1>3, <1>4, <1>5, <2>1, SameKeys DEF HashTold
  <2>2. ASSUME b.hashkey = K(Pieces) PROVE HashTold(b)
    BY <1>3, <1>4, <1>5, <2>2 DEF HashTold
  <2> QED
    BY <2>1, <2>2
<1>7. PawnHashTold(b) <=> b.pawnhashkey = K({PAWN})
  <2>1. ASSUME PawnHashTold(b) PROVE b.pawnhashkey = K({PAWN})
    BY <1>2, <1>3, <1>4, <1>5, <2>1, SameKeys DEF PawnHashTold
  <2>2. ASSUME b.pawnhashkey = K({PAWN}) PROVE PawnHashTold(b)
    BY <1>3, <1>4, <1>5, <2>2 DEF PawnHashTold
  <2> QED
    BY <2>1, <2>2
<1> QED
  BY <1>1, <1>6, <1>7 DEF K

-----------------------------------------------------------------------------
(***************************************************************************)
(* Each change keeps what is told.                                          *)
(***************************************************************************)
Paying == {PAWN, GUARD, ELEPHANT, KNIGHT, CANNON, ROOK}
Count(b, c, p) == Cardinality(Standing(b, c, {p}))

CountChanged(b, r, side, p, n) ==
  \A c \in Colors, q \in Paying :
    Count(r, c, q) = IF c = side /\ q = p THEN Count(b, c, q) + n ELSE Count(b, c, q)

LEMMA CountsTyped ==
  ASSUME NEW b
  PROVE  \A c \in Colors, q \in Paying : Count(b, c, q) \in Int
<1> SUFFICES ASSUME NEW c \in Colors, NEW q \in Paying PROVE Count(b, c, q) \in Int
  OBVIOUS
<1>1. Standing(b, c, {q}) \in SUBSET Squares
  BY DEF Standing
<1>2. 0 \in Squares
  BY DEF Squares
<1>3. \A P \in SUBSET Squares : Cardinality(P) \in Nat
  BY <1>2, Counting
<1> QED
  BY <1>1, <1>3 DEF Count

MaterialChanged(b, r, side, p, n) ==
  \A c \in Colors :
    /\ MaterialOf(b, c) \in Int
    /\ MaterialOf(r, c) = MaterialOf(b, c) + (IF c = side THEN mat_values[p] * n ELSE 0)

\* One man more or less changes the material by its value.
LEMMA MaterialChange ==
  ASSUME NEW b, NEW r, NEW side \in Colors, NEW p \in Paying, NEW n \in Int,
         CountChanged(b, r, side, p, n)
  PROVE  MaterialChanged(b, r, side, p, n)
<1> SUFFICES ASSUME NEW c \in Colors
             PROVE  /\ MaterialOf(b, c) \in Int
                    /\ MaterialOf(r, c) =
                         MaterialOf(b, c) + (IF c = side THEN mat_values[p] * n ELSE 0)
  BY DEF MaterialChanged
<1>1. /\ mat_values[PAWN] = 100 /\ mat_values[GUARD] = 200 /\ mat_values[ELEPHANT] = 200
      /\ mat_values[KNIGHT] = 400 /\ mat_values[CANNON] = 450 /\ mat_values[ROOK] = 900
  BY DEF mat_values, Pieces, PAWN, GUARD, ELEPHANT, KNIGHT, CANNON, ROOK, KING
<1>2. \A x \in {b, r} : MaterialOf(x, c) =
        100 * Count(x, c, PAWN) + 200 * Count(x, c, GUARD) + 200 * Count(x, c, ELEPHANT)
          + 400 * Count(x, c, KNIGHT) + 450 * Count(x, c, CANNON) + 900 * Count(x, c, ROOK)
  BY <1>1 DEF MaterialOf, Worth, Count
<1>3. /\ PAWN = 0 /\ GUARD = 1 /\ ELEPHANT = 2 /\ KNIGHT = 3 /\ CANNON = 4 /\ ROOK = 5
      /\ Paying = {0, 1, 2, 3, 4, 5}
  BY DEF Paying, PAWN, GUARD, ELEPHANT, KNIGHT, CANNON, ROOK
<1>4. \A q \in Paying : Count(b, c, q) \in Int
  BY CountsTyped
<1>5. \A q \in Paying :
        Count(r, c, q) = IF c = side /\ q = p THEN Count(b, c, q) + n ELSE Count(b, c, q)
  BY DEF CountChanged
<1> HIDE DEF Count, MaterialOf
<1>6. CASE c # side
  BY <1>2, <1>3, <1>4, <1>5, <1>6
<1>7. CASE c = side
  <2>1. p = 0 \/ p = 1 \/ p = 2 \/ p = 3 \/ p = 4 \/ p = 5
    BY <1>3
  <2> QED
    BY <1>1, <1>2, <1>3, <1>4, <1>5, <1>7, <2>1
<1> QED
  BY <1>6, <1>7

LEMMA RemoveTold ==
  ASSUME NEW b, Told(b), NEW sq \in Squares, NEW side \in Colors, NEW p \in Pieces, p # KING,
         color_at(b, sq) = side, piece_at(b, sq) = p
  PROVE  Told(remove_piece(b, sq, side, p))
<1> DEFINE r == remove_piece(b, sq, side, p)
<1>0. b \in Boards /\ Removed(b, r, sq, side, p)
  BY RemoveParts DEF Told
<1> HIDE DEF r
<1>1. /\ r \in Boards /\ r.side = b.side /\ r.king = b.king
      /\ \A c \in Colors :
           r.material[c] = b.material[c] - (IF c = side THEN mat_values[p] ELSE 0)
      /\ r.hashkey = SymDiff(b.hashkey, {Key(side, p, sq)})
      /\ r.pawnhashkey = IF p = PAWN THEN SymDiff(b.pawnhashkey, {Key(side, p, sq)})
                         ELSE b.pawnhashkey
  BY <1>0 DEF Removed
<1>2. \A x \in Squares :
        /\ piece_at(r, x) = IF x = sq THEN NO_PIECE ELSE piece_at(b, x)
        /\ color_at(r, x) = IF x = sq THEN NO_COLOR ELSE color_at(b, x)
  BY <1>0 DEF Removed
<1>3. NO_PIECE \notin Pieces /\ NO_COLOR \notin Colors /\ KING # NO_PIECE
  BY Numbers
<1>4. MenTold(r)
  <2>1. \A x \in Squares : Occupied(r, x) <=> piece_at(r, x) # NO_PIECE
    BY <1>2 DEF Told, MenTold, Occupied
  <2>2. \A c \in Colors, x \in Squares :
          color_at(r, x) = c /\ piece_at(r, x) = KING <=> x = r.king[c]
    BY <1>1, <1>2, <1>3 DEF Told, MenTold
  <2> QED
    BY <2>1, <2>2 DEF MenTold
<1>5. MaterialTold(r)
  <2>1. p \in Paying /\ mat_values[p] \in Int
    BY Worths DEF Pieces, Paying, PAWN, GUARD, ELEPHANT, KNIGHT, CANNON, ROOK, KING
  <2>2. \A c \in Colors, q \in Paying :
          Standing(r, c, {q}) = IF c = side /\ q = p THEN Standing(b, c, {q}) \ {sq}
                                ELSE Standing(b, c, {q})
    <3>1. \A q \in Paying : q \in Pieces
      BY DEF Paying, Pieces, PAWN, GUARD, ELEPHANT, KNIGHT, CANNON, ROOK, KING
    <3> QED
      BY <1>2, <1>3, <3>1 DEF Standing
  <2>3. sq \in Standing(b, side, {p}) /\ Standing(b, side, {p}) \in SUBSET Squares
    BY DEF Standing
  <2>4. Cardinality(Standing(b, side, {p}) \ {sq}) = Cardinality(Standing(b, side, {p})) - 1
    BY <2>3, Counting
  <2>5. \A c \in Colors, q \in Paying : Count(b, c, q) \in Int
    BY CountsTyped
  <2> DEFINE n == 0 - 1
  <2>6. CountChanged(b, r, side, p, n)
    <3> SUFFICES ASSUME NEW c \in Colors, NEW q \in Paying
                 PROVE  Count(r, c, q) = IF c = side /\ q = p THEN Count(b, c, q) + n
                                         ELSE Count(b, c, q)
      BY DEF CountChanged
    <3>1. CASE c = side /\ q = p
      <4>1. /\ Standing(r, c, {q}) = Standing(b, c, {q}) \ {sq}
            /\ Cardinality(Standing(b, c, {q}) \ {sq}) = Cardinality(Standing(b, c, {q})) - 1
        BY <2>2, <2>4, <3>1
      <4>2. Cardinality(Standing(b, c, {q})) \in Int
        BY <2>5 DEF Count
      <4>3. Cardinality(Standing(r, c, {q})) = Cardinality(Standing(b, c, {q})) - 1
        BY <4>1
      <4>4. Cardinality(Standing(r, c, {q})) = Cardinality(Standing(b, c, {q})) + n
        BY <4>2, <4>3
      <4> QED
        BY <3>1, <4>4 DEF Count
    <3>2. CASE ~(c = side /\ q = p)
      BY <2>2, <3>2 DEF Count
    <3> QED
      BY <3>1, <3>2
  <2>7. n \in Int
    OBVIOUS
  <2> HIDE DEF n
  <2>8. MaterialChanged(b, r, side, p, n)
    BY <2>1, <2>6, <2>7, MaterialChange
  <2>9. \A c \in Colors : b.material[c] = MaterialOf(b, c)
    BY DEF Told, MaterialTold
  <2>10. \A c \in Colors : r.material[c] = b.material[c] - (IF c = side THEN mat_values[p] ELSE 0)
    BY <1>1
  <2> QED
    BY <2>1, <2>8, <2>9, <2>10 DEF MaterialTold, MaterialChanged, n
<1>6. HashTold(r)
  <2>1. \A c \in Colors, q \in Pieces, x \in Squares :
          /\ Key(c, q, x) = Key(side, p, sq) <=> c = side /\ q = p /\ x = sq
          /\ SideKey # Key(side, p, sq)
    BY KeysDiffer
  <2> QED
    BY <1>1, <1>2, <1>3, <2>1 DEF Told, HashTold, SymDiff
<1>7. PawnHashTold(r)
  <2>1. \A c \in Colors, q \in Pieces, x \in Squares :
          /\ Key(c, q, x) = Key(side, p, sq) <=> c = side /\ q = p /\ x = sq
          /\ SideKey # Key(side, p, sq)
    BY KeysDiffer
  <2>2. PAWN \in Pieces
    BY Numbers
  <2>3. CASE p = PAWN
    BY <1>1, <1>2, <1>3, <2>1, <2>2, <2>3 DEF Told, PawnHashTold, SymDiff
  <2>4. CASE p # PAWN
    BY <1>1, <1>2, <1>3, <2>1, <2>2, <2>4 DEF Told, PawnHashTold
  <2> QED
    BY <2>3, <2>4
<1> QED
  BY <1>1, <1>4, <1>5, <1>6, <1>7 DEF Told, r

LEMMA MoveTold ==
  ASSUME NEW b, Told(b), NEW from \in Squares, NEW to \in Squares, from # to,
         NEW side \in Colors, NEW p \in Pieces,
         color_at(b, from) = side, piece_at(b, from) = p, ~Occupied(b, to)
  PROVE  Told(move_piece(b, from, to, side, p))
<1> DEFINE r == move_piece(b, from, to, side, p)
<1>0. b \in Boards /\ Moved(b, r, from, to, side, p)
  BY MoveParts DEF Told
<1> HIDE DEF r
<1> DEFINE keys == {Key(side, p, from), Key(side, p, to)}
<1>1. /\ r \in Boards /\ r.side = b.side /\ r.material = b.material
      /\ \A c \in Colors : r.king[c] = IF c = side /\ p = KING THEN to ELSE b.king[c]
      /\ r.hashkey = SymDiff(b.hashkey, keys)
      /\ r.pawnhashkey = IF p = PAWN THEN SymDiff(b.pawnhashkey, keys) ELSE b.pawnhashkey
  BY <1>0 DEF Moved
<1>2. \A x \in Squares :
        /\ piece_at(r, x) = IF x = to THEN p ELSE IF x = from THEN NO_PIECE ELSE piece_at(b, x)
        /\ color_at(r, x) = IF x = to THEN side ELSE IF x = from THEN NO_COLOR ELSE color_at(b, x)
  BY <1>0 DEF Moved
<1>3. NO_PIECE \notin Pieces /\ NO_COLOR \notin Colors /\ KING # NO_PIECE
  BY Numbers
<1>4. color_at(b, to) = NO_COLOR /\ piece_at(b, to) = NO_PIECE
  BY DEF Told, MenTold, Occupied
<1>5. MenTold(r)
  <2>1. \A x \in Squares : Occupied(r, x) <=> piece_at(r, x) # NO_PIECE
    BY <1>2, <1>3 DEF Told, MenTold, Occupied
  <2>2. \A c \in Colors, x \in Squares :
          color_at(b, x) = c /\ piece_at(b, x) = KING <=> x = b.king[c]
    BY DEF Told, MenTold
  <2>3. \A c \in Colors : b.king[c] \in Squares
    BY <1>0 DEF Boards
  <2>4. ASSUME NEW c \in Colors, NEW x \in Squares
        PROVE  color_at(r, x) = c /\ piece_at(r, x) = KING <=> x = r.king[c]
    <3>1. CASE c = side /\ p = KING
      <4>1. r.king[c] = to /\ from = b.king[c]
        BY <1>1, <2>2, <3>1
      <4> QED
        BY <1>2, <1>3, <2>2, <3>1, <4>1
    <3>2. CASE ~(c = side /\ p = KING)
      <4>1. r.king[c] = b.king[c] /\ from # b.king[c] /\ to # b.king[c]
        BY <1>1, <1>3, <1>4, <2>2, <2>3, <3>2
      <4> QED
        BY <1>2, <1>3, <2>2, <3>2, <4>1
    <3> QED
      BY <3>1, <3>2
  <2> QED
    BY <2>1, <2>4 DEF MenTold
<1>6. MaterialTold(r)
  <2>1. \A c \in Colors, q \in Paying : Count(r, c, q) = Count(b, c, q)
    <3> SUFFICES ASSUME NEW c \in Colors, NEW q \in Paying
                 PROVE  Cardinality(Standing(r, c, {q})) = Cardinality(Standing(b, c, {q}))
      BY DEF Count
    <3>1. q \in Pieces /\ q # NO_PIECE
      BY <1>3 DEF Paying, Pieces, PAWN, GUARD, ELEPHANT, KNIGHT, CANNON, ROOK, KING
    <3> DEFINE S == Standing(b, c, {q})
    <3>2. CASE c = side /\ q = p
      <4>1. Standing(r, c, {q}) = (S \ {from}) \cup {to}
        BY <1>2, <1>3, <3>1, <3>2 DEF Standing
      <4>2. from \in S /\ to \notin S /\ S \in SUBSET Squares
        BY <1>4, <3>1, <3>2 DEF Standing
      <4> HIDE DEF S
      <4>3. S \ {from} \in SUBSET Squares /\ to \notin S \ {from}
        BY <4>2
      <4>4. Cardinality(S) \in Nat /\ Cardinality(S \ {from}) = Cardinality(S) - 1
        BY <4>2, Counting
      <4>5. Cardinality((S \ {from}) \cup {to}) = Cardinality(S \ {from}) + 1
        BY <4>3, Counting
      <4>6. Cardinality((S \ {from}) \cup {to}) = Cardinality(S)
        BY <4>4, <4>5
      <4> QED
        BY <4>1, <4>6 DEF S
    <3>3. CASE ~(c = side /\ q = p)
      <4>1. Standing(r, c, {q}) = S
        BY <1>2, <1>3, <1>4, <3>1, <3>3 DEF Standing
      <4> QED
        BY <4>1
    <3> QED
      BY <3>2, <3>3
  <2>2. \A c \in Colors : MaterialOf(r, c) = MaterialOf(b, c)
    <3>1. \A p1 \in {PAWN, GUARD, ELEPHANT, KNIGHT, CANNON, ROOK} : p1 \in Paying
      BY DEF Paying
    <3> QED
      BY <2>1, <3>1 DEF MaterialOf, Worth, Count
  <2> QED
    BY <1>1, <2>2 DEF Told, MaterialTold
<1>7. \A c \in Colors, q \in Pieces, x \in Squares :
        /\ Key(c, q, x) \in keys <=> c = side /\ q = p /\ x \in {from, to}
        /\ SideKey \notin keys
  BY KeysDiffer
<1> HIDE DEF keys
<1>8. HashTold(r)
  BY <1>1, <1>2, <1>3, <1>4, <1>7 DEF Told, HashTold, SymDiff
<1>9. PawnHashTold(r)
  <2>1. PAWN \in Pieces
    BY Numbers
  <2>2. CASE p = PAWN
    BY <1>1, <1>2, <1>3, <1>4, <1>7, <2>1, <2>2 DEF Told, PawnHashTold, SymDiff
  <2>3. CASE p # PAWN
    BY <1>1, <1>2, <1>3, <1>4, <2>1, <2>3 DEF Told, PawnHashTold
  <2> QED
    BY <2>2, <2>3
<1> QED
  BY <1>1, <1>5, <1>6, <1>8, <1>9 DEF Told, r

LEMMA SwitchTold ==
  ASSUME NEW b, Told(b)
  PROVE  Told(switch_sides(b))
<1> DEFINE r == switch_sides(b)
<1>0. b \in Boards /\ Switched(b, r)
  BY SwitchParts DEF Told
<1> HIDE DEF r
<1>1. /\ r \in Boards /\ r.side = XSIDE(b.side) /\ r.king = b.king /\ r.material = b.material
      /\ r.hashkey = SymDiff(b.hashkey, {SideKey})
      /\ r.pawnhashkey = SymDiff(b.pawnhashkey, {SideKey})
  BY <1>0 DEF Switched
<1>2. \A x : piece_at(r, x) = piece_at(b, x) /\ color_at(r, x) = color_at(b, x)
  BY <1>0 DEF Switched, piece_at, color_at
<1>3. MenTold(r)
  BY <1>1, <1>2 DEF Told, MenTold, Occupied
<1>4. MaterialTold(r)
  <2>1. \A c, ps : Standing(r, c, ps) = Standing(b, c, ps)
    BY <1>2 DEF Standing
  <2>2. \A c : MaterialOf(r, c) = MaterialOf(b, c)
    BY <2>1 DEF MaterialOf, Worth
  <2> QED
    BY <1>1, <2>2 DEF Told, MaterialTold
<1>5. \A c \in Colors, q \in Pieces, x \in Squares : Key(c, q, x) # SideKey
  BY KeysDiffer
<1>6. r.side = BLACK <=> b.side # BLACK
  BY <1>0, <1>1 DEF Boards, Colors, WHITE, BLACK, XSIDE
<1>7. HashTold(r) /\ PawnHashTold(r)
  BY <1>1, <1>2, <1>5, <1>6 DEF Told, HashTold, PawnHashTold, SymDiff
<1> QED
  BY <1>1, <1>3, <1>4, <1>7 DEF Told, r

-----------------------------------------------------------------------------
(***************************************************************************)
(* Coordinates: ranks, files and steps.                                     *)
(***************************************************************************)
LEMMA Coordinates ==
  /\ \A sq \in Squares : RNK(sq) \in 0 .. 9 /\ FIL(sq) \in 0 .. 8 /\ sq = 9 * RNK(sq) + FIL(sq)
  /\ \A r \in 0 .. 9, f \in 0 .. 8 :
       SQUARE(r, f) \in Squares /\ RNK(SQUARE(r, f)) = r /\ FIL(SQUARE(r, f)) = f
<1>1. ASSUME NEW sq \in Squares
      PROVE  RNK(sq) \in 0 .. 9 /\ FIL(sq) \in 0 .. 8 /\ sq = 9 * RNK(sq) + FIL(sq)
  BY DEF RNK, FIL, Squares
<1>2. ASSUME NEW r \in 0 .. 9, NEW f \in 0 .. 8
      PROVE  SQUARE(r, f) \in Squares /\ RNK(SQUARE(r, f)) = r /\ FIL(SQUARE(r, f)) = f
  BY DEF SQUARE, RNK, FIL, Squares
<1> QED
  BY <1>1, <1>2

LEMMA Steps ==
  ASSUME NEW from \in Squares, NEW d \in Int \X Int, NEW n \in Int
  PROVE  /\ Step(from, d, n) \in Squares \cup {NO_SQUARE}
         /\ Step(from, d, n) \in Squares <=>
              RNK(from) + (n * d[1]) \in 0 .. 9 /\ FIL(from) + (n * d[2]) \in 0 .. 8
         /\ Step(from, d, n) \in Squares =>
              /\ RNK(Step(from, d, n)) = RNK(from) + (n * d[1])
              /\ FIL(Step(from, d, n)) = FIL(from) + (n * d[2])
<1> DEFINE r == RNK(from) + (n * d[1])
           f == FIL(from) + (n * d[2])
<1>1. Step(from, d, n) = IF r \in 0 .. 9 /\ f \in 0 .. 8 THEN SQUARE(r, f) ELSE NO_SQUARE
  BY DEF Step
<1>2. NO_SQUARE \notin Squares
  BY DEF NO_SQUARE, Squares
<1> HIDE DEF r, f
<1>3. CASE r \in 0 .. 9 /\ f \in 0 .. 8
  <2>1. SQUARE(r, f) \in Squares /\ RNK(SQUARE(r, f)) = r /\ FIL(SQUARE(r, f)) = f
    BY <1>3, Coordinates
  <2> QED
    BY <1>1, <1>3, <2>1 DEF r, f
<1>4. CASE ~(r \in 0 .. 9 /\ f \in 0 .. 8)
  BY <1>1, <1>2, <1>4 DEF r, f
<1> QED
  BY <1>3, <1>4

LEMMA Directions ==
  /\ Straight \subseteq Int \X Int /\ Diagonal \subseteq Int \X Int
  /\ palace \subseteq Squares /\ \A side \in Colors : half[side] \subseteq Squares
BY DEF Straight, Diagonal, palace, half

LEMMA AttacksOnBoard ==
  ASSUME NEW b \in Boards, NEW from \in Squares, piece_at(b, from) \in Pieces,
         color_at(b, from) \in Colors
  PROVE  Attacks(b, from) \subseteq Squares
<1> DEFINE side == color_at(b, from)
<1>1. pawn_attacks(from, side) \subseteq Squares /\ knight_attacks(b, from) \subseteq Squares
  BY DEF pawn_attacks, knight_attacks
<1>2. guard_attacks(from) \subseteq Squares /\ king_attacks(from) \subseteq Squares
  BY Directions DEF guard_attacks, king_attacks
<1>3. elephant_attacks(b, from, side) \subseteq Squares
  BY Directions DEF elephant_attacks
<1>4. \A l \in Reach(from) : Step(from, l[1], l[2]) \in Squares
  <2> SUFFICES ASSUME NEW l \in Reach(from) PROVE Step(from, l[1], l[2]) \in Squares
    OBVIOUS
  <2>1. l \in Straight \X (1 .. 9) /\ Step(from, l[1], l[2]) # NO_SQUARE
    BY DEF Reach
  <2>2. l[1] \in Int \X Int /\ l[2] \in Int
    BY <2>1, Directions
  <2> QED
    BY <2>1, <2>2, Steps
<1>5. cannon_attacks(b, from, side) \subseteq Squares /\ rook_attacks(b, from) \subseteq Squares
  BY <1>4 DEF cannon_attacks, rook_attacks
<1>6. piece_at(b, from) \in {PAWN, GUARD, ELEPHANT, KNIGHT, CANNON, ROOK, KING}
  BY DEF Pieces, PAWN, GUARD, ELEPHANT, KNIGHT, CANNON, ROOK, KING
<1>7. /\ PAWN = 0 /\ GUARD = 1 /\ ELEPHANT = 2 /\ KNIGHT = 3 /\ CANNON = 4 /\ ROOK = 5
      /\ KING = 6
  BY DEF PAWN, GUARD, ELEPHANT, KNIGHT, CANNON, ROOK, KING
<1> QED
  BY <1>1, <1>2, <1>3, <1>5, <1>6, <1>7 DEF Attacks

-----------------------------------------------------------------------------
(***************************************************************************)
(* Moves and null moves keep the state exact.                               *)
(***************************************************************************)
\* What a move changes on the arrays, and the kings that follow.
Made(b, r, m) ==
  /\ r.side = XSIDE(b.side)
  /\ r.movecnt50 = IF is_irreversible(m) THEN 0 ELSE b.movecnt50 + 1
  /\ \A x \in Squares :
       /\ piece_at(r, x) = IF x = m.to THEN m.ptype ELSE IF x = m.from THEN NO_PIECE
                           ELSE piece_at(b, x)
       /\ color_at(r, x) = IF x = m.to THEN b.side ELSE IF x = m.from THEN NO_COLOR
                           ELSE color_at(b, x)

\* What make_move() adds to the changes of the men.
Counted(b, r, c, m) ==
  /\ c \in Boards /\ r \in Boards
  /\ r.side = c.side /\ r.position_pieces = c.position_pieces
  /\ r.position_colors = c.position_colors /\ r.king = c.king /\ r.material = c.material
  /\ r.hashkey = c.hashkey /\ r.pawnhashkey = c.pawnhashkey
  /\ r.movecnt50 = IF is_irreversible(m) THEN 0 ELSE c.movecnt50 + 1
  /\ r.pce_movecnt = IF m.flag = "NULL" THEN c.pce_movecnt
                     ELSE [c.pce_movecnt EXCEPT ![m.to] = b.pce_movecnt[m.from] + 1, ![m.from] = 0]

LEMMA CountParts ==
  ASSUME NEW b \in Boards, NEW m, NEW c, c = switch_sides(MovePieces(b, m)), c \in Boards,
         m.flag # "NULL" => (m.from \in Squares /\ m.to \in Squares)
  PROVE  Counted(b, make_move(b, m), c, m)
<1> DEFINE no == IF b.side = BLACK THEN c.moveno + 1 ELSE c.moveno
           fifty == IF is_irreversible(m) THEN 0 ELSE c.movecnt50 + 1
           pce == IF m.flag = "NULL" THEN c.pce_movecnt
                  ELSE [c.pce_movecnt EXCEPT ![m.to] = b.pce_movecnt[m.from] + 1, ![m.from] = 0]
           r == [c EXCEPT !.moveno = no, !.movecnt50 = fifty, !.pce_movecnt = pce]
<1>1. make_move(b, m) = r
  BY DEF make_move, Boards
<1>2. no \in Nat /\ fifty \in Nat
  BY DEF Boards
<1>3. pce \in [Squares -> Nat]
  BY DEF Boards
<1> HIDE DEF no, fifty, pce
<1>4. r \in Boards
  BY <1>2, <1>3 DEF Boards
<1>5. /\ r.side = c.side /\ r.position_pieces = c.position_pieces
      /\ r.position_colors = c.position_colors /\ r.king = c.king /\ r.material = c.material
      /\ r.hashkey = c.hashkey /\ r.pawnhashkey = c.pawnhashkey
      /\ r.movecnt50 = fifty /\ r.pce_movecnt = pce
  BY DEF Boards
<1> QED
  BY <1>1, <1>4, <1>5 DEF Counted, fifty, pce

LEMMA CountTold ==
  ASSUME NEW b, NEW r, NEW c, NEW m, Told(c), Counted(b, r, c, m)
  PROVE  Told(r)
<1>1. \A x : piece_at(r, x) = piece_at(c, x) /\ color_at(r, x) = color_at(c, x)
  BY DEF Counted, piece_at, color_at
<1>2. \A d, ps : Standing(r, d, ps) = Standing(c, d, ps)
  BY <1>1 DEF Standing
<1>3. \A d : MaterialOf(r, d) = MaterialOf(c, d)
  BY <1>2 DEF MaterialOf, Worth
<1>4. MenTold(r)
  BY <1>1 DEF Counted, Told, MenTold, Occupied
<1>5. MaterialTold(r)
  BY <1>3 DEF Counted, Told, MaterialTold
<1>6. HashTold(r) /\ PawnHashTold(r)
  BY <1>1 DEF Counted, Told, HashTold, PawnHashTold
<1> QED
  BY <1>4, <1>5, <1>6 DEF Counted, Told

LEMMA MenOn ==
  ASSUME NEW b, StateExact(b), NEW x \in Squares
  PROVE  /\ b \in Boards /\ Told(b) /\ b.side \in Colors /\ XSIDE(b.side) \in Colors
         /\ Occupied(b, x) <=> piece_at(b, x) \in Pieces
         /\ Occupied(b, x) <=> color_at(b, x) \in Colors
         /\ piece_at(b, x) \in Pieces \cup {NO_PIECE} /\ color_at(b, x) \in Colors \cup {NO_COLOR}
         /\ \A c \in Colors : /\ b.king[c] \in Squares
                              /\ color_at(b, x) = c /\ piece_at(b, x) = KING <=> x = b.king[c]
<1>1. b \in Boards /\ Told(b)
  BY ToldMeans DEF Told
<1>2. MenTold(b)
  BY <1>1 DEF Told
<1>3. piece_at(b, x) \in Pieces \cup {NO_PIECE} /\ color_at(b, x) \in Colors \cup {NO_COLOR}
  BY <1>1 DEF Boards, piece_at, color_at
<1>4. NO_PIECE \notin Pieces /\ NO_COLOR \notin Colors
  BY Numbers
<1>5. b.side \in Colors /\ XSIDE(b.side) \in Colors /\ \A c \in Colors : b.king[c] \in Squares
  BY <1>1, Numbers DEF Boards
<1> QED
  BY <1>1, <1>2, <1>3, <1>4, <1>5 DEF MenTold, Occupied

LEMMA MoveMade ==
  ASSUME NEW b, StateExact(b), NEW m \in generate_moves(b), m.to # b.king[XSIDE(b.side)]
  PROVE  /\ m.from \in Squares /\ m.to \in Squares /\ m.from # m.to
         /\ m.ptype \in Pieces /\ m.ptype = piece_at(b, m.from) /\ color_at(b, m.from) = b.side
         /\ color_at(b, m.to) # b.side
         /\ StateExact(make_move(b, m)) /\ Made(b, make_move(b, m), m)
<1>1. /\ m.from \in Squares /\ m.to \in Attacks(b, m.from)
      /\ color_at(b, m.from) = b.side /\ m.ptype = piece_at(b, m.from)
      /\ \/ /\ m.flag = "CAPTURE" /\ color_at(b, m.to) = XSIDE(b.side)
            /\ m.cap_ptype = piece_at(b, m.to)
         \/ m.flag = "NORMAL" /\ ~Occupied(b, m.to)
  BY Generated
<1>2. b \in Boards /\ Told(b) /\ b.side \in Colors /\ XSIDE(b.side) \in Colors
  BY <1>1, MenOn
<1>3. m.ptype \in Pieces /\ Occupied(b, m.from)
  BY <1>1, <1>2, MenOn
<1>4. m.to \in Squares
  BY <1>1, <1>2, <1>3, AttacksOnBoard
<1>5. color_at(b, m.to) # b.side /\ m.from # m.to
  BY <1>1, <1>2, Numbers DEF Occupied
<1> DEFINE t == IF m.flag = "CAPTURE" THEN remove_piece(b, m.to, XSIDE(b.side), m.cap_ptype) ELSE b
           d == move_piece(t, m.from, m.to, b.side, m.ptype)
           c == switch_sides(d)
           r == make_move(b, m)
<1>6. /\ Told(t) /\ t.side = b.side /\ t.movecnt50 = b.movecnt50
      /\ t.pce_movecnt = b.pce_movecnt /\ ~Occupied(t, m.to)
      /\ \A x \in Squares :
           x # m.to => piece_at(t, x) = piece_at(b, x) /\ color_at(t, x) = color_at(b, x)
  <2>1. CASE m.flag = "CAPTURE"
    <3>1. m.cap_ptype = piece_at(b, m.to) /\ color_at(b, m.to) = XSIDE(b.side)
      BY <1>1, <2>1
    <3>2. m.cap_ptype \in Pieces /\ m.cap_ptype # KING
      BY <1>2, <1>4, <3>1, MenOn
    <3>3. t = remove_piece(b, m.to, XSIDE(b.side), m.cap_ptype)
      BY <2>1
    <3>4. Told(t)
      BY <1>2, <1>4, <3>1, <3>2, <3>3, RemoveTold
    <3>5. Removed(b, t, m.to, XSIDE(b.side), m.cap_ptype)
      BY <1>2, <1>4, <3>2, <3>3, RemoveParts
    <3> HIDE DEF t
    <3> QED
      BY <1>4, <3>4, <3>5 DEF Removed, Occupied
  <2>2. CASE m.flag # "CAPTURE"
    <3>1. t = b /\ ~Occupied(b, m.to)
      BY <1>1, <2>2
    <3> QED
      BY <1>2, <3>1
  <2> QED
    BY <2>1, <2>2
<1>7. piece_at(t, m.from) = m.ptype /\ color_at(t, m.from) = b.side
  BY <1>1, <1>5, <1>6
<1>8. t \in Boards
  BY <1>6 DEF Told
<1> HIDE DEF t
<1>9. Told(d)
  BY <1>1, <1>2, <1>3, <1>4, <1>5, <1>6, <1>7, MoveTold
<1>10. d \in Boards /\ Moved(t, d, m.from, m.to, b.side, m.ptype)
  BY <1>1, <1>2, <1>3, <1>4, <1>5, <1>8, <1>9, MoveParts DEF Told
<1>11. MovePieces(b, m) = d
  BY <1>1, Words DEF MovePieces, t
<1> HIDE DEF d
<1>12. Told(c) /\ c \in Boards /\ Switched(d, c)
  BY <1>9, <1>10, SwitchTold, SwitchParts DEF Told
<1>13. c = switch_sides(MovePieces(b, m))
  BY <1>11
<1>14. m.flag # "NULL"
  BY <1>1, Words
<1> HIDE DEF c
<1>15. Counted(b, r, c, m)
  BY <1>1, <1>2, <1>4, <1>12, <1>13, CountParts
<1> HIDE DEF r
<1>16. Told(r)
  BY <1>12, <1>15, CountTold
<1>17. Made(b, r, m)
  <2>1. r.side = XSIDE(b.side) /\ c.movecnt50 = b.movecnt50
    BY <1>6, <1>10, <1>12, <1>15 DEF Counted, Switched, Moved
  <2>2. r.movecnt50 = IF is_irreversible(m) THEN 0 ELSE b.movecnt50 + 1
    BY <1>15, <2>1 DEF Counted
  <2>3. \A x : piece_at(r, x) = piece_at(d, x) /\ color_at(r, x) = color_at(d, x)
    BY <1>12, <1>15 DEF Counted, Switched, piece_at, color_at
  <2>4. \A x \in Squares :
          /\ piece_at(d, x) = IF x = m.to THEN m.ptype ELSE IF x = m.from THEN NO_PIECE
                              ELSE piece_at(t, x)
          /\ color_at(d, x) = IF x = m.to THEN b.side ELSE IF x = m.from THEN NO_COLOR
                              ELSE color_at(t, x)
    BY <1>10 DEF Moved
  <2> QED
    BY <1>6, <2>1, <2>2, <2>3, <2>4 DEF Made
<1>18. \A x \in Squares : ~Occupied(r, x) => r.pce_movecnt[x] = 0
  <2>1. c.pce_movecnt = b.pce_movecnt /\ b.pce_movecnt \in [Squares -> Nat]
    BY <1>2, <1>6, <1>10, <1>12 DEF Switched, Moved, Boards
  <2>2. r.pce_movecnt =
          [b.pce_movecnt EXCEPT ![m.to] = b.pce_movecnt[m.from] + 1, ![m.from] = 0]
    BY <1>14, <1>15, <2>1 DEF Counted
  <2>3. \A x \in Squares : r.pce_movecnt[x] =
          IF x = m.from THEN 0 ELSE IF x = m.to THEN b.pce_movecnt[m.from] + 1
          ELSE b.pce_movecnt[x]
    BY <1>1, <1>4, <1>5, <2>1, <2>2
  <2>4. \A x \in Squares : ~Occupied(b, x) => b.pce_movecnt[x] = 0
    BY DEF StateExact
  <2>5. Occupied(r, m.to)
    BY <1>2, <1>4, <1>17, Numbers DEF Made, Occupied
  <2>6. \A x \in Squares : x # m.to /\ x # m.from => color_at(r, x) = color_at(b, x)
    BY <1>17 DEF Made
  <2> QED
    BY <2>3, <2>4, <2>5, <2>6 DEF Occupied
<1>19. StateExact(r)
  BY <1>16, <1>18, ToldMeans
<1> QED
  BY <1>1, <1>3, <1>4, <1>5, <1>17, <1>19 DEF r

LEMMA NullMade ==
  ASSUME NEW b, StateExact(b)
  PROVE  LET r == make_move(b, NullMove)
         IN  /\ StateExact(r) /\ r.side = XSIDE(b.side) /\ r.movecnt50 = b.movecnt50 + 1
             /\ r.king = b.king /\ r.position_pieces = b.position_pieces
             /\ r.position_colors = b.position_colors
<1> DEFINE c == switch_sides(b)
           r == make_move(b, NullMove)
<1>1. b \in Boards /\ Told(b)
  BY ToldMeans DEF Told
<1>2. NullMove.flag = "NULL" /\ ~is_irreversible(NullMove)
  BY Words DEF NullMove, Move, is_irreversible, NO_PIECE, PAWN
<1>3. c = switch_sides(MovePieces(b, NullMove))
  BY <1>2 DEF MovePieces
<1>4. Told(c) /\ c \in Boards /\ Switched(b, c)
  BY <1>1, SwitchTold, SwitchParts DEF Told
<1> HIDE DEF c
<1>5. Counted(b, r, c, NullMove)
  BY <1>1, <1>2, <1>3, <1>4, CountParts
<1> HIDE DEF r
<1>6. Told(r)
  BY <1>4, <1>5, CountTold
<1>7. /\ r.side = XSIDE(b.side) /\ r.movecnt50 = b.movecnt50 + 1
      /\ r.king = b.king /\ r.position_pieces = b.position_pieces
      /\ r.position_colors = b.position_colors /\ r.pce_movecnt = b.pce_movecnt
  BY <1>2, <1>4, <1>5 DEF Counted, Switched
<1>8. \A x \in Squares : ~Occupied(r, x) => r.pce_movecnt[x] = 0
  BY <1>7 DEF StateExact, Occupied, color_at
<1>9. StateExact(r)
  BY <1>6, <1>8, ToldMeans
<1> QED
  BY <1>7, <1>9 DEF r

-----------------------------------------------------------------------------
(***************************************************************************)
(* Who may be taken, and what is legal after a null move.                   *)
(***************************************************************************)
LEMMA KingSafe ==
  ASSUME NEW b, is_legal(b), NEW m \in generate_moves(b)
  PROVE  m.to # b.king[XSIDE(b.side)]
BY DEF is_legal, is_attacked

LEMMA SameFacing ==
  ASSUME NEW b, NEW r, r.king = b.king, r.position_colors = b.position_colors
  PROVE  kings_facing(r) <=> kings_facing(b)
BY DEF kings_facing, Occupied, color_at

LEMMA PassLegal ==
  ASSUME NEW b, StateExact(b), ~in_check(b)
  PROVE  is_legal(make_move(b, NullMove))
<1> DEFINE c == make_move(b, NullMove)
<1>1. /\ c.side = XSIDE(b.side) /\ c.king = b.king /\ c.position_colors = b.position_colors
  BY NullMade
<1>2. b.side \in Colors
  BY DEF StateExact, Boards
<1>3. XSIDE(c.side) = b.side /\ XSIDE(b.side) # b.side
  BY <1>1, <1>2, Numbers
<1>4. ~kings_facing(b) /\ ~(\E m \in generate_moves(c) : m.to = b.king[b.side])
  BY <1>3 DEF in_check, is_attacked
<1>5. ~kings_facing(c)
  BY <1>1, <1>4, SameFacing
<1> HIDE DEF c
<1>6. ~is_attacked(c, c.king[XSIDE(c.side)], c.side)
  BY <1>1, <1>3, <1>4 DEF is_attacked
<1> QED
  BY <1>5, <1>6 DEF is_legal, c

-----------------------------------------------------------------------------
(***************************************************************************)
(* The line of nodes.                                                       *)
(***************************************************************************)
Moves == [from : Squares \cup {NO_SQUARE}, to : Squares \cup {NO_SQUARE},
          ptype : Pieces \cup {NO_PIECE}, cap_ptype : Pieces \cup {NO_PIECE},
          flag : {"NORMAL", "CAPTURE", "NULL", "NONE"}]
Nodes == [board : Boards, incheck : BOOLEAN, played_move : Moves]

LEMMA Greatest ==
  ASSUME NEW n \in Nat, NEW S \in SUBSET (0 .. n), S # {}
  PROVE  Max(S) \in S /\ \A y \in S : Max(S) >= y
<1> DEFINE T == {n - x : x \in S}
<1>1. T \in SUBSET Nat /\ T # {}
  OBVIOUS
<1> HIDE DEF T
<1>2. PICK t \in T : \A u \in T : ~(<<u, t>> \in OpToRel(<, Nat))
  BY <1>1, NatLessThanWellFounded, WFMin
<1>3. \A u \in T : t <= u
  <2>1. \A u \in T : u < t => <<u, t>> \in OpToRel(<, Nat)
    BY <1>1 DEF OpToRel
  <2>2. \A u \in T : ~(u < t) => t <= u
    BY <1>1
  <2> QED
    BY <1>2, <2>1, <2>2
<1>4. PICK x \in S : t = n - x
  BY DEF T
<1>5. \A y \in S : n - y \in T
  BY DEF T
<1>6. \A y \in S : x >= y
  BY <1>3, <1>4, <1>5
<1> QED
  BY <1>4, <1>6 DEF Max

\* Where the loop of is_repetition() stops, for any line.
StopOf(nodes) == Max({i \in DOMAIN nodes : is_irreversible(nodes[i].played_move)} \cup {0})

LEMMA StopIs ==
  ASSUME NEW nodes \in Seq(Nodes)
  PROVE  /\ StopOf(nodes) \in 0 .. Len(nodes)
         /\ StopOf(nodes) # 0 => is_irreversible(nodes[StopOf(nodes)].played_move)
         /\ \A i \in 1 .. Len(nodes) :
              is_irreversible(nodes[i].played_move) => i <= StopOf(nodes)
<1> DEFINE S == {i \in DOMAIN nodes : is_irreversible(nodes[i].played_move)} \cup {0}
<1>1. Len(nodes) \in Nat /\ DOMAIN nodes = 1 .. Len(nodes)
  OBVIOUS
<1>2. S \in SUBSET (0 .. Len(nodes)) /\ S # {}
  BY <1>1
<1>3. StopOf(nodes) = Max(S)
  BY DEF StopOf
<1>4. Max(S) \in S /\ \A y \in S : Max(S) >= y
  BY <1>1, <1>2, Greatest
<1>5. \A i \in 1 .. Len(nodes) : is_irreversible(nodes[i].played_move) => i \in S
  BY <1>1
<1>6. \A i \in S : i # 0 => is_irreversible(nodes[i].played_move)
  OBVIOUS
<1> HIDE DEF S
<1> QED
  BY <1>1, <1>2, <1>3, <1>4, <1>5, <1>6

LEMMA StopAfter ==
  ASSUME NEW nodes \in Seq(Nodes), NEW node1 \in Nodes
  PROVE  LET longer == Append(nodes, node1)
         IN  StopOf(longer) = IF is_irreversible(node1.played_move) THEN Len(nodes) + 1
                              ELSE StopOf(nodes)
<1> DEFINE longer == Append(nodes, node1)
<1>1. /\ longer \in Seq(Nodes) /\ Len(longer) = Len(nodes) + 1 /\ Len(nodes) \in Nat
      /\ longer[Len(nodes) + 1] = node1
      /\ \A i \in 1 .. Len(nodes) : longer[i] = nodes[i]
  OBVIOUS
<1> HIDE DEF longer
<1>2. /\ StopOf(nodes) \in 0 .. Len(nodes)
      /\ StopOf(nodes) # 0 => is_irreversible(nodes[StopOf(nodes)].played_move)
      /\ \A i \in 1 .. Len(nodes) :
           is_irreversible(nodes[i].played_move) => i <= StopOf(nodes)
  BY StopIs
<1>3. /\ StopOf(longer) \in 0 .. Len(nodes) + 1
      /\ StopOf(longer) # 0 => is_irreversible(longer[StopOf(longer)].played_move)
      /\ \A i \in 1 .. Len(nodes) + 1 :
           is_irreversible(longer[i].played_move) => i <= StopOf(longer)
  BY <1>1, StopIs
<1>4. CASE is_irreversible(node1.played_move)
  <2>1. Len(nodes) + 1 <= StopOf(longer)
    BY <1>1, <1>3, <1>4
  <2> QED
    BY <1>1, <1>3, <1>4, <2>1 DEF longer
<1>5. CASE ~is_irreversible(node1.played_move)
  <2>1. StopOf(longer) # Len(nodes) + 1
    BY <1>1, <1>3, <1>5
  <2>2. StopOf(longer) \in 0 .. Len(nodes)
    BY <1>1, <1>3, <2>1
  <2>3. StopOf(longer) <= StopOf(nodes)
    BY <1>1, <1>2, <1>3, <2>2
  <2>4. StopOf(nodes) <= StopOf(longer)
    BY <1>1, <1>2, <1>3, <2>2
  <2> QED
    BY <1>1, <1>2, <1>5, <2>2, <2>3, <2>4 DEF longer
<1> QED
  BY <1>4, <1>5

NodeFits(n) ==
  StateExact(n.board) /\ is_legal(n.board) /\ n.incheck = in_check(n.board)
Follows(n, o) ==
  /\ o.board = make_move(n.board, o.played_move)
  /\ o.played_move \in generate_moves(n.board) \/ o.played_move = NullMove
LineInv ==
  /\ line \in Seq(Nodes) /\ Len(line) \in Nat \ {0} /\ left \in Nat
  /\ line[1].played_move = NO_MOVE
  /\ \A i \in 1 .. Len(line) : NodeFits(line[i])
  /\ \A i \in 1 .. Len(line) : i # 1 => Follows(line[i - 1], line[i])
  /\ board.movecnt50 = Len(line) - Max({Stop, 1})

LEMMA MovesTyped ==
  /\ \A b : StateExact(b) /\ is_legal(b) => generate_moves(b) \subseteq Moves
  /\ NullMove \in Moves /\ NO_MOVE \in Moves
  /\ ~is_irreversible(NullMove) /\ ~is_irreversible(NO_MOVE)
<1>1. ASSUME NEW b, StateExact(b), is_legal(b), NEW m \in generate_moves(b) PROVE m \in Moves
  <2>1. m.to # b.king[XSIDE(b.side)]
    BY <1>1, KingSafe
  <2>2. m.from \in Squares /\ m.to \in Squares /\ m.ptype \in Pieces
    BY <1>1, <2>1, MoveMade
  <2>3. \/ /\ m = Capture(m.from, m.to, m.ptype, m.cap_ptype) /\ m.cap_ptype = piece_at(b, m.to)
        \/ m = Normal(m.from, m.to, m.ptype)
    BY <1>1, Generated
  <2>4. piece_at(b, m.to) \in Pieces \cup {NO_PIECE}
    BY <1>1, <2>2, MenOn
  <2>5. CASE m = Capture(m.from, m.to, m.ptype, m.cap_ptype) /\ m.cap_ptype = piece_at(b, m.to)
    <3> DEFINE f == m.from
               t == m.to
               p == m.ptype
               q == m.cap_ptype
    <3>1. f \in Squares /\ t \in Squares /\ p \in Pieces /\ q \in Pieces \cup {NO_PIECE}
      BY <2>2, <2>4, <2>5
    <3>2. m = Capture(f, t, p, q)
      BY <2>5
    <3> HIDE DEF f, t, p, q
    <3> QED
      BY <3>1, <3>2 DEF Capture, Move, Moves
  <2>6. CASE m = Normal(m.from, m.to, m.ptype)
    <3> DEFINE f == m.from
               t == m.to
               p == m.ptype
    <3>1. f \in Squares /\ t \in Squares /\ p \in Pieces
      BY <2>2
    <3>2. m = Normal(f, t, p)
      BY <2>6
    <3> HIDE DEF f, t, p
    <3> QED
      BY <3>1, <3>2 DEF Normal, Move, Moves
  <2> QED
    BY <2>3, <2>5, <2>6
<1>2. NullMove \in Moves /\ NO_MOVE \in Moves
  BY DEF NullMove, NO_MOVE, Move, Moves
<1>3. ~is_irreversible(NullMove) /\ ~is_irreversible(NO_MOVE)
  BY DEF NullMove, NO_MOVE, Move, is_irreversible, NO_PIECE, PAWN
<1> QED
  BY <1>1, <1>2, <1>3

LEMMA NodeTyped ==
  ASSUME NEW b, StateExact(b), is_legal(b), NEW m \in Moves
  PROVE  /\ Node(b, m) \in Nodes /\ NodeFits(Node(b, m))
         /\ Node(b, m).board = b /\ Node(b, m).played_move = m
<1>1. b \in Boards /\ in_check(b) \in BOOLEAN
  BY DEF StateExact, in_check, kings_facing, is_attacked
<1> QED
  BY <1>1 DEF Node, Nodes, NodeFits

LEMMA Greater ==
  ASSUME NEW a \in Nat
  PROVE  Max({a, 1}) = IF a = 0 THEN 1 ELSE a
<1> DEFINE S == {a, 1}
<1>1. S \in SUBSET (0 .. a + 1) /\ S # {} /\ a + 1 \in Nat
  OBVIOUS
<1>2. Max(S) \in S /\ \A y \in S : Max(S) >= y
  BY <1>1, Greatest
<1> QED
  BY <1>2

\* What a step adds to the line is a node that fits.
LEMMA LineGrows ==
  ASSUME LineInv, [Next]_vars, vars' # vars
  PROVE  \E m \in Moves :
           /\ left > 0 /\ left' = left - 1
           /\ line' = Append(line, Node(make_move(board, m), m))
           /\ NodeFits(line[Len(line)]) /\ board = line[Len(line)].board
           /\ \/ m \in LegalMoves(board) /\ Made(board, make_move(board, m), m)
              \/ m = NullMove /\ ~in_check(board)
           /\ StateExact(make_move(board, m)) /\ is_legal(make_move(board, m))
           /\ make_move(board, m).movecnt50 =
                IF is_irreversible(m) THEN 0 ELSE board.movecnt50 + 1
<1>1. board = line[Len(line)].board /\ NodeFits(line[Len(line)])
  BY DEF LineInv, board, node, Last
<1>2. StateExact(board) /\ is_legal(board) /\ node.incheck = in_check(board)
  BY <1>1 DEF NodeFits, node, Last
<1>3. CASE MakeMove
  <2>1. PICK m \in LegalMoves(board) : line' = Append(line, Node(make_move(board, m), m))
    BY <1>3 DEF MakeMove
  <2>2. m \in generate_moves(board) /\ is_legal(make_move(board, m))
    BY DEF LegalMoves, is_legal_move
  <2>3. m.to # board.king[XSIDE(board.side)]
    BY <1>2, <2>2, KingSafe
  <2>4. StateExact(make_move(board, m)) /\ Made(board, make_move(board, m), m)
    BY <1>2, <2>2, <2>3, MoveMade
  <2>5. m \in Moves
    BY <1>2, <2>2, MovesTyped
  <2>6. make_move(board, m).movecnt50 = IF is_irreversible(m) THEN 0 ELSE board.movecnt50 + 1
    BY <2>4 DEF Made
  <2>7. left > 0 /\ left' = left - 1
    BY <1>3 DEF MakeMove
  <2> QED
    BY <1>1, <2>1, <2>2, <2>4, <2>5, <2>6, <2>7
<1>4. CASE MakeNullMove
  <2>1. /\ line' = Append(line, Node(make_move(board, NullMove), NullMove)) /\ ~in_check(board)
        /\ left > 0 /\ left' = left - 1
    BY <1>2, <1>4 DEF MakeNullMove
  <2>2. /\ StateExact(make_move(board, NullMove))
        /\ make_move(board, NullMove).movecnt50 = board.movecnt50 + 1
    BY <1>2, NullMade
  <2>3. is_legal(make_move(board, NullMove))
    BY <1>2, <2>1, PassLegal
  <2> QED
    BY <1>1, <2>1, <2>2, <2>3, MovesTyped
<1> QED
  BY <1>3, <1>4 DEF Next, vars

LEMMA LineStep == LineInv /\ [Next]_vars => LineInv'
<1> SUFFICES ASSUME LineInv, [Next]_vars PROVE LineInv'
  OBVIOUS
<1>1. CASE vars' = vars
  BY <1>1 DEF vars, LineInv, board, node, Stop
<1>2. CASE vars' # vars
  <2>1. PICK m \in Moves :
          /\ left > 0 /\ left' = left - 1
          /\ line' = Append(line, Node(make_move(board, m), m))
          /\ NodeFits(line[Len(line)]) /\ board = line[Len(line)].board
          /\ m \in LegalMoves(board) \/ m = NullMove
          /\ StateExact(make_move(board, m)) /\ is_legal(make_move(board, m))
          /\ make_move(board, m).movecnt50 =
               IF is_irreversible(m) THEN 0 ELSE board.movecnt50 + 1
    BY <1>2, LineGrows
  <2> DEFINE new == Node(make_move(board, m), m)
             n == Len(line)
  <2>2. /\ new \in Nodes /\ NodeFits(new) /\ new.board = make_move(board, m)
        /\ new.played_move = m
    BY <2>1, NodeTyped
  <2>3. Follows(line[n], new)
    BY <2>1, <2>2 DEF Follows, LegalMoves
  <2>4. line \in Seq(Nodes) /\ n \in Nat \ {0} /\ left \in Nat
    BY DEF LineInv
  <2> HIDE DEF new
  <2>5. line' = Append(line, new)
    BY <2>1 DEF new
  <2>6. /\ line' \in Seq(Nodes) /\ Len(line') = n + 1 /\ line'[n + 1] = new
        /\ \A i \in 1 .. n : line'[i] = line[i]
    BY <2>2, <2>4, <2>5
  <2>7. left' \in Nat
    BY <2>1, <2>4
  <2> HIDE DEF n
  <2>8. line'[1].played_move = NO_MOVE
    BY <2>4, <2>6 DEF LineInv
  <2>9. \A i \in 1 .. n + 1 : NodeFits(line'[i])
    BY <2>2, <2>4, <2>6 DEF LineInv, n
  <2>10. \A i \in 1 .. n + 1 : i # 1 => Follows(line'[i - 1], line'[i])
    <3> SUFFICES ASSUME NEW i \in 1 .. n + 1, i # 1 PROVE Follows(line'[i - 1], line'[i])
      OBVIOUS
    <3>1. i - 1 \in 1 .. n
      BY <2>4
    <3>2. CASE i = n + 1
      BY <2>3, <2>4, <2>6, <3>1, <3>2
    <3>3. CASE i # n + 1
      <4>1. i \in 1 .. n
        BY <2>4, <3>3
      <4> QED
        BY <2>6, <3>1, <4>1 DEF LineInv, n
    <3> QED
      BY <3>2, <3>3
  <2>11. board'.movecnt50 = Len(line') - Max({Stop', 1})
    <3>1. board' = new.board
      BY <2>4, <2>6 DEF board, node, Last
    <3>2. Stop = StopOf(line) /\ Stop' = StopOf(line')
      BY DEF Stop, StopOf
    <3>3. Stop' = IF is_irreversible(m) THEN n + 1 ELSE Stop
      BY <2>2, <2>4, <2>5, <3>2, StopAfter DEF n
    <3>4. Stop \in 0 .. n
      BY <2>4, <3>2, StopIs DEF n
    <3>5. board.movecnt50 = n - Max({Stop, 1})
      BY DEF LineInv, n
    <3>6. Max({Stop, 1}) = IF Stop = 0 THEN 1 ELSE Stop
      BY <2>4, <3>4, Greater
    <3>7. CASE is_irreversible(m)
      <4>1. Stop' = n + 1 /\ n + 1 \in Nat /\ n + 1 # 0
        BY <2>4, <3>3, <3>7
      <4>2. Max({Stop', 1}) = n + 1
        BY <4>1, Greater
      <4>3. board'.movecnt50 = 0
        BY <2>1, <2>2, <3>1, <3>7
      <4> QED
        BY <2>4, <2>6, <4>2, <4>3
    <3>8. CASE ~is_irreversible(m)
      <4>1. Max({Stop', 1}) = Max({Stop, 1}) /\ Max({Stop, 1}) \in Int
        BY <2>4, <3>3, <3>4, <3>6, <3>8
      <4>2. board'.movecnt50 = board.movecnt50 + 1
        BY <2>1, <2>2, <3>1, <3>8
      <4> QED
        BY <2>4, <2>6, <3>5, <4>1, <4>2
    <3> QED
      BY <3>7, <3>8
  <2>12. Len(line') \in Nat \ {0}
    BY <2>4, <2>6
  <2> QED
    BY <2>6, <2>7, <2>8, <2>9, <2>10, <2>11, <2>12 DEF LineInv, board, node, Stop
<1> QED
  BY <1>1, <1>2

LEMMA LineStarts == Init => LineInv
<1> SUFFICES ASSUME Init PROVE LineInv
  OBVIOUS
<1>1. PICK o \in Openings : line = <<Node(o.board, NO_MOVE)>> /\ left = o.plies
  BY DEF Init
<1>2. /\ o.plies \in Nat /\ o.board.movecnt50 = 0
      /\ StateExact(o.board) /\ is_legal(o.board)
  BY OpeningsAssumption
<1> DEFINE new == Node(o.board, NO_MOVE)
<1>3. /\ new \in Nodes /\ NodeFits(new) /\ new.board = o.board
      /\ new.played_move = NO_MOVE
  BY <1>2, MovesTyped, NodeTyped
<1> HIDE DEF new
<1>4. line = <<new>>
  BY <1>1 DEF new
<1>5. line \in Seq(Nodes) /\ Len(line) = 1 /\ line[1] = new
  BY <1>3, <1>4
<1>6. board = new.board
  BY <1>5 DEF board, node, Last
<1>7. Stop = StopOf(line)
  BY DEF Stop, StopOf
<1>8. Stop = 0
  <2>1. Stop \in 0 .. 1 /\ (Stop # 0 => is_irreversible(line[Stop].played_move))
    BY <1>5, <1>7, StopIs
  <2> QED
    BY <1>3, <1>5, <2>1, MovesTyped
<1>9. Max({Stop, 1}) = 1
  BY <1>8, Greater
<1> QED
  BY <1>1, <1>2, <1>3, <1>5, <1>6, <1>9 DEF LineInv

\* However a search makes moves and null moves, the keys, kings, material and counts
\* that make_move() carries along are those of the arrays, and movecnt50 counts the
\* plies since the last irreversible move.
THEOREM IncrementalExact == Spec => []IncrementalStateExact
<1>1. LineInv => IncrementalStateExact
  BY DEF LineInv, IncrementalStateExact, NodeFits, board, node, Last
<1> QED
  BY <1>1, LineStarts, LineStep, PTL DEF Spec

-----------------------------------------------------------------------------
(***************************************************************************)
(* The board as the rules see it.                                           *)
(***************************************************************************)
P(sq) == <<FIL(sq), RNK(sq)>>
Up(x, y) == RNK(y) - RNK(x)
Across(x, y) == FIL(y) - FIL(x)
Abs(n) == IF n < 0 THEN 0 - n ELSE n

LEMMA PointsAre ==
  /\ \A x \in Squares : /\ P(x) \in Rules!Points /\ P(x)[1] = FIL(x) /\ P(x)[2] = RNK(x)
                        /\ SQUARE(RNK(x), FIL(x)) = x
  /\ \A s \in Rules!Points : SQUARE(s[2], s[1]) \in Squares /\ s = P(SQUARE(s[2], s[1]))
  /\ \A x, y \in Squares : P(x) = P(y) <=> x = y
<1>1. ASSUME NEW x \in Squares
      PROVE  /\ P(x) \in Rules!Points /\ P(x)[1] = FIL(x) /\ P(x)[2] = RNK(x)
             /\ SQUARE(RNK(x), FIL(x)) = x
  <2>1. RNK(x) \in 0 .. 9 /\ FIL(x) \in 0 .. 8 /\ x = 9 * RNK(x) + FIL(x)
    BY Coordinates
  <2>2. SQUARE(RNK(x), FIL(x)) = x
    BY <2>1 DEF SQUARE
  <2> QED
    BY <2>1, <2>2 DEF P, Rules!Points
<1>2. ASSUME NEW s \in Rules!Points
      PROVE  SQUARE(s[2], s[1]) \in Squares /\ s = P(SQUARE(s[2], s[1]))
  <2>1. s[1] \in 0 .. 8 /\ s[2] \in 0 .. 9 /\ s = <<s[1], s[2]>>
    BY DEF Rules!Points
  <2>2. /\ SQUARE(s[2], s[1]) \in Squares /\ RNK(SQUARE(s[2], s[1])) = s[2]
        /\ FIL(SQUARE(s[2], s[1])) = s[1]
    BY <2>1, Coordinates
  <2> QED
    BY <2>1, <2>2 DEF P
<1>3. ASSUME NEW x \in Squares, NEW y \in Squares PROVE P(x) = P(y) <=> x = y
  BY <1>1, Coordinates DEF P
<1> QED
  BY <1>1, <1>2, <1>3

LEMMA Names ==
  /\ Side(WHITE) = "white" /\ Side(BLACK) = "black"
  /\ \A c, d \in Colors : Side(c) = Side(d) <=> c = d
  /\ \A c \in Colors : Side(c) \in Rules!Sides /\ Side(XSIDE(c)) = Rules!Other(Side(c))
  /\ \A c \in Colors : Side(c) # "none"
  /\ \A p \in Pieces : Kind[p + 1] \in Rules!Kinds /\ Kind[p + 1] # "none"
  /\ Kind[PAWN + 1] = "soldier" /\ Kind[GUARD + 1] = "advisor" /\ Kind[ELEPHANT + 1] = "elephant"
  /\ Kind[KNIGHT + 1] = "horse" /\ Kind[CANNON + 1] = "cannon" /\ Kind[ROOK + 1] = "chariot"
  /\ Kind[KING + 1] = "general"
  /\ \A p \in Pieces : Kind[p + 1] = "general" <=> p = KING
  /\ \A p, q \in Pieces : Kind[p + 1] = Kind[q + 1] <=> p = q
<1>1. /\ Kind[PAWN + 1] = "soldier" /\ Kind[GUARD + 1] = "advisor" /\ Kind[ELEPHANT + 1] = "elephant"
      /\ Kind[KNIGHT + 1] = "horse" /\ Kind[CANNON + 1] = "cannon" /\ Kind[ROOK + 1] = "chariot"
      /\ Kind[KING + 1] = "general"
  BY DEF Kind, PAWN, GUARD, ELEPHANT, KNIGHT, CANNON, ROOK, KING
<1>2. \A p \in Pieces : \/ p = PAWN \/ p = GUARD \/ p = ELEPHANT \/ p = KNIGHT \/ p = CANNON
                        \/ p = ROOK \/ p = KING
  BY DEF Pieces, PAWN, GUARD, ELEPHANT, KNIGHT, CANNON, ROOK, KING
<1>3. \A p \in Pieces : Kind[p + 1] \in Rules!Kinds /\ Kind[p + 1] # "none"
  BY <1>1, <1>2 DEF Rules!Kinds
<1>4. \A p, q \in Pieces : Kind[p + 1] = Kind[q + 1] <=> p = q
  BY <1>1, <1>2
<1>5. /\ Side(WHITE) = "white" /\ Side(BLACK) = "black"
      /\ \A c, d \in Colors : Side(c) = Side(d) <=> c = d
      /\ \A c \in Colors : Side(c) \in Rules!Sides /\ Side(c) # "none"
      /\ \A c \in Colors : Side(XSIDE(c)) = Rules!Other(Side(c))
  BY DEF Side, Colors, WHITE, BLACK, XSIDE, Rules!Sides, Rules!Other
<1>6. KING \in Pieces
  BY DEF Pieces, PAWN, KING
<1> QED
  BY <1>1, <1>3, <1>4, <1>5, <1>6

\* What stands where.
LEMMA ManThere ==
  ASSUME NEW b, NEW x \in Squares
  PROVE  /\ Abstract(b).at[P(x)] = IF Occupied(b, x)
              THEN Rules!Man(Side(color_at(b, x)), Kind[piece_at(b, x) + 1]) ELSE Rules!Empty
         /\ Abstract(b).turn = Side(b.side)
<1> DEFINE What(s) == IF ~Occupied(b, SQUARE(s[2], s[1])) THEN [side |-> "none", kind |-> "none"]
                      ELSE [side |-> Side(color_at(b, SQUARE(s[2], s[1]))),
                            kind |-> Kind[piece_at(b, SQUARE(s[2], s[1])) + 1]]
<1>1. Abstract(b).at = [s \in (0 .. 8) \X (0 .. 9) |-> What(s)]
  BY DEF Abstract
<1>2. P(x) \in (0 .. 8) \X (0 .. 9) /\ SQUARE(P(x)[2], P(x)[1]) = x
  BY PointsAre DEF Rules!Points
<1> HIDE DEF What
<1>3. Abstract(b).at[P(x)] = What(P(x))
  BY <1>1, <1>2
<1>4. What(P(x)) = IF Occupied(b, x)
        THEN Rules!Man(Side(color_at(b, x)), Kind[piece_at(b, x) + 1]) ELSE Rules!Empty
  BY <1>2 DEF What, Rules!Man, Rules!Empty
<1>5. Abstract(b).turn = Side(b.side)
  BY DEF Abstract
<1> QED
  BY <1>3, <1>4, <1>5

LEMMA StepTo ==
  ASSUME NEW x \in Squares, NEW y \in Squares, NEW d \in Int \X Int, NEW n \in Int
  PROVE  Step(x, d, n) = y <=> Up(x, y) = n * d[1] /\ Across(x, y) = n * d[2]
<1>1. /\ Step(x, d, n) \in Squares <=>
           RNK(x) + (n * d[1]) \in 0 .. 9 /\ FIL(x) + (n * d[2]) \in 0 .. 8
      /\ Step(x, d, n) \in Squares =>
           RNK(Step(x, d, n)) = RNK(x) + (n * d[1]) /\ FIL(Step(x, d, n)) = FIL(x) + (n * d[2])
  BY Steps
<1>2. /\ RNK(x) \in 0 .. 9 /\ FIL(x) \in 0 .. 8 /\ RNK(y) \in 0 .. 9 /\ FIL(y) \in 0 .. 8
      /\ y = 9 * RNK(y) + FIL(y)
      /\ Step(x, d, n) \in Squares => Step(x, d, n) = 9 * RNK(Step(x, d, n)) + FIL(Step(x, d, n))
  BY Coordinates
<1> DEFINE u == n * d[1]
           a == n * d[2]
<1>3. u \in Int /\ a \in Int
  OBVIOUS
<1> HIDE DEF u, a
<1>4. Step(x, d, n) = y <=> RNK(y) = RNK(x) + u /\ FIL(y) = FIL(x) + a
  BY <1>1, <1>2, <1>3 DEF u, a
<1>5. RNK(y) = RNK(x) + u /\ FIL(y) = FIL(x) + a <=> RNK(y) - RNK(x) = u /\ FIL(y) - FIL(x) = a
  BY <1>2, <1>3
<1> QED
  BY <1>4, <1>5 DEF Up, Across, u, a

-----------------------------------------------------------------------------
(***************************************************************************)
(* What a man attacks is what it reaches by the rules, piece by piece.      *)
(***************************************************************************)
Deep(c, x) == IF c = WHITE THEN RNK(x) ELSE 9 - RNK(x)

LEMMA Geometry ==
  ASSUME NEW x \in Squares, NEW y \in Squares
  PROVE  /\ Up(x, y) \in -9 .. 9 /\ Across(x, y) \in -8 .. 8
         /\ Rules!Rows(P(x), P(y)) = Up(x, y) /\ Rules!Cols(P(x), P(y)) = Across(x, y)
         /\ x = y <=> Up(x, y) = 0 /\ Across(x, y) = 0
         /\ Rules!InLine(P(x), P(y)) <=> x # y /\ (Up(x, y) = 0 \/ Across(x, y) = 0)
         /\ Rules!Shape(P(x), P(y)) = {Abs(Up(x, y)), Abs(Across(x, y))}
         /\ \A c \in Colors :
              /\ Rules!Depth(Side(c), P(x)) = Deep(c, x) /\ Deep(c, x) \in 0 .. 9
              /\ Deep(c, y) = IF c = WHITE THEN Deep(c, x) + Up(x, y) ELSE Deep(c, x) - Up(x, y)
              /\ P(x) \in Rules!Palace(Side(c)) <=> FIL(x) \in 3 .. 5 /\ Deep(c, x) <= 2
              /\ P(x) \in Rules!Home(Side(c)) <=> Deep(c, x) <= 4
<1>1. /\ RNK(x) \in 0 .. 9 /\ FIL(x) \in 0 .. 8 /\ RNK(y) \in 0 .. 9 /\ FIL(y) \in 0 .. 8
      /\ x = 9 * RNK(x) + FIL(x) /\ y = 9 * RNK(y) + FIL(y)
  BY Coordinates
<1>2. /\ P(x) \in Rules!Points /\ P(x)[1] = FIL(x) /\ P(x)[2] = RNK(x)
      /\ P(y) \in Rules!Points /\ P(y)[1] = FIL(y) /\ P(y)[2] = RNK(y)
      /\ P(x) = P(y) <=> x = y
  BY PointsAre
<1>3. /\ Up(x, y) \in -9 .. 9 /\ Across(x, y) \in -8 .. 8
      /\ Rules!Rows(P(x), P(y)) = Up(x, y) /\ Rules!Cols(P(x), P(y)) = Across(x, y)
  BY <1>1, <1>2 DEF Up, Across, Rules!Rows, Rules!Cols
<1>4. x = y <=> Up(x, y) = 0 /\ Across(x, y) = 0
  BY <1>1 DEF Up, Across
<1>5. Rules!InLine(P(x), P(y)) <=> x # y /\ (Up(x, y) = 0 \/ Across(x, y) = 0)
  BY <1>2, <1>3 DEF Rules!InLine
<1>6. Rules!Shape(P(x), P(y)) = {Abs(Up(x, y)), Abs(Across(x, y))}
  <2>1. \A n \in Int : Rules!Size(n) = Abs(n)
    BY DEF Rules!Size, Abs
  <2> QED
    BY <1>3, <2>1 DEF Rules!Shape
<1>7. ASSUME NEW c \in Colors
      PROVE  /\ Rules!Depth(Side(c), P(x)) = Deep(c, x) /\ Deep(c, x) \in 0 .. 9
             /\ Deep(c, y) = IF c = WHITE THEN Deep(c, x) + Up(x, y) ELSE Deep(c, x) - Up(x, y)
  <2>1. Side(c) = "white" <=> c = WHITE
    BY DEF Side, Colors, WHITE, BLACK
  <2> QED
    BY <1>1, <1>2, <2>1 DEF Rules!Depth, Deep, Up
<1>8. ASSUME NEW c \in Colors
      PROVE  /\ P(x) \in Rules!Palace(Side(c)) <=> FIL(x) \in 3 .. 5 /\ Deep(c, x) <= 2
             /\ P(x) \in Rules!Home(Side(c)) <=> Deep(c, x) <= 4
  BY <1>2, <1>7 DEF Rules!Palace, Rules!Home
<1> QED
  BY <1>3, <1>4, <1>5, <1>6, <1>7, <1>8

LEMMA Shapes ==
  ASSUME NEW u \in Int, NEW a \in Int
  PROVE  /\ {Abs(u), Abs(a)} = {0, 1} <=>
              (u = 0 /\ a \in {0 - 1, 1}) \/ (a = 0 /\ u \in {0 - 1, 1})
         /\ {Abs(u), Abs(a)} = {1} <=> u \in {0 - 1, 1} /\ a \in {0 - 1, 1}
         /\ {Abs(u), Abs(a)} = {2} <=> u \in {0 - 2, 2} /\ a \in {0 - 2, 2}
         /\ {Abs(u), Abs(a)} = {1, 2} <=>
              (u \in {0 - 1, 1} /\ a \in {0 - 2, 2}) \/ (u \in {0 - 2, 2} /\ a \in {0 - 1, 1})
<1>1. \A m \in Nat, n \in Nat :
        /\ {m, n} = {0, 1} <=> (m = 0 /\ n = 1) \/ (m = 1 /\ n = 0)
        /\ {m, n} = {1, 2} <=> (m = 1 /\ n = 2) \/ (m = 2 /\ n = 1)
        /\ {m, n} = {1} <=> m = 1 /\ n = 1
        /\ {m, n} = {2} <=> m = 2 /\ n = 2
  OBVIOUS
<1>2. \A n \in Int : /\ Abs(n) \in Nat /\ Abs(n) = 0 <=> n = 0
                     /\ Abs(n) = 1 <=> n \in {0 - 1, 1}
                     /\ Abs(n) = 2 <=> n \in {0 - 2, 2}
  BY DEF Abs
<1> QED
  BY <1>1, <1>2

\* The cases of the rule are exclusive.
LEMMA ReachesIs ==
  ASSUME NEW at, NEW s, NEW t, NEW c, NEW k, at[s] = Rules!Man(c, k)
  PROVE  LET R == Rules!Reaches(at, s, t)
         IN  /\ k = "soldier" =>
                  (R <=> /\ Rules!InLine(s, t) /\ Rules!Shape(s, t) = {0, 1}
                         /\ \/ Rules!Depth(c, t) = Rules!Depth(c, s) + 1
                            \/ Rules!Depth(c, s) >= 5 /\ Rules!Depth(c, t) = Rules!Depth(c, s))
             /\ k = "advisor" =>
                  (R <=> Rules!Shape(s, t) = {1} /\ t \in Rules!Palace(c))
             /\ k = "elephant" =>
                  (R <=> /\ Rules!Shape(s, t) = {2} /\ t \in Rules!Home(c)
                         /\ at[Rules!Eye(s, t)] = Rules!Empty)
             /\ k = "horse" =>
                  (R <=> Rules!Shape(s, t) = {1, 2} /\ at[Rules!Leg(s, t)] = Rules!Empty)
             /\ k = "cannon" =>
                  (R <=> /\ Rules!InLine(s, t)
                         /\ Rules!MenBetween(at, s, t) = IF at[t] = Rules!Empty THEN 0 ELSE 1)
             /\ k = "chariot" =>
                  (R <=> Rules!InLine(s, t) /\ Rules!MenBetween(at, s, t) = 0)
             /\ k = "general" =>
                  (R <=> \/ /\ Rules!InLine(s, t) /\ Rules!Shape(s, t) = {0, 1}
                            /\ t \in Rules!Palace(c)
                         \/ /\ Rules!Cols(s, t) = 0
                            /\ at[t] = Rules!Man(Rules!Other(c), "general")
                            /\ Rules!MenBetween(at, s, t) = 0)
<1>1. at[s].side = c /\ at[s].kind = k
  BY DEF Rules!Man
<1> QED
  BY <1>1 DEF Rules!Reaches

LEMMA StandsThere ==
  ASSUME NEW b, NEW x \in Squares, NEW c \in Colors, NEW p \in Pieces,
         color_at(b, x) = c, piece_at(b, x) = p
  PROVE  Abstract(b).at[P(x)] = Rules!Man(Side(c), Kind[p + 1])
<1>1. Occupied(b, x)
  BY Numbers DEF Occupied
<1> QED
  BY <1>1, ManThere

LEMMA AttacksAre ==
  ASSUME NEW b, NEW x \in Squares
  PROVE  LET p == piece_at(b, x)
             c == color_at(b, x)
         IN  /\ p = PAWN => Attacks(b, x) = pawn_attacks(x, c)
             /\ p = GUARD => Attacks(b, x) = guard_attacks(x)
             /\ p = ELEPHANT => Attacks(b, x) = elephant_attacks(b, x, c)
             /\ p = KNIGHT => Attacks(b, x) = knight_attacks(b, x)
             /\ p = CANNON => Attacks(b, x) = cannon_attacks(b, x, c)
             /\ p = ROOK => Attacks(b, x) = rook_attacks(b, x)
             /\ p = KING => Attacks(b, x) = king_attacks(x)
<1>1. /\ PAWN = 0 /\ GUARD = 1 /\ ELEPHANT = 2 /\ KNIGHT = 3 /\ CANNON = 4 /\ ROOK = 5
      /\ KING = 6
  BY DEF PAWN, GUARD, ELEPHANT, KNIGHT, CANNON, ROOK, KING
<1> QED
  BY <1>1 DEF Attacks

LEMMA PieceNumbers ==
  {PAWN, GUARD, ELEPHANT, KNIGHT, CANNON, ROOK, KING} = Pieces
BY DEF Pieces, PAWN, GUARD, ELEPHANT, KNIGHT, CANNON, ROOK, KING

LEMMA HalfIs ==
  ASSUME NEW c \in Colors, NEW x \in Squares
  PROVE  x \in half[c] <=> Deep(c, x) <= 4
<1>1. half[c] = {sq \in Squares : (RNK(sq) <= 4) = (c = WHITE)}
  BY DEF half
<1>2. RNK(x) \in 0 .. 9
  BY Coordinates
<1>3. CASE c = WHITE
  BY <1>1, <1>2, <1>3 DEF Deep
<1>4. CASE c # WHITE
  BY <1>1, <1>2, <1>4 DEF Deep
<1> QED
  BY <1>3, <1>4

LEMMA SoldierAlike ==
  ASSUME NEW b, NEW x \in Squares, NEW y \in Squares, NEW c \in Colors,
         color_at(b, x) = c, piece_at(b, x) = PAWN
  PROVE  y \in Attacks(b, x) <=> Rules!Reaches(Abstract(b).at, P(x), P(y))
<1>1. Abstract(b).at[P(x)] = Rules!Man(Side(c), "soldier")
  BY StandsThere, Names, PieceNumbers
<1>2. /\ Up(x, y) \in -9 .. 9 /\ Across(x, y) \in -8 .. 8
      /\ x = y <=> Up(x, y) = 0 /\ Across(x, y) = 0
      /\ Rules!InLine(P(x), P(y)) <=> x # y /\ (Up(x, y) = 0 \/ Across(x, y) = 0)
      /\ Rules!Shape(P(x), P(y)) = {Abs(Up(x, y)), Abs(Across(x, y))}
      /\ Rules!Depth(Side(c), P(x)) = Deep(c, x) /\ Deep(c, x) \in 0 .. 9
      /\ Rules!Depth(Side(c), P(y)) = Deep(c, y)
      /\ Deep(c, y) = IF c = WHITE THEN Deep(c, x) + Up(x, y) ELSE Deep(c, x) - Up(x, y)
  BY Geometry
<1> DEFINE u == Up(x, y)
           a == Across(x, y)
           forward == IF c = WHITE THEN 1 ELSE 0 - 1
<1>3. {Abs(u), Abs(a)} = {0, 1} <=> (u = 0 /\ a \in {0 - 1, 1}) \/ (a = 0 /\ u \in {0 - 1, 1})
  <2>1. u \in Int /\ a \in Int
    BY <1>2
  <2> HIDE DEF u, a
  <2> QED
    BY <2>1, Shapes
<1>4. Rules!Reaches(Abstract(b).at, P(x), P(y)) <=>
        \/ a = 0 /\ u = forward
        \/ Deep(c, x) >= 5 /\ u = 0 /\ a \in {0 - 1, 1}
  <2>1. Rules!Reaches(Abstract(b).at, P(x), P(y)) <=>
          /\ Rules!InLine(P(x), P(y)) /\ Rules!Shape(P(x), P(y)) = {0, 1}
          /\ \/ Rules!Depth(Side(c), P(y)) = Rules!Depth(Side(c), P(x)) + 1
             \/ /\ Rules!Depth(Side(c), P(x)) >= 5
                /\ Rules!Depth(Side(c), P(y)) = Rules!Depth(Side(c), P(x))
    BY <1>1, ReachesIs
  <2> HIDE DEF u, a
  <2> QED
    BY <1>2, <1>3, <2>1 DEF u, a
<1>5. y \in Attacks(b, x) <=> y \in pawn_attacks(x, c)
  BY AttacksAre
<1>6. x \notin half[c] <=> Deep(c, x) >= 5
  BY <1>2, HalfIs
<1> DEFINE ahead == IF c = WHITE THEN <<1, 0>> ELSE <<-1, 0>>
           D == {ahead} \cup (IF x \notin half[c] THEN {<<0, 1>>, <<0, -1>>} ELSE {})
<1>7. y \in pawn_attacks(x, c) <=> \E d \in D : Step(x, d, 1) = y
  BY DEF pawn_attacks
<1>8. D \subseteq Int \X Int /\ 1 \in Int
  OBVIOUS
<1>9. \A d \in D : Step(x, d, 1) = y <=> u = d[1] /\ a = d[2]
  <2> SUFFICES ASSUME NEW d \in D PROVE Step(x, d, 1) = y <=> u = d[1] /\ a = d[2]
    OBVIOUS
  <2>1. d \in Int \X Int
    BY <1>8
  <2> HIDE DEF D
  <2>2. Step(x, d, 1) = y <=> u = 1 * d[1] /\ a = 1 * d[2]
    BY <1>8, <2>1, StepTo
  <2>3. 1 * d[1] = d[1] /\ 1 * d[2] = d[2]
    BY <2>1
  <2> QED
    BY <2>2, <2>3
<1>10. (\E d \in D : u = d[1] /\ a = d[2]) <=>
         \/ a = 0 /\ u = forward
         \/ Deep(c, x) >= 5 /\ u = 0 /\ a \in {0 - 1, 1}
  <2>1. ahead[1] = forward /\ ahead[2] = 0
    OBVIOUS
  <2> HIDE DEF ahead, forward, u, a
  <2>2. (\E d \in D : u = d[1] /\ a = d[2]) <=>
          \/ u = ahead[1] /\ a = ahead[2]
          \/ x \notin half[c] /\ u = 0 /\ (a = 1 \/ a = -1)
    <3>1. CASE x \notin half[c]
      <4>1. D = {ahead, <<0, 1>>, <<0, -1>>}
        BY <3>1
      <4> HIDE DEF D
      <4> QED
        BY <3>1, <4>1
    <3>2. CASE x \in half[c]
      <4>1. D = {ahead}
        BY <3>2
      <4> HIDE DEF D
      <4> QED
        BY <3>2, <4>1
    <3> QED
      BY <3>1, <3>2
  <2> QED
    BY <1>6, <2>1, <2>2
<1> HIDE DEF D, u, a, forward
<1> QED
  BY <1>4, <1>5, <1>7, <1>9, <1>10

\* Steps to neighbours.
LEMMA Neighbours ==
  ASSUME NEW x \in Squares, NEW y \in Squares
  PROVE  /\ \A n \in {1, 2} : \A d \in Diagonal :
              Step(x, d, n) = y <=> Up(x, y) = n * d[1] /\ Across(x, y) = n * d[2]
         /\ \A d \in Straight : Step(x, d, 1) = y <=> Up(x, y) = d[1] /\ Across(x, y) = d[2]
         /\ (\E d \in Diagonal : Step(x, d, 1) = y) <=>
              Up(x, y) \in {0 - 1, 1} /\ Across(x, y) \in {0 - 1, 1}
         /\ (\E d \in Straight : Step(x, d, 1) = y) <=>
              \/ Up(x, y) = 0 /\ Across(x, y) \in {0 - 1, 1}
              \/ Across(x, y) = 0 /\ Up(x, y) \in {0 - 1, 1}
<1> DEFINE u == Up(x, y)
           a == Across(x, y)
<1>1. /\ \A d \in Diagonal : d \in Int \X Int
      /\ \A d \in Straight : d \in Int \X Int
  BY Directions
<1>2. \A n \in {1, 2} : \A d \in Diagonal :
        Step(x, d, n) = y <=> u = n * d[1] /\ a = n * d[2]
  BY <1>1, StepTo
<1>3. \A d \in Straight : Step(x, d, 1) = y <=> u = 1 * d[1] /\ a = 1 * d[2]
  BY <1>1, StepTo
<1>4. \A d \in Int \X Int : 1 * d[1] = d[1] /\ 1 * d[2] = d[2]
  OBVIOUS
<1>5. u \in Int /\ a \in Int
  BY Geometry
<1> HIDE DEF u, a
<1>6. (\E d \in Diagonal : u = d[1] /\ a = d[2]) <=> u \in {0 - 1, 1} /\ a \in {0 - 1, 1}
  BY <1>5 DEF Diagonal
<1>7. (\E d \in Straight : u = d[1] /\ a = d[2]) <=>
        (u = 0 /\ a \in {0 - 1, 1}) \/ (a = 0 /\ u \in {0 - 1, 1})
  BY <1>5 DEF Straight
<1>8. \A d \in Diagonal : Step(x, d, 1) = y <=> u = d[1] /\ a = d[2]
  BY <1>1, <1>2, <1>4
<1>9. \A d \in Straight : Step(x, d, 1) = y <=> u = d[1] /\ a = d[2]
  BY <1>1, <1>3, <1>4
<1> QED
  BY <1>2, <1>6, <1>7, <1>8, <1>9 DEF u, a

LEMMA AdvisorAlike ==
  ASSUME NEW b, NEW x \in Squares, NEW y \in Squares, NEW c \in Colors,
         color_at(b, x) = c, piece_at(b, x) = GUARD, P(x) \in Rules!Palace(Side(c))
  PROVE  y \in Attacks(b, x) <=> Rules!Reaches(Abstract(b).at, P(x), P(y))
<1>1. Abstract(b).at[P(x)] = Rules!Man(Side(c), "advisor")
  BY StandsThere, Names, PieceNumbers
<1> DEFINE u == Up(x, y)
           a == Across(x, y)
<1>2. /\ u \in Int /\ a \in Int
      /\ Rules!Shape(P(x), P(y)) = {Abs(u), Abs(a)}
      /\ Deep(c, x) \in 0 .. 9 /\ Deep(c, x) <= 2
      /\ Deep(c, y) = IF c = WHITE THEN Deep(c, x) + u ELSE Deep(c, x) - u
      /\ P(y) \in Rules!Palace(Side(c)) <=> FIL(y) \in 3 .. 5 /\ Deep(c, y) <= 2
  BY Geometry
<1>3. y \in Attacks(b, x) <=> y \in palace /\ \E d \in Diagonal : Step(x, d, 1) = y
  BY AttacksAre DEF guard_attacks
<1>4. (\E d \in Diagonal : Step(x, d, 1) = y) <=> u \in {0 - 1, 1} /\ a \in {0 - 1, 1}
  BY Neighbours
<1>5. y \in palace <=> FIL(y) \in 3 .. 5 /\ (RNK(y) <= 2 \/ RNK(y) >= 7)
  BY Coordinates DEF palace
<1>6. Rules!Reaches(Abstract(b).at, P(x), P(y)) <=>
        Rules!Shape(P(x), P(y)) = {1} /\ P(y) \in Rules!Palace(Side(c))
  BY <1>1, ReachesIs
<1>7. {Abs(u), Abs(a)} = {1} <=> u \in {0 - 1, 1} /\ a \in {0 - 1, 1}
  BY <1>2, Shapes
<1> HIDE DEF u, a
<1>8. u \in {0 - 1, 1} => ((RNK(y) <= 2 \/ RNK(y) >= 7) <=> Deep(c, y) <= 2)
  <2>1. RNK(y) \in 0 .. 9 /\ RNK(x) \in 0 .. 9
    BY Coordinates
  <2> QED
    BY <1>2, <2>1 DEF Deep
<1> QED
  BY <1>2, <1>3, <1>4, <1>5, <1>6, <1>7, <1>8

\* But for the generals that face each other.
Facing(b, x, y) ==
  /\ Across(x, y) = 0
  /\ Abstract(b).at[P(y)] = Rules!Man(Rules!Other(Side(color_at(b, x))), "general")
  /\ Rules!MenBetween(Abstract(b).at, P(x), P(y)) = 0

LEMMA GeneralAlike ==
  ASSUME NEW b, NEW x \in Squares, NEW y \in Squares, NEW c \in Colors,
         color_at(b, x) = c, piece_at(b, x) = KING, P(x) \in Rules!Palace(Side(c))
  PROVE  y \in Attacks(b, x) \/ Facing(b, x, y) <=>
           Rules!Reaches(Abstract(b).at, P(x), P(y))
<1>1. Abstract(b).at[P(x)] = Rules!Man(Side(c), "general")
  BY StandsThere, Names, PieceNumbers
<1> DEFINE u == Up(x, y)
           a == Across(x, y)
<1>2. /\ u \in Int /\ a \in Int
      /\ Rules!Shape(P(x), P(y)) = {Abs(u), Abs(a)} /\ Rules!Cols(P(x), P(y)) = a
      /\ Rules!InLine(P(x), P(y)) <=> x # y /\ (u = 0 \/ a = 0)
      /\ x = y <=> u = 0 /\ a = 0
      /\ Deep(c, x) \in 0 .. 9 /\ Deep(c, x) <= 2
      /\ Deep(c, y) = IF c = WHITE THEN Deep(c, x) + u ELSE Deep(c, x) - u
      /\ P(y) \in Rules!Palace(Side(c)) <=> FIL(y) \in 3 .. 5 /\ Deep(c, y) <= 2
  BY Geometry
<1>3. y \in Attacks(b, x) <=> y \in palace /\ \E d \in Straight : Step(x, d, 1) = y
  BY AttacksAre DEF king_attacks
<1>4. (\E d \in Straight : Step(x, d, 1) = y) <=>
        (u = 0 /\ a \in {0 - 1, 1}) \/ (a = 0 /\ u \in {0 - 1, 1})
  BY Neighbours
<1>5. y \in palace <=> FIL(y) \in 3 .. 5 /\ (RNK(y) <= 2 \/ RNK(y) >= 7)
  BY Coordinates DEF palace
<1>6. Rules!Reaches(Abstract(b).at, P(x), P(y)) <=>
        \/ /\ Rules!InLine(P(x), P(y)) /\ Rules!Shape(P(x), P(y)) = {0, 1}
           /\ P(y) \in Rules!Palace(Side(c))
        \/ Facing(b, x, y)
  <2>1. Rules!Reaches(Abstract(b).at, P(x), P(y)) <=>
          \/ /\ Rules!InLine(P(x), P(y)) /\ Rules!Shape(P(x), P(y)) = {0, 1}
             /\ P(y) \in Rules!Palace(Side(c))
          \/ /\ Rules!Cols(P(x), P(y)) = 0
             /\ Abstract(b).at[P(y)] = Rules!Man(Rules!Other(Side(c)), "general")
             /\ Rules!MenBetween(Abstract(b).at, P(x), P(y)) = 0
    BY <1>1, ReachesIs
  <2> QED
    BY <1>2, <2>1 DEF Facing
<1>7. {Abs(u), Abs(a)} = {0, 1} <=> (u = 0 /\ a \in {0 - 1, 1}) \/ (a = 0 /\ u \in {0 - 1, 1})
  BY <1>2, Shapes
<1> HIDE DEF u, a
<1>8. u \in {0 - 1, 0, 1} => ((RNK(y) <= 2 \/ RNK(y) >= 7) <=> Deep(c, y) <= 2)
  <2>1. RNK(y) \in 0 .. 9 /\ RNK(x) \in 0 .. 9
    BY Coordinates
  <2> QED
    BY <1>2, <2>1 DEF Deep
<1> DEFINE near == (u = 0 /\ a \in {0 - 1, 1}) \/ (a = 0 /\ u \in {0 - 1, 1})
<1>9. Rules!InLine(P(x), P(y)) /\ Rules!Shape(P(x), P(y)) = {0, 1} <=> near
  BY <1>2, <1>7
<1>10. near => (y \in palace <=> P(y) \in Rules!Palace(Side(c)))
  BY <1>2, <1>5, <1>8
<1>11. y \in Attacks(b, x) <=> y \in palace /\ near
  BY <1>3, <1>4
<1> HIDE DEF near
<1> QED
  BY <1>6, <1>9, <1>10, <1>11

LEMMA EmptyThere ==
  ASSUME NEW b, StateExact(b), NEW x \in Squares
  PROVE  Abstract(b).at[P(x)] = Rules!Empty <=> ~Occupied(b, x)
<1>1. CASE Occupied(b, x)
  <2>1. color_at(b, x) \in Colors
    BY <1>1, MenOn
  <2>2. Abstract(b).at[P(x)] = Rules!Man(Side(color_at(b, x)), Kind[piece_at(b, x) + 1])
    BY <1>1, ManThere
  <2>3. Abstract(b).at[P(x)].side = Side(color_at(b, x)) /\ Rules!Empty.side = "none"
    BY <2>2 DEF Rules!Man, Rules!Empty
  <2> QED
    BY <1>1, <2>1, <2>3, Names
<1>2. CASE ~Occupied(b, x)
  BY <1>2, ManThere
<1> QED
  BY <1>1, <1>2

\* The eye of an elephant's move.
LEMMA EyeIs ==
  ASSUME NEW x \in Squares, NEW y \in Squares, NEW d \in Diagonal,
         Up(x, y) = 2 * d[1], Across(x, y) = 2 * d[2]
  PROVE  /\ Step(x, d, 1) \in Squares
         /\ Rules!Eye(P(x), P(y)) = P(Step(x, d, 1))
         /\ \A c \in Colors : Deep(c, x) <= 4 /\ Deep(c, y) <= 4 => Deep(c, Step(x, d, 1)) <= 4
<1> DEFINE v == d[1]
           h == d[2]
           z == Step(x, d, 1)
<1>1. d \in Int \X Int /\ v \in Int /\ h \in Int /\ (v = 1 \/ v = 0 - 1) /\ (h = 1 \/ h = 0 - 1)
  BY DEF Diagonal
<1>2. /\ z \in Squares <=> RNK(x) + (1 * v) \in 0 .. 9 /\ FIL(x) + (1 * h) \in 0 .. 8
      /\ z \in Squares => RNK(z) = RNK(x) + (1 * v) /\ FIL(z) = FIL(x) + (1 * h)
  BY <1>1, Steps
<1>3. /\ RNK(x) \in 0 .. 9 /\ FIL(x) \in 0 .. 8 /\ RNK(y) \in 0 .. 9 /\ FIL(y) \in 0 .. 8
  BY Coordinates
<1>4. RNK(y) - RNK(x) = 2 * v /\ FIL(y) - FIL(x) = 2 * h
  BY DEF Up, Across
<1> HIDE DEF z, v, h
<1>5. 1 * v = v /\ 1 * h = h
  BY <1>1
<1>6. RNK(x) + v \in 0 .. 9 /\ FIL(x) + h \in 0 .. 8
  <2>1. \A m, n \in Int, k \in Nat, w \in {1, 0 - 1} :
          m \in 0 .. k /\ n \in 0 .. k /\ n - m = 2 * w => m + w \in 0 .. k
    OBVIOUS
  <2>2. v \in {1, 0 - 1} /\ h \in {1, 0 - 1} /\ 8 \in Nat /\ 9 \in Nat
    BY <1>1
  <2>3. RNK(x) \in Int /\ RNK(y) \in Int /\ FIL(x) \in Int /\ FIL(y) \in Int
    BY <1>3
  <2> QED
    BY <1>3, <1>4, <2>1, <2>2, <2>3
<1>7. z \in Squares /\ RNK(z) = RNK(x) + v /\ FIL(z) = FIL(x) + h
  BY <1>2, <1>5, <1>6
<1>8. FIL(x) + FIL(y) = 2 * FIL(z) /\ RNK(x) + RNK(y) = 2 * RNK(z)
  <2>1. \A k, l, m, w \in Int : l - k = 2 * w /\ m = k + w => k + l = 2 * m
    OBVIOUS
  <2>2. /\ RNK(x) \in Int /\ RNK(y) \in Int /\ FIL(x) \in Int /\ FIL(y) \in Int
        /\ RNK(z) \in Int /\ FIL(z) \in Int
    BY <1>1, <1>3, <1>7
  <2> QED
    BY <1>1, <1>4, <1>7, <2>1, <2>2
<1>9. (FIL(x) + FIL(y)) \div 2 = FIL(z) /\ (RNK(x) + RNK(y)) \div 2 = RNK(z)
  <2>1. \A n \in Int : (2 * n) \div 2 = n
    OBVIOUS
  <2>2. FIL(z) \in Int /\ RNK(z) \in Int
    BY <1>1, <1>3, <1>7
  <2> QED
    BY <1>8, <2>1, <2>2
<1>10. Rules!Eye(P(x), P(y)) = P(z)
  <2>1. P(x)[1] = FIL(x) /\ P(x)[2] = RNK(x) /\ P(y)[1] = FIL(y) /\ P(y)[2] = RNK(y)
    BY PointsAre
  <2> QED
    BY <1>9, <2>1 DEF Rules!Eye, P
<1>11. \A c \in Colors : Deep(c, x) <= 4 /\ Deep(c, y) <= 4 => Deep(c, z) <= 4
  <2>1. RNK(x) \in Int /\ RNK(y) \in Int /\ RNK(z) \in Int /\ RNK(x) + RNK(y) = 2 * RNK(z)
    <3>1. RNK(x) \in Int /\ RNK(y) \in Int
      BY <1>3
    <3>2. RNK(z) \in Int
      BY <1>1, <1>7, <3>1
    <3> QED
      BY <1>8, <3>1, <3>2
  <2>2. RNK(x) <= 4 /\ RNK(y) <= 4 => RNK(z) <= 4
    BY <2>1
  <2>3. 9 - RNK(x) <= 4 /\ 9 - RNK(y) <= 4 => 9 - RNK(z) <= 4
    BY <2>1
  <2> QED
    BY <2>2, <2>3 DEF Deep
<1> QED
  BY <1>7, <1>10, <1>11 DEF z

LEMMA ElephantAlike ==
  ASSUME NEW b, StateExact(b), NEW x \in Squares, NEW y \in Squares, NEW c \in Colors,
         color_at(b, x) = c, piece_at(b, x) = ELEPHANT, P(x) \in Rules!Home(Side(c))
  PROVE  y \in Attacks(b, x) <=> Rules!Reaches(Abstract(b).at, P(x), P(y))
<1>1. Abstract(b).at[P(x)] = Rules!Man(Side(c), "elephant")
  BY StandsThere, Names, PieceNumbers
<1> DEFINE u == Up(x, y)
           a == Across(x, y)
<1>2. /\ u \in Int /\ a \in Int
      /\ Rules!Shape(P(x), P(y)) = {Abs(u), Abs(a)}
      /\ Deep(c, x) <= 4
      /\ P(y) \in Rules!Home(Side(c)) <=> Deep(c, y) <= 4
  BY Geometry
<1>3. Rules!Reaches(Abstract(b).at, P(x), P(y)) <=>
        /\ Rules!Shape(P(x), P(y)) = {2} /\ P(y) \in Rules!Home(Side(c))
        /\ Abstract(b).at[Rules!Eye(P(x), P(y))] = Rules!Empty
  BY <1>1, ReachesIs
<1>4. {Abs(u), Abs(a)} = {2} <=> u \in {0 - 2, 2} /\ a \in {0 - 2, 2}
  BY <1>2, Shapes
<1>5. y \in Attacks(b, x) <=>
        /\ y \in half[c]
        /\ \E d \in Diagonal : /\ Step(x, d, 1) \in half[c] /\ ~Occupied(b, Step(x, d, 1))
                               /\ Step(x, d, 2) = y
  BY AttacksAre DEF elephant_attacks
<1>6. \A d \in Diagonal : Step(x, d, 2) = y <=> u = 2 * d[1] /\ a = 2 * d[2]
  BY Neighbours
<1>7. ASSUME NEW d \in Diagonal, u = 2 * d[1], a = 2 * d[2], Deep(c, y) <= 4
      PROVE  /\ Step(x, d, 1) \in half[c]
             /\ ~Occupied(b, Step(x, d, 1)) <=>
                  Abstract(b).at[Rules!Eye(P(x), P(y))] = Rules!Empty
  <2>1. /\ Step(x, d, 1) \in Squares /\ Rules!Eye(P(x), P(y)) = P(Step(x, d, 1))
        /\ Deep(c, Step(x, d, 1)) <= 4
    BY <1>2, <1>7, EyeIs
  <2> QED
    BY <2>1, HalfIs, EmptyThere
<1>8. y \in half[c] <=> Deep(c, y) <= 4
  BY HalfIs
<1> HIDE DEF u, a
<1>9. (u \in {0 - 2, 2} /\ a \in {0 - 2, 2}) <=> \E d \in Diagonal : u = 2 * d[1] /\ a = 2 * d[2]
  BY <1>2 DEF Diagonal
<1> QED
  BY <1>2, <1>3, <1>4, <1>5, <1>6, <1>7, <1>8, <1>9

LEMMA Middle ==
  ASSUME NEW k \in Nat, NEW m \in 0 .. k, NEW n \in 0 .. k, NEW w \in {1, 0 - 1}, n - m = 2 * w
  PROVE  m + w \in 0 .. k /\ (m + n) \div 2 = m + w
<1>1. m + w \in 0 .. k /\ m + n = 2 * (m + w)
  OBVIOUS
<1>2. \A i \in Int : (2 * i) \div 2 = i
  OBVIOUS
<1>3. m + w \in Int
  OBVIOUS
<1> QED
  BY <1>1, <1>2, <1>3

\* A horse's move is a step straight on and one diagonally onward.
Leaping(d, e, u, a) ==
  /\ d \in Straight /\ e \in Diagonal /\ (e[1] * d[1]) + (e[2] * d[2]) = 1
  /\ u = d[1] + e[1] /\ a = d[2] + e[2]

LEMMA LeapsAre ==
  ASSUME NEW u \in Int, NEW a \in Int
  PROVE  /\ (\E d, e : Leaping(d, e, u, a)) <=>
              (u \in {0 - 1, 1} /\ a \in {0 - 2, 2}) \/ (u \in {0 - 2, 2} /\ a \in {0 - 1, 1})
         /\ \A d, e : Leaping(d, e, u, a) =>
              \/ d[1] = 0 /\ d[2] \in {1, 0 - 1} /\ a = 2 * d[2] /\ u \in {1, 0 - 1}
              \/ d[2] = 0 /\ d[1] \in {1, 0 - 1} /\ u = 2 * d[1] /\ a \in {1, 0 - 1}
<1>1. \A d, e : Leaping(d, e, u, a) <=>
        \/ d = <<0, 1>> /\ a = 2 /\ ((u = 1 /\ e = <<1, 1>>) \/ (u = -1 /\ e = <<-1, 1>>))
        \/ d = <<0, -1>> /\ a = -2 /\ ((u = 1 /\ e = <<1, -1>>) \/ (u = -1 /\ e = <<-1, -1>>))
        \/ d = <<1, 0>> /\ u = 2 /\ ((a = 1 /\ e = <<1, 1>>) \/ (a = -1 /\ e = <<1, -1>>))
        \/ d = <<-1, 0>> /\ u = -2 /\ ((a = 1 /\ e = <<-1, 1>>) \/ (a = -1 /\ e = <<-1, -1>>))
  <2> TAKE d, e
  <2>1. CASE d = <<0, 1>> /\ e \in Diagonal
    BY <2>1 DEF Leaping, Diagonal, Straight
  <2>2. CASE d = <<0, -1>> /\ e \in Diagonal
    BY <2>2 DEF Leaping, Diagonal, Straight
  <2>3. CASE d = <<1, 0>> /\ e \in Diagonal
    BY <2>3 DEF Leaping, Diagonal, Straight
  <2>4. CASE d = <<-1, 0>> /\ e \in Diagonal
    BY <2>4 DEF Leaping, Diagonal, Straight
  <2>5. CASE d \notin Straight \/ e \notin Diagonal
    BY <2>5 DEF Leaping, Diagonal, Straight
  <2> QED
    BY <2>1, <2>2, <2>3, <2>4, <2>5 DEF Straight
<1>2. ASSUME NEW d, NEW e, Leaping(d, e, u, a)
      PROVE  \/ d[1] = 0 /\ d[2] \in {1, 0 - 1} /\ a = 2 * d[2] /\ u \in {1, 0 - 1}
             \/ d[2] = 0 /\ d[1] \in {1, 0 - 1} /\ u = 2 * d[1] /\ a \in {1, 0 - 1}
  <2>1. CASE d = <<0, 1>>
    BY <1>1, <1>2, <2>1
  <2>2. CASE d = <<0, -1>>
    BY <1>1, <1>2, <2>2
  <2>3. CASE d = <<1, 0>>
    BY <1>1, <1>2, <2>3
  <2>4. CASE d = <<-1, 0>>
    BY <1>1, <1>2, <2>4
  <2> QED
    BY <1>1, <1>2, <2>1, <2>2, <2>3, <2>4
<1>3. (\E d, e : Leaping(d, e, u, a)) =>
        (u \in {0 - 1, 1} /\ a \in {0 - 2, 2}) \/ (u \in {0 - 2, 2} /\ a \in {0 - 1, 1})
  BY <1>1
<1>4. ASSUME u \in {0 - 1, 1} /\ a \in {0 - 2, 2} PROVE \E d, e : Leaping(d, e, u, a)
  <2>1. ASSUME a = 2 PROVE \E d, e : Leaping(d, e, u, a)
    <3>1. Leaping(<<0, 1>>, <<1, 1>>, u, a) \/ Leaping(<<0, 1>>, <<-1, 1>>, u, a)
      BY <1>1, <1>4, <2>1
    <3> QED
      BY <3>1
  <2>2. ASSUME a = 0 - 2 PROVE \E d, e : Leaping(d, e, u, a)
    <3>1. Leaping(<<0, -1>>, <<1, -1>>, u, a) \/ Leaping(<<0, -1>>, <<-1, -1>>, u, a)
      BY <1>1, <1>4, <2>2
    <3> QED
      BY <3>1
  <2> QED
    BY <1>4, <2>1, <2>2
<1>5. ASSUME u \in {0 - 2, 2} /\ a \in {0 - 1, 1} PROVE \E d, e : Leaping(d, e, u, a)
  <2>1. ASSUME u = 2 PROVE \E d, e : Leaping(d, e, u, a)
    <3>1. Leaping(<<1, 0>>, <<1, 1>>, u, a) \/ Leaping(<<1, 0>>, <<1, -1>>, u, a)
      BY <1>1, <1>5, <2>1
    <3> QED
      BY <3>1
  <2>2. ASSUME u = 0 - 2 PROVE \E d, e : Leaping(d, e, u, a)
    <3>1. Leaping(<<-1, 0>>, <<-1, 1>>, u, a) \/ Leaping(<<-1, 0>>, <<-1, -1>>, u, a)
      BY <1>1, <1>5, <2>2
    <3> QED
      BY <3>1
  <2> QED
    BY <1>5, <2>1, <2>2
<1> QED
  BY <1>2, <1>3, <1>4, <1>5

LEMMA LegIs ==
  ASSUME NEW x \in Squares, NEW y \in Squares, NEW d, NEW e,
         Leaping(d, e, Up(x, y), Across(x, y))
  PROVE  Step(x, d, 1) \in Squares /\ Rules!Leg(P(x), P(y)) = P(Step(x, d, 1))
<1> DEFINE v == d[1]
           h == d[2]
           z == Step(x, d, 1)
           u == Up(x, y)
           a == Across(x, y)
<1>1. d \in Int \X Int /\ v \in Int /\ h \in Int
  BY DEF Leaping, Straight
<1>2. /\ z \in Squares <=> RNK(x) + (1 * v) \in 0 .. 9 /\ FIL(x) + (1 * h) \in 0 .. 8
      /\ z \in Squares => RNK(z) = RNK(x) + (1 * v) /\ FIL(z) = FIL(x) + (1 * h)
  BY <1>1, Steps
<1>3. RNK(x) \in 0 .. 9 /\ FIL(x) \in 0 .. 8 /\ RNK(y) \in 0 .. 9 /\ FIL(y) \in 0 .. 8
  BY Coordinates
<1>4. RNK(y) - RNK(x) = u /\ FIL(y) - FIL(x) = a
  BY DEF Up, Across
<1>5. u \in Int /\ a \in Int /\ Rules!Rows(P(x), P(y)) = u
  BY Geometry
<1>6. \/ v = 0 /\ h \in {1, 0 - 1} /\ a = 2 * h /\ u \in {1, 0 - 1}
      \/ h = 0 /\ v \in {1, 0 - 1} /\ u = 2 * v /\ a \in {1, 0 - 1}
  BY <1>5, LeapsAre
<1>7. P(x)[1] = FIL(x) /\ P(x)[2] = RNK(x) /\ P(y)[1] = FIL(y) /\ P(y)[2] = RNK(y)
  BY PointsAre
<1> HIDE DEF z, v, h, u, a
<1>8. 1 * v = v /\ 1 * h = h
  BY <1>1
<1>9. CASE v = 0 /\ h \in {1, 0 - 1} /\ a = 2 * h /\ u \in {1, 0 - 1}
  <2>1. FIL(x) + h \in 0 .. 8 /\ (FIL(x) + FIL(y)) \div 2 = FIL(x) + h
    BY <1>3, <1>4, <1>9, Middle
  <2>2. RNK(x) + v = RNK(x) /\ RNK(x) + v \in 0 .. 9
    BY <1>3, <1>9
  <2>3. z \in Squares /\ RNK(z) = RNK(x) /\ FIL(z) = FIL(x) + h
    BY <1>2, <1>8, <2>1, <2>2
  <2>4. Rules!Size(u) # 2
    BY <1>9 DEF Rules!Size
  <2>5. Rules!Leg(P(x), P(y)) = <<(FIL(x) + FIL(y)) \div 2, RNK(x)>>
    BY <1>5, <1>7, <2>4 DEF Rules!Leg
  <2> QED
    BY <2>1, <2>3, <2>5 DEF P, z
<1>10. CASE h = 0 /\ v \in {1, 0 - 1} /\ u = 2 * v /\ a \in {1, 0 - 1}
  <2>1. RNK(x) + v \in 0 .. 9 /\ (RNK(x) + RNK(y)) \div 2 = RNK(x) + v
    BY <1>3, <1>4, <1>10, Middle
  <2>2. FIL(x) + h = FIL(x) /\ FIL(x) + h \in 0 .. 8
    BY <1>3, <1>10
  <2>3. z \in Squares /\ RNK(z) = RNK(x) + v /\ FIL(z) = FIL(x)
    BY <1>2, <1>8, <2>1, <2>2
  <2>4. Rules!Size(u) = 2
    BY <1>10 DEF Rules!Size
  <2>5. Rules!Leg(P(x), P(y)) = <<FIL(x), (RNK(x) + RNK(y)) \div 2>>
    BY <1>5, <1>7, <2>4 DEF Rules!Leg
  <2> QED
    BY <2>1, <2>3, <2>5 DEF P, z
<1> QED
  BY <1>6, <1>9, <1>10

LEMMA LeapTo ==
  ASSUME NEW x \in Squares, NEW y \in Squares, NEW d \in Straight, NEW e \in Diagonal
  PROVE  Step(x, <<d[1] + e[1], d[2] + e[2]>>, 1) = y <=>
           Up(x, y) = d[1] + e[1] /\ Across(x, y) = d[2] + e[2]
<1>1. /\ d[1] \in Int /\ d[2] \in Int /\ e[1] \in Int /\ e[2] \in Int
  BY Directions
<1> DEFINE s == <<d[1] + e[1], d[2] + e[2]>>
<1>2. s \in Int \X Int /\ s[1] = d[1] + e[1] /\ s[2] = d[2] + e[2] /\ 1 * s[1] = s[1] /\ 1 * s[2] = s[2]
  BY <1>1
<1> HIDE DEF s
<1>3. Step(x, s, 1) = y <=> Up(x, y) = 1 * s[1] /\ Across(x, y) = 1 * s[2]
  BY <1>2, StepTo
<1>4. Step(x, s, 1) = y <=> Up(x, y) = d[1] + e[1] /\ Across(x, y) = d[2] + e[2]
  BY <1>2, <1>3
<1> QED
  BY <1>4 DEF s

LEMMA HorseAlike ==
  ASSUME NEW b, StateExact(b), NEW x \in Squares, NEW y \in Squares, NEW c \in Colors,
         color_at(b, x) = c, piece_at(b, x) = KNIGHT
  PROVE  y \in Attacks(b, x) <=> Rules!Reaches(Abstract(b).at, P(x), P(y))
<1>1. Abstract(b).at[P(x)] = Rules!Man(Side(c), "horse")
  BY StandsThere, Names, PieceNumbers
<1> DEFINE u == Up(x, y)
           a == Across(x, y)
<1>2. u \in Int /\ a \in Int /\ Rules!Shape(P(x), P(y)) = {Abs(u), Abs(a)}
  BY Geometry
<1>3. Rules!Reaches(Abstract(b).at, P(x), P(y)) <=>
        /\ Rules!Shape(P(x), P(y)) = {1, 2}
        /\ Abstract(b).at[Rules!Leg(P(x), P(y))] = Rules!Empty
  BY <1>1, ReachesIs
<1>4. {Abs(u), Abs(a)} = {1, 2} <=>
        (u \in {0 - 1, 1} /\ a \in {0 - 2, 2}) \/ (u \in {0 - 2, 2} /\ a \in {0 - 1, 1})
  BY <1>2, Shapes
<1> DEFINE Free(d) == Step(x, d, 1) # NO_SQUARE /\ ~Occupied(b, Step(x, d, 1))
<1>5. y \in Attacks(b, x) <=> \E d, e : Leaping(d, e, u, a) /\ Free(d)
  <2>1. y \in knight_attacks(b, x) <=>
          \E d \in Straight : /\ Free(d)
            /\ \E e \in Diagonal : /\ (e[1] * d[1]) + (e[2] * d[2]) = 1
                                   /\ Step(x, <<d[1] + e[1], d[2] + e[2]>>, 1) = y
    BY DEF knight_attacks
  <2>2. Attacks(b, x) = knight_attacks(b, x)
    BY AttacksAre
  <2> HIDE DEF Free
  <2>3. ASSUME NEW d \in Straight
        PROVE  (\E e \in Diagonal : /\ (e[1] * d[1]) + (e[2] * d[2]) = 1
                                    /\ Step(x, <<d[1] + e[1], d[2] + e[2]>>, 1) = y)
                 <=> \E e : Leaping(d, e, u, a)
    BY LeapTo DEF Leaping
  <2>4. \A d : (\E e : Leaping(d, e, u, a)) => d \in Straight
    BY DEF Leaping
  <2> HIDE DEF u, a
  <2> QED
    BY <2>1, <2>2, <2>3, <2>4
<1>6. \A d, e : Leaping(d, e, u, a) =>
        (Free(d) <=> Abstract(b).at[Rules!Leg(P(x), P(y))] = Rules!Empty)
  <2> SUFFICES ASSUME NEW d, NEW e, Leaping(d, e, u, a)
               PROVE  Free(d) <=> Abstract(b).at[Rules!Leg(P(x), P(y))] = Rules!Empty
    OBVIOUS
  <2>1. Step(x, d, 1) \in Squares /\ Rules!Leg(P(x), P(y)) = P(Step(x, d, 1))
    BY LegIs
  <2>2. Step(x, d, 1) # NO_SQUARE
    BY <2>1 DEF Squares, NO_SQUARE
  <2> QED
    BY <2>1, <2>2, EmptyThere
<1> HIDE DEF u, a, Free
<1>7. (\E d, e : Leaping(d, e, u, a)) <=>
        (u \in {0 - 1, 1} /\ a \in {0 - 2, 2}) \/ (u \in {0 - 2, 2} /\ a \in {0 - 1, 1})
  BY <1>2, LeapsAre
<1> DEFINE leap == \E d, e : Leaping(d, e, u, a)
           free == Abstract(b).at[Rules!Leg(P(x), P(y))] = Rules!Empty
<1>8. y \in Attacks(b, x) <=> leap /\ free
  BY <1>5, <1>6
<1>9. leap <=> Rules!Shape(P(x), P(y)) = {1, 2}
  BY <1>2, <1>4, <1>7
<1> HIDE DEF leap
<1> QED
  BY <1>3, <1>8, <1>9

-----------------------------------------------------------------------------
(***************************************************************************)
(* Lines: rooks and cannons, and the kings that face each other.            *)
(***************************************************************************)
\* The n-th square on a line.
Along(d, n, u, a) ==
  \/ d = <<0, 1>> /\ u = 0 /\ a = n
  \/ d = <<0, -1>> /\ u = 0 /\ a = 0 - n
  \/ d = <<1, 0>> /\ a = 0 /\ u = n
  \/ d = <<-1, 0>> /\ a = 0 /\ u = 0 - n

LEMMA StepAlong ==
  ASSUME NEW x \in Squares, NEW y \in Squares, NEW d \in Straight, NEW n \in Int
  PROVE  Step(x, d, n) = y <=> Along(d, n, Up(x, y), Across(x, y))
<1> DEFINE u == Up(x, y)
           a == Across(x, y)
<1>1. d \in Int \X Int /\ u \in Int /\ a \in Int
  BY Directions, Geometry
<1>2. Step(x, d, n) = y <=> u = n * d[1] /\ a = n * d[2]
  BY <1>1, StepTo
<1> HIDE DEF u, a
<1>3. n * 0 = 0 /\ n * 1 = n /\ n * (-1) = 0 - n
  OBVIOUS
<1>4. ASSUME d = <<0, 1>> PROVE Step(x, d, n) = y <=> Along(d, n, u, a)
  BY <1>2, <1>3, <1>4 DEF Along
<1>5. ASSUME d = <<0, -1>> PROVE Step(x, d, n) = y <=> Along(d, n, u, a)
  BY <1>2, <1>3, <1>5 DEF Along
<1>6. ASSUME d = <<1, 0>> PROVE Step(x, d, n) = y <=> Along(d, n, u, a)
  BY <1>2, <1>3, <1>6 DEF Along
<1>7. ASSUME d = <<-1, 0>> PROVE Step(x, d, n) = y <=> Along(d, n, u, a)
  BY <1>2, <1>3, <1>7 DEF Along
<1>8. Step(x, d, n) = y <=> Along(d, n, u, a)
  BY <1>4, <1>5, <1>6, <1>7 DEF Straight
<1> QED
  BY <1>8 DEF u, a

LEMMA LinesAre ==
  ASSUME NEW x \in Squares, NEW y \in Squares
  PROVE  Rules!InLine(P(x), P(y)) <=> \E d \in Straight, n \in 1 .. 9 : Step(x, d, n) = y
<1> DEFINE u == Up(x, y)
           a == Across(x, y)
<1>1. /\ u \in -9 .. 9 /\ a \in -8 .. 8
      /\ Rules!InLine(P(x), P(y)) <=> x # y /\ (u = 0 \/ a = 0)
      /\ x = y <=> u = 0 /\ a = 0
  BY Geometry
<1>2. \A d \in Straight, n \in 1 .. 9 : Step(x, d, n) = y <=> Along(d, n, u, a)
  BY StepAlong
<1> HIDE DEF u, a
<1>3. (\E d \in Straight, n \in 1 .. 9 : Along(d, n, u, a)) => ~(u = 0 /\ a = 0) /\ (u = 0 \/ a = 0)
  BY <1>1 DEF Along
<1>4. ASSUME u = 0, a # 0 PROVE \E d \in Straight, n \in 1 .. 9 : Along(d, n, u, a)
  <2>1. CASE a > 0
    <3>1. a \in 1 .. 9 /\ <<0, 1>> \in Straight /\ Along(<<0, 1>>, a, u, a)
      BY <1>1, <1>4, <2>1 DEF Along, Straight
    <3> QED
      BY <3>1
  <2>2. CASE a < 0
    <3>1. 0 - a \in 1 .. 9 /\ <<0, -1>> \in Straight /\ Along(<<0, -1>>, 0 - a, u, a)
      BY <1>1, <1>4, <2>2 DEF Along, Straight
    <3> QED
      BY <3>1
  <2> QED
    BY <1>1, <1>4, <2>1, <2>2
<1>5. ASSUME a = 0, u # 0 PROVE \E d \in Straight, n \in 1 .. 9 : Along(d, n, u, a)
  <2>1. CASE u > 0
    <3>1. u \in 1 .. 9 /\ <<1, 0>> \in Straight /\ Along(<<1, 0>>, u, u, a)
      BY <1>1, <1>5, <2>1 DEF Along, Straight
    <3> QED
      BY <3>1
  <2>2. CASE u < 0
    <3>1. 0 - u \in 1 .. 9 /\ <<-1, 0>> \in Straight /\ Along(<<-1, 0>>, 0 - u, u, a)
      BY <1>1, <1>5, <2>2 DEF Along, Straight
    <3> QED
      BY <3>1
  <2> QED
    BY <1>1, <1>5, <2>1, <2>2
<1> QED
  BY <1>1, <1>2, <1>3, <1>4, <1>5

\* What lies between the ends of a line: in numbers, and on the board.
PartOf(u, a, v, h, U, A) ==
  /\ ~(u = 0 /\ a = 0) /\ (u = 0 \/ a = 0)
  /\ ~(v = 0 /\ h = 0) /\ (v = 0 \/ h = 0)
  /\ Abs(u) + Abs(v) = Abs(U) /\ Abs(a) + Abs(h) = Abs(A)

LEMMA Sections ==
  ASSUME NEW d \in Straight, NEW n \in 1 .. 9, NEW u \in Int, NEW a \in Int, NEW v \in Int, NEW h \in Int,
         NEW U \in Int, NEW A \in Int, U = u + v, A = a + h, Along(d, n, U, A)
  PROVE  PartOf(u, a, v, h, U, A) <=> \E i \in 1 .. n - 1 : Along(d, i, u, a)
<1> DEFINE between == PartOf(u, a, v, h, U, A)
<1>1. CASE d = <<0, 1>>
  <2>1. u + v = 0 /\ a + h = n
    BY <1>1 DEF Along
  <2>2. between <=> u = 0 /\ a \in 1 .. n - 1
    BY <2>1 DEF PartOf, Abs
  <2>3. (\E i \in 1 .. n - 1 : Along(d, i, u, a)) <=> u = 0 /\ a \in 1 .. n - 1
    BY <1>1 DEF Along
  <2> QED
    BY <2>2, <2>3
<1>2. CASE d = <<0, -1>>
  <2>1. u + v = 0 /\ a + h = 0 - n
    BY <1>2 DEF Along
  <2>2. between <=> u = 0 /\ 0 - a \in 1 .. n - 1
    BY <2>1 DEF PartOf, Abs
  <2>3. (\E i \in 1 .. n - 1 : Along(d, i, u, a)) <=> u = 0 /\ 0 - a \in 1 .. n - 1
    BY <1>2 DEF Along
  <2> QED
    BY <2>2, <2>3
<1>3. CASE d = <<1, 0>>
  <2>1. a + h = 0 /\ u + v = n
    BY <1>3 DEF Along
  <2>2. between <=> a = 0 /\ u \in 1 .. n - 1
    BY <2>1 DEF PartOf, Abs
  <2>3. (\E i \in 1 .. n - 1 : Along(d, i, u, a)) <=> a = 0 /\ u \in 1 .. n - 1
    BY <1>3 DEF Along
  <2> QED
    BY <2>2, <2>3
<1>4. CASE d = <<-1, 0>>
  <2>1. a + h = 0 /\ u + v = 0 - n
    BY <1>4 DEF Along
  <2>2. between <=> a = 0 /\ 0 - u \in 1 .. n - 1
    BY <2>1 DEF PartOf, Abs
  <2>3. (\E i \in 1 .. n - 1 : Along(d, i, u, a)) <=> a = 0 /\ 0 - u \in 1 .. n - 1
    BY <1>4 DEF Along
  <2> QED
    BY <2>2, <2>3
<1> QED
  BY <1>1, <1>2, <1>3, <1>4 DEF Straight

\* The squares that a line passes.
Passed(x, y, d, n) ==
  /\ \A w \in Squares : P(w) \in Rules!Between(P(x), P(y)) <=>
       \E i \in 1 .. n - 1 : Step(x, d, i) = w
  /\ \A i \in 1 .. n - 1 : Step(x, d, i) \in Squares
  /\ \A i, j \in 1 .. n - 1 : Step(x, d, i) = Step(x, d, j) => i = j

LEMMA BetweenAre ==
  ASSUME NEW x \in Squares, NEW y \in Squares, NEW d \in Straight, NEW n \in 1 .. 9,
         Step(x, d, n) = y
  PROVE  Passed(x, y, d, n)
<1>1. Along(d, n, Up(x, y), Across(x, y))
  BY StepAlong
<1>2. ASSUME NEW w \in Squares
      PROVE  P(w) \in Rules!Between(P(x), P(y)) <=> \E i \in 1 .. n - 1 : Step(x, d, i) = w
  <2> DEFINE u == Up(x, w)
             a == Across(x, w)
             v == Up(w, y)
             h == Across(w, y)
  <2>1. u \in Int /\ a \in Int /\ v \in Int /\ h \in Int
    BY Geometry
  <2>2. Up(x, y) = u + v /\ Across(x, y) = a + h
    BY Coordinates DEF Up, Across
  <2>3. /\ Rules!InLine(P(x), P(w)) <=> ~(u = 0 /\ a = 0) /\ (u = 0 \/ a = 0)
        /\ Rules!InLine(P(w), P(y)) <=> ~(v = 0 /\ h = 0) /\ (v = 0 \/ h = 0)
    <3>1. /\ Rules!InLine(P(x), P(w)) <=> x # w /\ (u = 0 \/ a = 0)
          /\ x = w <=> u = 0 /\ a = 0
      BY Geometry
    <3>2. /\ Rules!InLine(P(w), P(y)) <=> w # y /\ (v = 0 \/ h = 0)
          /\ w = y <=> v = 0 /\ h = 0
      BY Geometry
    <3> QED
      BY <3>1, <3>2
  <2>4. /\ Rules!Rows(P(x), P(w)) = u /\ Rules!Rows(P(w), P(y)) = v
        /\ Rules!Cols(P(x), P(w)) = a /\ Rules!Cols(P(w), P(y)) = h
        /\ Rules!Rows(P(x), P(y)) = u + v /\ Rules!Cols(P(x), P(y)) = a + h
    BY <2>2, Geometry
  <2>5. \A k \in Int : Rules!Size(k) = Abs(k)
    BY DEF Rules!Size, Abs
  <2>6. P(w) \in Rules!Points
    BY PointsAre
  <2> HIDE DEF u, a, v, h
  <2>7. u + v \in Int /\ a + h \in Int
    BY <2>1
  <2>8. P(w) \in Rules!Between(P(x), P(y)) <=>
          /\ Rules!InLine(P(x), P(w)) /\ Rules!InLine(P(w), P(y))
          /\ Abs(u) + Abs(v) = Abs(u + v) /\ Abs(a) + Abs(h) = Abs(a + h)
    BY <2>1, <2>4, <2>5, <2>6, <2>7 DEF Rules!Between
  <2>9. P(w) \in Rules!Between(P(x), P(y)) <=> \E i \in 1 .. n - 1 : Along(d, i, u, a)
    <3> DEFINE U == u + v
               A == a + h
    <3>1. Along(d, n, U, A) /\ U \in Int /\ A \in Int /\ U = u + v /\ A = a + h
      BY <1>1, <2>2, <2>7
    <3>2. P(w) \in Rules!Between(P(x), P(y)) <=> PartOf(u, a, v, h, U, A)
      BY <2>3, <2>8 DEF PartOf
    <3> HIDE DEF U, A
    <3>3. PartOf(u, a, v, h, U, A) <=> \E i \in 1 .. n - 1 : Along(d, i, u, a)
      BY <2>1, <3>1, Sections
    <3> QED
      BY <3>2, <3>3
  <2>10. \A i \in 1 .. n - 1 : Step(x, d, i) = w <=> Along(d, i, u, a)
    BY StepAlong DEF u, a
  <2> QED
    BY <2>9, <2>10
<1>3. ASSUME NEW i \in 1 .. n - 1 PROVE Step(x, d, i) \in Squares
  <2>1. /\ RNK(x) \in 0 .. 9 /\ FIL(x) \in 0 .. 8 /\ RNK(y) \in 0 .. 9 /\ FIL(y) \in 0 .. 8
    BY Coordinates
  <2> DEFINE r == RNK(x) + (i * d[1])
             f == FIL(x) + (i * d[2])
  <2>2. Step(x, d, i) \in Squares <=> r \in 0 .. 9 /\ f \in 0 .. 8
    BY Directions, Steps
  <2>3. i * 0 = 0 /\ i * 1 = i /\ i * (-1) = 0 - i
    OBVIOUS
  <2>4. RNK(y) - RNK(x) = Up(x, y) /\ FIL(y) - FIL(x) = Across(x, y)
    BY DEF Up, Across
  <2>5. CASE d = <<0, 1>>
    <3>1. r = RNK(x) + 0 /\ f = FIL(x) + i
      BY <2>3, <2>5
    <3>2. Up(x, y) = 0 /\ Across(x, y) = n
      BY <1>1, <2>5 DEF Along
    <3> HIDE DEF r, f
    <3> QED
      BY <2>1, <2>2, <2>4, <3>1, <3>2
  <2>6. CASE d = <<0, -1>>
    <3>1. r = RNK(x) + 0 /\ f = FIL(x) + (0 - i)
      BY <2>3, <2>6
    <3>2. Up(x, y) = 0 /\ Across(x, y) = 0 - n
      BY <1>1, <2>6 DEF Along
    <3> HIDE DEF r, f
    <3> QED
      BY <2>1, <2>2, <2>4, <3>1, <3>2
  <2>7. CASE d = <<1, 0>>
    <3>1. r = RNK(x) + i /\ f = FIL(x) + 0
      BY <2>3, <2>7
    <3>2. Across(x, y) = 0 /\ Up(x, y) = n
      BY <1>1, <2>7 DEF Along
    <3> HIDE DEF r, f
    <3> QED
      BY <2>1, <2>2, <2>4, <3>1, <3>2
  <2>8. CASE d = <<-1, 0>>
    <3>1. r = RNK(x) + (0 - i) /\ f = FIL(x) + 0
      BY <2>3, <2>8
    <3>2. Across(x, y) = 0 /\ Up(x, y) = 0 - n
      BY <1>1, <2>8 DEF Along
    <3> HIDE DEF r, f
    <3> QED
      BY <2>1, <2>2, <2>4, <3>1, <3>2
  <2> HIDE DEF r, f
  <2> QED
    BY <2>5, <2>6, <2>7, <2>8 DEF Straight
<1>4. ASSUME NEW i \in 1 .. n - 1, NEW j \in 1 .. n - 1, Step(x, d, i) = Step(x, d, j)
      PROVE  i = j
  <2> DEFINE w == Step(x, d, i)
  <2>1. w \in Squares /\ Step(x, d, j) = w
    BY <1>3, <1>4
  <2> HIDE DEF w
  <2>2. Step(x, d, i) = w
    BY DEF w
  <2>3. Along(d, i, Up(x, w), Across(x, w)) /\ Along(d, j, Up(x, w), Across(x, w))
    BY <2>1, <2>2, StepAlong
  <2>4. \A u, a : Along(d, i, u, a) /\ Along(d, j, u, a) => i = j
    BY DEF Along
  <2> QED
    BY <2>3, <2>4
<1> QED
  BY <1>2, <1>3, <1>4 DEF Passed

\* The rules count as the program does.
LEMMA SameCount == ASSUME NEW S PROVE Rules!Cardinality(S) = Cardinality(S)
BY DEF Cardinality, Rules!Cardinality

LEMMA ScreensAre ==
  ASSUME NEW b, StateExact(b), NEW x \in Squares, NEW y \in Squares, NEW d \in Straight, NEW n \in 1 .. 9,
         Step(x, d, n) = y
  PROVE  /\ Rules!MenBetween(Abstract(b).at, P(x), P(y)) = Screens(b, x, d, n)
         /\ Screens(b, x, d, n) = 0 <=> \A i \in 1 .. n - 1 : ~Occupied(b, Step(x, d, i))
<1>1. /\ \A w \in Squares : P(w) \in Rules!Between(P(x), P(y)) <=>
              \E i \in 1 .. n - 1 : Step(x, d, i) = w
      /\ \A i \in 1 .. n - 1 : Step(x, d, i) \in Squares
      /\ \A i, j \in 1 .. n - 1 : Step(x, d, i) = Step(x, d, j) => i = j
  <2>1. Passed(x, y, d, n)
    BY BetweenAre
  <2> QED
    BY <2>1 DEF Passed
<1> DEFINE S == {i \in 1 .. n - 1 : Occupied(b, Step(x, d, i))}
           at == Abstract(b).at
           T == {u \in Rules!Between(P(x), P(y)) : at[u] # Rules!Empty}
           F == [i \in S |-> P(Step(x, d, i))]
<1>2. \A w \in Squares : at[P(w)] = Rules!Empty <=> ~Occupied(b, w)
  BY EmptyThere
<1>3. /\ Rules!MenBetween(at, P(x), P(y)) = Cardinality(T)
      /\ Screens(b, x, d, n) = Cardinality(S)
  BY SameCount DEF Rules!MenBetween, Screens
<1>4. IsFiniteSet(S)
  <2>1. IsFiniteSet(1 .. n - 1)
    BY FS_Interval
  <2> QED
    BY <2>1, FS_Subset
<1>5. Rules!Between(P(x), P(y)) \subseteq Rules!Points
  BY DEF Rules!Between
<1> HIDE DEF at
<1>6. F \in Bijection(S, T)
  <2>1. \A i \in S : F[i] \in T
    BY <1>1, <1>2
  <2>2. \A i, j \in S : F[i] = F[j] => i = j
    BY <1>1, PointsAre
  <2>3. ASSUME NEW t \in T PROVE \E i \in S : F[i] = t
    <3>1. PICK w \in Squares : t = P(w)
      BY <1>5, PointsAre
    <3>2. PICK i \in 1 .. n - 1 : Step(x, d, i) = w
      BY <1>1, <3>1
    <3>3. Occupied(b, w)
      BY <1>2, <3>1
    <3> QED
      BY <3>1, <3>2, <3>3
  <2> HIDE DEF S, T
  <2>4. F \in [S -> T]
    BY <2>1
  <2> HIDE DEF F
  <2> QED
    BY <2>1, <2>2, <2>3, <2>4 DEF Bijection, Injection, Surjection, IsInjective
<1>7. Cardinality(T) = Cardinality(S)
  <2>1. ExistsBijection(S, T)
    BY <1>6 DEF ExistsBijection
  <2> HIDE DEF S, T
  <2> QED
    BY <1>4, <2>1, FS_Bijection
<1>8. Cardinality(S) = 0 <=> \A i \in 1 .. n - 1 : ~Occupied(b, Step(x, d, i))
  BY <1>4, FS_EmptySet
<1> QED
  BY <1>3, <1>7, <1>8 DEF at

LEMMA ReachIs ==
  ASSUME NEW x \in Squares, NEW y \in Squares
  PROVE  /\ \A l \in Reach(x) : /\ l[1] \in Straight /\ l[2] \in 1 .. 9
         /\ \A d \in Straight, n \in 1 .. 9 : Step(x, d, n) = y => <<d, n>> \in Reach(x)
<1>1. \A l \in Reach(x) : l[1] \in Straight /\ l[2] \in 1 .. 9
  BY DEF Reach
<1>2. NO_SQUARE \notin Squares
  BY DEF NO_SQUARE, Squares
<1>3. ASSUME NEW d \in Straight, NEW n \in 1 .. 9, Step(x, d, n) = y PROVE <<d, n>> \in Reach(x)
  <2>1. <<d, n>> \in Straight \X (1 .. 9) /\ <<d, n>>[1] = d /\ <<d, n>>[2] = n
    OBVIOUS
  <2>2. Step(x, d, n) # NO_SQUARE
    BY <1>2, <1>3
  <2> QED
    BY <2>1, <2>2 DEF Reach
<1> QED
  BY <1>1, <1>3

LEMMA ChariotAlike ==
  ASSUME NEW b, StateExact(b), NEW x \in Squares, NEW y \in Squares, NEW c \in Colors,
         color_at(b, x) = c, piece_at(b, x) = ROOK
  PROVE  y \in Attacks(b, x) <=> Rules!Reaches(Abstract(b).at, P(x), P(y))
<1> DEFINE between == Rules!MenBetween(Abstract(b).at, P(x), P(y))
<1>1. Abstract(b).at[P(x)] = Rules!Man(Side(c), "chariot")
  BY StandsThere, Names, PieceNumbers
<1>2. Rules!Reaches(Abstract(b).at, P(x), P(y)) <=> Rules!InLine(P(x), P(y)) /\ between = 0
  BY <1>1, ReachesIs
<1>3. y \in Attacks(b, x) <=>
        \E l \in Reach(x) : Screens(b, x, l[1], l[2]) = 0 /\ Step(x, l[1], l[2]) = y
  BY AttacksAre DEF rook_attacks
<1> HIDE DEF between
<1>4. \A d \in Straight, n \in 1 .. 9 : Step(x, d, n) = y => Screens(b, x, d, n) = between
  BY ScreensAre DEF between
<1>5. ASSUME y \in Attacks(b, x) PROVE Rules!InLine(P(x), P(y)) /\ between = 0
  <2>1. PICK l \in Reach(x) : Screens(b, x, l[1], l[2]) = 0 /\ Step(x, l[1], l[2]) = y
    BY <1>3, <1>5
  <2>2. l[1] \in Straight /\ l[2] \in 1 .. 9
    BY ReachIs
  <2> QED
    BY <1>4, <2>1, <2>2, LinesAre
<1>6. ASSUME Rules!InLine(P(x), P(y)), between = 0 PROVE y \in Attacks(b, x)
  <2>1. PICK d \in Straight, n \in 1 .. 9 : Step(x, d, n) = y
    BY <1>6, LinesAre
  <2> DEFINE l == <<d, n>>
  <2>2. l \in Reach(x)
    BY <2>1, ReachIs
  <2>3. l[1] = d /\ l[2] = n
    OBVIOUS
  <2> HIDE DEF l
  <2>4. Screens(b, x, l[1], l[2]) = 0 /\ Step(x, l[1], l[2]) = y
    BY <1>4, <1>6, <2>1, <2>3
  <2> QED
    BY <1>3, <2>2, <2>4
<1> QED
  BY <1>2, <1>5, <1>6

LEMMA CannonAlike ==
  ASSUME NEW b, StateExact(b), NEW x \in Squares, NEW y \in Squares, NEW c \in Colors,
         color_at(b, x) = c, piece_at(b, x) = CANNON, color_at(b, y) # c
  PROVE  y \in Attacks(b, x) <=> Rules!Reaches(Abstract(b).at, P(x), P(y))
<1> DEFINE between == Rules!MenBetween(Abstract(b).at, P(x), P(y))
           Fits(k) == (k = 0 /\ ~Occupied(b, y)) \/ (k = 1 /\ color_at(b, y) = XSIDE(c))
<1>1. Abstract(b).at[P(x)] = Rules!Man(Side(c), "cannon")
  BY StandsThere, Names, PieceNumbers
<1>2. Rules!Reaches(Abstract(b).at, P(x), P(y)) <=>
        Rules!InLine(P(x), P(y)) /\ between = IF Abstract(b).at[P(y)] = Rules!Empty THEN 0 ELSE 1
  BY <1>1, ReachesIs
<1>3. y \in Attacks(b, x) <=>
        \E l \in Reach(x) : Fits(Screens(b, x, l[1], l[2])) /\ Step(x, l[1], l[2]) = y
  BY AttacksAre DEF cannon_attacks
<1>4. between = (IF Abstract(b).at[P(y)] = Rules!Empty THEN 0 ELSE 1) <=> Fits(between)
  <2>1. Abstract(b).at[P(y)] = Rules!Empty <=> ~Occupied(b, y)
    BY EmptyThere
  <2>2. Occupied(b, y) => color_at(b, y) = XSIDE(c)
    <3>1. Occupied(b, y) => color_at(b, y) \in Colors
      BY MenOn
    <3> QED
      BY <3>1, Numbers
  <2>3. color_at(b, y) = XSIDE(c) => Occupied(b, y)
    BY Numbers DEF Occupied
  <2> HIDE DEF between
  <2> QED
    BY <2>1, <2>2, <2>3
<1> HIDE DEF between, Fits
<1>5. \A d \in Straight, n \in 1 .. 9 : Step(x, d, n) = y => Screens(b, x, d, n) = between
  BY ScreensAre DEF between
<1>6. ASSUME y \in Attacks(b, x) PROVE Rules!InLine(P(x), P(y)) /\ Fits(between)
  <2>1. PICK l \in Reach(x) : Fits(Screens(b, x, l[1], l[2])) /\ Step(x, l[1], l[2]) = y
    BY <1>3, <1>6
  <2>2. l[1] \in Straight /\ l[2] \in 1 .. 9
    BY ReachIs
  <2> QED
    BY <1>5, <2>1, <2>2, LinesAre
<1>7. ASSUME Rules!InLine(P(x), P(y)), Fits(between) PROVE y \in Attacks(b, x)
  <2>1. PICK d \in Straight, n \in 1 .. 9 : Step(x, d, n) = y
    BY <1>7, LinesAre
  <2> DEFINE l == <<d, n>>
  <2>2. l \in Reach(x)
    BY <2>1, ReachIs
  <2>3. l[1] = d /\ l[2] = n
    OBVIOUS
  <2> HIDE DEF l
  <2>4. Fits(Screens(b, x, l[1], l[2])) /\ Step(x, l[1], l[2]) = y
    BY <1>5, <1>7, <2>1, <2>3
  <2> QED
    BY <1>3, <2>2, <2>4
<1> QED
  BY <1>2, <1>4, <1>6, <1>7

-----------------------------------------------------------------------------
(***************************************************************************)
(* The program tells a check as the rules do.                               *)
(***************************************************************************)
\* Men stand where their moves can bring them.
Stationed(b) ==
  \A x \in Squares : Occupied(b, x) =>
    P(x) \in Rules!Stations(Side(color_at(b, x)), Kind[piece_at(b, x) + 1])

LEMMA StationsAre ==
  ASSUME NEW s, NEW c
  PROVE  /\ s \in Rules!Stations(c, "general") <=> s \in Rules!Palace(c)
         /\ s \in Rules!Stations(c, "advisor") <=>
              s \in Rules!Palace(c) /\ (s[1] + Rules!Depth(c, s)) % 2 = 1
         /\ s \in Rules!Stations(c, "elephant") <=>
              /\ s \in Rules!Home(c) /\ s[1] % 2 = 0 /\ Rules!Depth(c, s) % 2 = 0
              /\ ((s[1] \div 2) + (Rules!Depth(c, s) \div 2)) % 2 = 1
         /\ s \in Rules!Stations(c, "soldier") <=>
              /\ s \in Rules!Points
              /\ Rules!Depth(c, s) >= 5 \/ (Rules!Depth(c, s) \in 3 .. 4 /\ s[1] % 2 = 0)
         /\ \A k \in {"horse", "cannon", "chariot"} : Rules!Stations(c, k) = Rules!Points
BY DEF Rules!Stations

LEMMA KingsThere ==
  ASSUME NEW b, StateExact(b), Stationed(b), NEW c \in Colors
  PROVE  /\ b.king[c] \in Squares /\ color_at(b, b.king[c]) = c /\ piece_at(b, b.king[c]) = KING
         /\ P(b.king[c]) \in Rules!Palace(Side(c)) /\ Deep(c, b.king[c]) <= 2
         /\ Abstract(b).at[P(b.king[c])] = Rules!Man(Side(c), "general")
<1> DEFINE g == b.king[c]
<1>1. g \in Squares
  BY MenOn, Numbers
<1>2. color_at(b, g) = c /\ piece_at(b, g) = KING
  BY <1>1, MenOn
<1>3. Occupied(b, g) /\ KING \in Pieces
  BY <1>1, <1>2, MenOn
<1>4. P(g) \in Rules!Stations(Side(c), "general")
  BY <1>1, <1>2, <1>3, Names DEF Stationed
<1>5. P(g) \in Rules!Palace(Side(c)) /\ Deep(c, g) <= 2
  BY <1>1, <1>4, StationsAre, Geometry
<1>6. Abstract(b).at[P(g)] = Rules!Man(Side(c), "general")
  BY <1>1, <1>2, <1>3, StandsThere, Names
<1> QED
  BY <1>1, <1>2, <1>5, <1>6

LEMMA Alike ==
  ASSUME NEW b, StateExact(b), Stationed(b), NEW x \in Squares, NEW y \in Squares,
         color_at(b, x) \in Colors, color_at(b, y) # color_at(b, x)
  PROVE  Rules!Reaches(Abstract(b).at, P(x), P(y)) <=>
           y \in Attacks(b, x) \/ (piece_at(b, x) = KING /\ Facing(b, x, y))
<1> DEFINE c == color_at(b, x)
           p == piece_at(b, x)
<1>1. p \in Pieces /\ Occupied(b, x)
  BY MenOn
<1>2. P(x) \in Rules!Stations(Side(c), Kind[p + 1])
  BY <1>1 DEF Stationed
<1>3. \A q \in {PAWN, GUARD, ELEPHANT, KNIGHT, CANNON, ROOK} : q # KING
  BY DEF PAWN, GUARD, ELEPHANT, KNIGHT, CANNON, ROOK, KING
<1>4. CASE p = PAWN
  BY <1>3, <1>4, SoldierAlike
<1>5. CASE p = GUARD
  <2>1. P(x) \in Rules!Palace(Side(c))
    BY <1>2, <1>5, Names, StationsAre
  <2> QED
    BY <1>3, <1>5, <2>1, AdvisorAlike
<1>6. CASE p = ELEPHANT
  <2>1. P(x) \in Rules!Home(Side(c))
    BY <1>2, <1>6, Names, StationsAre
  <2> QED
    BY <1>3, <1>6, <2>1, ElephantAlike
<1>7. CASE p = KNIGHT
  BY <1>3, <1>7, HorseAlike
<1>8. CASE p = CANNON
  BY <1>3, <1>8, CannonAlike
<1>9. CASE p = ROOK
  BY <1>3, <1>9, ChariotAlike
<1>10. CASE p = KING
  <2>1. P(x) \in Rules!Palace(Side(c))
    BY <1>2, <1>10, Names, StationsAre
  <2> QED
    BY <1>10, <2>1, GeneralAlike
<1> QED
  BY <1>1, <1>4, <1>5, <1>6, <1>7, <1>8, <1>9, <1>10, PieceNumbers

LEMMA Ranks ==
  ASSUME NEW x \in Squares, NEW i \in Int
  PROVE  /\ RNK(x) + i \in 0 .. 9 => Step(x, <<1, 0>>, i) = SQUARE(RNK(x) + i, FIL(x))
         /\ RNK(x) - i \in 0 .. 9 => Step(x, <<-1, 0>>, i) = SQUARE(RNK(x) - i, FIL(x))
<1>1. i * 1 = i /\ i * 0 = 0 /\ i * (-1) = 0 - i
  OBVIOUS
<1>2. RNK(x) \in 0 .. 9 /\ FIL(x) \in 0 .. 8
  BY Coordinates
<1>3. FIL(x) + 0 = FIL(x) /\ RNK(x) + (0 - i) = RNK(x) - i
  BY <1>2
<1>4. /\ Step(x, <<1, 0>>, i) = IF RNK(x) + i \in 0 .. 9 /\ FIL(x) + 0 \in 0 .. 8
                                THEN SQUARE(RNK(x) + i, FIL(x) + 0) ELSE NO_SQUARE
      /\ Step(x, <<-1, 0>>, i) = IF RNK(x) + (0 - i) \in 0 .. 9 /\ FIL(x) + 0 \in 0 .. 8
                                 THEN SQUARE(RNK(x) + (0 - i), FIL(x) + 0) ELSE NO_SQUARE
  BY <1>1 DEF Step
<1> QED
  BY <1>2, <1>3, <1>4

LEMMA FacingIs ==
  ASSUME NEW b, StateExact(b), Stationed(b), NEW c \in Colors
  PROVE  Facing(b, b.king[c], b.king[XSIDE(c)]) <=> kings_facing(b)
<1> DEFINE w == b.king[WHITE]
           k == b.king[BLACK]
           at == Abstract(b).at
<1>1. /\ w \in Squares /\ color_at(b, w) = WHITE /\ at[P(w)] = Rules!Man(Side(WHITE), "general")
      /\ k \in Squares /\ color_at(b, k) = BLACK /\ at[P(k)] = Rules!Man(Side(BLACK), "general")
      /\ Deep(WHITE, w) <= 2 /\ Deep(BLACK, k) <= 2
  BY KingsThere, Numbers
<1>2. /\ Rules!Other(Side(WHITE)) = Side(BLACK) /\ Rules!Other(Side(BLACK)) = Side(WHITE)
  BY Names DEF Rules!Other
<1>3. RNK(w) \in 0 .. 2 /\ RNK(k) \in 7 .. 9 /\ FIL(w) \in 0 .. 8 /\ FIL(k) \in 0 .. 8
  <2>1. RNK(w) \in 0 .. 9 /\ RNK(k) \in 0 .. 9 /\ FIL(w) \in 0 .. 8 /\ FIL(k) \in 0 .. 8
    BY <1>1, Coordinates
  <2>2. Deep(WHITE, w) = RNK(w) /\ Deep(BLACK, k) = 9 - RNK(k)
    BY Numbers DEF Deep
  <2> HIDE DEF w, k
  <2> QED
    BY <1>1, <2>1, <2>2
<1> DEFINE open == \A r \in RNK(w) + 1 .. RNK(k) - 1 : ~Occupied(b, SQUARE(r, FIL(w)))
           n == RNK(k) - RNK(w)
<1>4. kings_facing(b) <=> FIL(w) = FIL(k) /\ open
  BY DEF kings_facing
<1>5. /\ Facing(b, w, k) <=> Across(w, k) = 0 /\ Rules!MenBetween(at, P(w), P(k)) = 0
      /\ Facing(b, k, w) <=> Across(k, w) = 0 /\ Rules!MenBetween(at, P(k), P(w)) = 0
  BY <1>1, <1>2 DEF Facing
<1>6. /\ Across(w, k) = 0 <=> FIL(w) = FIL(k)
      /\ Across(k, w) = 0 <=> FIL(w) = FIL(k)
      /\ Up(w, k) = n /\ Up(k, w) = 0 - n /\ n \in 1 .. 9
  BY <1>3 DEF Across, Up
<1> HIDE DEF at, w, k
<1>7. ASSUME FIL(w) = FIL(k) PROVE Rules!MenBetween(at, P(w), P(k)) = 0 <=> open
  <2> DEFINE d == <<1, 0>>
  <2>1. d \in Straight /\ Along(d, n, Up(w, k), Across(w, k))
    BY <1>6, <1>7 DEF Straight, Along
  <2> HIDE DEF d
  <2>2. Step(w, d, n) = k
    BY <1>1, <1>6, <2>1, StepAlong
  <2>3. Rules!MenBetween(at, P(w), P(k)) = 0 <=> \A i \in 1 .. n - 1 : ~Occupied(b, Step(w, d, i))
    BY <1>1, <1>6, <2>1, <2>2, ScreensAre DEF at
  <2>4. \A i \in 1 .. n - 1 : Step(w, d, i) = SQUARE(RNK(w) + i, FIL(w))
    <3> SUFFICES ASSUME NEW i \in 1 .. n - 1 PROVE Step(w, d, i) = SQUARE(RNK(w) + i, FIL(w))
      OBVIOUS
    <3>1. RNK(w) + i \in 0 .. 9 /\ i \in Int
      BY <1>3
    <3> QED
      BY <1>1, <3>1, Ranks DEF d
  <2>5. (\A i \in 1 .. n - 1 : ~Occupied(b, SQUARE(RNK(w) + i, FIL(w)))) <=> open
    <3>1. \A i \in 1 .. n - 1 : RNK(w) + i \in RNK(w) + 1 .. RNK(k) - 1
      BY <1>3
    <3>2. \A r \in RNK(w) + 1 .. RNK(k) - 1 : r - RNK(w) \in 1 .. n - 1 /\ RNK(w) + (r - RNK(w)) = r
      BY <1>3
    <3> QED
      BY <3>1, <3>2
  <2> QED
    BY <2>3, <2>4, <2>5
<1>8. ASSUME FIL(w) = FIL(k) PROVE Rules!MenBetween(at, P(k), P(w)) = 0 <=> open
  <2> DEFINE d == <<-1, 0>>
  <2>1. d \in Straight /\ Along(d, n, Up(k, w), Across(k, w))
    BY <1>6, <1>8 DEF Straight, Along
  <2> HIDE DEF d
  <2>2. Step(k, d, n) = w
    BY <1>1, <1>6, <2>1, StepAlong
  <2>3. Rules!MenBetween(at, P(k), P(w)) = 0 <=> \A i \in 1 .. n - 1 : ~Occupied(b, Step(k, d, i))
    BY <1>1, <1>6, <2>1, <2>2, ScreensAre DEF at
  <2>4. \A i \in 1 .. n - 1 : Step(k, d, i) = SQUARE(RNK(k) - i, FIL(w))
    <3> SUFFICES ASSUME NEW i \in 1 .. n - 1 PROVE Step(k, d, i) = SQUARE(RNK(k) - i, FIL(k))
      BY <1>8
    <3>1. RNK(k) - i \in 0 .. 9 /\ i \in Int
      BY <1>3
    <3> QED
      BY <1>1, <3>1, Ranks DEF d
  <2>5. (\A i \in 1 .. n - 1 : ~Occupied(b, SQUARE(RNK(k) - i, FIL(w)))) <=> open
    <3>1. \A i \in 1 .. n - 1 : RNK(k) - i \in RNK(w) + 1 .. RNK(k) - 1
      BY <1>3
    <3>2. \A r \in RNK(w) + 1 .. RNK(k) - 1 : RNK(k) - r \in 1 .. n - 1 /\ RNK(k) - (RNK(k) - r) = r
      BY <1>3
    <3> QED
      BY <3>1, <3>2
  <2> QED
    BY <2>3, <2>4, <2>5
<1> HIDE DEF open
<1>9. /\ Facing(b, w, k) <=> kings_facing(b)
      /\ Facing(b, k, w) <=> kings_facing(b)
  BY <1>4, <1>5, <1>6, <1>7, <1>8
<1>10. CASE c = WHITE
  <2>1. XSIDE(c) = BLACK
    BY <1>10, Numbers DEF XSIDE
  <2> QED
    BY <1>9, <1>10, <2>1 DEF w, k
<1>11. CASE c = BLACK
  <2>1. XSIDE(c) = WHITE
    BY <1>11, Numbers DEF XSIDE
  <2> QED
    BY <1>9, <1>11, <2>1 DEF w, k
<1> QED
  BY <1>10, <1>11 DEF Colors

\* Every attack on a square that is not the side's own is generated.
TheMove(b, x, y) ==
  IF Occupied(b, y) THEN Capture(x, y, piece_at(b, x), piece_at(b, y))
  ELSE Normal(x, y, piece_at(b, x))

LEMMA AllGenerated ==
  ASSUME NEW b, StateExact(b), NEW x \in Squares, NEW y \in Squares, color_at(b, x) = b.side,
         y \in Attacks(b, x), color_at(b, y) # b.side
  PROVE  TheMove(b, x, y) \in generate_moves(b) /\ TheMove(b, x, y).from = x /\ TheMove(b, x, y).to = y
<1>1. color_at(b, y) \in Colors \cup {NO_COLOR} /\ b.side \in Colors
  BY MenOn
<1>2. CASE Occupied(b, y)
  <2>1. color_at(b, y) = XSIDE(b.side)
    BY <1>1, <1>2, Numbers DEF Occupied
  <2>2. Capture(x, y, piece_at(b, x), piece_at(b, y)) \in generate_captures(b)
    BY <2>1 DEF generate_captures
  <2> QED
    BY <1>2, <2>2 DEF TheMove, generate_moves, Capture, Move
<1>3. CASE ~Occupied(b, y)
  <2>1. Normal(x, y, piece_at(b, x)) \in generate_noncaptures(b)
    BY <1>3 DEF generate_noncaptures
  <2> QED
    BY <1>3, <2>1 DEF TheMove, generate_moves, Normal, Move
<1> QED
  BY <1>2, <1>3

LEMMA CheckIs ==
  ASSUME NEW b, StateExact(b), Stationed(b)
  PROVE  LET c == XSIDE(b.side)
         IN  Rules!InCheck(Abstract(b).at, Side(c)) <=>
               kings_facing(b) \/ \E m \in generate_moves(b) : m.to = b.king[c]
<1> DEFINE c == XSIDE(b.side)
           d == b.side
           g == b.king[c]
           at == Abstract(b).at
<1>1. c \in Colors /\ d \in Colors /\ c # d /\ XSIDE(d) = c
  BY MenOn, Numbers
<1> HIDE DEF c, d
<1>2. /\ g \in Squares /\ color_at(b, g) = c /\ at[P(g)] = Rules!Man(Side(c), "general")
      /\ b.king[d] \in Squares /\ color_at(b, b.king[d]) = d /\ piece_at(b, b.king[d]) = KING
  BY <1>1, KingsThere
<1>3. \A x \in Squares : at[P(x)] = Rules!Man(Side(c), "general") => x = g
  <2> SUFFICES ASSUME NEW x \in Squares, at[P(x)] = Rules!Man(Side(c), "general") PROVE x = g
    OBVIOUS
  <2>1. Rules!Man(Side(c), "general") # Rules!Empty
    BY DEF Rules!Man, Rules!Empty
  <2>2. Occupied(b, x)
    BY <2>1, EmptyThere
  <2>3. color_at(b, x) \in Colors /\ piece_at(b, x) \in Pieces
    BY <2>2, MenOn
  <2>4. at[P(x)] = Rules!Man(Side(color_at(b, x)), Kind[piece_at(b, x) + 1])
    BY <2>2, ManThere
  <2>5. Side(color_at(b, x)) = Side(c) /\ Kind[piece_at(b, x) + 1] = "general"
    BY <2>4 DEF Rules!Man
  <2>6. color_at(b, x) = c /\ piece_at(b, x) = KING
    BY <1>1, <2>3, <2>5, Names
  <2> QED
    BY <1>1, <2>6, MenOn
<1>4. Rules!General(at, Side(c)) = P(g)
  <2>1. \A s \in Rules!Points : at[s] = Rules!Man(Side(c), "general") <=> s = P(g)
    BY <1>2, <1>3, PointsAre
  <2>2. P(g) \in Rules!Points
    BY <1>2, PointsAre
  <2> HIDE DEF at, g
  <2> QED
    BY <2>1, <2>2 DEF Rules!General
<1>5. Rules!Other(Side(c)) = Side(d)
  BY <1>1, Names, Numbers DEF c, d
<1>6. \A x \in Squares : at[P(x)].side = Side(d) <=> color_at(b, x) = d
  <2> SUFFICES ASSUME NEW x \in Squares PROVE at[P(x)].side = Side(d) <=> color_at(b, x) = d
    OBVIOUS
  <2>1. CASE Occupied(b, x)
    <3>1. at[P(x)] = Rules!Man(Side(color_at(b, x)), Kind[piece_at(b, x) + 1])
      BY <2>1, ManThere
    <3>2. color_at(b, x) \in Colors
      BY <2>1, MenOn
    <3> QED
      BY <1>1, <3>1, <3>2, Names DEF Rules!Man
  <2>2. CASE ~Occupied(b, x)
    <3>1. at[P(x)] = Rules!Empty /\ color_at(b, x) \notin Colors
      BY <2>2, ManThere, MenOn
    <3> QED
      BY <1>1, <3>1, Names DEF Rules!Empty, Rules!Man
  <2> QED
    BY <2>1, <2>2
<1> HIDE DEF at
<1>7. Rules!InCheck(at, Side(c)) <=>
        \E x \in Squares : color_at(b, x) = d /\ Rules!Reaches(at, P(x), P(g))
  <2>1. \A s : s \in Rules!Of(at, Side(d)) <=> s \in Rules!Points /\ at[s].side = Side(d)
    BY DEF Rules!Of
  <2>2. Rules!InCheck(at, Side(c)) <=> \E s \in Rules!Of(at, Side(d)) : Rules!Reaches(at, s, P(g))
    BY <1>4, <1>5 DEF Rules!InCheck
  <2> HIDE DEF g
  <2>3. ASSUME NEW s \in Rules!Of(at, Side(d)), Rules!Reaches(at, s, P(g))
        PROVE  \E x \in Squares : color_at(b, x) = d /\ Rules!Reaches(at, P(x), P(g))
    <3>1. PICK x \in Squares : s = P(x)
      BY <2>1, <2>3, PointsAre
    <3> QED
      BY <1>6, <2>1, <2>3, <3>1
  <2>4. ASSUME NEW x \in Squares, color_at(b, x) = d, Rules!Reaches(at, P(x), P(g))
        PROVE  \E s \in Rules!Of(at, Side(d)) : Rules!Reaches(at, s, P(g))
    <3>1. P(x) \in Rules!Of(at, Side(d))
      BY <1>6, <2>1, <2>4, PointsAre
    <3> QED
      BY <2>4, <3>1
  <2> QED
    BY <2>2, <2>3, <2>4
<1>8. \A x \in Squares : color_at(b, x) = d =>
        (Rules!Reaches(at, P(x), P(g)) <=>
           g \in Attacks(b, x) \/ (piece_at(b, x) = KING /\ Facing(b, x, g)))
  BY <1>1, <1>2, Alike DEF at
<1>9. (\E x \in Squares : color_at(b, x) = d /\ piece_at(b, x) = KING /\ Facing(b, x, g))
        <=> kings_facing(b)
  <2>1. \A x \in Squares : color_at(b, x) = d /\ piece_at(b, x) = KING <=> x = b.king[d]
    BY <1>1, MenOn
  <2>2. Facing(b, b.king[d], g) <=> kings_facing(b)
    BY <1>1, FacingIs
  <2> HIDE DEF g
  <2> QED
    BY <1>2, <2>1, <2>2
<1>10. (\E x \in Squares : color_at(b, x) = d /\ g \in Attacks(b, x))
         <=> \E m \in generate_moves(b) : m.to = g
  <2>1. ASSUME NEW x \in Squares, color_at(b, x) = d, g \in Attacks(b, x)
        PROVE  \E m \in generate_moves(b) : m.to = g
    BY <1>1, <1>2, <2>1, AllGenerated DEF d
  <2>2. ASSUME NEW m \in generate_moves(b), m.to = g
        PROVE  \E x \in Squares : color_at(b, x) = d /\ g \in Attacks(b, x)
    <3>1. m.from \in Squares /\ m.to \in Attacks(b, m.from) /\ color_at(b, m.from) = b.side
      BY Generated
    <3> QED
      BY <2>2, <3>1 DEF d
  <2> QED
    BY <2>1, <2>2
<1> HIDE DEF g
<1>11. Rules!InCheck(at, Side(c)) <=> kings_facing(b) \/ \E m \in generate_moves(b) : m.to = g
  BY <1>7, <1>8, <1>9, <1>10
<1> QED
  BY <1>11 DEF c, g, at

LEMMA SameAbstract ==
  ASSUME NEW b, NEW r, r.position_pieces = b.position_pieces,
         r.position_colors = b.position_colors
  PROVE  Abstract(r).at = Abstract(b).at /\ (Stationed(b) => Stationed(r))
<1>1. \A x : piece_at(r, x) = piece_at(b, x) /\ color_at(r, x) = color_at(b, x)
  BY DEF piece_at, color_at
<1>2. \A x : Occupied(r, x) <=> Occupied(b, x)
  BY <1>1 DEF Occupied
<1>3. Abstract(r).at = Abstract(b).at
  BY <1>1, <1>2 DEF Abstract
<1> QED
  BY <1>1, <1>2, <1>3 DEF Stationed

LEMMA InCheckIs ==
  ASSUME NEW b, StateExact(b), Stationed(b), NEW c \in Colors
  PROVE  Rules!InCheck(Abstract(b).at, Side(c)) <=>
           kings_facing(b) \/ is_attacked(b, b.king[c], XSIDE(c))
<1>1. b.side \in Colors
  BY MenOn, Numbers
<1>2. CASE XSIDE(c) = b.side
  <2>1. c = XSIDE(b.side)
    BY <1>1, <1>2, Numbers
  <2> QED
    BY <1>2, <2>1, CheckIs DEF is_attacked
<1>3. CASE XSIDE(c) # b.side
  <2> DEFINE r == make_move(b, NullMove)
  <2>1. /\ StateExact(r) /\ r.side = XSIDE(b.side) /\ r.king = b.king
        /\ r.position_pieces = b.position_pieces /\ r.position_colors = b.position_colors
    BY NullMade
  <2>2. c = b.side /\ c = XSIDE(r.side)
    BY <1>1, <1>3, <2>1, Numbers
  <2>3. is_attacked(b, b.king[c], XSIDE(c)) <=> \E m \in generate_moves(r) : m.to = b.king[c]
    BY <1>3 DEF is_attacked
  <2> HIDE DEF r
  <2>4. Stationed(r) /\ Abstract(r).at = Abstract(b).at /\ (kings_facing(r) <=> kings_facing(b))
    BY <2>1, SameAbstract, SameFacing
  <2>5. Rules!InCheck(Abstract(r).at, Side(c)) <=>
          kings_facing(r) \/ \E m \in generate_moves(r) : m.to = r.king[c]
    BY <2>1, <2>2, <2>4, CheckIs
  <2> QED
    BY <2>1, <2>3, <2>4, <2>5
<1> QED
  BY <1>2, <1>3

-----------------------------------------------------------------------------
(***************************************************************************)
(* Moves follow the rules.                                                  *)
(***************************************************************************)
\* No move leads a man where the rules cannot.
LEMMA Stays ==
  ASSUME NEW x \in Squares, NEW y \in Squares, NEW c \in Colors, NEW p \in Pieces, NEW at,
         at[P(x)] = Rules!Man(Side(c), Kind[p + 1]),
         P(x) \in Rules!Stations(Side(c), Kind[p + 1]), Rules!Reaches(at, P(x), P(y)),
         p = KING => P(y) \in Rules!Palace(Side(c))
  PROVE  P(y) \in Rules!Stations(Side(c), Kind[p + 1])
<1> DEFINE u == Up(x, y)
           a == Across(x, y)
           D == Deep(c, x)
           E == Deep(c, y)
           F == FIL(x)
           G == FIL(y)
<1>1. /\ u \in Int /\ a \in Int
      /\ Rules!InLine(P(x), P(y)) <=> x # y /\ (u = 0 \/ a = 0)
      /\ Rules!Shape(P(x), P(y)) = {Abs(u), Abs(a)}
      /\ Rules!Depth(Side(c), P(x)) = D /\ D \in 0 .. 9
      /\ E = IF c = WHITE THEN D + u ELSE D - u
  BY Geometry
<1>2. Rules!Depth(Side(c), P(y)) = E /\ E \in 0 .. 9
  BY Geometry
<1>3. P(x)[1] = F /\ P(y)[1] = G /\ P(x) \in Rules!Points /\ P(y) \in Rules!Points
  BY PointsAre
<1>4. F \in 0 .. 8 /\ G \in 0 .. 8 /\ G = F + a
  BY Coordinates DEF Across
<1> HIDE DEF u, a, D, E, F, G
<1>5. CASE p = PAWN
  <2>1. Kind[p + 1] = "soldier"
    BY <1>5, Names
  <2>2. /\ Rules!InLine(P(x), P(y)) /\ Rules!Shape(P(x), P(y)) = {0, 1}
        /\ E = D + 1 \/ (D >= 5 /\ E = D)
    <3>1. /\ Rules!InLine(P(x), P(y)) /\ Rules!Shape(P(x), P(y)) = {0, 1}
          /\ \/ Rules!Depth(Side(c), P(y)) = Rules!Depth(Side(c), P(x)) + 1
             \/ /\ Rules!Depth(Side(c), P(x)) >= 5
                /\ Rules!Depth(Side(c), P(y)) = Rules!Depth(Side(c), P(x))
      BY <2>1, ReachesIs
    <3> QED
      BY <1>1, <1>2, <3>1
  <2>3. D >= 5 \/ (D \in 3 .. 4 /\ F % 2 = 0)
    BY <1>1, <1>3, <2>1, StationsAre
  <2>4. (u = 0 /\ a \in {0 - 1, 1}) \/ (a = 0 /\ u \in {0 - 1, 1})
    BY <1>1, <2>2, Shapes
  <2>5. E = D + 1 => G = F
    BY <1>1, <1>4, <2>4
  <2>6. E >= 5 \/ (E \in 3 .. 4 /\ G % 2 = 0)
    BY <1>1, <1>2, <2>2, <2>3, <2>5
  <2> QED
    BY <1>2, <1>3, <2>1, <2>6, StationsAre
<1>6. CASE p = GUARD
  <2>1. Kind[p + 1] = "advisor"
    BY <1>6, Names
  <2>2. Rules!Shape(P(x), P(y)) = {1} /\ P(y) \in Rules!Palace(Side(c))
    BY <2>1, ReachesIs
  <2>3. (F + D) % 2 = 1
    BY <1>1, <1>3, <2>1, StationsAre
  <2>4. u \in {0 - 1, 1} /\ a \in {0 - 1, 1}
    BY <1>1, <2>2, Shapes
  <2>5. (G + E) % 2 = 1
    <3>1. G + E \in {F + D - 2, F + D, F + D + 2}
      BY <1>1, <1>4, <2>4
    <3> QED
      BY <1>1, <1>4, <2>3, <3>1
  <2> QED
    BY <1>2, <1>3, <2>1, <2>2, <2>5, StationsAre
<1>7. CASE p = ELEPHANT
  <2>1. Kind[p + 1] = "elephant"
    BY <1>7, Names
  <2>2. Rules!Shape(P(x), P(y)) = {2} /\ P(y) \in Rules!Home(Side(c))
    BY <2>1, ReachesIs
  <2>3. F % 2 = 0 /\ D % 2 = 0 /\ ((F \div 2) + (D \div 2)) % 2 = 1
    BY <1>1, <1>3, <2>1, StationsAre
  <2>4. u \in {0 - 2, 2} /\ a \in {0 - 2, 2}
    BY <1>1, <2>2, Shapes
  <2>5. G % 2 = 0 /\ E % 2 = 0 /\ ((G \div 2) + (E \div 2)) % 2 = 1
    <3>1. (G = F + 2 \/ G = F - 2) /\ (E = D + 2 \/ E = D - 2)
      BY <1>1, <1>4, <2>4
    <3> DEFINE f == F \div 2
               e == D \div 2
    <3>2. F = 2 * f /\ D = 2 * e /\ f \in Int /\ e \in Int
      BY <1>1, <1>4, <2>3
    <3> HIDE DEF f, e
    <3>3. (G = 2 * (f + 1) \/ G = 2 * (f - 1)) /\ (E = 2 * (e + 1) \/ E = 2 * (e - 1))
      BY <3>1, <3>2
    <3>4. \A i \in Int : (2 * i) \div 2 = i /\ (2 * i) % 2 = 0
      OBVIOUS
    <3>5. /\ G % 2 = 0 /\ (G \div 2 = f + 1 \/ G \div 2 = f - 1)
          /\ E % 2 = 0 /\ (E \div 2 = e + 1 \/ E \div 2 = e - 1)
      BY <3>2, <3>3, <3>4
    <3>6. (f + e) % 2 = 1
      BY <2>3 DEF f, e
    <3>7. (f + e + 2) % 2 = 1 /\ (f + e - 2) % 2 = 1
      BY <3>2, <3>6
    <3>8. (G \div 2) + (E \div 2) \in {f + e - 2, f + e, f + e + 2}
      BY <3>2, <3>5
    <3> QED
      BY <3>5, <3>6, <3>7, <3>8
  <2> QED
    BY <1>2, <1>3, <2>1, <2>2, <2>5, StationsAre
<1>8. CASE p = KING
  BY <1>8, Names, StationsAre
<1>9. CASE p \in {KNIGHT, CANNON, ROOK}
  BY <1>3, <1>9, Names, StationsAre
<1> QED
  BY <1>5, <1>6, <1>7, <1>8, <1>9, PieceNumbers

LEMMA SameMap ==
  ASSUME NEW f, NEW g, DOMAIN f = Rules!Points, DOMAIN g = Rules!Points,
         f = [s \in Rules!Points |-> f[s]], g = [s \in Rules!Points |-> g[s]],
         \A x \in Squares : f[P(x)] = g[P(x)]
  PROVE  f = g
<1>1. \A s \in Rules!Points : f[s] = g[s]
  BY PointsAre
<1> QED
  BY <1>1

LEMMA AbstractIs ==
  ASSUME NEW b
  PROVE  /\ DOMAIN Abstract(b).at = Rules!Points
         /\ Abstract(b).at = [s \in Rules!Points |-> Abstract(b).at[s]]
         /\ Abstract(b) = [at |-> Abstract(b).at, turn |-> Abstract(b).turn]
         /\ Abstract(b).turn = Side(b.side)
BY DEF Abstract, Rules!Points

\* What a move does to the position.
After(at, s, t) == [at EXCEPT ![s] = Rules!Empty, ![t] = at[s]]

LEMMA AfterIs ==
  ASSUME NEW b, StateExact(b), NEW m \in generate_moves(b), m.to # b.king[XSIDE(b.side)]
  PROVE  LET r == make_move(b, m)
         IN  /\ Abstract(r) = [at |-> After(Abstract(b).at, P(m.from), P(m.to)),
                               turn |-> Rules!Other(Side(b.side))]
             /\ Abstract(b).at[P(m.from)] = Rules!Man(Side(b.side), Kind[m.ptype + 1])
<1> DEFINE r == make_move(b, m)
           at == Abstract(b).at
           new == After(at, P(m.from), P(m.to))
<1>1. /\ m.from \in Squares /\ m.to \in Squares /\ m.from # m.to
      /\ m.ptype \in Pieces /\ m.ptype = piece_at(b, m.from) /\ color_at(b, m.from) = b.side
      /\ Made(b, r, m)
  BY MoveMade
<1>2. b.side \in Colors
  BY <1>1, MenOn
<1>3. at[P(m.from)] = Rules!Man(Side(b.side), Kind[m.ptype + 1])
  BY <1>1, <1>2, StandsThere
<1> HIDE DEF r
<1>4. DOMAIN at = Rules!Points /\ at = [s \in Rules!Points |-> at[s]]
  BY AbstractIs
<1>5. DOMAIN Abstract(r).at = Rules!Points /\ Abstract(r).at = [s \in Rules!Points |-> Abstract(r).at[s]]
  BY AbstractIs
<1>6. ASSUME NEW x \in Squares PROVE Abstract(r).at[P(x)] = new[P(x)]
  <2>1. /\ piece_at(r, x) = IF x = m.to THEN m.ptype ELSE IF x = m.from THEN NO_PIECE
                            ELSE piece_at(b, x)
        /\ color_at(r, x) = IF x = m.to THEN b.side ELSE IF x = m.from THEN NO_COLOR
                            ELSE color_at(b, x)
    BY <1>1 DEF Made
  <2>2. /\ P(x) = P(m.to) <=> x = m.to
        /\ P(x) = P(m.from) <=> x = m.from
        /\ P(x) \in Rules!Points
    BY <1>1, PointsAre
  <2> HIDE DEF at
  <2>3. new[P(x)] = IF x = m.to THEN at[P(m.from)] ELSE IF x = m.from THEN Rules!Empty ELSE at[P(x)]
    BY <1>4, <2>2 DEF After
  <2>4. CASE x = m.to
    BY <1>1, <1>2, <1>3, <2>1, <2>3, <2>4, StandsThere
  <2>5. CASE x = m.from
    <3>1. ~Occupied(r, x)
      BY <1>1, <2>1, <2>5 DEF Occupied
    <3> QED
      BY <1>1, <2>3, <2>5, <3>1, ManThere
  <2>6. CASE x # m.to /\ x # m.from
    <3>1. piece_at(r, x) = piece_at(b, x) /\ color_at(r, x) = color_at(b, x)
      BY <2>1, <2>6
    <3>2. Occupied(r, x) <=> Occupied(b, x)
      BY <3>1 DEF Occupied
    <3>3. Abstract(r).at[P(x)] = Abstract(b).at[P(x)]
      BY <3>1, <3>2, ManThere
    <3> QED
      BY <2>3, <2>6, <3>3 DEF at
  <2> QED
    BY <2>4, <2>5, <2>6
<1>7. DOMAIN new = Rules!Points /\ new = [s \in Rules!Points |-> new[s]]
  <2> HIDE DEF at
  <2> QED
    BY <1>4 DEF After
<1>8. Abstract(r).at = new
  <2> HIDE DEF at, new
  <2> QED
    BY <1>5, <1>6, <1>7, SameMap
<1>9. Abstract(r).turn = Rules!Other(Side(b.side))
  <2>1. r.side = XSIDE(b.side)
    BY <1>1 DEF Made
  <2>2. Abstract(r).turn = Side(r.side)
    BY AbstractIs
  <2>3. Side(XSIDE(b.side)) = Rules!Other(Side(b.side))
    BY <1>2, Names
  <2> QED
    BY <2>1, <2>2, <2>3
<1>10. Abstract(r) = [at |-> Abstract(r).at, turn |-> Abstract(r).turn]
  BY AbstractIs
<1> HIDE DEF at, new
<1>11. Abstract(r) = [at |-> new, turn |-> Rules!Other(Side(b.side))]
  BY <1>8, <1>9, <1>10
<1> QED
  BY <1>3, <1>11 DEF r, at, new

\* The moves of the program and those of the rules, from where to where.
ByRule(b, x, y) ==
  /\ x \in Squares /\ y \in Squares /\ color_at(b, x) = b.side /\ color_at(b, y) # b.side
  /\ Rules!Reaches(Abstract(b).at, P(x), P(y))

LEMMA MovesAre ==
  ASSUME NEW b, StateExact(b), Stationed(b), ~kings_facing(b)
  PROVE  /\ \A m \in generate_moves(b) : ByRule(b, m.from, m.to) /\ m = TheMove(b, m.from, m.to)
         /\ \A x, y : ByRule(b, x, y) =>
              /\ TheMove(b, x, y) \in generate_moves(b)
              /\ TheMove(b, x, y).from = x /\ TheMove(b, x, y).to = y
<1>1. b.side \in Colors /\ XSIDE(b.side) # b.side /\ NO_COLOR # b.side
  <2>1. b.side \in Colors
    BY MenOn, Numbers
  <2> QED
    BY <2>1, Numbers
<1>2. ASSUME NEW m \in generate_moves(b)
      PROVE  ByRule(b, m.from, m.to) /\ m = TheMove(b, m.from, m.to)
  <2>1. /\ m.from \in Squares /\ m.to \in Attacks(b, m.from)
        /\ color_at(b, m.from) = b.side /\ m.ptype = piece_at(b, m.from)
        /\ \/ /\ m = Capture(m.from, m.to, m.ptype, m.cap_ptype)
              /\ color_at(b, m.to) = XSIDE(b.side) /\ m.cap_ptype = piece_at(b, m.to)
           \/ m = Normal(m.from, m.to, m.ptype) /\ ~Occupied(b, m.to)
    BY Generated
  <2>2. piece_at(b, m.from) \in Pieces /\ b \in Boards
    BY <1>1, <2>1, MenOn
  <2>3. m.to \in Squares
    BY <1>1, <2>1, <2>2, AttacksOnBoard
  <2>4. color_at(b, m.to) # b.side
    BY <1>1, <2>1 DEF Occupied
  <2>5. Rules!Reaches(Abstract(b).at, P(m.from), P(m.to))
    BY <1>1, <2>1, <2>3, <2>4, Alike
  <2>6. color_at(b, m.to) = XSIDE(b.side) => Occupied(b, m.to)
    BY <1>1, Numbers DEF Occupied
  <2>7. m = TheMove(b, m.from, m.to)
    BY <2>1, <2>6 DEF TheMove
  <2> QED
    BY <2>1, <2>3, <2>4, <2>5, <2>7 DEF ByRule
<1>3. ASSUME NEW x, NEW y, ByRule(b, x, y)
      PROVE  /\ TheMove(b, x, y) \in generate_moves(b)
             /\ TheMove(b, x, y).from = x /\ TheMove(b, x, y).to = y
  <2>1. /\ x \in Squares /\ y \in Squares /\ color_at(b, x) = b.side /\ color_at(b, y) # b.side
        /\ Rules!Reaches(Abstract(b).at, P(x), P(y))
    BY <1>3 DEF ByRule
  <2>2. y \in Attacks(b, x) \/ (piece_at(b, x) = KING /\ Facing(b, x, y))
    BY <1>1, <2>1, Alike
  <2>3. ~(piece_at(b, x) = KING /\ Facing(b, x, y))
    <3> SUFFICES ASSUME piece_at(b, x) = KING, Facing(b, x, y) PROVE FALSE
      OBVIOUS
    <3>1. x = b.king[b.side]
      BY <1>1, <2>1, MenOn
    <3>2. Abstract(b).at[P(y)] = Rules!Man(Side(XSIDE(b.side)), "general")
      BY <1>1, <2>1, Names DEF Facing
    <3>3. Occupied(b, y)
      BY <2>1, <3>2, EmptyThere, Names, Numbers DEF Rules!Man, Rules!Empty
    <3>4. color_at(b, y) \in Colors /\ piece_at(b, y) \in Pieces
      BY <2>1, <3>3, MenOn
    <3>5. Kind[piece_at(b, y) + 1] = "general"
      <4>1. Abstract(b).at[P(y)] = Rules!Man(Side(color_at(b, y)), Kind[piece_at(b, y) + 1])
        BY <2>1, <3>3, ManThere
      <4> QED
        BY <3>2, <4>1 DEF Rules!Man
    <3>6. color_at(b, y) = XSIDE(b.side) /\ piece_at(b, y) = KING
      BY <1>1, <2>1, <3>4, <3>5, Names, Numbers
    <3>7. y = b.king[XSIDE(b.side)]
      <4>1. XSIDE(b.side) \in Colors
        BY <1>1, Numbers
      <4> QED
        BY <2>1, <3>6, <4>1, MenOn
    <3> QED
      BY <1>1, <3>1, <3>7, FacingIs
  <2> QED
    BY <2>1, <2>2, <2>3, AllGenerated
<1> QED
  BY <1>2, <1>3

LEMMA SidesThere ==
  ASSUME NEW b, StateExact(b), NEW x \in Squares, NEW c \in Colors
  PROVE  P(x) \in Rules!Of(Abstract(b).at, Side(c)) <=> color_at(b, x) = c
<1>1. P(x) \in Rules!Points
  BY PointsAre
<1>2. Abstract(b).at[P(x)].side = Side(c) <=> color_at(b, x) = c
  <2>1. CASE Occupied(b, x)
    <3>1. Abstract(b).at[P(x)] = Rules!Man(Side(color_at(b, x)), Kind[piece_at(b, x) + 1])
      BY <2>1, ManThere
    <3>2. color_at(b, x) \in Colors
      BY <2>1, MenOn
    <3> QED
      BY <3>1, <3>2, Names DEF Rules!Man
  <2>2. CASE ~Occupied(b, x)
    <3>1. Abstract(b).at[P(x)] = Rules!Empty /\ color_at(b, x) \notin Colors
      BY <2>2, ManThere, MenOn
    <3> QED
      BY <3>1, Names DEF Rules!Empty, Rules!Man
  <2> QED
    BY <2>1, <2>2
<1> QED
  BY <1>1, <1>2 DEF Rules!Of

Played(b, x, y) ==
  [at |-> After(Abstract(b).at, P(x), P(y)), turn |-> Rules!Other(Side(b.side))]

LEMMA SuccessorsAre ==
  ASSUME NEW b, StateExact(b), NEW q
  PROVE  q \in Rules!Successors(Abstract(b)) <=>
           \E x, y : /\ ByRule(b, x, y) /\ q = Played(b, x, y)
                     /\ ~Rules!InCheck(Played(b, x, y).at, Side(b.side))
<1> DEFINE at == Abstract(b).at
           c == Side(b.side)
           Own == Rules!Of(at, c)
           moves == UNION {{<<s, t>> : t \in {u \in Rules!Points \ Own : Rules!Reaches(at, s, u)}} :
                           s \in Own}
           All == {[at |-> After(at, st[1], st[2]), turn |-> Rules!Other(c)] : st \in moves}
<1>1. b.side \in Colors
  BY MenOn, Numbers
<1>2. Abstract(b).turn = c
  BY AbstractIs
<1>3. Rules!Successors(Abstract(b)) = {r \in All : ~Rules!InCheck(r.at, c)}
  BY <1>2 DEF Rules!Successors, After
<1>4. \A x \in Squares : P(x) \in Own <=> color_at(b, x) = b.side
  BY <1>1, SidesThere
<1>5. Own \subseteq Rules!Points
  BY DEF Rules!Of
<1> HIDE DEF at, c, Own
<1>6. \A s, t : <<s, t>> \in moves <=>
        s \in Own /\ t \in Rules!Points /\ t \notin Own /\ Rules!Reaches(at, s, t)
  OBVIOUS
<1>7. \A st \in moves : st = <<st[1], st[2]>>
  OBVIOUS
<1> HIDE DEF moves
<1>8. \A x, y \in Squares : <<P(x), P(y)>> \in moves <=> ByRule(b, x, y)
  <2> SUFFICES ASSUME NEW x \in Squares, NEW y \in Squares
               PROVE  <<P(x), P(y)>> \in moves <=> ByRule(b, x, y)
    OBVIOUS
  <2>1. P(x) \in Rules!Points /\ P(y) \in Rules!Points
    BY PointsAre
  <2> QED
    BY <1>4, <1>6, <2>1 DEF ByRule, at
<1>9. ASSUME NEW r \in All
      PROVE  \E x, y : ByRule(b, x, y) /\ r = Played(b, x, y)
  <2>1. PICK st \in moves : r = [at |-> After(at, st[1], st[2]), turn |-> Rules!Other(c)]
    OBVIOUS
  <2>2. <<st[1], st[2]>> \in moves
    BY <1>7
  <2>3. st[1] \in Rules!Points /\ st[2] \in Rules!Points
    BY <1>5, <1>6, <2>2
  <2>4. PICK x \in Squares, y \in Squares : st[1] = P(x) /\ st[2] = P(y)
    BY <2>3, PointsAre
  <2>5. ByRule(b, x, y)
    BY <1>8, <2>2, <2>4
  <2>6. r = Played(b, x, y)
    BY <2>1, <2>4 DEF Played, at, c
  <2> QED
    BY <2>5, <2>6
<1>10. ASSUME NEW x, NEW y, ByRule(b, x, y) PROVE Played(b, x, y) \in All
  <2>1. x \in Squares /\ y \in Squares
    BY <1>10 DEF ByRule
  <2> DEFINE st == <<P(x), P(y)>>
  <2>2. st \in moves /\ st[1] = P(x) /\ st[2] = P(y)
    BY <1>8, <1>10, <2>1
  <2> HIDE DEF st
  <2>3. Played(b, x, y) = [at |-> After(at, st[1], st[2]), turn |-> Rules!Other(c)]
    BY <2>2 DEF Played, at, c
  <2> QED
    BY <2>2, <2>3
<1> HIDE DEF All
<1> QED
  BY <1>3, <1>9, <1>10 DEF c

LEMMA LegalIs ==
  ASSUME NEW r, StateExact(r), Stationed(r), NEW c \in Colors, r.side = XSIDE(c)
  PROVE  is_legal(r) <=> ~Rules!InCheck(Abstract(r).at, Side(c))
<1>1. XSIDE(r.side) = c
  BY Numbers
<1> QED
  BY <1>1, InCheckIs DEF is_legal

LEMMA MoveFollows ==
  ASSUME NEW b, StateExact(b), Stationed(b), is_legal(b), NEW m \in generate_moves(b)
  PROVE  /\ StateExact(make_move(b, m)) /\ Stationed(make_move(b, m))
         /\ Abstract(make_move(b, m)) = Played(b, m.from, m.to)
         /\ is_legal(make_move(b, m)) <=>
              ~Rules!InCheck(Abstract(make_move(b, m)).at, Side(b.side))
<1> DEFINE r == make_move(b, m)
<1>1. m.to # b.king[XSIDE(b.side)]
  BY KingSafe
<1>2. /\ m.from \in Squares /\ m.to \in Squares /\ m.from # m.to
      /\ m.ptype \in Pieces /\ m.ptype = piece_at(b, m.from) /\ color_at(b, m.from) = b.side
      /\ StateExact(r) /\ Made(b, r, m)
  BY <1>1, MoveMade
<1>3. ~kings_facing(b) /\ b.side \in Colors
  BY <1>2, MenOn DEF is_legal
<1>4. /\ Abstract(r) = Played(b, m.from, m.to)
      /\ Abstract(b).at[P(m.from)] = Rules!Man(Side(b.side), Kind[m.ptype + 1])
  BY <1>1, AfterIs DEF Played
<1>5. Rules!Reaches(Abstract(b).at, P(m.from), P(m.to)) /\ color_at(b, m.to) # b.side
  BY <1>3, MovesAre DEF ByRule
<1>6. P(m.from) \in Rules!Stations(Side(b.side), Kind[m.ptype + 1])
  <2>1. Occupied(b, m.from)
    BY <1>2, MenOn
  <2> QED
    BY <1>2, <2>1 DEF Stationed
<1>7. m.ptype = KING => P(m.to) \in Rules!Palace(Side(b.side))
  <2> SUFFICES ASSUME m.ptype = KING PROVE P(m.to) \in Rules!Palace(Side(b.side))
    OBVIOUS
  <2>1. m.from = b.king[b.side]
    BY <1>2, <1>3, MenOn
  <2>2. \/ P(m.to) \in Rules!Palace(Side(b.side))
        \/ /\ Rules!Cols(P(m.from), P(m.to)) = 0
           /\ Abstract(b).at[P(m.to)] = Rules!Man(Rules!Other(Side(b.side)), "general")
    BY <1>4, <1>5, Names, ReachesIs
  <2>3. Abstract(b).at[P(m.to)] # Rules!Man(Rules!Other(Side(b.side)), "general")
    <3> SUFFICES ASSUME Abstract(b).at[P(m.to)] = Rules!Man(Rules!Other(Side(b.side)), "general")
                 PROVE  FALSE
      OBVIOUS
    <3>1. XSIDE(b.side) \in Colors /\ Rules!Other(Side(b.side)) = Side(XSIDE(b.side))
      BY <1>3, Names, Numbers
    <3>2. Occupied(b, m.to)
      BY <1>2, <3>1, EmptyThere, Names DEF Rules!Man, Rules!Empty
    <3>3. color_at(b, m.to) \in Colors /\ piece_at(b, m.to) \in Pieces
      BY <1>2, <3>2, MenOn
    <3>4. Abstract(b).at[P(m.to)] = Rules!Man(Side(color_at(b, m.to)), Kind[piece_at(b, m.to) + 1])
      BY <1>2, <3>2, ManThere
    <3>5. Side(color_at(b, m.to)) = Side(XSIDE(b.side)) /\ Kind[piece_at(b, m.to) + 1] = "general"
      BY <3>1, <3>4 DEF Rules!Man
    <3>6. color_at(b, m.to) = XSIDE(b.side) /\ piece_at(b, m.to) = KING
      BY <3>1, <3>3, <3>5, Names
    <3> QED
      BY <1>1, <1>2, <3>1, <3>6, MenOn
  <2> QED
    BY <2>2, <2>3
<1>8. P(m.to) \in Rules!Stations(Side(b.side), Kind[m.ptype + 1])
  BY <1>2, <1>3, <1>4, <1>5, <1>6, <1>7, Stays
<1> HIDE DEF r
<1>9. Stationed(r)
  <2> SUFFICES ASSUME NEW x \in Squares, Occupied(r, x)
               PROVE  P(x) \in Rules!Stations(Side(color_at(r, x)), Kind[piece_at(r, x) + 1])
    BY DEF Stationed
  <2>1. /\ piece_at(r, x) = IF x = m.to THEN m.ptype ELSE IF x = m.from THEN NO_PIECE
                            ELSE piece_at(b, x)
        /\ color_at(r, x) = IF x = m.to THEN b.side ELSE IF x = m.from THEN NO_COLOR
                            ELSE color_at(b, x)
    BY <1>2 DEF Made
  <2>2. CASE x = m.to
    BY <1>8, <2>1, <2>2
  <2>3. CASE x # m.to
    <3>1. x # m.from
      BY <2>1, <2>3 DEF Occupied
    <3>2. piece_at(r, x) = piece_at(b, x) /\ color_at(r, x) = color_at(b, x)
      BY <2>1, <2>3, <3>1
    <3>3. Occupied(b, x)
      BY <3>2 DEF Occupied
    <3> QED
      BY <3>2, <3>3 DEF Stationed
  <2> QED
    BY <2>2, <2>3
<1>10. is_legal(r) <=> ~Rules!InCheck(Abstract(r).at, Side(b.side))
  <2>1. r.side = XSIDE(b.side)
    BY <1>2 DEF Made
  <2> QED
    BY <1>2, <1>3, <1>9, <2>1, LegalIs DEF r
<1> QED
  BY <1>2, <1>4, <1>9, <1>10 DEF r

\* The null move passes.
LEMMA PassFollows ==
  ASSUME NEW b, StateExact(b), Stationed(b), ~in_check(b)
  PROVE  /\ Stationed(make_move(b, NullMove))
         /\ ~Rules!InCheck(Abstract(b).at, Abstract(b).turn)
         /\ Abstract(make_move(b, NullMove)) =
              [at |-> Abstract(b).at, turn |-> Rules!Other(Abstract(b).turn)]
<1> DEFINE r == make_move(b, NullMove)
<1>1. b.side \in Colors
  BY MenOn, Numbers
<1>2. /\ r.side = XSIDE(b.side) /\ r.position_pieces = b.position_pieces
      /\ r.position_colors = b.position_colors
  BY NullMade
<1>3. ~Rules!InCheck(Abstract(b).at, Side(b.side))
  BY <1>1, InCheckIs DEF in_check
<1> HIDE DEF r
<1>4. Stationed(r) /\ Abstract(r).at = Abstract(b).at
  BY <1>2, SameAbstract
<1>5. Abstract(r).turn = Rules!Other(Abstract(b).turn) /\ Abstract(b).turn = Side(b.side)
  <2>1. Abstract(r).turn = Side(r.side) /\ Abstract(b).turn = Side(b.side)
    BY AbstractIs
  <2>2. Side(XSIDE(b.side)) = Rules!Other(Side(b.side))
    BY <1>1, Names
  <2> QED
    BY <1>2, <2>1, <2>2
<1>6. Abstract(r) = [at |-> Abstract(r).at, turn |-> Abstract(r).turn]
  BY AbstractIs
<1> QED
  BY <1>3, <1>4, <1>5, <1>6 DEF r

RuleInv == LineInv /\ Stationed(board)

LEMMA RuleStep ==
  RuleInv /\ [Next]_vars => RuleInv' /\ [Rules!Next]_(Abstract(board))
<1> SUFFICES ASSUME RuleInv, [Next]_vars
             PROVE  Stationed(board)' /\ [Rules!Next]_(Abstract(board))
  BY LineStep DEF RuleInv
<1>1. CASE vars' = vars
  <2>1. board' = board
    BY <1>1 DEF vars, board, node
  <2> QED
    BY <2>1 DEF RuleInv
<1>2. CASE vars' # vars
  <2>1. PICK m \in Moves :
          /\ line' = Append(line, Node(make_move(board, m), m))
          /\ NodeFits(line[Len(line)]) /\ board = line[Len(line)].board
          /\ m \in LegalMoves(board) \/ (m = NullMove /\ ~in_check(board))
          /\ StateExact(make_move(board, m)) /\ is_legal(make_move(board, m))
    BY <1>2, LineGrows DEF RuleInv
  <2> DEFINE r == make_move(board, m)
  <2>2. board' = r
    <3>1. Node(r, m).board = r
      BY <2>1, NodeTyped
    <3> DEFINE new == Node(r, m)
    <3>2. line' = Append(line, new) /\ line \in Seq(Nodes) /\ new \in Nodes
      BY <2>1, NodeTyped DEF RuleInv, LineInv
    <3> HIDE DEF new
    <3>3. line'[Len(line')] = new
      BY <3>2
    <3> QED
      BY <3>1, <3>3 DEF board, node, Last, new
  <2>3. StateExact(board) /\ is_legal(board) /\ Stationed(board)
    BY <2>1 DEF NodeFits, RuleInv
  <2> HIDE DEF r
  <2>4. CASE m \in LegalMoves(board)
    <3>1. m \in generate_moves(board) /\ is_legal(r)
      BY <2>1, <2>4 DEF LegalMoves, r
    <3>2. /\ Stationed(r) /\ Abstract(r) = Played(board, m.from, m.to)
          /\ ~Rules!InCheck(Abstract(r).at, Side(board.side))
      BY <2>3, <3>1, MoveFollows DEF r
    <3>3. ~kings_facing(board)
      BY <2>3 DEF is_legal
    <3>4. ByRule(board, m.from, m.to)
      BY <2>3, <3>1, <3>3, MovesAre
    <3>5. Abstract(r) \in Rules!Successors(Abstract(board))
      BY <2>3, <3>2, <3>4, SuccessorsAre
    <3>6. Rules!Play
      BY <2>2, <3>5 DEF Rules!Play
    <3> QED
      BY <2>2, <3>2, <3>6 DEF Rules!Next
  <2>5. CASE m = NullMove /\ ~in_check(board)
    <3>1. /\ Stationed(r) /\ ~Rules!InCheck(Abstract(board).at, Abstract(board).turn)
          /\ Abstract(r) = [at |-> Abstract(board).at, turn |-> Rules!Other(Abstract(board).turn)]
      BY <2>3, <2>5, PassFollows DEF r
    <3>2. Abstract(board) = [at |-> Abstract(board).at, turn |-> Abstract(board).turn]
      BY AbstractIs
    <3>3. Abstract(r) = [Abstract(board) EXCEPT !.turn = Rules!Other(@)]
      BY <3>1, <3>2
    <3>4. Rules!Pass
      BY <2>2, <3>1, <3>3 DEF Rules!Pass
    <3> QED
      BY <2>2, <3>1, <3>4 DEF Rules!Next
  <2> QED
    BY <2>1, <2>4, <2>5
<1> QED
  BY <1>1, <1>2

LEMMA RuleStarts == Init => RuleInv /\ Rules!Init
<1> SUFFICES ASSUME Init PROVE Stationed(board) /\ Rules!Init
  BY LineStarts DEF RuleInv
<1>1. PICK o \in Openings : line = <<Node(o.board, NO_MOVE)>>
  BY DEF Init
<1>2. StateExact(o.board) /\ is_legal(o.board) /\ Rules!Possible(Abstract(o.board))
  BY OpeningsAssumption
<1>3. board = o.board
  <2>1. Node(o.board, NO_MOVE).board = o.board
    BY <1>2, MovesTyped, NodeTyped
  <2>2. Len(line) = 1 /\ line[1] = Node(o.board, NO_MOVE)
    BY <1>1
  <2> QED
    BY <2>1, <2>2 DEF board, node, Last
<1>4. Rules!Init
  BY <1>2, <1>3 DEF Rules!Init
<1>5. Stationed(board)
  <2> SUFFICES ASSUME NEW x \in Squares, Occupied(board, x)
               PROVE  P(x) \in Rules!Stations(Side(color_at(board, x)), Kind[piece_at(board, x) + 1])
    BY DEF Stationed
  <2>1. StateExact(board) /\ Rules!Possible(Abstract(board))
    BY <1>2, <1>3
  <2>2. /\ Abstract(board).at[P(x)] =
             Rules!Man(Side(color_at(board, x)), Kind[piece_at(board, x) + 1])
        /\ Abstract(board).at[P(x)] # Rules!Empty
    BY <2>1, ManThere, EmptyThere
  <2>3. P(x) \in Rules!Points
    BY PointsAre
  <2> HIDE DEF board
  <2>4. P(x) \in Rules!Stations(Abstract(board).at[P(x)].side, Abstract(board).at[P(x)].kind)
    BY <2>1, <2>2, <2>3 DEF Rules!Possible
  <2> QED
    BY <2>2, <2>4 DEF Rules!Man
<1> QED
  BY <1>4, <1>5

\* Whatever the root and however long the line: each board that the search makes is
\* one that the rules allow after its predecessor, with all their restrictions on how
\* the men go and may be blocked, and no move leaves its side in check.
THEOREM FollowsRules == Spec => FollowsTheRules
<1>1. Init => RuleInv /\ Rules!Init
  BY RuleStarts
<1>2. RuleInv /\ [Next]_vars => RuleInv' /\ [Rules!Next]_(Abstract(board))
  BY RuleStep
<1> QED
  BY <1>1, <1>2, PTL DEF Spec, FollowsTheRules, Rules!Spec

-----------------------------------------------------------------------------
(***************************************************************************)
(* No move is missing.                                                      *)
(***************************************************************************)
LEMMA AfterAt ==
  ASSUME NEW b, StateExact(b), NEW x \in Squares, NEW y \in Squares, NEW z \in Squares
  PROVE  Played(b, x, y).at[P(z)] = IF z = y THEN Abstract(b).at[P(x)]
                                    ELSE IF z = x THEN Rules!Empty ELSE Abstract(b).at[P(z)]
<1> DEFINE at == Abstract(b).at
<1>1. DOMAIN at = Rules!Points /\ at = [s \in Rules!Points |-> at[s]]
  BY AbstractIs
<1>2. /\ P(z) = P(y) <=> z = y
      /\ P(z) = P(x) <=> z = x
      /\ P(z) \in Rules!Points
  BY PointsAre
<1>3. Played(b, x, y).at = After(at, P(x), P(y))
  BY DEF Played
<1> HIDE DEF at
<1>4. After(at, P(x), P(y))[P(z)] = IF z = y THEN at[P(x)] ELSE IF z = x THEN Rules!Empty ELSE at[P(z)]
  BY <1>1, <1>2 DEF After
<1> QED
  BY <1>3, <1>4 DEF at

LEMMA PlayedDiffer ==
  ASSUME NEW b, StateExact(b), NEW x, NEW y, NEW v, NEW w,
         ByRule(b, x, y), ByRule(b, v, w), Played(b, x, y) = Played(b, v, w)
  PROVE  x = v /\ y = w
<1> DEFINE at == Abstract(b).at
           c == Side(b.side)
           After1(z) == Played(b, x, y).at[P(z)]
<1>1. /\ x \in Squares /\ y \in Squares /\ color_at(b, x) = b.side /\ color_at(b, y) # b.side
      /\ v \in Squares /\ w \in Squares /\ color_at(b, v) = b.side /\ color_at(b, w) # b.side
  BY DEF ByRule
<1>2. b.side \in Colors
  BY MenOn, Numbers
<1>3. \A z \in Squares : at[P(z)].side = c <=> color_at(b, z) = b.side
  BY <1>2, SidesThere, PointsAre DEF Rules!Of
<1>4. Rules!Empty.side # c
  BY <1>2, Names DEF Rules!Empty, Rules!Man
<1>5. \A z \in Squares :
        /\ After1(z) = IF z = y THEN at[P(x)] ELSE IF z = x THEN Rules!Empty ELSE at[P(z)]
        /\ After1(z) = IF z = w THEN at[P(v)] ELSE IF z = v THEN Rules!Empty ELSE at[P(z)]
  BY <1>1, AfterAt
<1> HIDE DEF at, c, After1
<1>6. x = v
  <2> SUFFICES ASSUME x # v PROVE FALSE
    OBVIOUS
  <2>1. After1(x) = Rules!Empty
    BY <1>1, <1>5
  <2>2. After1(x) = at[P(x)]
    BY <1>1, <1>5
  <2> QED
    BY <1>1, <1>3, <1>4, <2>1, <2>2
<1>7. y = w
  <2> SUFFICES ASSUME y # w PROVE FALSE
    OBVIOUS
  <2>1. After1(y) = at[P(x)]
    BY <1>1, <1>5
  <2>2. After1(y) = at[P(y)]
    BY <1>1, <1>5, <1>6
  <2> QED
    BY <1>1, <1>3, <2>1, <2>2
<1> QED
  BY <1>6, <1>7

LEMMA MovesCounted ==
  ASSUME NEW b, StateExact(b), Stationed(b), is_legal(b)
  PROVE  Cardinality(LegalMoves(b)) = Cardinality(Rules!Successors(Abstract(b)))
<1> DEFINE S == LegalMoves(b)
           T == Rules!Successors(Abstract(b))
           F == [m \in S |-> Abstract(make_move(b, m))]
           G == [m \in S |-> <<m.from, m.to>>]
<1>1. ~kings_facing(b)
  BY DEF is_legal
<1>2. \A m \in S : m \in generate_moves(b) /\ is_legal(make_move(b, m))
  BY DEF LegalMoves, is_legal_move
<1>3. \A m \in generate_moves(b) :
        /\ Abstract(make_move(b, m)) = Played(b, m.from, m.to)
        /\ is_legal(make_move(b, m)) <=>
             ~Rules!InCheck(Abstract(make_move(b, m)).at, Side(b.side))
  BY MoveFollows
<1>4. \A m \in generate_moves(b) : ByRule(b, m.from, m.to) /\ m = TheMove(b, m.from, m.to)
  BY <1>1, MovesAre
<1>5. \A x, y : ByRule(b, x, y) =>
        /\ TheMove(b, x, y) \in generate_moves(b)
        /\ TheMove(b, x, y).from = x /\ TheMove(b, x, y).to = y
  BY <1>1, MovesAre
<1>6. \A q : q \in T <=> \E x, y : /\ ByRule(b, x, y) /\ q = Played(b, x, y)
                                   /\ ~Rules!InCheck(Played(b, x, y).at, Side(b.side))
  BY SuccessorsAre
<1> HIDE DEF T
<1>7. IsFiniteSet(S)
  <2>1. IsFiniteSet(Squares)
    BY FS_Interval, Numbers, 0 \in Int, 89 \in Int
  <2>2. IsFiniteSet(Squares \X Squares)
    BY <2>1, FS_Product
  <2>3. G \in Injection(S, Squares \X Squares)
    <3>1. \A m \in S : m.from \in Squares /\ m.to \in Squares /\ m = TheMove(b, m.from, m.to)
      BY <1>2, <1>4 DEF ByRule
    <3> HIDE DEF S
    <3>2. G \in [S -> Squares \X Squares]
      BY <3>1
    <3>3. ASSUME NEW m \in S, NEW n \in S, G[m] = G[n] PROVE m = n
      <4>1. m.from = n.from /\ m.to = n.to
        BY <3>3
      <4> QED
        BY <3>1, <4>1
    <3> HIDE DEF G
    <3> QED
      BY <3>2, <3>3 DEF Injection, IsInjective
  <2> HIDE DEF S, G
  <2> QED
    BY <2>2, <2>3, FS_Injection
<1>8. F \in Bijection(S, T)
  <2>1. ASSUME NEW m \in S PROVE F[m] \in T
    <3>1. m \in generate_moves(b) /\ is_legal(make_move(b, m))
      BY <1>2
    <3>2. F[m] = Played(b, m.from, m.to)
      BY <1>3, <3>1
    <3>3. ByRule(b, m.from, m.to) /\ ~Rules!InCheck(Played(b, m.from, m.to).at, Side(b.side))
      BY <1>3, <1>4, <3>1
    <3> HIDE DEF F, S
    <3> QED
      BY <1>6, <3>2, <3>3
  <2>2. ASSUME NEW m \in S, NEW n \in S, F[m] = F[n] PROVE m = n
    <3>1. m \in generate_moves(b) /\ n \in generate_moves(b)
      BY <1>2
    <3>2. Played(b, m.from, m.to) = Played(b, n.from, n.to)
      BY <1>3, <2>2, <3>1
    <3> HIDE DEF F, S
    <3>3. m.from = n.from /\ m.to = n.to
      BY <1>4, <3>1, <3>2, PlayedDiffer
    <3> QED
      BY <1>4, <3>1, <3>3
  <2>3. ASSUME NEW q \in T PROVE \E m \in S : F[m] = q
    <3>1. PICK x, y : /\ ByRule(b, x, y) /\ q = Played(b, x, y)
                      /\ ~Rules!InCheck(Played(b, x, y).at, Side(b.side))
      BY <1>6, <2>3
    <3> DEFINE m == TheMove(b, x, y)
    <3>2. m \in generate_moves(b) /\ m.from = x /\ m.to = y
      BY <1>5, <3>1
    <3> HIDE DEF m
    <3>3. Abstract(make_move(b, m)) = q /\ is_legal(make_move(b, m))
      BY <1>3, <3>1, <3>2
    <3>4. m \in S
      BY <3>2, <3>3 DEF LegalMoves, is_legal_move
    <3> QED
      BY <3>3, <3>4
  <2> HIDE DEF S
  <2>4. F \in [S -> T]
    <3>1. \A m \in S : Abstract(make_move(b, m)) \in T
      BY <2>1
    <3> QED
      BY <3>1
  <2> HIDE DEF F
  <2> QED
    BY <2>2, <2>3, <2>4 DEF Bijection, Injection, Surjection, IsInjective
<1>9. ExistsBijection(S, T)
  BY <1>8 DEF ExistsBijection
<1> HIDE DEF S, F, G
<1>10. Cardinality(T) = Cardinality(S)
  BY <1>7, <1>9, FS_Bijection
<1> QED
  BY <1>10 DEF S, T

LEMMA MovesValid ==
  ASSUME NEW b, NEW m \in generate_moves(b)
  PROVE  is_valid_move(b, m)
<1>1. /\ color_at(b, m.from) = b.side /\ piece_at(b, m.from) = m.ptype
      /\ \/ m.flag = "CAPTURE" /\ color_at(b, m.to) = XSIDE(b.side)
         \/ m.flag = "NORMAL" /\ ~Occupied(b, m.to)
  BY Generated
<1>2. ~Occupied(b, m.to) => color_at(b, m.to) = NO_COLOR
  BY DEF Occupied
<1> QED
  BY <1>1, <1>2 DEF is_valid_move

LEMMA NothingMissing == RuleInv => NoMoveMissing
<1> SUFFICES ASSUME RuleInv PROVE NoMoveMissing
  OBVIOUS
<1>1. node \in Nodes /\ NodeFits(node)
  <2>1. /\ line \in Seq(Nodes) /\ Len(line) \in Nat \ {0}
        /\ \A i \in 1 .. Len(line) : NodeFits(line[i])
    BY DEF RuleInv, LineInv
  <2>2. Len(line) \in 1 .. Len(line)
    BY <2>1
  <2> QED
    BY <2>1, <2>2 DEF node, Last
<1>2. /\ StateExact(board) /\ is_legal(board) /\ Stationed(board)
      /\ node.incheck = in_check(board) /\ node.incheck \in BOOLEAN
  BY <1>1 DEF RuleInv, NodeFits, Nodes, board
<1> HIDE DEF board, node
<1>3. Cardinality(LegalMoves(board)) = Cardinality(Rules!Successors(Abstract(board)))
  BY <1>2, MovesCounted
<1>4. node.incheck = Rules!InCheck(Abstract(board).at, Side(board.side))
  <2>1. board.side \in Colors
    BY <1>2, MenOn, Numbers
  <2>2. Rules!InCheck(Abstract(board).at, Side(board.side)) <=> in_check(board)
    BY <1>2, <2>1, InCheckIs DEF in_check
  <2>3. Rules!InCheck(Abstract(board).at, Side(board.side)) \in BOOLEAN
    BY DEF Rules!InCheck
  <2> QED
    BY <1>2, <2>2, <2>3
<1>5. \A m \in generate_moves(board) : is_valid_move(board, m)
  BY <1>2, MovesValid
<1> QED
  BY <1>3, <1>4, <1>5 DEF NoMoveMissing

\* Whatever the root and however long the line: generate_captures() and
\* generate_noncaptures() give each move that the rules allow exactly once and
\* nothing else, in_check() and kings_facing() see what the rules call check, and
\* is_valid_move() accepts what the generators give.
THEOREM AllMovesMade == Spec => []NoMoveMissing
<1>1. Init => RuleInv
  BY RuleStarts
<1>2. RuleInv /\ [Next]_vars => RuleInv'
  BY RuleStep
<1>3. RuleInv => NoMoveMissing
  BY NothingMissing
<1> QED
  BY <1>1, <1>2, <1>3, PTL DEF Spec

-----------------------------------------------------------------------------
(***************************************************************************)
(* Repetitions: no position comes again after an irreversible move.         *)
(***************************************************************************)
\* What the moves of a game use up: the men, and the ranks before each soldier.
Holds(b, x, d) ==
  /\ Occupied(b, x)
  /\ IF piece_at(b, x) = PAWN THEN d >= Deep(color_at(b, x), x) ELSE d = 9
Reserve(b) == {w \in Squares \X (0 .. 9) : Holds(b, w[1], w[2])}
Left(b) == Cardinality(Reserve(b))

LEMMA LeftCounts ==
  ASSUME NEW b
  PROVE  IsFiniteSet(Reserve(b)) /\ Left(b) \in Nat
<1>1. IsFiniteSet(Squares) /\ IsFiniteSet(0 .. 9)
  BY FS_Interval, Numbers, 0 \in Int, 9 \in Int, 89 \in Int
<1>2. IsFiniteSet(Squares \X (0 .. 9))
  BY <1>1, FS_Product
<1>3. IsFiniteSet(Reserve(b))
  BY <1>2, FS_Subset DEF Reserve
<1> QED
  BY <1>3, FS_CardinalityType DEF Left

LEMMA SoldierAdvances ==
  ASSUME NEW b, NEW x \in Squares, NEW y \in Squares, NEW c \in Colors,
         color_at(b, x) = c, piece_at(b, x) = PAWN, y \in Attacks(b, x)
  PROVE  /\ Deep(c, x) \in 0 .. 9 /\ Deep(c, y) \in 0 .. 9
         /\ Deep(c, y) = Deep(c, x) \/ Deep(c, y) = Deep(c, x) + 1
         /\ Deep(c, y) = Deep(c, x) => RNK(x) = RNK(y)
<1>1. Abstract(b).at[P(x)] = Rules!Man(Side(c), "soldier")
  BY StandsThere, Names, PieceNumbers
<1>2. Rules!Reaches(Abstract(b).at, P(x), P(y))
  BY SoldierAlike
<1>3. \/ Rules!Depth(Side(c), P(y)) = Rules!Depth(Side(c), P(x)) + 1
      \/ Rules!Depth(Side(c), P(y)) = Rules!Depth(Side(c), P(x))
  BY <1>1, <1>2, ReachesIs
<1>4. /\ Rules!Depth(Side(c), P(x)) = Deep(c, x) /\ Deep(c, x) \in 0 .. 9
      /\ Rules!Depth(Side(c), P(y)) = Deep(c, y) /\ Deep(c, y) \in 0 .. 9
  BY Geometry
<1>5. Deep(c, y) = Deep(c, x) => RNK(x) = RNK(y)
  BY Coordinates DEF Deep
<1> QED
  BY <1>3, <1>4, <1>5

LEMMA LessLeft ==
  ASSUME NEW b, StateExact(b), Stationed(b), is_legal(b), NEW m \in generate_moves(b),
         NEW r, Made(b, r, m)
  PROVE  Left(r) <= Left(b) /\ (is_irreversible(m) => Left(r) < Left(b))
<1> DEFINE x == m.from
           y == m.to
           c == b.side
           F == [w \in Reserve(r) |-> IF w[1] = y THEN <<x, w[2]>> ELSE w]
<1>1. /\ x \in Squares /\ y \in Squares /\ y \in Attacks(b, x) /\ c \in Colors
      /\ color_at(b, x) = c /\ color_at(b, y) # c /\ x # y /\ m.ptype = piece_at(b, x)
  <2>1. ~kings_facing(b)
    BY DEF is_legal
  <2>2. ByRule(b, x, y)
    BY <2>1, MovesAre
  <2>3. c \in Colors
    BY MenOn, Numbers
  <2> QED
    BY <2>2, <2>3, Generated DEF ByRule
<1>2. m.flag = "CAPTURE" => Occupied(b, y)
  <2>1. m.flag = "CAPTURE" => color_at(b, y) = XSIDE(c)
    BY Generated, Words
  <2> QED
    BY <1>1, <2>1, Numbers DEF Occupied
<1>3. \A z \in Squares :
        /\ piece_at(r, z) = IF z = y THEN m.ptype ELSE IF z = x THEN NO_PIECE ELSE piece_at(b, z)
        /\ color_at(r, z) = IF z = y THEN c ELSE IF z = x THEN NO_COLOR ELSE color_at(b, z)
  BY DEF Made
<1>4. c # NO_COLOR /\ Occupied(b, x)
  BY <1>1, Numbers DEF Occupied
<1>5. piece_at(b, x) = PAWN =>
        /\ Deep(c, x) \in 0 .. 9 /\ Deep(c, y) \in 0 .. 9
        /\ Deep(c, y) = Deep(c, x) \/ Deep(c, y) = Deep(c, x) + 1
        /\ Deep(c, y) = Deep(c, x) => RNK(x) = RNK(y)
  BY <1>1, SoldierAdvances
<1> HIDE DEF x, y, c, F
<1>6. \A d \in 0 .. 9 : Holds(r, y, d) => Holds(b, x, d)
  <2>1. piece_at(r, y) = piece_at(b, x) /\ color_at(r, y) = c /\ color_at(b, x) = c
    BY <1>1, <1>3
  <2> QED
    BY <1>4, <1>5, <2>1 DEF Holds
<1>7. \A z \in Squares, d \in 0 .. 9 : Holds(r, z, d) /\ z # y => z # x /\ Holds(b, z, d)
  <2> SUFFICES ASSUME NEW z \in Squares, NEW d \in 0 .. 9, Holds(r, z, d), z # y
               PROVE  z # x /\ Holds(b, z, d)
    OBVIOUS
  <2>1. z # x
    BY <1>1, <1>3 DEF Holds, Occupied
  <2>2. piece_at(r, z) = piece_at(b, z) /\ color_at(r, z) = color_at(b, z)
    BY <1>3, <2>1
  <2> QED
    BY <2>1, <2>2 DEF Holds, Occupied
<1>8. \A w : w \in Reserve(r) => /\ w \in Squares \X (0 .. 9) /\ Holds(r, w[1], w[2])
                                 /\ w = <<w[1], w[2]>> /\ w[1] \in Squares /\ w[2] \in 0 .. 9
  BY DEF Reserve
<1>9. \A z \in Squares, d \in 0 .. 9 : <<z, d>> \in Reserve(b) <=> Holds(b, z, d)
  BY DEF Reserve
<1>10. \A w \in Reserve(r) :
         /\ w[1] = y => F[w] = <<x, w[2]>>
         /\ w[1] # y => F[w] = w /\ w[1] # x
  BY <1>7, <1>8 DEF F
<1>11. F \in Injection(Reserve(r), Reserve(b))
  <2>1. ASSUME NEW w \in Reserve(r) PROVE F[w] \in Reserve(b)
    <3>1. w[1] \in Squares /\ w[2] \in 0 .. 9 /\ w = <<w[1], w[2]>> /\ Holds(r, w[1], w[2])
      BY <1>8
    <3>2. CASE w[1] = y
      BY <1>1, <1>6, <1>9, <1>10, <3>1, <3>2
    <3>3. CASE w[1] # y
      BY <1>7, <1>9, <1>10, <3>1, <3>3
    <3> QED
      BY <3>2, <3>3
  <2>2. ASSUME NEW w \in Reserve(r), NEW v \in Reserve(r), F[w] = F[v] PROVE w = v
    <3>1. w = <<w[1], w[2]>> /\ v = <<v[1], v[2]>>
      BY <1>8
    <3>2. CASE w[1] = y
      <4>1. F[w] = <<x, w[2]>>
        BY <1>10, <3>2
      <4>2. v[1] = y
        <5> SUFFICES ASSUME v[1] # y PROVE FALSE
          OBVIOUS
        <5>1. F[v] = v /\ v[1] # x
          BY <1>10
        <5>2. v = <<x, w[2]>>
          BY <2>2, <4>1, <5>1
        <5> QED
          BY <5>1, <5>2
      <4>3. F[v] = <<x, v[2]>>
        BY <1>10, <4>2
      <4>4. w[2] = v[2]
        <5>1. <<x, w[2]>> = <<x, v[2]>>
          BY <2>2, <4>1, <4>3
        <5>2. w[2] \in 0 .. 9 /\ v[2] \in 0 .. 9
          BY <1>8
        <5> QED
          BY <5>1, <5>2
      <4> QED
        BY <3>1, <3>2, <4>2, <4>4
    <3>3. CASE w[1] # y
      <4>1. F[w] = w /\ w[1] # x
        BY <1>10, <3>3
      <4>2. v[1] # y
        BY <1>10, <2>2, <4>1
      <4> QED
        BY <1>10, <2>2, <4>1, <4>2
    <3> QED
      BY <3>2, <3>3
  <2>3. F \in [Reserve(r) -> Reserve(b)]
    BY <2>1 DEF F
  <2> QED
    BY <2>2, <2>3 DEF Injection, IsInjective
<1>12. ASSUME is_irreversible(m) PROVE F \notin Surjection(Reserve(r), Reserve(b))
  <2>1. PICK v \in Reserve(b) : \A w \in Reserve(r) : F[w] # v
    <3>1. CASE m.flag = "CAPTURE"
      <4>1. Holds(b, y, 9)
        <5>1. Occupied(b, y)
          BY <1>2, <3>1
        <5>2. color_at(b, y) \in Colors
          BY <1>1, <5>1, MenOn
        <5>3. Deep(color_at(b, y), y) <= 9
          BY <1>1, <5>2, Coordinates DEF Deep
        <5> QED
          BY <5>1, <5>3 DEF Holds
      <4>2. <<y, 9>> \in Reserve(b)
        BY <1>1, <1>9, <4>1, 9 \in 0 .. 9
      <4>3. \A w \in Reserve(r) : F[w] # <<y, 9>>
        BY <1>1, <1>10
      <4> QED
        BY <4>2, <4>3
    <3>2. CASE m.ptype = PAWN /\ RNK(x) # RNK(y)
      <4>1. piece_at(b, x) = PAWN /\ color_at(b, x) = c
        BY <1>1, <3>2
      <4>2. Deep(c, x) \in 0 .. 9 /\ Deep(c, y) = Deep(c, x) + 1
        BY <1>5, <3>2, <4>1
      <4>3. <<x, Deep(c, x)>> \in Reserve(b)
        <5>1. Holds(b, x, Deep(c, x))
          BY <1>4, <4>1, <4>2 DEF Holds
        <5> QED
          BY <1>1, <1>9, <4>2, <5>1
      <4>4. ASSUME NEW w \in Reserve(r), F[w] = <<x, Deep(c, x)>> PROVE FALSE
        <5>1. w[1] = y
          BY <1>10, <4>4
        <5>2. w[2] = Deep(c, x)
          BY <1>10, <4>4, <5>1
        <5>3. Holds(r, y, Deep(c, x))
          BY <1>8, <5>1, <5>2
        <5>4. piece_at(r, y) = PAWN /\ color_at(r, y) = c
          BY <1>1, <1>3, <3>2
        <5>5. Deep(c, x) >= Deep(c, y)
          BY <5>3, <5>4 DEF Holds
        <5> QED
          BY <4>2, <5>5
      <4> QED
        BY <4>3, <4>4
    <3> QED
      BY <1>12, <3>1, <3>2 DEF is_irreversible, x, y
  <2> QED
    BY <2>1 DEF Surjection
<1>13. /\ Cardinality(Reserve(r)) <= Cardinality(Reserve(b))
       /\ Cardinality(Reserve(r)) = Cardinality(Reserve(b)) <=>
            F \in Surjection(Reserve(r), Reserve(b))
  BY <1>11, LeftCounts, FS_Injection
<1>14. Left(r) \in Nat /\ Left(b) \in Nat
  BY LeftCounts
<1> QED
  BY <1>12, <1>13, <1>14 DEF Left

\* Boards that share a key share the men and the side to move, and so the position.
SameMen(b, r) ==
  /\ b.side = r.side
  /\ \A x \in Squares : piece_at(b, x) = piece_at(r, x) /\ color_at(b, x) = color_at(r, x)

LEMMA KeyMeansMen ==
  ASSUME NEW b, StateExact(b), NEW r, StateExact(r)
  PROVE  b.hashkey = r.hashkey <=> SameMen(b, r)
<1>1. /\ b \in Boards /\ HashTold(b) /\ MenTold(b)
      /\ r \in Boards /\ HashTold(r) /\ MenTold(r)
  BY ToldMeans DEF Told
<1>2. /\ b.side \in Colors /\ r.side \in Colors
      /\ b.hashkey \in SUBSET Keys /\ r.hashkey \in SUBSET Keys
  BY <1>1 DEF Boards
<1>3. ASSUME b.hashkey = r.hashkey PROVE SameMen(b, r)
  <2>1. b.side = r.side
    <3>1. b.side = BLACK <=> r.side = BLACK
      BY <1>1, <1>3 DEF HashTold
    <3>2. b.side \in {0, 1} /\ r.side \in {0, 1} /\ BLACK = 1
      BY <1>2, Numbers
    <3> QED
      BY <3>1, <3>2
  <2>2. ASSUME NEW x \in Squares
        PROVE  piece_at(b, x) = piece_at(r, x) /\ color_at(b, x) = color_at(r, x)
    <3>1. \A c \in Colors, p \in Pieces :
            color_at(b, x) = c /\ piece_at(b, x) = p <=> color_at(r, x) = c /\ piece_at(r, x) = p
      BY <1>1, <1>3 DEF HashTold
    <3>2. /\ piece_at(b, x) \in Pieces \cup {NO_PIECE} /\ color_at(b, x) \in Colors \cup {NO_COLOR}
          /\ Occupied(b, x) <=> piece_at(b, x) \in Pieces
          /\ Occupied(b, x) <=> color_at(b, x) \in Colors
      BY MenOn
    <3>3. /\ piece_at(r, x) \in Pieces \cup {NO_PIECE} /\ color_at(r, x) \in Colors \cup {NO_COLOR}
          /\ Occupied(r, x) <=> piece_at(r, x) \in Pieces
          /\ Occupied(r, x) <=> color_at(r, x) \in Colors
      BY MenOn
    <3> QED
      BY <3>1, <3>2, <3>3
  <2> QED
    BY <2>1, <2>2 DEF SameMen
<1>4. ASSUME SameMen(b, r) PROVE b.hashkey = r.hashkey
  <2>1. \A c \in Colors, p \in Pieces, x \in Squares :
          Key(c, p, x) \in b.hashkey <=> Key(c, p, x) \in r.hashkey
    BY <1>1, <1>4 DEF HashTold, SameMen
  <2>2. SideKey \in b.hashkey <=> SideKey \in r.hashkey
    BY <1>1, <1>4 DEF HashTold, SameMen
  <2> QED
    BY <1>2, <2>1, <2>2, SameKeys
<1> QED
  BY <1>3, <1>4

LEMMA PositionMeansMen ==
  ASSUME NEW b, StateExact(b), NEW r, StateExact(r)
  PROVE  Abstract(b) = Abstract(r) <=> SameMen(b, r)
<1>1. b.side \in Colors /\ r.side \in Colors
  BY MenOn, Numbers
<1>2. ASSUME Abstract(b) = Abstract(r) PROVE SameMen(b, r)
  <2>1. b.side = r.side
    <3>1. Side(b.side) = Side(r.side)
      BY <1>2, AbstractIs
    <3> QED
      BY <1>1, <3>1, Names
  <2>2. ASSUME NEW x \in Squares
        PROVE  piece_at(b, x) = piece_at(r, x) /\ color_at(b, x) = color_at(r, x)
    <3>1. Abstract(b).at[P(x)] = Abstract(r).at[P(x)]
      BY <1>2
    <3>2. /\ piece_at(b, x) \in Pieces \cup {NO_PIECE} /\ color_at(b, x) \in Colors \cup {NO_COLOR}
          /\ Occupied(b, x) <=> piece_at(b, x) \in Pieces
          /\ Occupied(b, x) <=> color_at(b, x) \in Colors
      BY MenOn
    <3>3. /\ piece_at(r, x) \in Pieces \cup {NO_PIECE} /\ color_at(r, x) \in Colors \cup {NO_COLOR}
          /\ Occupied(r, x) <=> piece_at(r, x) \in Pieces
          /\ Occupied(r, x) <=> color_at(r, x) \in Colors
      BY MenOn
    <3>4. /\ Abstract(b).at[P(x)] = Rules!Empty <=> ~Occupied(b, x)
          /\ Abstract(r).at[P(x)] = Rules!Empty <=> ~Occupied(r, x)
      BY EmptyThere
    <3>5. CASE ~Occupied(b, x)
      BY <3>1, <3>2, <3>3, <3>4, <3>5
    <3>6. CASE Occupied(b, x)
      <4>1. Occupied(r, x)
        BY <3>1, <3>4, <3>6
      <4>2. Rules!Man(Side(color_at(b, x)), Kind[piece_at(b, x) + 1])
              = Rules!Man(Side(color_at(r, x)), Kind[piece_at(r, x) + 1])
        BY <3>1, <3>6, <4>1, ManThere
      <4>3. /\ Side(color_at(b, x)) = Side(color_at(r, x))
            /\ Kind[piece_at(b, x) + 1] = Kind[piece_at(r, x) + 1]
        BY <4>2 DEF Rules!Man
      <4> QED
        BY <3>2, <3>3, <3>6, <4>1, <4>3, Names
    <3> QED
      BY <3>5, <3>6
  <2> QED
    BY <2>1, <2>2 DEF SameMen
<1>3. ASSUME SameMen(b, r) PROVE Abstract(b) = Abstract(r)
  <2>1. \A x \in Squares : Abstract(b).at[P(x)] = Abstract(r).at[P(x)]
    <3> SUFFICES ASSUME NEW x \in Squares PROVE Abstract(b).at[P(x)] = Abstract(r).at[P(x)]
      OBVIOUS
    <3>1. piece_at(b, x) = piece_at(r, x) /\ color_at(b, x) = color_at(r, x)
      BY <1>3 DEF SameMen
    <3>2. Occupied(b, x) <=> Occupied(r, x)
      BY <3>1 DEF Occupied
    <3> QED
      BY <3>1, <3>2, ManThere
  <2>2. Abstract(b).at = Abstract(r).at
    <3> DEFINE f == Abstract(b).at
               g == Abstract(r).at
    <3>1. /\ DOMAIN f = Rules!Points /\ f = [s \in Rules!Points |-> f[s]]
          /\ DOMAIN g = Rules!Points /\ g = [s \in Rules!Points |-> g[s]]
      BY AbstractIs
    <3>2. \A x \in Squares : f[P(x)] = g[P(x)]
      BY <2>1
    <3> HIDE DEF f, g
    <3>3. f = g
      BY <3>1, <3>2, SameMap
    <3> QED
      BY <3>3 DEF f, g
  <2>3. Abstract(b).turn = Abstract(r).turn
    BY <1>3, AbstractIs DEF SameMen
  <2> QED
    BY <2>2, <2>3, AbstractIs
<1> QED
  BY <1>2, <1>3

LEMMA SameReserve ==
  ASSUME NEW b, NEW r,
         \A x \in Squares : piece_at(b, x) = piece_at(r, x) /\ color_at(b, x) = color_at(r, x)
  PROVE  Left(b) = Left(r)
<1>1. \A x \in Squares, d \in 0 .. 9 : Holds(b, x, d) <=> Holds(r, x, d)
  BY DEF Holds, Occupied
<1>2. Reserve(b) = Reserve(r)
  BY <1>1 DEF Reserve
<1> QED
  BY <1>2 DEF Left

\* What the past of a node is like: men in their places, sides by turns, and the
\* reserve never grows and shrinks with an irreversible move.
Wears(nodes) ==
  \A i, j \in 1 .. Len(nodes) : i <= j =>
    /\ Left(nodes[j].board) <= Left(nodes[i].board)
    /\ (\E k \in i + 1 .. j : is_irreversible(nodes[k].played_move)) =>
         Left(nodes[j].board) < Left(nodes[i].board)
Alternate(nodes) ==
  \A i, j \in 1 .. Len(nodes) : i <= j =>
    nodes[i].board.side = IF (j - i) % 2 = 0 THEN nodes[j].board.side
                                             ELSE XSIDE(nodes[j].board.side)
Past(nodes) ==
  /\ \A i \in 1 .. Len(nodes) : Stationed(nodes[i].board)
  /\ Wears(nodes) /\ Alternate(nodes)

LEMMA Parity ==
  \A n \in Nat : /\ (n + 1) % 2 = 0 <=> n % 2 # 0
                 /\ n % 2 = 0 \/ n % 2 = 1
OBVIOUS

LEMMA PastGrows ==
  ASSUME NEW nodes \in Seq(Nodes), Len(nodes) \in Nat \ {0}, Past(nodes), NEW new \in Nodes,
         Stationed(new.board), new.board.side = XSIDE(nodes[Len(nodes)].board.side),
         Left(new.board) <= Left(nodes[Len(nodes)].board),
         is_irreversible(new.played_move) => Left(new.board) < Left(nodes[Len(nodes)].board)
  PROVE  Past(Append(nodes, new))
<1> DEFINE n == Len(nodes)
           longer == Append(nodes, new)
<1>1. /\ n \in Nat /\ n >= 1 /\ Len(longer) = n + 1 /\ longer[n + 1] = new
      /\ \A i \in 1 .. n : longer[i] = nodes[i]
  OBVIOUS
<1>2. /\ \A i \in 1 .. n : Stationed(nodes[i].board)
      /\ Wears(nodes) /\ Alternate(nodes)
  BY DEF Past
<1>3. \A i \in 1 .. n : Left(nodes[i].board) \in Nat
  BY LeftCounts
<1>4. Left(new.board) \in Nat
  BY LeftCounts
<1>5. \A i \in 1 .. n : nodes[i].board.side \in Colors
  <2>1. \A i \in 1 .. n : nodes[i] \in Nodes
    OBVIOUS
  <2> QED
    BY <2>1 DEF Nodes, Boards
<1> HIDE DEF n, longer
<1>6. \A i \in 1 .. n + 1 : i \in 1 .. n \/ i = n + 1
  BY <1>1
<1>7. \A i \in 1 .. n + 1 : Stationed(longer[i].board)
  BY <1>1, <1>2, <1>6
<1>8. ASSUME NEW i \in 1 .. n + 1, NEW j \in 1 .. n + 1, i <= j
      PROVE  /\ Left(longer[j].board) <= Left(longer[i].board)
             /\ (\E k \in i + 1 .. j : is_irreversible(longer[k].played_move)) =>
                  Left(longer[j].board) < Left(longer[i].board)
  <2>1. CASE j \in 1 .. n
    <3>1. i \in 1 .. n /\ longer[i] = nodes[i] /\ longer[j] = nodes[j]
      BY <1>1, <1>8, <2>1
    <3>2. \A k \in i + 1 .. j : longer[k] = nodes[k]
      BY <1>1, <2>1, <3>1
    <3> QED
      BY <1>2, <1>8, <2>1, <3>1, <3>2 DEF Wears, n
  <2>2. CASE j = n + 1 /\ i = n + 1
    <3>1. i + 1 .. j = {}
      BY <1>1, <2>2
    <3> QED
      BY <1>1, <1>4, <2>2, <3>1
  <2>3. CASE j = n + 1 /\ i \in 1 .. n
    <3>1. longer[j] = new /\ longer[i] = nodes[i]
      BY <1>1, <2>3
    <3>2. n \in 1 .. n /\ i <= n
      BY <1>1, <2>3
    <3>3. /\ Left(nodes[n].board) <= Left(nodes[i].board)
          /\ (\E k \in i + 1 .. n : is_irreversible(nodes[k].played_move)) =>
               Left(nodes[n].board) < Left(nodes[i].board)
      BY <1>2, <2>3, <3>2 DEF Wears, n
    <3>4. /\ Left(new.board) <= Left(nodes[n].board)
          /\ is_irreversible(new.played_move) => Left(new.board) < Left(nodes[n].board)
      BY DEF n
    <3>5. ASSUME NEW k \in i + 1 .. j, is_irreversible(longer[k].played_move)
          PROVE  \/ is_irreversible(new.played_move)
                 \/ \E l \in i + 1 .. n : is_irreversible(nodes[l].played_move)
      <4>1. k = n + 1 \/ k \in i + 1 .. n
        BY <1>1, <2>3
      <4>2. k \in i + 1 .. n => longer[k] = nodes[k]
        BY <1>1, <2>3
      <4> QED
        BY <1>1, <3>5, <4>1, <4>2
    <3>6. Left(nodes[n].board) \in Nat /\ Left(nodes[i].board) \in Nat
      BY <1>3, <2>3, <3>2
    <3> QED
      BY <1>4, <3>1, <3>3, <3>4, <3>5, <3>6
  <2> QED
    BY <1>6, <2>1, <2>2, <2>3
<1>9. ASSUME NEW i \in 1 .. n + 1, NEW j \in 1 .. n + 1, i <= j
      PROVE  longer[i].board.side = IF (j - i) % 2 = 0 THEN longer[j].board.side
                                                      ELSE XSIDE(longer[j].board.side)
  <2>1. CASE j \in 1 .. n
    <3>1. i \in 1 .. n /\ longer[i] = nodes[i] /\ longer[j] = nodes[j]
      BY <1>1, <1>9, <2>1
    <3> QED
      BY <1>2, <1>9, <2>1, <3>1 DEF Alternate, n
  <2>2. CASE j = n + 1 /\ i = n + 1
    <3>1. (j - i) % 2 = 0
      BY <1>1, <2>2
    <3> QED
      BY <2>2, <3>1
  <2>3. CASE j = n + 1 /\ i \in 1 .. n
    <3>1. longer[j] = new /\ longer[i] = nodes[i]
      BY <1>1, <2>3
    <3>2. n \in 1 .. n /\ i <= n
      BY <1>1, <2>3
    <3>3. nodes[i].board.side = IF (n - i) % 2 = 0 THEN nodes[n].board.side
                                                  ELSE XSIDE(nodes[n].board.side)
      BY <1>2, <2>3, <3>2 DEF Alternate, n
    <3>4. n - i \in Nat /\ j - i = (n - i) + 1
      BY <1>1, <2>3, <3>2
    <3>5. (j - i) % 2 = 0 <=> (n - i) % 2 # 0
      BY <3>4, Parity
    <3>6. new.board.side = XSIDE(nodes[n].board.side) /\ nodes[n].board.side \in Colors
      BY <1>5, <3>2 DEF n
    <3>7. XSIDE(new.board.side) = nodes[n].board.side
      BY <3>6, Numbers
    <3> QED
      BY <3>1, <3>3, <3>5, <3>6, <3>7
  <2> QED
    BY <1>6, <2>1, <2>2, <2>3
<1> QED
  BY <1>1, <1>7, <1>8, <1>9 DEF Past, Wears, Alternate, longer

LEMMA PastStep ==
  RuleInv /\ Past(line) /\ [Next]_vars => Past(line)'
<1> SUFFICES ASSUME RuleInv, Past(line), [Next]_vars PROVE Past(line')
  OBVIOUS
<1>1. CASE vars' = vars
  <2>1. line' = line
    BY <1>1 DEF vars
  <2> QED
    BY <2>1
<1>2. CASE vars' # vars
  <2>1. PICK m \in Moves :
          /\ line' = Append(line, Node(make_move(board, m), m))
          /\ NodeFits(line[Len(line)]) /\ board = line[Len(line)].board
          /\ \/ m \in LegalMoves(board) /\ Made(board, make_move(board, m), m)
             \/ m = NullMove
          /\ StateExact(make_move(board, m)) /\ is_legal(make_move(board, m))
    BY <1>2, LineGrows DEF RuleInv
  <2> DEFINE r == make_move(board, m)
             new == Node(r, m)
  <2>2. new \in Nodes /\ new.board = r /\ new.played_move = m
    BY <2>1, NodeTyped
  <2>3. line \in Seq(Nodes) /\ Len(line) \in Nat \ {0}
    BY DEF RuleInv, LineInv
  <2>4. StateExact(board) /\ is_legal(board) /\ Stationed(board)
    BY <2>1 DEF NodeFits, RuleInv
  <2> HIDE DEF new
  <2>5. line' = Append(line, new)
    BY <2>1 DEF new
  <2>6. Stationed(r)
    <3>1. line'[Len(line')] = new
      BY <2>2, <2>3, <2>5
    <3>2. board' = r
      BY <2>2, <3>1 DEF board, node, Last
    <3>3. Stationed(board)'
      BY RuleStep DEF RuleInv
    <3> QED
      BY <3>2, <3>3
  <2>7. r.side = XSIDE(board.side) /\ Left(r) <= Left(board)
        /\ (is_irreversible(m) => Left(r) < Left(board))
    <3>1. CASE m \in LegalMoves(board) /\ Made(board, r, m)
      <4>1. m \in generate_moves(board)
        BY <3>1 DEF LegalMoves
      <4> HIDE DEF r
      <4>2. Left(r) <= Left(board) /\ (is_irreversible(m) => Left(r) < Left(board))
        BY <2>4, <3>1, <4>1, LessLeft
      <4> QED
        BY <3>1, <4>2 DEF Made
    <3>2. CASE m = NullMove
      <4>1. /\ r.side = XSIDE(board.side) /\ r.position_pieces = board.position_pieces
            /\ r.position_colors = board.position_colors
        BY <2>4, <3>2, NullMade
      <4>2. ~is_irreversible(m)
        BY <3>2, Words DEF NullMove, Move, is_irreversible, NO_PIECE, PAWN
      <4> HIDE DEF r
      <4>3. Left(r) = Left(board)
        BY <4>1, SameReserve DEF piece_at, color_at
      <4> QED
        BY <4>1, <4>2, <4>3, LeftCounts
    <3> QED
      BY <2>1, <3>1, <3>2
  <2> HIDE DEF r
  <2>8. Past(Append(line, new))
    BY <2>1, <2>2, <2>3, <2>6, <2>7, PastGrows
  <2> QED
    BY <2>5, <2>8
<1> QED
  BY <1>1, <1>2

LEMMA PastStarts == Init => Past(line)
<1> SUFFICES ASSUME Init PROVE Past(line)
  OBVIOUS
<1>1. RuleInv
  BY RuleStarts
<1>2. PICK o \in Openings : line = <<Node(o.board, NO_MOVE)>>
  BY DEF Init
<1> DEFINE new == Node(o.board, NO_MOVE)
<1> HIDE DEF new
<1>3. Len(line) = 1 /\ line[1] = new
  BY <1>2 DEF new
<1>4. Stationed(line[1].board)
  BY <1>1, <1>3 DEF RuleInv, board, node, Last
<1>5. Left(line[1].board) \in Nat
  BY LeftCounts
<1>6. \A i \in 1 .. Len(line) : i = 1
  BY <1>3
<1>7. 1 + 1 .. 1 = {} /\ (1 - 1) % 2 = 0
  OBVIOUS
<1>8. Wears(line)
  BY <1>5, <1>6, <1>7 DEF Wears
<1>9. Alternate(line)
  BY <1>6, <1>7 DEF Alternate
<1> QED
  BY <1>4, <1>6, <1>8, <1>9 DEF Past

LEMMA RepetitionScored ==
  ASSUME RuleInv, Past(line)
  PROVE  PerpetualCheckLoses
<1> DEFINE n == Len(line)
           seen == {i \in 1 .. n - 1 : Position(i) = Position(n)}
           first == Max(seen)
           mover == Position(n).turn
           other == Rules!Other(mover)
           MovesOf(c) == {i \in first + 1 .. n : Position(i - 1).turn = c}
           Checks(c) == \A i \in MovesOf(c) : Rules!InCheck(Position(i).at, Position(i).turn)
           Always(k) == \A i \in first .. n : (n - i) % 2 = k => line[i].incheck
<1>1. n \in Nat /\ n >= 1 /\ n \in 1 .. n /\ line \in Seq(Nodes) /\ board = line[n].board
  BY DEF RuleInv, LineInv, board, node, Last
<1>2. \A i \in 1 .. n :
        /\ StateExact(line[i].board) /\ Stationed(line[i].board)
        /\ line[i].incheck = in_check(line[i].board) /\ line[i].incheck \in BOOLEAN
        /\ line[i].board.side \in Colors
  <2> SUFFICES ASSUME NEW i \in 1 .. n
               PROVE  /\ StateExact(line[i].board) /\ Stationed(line[i].board)
                      /\ line[i].incheck = in_check(line[i].board)
                      /\ line[i].incheck \in BOOLEAN /\ line[i].board.side \in Colors
    OBVIOUS
  <2>1. line[i] \in Nodes
    BY <1>1
  <2> QED
    BY <2>1 DEF RuleInv, LineInv, NodeFits, Past, Nodes, Boards
<1>3. /\ Stop \in 0 .. n
      /\ Stop # 0 => is_irreversible(line[Stop].played_move)
      /\ \A i \in 1 .. n : is_irreversible(line[i].played_move) => i <= Stop
  <2>1. Stop = StopOf(line)
    BY DEF Stop, StopOf
  <2> QED
    BY <1>1, <2>1, StopIs
<1>4. Wears(line) /\ Alternate(line)
  BY DEF Past
<1> HIDE DEF seen, first, mover, MovesOf, Checks, Always
<1>5. \A i \in 1 .. n : /\ line[i].board.hashkey = board.hashkey <=> Position(i) = Position(n)
                        /\ Position(i) = Position(n) => Left(line[i].board) = Left(board)
  <2> SUFFICES ASSUME NEW i \in 1 .. n
               PROVE  /\ line[i].board.hashkey = board.hashkey <=> Position(i) = Position(n)
                      /\ Position(i) = Position(n) => Left(line[i].board) = Left(board)
    OBVIOUS
  <2>1. StateExact(line[i].board) /\ StateExact(board)
    BY <1>1, <1>2
  <2>2. Position(i) = Abstract(line[i].board) /\ Position(n) = Abstract(board)
    BY <1>1 DEF Position
  <2> HIDE DEF board
  <2>3. line[i].board.hashkey = board.hashkey <=> SameMen(line[i].board, board)
    BY <2>1, KeyMeansMen
  <2>4. Abstract(line[i].board) = Abstract(board) <=> SameMen(line[i].board, board)
    BY <2>1, PositionMeansMen
  <2>5. SameMen(line[i].board, board) => Left(line[i].board) = Left(board)
    BY SameReserve DEF SameMen
  <2> QED
    BY <2>2, <2>3, <2>4, <2>5
<1>6. \A i \in seen : i \in 1 .. n - 1 /\ Position(i) = Position(n) /\ i >= Stop
  <2> SUFFICES ASSUME NEW i \in seen
               PROVE  i \in 1 .. n - 1 /\ Position(i) = Position(n) /\ i >= Stop
    OBVIOUS
  <2>1. i \in 1 .. n - 1 /\ Position(i) = Position(n)
    BY DEF seen
  <2>2. ASSUME i < Stop PROVE FALSE
    <3>1. Stop \in i + 1 .. n /\ is_irreversible(line[Stop].played_move)
      BY <1>1, <1>3, <2>1, <2>2
    <3>2. i \in 1 .. n /\ i <= n
      BY <1>1, <2>1
    <3>3. Left(line[n].board) < Left(line[i].board)
      BY <1>1, <1>4, <3>1, <3>2 DEF Wears
    <3>4. Left(line[i].board) = Left(line[n].board)
      BY <1>1, <1>5, <2>1, <3>2
    <3>5. Left(line[n].board) \in Nat
      BY LeftCounts
    <3> QED
      BY <3>3, <3>4, <3>5
  <2> QED
    BY <1>1, <1>3, <2>1, <2>2
<1>7. Same = {i \in seen : i > Stop}
  BY <1>1, <1>3, <1>5, <1>6 DEF Same, seen
<1>8. seen # {} => first \in seen /\ \A y \in seen : first >= y
  <2>1. seen \in SUBSET (0 .. n)
    BY <1>1, <1>6
  <2> QED
    BY <1>1, <2>1, Greatest DEF first
<1>9. seen # {} => /\ Same = {} <=> first = Stop
                   /\ is_irreversible(line[first].played_move) <=> first = Stop
                   /\ Same # {} => Max(Same) = first
  <2> SUFFICES ASSUME seen # {}
               PROVE  /\ Same = {} <=> first = Stop
                      /\ is_irreversible(line[first].played_move) <=> first = Stop
                      /\ Same # {} => Max(Same) = first
    OBVIOUS
  <2>1. /\ first \in seen /\ first \in 1 .. n - 1 /\ first \in 1 .. n /\ first >= Stop
        /\ \A y \in seen : y <= first
    BY <1>1, <1>6, <1>8
  <2>2. Same = {} <=> first = Stop
    <3>1. first = Stop \/ first > Stop
      BY <1>1, <1>3, <2>1
    <3>2. first > Stop => first \in Same
      BY <1>7, <2>1
    <3>3. ASSUME first = Stop, NEW y \in Same PROVE FALSE
      <4>1. y \in seen /\ y > Stop
        BY <1>7
      <4>2. y \in 1 .. n - 1 /\ y <= first
        BY <1>6, <2>1, <4>1
      <4> QED
        BY <1>1, <1>3, <3>3, <4>1, <4>2
    <3> QED
      BY <3>1, <3>2, <3>3
  <2>3. is_irreversible(line[first].played_move) <=> first = Stop
    BY <1>1, <1>3, <2>1
  <2>4. ASSUME Same # {} PROVE Max(Same) = first
    <3>1. first \in Same /\ \A y \in Same : y <= first
      BY <1>1, <1>3, <1>7, <2>1, <2>2, <2>4
    <3>2. Same \in SUBSET (0 .. n)
      BY <1>1, <1>6, <1>7
    <3>3. Max(Same) \in Same /\ \A y \in Same : Max(Same) >= y
      BY <1>1, <2>4, <3>2, Greatest
    <3> DEFINE greatest == Max(Same)
    <3>4. /\ greatest \in 0 .. n /\ first \in 0 .. n
          /\ greatest <= first /\ greatest >= first
      BY <3>1, <3>2, <3>3
    <3> HIDE DEF greatest
    <3>5. greatest = first
      BY <1>1, <3>4
    <3> QED
      BY <3>5 DEF greatest
  <2> QED
    BY <2>2, <2>3, <2>4
<1>10. seen = {} => Same = {}
  BY <1>7
<1>11. Same = {} => is_repetition = "open"
  BY DEF is_repetition
<1>12. ASSUME seen # {}, ~is_irreversible(line[first].played_move)
       PROVE  is_repetition = (IF Checks(mover) /\ ~Checks(other) THEN "lost"
                               ELSE IF Checks(other) /\ ~Checks(mover) THEN "won" ELSE "draw")
  <2>1. Same # {} /\ Max(Same) = first
    BY <1>9, <1>12
  <2>2. is_repetition = IF Always(0) = Always(1) THEN "draw"
                        ELSE IF Always(1) THEN "lost" ELSE "won"
    BY <2>1 DEF is_repetition, Always
  <2>3. first \in 1 .. n - 1 /\ first \in 1 .. n /\ Position(first) = Position(n)
    BY <1>1, <1>6, <1>8, <1>12
  <2>4. mover = Side(board.side) /\ other = Side(XSIDE(board.side)) /\ mover # other
    <3>1. mover = Side(board.side) /\ board.side \in Colors
      BY <1>1, <1>2, AbstractIs DEF mover, Position
    <3> QED
      BY <3>1, Names, Numbers
  <2>5. \A i \in 1 .. n : Position(i).turn = IF (n - i) % 2 = 0 THEN mover ELSE other
    <3> SUFFICES ASSUME NEW i \in 1 .. n
                 PROVE  Position(i).turn = IF (n - i) % 2 = 0 THEN mover ELSE other
      OBVIOUS
    <3>1. Position(i).turn = Side(line[i].board.side)
      BY AbstractIs DEF Position
    <3>2. line[i].board.side = IF (n - i) % 2 = 0 THEN line[n].board.side
                                                 ELSE XSIDE(line[n].board.side)
      BY <1>1, <1>4 DEF Alternate
    <3> QED
      BY <1>1, <2>4, <3>1, <3>2
  <2>6. \A i \in 1 .. n : Rules!InCheck(Position(i).at, Position(i).turn) <=> line[i].incheck
    <3> SUFFICES ASSUME NEW i \in 1 .. n
                 PROVE  Rules!InCheck(Position(i).at, Position(i).turn) <=> line[i].incheck
      OBVIOUS
    <3> DEFINE b == line[i].board
    <3>1. /\ StateExact(b) /\ Stationed(b) /\ b.side \in Colors
          /\ line[i].incheck = in_check(b)
      BY <1>2
    <3>2. Position(i) = Abstract(b) /\ Position(i).turn = Side(b.side)
      BY AbstractIs DEF Position
    <3> HIDE DEF b
    <3>3. Rules!InCheck(Abstract(b).at, Side(b.side)) <=> in_check(b)
      BY <3>1, InCheckIs DEF in_check
    <3> QED
      BY <3>1, <3>2, <3>3
  <2>7. (n - first) % 2 = 0
    BY <2>3, <2>4, <2>5 DEF mover
  <2>8. line[first].incheck <=> line[n].incheck
    BY <1>1, <2>3, <2>6
  <2>9. \A i \in first + 1 .. n :
          /\ i \in 1 .. n
          /\ i \in MovesOf(mover) <=> (n - i) % 2 = 1
          /\ i \in MovesOf(other) <=> (n - i) % 2 = 0
    <3> SUFFICES ASSUME NEW i \in first + 1 .. n
                 PROVE  /\ i \in 1 .. n
                        /\ i \in MovesOf(mover) <=> (n - i) % 2 = 1
                        /\ i \in MovesOf(other) <=> (n - i) % 2 = 0
      OBVIOUS
    <3>1. i \in 1 .. n /\ i - 1 \in 1 .. n /\ n - i \in Nat /\ n - (i - 1) = (n - i) + 1
      BY <1>1, <2>3
    <3>2. Position(i - 1).turn = IF (n - (i - 1)) % 2 = 0 THEN mover ELSE other
      BY <2>5, <3>1
    <3>3. (n - (i - 1)) % 2 = 0 <=> (n - i) % 2 = 1
      BY <3>1, Parity
    <3>4. (n - i) % 2 = 0 \/ (n - i) % 2 = 1
      BY <3>1, Parity
    <3>5. \A c : i \in MovesOf(c) <=> Position(i - 1).turn = c
      BY DEF MovesOf
    <3> HIDE DEF other
    <3> QED
      BY <2>4, <3>1, <3>2, <3>3, <3>4, <3>5
  <2>10. \A c : Checks(c) <=> \A i \in first + 1 .. n : i \in MovesOf(c) => line[i].incheck
    <3>1. \A c, i : i \in MovesOf(c) => i \in first + 1 .. n
      BY DEF MovesOf
    <3> QED
      BY <2>6, <2>9, <3>1 DEF Checks
  <2>11. Always(1) <=> Checks(mover)
    <3>1. \A i \in first .. n : i = first \/ i \in first + 1 .. n
      BY <1>1, <2>3
    <3>2. \A i \in first + 1 .. n : i \in first .. n
      BY <1>1, <2>3
    <3>3. (n - first) % 2 # 1
      BY <2>7
    <3> QED
      BY <2>9, <2>10, <3>1, <3>2, <3>3 DEF Always
  <2>12. Always(0) <=> Checks(other)
    <3>1. \A i \in first .. n : i = first \/ i \in first + 1 .. n
      BY <1>1, <2>3
    <3>2. /\ \A i \in first + 1 .. n : i \in first .. n
          /\ first \in first .. n /\ n \in first + 1 .. n /\ (n - n) % 2 = 0
      BY <1>1, <2>3
    <3> HIDE DEF other
    <3>3. Always(0) <=> \A i \in first + 1 .. n : (n - i) % 2 = 0 => line[i].incheck
      <4>1. ASSUME \A i \in first + 1 .. n : (n - i) % 2 = 0 => line[i].incheck
            PROVE  Always(0)
        <5>1. line[first].incheck
          BY <2>8, <3>2, <4>1
        <5> QED
          BY <3>1, <4>1, <5>1 DEF Always
      <4> QED
        BY <3>2, <4>1 DEF Always
    <3> QED
      BY <2>9, <2>10, <3>3
  <2>13. Always(0) \in BOOLEAN /\ Always(1) \in BOOLEAN
    BY DEF Always
  <2> HIDE DEF other
  <2> QED
    BY <2>2, <2>11, <2>12, <2>13
<1>13. seen = {} => is_repetition = "open"
  BY <1>10, <1>11
<1>14. seen # {} /\ is_irreversible(line[first].played_move) => is_repetition = "open"
  BY <1>9, <1>11
<1> QED
  BY <1>12, <1>13, <1>14
     DEF PerpetualCheckLoses, seen, first, mover, Checks, MovesOf

\* Whatever the root and however long the line, with null moves on it:
\* is_repetition() finds a position again exactly if it was there before, except at
\* the very node to which the last irreversible move led, and scores it lost or won if the mover
\* or its opponent alone has checked with every move in between, by the rules and not by parities.
THEOREM PerpetualCheckScored == Spec => []PerpetualCheckLoses
<1>1. Init => RuleInv /\ Past(line)
  BY RuleStarts, PastStarts
<1>2. RuleInv /\ Past(line) /\ [Next]_vars => RuleInv' /\ Past(line)'
  BY RuleStep, PastStep
<1>3. RuleInv /\ Past(line) => PerpetualCheckLoses
  BY RepetitionScored
<1> QED
  BY <1>1, <1>2, <1>3, PTL DEF Spec
==============================================================================
