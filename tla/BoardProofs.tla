----------------------------- MODULE BoardProofs -----------------------------
(***************************************************************************)
(* Proofs about the chess board, and about the evaluator: its caches never  *)
(* change a score, and it favours neither colour.                           *)
(***************************************************************************)
EXTENDS Evaluator, FiniteSetTheorems, NaturalsInduction, WellFoundedInduction, TLAPS

LEMMA KeysDiffer ==
  ASSUME NEW c \in Colors, NEW d \in Colors, NEW p \in Pieces, NEW q \in Pieces,
         NEW x \in Squares, NEW y \in Squares, NEW f \in Flags, NEW g \in Flags
  PROVE  /\ Key(c, p, x) = Key(d, q, y) <=> c = d /\ p = q /\ x = y
         /\ EpKey(x) = EpKey(y) <=> x = y
         /\ FlagKey(f) = FlagKey(g) <=> f = g
         /\ Key(c, p, x) # EpKey(y) /\ Key(c, p, x) # FlagKey(f) /\ Key(c, p, x) # SideKey
         /\ EpKey(x) # FlagKey(f) /\ EpKey(x) # SideKey /\ FlagKey(f) # SideKey
<1>1. Key(c, p, x) = Key(d, q, y) <=> c = d /\ p = q /\ x = y
  BY DEF Key
<1>2. EpKey(x) = EpKey(y) <=> x = y
  BY DEF EpKey
<1>3. FlagKey(f) = FlagKey(g) <=> f = g
  BY DEF FlagKey
<1>4. /\ Key(c, p, x)[1] = "piece" /\ EpKey(x)[1] = "ep" /\ EpKey(y)[1] = "ep"
      /\ FlagKey(f)[1] = "castle" /\ SideKey[1] = "side"
  BY DEF Key, EpKey, FlagKey, SideKey
<1> QED
  BY <1>1, <1>2, <1>3, <1>4

LEMMA Worths ==
  /\ mat_values \in [Pieces -> Nat]
  /\ mat_values[PAWN] = 100 /\ mat_values[KNIGHT] = 300 /\ mat_values[BISHOP] = 325
  /\ mat_values[ROOK] = 500 /\ mat_values[QUEEN] = 900 /\ mat_values[KING] = 0
BY DEF mat_values, Pieces, PAWN, KNIGHT, BISHOP, ROOK, QUEEN, KING

LEMMA Counting ==
  ASSUME NEW P \in SUBSET Squares, NEW x \in Squares
  PROVE  /\ Cardinality(P) \in Nat
         /\ x \in P => Cardinality(P \ {x}) = Cardinality(P) - 1
         /\ x \notin P => Cardinality(P \cup {x}) = Cardinality(P) + 1
<1>1. IsFiniteSet(P)
  BY FS_Interval, FS_Subset, 0 \in Int, 63 \in Int DEF Squares
<1> QED
  BY <1>1, FS_CardinalityType, FS_RemoveElement, FS_AddElement

-----------------------------------------------------------------------------
(***************************************************************************)
(* StateExact and OneEach, square by square and key by key.                 *)
(***************************************************************************)
MenTold(b) ==
  /\ \A c \in Colors : \A x \in Squares :
       x \in b.position_all[c] <=> \E p \in Pieces : x \in b.position[c][p]
  /\ b.occupied = b.position_all[WHITE] \cup b.position_all[BLACK]
  /\ \A c \in Colors : b.position[c][KING] = {b.king[c]}
  /\ \A c, d \in Colors : \A p, q \in Pieces : \A x \in Squares :
       x \in b.position[c][p] /\ x \in b.position[d][q] => c = d /\ p = q
MaterialTold(b) == \A c \in Colors : b.material[c] = MaterialOf(b, c)
HashTold(b) ==
  /\ \A c \in Colors : \A p \in Pieces : \A x \in Squares :
       Key(c, p, x) \in b.hashkey <=> x \in b.position[c][p]
  /\ \A f \in Flags : FlagKey(f) \in b.hashkey <=> f \in b.flags
  /\ \A x \in Squares : EpKey(x) \in b.hashkey <=> x = b.epsq
  /\ SideKey \in b.hashkey <=> b.side = BLACK
PawnKeys == {Key(c, PAWN, x) : c \in Colors, x \in Squares} \cup {SideKey}
PawnHashTold(b) ==
  /\ b.pawnhashkey \subseteq PawnKeys
  /\ \A c \in Colors : \A x \in Squares :
       Key(c, PAWN, x) \in b.pawnhashkey <=> x \in b.position[c][PAWN]
  /\ SideKey \in b.pawnhashkey <=> b.side = BLACK
Sound(b) ==
  b \in Boards /\ MenTold(b) /\ MaterialTold(b) /\ HashTold(b) /\ PawnHashTold(b)

\* The men p of side s, on P in b, are on Q in r, and everything else that tells
\* where they are has followed them.
Repositioned(b, r, s, p, P, Q) ==
  /\ P = b.position[s][p] /\ Q \cap b.occupied \subseteq P
  /\ \A c \in Colors : \A q \in Pieces :
       r.position[c][q] = IF c = s /\ q = p THEN Q ELSE b.position[c][q]
  /\ \A c \in Colors :
       r.position_all[c] = IF c = s THEN (b.position_all[c] \ P) \cup Q ELSE b.position_all[c]
  /\ r.occupied = (b.occupied \ P) \cup Q
  /\ \A c \in Colors : c # s \/ p # KING => r.king[c] = b.king[c]
  /\ p = KING => Q = {r.king[s]}
  /\ \A c \in Colors : r.material[c] =
       IF c = s THEN b.material[c] + mat_values[p] * (Cardinality(Q) - Cardinality(P))
       ELSE b.material[c]
  /\ r.side = b.side /\ r.flags = b.flags /\ r.epsq = b.epsq
  /\ r.hashkey = SymDiff(b.hashkey, {Key(s, p, x) : x \in SymDiff(P, Q)})
  /\ r.pawnhashkey = IF p = PAWN
                       THEN SymDiff(b.pawnhashkey, {Key(s, p, x) : x \in SymDiff(P, Q)})
                       ELSE b.pawnhashkey

LEMMA MenChange ==
  ASSUME NEW b \in Boards, NEW r \in Boards, NEW s \in Colors, NEW p \in Pieces,
         NEW P, NEW Q \in SUBSET Squares, Repositioned(b, r, s, p, P, Q), MenTold(b)
  PROVE  MenTold(r)
<1>0. /\ P = b.position[s][p] /\ Q \cap b.occupied \subseteq P
      /\ r.occupied = (b.occupied \ P) \cup Q
      /\ \A c \in Colors : c # s \/ p # KING => r.king[c] = b.king[c]
      /\ p = KING => Q = {r.king[s]}
  BY DEF Repositioned
<1>1. \A c \in Colors : \A q \in Pieces :
        r.position[c][q] = IF c = s /\ q = p THEN Q ELSE b.position[c][q]
  BY DEF Repositioned
<1>2. \A c \in Colors :
        r.position_all[c] = IF c = s THEN (b.position_all[c] \ P) \cup Q ELSE b.position_all[c]
  BY DEF Repositioned
<1>3. \A c \in Colors : b.position_all[c] \subseteq b.occupied
  BY DEF MenTold, Colors, WHITE, BLACK
<1>4. \A c \in Colors : \A q \in Pieces : \A x \in Squares :
        x \in b.position[c][q] => x \in b.occupied
  BY <1>3 DEF MenTold
<1>5. \A c \in Colors : \A q \in Pieces : \A x \in Squares :
        x \in b.position[c][q] /\ x \in P => c = s /\ q = p
  BY <1>0 DEF MenTold
<1>6. \A c \in Colors : \A x \in Squares :
        x \in r.position_all[c] <=> \E q \in Pieces : x \in r.position[c][q]
  <2> SUFFICES ASSUME NEW c \in Colors, NEW x \in Squares
               PROVE  x \in r.position_all[c] <=> \E q \in Pieces : x \in r.position[c][q]
    OBVIOUS
  <2>1. CASE c # s
    <3>1. r.position_all[c] = b.position_all[c]
      BY <1>2, <2>1
    <3>2. \A q \in Pieces : r.position[c][q] = b.position[c][q]
      BY <1>1, <2>1
    <3> QED
      BY <3>1, <3>2 DEF MenTold
  <2>2. CASE c = s /\ x \in Q
    <3>1. x \in r.position[s][p] /\ x \in r.position_all[s]
      BY <1>1, <1>2, <2>2
    <3> QED
      BY <2>2, <3>1
  <2>3. CASE c = s /\ x \in P /\ x \notin Q
    <3>1. \A q \in Pieces : x \notin r.position[c][q]
      BY <1>1, <1>5, <2>3
    <3>2. x \notin r.position_all[c]
      BY <1>2, <2>3
    <3> QED
      BY <3>1, <3>2
  <2>4. CASE c = s /\ x \notin P /\ x \notin Q
    <3>1. \A q \in Pieces : x \in r.position[c][q] <=> x \in b.position[c][q]
      BY <1>0, <1>1, <2>4
    <3>2. x \in r.position_all[c] <=> x \in b.position_all[c]
      BY <1>2, <2>4
    <3> QED
      BY <3>1, <3>2 DEF MenTold
  <2> QED
    BY <2>1, <2>2, <2>3, <2>4
<1>7. r.occupied = r.position_all[WHITE] \cup r.position_all[BLACK]
  <2>1. \A c \in Colors : \A x \in Squares : x \in b.position_all[c] /\ x \in P => c = s
    BY <1>5 DEF MenTold
  <2>2. P \subseteq Squares /\ \A c \in Colors : b.position_all[c] \subseteq Squares
    BY <1>0 DEF Boards
  <2> QED
    BY <1>0, <1>2, <2>1, <2>2 DEF MenTold, Colors, WHITE, BLACK
<1>8. \A c \in Colors : r.position[c][KING] = {r.king[c]}
  <2>1. KING \in Pieces
    BY DEF Pieces, PAWN, KING
  <2>2. CASE p # KING
    BY <1>0, <1>1, <2>1, <2>2 DEF MenTold
  <2>3. CASE p = KING
    BY <1>0, <1>1, <2>1, <2>3 DEF MenTold
  <2> QED
    BY <2>2, <2>3
<1>9. \A c, d \in Colors : \A q1, q2 \in Pieces : \A x \in Squares :
        x \in r.position[c][q1] /\ x \in r.position[d][q2] => c = d /\ q1 = q2
  <2> SUFFICES ASSUME NEW c \in Colors, NEW d \in Colors, NEW q1 \in Pieces, NEW q2 \in Pieces,
                      NEW x \in Squares, x \in r.position[c][q1], x \in r.position[d][q2]
               PROVE  c = d /\ q1 = q2
    OBVIOUS
  <2>1. CASE x \in Q /\ x \notin P
    BY <1>0, <1>1, <1>4, <2>1
  <2>2. CASE x \notin Q
    BY <1>1, <2>2 DEF MenTold
  <2>3. CASE x \in Q /\ x \in P
    BY <1>1, <1>5, <2>3
  <2> QED
    BY <2>1, <2>2, <2>3
<1> QED
  BY <1>6, <1>7, <1>8, <1>9 DEF MenTold

LEMMA MaterialChange ==
  ASSUME NEW b \in Boards, NEW r \in Boards, NEW s \in Colors, NEW p \in Pieces,
         NEW P, NEW Q \in SUBSET Squares, Repositioned(b, r, s, p, P, Q), MaterialTold(b)
  PROVE  MaterialTold(r)
<1>0. P = b.position[s][p]
  BY DEF Repositioned
<1>1. \A c \in Colors : \A q \in Pieces :
        r.position[c][q] = IF c = s /\ q = p THEN Q ELSE b.position[c][q]
  BY DEF Repositioned
<1>2. \A c \in Colors : r.material[c] =
        IF c = s THEN b.material[c] + mat_values[p] * (Cardinality(Q) - Cardinality(P))
        ELSE b.material[c]
  BY DEF Repositioned
<1>3. SUFFICES ASSUME NEW c \in Colors
               PROVE  r.material[c] = MaterialOf(r, c)
  BY DEF MaterialTold
<1>4. b.material[c] = MaterialOf(b, c)
  BY DEF MaterialTold
<1>5. /\ Cardinality(Q) \in Nat
      /\ \A q \in Pieces : Cardinality(b.position[c][q]) \in Nat
  <2>1. b.position[c] \in [Pieces -> SUBSET Squares] /\ 0 \in Squares
    BY DEF Boards, Squares
  <2> QED
    BY <2>1, Counting
<1>6. PAWN \in Pieces /\ KNIGHT \in Pieces /\ BISHOP \in Pieces /\ ROOK \in Pieces
        /\ QUEEN \in Pieces
  BY DEF Pieces, PAWN, KNIGHT, BISHOP, ROOK, QUEEN, KING
<1>7. CASE c # s
  BY <1>1, <1>2, <1>4, <1>6, <1>7 DEF MaterialOf
<1>8. CASE c = s /\ p = KING
  <2>1. r.material[c] = b.material[c]
    BY <1>0, <1>2, <1>5, <1>8, Worths DEF Boards
  <2>2. \A q \in {PAWN, KNIGHT, BISHOP, ROOK, QUEEN} : r.position[c][q] = b.position[c][q]
    BY <1>1, <1>6, <1>8 DEF PAWN, KNIGHT, BISHOP, ROOK, QUEEN, KING
  <2> QED
    BY <1>4, <2>1, <2>2 DEF MaterialOf
<1>9. CASE c = s /\ p # KING
  <2> DEFINE W(f) == 100 * f[PAWN] + 300 * f[KNIGHT] + 325 * f[BISHOP] + 500 * f[ROOK] + 900 * f[QUEEN]
             old == [q \in Pieces |-> Cardinality(b.position[c][q])]
             new == [q \in Pieces |-> Cardinality(r.position[c][q])]
  <2>1. MaterialOf(b, c) = W(old) /\ MaterialOf(r, c) = W(new)
    BY <1>6, Worths DEF MaterialOf
  <2>2. old \in [Pieces -> Nat] /\ new = [old EXCEPT ![p] = Cardinality(Q)]
    BY <1>1, <1>5, <1>9
  <2>3. r.material[c] = W(old) + mat_values[p] * (Cardinality(Q) - old[p])
    BY <1>0, <1>2, <1>4, <1>9, <2>1
  <2>4. p \in {PAWN, KNIGHT, BISHOP, ROOK, QUEEN}
    BY <1>9 DEF Pieces, PAWN, KNIGHT, BISHOP, ROOK, QUEEN, KING
  <2>5. W(new) = W(old) + mat_values[p] * (Cardinality(Q) - old[p])
    <3> HIDE DEF old, new
    <3> QED
      BY <1>5, <1>6, <2>2, <2>4, Worths DEF PAWN, KNIGHT, BISHOP, ROOK, QUEEN
  <2> QED
    BY <2>1, <2>3, <2>5
<1> QED
  BY <1>7, <1>8, <1>9

LEMMA HashChange ==
  ASSUME NEW b \in Boards, NEW r \in Boards, NEW s \in Colors, NEW p \in Pieces,
         NEW P, NEW Q \in SUBSET Squares, Repositioned(b, r, s, p, P, Q),
         HashTold(b), PawnHashTold(b)
  PROVE  HashTold(r) /\ PawnHashTold(r)
<1> DEFINE D == SymDiff(P, Q)
           keys == {Key(s, p, x) : x \in D}
<1>0. /\ P = b.position[s][p]
      /\ r.side = b.side /\ r.flags = b.flags /\ r.epsq = b.epsq
      /\ r.hashkey = SymDiff(b.hashkey, keys)
      /\ r.pawnhashkey = IF p = PAWN THEN SymDiff(b.pawnhashkey, keys) ELSE b.pawnhashkey
  BY DEF Repositioned
<1>a. P \in SUBSET Squares /\ D \in SUBSET Squares
  BY <1>0 DEF Boards, SymDiff
<1>7. \A x \in Squares : x \in Q <=> ~(x \in P <=> x \in D)
  BY DEF SymDiff
<1> HIDE DEF D
<1>1. \A c \in Colors : \A q \in Pieces :
        r.position[c][q] = IF c = s /\ q = p THEN Q ELSE b.position[c][q]
  BY DEF Repositioned
<1>2. \A c \in Colors : \A q \in Pieces : \A x \in Squares :
        Key(c, q, x) \in keys <=> c = s /\ q = p /\ x \in D
  BY <1>a, KeysDiffer, "WKCASTLE" \in Flags DEF Flags
<1>3. /\ \A f \in Flags : FlagKey(f) \notin keys
      /\ \A x \in Squares : EpKey(x) \notin keys
      /\ SideKey \notin keys
  <2>1. "WKCASTLE" \in Flags /\ 0 \in Squares
    BY DEF Flags, Squares
  <2> QED
    BY <1>a, <2>1, KeysDiffer
<1>4. PAWN \in Pieces /\ (p = PAWN => keys \subseteq PawnKeys)
  BY <1>a DEF Pieces, PAWN, KING, PawnKeys
<1> HIDE DEF keys
<1>6. \A x : x \in r.hashkey <=> ~(x \in b.hashkey <=> x \in keys)
  BY <1>0 DEF SymDiff
<1>8. HashTold(r)
  <2>1. \A c \in Colors : \A q \in Pieces : \A x \in Squares :
          Key(c, q, x) \in r.hashkey <=> x \in r.position[c][q]
    BY <1>0, <1>1, <1>2, <1>6, <1>7 DEF HashTold
  <2> QED
    BY <2>1, <1>0, <1>3, <1>6 DEF HashTold
<1>9. PawnHashTold(r)
  <2>1. CASE p # PAWN
    BY <1>1, <1>4, <1>0, <2>1 DEF PawnHashTold
  <2>2. CASE p = PAWN
    <3>1. \A x : x \in r.pawnhashkey <=> ~(x \in b.pawnhashkey <=> x \in keys)
      BY <1>0, <2>2 DEF SymDiff
    <3>2. \A c \in Colors : \A x \in Squares :
            Key(c, PAWN, x) \in r.pawnhashkey <=> x \in r.position[c][PAWN]
      BY <1>0, <1>1, <1>2, <1>4, <1>7, <2>2, <3>1 DEF PawnHashTold
    <3>3. r.pawnhashkey \subseteq PawnKeys
      BY <1>4, <2>2, <3>1 DEF PawnHashTold
    <3> QED
      BY <3>1, <3>2, <3>3, <1>0, <1>3 DEF PawnHashTold
  <2> QED
    BY <2>1, <2>2
<1> QED
  BY <1>8, <1>9

-----------------------------------------------------------------------------
(***************************************************************************)
(* The elementary changes of a board keep it sound.                         *)
(***************************************************************************)
LEMMA ChangeSound ==
  ASSUME NEW b \in Boards, NEW r \in Boards, NEW s \in Colors, NEW p \in Pieces,
         NEW P, NEW Q \in SUBSET Squares, Repositioned(b, r, s, p, P, Q), Sound(b)
  PROVE  Sound(r)
BY MenChange, MaterialChange, HashChange DEF Sound

LEMMA MenOccupy ==
  ASSUME NEW b \in Boards, Sound(b), NEW s \in Colors, NEW p \in Pieces
  PROVE  /\ b.position[s][p] \in SUBSET Squares
         /\ b.position[s][p] \subseteq b.position_all[s]
         /\ b.position_all[s] \subseteq b.occupied
<1>1. b.position[s][p] \in SUBSET Squares
  BY DEF Boards
<1> QED
  BY <1>1 DEF Sound, MenTold, Colors, WHITE, BLACK

LEMMA MoveSound ==
  ASSUME NEW b \in Boards, Sound(b), NEW from \in Squares, NEW to \in Squares,
         NEW s \in Colors, NEW p \in Pieces, from \in b.position[s][p], to \notin b.occupied
  PROVE  /\ Sound(move_piece(b, from, to, s, p))
         /\ Repositioned(b, move_piece(b, from, to, s, p), s, p, b.position[s][p],
                         (b.position[s][p] \ {from}) \cup {to})
<1> DEFINE r == move_piece(b, from, to, s, p)
           P == b.position[s][p]
           Q == (P \ {from}) \cup {to}
<1>1. /\ r \in Boards
      /\ r.position = [b.position EXCEPT ![s][p] = Q]
      /\ r.position_all = [b.position_all EXCEPT ![s] = (@ \ {from}) \cup {to}]
      /\ r.occupied = (b.occupied \ {from}) \cup {to}
      /\ r.king = [b.king EXCEPT ![s] = IF p = KING THEN to ELSE @]
      /\ r.material = b.material
      /\ r.side = b.side /\ r.flags = b.flags /\ r.epsq = b.epsq
      /\ r.hashkey = SymDiff(b.hashkey, {Key(s, p, x) : x \in {from, to}})
      /\ r.pawnhashkey = IF p = PAWN THEN SymDiff(b.pawnhashkey, {Key(s, p, x) : x \in {from, to}})
                         ELSE b.pawnhashkey
  <2> DEFINE keys == {Key(s, p, sq) : sq \in {from, to}}
             position == [b.position EXCEPT ![s][p] = (@ \ {from}) \cup {to}]
             all == [b.position_all EXCEPT ![s] = (@ \ {from}) \cup {to}]
             king == [b.king EXCEPT ![s] = IF p = KING THEN to ELSE @]
             occupied == (b.occupied \ {from}) \cup {to}
             hash == SymDiff(b.hashkey, keys)
             pawnhash == IF p = PAWN THEN SymDiff(b.pawnhashkey, keys) ELSE b.pawnhashkey
  <2>1. keys \in SUBSET Keys
    BY DEF Keys
  <2>2. /\ position \in [Colors -> [Pieces -> SUBSET Squares]] /\ all \in [Colors -> SUBSET Squares]
        /\ occupied \in SUBSET Squares /\ king \in [Colors -> Squares]
    BY DEF Boards
  <2>3. hash \in SUBSET Keys /\ pawnhash \in SUBSET Keys
    <3> HIDE DEF keys
    <3> QED
      BY <2>1 DEF SymDiff, Boards
  <2>4. r = [b EXCEPT !.position = position, !.position_all = all, !.occupied = occupied,
                      !.king = king, !.hashkey = hash, !.pawnhashkey = pawnhash]
    BY DEF Boards, move_piece, Rekey
  <2>5. r \in Boards /\ r.position = position /\ r.position_all = all /\ r.occupied = occupied
        /\ r.king = king /\ r.material = b.material
        /\ r.side = b.side /\ r.flags = b.flags /\ r.epsq = b.epsq
        /\ r.hashkey = hash /\ r.pawnhashkey = pawnhash
    <3> HIDE DEF position, all, occupied, king, hash, pawnhash, r
    <3> QED
      BY <2>2, <2>3, <2>4 DEF Boards
  <2> QED
    BY <2>5
<1> HIDE DEF r
<1>2. P \in SUBSET Squares /\ P \subseteq b.position_all[s] /\ P \subseteq b.occupied
  BY MenOccupy
<1>3. Q \in SUBSET Squares /\ Q \cap b.occupied \subseteq P /\ to \notin P
  BY <1>2
<1>4. SymDiff(P, Q) = {from, to}
  BY <1>3 DEF SymDiff
<1>p. \A c \in Colors : \A q \in Pieces :
        r.position[c][q] = IF c = s /\ q = p THEN Q ELSE b.position[c][q]
  <2>1. b.position \in [Colors -> [Pieces -> SUBSET Squares]]
    BY DEF Boards
  <2> QED
    BY ONLY <1>1, <2>1, s \in Colors, p \in Pieces
<1>5. \A c \in Colors : r.position_all[c] =
        IF c = s THEN (b.position_all[c] \ P) \cup Q ELSE b.position_all[c]
  <2>1. (b.position_all[s] \ P) \cup Q = (b.position_all[s] \ {from}) \cup {to}
    BY <1>2
  <2> HIDE DEF P, Q
  <2>2. r.position_all[s] = (b.position_all[s] \ P) \cup Q
    BY <1>1, <2>1 DEF Boards
  <2> QED
    BY <1>1, <2>2 DEF Boards
<1>6. r.occupied = (b.occupied \ P) \cup Q
  BY <1>1, <1>2
<1>7. \A c \in Colors : c # s \/ p # KING => r.king[c] = b.king[c]
  BY <1>1 DEF Boards
<1>8. p = KING => Q = {r.king[s]}
  <2>1. p = KING => P = {from}
    BY DEF Sound, MenTold
  <2> QED
    BY <1>1, <2>1 DEF Boards
<1>9. \A c \in Colors : r.material[c] =
        IF c = s THEN b.material[c] + mat_values[p] * (Cardinality(Q) - Cardinality(P))
        ELSE b.material[c]
  <2>1. Cardinality(P) \in Nat /\ Cardinality(Q) = Cardinality(P)
    <3>1. Cardinality(P) \in Nat /\ Cardinality(P \ {from}) = Cardinality(P) - 1
      BY <1>2, Counting
    <3>2. Cardinality((P \ {from}) \cup {to}) = Cardinality(P \ {from}) + 1
      BY <1>2, <1>3, Counting
    <3> QED
      BY <3>1, <3>2
  <2> HIDE DEF Q
  <2>2. mat_values[p] * (Cardinality(Q) - Cardinality(P)) = 0
    BY <2>1, Worths
  <2> QED
    BY <1>1, <2>2 DEF Boards
<1>10. Repositioned(b, r, s, p, P, Q)
  <2> HIDE DEF Q
  <2> QED
    BY <1>1, <1>3, <1>4, <1>p, <1>5, <1>6, <1>7, <1>8, <1>9 DEF Repositioned
<1>11. Sound(r)
  <2> HIDE DEF P, Q
  <2> QED
    BY <1>1, <1>3, <1>10, ChangeSound
<1> QED
  BY <1>10, <1>11 DEF r

LEMMA RemoveSound ==
  ASSUME NEW b \in Boards, Sound(b), NEW sq \in Squares, NEW s \in Colors, NEW p \in Pieces,
         p # KING, sq \in b.position[s][p]
  PROVE  /\ Sound(remove_piece(b, sq, s, p))
         /\ Repositioned(b, remove_piece(b, sq, s, p), s, p, b.position[s][p],
                         b.position[s][p] \ {sq})
<1> DEFINE r == remove_piece(b, sq, s, p)
           P == b.position[s][p]
           Q == P \ {sq}
<1>1. /\ r \in Boards
      /\ r.position = [b.position EXCEPT ![s][p] = Q]
      /\ r.position_all = [b.position_all EXCEPT ![s] = @ \ {sq}]
      /\ r.occupied = b.occupied \ {sq}
      /\ r.king = b.king
      /\ r.material = [b.material EXCEPT ![s] = @ - mat_values[p]]
      /\ r.side = b.side /\ r.flags = b.flags /\ r.epsq = b.epsq
      /\ r.hashkey = SymDiff(b.hashkey, {Key(s, p, x) : x \in {sq}})
      /\ r.pawnhashkey = IF p = PAWN THEN SymDiff(b.pawnhashkey, {Key(s, p, x) : x \in {sq}})
                         ELSE b.pawnhashkey
  <2> DEFINE keys == {Key(s, p, x) : x \in {sq}}
             position == [b.position EXCEPT ![s][p] = @ \ {sq}]
             all == [b.position_all EXCEPT ![s] = @ \ {sq}]
             occupied == b.occupied \ {sq}
             material == [b.material EXCEPT ![s] = @ - mat_values[p]]
             hash == SymDiff(b.hashkey, keys)
             pawnhash == IF p = PAWN THEN SymDiff(b.pawnhashkey, keys) ELSE b.pawnhashkey
  <2>1. keys \in SUBSET Keys
    BY DEF Keys
  <2>2. /\ position \in [Colors -> [Pieces -> SUBSET Squares]] /\ all \in [Colors -> SUBSET Squares]
        /\ occupied \in SUBSET Squares /\ material \in [Colors -> Int]
    BY Worths DEF Boards
  <2>3. hash \in SUBSET Keys /\ pawnhash \in SUBSET Keys
    <3> HIDE DEF keys
    <3> QED
      BY <2>1 DEF SymDiff, Boards
  <2>4. [b.king EXCEPT ![s] = @] = b.king
    BY DEF Boards
  <2>5. r = [b EXCEPT !.position = position, !.position_all = all, !.occupied = occupied,
                      !.king = [b.king EXCEPT ![s] = @], !.material = material,
                      !.hashkey = hash, !.pawnhashkey = pawnhash]
    BY DEF Boards, remove_piece, Rekey
  <2>6. r \in Boards /\ r.position = position /\ r.position_all = all /\ r.occupied = occupied
        /\ r.king = b.king /\ r.material = material
        /\ r.side = b.side /\ r.flags = b.flags /\ r.epsq = b.epsq
        /\ r.hashkey = hash /\ r.pawnhashkey = pawnhash
    <3> DEFINE king == [b.king EXCEPT ![s] = @]
    <3> HIDE DEF position, all, occupied, material, hash, pawnhash, r, king
    <3> QED
      BY <2>2, <2>3, <2>4, <2>5 DEF Boards, king
  <2> QED
    BY <2>6
<1> HIDE DEF r
<1>2. P \in SUBSET Squares /\ P \subseteq b.position_all[s] /\ P \subseteq b.occupied
  BY MenOccupy
<1>3. Q \in SUBSET Squares /\ Q \cap b.occupied \subseteq P
  BY <1>2
<1>4. SymDiff(P, Q) = {sq}
  BY <1>3 DEF SymDiff
<1>p. \A c \in Colors : \A q \in Pieces :
        r.position[c][q] = IF c = s /\ q = p THEN Q ELSE b.position[c][q]
  <2>1. b.position \in [Colors -> [Pieces -> SUBSET Squares]]
    BY DEF Boards
  <2> QED
    BY ONLY <1>1, <2>1, s \in Colors, p \in Pieces
<1>5. \A c \in Colors : r.position_all[c] =
        IF c = s THEN (b.position_all[c] \ P) \cup Q ELSE b.position_all[c]
  <2>1. (b.position_all[s] \ P) \cup Q = b.position_all[s] \ {sq}
    BY <1>2
  <2> HIDE DEF P, Q
  <2>2. r.position_all[s] = (b.position_all[s] \ P) \cup Q
    BY <1>1, <2>1 DEF Boards
  <2> QED
    BY <1>1, <2>2 DEF Boards
<1>6. r.occupied = (b.occupied \ P) \cup Q
  BY <1>1, <1>2
<1>7. \A c \in Colors : r.material[c] =
        IF c = s THEN b.material[c] + mat_values[p] * (Cardinality(Q) - Cardinality(P))
        ELSE b.material[c]
  <2>1. Cardinality(P) \in Nat /\ Cardinality(Q) = Cardinality(P) - 1
    BY <1>2, Counting
  <2>2. mat_values[p] * (Cardinality(Q) - Cardinality(P)) = -mat_values[p]
    <3> HIDE DEF P, Q
    <3> QED
      BY <2>1, Worths
  <2> HIDE DEF P, Q
  <2>3. b.material[s] - mat_values[p]
          = b.material[s] + mat_values[p] * (Cardinality(Q) - Cardinality(P))
    BY <2>2, Worths DEF Boards
  <2> QED
    BY <1>1, <2>3 DEF Boards
<1>8. Repositioned(b, r, s, p, P, Q)
  <2> HIDE DEF Q
  <2> QED
    BY <1>1, <1>3, <1>4, <1>p, <1>5, <1>6, <1>7 DEF Repositioned
<1>9. Sound(r)
  <2> HIDE DEF P, Q
  <2> QED
    BY <1>1, <1>3, <1>8, ChangeSound
<1> QED
  BY <1>8, <1>9 DEF r

LEMMA PlaceSound ==
  ASSUME NEW b \in Boards, Sound(b), NEW sq \in Squares, NEW s \in Colors, NEW p \in Pieces,
         p # KING, sq \notin b.occupied
  PROVE  /\ Sound(place_piece(b, sq, s, p))
         /\ Repositioned(b, place_piece(b, sq, s, p), s, p, b.position[s][p],
                         b.position[s][p] \cup {sq})
<1> DEFINE r == place_piece(b, sq, s, p)
           P == b.position[s][p]
           Q == P \cup {sq}
<1>1. /\ r \in Boards
      /\ r.position = [b.position EXCEPT ![s][p] = Q]
      /\ r.position_all = [b.position_all EXCEPT ![s] = @ \cup {sq}]
      /\ r.occupied = b.occupied \cup {sq}
      /\ r.king = b.king
      /\ r.material = [b.material EXCEPT ![s] = @ + mat_values[p]]
      /\ r.side = b.side /\ r.flags = b.flags /\ r.epsq = b.epsq
      /\ r.hashkey = SymDiff(b.hashkey, {Key(s, p, x) : x \in {sq}})
      /\ r.pawnhashkey = IF p = PAWN THEN SymDiff(b.pawnhashkey, {Key(s, p, x) : x \in {sq}})
                         ELSE b.pawnhashkey
  <2> DEFINE keys == {Key(s, p, x) : x \in {sq}}
             position == [b.position EXCEPT ![s][p] = @ \cup {sq}]
             all == [b.position_all EXCEPT ![s] = @ \cup {sq}]
             occupied == b.occupied \cup {sq}
             material == [b.material EXCEPT ![s] = @ + mat_values[p]]
             hash == SymDiff(b.hashkey, keys)
             pawnhash == IF p = PAWN THEN SymDiff(b.pawnhashkey, keys) ELSE b.pawnhashkey
  <2>1. keys \in SUBSET Keys
    BY DEF Keys
  <2>2. /\ position \in [Colors -> [Pieces -> SUBSET Squares]] /\ all \in [Colors -> SUBSET Squares]
        /\ occupied \in SUBSET Squares /\ material \in [Colors -> Int]
    BY Worths DEF Boards
  <2>3. hash \in SUBSET Keys /\ pawnhash \in SUBSET Keys
    <3> HIDE DEF keys
    <3> QED
      BY <2>1 DEF SymDiff, Boards
  <2>4. [b.king EXCEPT ![s] = @] = b.king
    BY DEF Boards
  <2>5. r = [b EXCEPT !.position = position, !.position_all = all, !.occupied = occupied,
                      !.king = [b.king EXCEPT ![s] = @], !.material = material,
                      !.hashkey = hash, !.pawnhashkey = pawnhash]
    BY DEF Boards, place_piece, Rekey
  <2>6. r \in Boards /\ r.position = position /\ r.position_all = all /\ r.occupied = occupied
        /\ r.king = b.king /\ r.material = material
        /\ r.side = b.side /\ r.flags = b.flags /\ r.epsq = b.epsq
        /\ r.hashkey = hash /\ r.pawnhashkey = pawnhash
    <3> DEFINE king == [b.king EXCEPT ![s] = @]
    <3> HIDE DEF position, all, occupied, material, hash, pawnhash, r, king
    <3> QED
      BY <2>2, <2>3, <2>4, <2>5 DEF Boards, king
  <2> QED
    BY <2>6
<1> HIDE DEF r
<1>2. P \in SUBSET Squares /\ P \subseteq b.position_all[s] /\ P \subseteq b.occupied
  BY MenOccupy
<1>3. Q \in SUBSET Squares /\ Q \cap b.occupied \subseteq P /\ sq \notin P
  BY <1>2
<1>4. SymDiff(P, Q) = {sq}
  BY <1>3 DEF SymDiff
<1>p. \A c \in Colors : \A q \in Pieces :
        r.position[c][q] = IF c = s /\ q = p THEN Q ELSE b.position[c][q]
  <2>1. b.position \in [Colors -> [Pieces -> SUBSET Squares]]
    BY DEF Boards
  <2> QED
    BY ONLY <1>1, <2>1, s \in Colors, p \in Pieces
<1>5. \A c \in Colors : r.position_all[c] =
        IF c = s THEN (b.position_all[c] \ P) \cup Q ELSE b.position_all[c]
  <2>1. (b.position_all[s] \ P) \cup Q = b.position_all[s] \cup {sq}
    BY <1>2
  <2> HIDE DEF P, Q
  <2>2. r.position_all[s] = (b.position_all[s] \ P) \cup Q
    BY <1>1, <2>1 DEF Boards
  <2> QED
    BY <1>1, <2>2 DEF Boards
<1>6. r.occupied = (b.occupied \ P) \cup Q
  BY <1>1, <1>2
<1>7. \A c \in Colors : r.material[c] =
        IF c = s THEN b.material[c] + mat_values[p] * (Cardinality(Q) - Cardinality(P))
        ELSE b.material[c]
  <2>1. Cardinality(P) \in Nat /\ Cardinality(Q) = Cardinality(P) + 1
    BY <1>2, <1>3, Counting
  <2>2. mat_values[p] * (Cardinality(Q) - Cardinality(P)) = mat_values[p]
    <3> HIDE DEF P, Q
    <3> QED
      BY <2>1, Worths
  <2> HIDE DEF P, Q
  <2>3. b.material[s] + mat_values[p]
          = b.material[s] + mat_values[p] * (Cardinality(Q) - Cardinality(P))
    BY <2>2, Worths DEF Boards
  <2> QED
    BY <1>1, <2>3 DEF Boards
<1>8. Repositioned(b, r, s, p, P, Q)
  <2> HIDE DEF Q
  <2> QED
    BY <1>1, <1>3, <1>4, <1>p, <1>5, <1>6, <1>7 DEF Repositioned
<1>9. Sound(r)
  <2> HIDE DEF P, Q
  <2> QED
    BY <1>1, <1>3, <1>8, ChangeSound
<1> QED
  BY <1>8, <1>9 DEF r

-----------------------------------------------------------------------------
(***************************************************************************)
(* Flags, en passant square, side and counts change, and the men stay.      *)
(***************************************************************************)
SameMen(b, r) ==
  /\ r.position = b.position /\ r.position_all = b.position_all /\ r.occupied = b.occupied
  /\ r.king = b.king /\ r.material = b.material

LEMMA SameMenTold ==
  ASSUME NEW b \in Boards, NEW r \in Boards, SameMen(b, r), MenTold(b), MaterialTold(b)
  PROVE  MenTold(r) /\ MaterialTold(r)
BY DEF SameMen, MenTold, MaterialTold, MaterialOf

LEMMA ClearFlagsSound ==
  ASSUME NEW b \in Boards, Sound(b), NEW old \in SUBSET Flags
  PROVE  LET r == clear_flags(b, old)
         IN  /\ Sound(r) /\ SameMen(b, r)
             /\ r.side = b.side /\ r.epsq = b.epsq /\ r.flags = b.flags \ old
<1> DEFINE r == clear_flags(b, old)
           keys == {FlagKey(f) : f \in old \cap b.flags}
           hash == SymDiff(b.hashkey, keys)
<1>1. keys \in SUBSET Keys
  BY DEF Keys
<1>2. /\ \A c \in Colors : \A p \in Pieces : \A x \in Squares : Key(c, p, x) \notin keys
      /\ \A f \in Flags : FlagKey(f) \in keys <=> f \in old \cap b.flags
      /\ \A x \in Squares : EpKey(x) \notin keys
      /\ SideKey \notin keys
  <2>1. WHITE \in Colors /\ PAWN \in Pieces /\ 0 \in Squares
    BY DEF Colors, Pieces, PAWN, KING, Squares
  <2> QED
    BY <2>1, KeysDiffer
<1>3. r = [b EXCEPT !.flags = b.flags \ old, !.hashkey = hash]
  BY DEF clear_flags, Boards
<1> HIDE DEF keys, r
<1>4. hash \in SUBSET Keys /\ b.flags \ old \in SUBSET Flags
  BY <1>1 DEF SymDiff, Boards
<1>5. \A x : x \in hash <=> ~(x \in b.hashkey <=> x \in keys)
  BY DEF SymDiff
<1> HIDE DEF hash
<1>6. /\ r \in Boards /\ SameMen(b, r) /\ r.side = b.side /\ r.epsq = b.epsq
      /\ r.flags = b.flags \ old /\ r.hashkey = hash /\ r.pawnhashkey = b.pawnhashkey
      /\ r.position = b.position
  BY <1>3, <1>4 DEF Boards, SameMen
<1>7. HashTold(r)
  BY <1>2, <1>5, <1>6 DEF Sound, HashTold
<1>8. PawnHashTold(r)
  BY <1>6 DEF Sound, PawnHashTold
<1>9. MenTold(r) /\ MaterialTold(r)
  BY <1>6, SameMenTold DEF Sound
<1> QED
  BY <1>6, <1>7, <1>8, <1>9 DEF Sound, r

LEMMA EpSquareSound ==
  ASSUME NEW b \in Boards, Sound(b), NEW sq \in Squares \cup {NO_SQUARE}
  PROVE  LET r == set_epsq(b, sq)
         IN  /\ Sound(r) /\ SameMen(b, r)
             /\ r.side = b.side /\ r.flags = b.flags /\ r.epsq = sq
<1> DEFINE r == set_epsq(b, sq)
           hash == SymDiff(SymDiff(b.hashkey, EpKeys(b.epsq)), EpKeys(sq))
<1>1. \A e \in Squares \cup {NO_SQUARE} :
        /\ EpKeys(e) \in SUBSET Keys
        /\ \A c \in Colors : \A p \in Pieces : \A x \in Squares : Key(c, p, x) \notin EpKeys(e)
        /\ \A f \in Flags : FlagKey(f) \notin EpKeys(e)
        /\ \A x \in Squares : EpKey(x) \in EpKeys(e) <=> x = e
        /\ SideKey \notin EpKeys(e)
  <2> SUFFICES ASSUME NEW e \in Squares \cup {NO_SQUARE}
               PROVE  /\ EpKeys(e) \in SUBSET Keys
                      /\ \A c \in Colors : \A p \in Pieces : \A x \in Squares :
                           Key(c, p, x) \notin EpKeys(e)
                      /\ \A f \in Flags : FlagKey(f) \notin EpKeys(e)
                      /\ \A x \in Squares : EpKey(x) \in EpKeys(e) <=> x = e
                      /\ SideKey \notin EpKeys(e)
    OBVIOUS
  <2>1. WHITE \in Colors /\ PAWN \in Pieces /\ 0 \in Squares /\ "WKCASTLE" \in Flags
    BY DEF Colors, Pieces, PAWN, KING, Squares, Flags
  <2>2. CASE e = NO_SQUARE
    BY <2>2 DEF EpKeys, NO_SQUARE, Squares
  <2>3. CASE e \in Squares
    <3>1. EpKeys(e) = {EpKey(e)}
      BY <2>3 DEF EpKeys, NO_SQUARE, Squares
    <3>2. EpKey(e) \in Keys
      BY <2>3 DEF Keys
    <3> QED
      BY <2>1, <2>3, <3>1, <3>2, KeysDiffer
  <2> QED
    BY <2>2, <2>3
<1>2. b.epsq \in Squares \cup {NO_SQUARE}
  BY DEF Boards
<1>3. r = [b EXCEPT !.epsq = sq, !.hashkey = hash]
  BY DEF set_epsq, Boards
<1> HIDE DEF r
<1>4. hash \in SUBSET Keys
  BY <1>1, <1>2 DEF SymDiff, Boards
<1>5. \A x : x \in hash <=> ~(~(x \in b.hashkey <=> x \in EpKeys(b.epsq)) <=> x \in EpKeys(sq))
  BY DEF SymDiff
<1> HIDE DEF hash
<1>6. /\ r \in Boards /\ SameMen(b, r) /\ r.side = b.side /\ r.epsq = sq
      /\ r.flags = b.flags /\ r.hashkey = hash /\ r.pawnhashkey = b.pawnhashkey
      /\ r.position = b.position
  BY <1>3, <1>4 DEF Boards, SameMen
<1>7. HashTold(r)
  BY <1>1, <1>2, <1>5, <1>6 DEF Sound, HashTold
<1>8. PawnHashTold(r)
  BY <1>6 DEF Sound, PawnHashTold
<1>9. MenTold(r) /\ MaterialTold(r)
  BY <1>6, SameMenTold DEF Sound
<1> QED
  BY <1>6, <1>7, <1>8, <1>9 DEF Sound, r

LEMMA SwitchSound ==
  ASSUME NEW b \in Boards, Sound(b)
  PROVE  LET r == switch_sides(b)
         IN  /\ Sound(r) /\ SameMen(b, r)
             /\ r.side = XSIDE(b.side) /\ r.flags = b.flags /\ r.epsq = b.epsq
<1> DEFINE r == switch_sides(b)
           hash == SymDiff(b.hashkey, {SideKey})
           pawnhash == SymDiff(b.pawnhashkey, {SideKey})
<1>1. hash \in SUBSET Keys /\ pawnhash \in SUBSET Keys
  <2>1. {SideKey} \in SUBSET Keys
    BY DEF Keys
  <2> QED
    BY <2>1 DEF SymDiff, Boards
<1>2. XSIDE(b.side) \in Colors /\ (XSIDE(b.side) = BLACK <=> b.side # BLACK)
  BY DEF Boards, Colors, WHITE, BLACK, XSIDE
<1>3. /\ \A x : x \in hash <=> ~(x \in b.hashkey <=> x = SideKey)
      /\ \A x : x \in pawnhash <=> ~(x \in b.pawnhashkey <=> x = SideKey)
  BY DEF SymDiff
<1>4. /\ \A c \in Colors : \A p \in Pieces : \A x \in Squares : Key(c, p, x) # SideKey
      /\ \A f \in Flags : FlagKey(f) # SideKey
      /\ \A x \in Squares : EpKey(x) # SideKey
  <2>1. WHITE \in Colors /\ PAWN \in Pieces /\ 0 \in Squares /\ "WKCASTLE" \in Flags
    BY DEF Colors, Pieces, PAWN, KING, Squares, Flags
  <2> QED
    BY <2>1, KeysDiffer
<1>5. r = [b EXCEPT !.side = XSIDE(b.side), !.hashkey = hash, !.pawnhashkey = pawnhash]
  BY DEF switch_sides, Boards
<1> HIDE DEF r, hash, pawnhash
<1>6. /\ r \in Boards /\ SameMen(b, r) /\ r.side = XSIDE(b.side) /\ r.epsq = b.epsq
      /\ r.flags = b.flags /\ r.hashkey = hash /\ r.pawnhashkey = pawnhash
      /\ r.position = b.position
  BY <1>1, <1>2, <1>5 DEF Boards, SameMen
<1>7. HashTold(r)
  BY <1>2, <1>3, <1>4, <1>6 DEF Sound, HashTold
<1>8. PawnHashTold(r)
  <2>1. PAWN \in Pieces /\ SideKey \in PawnKeys
    BY DEF Pieces, PAWN, KING, PawnKeys
  <2> QED
    BY <1>2, <1>3, <1>4, <1>6, <2>1 DEF Sound, PawnHashTold
<1>9. MenTold(r) /\ MaterialTold(r)
  BY <1>6, SameMenTold DEF Sound
<1> QED
  BY <1>6, <1>7, <1>8, <1>9 DEF Sound, r

\* Boards that differ in counts only.
LEMMA CountsSound ==
  ASSUME NEW b \in Boards, Sound(b), NEW r \in Boards, SameMen(b, r),
         r.side = b.side, r.flags = b.flags, r.epsq = b.epsq,
         r.hashkey = b.hashkey, r.pawnhashkey = b.pawnhashkey
  PROVE  Sound(r)
<1>1. MenTold(r) /\ MaterialTold(r)
  BY SameMenTold DEF Sound
<1>2. r.position = b.position
  BY DEF SameMen
<1> QED
  BY <1>1, <1>2 DEF Sound, HashTold, PawnHashTold

-----------------------------------------------------------------------------
(***************************************************************************)
(* The fields of the moves that generators build.                           *)
(***************************************************************************)
LEMMA Words ==
  ASSUME NEW from \in Squares, NEW to \in Squares, NEW p \in Pieces, NEW cap, NEW flags
  PROVE  LET m == Move(from, to, p, cap, flags)
         IN  /\ m.from = from /\ m.to = to /\ m.piece = p /\ m.flags = flags
             /\ cap \in Pieces => m.cap_ptype = cap
BY DEF Move, Squares, Pieces, PAWN, KING

LEMMA NormalParts ==
  ASSUME NEW from \in Squares, NEW to \in Squares, NEW p \in Pieces
  PROVE  LET m == Normal(from, to, p)
         IN  /\ m.from = from /\ m.to = to /\ m.piece = p /\ ptype(m) = p
             /\ Is(m, "NORMAL") /\ ~Is(m, "CAPTURE") /\ ~Is(m, "PROMOTION") /\ ~Is(m, "CASTLE")
             /\ ~Is(m, "ENPASSANT") /\ ~Is(m, "NULL")
BY Words DEF Normal, Is, ptype

LEMMA CaptureParts ==
  ASSUME NEW from \in Squares, NEW to \in Squares, NEW p \in Pieces, NEW cap \in Pieces
  PROVE  LET m == Capture(from, to, p, cap)
         IN  /\ m.from = from /\ m.to = to /\ m.piece = p /\ ptype(m) = p /\ m.cap_ptype = cap
             /\ Is(m, "CAPTURE") /\ ~Is(m, "PROMOTION") /\ ~Is(m, "CASTLE")
             /\ ~Is(m, "ENPASSANT") /\ ~Is(m, "NULL")
BY Words DEF Capture, Is, ptype

LEMMA EnPassantParts ==
  ASSUME NEW from \in Squares, NEW to \in Squares
  PROVE  LET m == EnPassant(from, to)
         IN  /\ m.from = from /\ m.to = to /\ m.piece = PAWN /\ ptype(m) = PAWN
             /\ Is(m, "ENPASSANT") /\ ~Is(m, "CAPTURE") /\ ~Is(m, "PROMOTION") /\ ~Is(m, "CASTLE")
             /\ ~Is(m, "NORMAL") /\ ~Is(m, "NULL")
<1>1. PAWN \in Pieces
  BY DEF Pieces, PAWN, KING
<1> QED
  BY <1>1, Words DEF EnPassant, Is, ptype

LEMMA PromotionParts ==
  ASSUME NEW from \in Squares, NEW to \in Squares, NEW p \in Pieces
  PROVE  LET m == Promotion(from, to, p)
         IN  /\ m.from = from /\ m.to = to /\ m.piece = p /\ ptype(m) = PAWN
             /\ Is(m, "PROMOTION") /\ ~Is(m, "CAPTURE") /\ ~Is(m, "CASTLE")
             /\ ~Is(m, "ENPASSANT") /\ ~Is(m, "NULL")
BY Words DEF Promotion, Is, ptype

LEMMA PromotionCaptureParts ==
  ASSUME NEW from \in Squares, NEW to \in Squares, NEW p \in Pieces, NEW cap \in Pieces
  PROVE  LET m == PromotionCapture(from, to, p, cap)
         IN  /\ m.from = from /\ m.to = to /\ m.piece = p /\ ptype(m) = PAWN /\ m.cap_ptype = cap
             /\ Is(m, "PROMOTION") /\ Is(m, "CAPTURE") /\ ~Is(m, "CASTLE")
             /\ ~Is(m, "ENPASSANT") /\ ~Is(m, "NULL")
BY Words DEF PromotionCapture, Is, ptype

LEMMA CastlingParts ==
  ASSUME NEW from \in Squares, NEW to \in Squares
  PROVE  LET m == Castling(from, to)
         IN  /\ m.from = from /\ m.to = to /\ m.piece = KING /\ ptype(m) = KING
             /\ Is(m, "CASTLE") /\ ~Is(m, "CAPTURE") /\ ~Is(m, "PROMOTION")
             /\ ~Is(m, "NORMAL") /\ ~Is(m, "ENPASSANT") /\ ~Is(m, "NULL")
<1>1. KING \in Pieces
  BY DEF Pieces, PAWN, KING
<1> QED
  BY <1>1, Words DEF Castling, Is, ptype

LEMMA NullParts ==
  /\ NullMove.from \in Squares /\ NullMove.to \in Squares /\ ptype(NullMove) \notin Pieces
  /\ Is(NullMove, "NULL") /\ ~Is(NullMove, "CAPTURE") /\ ~Is(NullMove, "PROMOTION")
  /\ ~Is(NullMove, "CASTLE") /\ ~Is(NullMove, "NORMAL") /\ ~Is(NullMove, "ENPASSANT")
<1>1. NO_SQUARE % 64 = 63 /\ NO_PIECE % 8 = 7
  <2>1. \A x, q, r \in Int : x = 64 * q + r /\ r \in 0 .. 63 /\ x = -1 => r = 63
    OBVIOUS
  <2>2. \A x, q, r \in Int : x = 8 * q + r /\ r \in 0 .. 7 /\ x = -1 => r = 7
    OBVIOUS
  <2>3. \A x \in Int : /\ x % 64 \in 0 .. 63 /\ x \div 64 \in Int
                      /\ x = 64 * (x \div 64) + (x % 64)
                      /\ x % 8 \in 0 .. 7 /\ x \div 8 \in Int /\ x = 8 * (x \div 8) + (x % 8)
    OBVIOUS
  <2>4. NO_SQUARE = -1 /\ NO_PIECE = -1 /\ NO_SQUARE \in Int /\ NO_PIECE \in Int
    BY DEF NO_SQUARE, NO_PIECE
  <2>5. NO_SQUARE % 64 = 63
    <3>1. /\ NO_SQUARE % 64 \in 0 .. 63 /\ NO_SQUARE \div 64 \in Int
          /\ NO_SQUARE = 64 * (NO_SQUARE \div 64) + (NO_SQUARE % 64)
      BY <2>3, <2>4
    <3> QED
      BY <3>1, <2>1, <2>4
  <2>6. NO_PIECE % 8 = 7
    <3>1. /\ NO_PIECE % 8 \in 0 .. 7 /\ NO_PIECE \div 8 \in Int
          /\ NO_PIECE = 8 * (NO_PIECE \div 8) + (NO_PIECE % 8)
      BY <2>3, <2>4
    <3> QED
      BY <3>1, <2>2, <2>4
  <2> QED
    BY <2>5, <2>6
<1>2. /\ NullMove.from = 63 /\ NullMove.to = 63 /\ NullMove.piece = 7
      /\ NullMove.flags = {"NULL"}
  BY <1>1 DEF NullMove, Move
<1>3. 63 \in Squares /\ 7 \notin Pieces
  BY DEF Squares, Pieces, PAWN, KING
<1> QED
  BY <1>2, <1>3 DEF Is, ptype

(***************************************************************************)
(* After the men have moved make_move() clears flags, sets the en passant   *)
(* square, switches sides and counts the move.                              *)
(***************************************************************************)
LEMMA LostFlagsType ==
  ASSUME NEW b, NEW m
  PROVE  LostFlags(b, m) \in SUBSET Flags
BY DEF LostFlags, FlagsOf, CornerFlags, Flags

LEMMA EpSquareType ==
  ASSUME NEW m, m.from \in Squares, m.to \in Squares
  PROVE  EpSquare(m) \in Squares \cup {NO_SQUARE}
BY DEF EpSquare, Squares

LEMMA MoveMade ==
  ASSUME NEW b \in Boards, NEW m, m.from \in Squares, m.to \in Squares,
         Sound(MovePieces(b, m)), MovePieces(b, m).side = b.side,
         MovePieces(b, m).flags = b.flags
  PROVE  LET r == make_move(b, m)
         IN  /\ Sound(r) /\ SameMen(MovePieces(b, m), r)
             /\ r.side = XSIDE(b.side) /\ r.flags = b.flags \ LostFlags(b, m)
             /\ r.epsq = EpSquare(m)
<1> DEFINE b1 == MovePieces(b, m)
           b2 == clear_flags(b1, LostFlags(b, m))
           b3 == set_epsq(b2, EpSquare(m))
           b4 == switch_sides(b3)
           r == CountMove(b4, m)
<1>1. b1 \in Boards /\ Sound(b1)
  BY DEF Sound
<1> HIDE DEF b1
<1>2. Sound(b2) /\ SameMen(b1, b2) /\ b2.side = b1.side /\ b2.flags = b1.flags \ LostFlags(b, m)
  BY <1>1, LostFlagsType, ClearFlagsSound
<1> HIDE DEF b2
<1>3. Sound(b3) /\ SameMen(b2, b3) /\ b3.side = b2.side /\ b3.flags = b2.flags
      /\ b3.epsq = EpSquare(m)
  <2>1. b2 \in Boards
    BY <1>2 DEF Sound
  <2> QED
    BY <1>2, <2>1, EpSquareType, EpSquareSound
<1> HIDE DEF b3
<1>4. Sound(b4) /\ SameMen(b3, b4) /\ b4.side = XSIDE(b3.side) /\ b4.flags = b3.flags
      /\ b4.epsq = b3.epsq
  <2>1. b3 \in Boards
    BY <1>3 DEF Sound
  <2> QED
    BY <1>3, <2>1, SwitchSound
<1> HIDE DEF b4
<1>5. b4 \in Boards
  BY <1>4 DEF Sound
<1>6. /\ r \in Boards /\ SameMen(b4, r) /\ r.side = b4.side /\ r.flags = b4.flags
      /\ r.epsq = b4.epsq /\ r.hashkey = b4.hashkey /\ r.pawnhashkey = b4.pawnhashkey
  <2> DEFINE no == IF b4.side = WHITE THEN b4.moveno + 1 ELSE b4.moveno
             cnt == IF ptype(m) = PAWN \/ Is(m, "CAPTURE") THEN 0 ELSE b4.movecnt50 + 1
             pce == IF Is(m, "NULL") THEN b4.pce_movecnt
                    ELSE [b4.pce_movecnt EXCEPT ![m.to] = b4.pce_movecnt[m.from] + 1, ![m.from] = 0]
  <2>1. no \in Nat /\ cnt \in Nat /\ pce \in [Squares -> Nat]
    <3>1. /\ b4.moveno \in Nat /\ b4.movecnt50 \in Nat
          /\ b4.pce_movecnt \in [Squares -> Nat] /\ b4.pce_movecnt[m.from] \in Nat
      BY <1>5 DEF Boards
    <3>2. no \in Nat /\ cnt \in Nat
      BY <3>1
    <3>3. [b4.pce_movecnt EXCEPT ![m.to] = b4.pce_movecnt[m.from] + 1, ![m.from] = 0]
            \in [Squares -> Nat]
      BY <3>1
    <3> QED
      BY <3>1, <3>2, <3>3
  <2>2. r = [b4 EXCEPT !.moveno = no, !.movecnt50 = cnt, !.pce_movecnt = pce]
    BY <1>5 DEF CountMove, Boards
  <2> HIDE DEF no, cnt, pce, r
  <2> QED
    BY <1>5, <2>1, <2>2 DEF Boards, SameMen
<1>7. Sound(r)
  BY <1>4, <1>5, <1>6, CountsSound
<1>8. SameMen(b1, r)
  BY <1>2, <1>3, <1>4, <1>6 DEF SameMen
<1> HIDE DEF r
<1>9. r = make_move(b, m)
  BY DEF make_move, b1, b2, b3, b4, r
<1> QED
  BY <1>2, <1>3, <1>4, <1>6, <1>7, <1>8, <1>9 DEF b1

-----------------------------------------------------------------------------
(***************************************************************************)
(* What moving the men keeps, for every kind of move.                       *)
(***************************************************************************)
HomeMen(b, f) ==
  LET s == Castle[f].side
  IN  b.king[s] = Castle[f].king /\ Castle[f].rook \in b.position[s][ROOK]

\* An en passant square between the square that a pawn of one side has left and
\* the one where it stands.
EpLeft(side, r, from, ep, to) ==
  /\ from \notin r.occupied /\ ep \notin r.occupied /\ to \in r.position[side][PAWN]
  /\ IF side = WHITE THEN RNK(ep) = 2 /\ to = ep + 8 /\ from = ep - 8
                     ELSE RNK(ep) = 5 /\ to = ep - 8 /\ from = ep + 8

\* r are the men of b after move m, before anything else is updated.
Kept(b, r, m) ==
  /\ Sound(r) /\ r.side = b.side /\ r.flags = b.flags /\ r.epsq = b.epsq
  /\ \A c \in Colors : \A x \in Squares :
       x \in r.position[c][PAWN] => x \in b.position[c][PAWN] \/ RNK(x) \notin {0, 7}
  /\ \A f \in Flags \ LostFlags(b, m) : HomeMen(b, f) => HomeMen(r, f)
  /\ EpSquare(m) # NO_SQUARE => EpLeft(b.side, r, m.from, EpSquare(m), m.to)

LEMMA CastleTable ==
  ASSUME NEW f \in Flags
  PROVE  /\ Castle[f].side \in Colors /\ Castle[f].king \in Squares /\ Castle[f].to \in Squares
         /\ Castle[f].rook \in Squares /\ Castle[f].rookto \in Squares
         /\ \A c \in Colors : f \in FlagsOf(c) <=> c = Castle[f].side
BY DEF Castle, Flags, FlagsOf, Colors, WHITE, BLACK, Squares

LEMMA PieceNames ==
  /\ PAWN \in Pieces /\ KNIGHT \in Pieces /\ BISHOP \in Pieces /\ ROOK \in Pieces
  /\ QUEEN \in Pieces /\ KING \in Pieces
  /\ ROOK # KING /\ PAWN # KING /\ PAWN # ROOK
BY DEF Pieces, PAWN, KNIGHT, BISHOP, ROOK, QUEEN, KING

\* A step of a pawn that is not promoted.
PawnStep(b, s, from, to) ==
  /\ RNK(to) \notin {0, 7}
  /\ to - from = 16 => s = WHITE /\ RNK(from) = 1 /\ from + 8 \notin b.occupied
  /\ to - from = -16 => s # WHITE /\ RNK(from) = 6 /\ from - 8 \notin b.occupied

LEMMA QuietKept ==
  ASSUME NEW b \in Boards, Sound(b), NEW from \in Squares, NEW to \in Squares,
         NEW p \in Pieces, from \in b.position[b.side][p], to \notin b.occupied,
         p = PAWN => PawnStep(b, b.side, from, to)
  PROVE  Kept(b, MovePieces(b, Normal(from, to, p)), Normal(from, to, p))
<1> DEFINE s == b.side
           m == Normal(from, to, p)
           r == MovePieces(b, m)
           Q == (b.position[s][p] \ {from}) \cup {to}
<1>1. s \in Colors /\ b.position[s][p] \in SUBSET Squares /\ from \in b.occupied
      /\ b.position[s][p] \subseteq b.occupied
  <2>1. s \in Colors
    BY DEF Boards
  <2> QED
    BY <2>1, MenOccupy
<1>2. r = move_piece(b, from, to, s, p)
  BY NormalParts DEF MovePieces
<1>3. /\ m.from = from /\ m.to = to /\ ptype(m) = p /\ ~Is(m, "CAPTURE")
  BY NormalParts
<1> HIDE DEF s, m, r
<1>4. Sound(r) /\ Repositioned(b, r, s, p, b.position[s][p], Q)
  BY <1>1, <1>2, MoveSound DEF s
<1>5. Q \in SUBSET Squares
  BY <1>1
<1> HIDE DEF Q
<1>6. /\ r.side = b.side /\ r.flags = b.flags /\ r.epsq = b.epsq
      /\ r.occupied = (b.occupied \ b.position[s][p]) \cup Q
      /\ \A c \in Colors : c # s \/ p # KING => r.king[c] = b.king[c]
      /\ \A c \in Colors : \A q \in Pieces :
           r.position[c][q] = IF c = s /\ q = p THEN Q ELSE b.position[c][q]
  BY <1>4 DEF Repositioned
<1>7. ASSUME NEW c \in Colors, NEW x \in Squares, x \in r.position[c][PAWN]
      PROVE  x \in b.position[c][PAWN] \/ RNK(x) \notin {0, 7}
  BY <1>6, <1>7, PieceNames DEF Q, PawnStep
<1>8. ASSUME NEW f \in Flags \ LostFlags(b, m), HomeMen(b, f)
      PROVE  HomeMen(r, f)
  <2> DEFINE c == Castle[f].side
  <2>1. c \in Colors /\ Castle[f].rook \in Squares /\ (f \in FlagsOf(s) <=> c = s)
    BY <1>1, CastleTable
  <2>2. p = KING => c # s
    BY <1>3, <1>8, <2>1 DEF LostFlags, s
  <2>3. p = ROOK => Castle[f].rook # from
    BY <1>3, <1>8 DEF LostFlags, CornerFlags
  <2>4. r.king[c] = b.king[c]
    BY <1>6, <2>1, <2>2
  <2>5. Castle[f].rook \in r.position[c][ROOK]
    BY <1>6, <1>8, <2>1, <2>3, PieceNames DEF HomeMen, Q
  <2> QED
    BY <1>8, <2>4, <2>5 DEF HomeMen
<1>9. ASSUME EpSquare(m) # NO_SQUARE
      PROVE  EpLeft(b.side, r, m.from, EpSquare(m), m.to)
  <2>1. p = PAWN /\ \/ to - from = 16 /\ EpSquare(m) = to - 8
                    \/ to - from = -16 /\ EpSquare(m) = to + 8
    BY <1>3, <1>9 DEF EpSquare
  <2>2. m.to \in r.position[b.side][PAWN]
    BY <1>1, <1>3, <1>6, <2>1, PieceNames DEF Q, s
  <2>3. CASE to - from = 16
    <3>1. RNK(from) = 1 /\ from + 8 \notin b.occupied /\ EpSquare(m) = from + 8 /\ to = from + 16
      BY <2>1, <2>3 DEF PawnStep, Squares
    <3>2. RNK(from + 8) = 2
      BY <3>1 DEF RNK, Squares
    <3>3. from + 8 \notin r.occupied /\ from \notin r.occupied
      <4>1. from \in b.position[s][p] /\ from # to /\ from + 8 # to
        BY <3>1 DEF s, Squares
      <4> QED
        BY <1>1, <1>6, <3>1, <4>1 DEF Q
    <3>4. b.side = WHITE
      BY <2>1, <2>3 DEF PawnStep
    <3> QED
      BY <1>3, <2>2, <3>1, <3>2, <3>3, <3>4 DEF Squares, EpLeft
  <2>4. CASE to - from = -16
    <3>1. RNK(from) = 6 /\ from - 8 \notin b.occupied /\ EpSquare(m) = from - 8 /\ to = from - 16
      BY <2>1, <2>4 DEF PawnStep, Squares
    <3>2. RNK(from - 8) = 5
      BY <3>1 DEF RNK, Squares
    <3>3. from - 8 \notin r.occupied /\ from \notin r.occupied
      <4>1. from \in b.position[s][p] /\ from # to /\ from - 8 # to
        BY <3>1 DEF s, Squares
      <4> QED
        BY <1>1, <1>6, <3>1, <4>1 DEF Q
    <3>4. b.side # WHITE
      BY <2>1, <2>4 DEF PawnStep
    <3> QED
      BY <1>3, <2>2, <3>1, <3>2, <3>3, <3>4 DEF Squares, EpLeft
  <2> QED
    BY <2>1, <2>3, <2>4
<1> QED
  BY <1>4, <1>6, <1>7, <1>8, <1>9 DEF Kept, m, r

\* A board without one of its men.
LEMMA RemoveFacts ==
  ASSUME NEW b \in Boards, Sound(b), NEW sq \in Squares, NEW s \in Colors, NEW q \in Pieces,
         q # KING, sq \in b.position[s][q]
  PROVE  LET r == remove_piece(b, sq, s, q)
         IN  /\ r \in Boards /\ Sound(r) /\ r.side = b.side /\ r.flags = b.flags /\ r.epsq = b.epsq
             /\ r.occupied = b.occupied \ {sq}
             /\ \A c \in Colors : r.king[c] = b.king[c]
             /\ \A c \in Colors : \A p \in Pieces : \A y \in Squares :
                  y \in r.position[c][p] <=>
                    y \in b.position[c][p] /\ ~(c = s /\ p = q /\ y = sq)
<1> DEFINE r == remove_piece(b, sq, s, q)
           P == b.position[s][q]
<1>1. P \in SUBSET Squares /\ P \subseteq b.occupied
  BY MenOccupy
<1> HIDE DEF r
<1>2. Sound(r) /\ Repositioned(b, r, s, q, P, P \ {sq})
  BY RemoveSound DEF r
<1>3. r \in Boards
  BY <1>2 DEF Sound
<1>4. r.occupied = b.occupied \ {sq}
  BY <1>1, <1>2 DEF Repositioned
<1>5. /\ r.side = b.side /\ r.flags = b.flags /\ r.epsq = b.epsq
      /\ \A c \in Colors : r.king[c] = b.king[c]
      /\ \A c \in Colors : \A p \in Pieces :
           r.position[c][p] = IF c = s /\ p = q THEN b.position[c][p] \ {sq}
                              ELSE b.position[c][p]
  BY <1>2 DEF Repositioned
<1>6. ASSUME NEW c \in Colors, NEW p \in Pieces, NEW y \in Squares
      PROVE  y \in r.position[c][p] <=> y \in b.position[c][p] /\ ~(c = s /\ p = q /\ y = sq)
  BY <1>5
<1> QED
  BY <1>2, <1>3, <1>4, <1>5, <1>6 DEF r

LEMMA TakingKept ==
  ASSUME NEW b \in Boards, Sound(b), NEW from \in Squares, NEW to \in Squares,
         NEW p \in Pieces, NEW q \in Pieces, from \in b.position[b.side][p],
         q # KING, to \in b.position[XSIDE(b.side)][q],
         p = PAWN => RNK(to) \notin {0, 7} /\ to - from \notin {16, -16}
  PROVE  Kept(b, MovePieces(b, Capture(from, to, p, q)), Capture(from, to, p, q))
<1> DEFINE s == b.side
           x == XSIDE(s)
           m == Capture(from, to, p, q)
           t == remove_piece(b, to, x, q)
           r == MovePieces(b, m)
           Q == (t.position[s][p] \ {from}) \cup {to}
<1>1. s \in Colors /\ x \in Colors /\ s # x
  BY DEF Boards, Colors, WHITE, BLACK, XSIDE
<1>2. /\ m.from = from /\ m.to = to /\ ptype(m) = p /\ m.cap_ptype = q
      /\ Is(m, "CAPTURE") /\ ~Is(m, "PROMOTION") /\ ~Is(m, "CASTLE") /\ ~Is(m, "ENPASSANT")
      /\ ~Is(m, "NULL")
  BY CaptureParts
<1> HIDE DEF m
<1>3. r = move_piece(t, from, to, s, p)
  BY <1>2 DEF MovePieces
<1> HIDE DEF r
<1>4. /\ t \in Boards /\ Sound(t) /\ t.side = b.side /\ t.flags = b.flags /\ t.epsq = b.epsq
      /\ t.occupied = b.occupied \ {to}
      /\ \A c \in Colors : t.king[c] = b.king[c]
  BY <1>1, RemoveFacts
<1>5. \A c \in Colors : \A k \in Pieces : \A y \in Squares :
        y \in t.position[c][k] <=> y \in b.position[c][k] /\ ~(c = x /\ k = q /\ y = to)
  BY <1>1, RemoveFacts
<1> HIDE DEF s, x, t
<1>6. from \in t.position[s][p] /\ to \notin t.occupied
  BY <1>1, <1>4, <1>5 DEF s
<1>7. Sound(r) /\ Repositioned(t, r, s, p, t.position[s][p], Q)
  BY <1>1, <1>3, <1>4, <1>6, MoveSound
<1> HIDE DEF Q
<1>8. /\ r.side = b.side /\ r.flags = b.flags /\ r.epsq = b.epsq
      /\ \A c \in Colors : c # s \/ p # KING => r.king[c] = b.king[c]
      /\ \A c \in Colors : \A k \in Pieces :
           r.position[c][k] = IF c = s /\ k = p THEN Q ELSE t.position[c][k]
  BY <1>4, <1>7 DEF Repositioned
<1>9. ASSUME NEW c \in Colors, NEW y \in Squares, y \in r.position[c][PAWN]
      PROVE  y \in b.position[c][PAWN] \/ RNK(y) \notin {0, 7}
  <2>1. y \in t.position[c][PAWN] => y \in b.position[c][PAWN]
    BY <1>5, PieceNames
  <2>2. CASE c = s /\ p = PAWN
    BY <1>8, <1>9, <2>1, <2>2, PieceNames DEF Q
  <2>3. CASE ~(c = s /\ p = PAWN)
    BY <1>8, <1>9, <2>1, <2>3, PieceNames
  <2> QED
    BY <2>2, <2>3
<1>10. ASSUME NEW f \in Flags \ LostFlags(b, m), HomeMen(b, f)
       PROVE  HomeMen(r, f)
  <2> DEFINE c == Castle[f].side
  <2>1. c \in Colors /\ Castle[f].rook \in Squares /\ (f \in FlagsOf(s) <=> c = s)
    BY <1>1, CastleTable
  <2>2. p = KING => c # s
    BY <1>2, <1>10, <2>1 DEF LostFlags, s
  <2>3. p = ROOK => Castle[f].rook # from
    BY <1>2, <1>10 DEF LostFlags, CornerFlags
  <2>4. q = ROOK => Castle[f].rook # to
    BY <1>2, <1>10 DEF LostFlags, CornerFlags
  <2>5. r.king[c] = b.king[c]
    BY <1>8, <2>1, <2>2
  <2>6. Castle[f].rook \in t.position[c][ROOK]
    BY <1>5, <1>10, <2>1, <2>4, PieceNames DEF HomeMen
  <2>7. Castle[f].rook \in r.position[c][ROOK]
    BY <1>8, <2>1, <2>3, <2>6, PieceNames DEF Q
  <2> QED
    BY <1>10, <2>5, <2>7 DEF HomeMen
<1>11. EpSquare(m) = NO_SQUARE
  BY <1>2 DEF EpSquare
<1> QED
  BY <1>7, <1>8, <1>9, <1>10, <1>11 DEF Kept, m, r

\* A pawn is exchanged for another man.
LEMMA PromoteFacts ==
  ASSUME NEW b \in Boards, Sound(b), NEW from \in Squares, NEW to \in Squares,
         NEW s \in Colors, NEW q \in Pieces, q # KING,
         from \in b.position[s][PAWN], to \notin b.occupied
  PROVE  LET r == place_piece(remove_piece(b, from, s, PAWN), to, s, q)
         IN  /\ Sound(r) /\ r.side = b.side /\ r.flags = b.flags /\ r.epsq = b.epsq
             /\ \A c \in Colors : r.king[c] = b.king[c]
             /\ \A c \in Colors : \A p \in Pieces : \A y \in Squares :
                  y \in r.position[c][p] <=>
                    \/ y \in b.position[c][p] /\ ~(c = s /\ p = PAWN /\ y = from)
                    \/ c = s /\ p = q /\ y = to
<1> DEFINE t == remove_piece(b, from, s, PAWN)
           r == place_piece(t, to, s, q)
<1>1. /\ t \in Boards /\ Sound(t) /\ t.side = b.side /\ t.flags = b.flags /\ t.epsq = b.epsq
      /\ t.occupied = b.occupied \ {from}
      /\ \A c \in Colors : t.king[c] = b.king[c]
  BY RemoveFacts, PieceNames
<1>2. \A c \in Colors : \A p \in Pieces : \A y \in Squares :
        y \in t.position[c][p] <=> y \in b.position[c][p] /\ ~(c = s /\ p = PAWN /\ y = from)
  BY RemoveFacts, PieceNames
<1> HIDE DEF t
<1>3. Sound(r) /\ Repositioned(t, r, s, q, t.position[s][q], t.position[s][q] \cup {to})
  BY <1>1, PlaceSound
<1> HIDE DEF r
<1>4. /\ r.side = b.side /\ r.flags = b.flags /\ r.epsq = b.epsq
      /\ \A c \in Colors : r.king[c] = b.king[c]
      /\ \A c \in Colors : \A p \in Pieces :
           r.position[c][p] = IF c = s /\ p = q THEN t.position[s][q] \cup {to} ELSE t.position[c][p]
  BY <1>1, <1>3 DEF Repositioned
<1>5. ASSUME NEW c \in Colors, NEW p \in Pieces, NEW y \in Squares
      PROVE  y \in r.position[c][p] <=>
               \/ y \in b.position[c][p] /\ ~(c = s /\ p = PAWN /\ y = from)
               \/ c = s /\ p = q /\ y = to
  BY <1>2, <1>4
<1> QED
  BY <1>3, <1>4, <1>5 DEF r, t

Promoted == {KNIGHT, BISHOP, ROOK, QUEEN}
LEMMA PromotedFacts == \A q \in Promoted : q \in Pieces /\ q # KING /\ q # PAWN
BY DEF Promoted, Pieces, PAWN, KNIGHT, BISHOP, ROOK, QUEEN, KING

LEMMA PromotionKept ==
  ASSUME NEW b \in Boards, Sound(b), NEW from \in Squares, NEW to \in Squares,
         NEW q \in Promoted, from \in b.position[b.side][PAWN], to \notin b.occupied,
         to - from \notin {16, -16}
  PROVE  Kept(b, MovePieces(b, Promotion(from, to, q)), Promotion(from, to, q))
<1> DEFINE s == b.side
           m == Promotion(from, to, q)
           r == MovePieces(b, m)
<1>1. s \in Colors /\ q \in Pieces /\ q # KING /\ q # PAWN
  BY PromotedFacts DEF Boards
<1>2. /\ m.from = from /\ m.to = to /\ m.piece = q /\ ptype(m) = PAWN
      /\ Is(m, "PROMOTION") /\ ~Is(m, "CAPTURE")
      /\ ~Is(m, "CASTLE") /\ ~Is(m, "ENPASSANT") /\ ~Is(m, "NULL")
  BY <1>1, PromotionParts
<1> HIDE DEF m
<1>3. r = place_piece(remove_piece(b, from, s, PAWN), to, s, q)
  BY <1>2 DEF MovePieces
<1>4. /\ Sound(r) /\ r.side = b.side /\ r.flags = b.flags /\ r.epsq = b.epsq
      /\ \A c \in Colors : r.king[c] = b.king[c]
  BY <1>1, <1>3, PromoteFacts
<1>5. \A c \in Colors : \A p \in Pieces : \A y \in Squares :
        y \in r.position[c][p] <=>
          \/ y \in b.position[c][p] /\ ~(c = s /\ p = PAWN /\ y = from)
          \/ c = s /\ p = q /\ y = to
  BY <1>1, <1>3, PromoteFacts
<1> HIDE DEF r, s
<1>6. ASSUME NEW c \in Colors, NEW y \in Squares, y \in r.position[c][PAWN]
      PROVE  y \in b.position[c][PAWN]
  BY <1>1, <1>5, <1>6, PieceNames
<1>7. ASSUME NEW f \in Flags, HomeMen(b, f)
      PROVE  HomeMen(r, f)
  BY <1>4, <1>5, <1>7, CastleTable, PieceNames DEF HomeMen
<1>8. EpSquare(m) = NO_SQUARE
  BY <1>2 DEF EpSquare
<1> QED
  BY <1>4, <1>6, <1>7, <1>8 DEF Kept, m, r

LEMMA PromotionCaptureKept ==
  ASSUME NEW b \in Boards, Sound(b), NEW from \in Squares, NEW to \in Squares,
         NEW q \in Promoted, NEW cap \in Pieces, from \in b.position[b.side][PAWN],
         cap # KING, to \in b.position[XSIDE(b.side)][cap], to - from \notin {16, -16}
  PROVE  Kept(b, MovePieces(b, PromotionCapture(from, to, q, cap)),
              PromotionCapture(from, to, q, cap))
<1> DEFINE s == b.side
           x == XSIDE(s)
           m == PromotionCapture(from, to, q, cap)
           t == remove_piece(b, to, x, cap)
           r == MovePieces(b, m)
<1>1. s \in Colors /\ x \in Colors /\ s # x
  BY DEF Boards, Colors, WHITE, BLACK, XSIDE
<1>2. q \in Pieces /\ q # KING /\ q # PAWN
  BY PromotedFacts
<1>3. /\ m.from = from /\ m.to = to /\ m.piece = q /\ ptype(m) = PAWN /\ m.cap_ptype = cap
      /\ Is(m, "PROMOTION") /\ Is(m, "CAPTURE")
      /\ ~Is(m, "CASTLE") /\ ~Is(m, "ENPASSANT") /\ ~Is(m, "NULL")
  BY <1>2, PromotionCaptureParts
<1> HIDE DEF m
<1>4. r = place_piece(remove_piece(t, from, s, PAWN), to, s, q)
  BY <1>3 DEF MovePieces
<1>5. /\ t \in Boards /\ Sound(t) /\ t.side = b.side /\ t.flags = b.flags /\ t.epsq = b.epsq
      /\ t.occupied = b.occupied \ {to}
      /\ \A c \in Colors : t.king[c] = b.king[c]
  BY <1>1, RemoveFacts
<1>6. \A c \in Colors : \A k \in Pieces : \A y \in Squares :
        y \in t.position[c][k] <=> y \in b.position[c][k] /\ ~(c = x /\ k = cap /\ y = to)
  BY <1>1, RemoveFacts
<1> HIDE DEF t, r, s, x
<1>7. from \in t.position[s][PAWN] /\ to \notin t.occupied
  BY <1>1, <1>5, <1>6, PieceNames DEF s
<1>8. /\ Sound(r) /\ r.side = b.side /\ r.flags = b.flags /\ r.epsq = b.epsq
      /\ \A c \in Colors : r.king[c] = b.king[c]
  BY <1>1, <1>2, <1>4, <1>5, <1>7, PromoteFacts
<1>9. \A c \in Colors : \A p \in Pieces : \A y \in Squares :
        y \in r.position[c][p] <=>
          \/ y \in t.position[c][p] /\ ~(c = s /\ p = PAWN /\ y = from)
          \/ c = s /\ p = q /\ y = to
  BY <1>1, <1>2, <1>4, <1>5, <1>7, PromoteFacts
<1>10. ASSUME NEW c \in Colors, NEW y \in Squares, y \in r.position[c][PAWN]
       PROVE  y \in b.position[c][PAWN]
  BY <1>2, <1>6, <1>9, <1>10, PieceNames
<1>11. ASSUME NEW f \in Flags \ LostFlags(b, m), HomeMen(b, f)
       PROVE  HomeMen(r, f)
  <2>1. cap = ROOK => Castle[f].rook # to
    BY <1>3, <1>11 DEF LostFlags, CornerFlags
  <2> QED
    BY <1>6, <1>8, <1>9, <1>11, <2>1, CastleTable, PieceNames DEF HomeMen
<1>12. EpSquare(m) = NO_SQUARE
  BY <1>3 DEF EpSquare
<1> QED
  BY <1>8, <1>10, <1>11, <1>12 DEF Kept, m, r

LEMMA NullKept ==
  ASSUME NEW b \in Boards, Sound(b)
  PROVE  Kept(b, MovePieces(b, NullMove), NullMove)
<1> DEFINE m == NullMove
<1>1. /\ ptype(m) # PAWN /\ Is(m, "NULL") /\ ~Is(m, "CAPTURE")
      /\ ~Is(m, "PROMOTION") /\ ~Is(m, "NORMAL") /\ ~Is(m, "CASTLE") /\ ~Is(m, "ENPASSANT")
  BY NullParts, PieceNames
<1> HIDE DEF m
<1>2. MovePieces(b, m) = b
  BY <1>1 DEF MovePieces
<1>3. EpSquare(m) = NO_SQUARE
  BY <1>1 DEF EpSquare
<1> QED
  BY <1>2, <1>3 DEF Kept, m

\* A pawn takes the pawn that has just passed it.
LEMMA PassingKept ==
  ASSUME NEW b \in Boards, Sound(b), EpFits(b), b.epsq # NO_SQUARE,
         NEW from \in Squares, from \in b.position[b.side][PAWN],
         b.epsq - from \notin {16, -16}
  PROVE  Kept(b, MovePieces(b, EnPassant(from, b.epsq)), EnPassant(from, b.epsq))
<1> DEFINE s == b.side
           x == XSIDE(s)
           to == b.epsq
           pawn == get_eppawn(b)
           m == EnPassant(from, to)
           t == move_piece(b, from, to, s, PAWN)
           r == MovePieces(b, m)
           Q == (b.position[s][PAWN] \ {from}) \cup {to}
<1>1. s \in Colors /\ x \in Colors /\ s # x
  BY DEF Boards, Colors, WHITE, BLACK, XSIDE
<1>2. to \in Squares /\ to \notin b.occupied /\ pawn \in b.position[x][PAWN]
  BY DEF Boards, EpFits
<1>3. pawn \in Squares /\ RNK(to) \notin {0, 7}
  <2>1. pawn \in Squares
    BY <1>1, <1>2, PieceNames DEF Boards
  <2>2. pawn # NO_SQUARE
    BY <2>1 DEF Squares, NO_SQUARE
  <2> QED
    BY <2>1, <2>2 DEF get_eppawn
<1>4. /\ m.from = from /\ m.to = to /\ ptype(m) = PAWN
      /\ Is(m, "ENPASSANT") /\ ~Is(m, "CAPTURE") /\ ~Is(m, "PROMOTION") /\ ~Is(m, "CASTLE")
      /\ ~Is(m, "NORMAL") /\ ~Is(m, "NULL")
  BY <1>2, EnPassantParts
<1> HIDE DEF m
<1>5. r = remove_piece(t, pawn, x, PAWN)
  BY <1>4 DEF MovePieces
<1> HIDE DEF pawn, r
<1>6. Sound(t) /\ Repositioned(b, t, s, PAWN, b.position[s][PAWN], Q)
  BY <1>1, <1>2, PieceNames, MoveSound
<1> HIDE DEF t, Q
<1>7. /\ t \in Boards /\ t.side = b.side /\ t.flags = b.flags /\ t.epsq = b.epsq
      /\ \A c \in Colors : t.king[c] = b.king[c]
      /\ \A c \in Colors : \A k \in Pieces :
           t.position[c][k] = IF c = s /\ k = PAWN THEN Q ELSE b.position[c][k]
  BY <1>6, PieceNames DEF Repositioned, Sound
<1>8. pawn \in t.position[x][PAWN]
  BY <1>1, <1>2, <1>7, PieceNames
<1>9. /\ Sound(r) /\ r.side = t.side /\ r.flags = t.flags /\ r.epsq = t.epsq
      /\ \A c \in Colors : r.king[c] = t.king[c]
  BY <1>1, <1>3, <1>5, <1>6, <1>7, <1>8, PieceNames, RemoveFacts
<1>10. \A c \in Colors : \A p \in Pieces : \A y \in Squares :
         y \in r.position[c][p] <=>
           y \in t.position[c][p] /\ ~(c = x /\ p = PAWN /\ y = pawn)
  BY <1>1, <1>3, <1>5, <1>6, <1>7, <1>8, PieceNames, RemoveFacts
<1>11. ASSUME NEW c \in Colors, NEW y \in Squares, y \in r.position[c][PAWN]
       PROVE  y \in b.position[c][PAWN] \/ RNK(y) \notin {0, 7}
  <2>1. y \in t.position[c][PAWN]
    BY <1>10, <1>11, PieceNames
  <2> HIDE DEF s, x
  <2>2. y \in b.position[c][PAWN] \/ y = to
    BY <1>7, <2>1, PieceNames DEF Q
  <2> QED
    BY <1>3, <2>2
<1>12. ASSUME NEW f \in Flags, HomeMen(b, f)
       PROVE  HomeMen(r, f)
  <2> DEFINE c == Castle[f].side
  <2>1. c \in Colors /\ Castle[f].rook \in Squares
    BY CastleTable
  <2>2. r.king[c] = b.king[c]
    BY <1>7, <1>9, <2>1
  <2>3. Castle[f].rook \in r.position[c][ROOK]
    BY <1>7, <1>10, <1>12, <2>1, PieceNames DEF HomeMen
  <2> QED
    BY <1>12, <2>2, <2>3 DEF HomeMen
<1>13. EpSquare(m) = NO_SQUARE
  BY <1>4 DEF EpSquare
<1> QED
  BY <1>7, <1>9, <1>11, <1>12, <1>13 DEF Kept, m, r

LEMMA CastleWays ==
  /\ ray_bb[4][7] = {5, 6} /\ ray_bb[4][0] = {3, 2, 1}
  /\ ray_bb[60][63] = {61, 62} /\ ray_bb[60][56] = {59, 58, 57}
<1>1. ASSUME NEW k \in Squares, NEW d \in Int, d # 0, k + d \in Squares, RNK(k + d) = RNK(k),
             FIL(k + d) = FIL(k) + d
      PROVE  /\ d = 3 => ray_bb[k][k + d] = {k + 1, k + 2}
             /\ d = -4 => ray_bb[k][k + d] = {k - 1, k - 2, k - 3}
  <2>1. Ranks(k, k + d) = 0 /\ Files(k, k + d) = d
    <3>1. RNK(k) \in Int /\ FIL(k) \in Int
      BY DEF RNK, FIL, Squares
    <3> QED
      BY <1>1, <3>1 DEF Ranks, Files
  <2>2. Straight(k, k + d)
    <3>1. k # k + d
      BY <1>1 DEF Squares
    <3> QED
      BY <2>1, <3>1 DEF Straight
  <2>3. ASSUME d = 3
        PROVE  Sign(d) = 1 /\ Larger(Abs(0), Abs(d)) = 3 /\ Sign(0) = 0
    BY <2>3 DEF Sign, Abs, Larger
  <2>4. ASSUME d = -4
        PROVE  Sign(d) = -1 /\ Larger(Abs(0), Abs(d)) = 4 /\ Sign(0) = 0
    <3>1. ASSUME NEW e \in Int, e < 0
          PROVE  Sign(e) = -1 /\ Abs(e) = 0 - e /\ Abs(0) = 0 /\ Larger(0, 0 - e) = 0 - e /\ Sign(0) = 0
      BY <3>1 DEF Sign, Abs, Larger
    <3>2. \A e \in Int : e = -4 => e < 0 /\ 0 - e = 4
      OBVIOUS
    <3>3. d < 0 /\ 0 - d = 4
      BY <2>4, <3>2
    <3> QED
      BY <3>1, <3>3
  <2>5. ray_bb[k][k + d] = {k + n * (8 * Sign(0) + Sign(d)) : n \in 1 .. Larger(Abs(0), Abs(d)) - 1}
    BY <1>1, <2>1, <2>2 DEF ray_bb
  <2>6. CASE d = 3
    <3>1. ray_bb[k][k + d] = {k + n * (8 * 0 + 1) : n \in 1 .. 3 - 1}
      BY <2>3, <2>5, <2>6
    <3> QED
      BY <2>6, <3>1 DEF Squares
  <2>7. CASE d = -4
    <3>1. ray_bb[k][k + d] = {k + n * (8 * 0 + (-1)) : n \in 1 .. 4 - 1}
      BY <2>4, <2>5, <2>7
    <3>2. \A n \in Int : n * (8 * 0 + (-1)) = -n
      OBVIOUS
    <3>3. \A n \in 1 .. 4 - 1 : k + n * (8 * 0 + (-1)) = k - n
      BY <3>2 DEF Squares
    <3>4. ray_bb[k][k + d] = {k - n : n \in 1 .. 3}
      BY <3>1, <3>3
    <3>5. 1 .. 3 = {1, 2, 3}
      OBVIOUS
    <3>6. ray_bb[k][k + d] = {k - 1, k - 2, k - 3}
      BY <3>4, <3>5
    <3> QED
      BY <2>7, <3>6
  <2> QED
    BY <2>6, <2>7
<1>2. /\ ray_bb[4][7] = {5, 6} /\ ray_bb[4][0] = {3, 2, 1}
      /\ ray_bb[60][63] = {61, 62} /\ ray_bb[60][56] = {59, 58, 57}
  <2>1. /\ RNK(4) = 0 /\ RNK(7) = 0 /\ RNK(0) = 0 /\ FIL(4) = 4 /\ FIL(7) = 7 /\ FIL(0) = 0
        /\ RNK(60) = 7 /\ RNK(63) = 7 /\ RNK(56) = 7 /\ FIL(60) = 4 /\ FIL(63) = 7 /\ FIL(56) = 0
    BY DEF RNK, FIL
  <2>2. 4 + 3 = 7 /\ 4 + (-4) = 0 /\ 60 + 3 = 63 /\ 60 + (-4) = 56
    OBVIOUS
  <2>3. {0, 4, 7, 56, 60, 63} \subseteq Squares
    BY DEF Squares
  <2>4. ray_bb[4][7] = {5, 6}
    BY <1>1, <2>1, <2>2, <2>3
  <2>5. ray_bb[4][0] = {3, 2, 1}
    BY <1>1, <2>1, <2>2, <2>3
  <2>6. ray_bb[60][63] = {61, 62}
    BY <1>1, <2>1, <2>2, <2>3
  <2>7. ray_bb[60][56] = {59, 58, 57}
    BY <1>1, <2>1, <2>2, <2>3
  <2> QED
    BY <2>4, <2>5, <2>6, <2>7
<1> QED
  BY <1>2

LEMMA CastleRays ==
  ASSUME NEW f \in Flags
  PROVE  LET c == Castle[f]
         IN  /\ c.to \in ray_bb[c.king][c.rook] /\ c.rookto \in ray_bb[c.king][c.rook]
             /\ c.to # c.rookto /\ c.to # c.rook /\ c.to # c.king /\ c.rookto # c.king
             /\ c.rook # c.king /\ FlagOfCastling(Castling(c.king, c.to)) = f
<1>3. /\ \A g \in Flags : Castle[g].to = Castle[f].to => g = f
      /\ Castle[f].to \in Squares /\ Castle[f].king \in Squares
  BY DEF Castle, Flags, Squares
<1>4. FlagOfCastling(Castling(Castle[f].king, Castle[f].to)) = f
  <2>1. Castling(Castle[f].king, Castle[f].to).to = Castle[f].to
    BY <1>3, CastlingParts
  <2> QED
    BY <1>3, <2>1 DEF FlagOfCastling
<1> QED
  BY <1>4, CastleWays DEF Castle, Flags

LEMMA CastlingKept ==
  ASSUME NEW b \in Boards, Sound(b), NEW f \in Flags, Castle[f].side = b.side, HomeMen(b, f),
         b.occupied \cap ray_bb[Castle[f].king][Castle[f].rook] = {}
  PROVE  Kept(b, MovePieces(b, Castling(Castle[f].king, Castle[f].to)),
              Castling(Castle[f].king, Castle[f].to))
<1> DEFINE s == b.side
           c == Castle[f]
           m == Castling(c.king, c.to)
           t == move_piece(b, c.king, c.to, s, KING)
           u == move_piece(t, c.rook, c.rookto, s, ROOK)
           r == MovePieces(b, m)
           P == (b.position[s][KING] \ {c.king}) \cup {c.to}
           Q == (t.position[s][ROOK] \ {c.rook}) \cup {c.rookto}
<1>1. s \in Colors /\ c.king \in Squares /\ c.to \in Squares /\ c.rook \in Squares
      /\ c.rookto \in Squares
  BY CastleTable DEF Boards
<1>2. /\ c.to \notin b.occupied /\ c.rookto \notin b.occupied /\ c.to # c.rookto
      /\ c.to # c.rook /\ c.rookto # c.king /\ FlagOfCastling(m) = f
  BY CastleRays
<1>3. /\ m.from = c.king /\ m.to = c.to /\ ptype(m) = KING
      /\ Is(m, "CASTLE") /\ ~Is(m, "CAPTURE") /\ ~Is(m, "PROMOTION")
      /\ ~Is(m, "ENPASSANT") /\ ~Is(m, "NORMAL") /\ ~Is(m, "NULL")
  BY <1>1, CastlingParts
<1>4. c.king \in b.position[s][KING] /\ c.rook \in b.position[s][ROOK]
  BY <1>1 DEF HomeMen, Sound, MenTold
<1> HIDE DEF m
<1>5. r = [u EXCEPT !.has_castled[s] = TRUE]
  BY <1>2, <1>3 DEF MovePieces
<1> HIDE DEF r, u
<1>6. Sound(t) /\ Repositioned(b, t, s, KING, b.position[s][KING], P)
  BY <1>1, <1>2, <1>4, PieceNames, MoveSound
<1> HIDE DEF P, t
<1>7. /\ t \in Boards /\ t.side = b.side /\ t.flags = b.flags /\ t.epsq = b.epsq
      /\ \A d \in Colors : d # s => t.king[d] = b.king[d]
      /\ t.occupied = (b.occupied \ b.position[s][KING]) \cup P
      /\ \A d \in Colors : \A k \in Pieces :
           t.position[d][k] = IF d = s /\ k = KING THEN P ELSE b.position[d][k]
  BY <1>6, PieceNames DEF Repositioned, Sound
<1>8. c.rook \in t.position[s][ROOK] /\ c.rookto \notin t.occupied
  BY <1>1, <1>2, <1>4, <1>7, PieceNames DEF P, Sound, MenTold
<1>9. Sound(u) /\ Repositioned(t, u, s, ROOK, t.position[s][ROOK], Q)
  BY <1>1, <1>6, <1>7, <1>8, PieceNames, MoveSound DEF u
<1>10. /\ u \in Boards /\ u.side = b.side /\ u.flags = b.flags /\ u.epsq = b.epsq
       /\ \A d \in Colors : d # s => u.king[d] = b.king[d]
       /\ \A d \in Colors : \A k \in Pieces :
            d # s \/ k = PAWN => u.position[d][k] = b.position[d][k]
  BY <1>7, <1>9, PieceNames DEF Repositioned, Sound
<1>11. /\ r \in Boards /\ SameMen(u, r) /\ r.side = u.side /\ r.flags = u.flags
       /\ r.epsq = u.epsq /\ r.hashkey = u.hashkey /\ r.pawnhashkey = u.pawnhashkey
  <2>1. [u.has_castled EXCEPT ![s] = TRUE] \in [Colors -> BOOLEAN]
    BY <1>1, <1>10 DEF Boards
  <2>2. r = [u EXCEPT !.has_castled = [u.has_castled EXCEPT ![s] = TRUE]]
    BY <1>5
  <2> DEFINE h == [u.has_castled EXCEPT ![s] = TRUE]
  <2> HIDE DEF h
  <2> QED
    BY <1>10, <2>1, <2>2 DEF Boards, SameMen, h
<1>12. Sound(r)
  BY <1>9, <1>10, <1>11, CountsSound
<1>13. /\ \A d \in Colors : d # s => r.king[d] = b.king[d]
       /\ \A d \in Colors : \A k \in Pieces :
            d # s \/ k = PAWN => r.position[d][k] = b.position[d][k]
  BY <1>10, <1>11 DEF SameMen
<1>14. ASSUME NEW g \in Flags \ LostFlags(b, m), HomeMen(b, g)
       PROVE  HomeMen(r, g)
  <2>1. Castle[g].side \in Colors /\ Castle[g].side # s
    BY <1>1, <1>3, <1>14, CastleTable DEF LostFlags, s
  <2> QED
    BY <1>13, <1>14, <2>1, PieceNames DEF HomeMen
<1>15. EpSquare(m) = NO_SQUARE
  BY <1>3, PieceNames DEF EpSquare
<1>16. \A d \in Colors : \A y \in Squares :
         y \in r.position[d][PAWN] => y \in b.position[d][PAWN]
  BY <1>13, PieceNames
<1> QED
  BY <1>10, <1>11, <1>12, <1>14, <1>15, <1>16 DEF Kept, m, r

-----------------------------------------------------------------------------
(***************************************************************************)
(* The board that a move leaves.                                            *)
(***************************************************************************)
LEMMA RankOf ==
  ASSUME NEW x \in Squares
  PROVE  /\ RNK(x) \in 0 .. 7 /\ FIL(x) \in 0 .. 7 /\ x = 8 * RNK(x) + FIL(x)
         /\ \A k \in 0 .. 7 : x \in rank[k] <=> RNK(x) = k
BY DEF Squares, RNK, FIL, rank

LEMMA LeftFits ==
  ASSUME NEW b \in Boards, NEW m, m.from \in Squares, m.to \in Squares,
         FlagsFit(b), PawnsWithin(b), Kept(b, MovePieces(b, m), m)
  PROVE  LET r == make_move(b, m)
         IN  Sound(r) /\ FlagsFit(r) /\ EpFits(r) /\ PawnsWithin(r) /\ r.side = XSIDE(b.side)
<1> DEFINE t == MovePieces(b, m)
           r == make_move(b, m)
<1>1. /\ Sound(t) /\ t.side = b.side /\ t.flags = b.flags
      /\ \A c \in Colors : \A x \in Squares :
           x \in t.position[c][PAWN] => x \in b.position[c][PAWN] \/ RNK(x) \notin {0, 7}
      /\ \A f \in Flags \ LostFlags(b, m) : HomeMen(b, f) => HomeMen(t, f)
      /\ EpSquare(m) # NO_SQUARE => EpLeft(b.side, t, m.from, EpSquare(m), m.to)
  BY DEF Kept
<1>2. /\ Sound(r) /\ SameMen(t, r) /\ r.side = XSIDE(b.side)
      /\ r.flags = b.flags \ LostFlags(b, m) /\ r.epsq = EpSquare(m)
  BY <1>1, MoveMade
<1> HIDE DEF t, r
<1>3. /\ r \in Boards /\ b.flags \subseteq Flags /\ b.side \in Colors
      /\ r.position = t.position /\ r.occupied = t.occupied /\ r.king = t.king
  BY <1>2 DEF Sound, SameMen, Boards
<1>4. FlagsFit(r)
  <2> SUFFICES ASSUME NEW f \in r.flags
               PROVE  HomeMen(r, f)
    BY DEF FlagsFit, HomeMen
  <2>1. f \in Flags \ LostFlags(b, m) /\ HomeMen(b, f)
    BY <1>2, <1>3 DEF FlagsFit, HomeMen
  <2> QED
    BY <1>1, <1>3, <2>1 DEF HomeMen
<1>5. EpFits(r)
  <2> SUFFICES ASSUME r.epsq # NO_SQUARE
               PROVE  /\ RNK(r.epsq) = (IF r.side = WHITE THEN 5 ELSE 2)
                      /\ r.epsq \notin r.occupied
                      /\ r.epsq + (IF r.side = WHITE THEN 8 ELSE -8) \notin r.occupied
                      /\ get_eppawn(r) \in r.position[XSIDE(r.side)][PAWN]
    BY DEF EpFits
  <2>1. XSIDE(r.side) = b.side /\ (r.side = WHITE <=> b.side # WHITE)
    BY <1>2, <1>3 DEF XSIDE, Colors, WHITE, BLACK
  <2>2. EpLeft(b.side, r, m.from, r.epsq, m.to)
    BY <1>1, <1>2, <1>3 DEF EpLeft
  <2>3. get_eppawn(r) = m.to
    BY <2>2 DEF get_eppawn, EpLeft
  <2>4. r.epsq + (IF r.side = WHITE THEN 8 ELSE -8) = m.from
    <3>1. r.epsq \in Int
      BY <1>3 DEF Boards, Squares, NO_SQUARE
    <3> QED
      BY <2>1, <2>2, <3>1 DEF EpLeft
  <2> QED
    BY <2>1, <2>2, <2>3, <2>4 DEF EpLeft
<1>6. PawnsWithin(r)
  <2> SUFFICES ASSUME NEW c \in Colors, NEW x, x \in r.position[c][PAWN], x \in rank[0] \cup rank[7]
               PROVE  FALSE
    BY DEF PawnsWithin
  <2>1. x \in Squares /\ RNK(x) \in {0, 7}
    <3>1. x \in Squares
      BY <1>3, PieceNames DEF Boards
    <3> QED
      BY <3>1, RankOf
  <2> QED
    BY <1>1, <1>3, <2>1 DEF PawnsWithin
<1> QED
  BY <1>2, <1>4, <1>5, <1>6 DEF r

LEMMA SoundMeans ==
  ASSUME NEW b \in Boards
  PROVE  Sound(b) <=> StateExact(b) /\ OneEach(b)
<1>0. /\ b.position \in [Colors -> [Pieces -> SUBSET Squares]]
      /\ b.position_all \in [Colors -> SUBSET Squares]
      /\ b.hashkey \in SUBSET Keys /\ b.pawnhashkey \in SUBSET Keys
      /\ b.flags \subseteq Flags /\ b.epsq \in Squares \cup {NO_SQUARE}
  BY DEF Boards
<1>1. MenTold(b) <=> /\ \A c \in Colors : b.position_all[c] = UNION {b.position[c][p] : p \in Pieces}
                     /\ b.occupied = b.position_all[WHITE] \cup b.position_all[BLACK]
                     /\ \A c \in Colors : b.position[c][KING] = {b.king[c]}
                     /\ OneEach(b)
  <2>1. (\A c \in Colors : b.position_all[c] = UNION {b.position[c][p] : p \in Pieces})
          <=> \A c \in Colors : \A x \in Squares :
                x \in b.position_all[c] <=> \E p \in Pieces : x \in b.position[c][p]
    <3> SUFFICES ASSUME NEW c \in Colors
                 PROVE  b.position_all[c] = UNION {b.position[c][p] : p \in Pieces}
                          <=> \A x \in Squares :
                                x \in b.position_all[c] <=> \E p \in Pieces : x \in b.position[c][p]
      OBVIOUS
    <3>1. b.position_all[c] \subseteq Squares /\ \A p \in Pieces : b.position[c][p] \subseteq Squares
      BY <1>0
    <3> QED
      BY <3>1
  <2>2. OneEach(b) <=> \A c, d \in Colors : \A p, q \in Pieces : \A x \in Squares :
                         x \in b.position[c][p] /\ x \in b.position[d][q] => c = d /\ p = q
    <3>1. \A c, d \in Colors : \A p, q \in Pieces : <<c, p>> # <<d, q>> <=> ~(c = d /\ p = q)
      OBVIOUS
    <3>2. \A c \in Colors : \A p \in Pieces : b.position[c][p] \subseteq Squares
      BY <1>0
    <3> QED
      BY <3>1, <3>2 DEF OneEach
  <2> QED
    BY <2>1, <2>2 DEF MenTold
<1>2. ASSUME NEW ps \in SUBSET Pieces, NEW c \in Colors, NEW p \in Pieces, NEW x \in Squares
      PROVE  Key(c, p, x) \in PieceKeys(b, ps) <=> p \in ps /\ x \in b.position[c][p]
  <2>1. ASSUME p \in ps, x \in b.position[c][p]
        PROVE  Key(c, p, x) \in PieceKeys(b, ps)
    <3>1. <<c, p, x>> \in {y \in Colors \X ps \X Squares : y[3] \in b.position[y[1]][y[2]]}
      BY <2>1
    <3> QED
      BY <3>1 DEF PieceKeys
  <2>2. ASSUME Key(c, p, x) \in PieceKeys(b, ps)
        PROVE  p \in ps /\ x \in b.position[c][p]
    <3>1. PICK y \in Colors \X ps \X Squares : /\ y[3] \in b.position[y[1]][y[2]]
                                               /\ Key(c, p, x) = Key(y[1], y[2], y[3])
      BY <2>2 DEF PieceKeys
    <3>2. y[1] = c /\ y[2] = p /\ y[3] = x
      BY <3>1 DEF Key
    <3> QED
      BY <3>1, <3>2
  <2> QED
    BY <2>1, <2>2
<1>3. ASSUME NEW ps \in SUBSET Pieces
      PROVE  \A k \in PieceKeys(b, ps) : \E c \in Colors : \E p \in ps : \E x \in Squares :
               k = Key(c, p, x)
  BY DEF PieceKeys
<1>4. HashTold(b) <=> b.hashkey = PieceKeys(b, Pieces) \cup {FlagKey(f) : f \in b.flags}
                                    \cup EpKeys(b.epsq) \cup SideKeys(b)
  <2> DEFINE H == PieceKeys(b, Pieces) \cup {FlagKey(f) : f \in b.flags}
                    \cup EpKeys(b.epsq) \cup SideKeys(b)
  <2>0. WHITE \in Colors /\ PAWN \in Pieces /\ 0 \in Squares /\ "WKCASTLE" \in Flags
    BY DEF Colors, Pieces, PAWN, KING, Squares, Flags
  <2>1. \A c \in Colors : \A p \in Pieces : \A x \in Squares :
          Key(c, p, x) \in H <=> x \in b.position[c][p]
    <3> SUFFICES ASSUME NEW c \in Colors, NEW p \in Pieces, NEW x \in Squares
                 PROVE  Key(c, p, x) \in H <=> x \in b.position[c][p]
      OBVIOUS
    <3>1. Key(c, p, x) \in PieceKeys(b, Pieces) <=> x \in b.position[c][p]
      BY <1>2
    <3>2. Key(c, p, x) \notin EpKeys(b.epsq)
      BY <1>0, <2>0, KeysDiffer DEF EpKeys
    <3>3. Key(c, p, x) \notin SideKeys(b)
      BY <2>0, KeysDiffer DEF SideKeys
    <3>4. Key(c, p, x) \notin {FlagKey(f) : f \in b.flags}
      BY <1>0, <2>0, KeysDiffer
    <3> QED
      BY <3>1, <3>2, <3>3, <3>4
  <2>2. \A f \in Flags : FlagKey(f) \in H <=> f \in b.flags
    <3> SUFFICES ASSUME NEW f \in Flags
                 PROVE  FlagKey(f) \in H <=> f \in b.flags
      OBVIOUS
    <3>1. FlagKey(f) \notin PieceKeys(b, Pieces)
      BY <1>3, <2>0, KeysDiffer
    <3>2. FlagKey(f) \notin EpKeys(b.epsq)
      BY <1>0, <2>0, KeysDiffer DEF EpKeys
    <3>3. FlagKey(f) \notin SideKeys(b)
      BY <2>0, KeysDiffer DEF SideKeys
    <3>4. FlagKey(f) \in {FlagKey(g) : g \in b.flags} <=> f \in b.flags
      BY <1>0, <2>0, KeysDiffer
    <3> QED
      BY <3>1, <3>2, <3>3, <3>4
  <2>3. \A x \in Squares : EpKey(x) \in H <=> x = b.epsq
    <3> SUFFICES ASSUME NEW x \in Squares
                 PROVE  EpKey(x) \in H <=> x = b.epsq
      OBVIOUS
    <3>1. EpKey(x) \notin PieceKeys(b, Pieces)
      BY <1>3, <2>0, KeysDiffer
    <3>2. EpKey(x) \in EpKeys(b.epsq) <=> x = b.epsq
      <4>1. x # NO_SQUARE
        BY DEF Squares, NO_SQUARE
      <4> QED
        BY <1>0, <2>0, <4>1, KeysDiffer DEF EpKeys
    <3>3. EpKey(x) \notin SideKeys(b)
      BY <2>0, KeysDiffer DEF SideKeys
    <3>4. EpKey(x) \notin {FlagKey(g) : g \in b.flags}
      BY <1>0, <2>0, KeysDiffer
    <3> QED
      BY <3>1, <3>2, <3>3, <3>4
  <2>4. SideKey \in H <=> b.side = BLACK
    <3>1. SideKey \notin PieceKeys(b, Pieces)
      BY <1>3, <2>0, KeysDiffer
    <3>2. SideKey \notin EpKeys(b.epsq)
      BY <1>0, <2>0, KeysDiffer DEF EpKeys
    <3>3. SideKey \in SideKeys(b) <=> b.side = BLACK
      BY DEF SideKeys
    <3>4. SideKey \notin {FlagKey(g) : g \in b.flags}
      BY <1>0, <2>0, KeysDiffer
    <3> QED
      BY <3>1, <3>2, <3>3, <3>4
  <2>5. H \subseteq Keys
    <3>1. PieceKeys(b, Pieces) \subseteq Keys
      BY <1>3 DEF Keys
    <3>2. {FlagKey(f) : f \in b.flags} \subseteq Keys
      BY <1>0 DEF Keys
    <3>3. EpKeys(b.epsq) \subseteq Keys
      BY <1>0 DEF Keys, EpKeys
    <3>4. SideKeys(b) \subseteq Keys
      BY DEF Keys, SideKeys
    <3> QED
      BY <3>1, <3>2, <3>3, <3>4
  <2>6. \A k \in Keys : \/ \E c \in Colors : \E p \in Pieces : \E x \in Squares : k = Key(c, p, x)
                        \/ \E f \in Flags : k = FlagKey(f)
                        \/ \E x \in Squares : k = EpKey(x)
                        \/ k = SideKey
    BY DEF Keys
  <2> HIDE DEF H
  <2>7. HashTold(b) => \A k \in Keys : k \in b.hashkey <=> k \in H
    <3> SUFFICES ASSUME HashTold(b), NEW k \in Keys
                 PROVE  k \in b.hashkey <=> k \in H
      OBVIOUS
    <3>1. CASE \E c \in Colors : \E p \in Pieces : \E x \in Squares : k = Key(c, p, x)
      BY <2>1, <3>1 DEF HashTold
    <3>2. CASE \E f \in Flags : k = FlagKey(f)
      BY <2>2, <3>2 DEF HashTold
    <3>3. CASE \E x \in Squares : k = EpKey(x)
      BY <2>3, <3>3 DEF HashTold
    <3>4. CASE k = SideKey
      BY <2>4, <3>4 DEF HashTold
    <3> QED
      BY <2>6, <3>1, <3>2, <3>3, <3>4
  <2>8. b.hashkey = H => HashTold(b)
    BY <2>1, <2>2, <2>3, <2>4 DEF HashTold
  <2>9. HashTold(b) => b.hashkey = H
    BY <1>0, <2>5, <2>7
  <2> QED
    BY <2>8, <2>9 DEF H
<1>5. PawnHashTold(b) <=> b.pawnhashkey = PieceKeys(b, {PAWN}) \cup SideKeys(b)
  <2> DEFINE H == PieceKeys(b, {PAWN}) \cup SideKeys(b)
  <2>0. PAWN \in Pieces /\ {PAWN} \in SUBSET Pieces /\ 0 \in Squares /\ "WKCASTLE" \in Flags
        /\ WHITE \in Colors
    BY DEF Pieces, PAWN, KING, Squares, Flags, Colors
  <2>1. \A c \in Colors : \A x \in Squares : Key(c, PAWN, x) \in H <=> x \in b.position[c][PAWN]
    <3> SUFFICES ASSUME NEW c \in Colors, NEW x \in Squares
                 PROVE  Key(c, PAWN, x) \in H <=> x \in b.position[c][PAWN]
      OBVIOUS
    <3>1. Key(c, PAWN, x) \in PieceKeys(b, {PAWN}) <=> x \in b.position[c][PAWN]
      BY <1>2, <2>0
    <3>2. Key(c, PAWN, x) \notin SideKeys(b)
      BY <2>0, KeysDiffer DEF SideKeys
    <3> QED
      BY <3>1, <3>2
  <2>2. SideKey \in H <=> b.side = BLACK
    <3>1. SideKey \notin PieceKeys(b, {PAWN})
      BY <1>3, <2>0, KeysDiffer
    <3>2. SideKey \in SideKeys(b) <=> b.side = BLACK
      BY DEF SideKeys
    <3> QED
      BY <3>1, <3>2
  <2>3. H \subseteq PawnKeys
    <3>1. PieceKeys(b, {PAWN}) \subseteq PawnKeys
      BY <1>3, <2>0 DEF PawnKeys
    <3>2. SideKeys(b) \subseteq PawnKeys
      BY DEF SideKeys, PawnKeys
    <3> QED
      BY <3>1, <3>2
  <2> HIDE DEF H
  <2>4. b.pawnhashkey = H => PawnHashTold(b)
    BY <2>1, <2>2, <2>3 DEF PawnHashTold
  <2>5. PawnHashTold(b) => b.pawnhashkey = H
    <3> SUFFICES ASSUME PawnHashTold(b)
                 PROVE  b.pawnhashkey = H
      OBVIOUS
    <3>1. \A k \in PawnKeys : k \in b.pawnhashkey <=> k \in H
      BY <2>1, <2>2 DEF PawnHashTold, PawnKeys
    <3> QED
      BY <2>3, <3>1 DEF PawnHashTold
  <2> QED
    BY <2>4, <2>5 DEF H
<1> QED
  BY <1>1, <1>4, <1>5 DEF Sound, StateExact, MaterialTold

-----------------------------------------------------------------------------
(***************************************************************************)
(* Attacks go both ways: what a piece attacks from one square it attacks,   *)
(* back, from the other.                                                    *)
(***************************************************************************)
LEMMA Opposite ==
  ASSUME NEW m \in Int, NEW n \in Int, n = 0 - m
  PROVE  /\ Abs(m) \in Nat /\ Abs(n) = Abs(m)
         /\ Sign(n) = 0 - Sign(m) /\ Sign(m) \in {-1, 0, 1} /\ m = Sign(m) * Abs(m)
         /\ m = 0 => Abs(m) = 0
BY DEF Abs, Sign

LEMMA Slopes ==
  ASSUME NEW from \in Squares, NEW to \in Squares
  PROVE  /\ Ranks(from, to) \in Int /\ Files(from, to) \in Int
         /\ Ranks(to, from) = 0 - Ranks(from, to) /\ Files(to, from) = 0 - Files(from, to)
         /\ to = from + 8 * Ranks(from, to) + Files(from, to)
<1>1. /\ RNK(from) \in Int /\ FIL(from) \in Int /\ from = 8 * RNK(from) + FIL(from)
      /\ RNK(to) \in Int /\ FIL(to) \in Int /\ to = 8 * RNK(to) + FIL(to)
  BY RankOf
<1> QED
  BY <1>1 DEF Ranks, Files

\* The squares strictly between the ends of k steps.
Way(from, d, k) == {from + n * d : n \in 1 .. k - 1}

LEMMA WayBack ==
  ASSUME NEW from \in Int, NEW to \in Int, NEW d \in Int, NEW k \in Int, to = from + k * d
  PROVE  Way(from, d, k) = Way(to, 0 - d, k)
<1>1. ASSUME NEW n \in Int
      PROVE  from + n * d = to + (k - n) * (0 - d)
  <2>1. (k - n) * (0 - d) = n * d - k * d
    OBVIOUS
  <2> DEFINE x == k * d
             y == n * d
             z == (k - n) * (0 - d)
  <2>2. x \in Int /\ y \in Int /\ z = y - x /\ to = from + x
    BY <2>1
  <2> HIDE DEF x, y, z
  <2>3. from + y = to + z
    BY <2>2
  <2> QED
    BY <2>3 DEF y, z
<1>2. \A n \in 1 .. k - 1 : k - n \in 1 .. k - 1 /\ k - (k - n) = n /\ k - n \in Int /\ n \in Int
  OBVIOUS
<1>3. ASSUME NEW n \in 1 .. k - 1
      PROVE  from + n * d \in {to + i * (0 - d) : i \in 1 .. k - 1}
  BY <1>1, <1>2
<1>4. ASSUME NEW n \in 1 .. k - 1
      PROVE  to + n * (0 - d) \in {from + i * d : i \in 1 .. k - 1}
  <2>1. from + (k - n) * d = to + (k - (k - n)) * (0 - d)
    BY <1>1, <1>2
  <2> QED
    BY <1>2, <2>1
<1> QED
  BY <1>3, <1>4 DEF Way

LEMMA RayBack ==
  ASSUME NEW from \in Squares, NEW to \in Squares
  PROVE  /\ Straight(to, from) <=> Straight(from, to)
         /\ Diagonal(to, from) <=> Diagonal(from, to)
         /\ ray_bb[to][from] = ray_bb[from][to]
<1> DEFINE r == Ranks(from, to)
           f == Files(from, to)
           d == 8 * Sign(r) + Sign(f)
           k == Larger(Abs(r), Abs(f))
<1>1. /\ r \in Int /\ f \in Int /\ Ranks(to, from) = 0 - r /\ Files(to, from) = 0 - f
      /\ to = from + 8 * r + f
  BY Slopes
<1>2. /\ Abs(r) \in Nat /\ Abs(f) \in Nat
      /\ Abs(Ranks(to, from)) = Abs(r) /\ Abs(Files(to, from)) = Abs(f)
      /\ Sign(Ranks(to, from)) = 0 - Sign(r) /\ Sign(Files(to, from)) = 0 - Sign(f)
      /\ Sign(r) \in Int /\ Sign(f) \in Int
      /\ r = Sign(r) * Abs(r) /\ f = Sign(f) * Abs(f)
      /\ r = 0 => Abs(r) = 0 /\ Sign(r) = 0
      /\ f = 0 => Abs(f) = 0 /\ Sign(f) = 0
  <2> HIDE DEF r, f
  <2>1. 0 - r \in Int /\ 0 - f \in Int
    BY <1>1
  <2>2. /\ Abs(r) \in Nat /\ Abs(0 - r) = Abs(r) /\ Sign(0 - r) = 0 - Sign(r)
        /\ Sign(r) \in {-1, 0, 1} /\ r = Sign(r) * Abs(r) /\ (r = 0 => Abs(r) = 0)
    BY <1>1, <2>1, Opposite
  <2>3. /\ Abs(f) \in Nat /\ Abs(0 - f) = Abs(f) /\ Sign(0 - f) = 0 - Sign(f)
        /\ Sign(f) \in {-1, 0, 1} /\ f = Sign(f) * Abs(f) /\ (f = 0 => Abs(f) = 0)
    BY <1>1, <2>1, Opposite
  <2>4. (r = 0 => Sign(r) = 0) /\ (f = 0 => Sign(f) = 0)
    BY DEF Sign
  <2> QED
    BY <1>1, <2>2, <2>3, <2>4
<1>3. Straight(to, from) <=> Straight(from, to)
  BY <1>1 DEF Straight
<1>4. Diagonal(to, from) <=> Diagonal(from, to)
  BY <1>2 DEF Diagonal
<1>5. ASSUME Straight(from, to) \/ Diagonal(from, to)
      PROVE  to = from + k * d
  <2> HIDE DEF r, f
  <2>1. r = 0 \/ f = 0 \/ Abs(r) = Abs(f)
    BY <1>5 DEF Straight, Diagonal, r, f
  <2> DEFINE sr == Sign(r)
             sf == Sign(f)
             ar == Abs(r)
             af == Abs(f)
  <2>2. /\ r = sr * ar /\ f = sf * af /\ sr \in Int /\ sf \in Int /\ ar \in Nat /\ af \in Nat
        /\ (r = 0 => ar = 0 /\ sr = 0) /\ (f = 0 => af = 0 /\ sf = 0)
        /\ (r = 0 \/ f = 0 \/ ar = af)
    BY <1>2, <2>1
  <2> HIDE DEF sr, sf, ar, af
  <2>3. CASE r = 0
    <3>1. Larger(ar, af) = af /\ sr = 0 /\ 8 * sr + sf = sf
      BY <2>2, <2>3 DEF Larger
    <3>2. af * sf = f
      BY <2>2
    <3>3. to = from + f
      BY <1>1, <2>3 DEF Squares
    <3> QED
      BY <3>1, <3>2, <3>3 DEF sr, sf, ar, af
  <2>4. CASE f = 0
    <3>1. Larger(ar, af) = ar /\ sf = 0 /\ 8 * sr + sf = 8 * sr
      BY <2>2, <2>4 DEF Larger
    <3>2. ar * (8 * sr) = 8 * (sr * ar)
      BY <2>2
    <3>3. to = from + 8 * r
      BY <1>1, <2>4 DEF Squares
    <3>4. to = from + ar * (8 * sr)
      BY <2>2, <3>2, <3>3
    <3> QED
      BY <3>1, <3>4 DEF sr, sf, ar, af
  <2>5. CASE ar = af
    <3>1. Larger(ar, af) = ar
      BY <2>2, <2>5 DEF Larger
    <3>2. ar * (8 * sr + sf) = 8 * (sr * ar) + sf * ar
      BY <2>2
    <3>3. ar * (8 * sr + sf) = 8 * r + f
      BY <2>2, <2>5, <3>2
    <3>4. to = from + ar * (8 * sr + sf)
      BY <1>1, <3>3 DEF Squares
    <3> QED
      BY <3>1, <3>4 DEF sr, sf, ar, af
  <2> QED
    BY <2>2, <2>3, <2>4, <2>5
<1>6. CASE Straight(from, to) \/ Diagonal(from, to)
  <2>1. ray_bb[from][to] = Way(from, d, k)
    BY <1>6 DEF ray_bb, Way
  <2>2. ray_bb[to][from] = Way(to, 8 * (0 - Sign(r)) + (0 - Sign(f)), k)
    <3>1. ray_bb[to][from] =
            {to + n * (8 * Sign(Ranks(to, from)) + Sign(Files(to, from))) :
               n \in 1 .. Larger(Abs(Ranks(to, from)), Abs(Files(to, from))) - 1}
      BY <1>3, <1>4, <1>6 DEF ray_bb
    <3> HIDE DEF r, f
    <3> QED
      BY <1>2, <3>1 DEF Way
  <2>3. 8 * (0 - Sign(r)) + (0 - Sign(f)) = 0 - d
    BY <1>2
  <2>4. k \in Int /\ d \in Int /\ from \in Int /\ to \in Int
    BY <1>2 DEF Larger, Squares
  <2>5. to = from + k * d
    BY <1>5, <1>6
  <2> HIDE DEF k, d
  <2>6. Way(from, d, k) = Way(to, 0 - d, k)
    BY <2>4, <2>5, WayBack
  <2>7. ray_bb[to][from] = Way(to, 0 - d, k)
    BY <2>2, <2>3
  <2> QED
    BY <1>3, <1>4, <2>1, <2>6, <2>7
<1>7. CASE ~(Straight(from, to) \/ Diagonal(from, to))
  BY <1>3, <1>4, <1>7 DEF ray_bb
<1> QED
  BY <1>3, <1>4, <1>6, <1>7

LEMMA AttackBack ==
  ASSUME NEW b, NEW p \in Pieces \ {PAWN}, NEW from \in Squares, NEW to,
         to \in piece_attacks(b, p, from)
  PROVE  to \in Squares /\ from \in piece_attacks(b, p, to)
<1>0. PAWN = 0 /\ KNIGHT = 1 /\ BISHOP = 2 /\ ROOK = 3 /\ QUEEN = 4 /\ KING = 5
      /\ p \in {KNIGHT, BISHOP, ROOK, QUEEN, KING}
  BY DEF Pieces, PAWN, KNIGHT, BISHOP, ROOK, QUEEN, KING
<1>1. ASSUME to \in rook_attacks(b, from)
      PROVE  to \in Squares /\ from \in rook_attacks(b, to)
  <2>1. /\ to \in Squares /\ to # from /\ ray_bb[from][to] \cap b.occupied = {}
        /\ RNK(to) = RNK(from) \/ FIL(to) = FIL(from)
    BY <1>1, RankOf DEF rook_attacks, atk0, atkl90, Visible, rank, file
  <2>2. ray_bb[to][from] = ray_bb[from][to]
    BY <2>1, RayBack
  <2>3. from \in rank[RNK(to)] \/ from \in file[FIL(to)]
    BY <2>1, RankOf DEF rank, file
  <2> QED
    BY <2>1, <2>2, <2>3 DEF rook_attacks, atk0, atkl90, Visible
<1>2. ASSUME to \in bishop_attacks(b, from)
      PROVE  to \in Squares /\ from \in bishop_attacks(b, to)
  <2>1. /\ to \in Squares /\ ray_bb[from][to] \cap b.occupied = {} /\ Diagonal(from, to)
        /\ Ranks(from, to) = Files(from, to) \/ Ranks(from, to) = -Files(from, to)
    <3>1. to \in attack_bb[BISHOP][from] => to \in Squares /\ Diagonal(from, to)
      BY <1>0 DEF attack_bb, Pieces
    <3> QED
      BY <1>2, <3>1 DEF bishop_attacks, atkl45, atkr45, Visible
  <2>2. ray_bb[to][from] = ray_bb[from][to] /\ Diagonal(to, from)
    BY <2>1, RayBack
  <2>3. from \in attack_bb[BISHOP][to]
    BY <1>0, <2>1, <2>2 DEF attack_bb, Pieces
  <2>4. Ranks(to, from) = Files(to, from) \/ Ranks(to, from) = -Files(to, from)
    BY <2>1, Slopes
  <2> QED
    BY <2>1, <2>2, <2>3, <2>4 DEF bishop_attacks, atkl45, atkr45, Visible
<1>3. ASSUME p = KNIGHT
      PROVE  to \in Squares /\ from \in piece_attacks(b, p, to)
  <2>1. \A y : piece_attacks(b, p, y) = attack_bb[KNIGHT][y]
    BY <1>0, <1>3 DEF piece_attacks
  <2>2. \A y \in Squares : attack_bb[KNIGHT][y] =
          {x \in Squares : {Abs(Ranks(y, x)), Abs(Files(y, x))} = {1, 2}}
    BY <1>0 DEF attack_bb, Pieces
  <2>3. to \in Squares /\ {Abs(Ranks(from, to)), Abs(Files(from, to))} = {1, 2}
    BY <2>1, <2>2
  <2>4. Abs(Ranks(to, from)) = Abs(Ranks(from, to)) /\ Abs(Files(to, from)) = Abs(Files(from, to))
    BY <2>3, Slopes, Opposite
  <2> QED
    BY <2>1, <2>2, <2>3, <2>4
<1>4. ASSUME p = KING
      PROVE  to \in Squares /\ from \in piece_attacks(b, p, to)
  <2>1. \A y : piece_attacks(b, p, y) = attack_bb[KING][y]
    BY <1>0, <1>4 DEF piece_attacks
  <2>2. \A y \in Squares : attack_bb[KING][y] =
          {x \in Squares : Larger(Abs(Ranks(y, x)), Abs(Files(y, x))) = 1}
    BY <1>0 DEF attack_bb, Pieces
  <2>3. to \in Squares /\ Larger(Abs(Ranks(from, to)), Abs(Files(from, to))) = 1
    BY <2>1, <2>2
  <2>4. Abs(Ranks(to, from)) = Abs(Ranks(from, to)) /\ Abs(Files(to, from)) = Abs(Files(from, to))
    BY <2>3, Slopes, Opposite
  <2> QED
    BY <2>1, <2>2, <2>3, <2>4
<1>5. ASSUME p = BISHOP
      PROVE  to \in Squares /\ from \in piece_attacks(b, p, to)
  <2>1. \A y : piece_attacks(b, p, y) = bishop_attacks(b, y)
    BY <1>0, <1>5 DEF piece_attacks
  <2> QED
    BY <1>2, <2>1
<1>6. ASSUME p = ROOK
      PROVE  to \in Squares /\ from \in piece_attacks(b, p, to)
  <2>1. \A y : piece_attacks(b, p, y) = rook_attacks(b, y)
    BY <1>0, <1>6 DEF piece_attacks
  <2> QED
    BY <1>1, <2>1
<1>7. ASSUME p = QUEEN
      PROVE  to \in Squares /\ from \in piece_attacks(b, p, to)
  <2>1. \A y : piece_attacks(b, p, y) = bishop_attacks(b, y) \cup rook_attacks(b, y)
    BY <1>0, <1>7 DEF piece_attacks, queen_attacks
  <2> QED
    BY <1>1, <1>2, <2>1
<1> QED
  BY <1>0, <1>3, <1>4, <1>5, <1>6, <1>7

-----------------------------------------------------------------------------
(***************************************************************************)
(* The generated moves are of the kinds treated above.                      *)
(***************************************************************************)
LEMMA ManAt ==
  ASSUME NEW b \in Boards, Sound(b), NEW c \in Colors, NEW p \in Pieces, NEW x \in Squares,
         x \in b.position[c][p]
  PROVE  piece_at(b, x) = p
<1> DEFINE Men(q) == b.position[WHITE][q] \cup b.position[BLACK][q]
<1>1. c = WHITE \/ c = BLACK
  BY DEF Colors
<1>2. WHITE \in Colors /\ BLACK \in Colors
  BY DEF Colors
<1>3. \A q \in Pieces : x \in Men(q) <=> q = p
  BY <1>1, <1>2 DEF Sound, MenTold
<1>4. \A q \in Pieces : ~(q < q)
  BY DEF Pieces, PAWN, KING
<1> HIDE DEF Men
<1>5. piece_at(b, x) = CHOOSE k \in Pieces : x \in Men(k) /\ \A q \in Pieces : q < k => x \notin Men(q)
  BY <1>3 DEF piece_at, Men
<1>6. \A k \in Pieces :
        (x \in Men(k) /\ \A q \in Pieces : q < k => x \notin Men(q)) <=> k = p
  BY <1>3, <1>4
<1> QED
  BY <1>5, <1>6

\* A man that is not the king.
LEMMA Taken ==
  ASSUME NEW b \in Boards, Sound(b), NEW c \in Colors, NEW x \in b.position_all[c],
         x # b.king[c]
  PROVE  /\ piece_at(b, x) \in Pieces /\ piece_at(b, x) # KING
         /\ x \in b.position[c][piece_at(b, x)]
<1>1. x \in Squares
  BY DEF Boards
<1>2. PICK p \in Pieces : x \in b.position[c][p]
  BY <1>1 DEF Sound, MenTold
<1>3. p # KING
  BY <1>2 DEF Sound, MenTold
<1> QED
  BY <1>1, <1>2, <1>3, ManAt

\* No man of the side to move attacks the other king: the other side has just
\* moved, and would have left it in check.
LEMMA KingSafe ==
  ASSUME NEW b \in Boards, Sound(b), is_legal(b), NEW p \in Pieces \ {PAWN},
         NEW from \in b.position[b.side][p]
  PROVE  b.king[XSIDE(b.side)] \notin piece_attacks(b, p, from)
<1> DEFINE s == b.side
           k == b.king[XSIDE(s)]
<1>1. s \in Colors /\ XSIDE(s) \in Colors /\ k \in Squares /\ from \in Squares
  BY DEF Boards, Colors, WHITE, BLACK, XSIDE
<1>2. /\ rook_attacks(b, k) \cap (b.position[s][ROOK] \cup b.position[s][QUEEN]) = {}
      /\ bishop_attacks(b, k) \cap (b.position[s][BISHOP] \cup b.position[s][QUEEN]) = {}
      /\ attack_bb[KNIGHT][k] \cap b.position[s][KNIGHT] = {}
      /\ attack_bb[KING][k] \cap b.position[s][KING] = {}
  BY DEF is_legal, is_attacked
<1> HIDE DEF s, k
<1>3. SUFFICES ASSUME k \in piece_attacks(b, p, from)
               PROVE  FALSE
  BY DEF k, s
<1>4. from \in piece_attacks(b, p, k)
  BY <1>1, <1>3, AttackBack
<1>5. PAWN = 0 /\ KNIGHT = 1 /\ BISHOP = 2 /\ ROOK = 3 /\ QUEEN = 4 /\ KING = 5
      /\ p \in {KNIGHT, BISHOP, ROOK, QUEEN, KING}
  BY DEF Pieces, PAWN, KNIGHT, BISHOP, ROOK, QUEEN, KING
<1>6. from \in b.position[s][p]
  BY DEF s
<1>7. CASE p = KNIGHT
  BY <1>2, <1>4, <1>5, <1>6, <1>7 DEF piece_attacks
<1>8. CASE p = BISHOP
  BY <1>2, <1>4, <1>5, <1>6, <1>8 DEF piece_attacks
<1>9. CASE p = ROOK
  BY <1>2, <1>4, <1>5, <1>6, <1>9 DEF piece_attacks
<1>10. CASE p = QUEEN
  BY <1>2, <1>4, <1>5, <1>6, <1>10 DEF piece_attacks, queen_attacks
<1>11. CASE p = KING
  BY <1>2, <1>4, <1>5, <1>6, <1>11 DEF piece_attacks
<1> QED
  BY <1>5, <1>7, <1>8, <1>9, <1>10, <1>11

\* Where a pawn captures: one rank ahead, on a neighbouring file.
LEMMA PawnTakes ==
  ASSUME NEW s \in Colors, NEW from \in Squares, NEW to \in pawn_capt_bb[s][from]
  PROVE  /\ to \in Squares /\ from \in pawn_capt_bb[XSIDE(s)][to]
         /\ RNK(to) = RNK(from) + (IF s = WHITE THEN 1 ELSE -1)
         /\ to - from \notin {16, -16}
<1>1. \A c \in Colors : \A x \in Squares : pawn_capt_bb[c][x] =
        {y \in Squares : Ranks(x, y) = (IF c = WHITE THEN 1 ELSE -1) /\ Abs(Files(x, y)) = 1}
  BY DEF pawn_capt_bb
<1>2. to \in Squares /\ Ranks(from, to) = (IF s = WHITE THEN 1 ELSE -1) /\ Abs(Files(from, to)) = 1
  BY <1>1
<1>3. XSIDE(s) \in Colors /\ (XSIDE(s) = WHITE <=> s # WHITE)
  BY DEF Colors, WHITE, BLACK, XSIDE
<1>4. /\ Ranks(from, to) \in Int /\ Files(from, to) \in Int
      /\ Ranks(to, from) = 0 - Ranks(from, to) /\ Files(to, from) = 0 - Files(from, to)
      /\ to = from + 8 * Ranks(from, to) + Files(from, to)
  BY <1>2, Slopes
<1>5. from \in pawn_capt_bb[XSIDE(s)][to]
  <2>1. Abs(Files(to, from)) = 1
    BY <1>2, <1>4, Opposite
  <2>2. Ranks(to, from) = IF XSIDE(s) = WHITE THEN 1 ELSE -1
    BY <1>2, <1>3, <1>4
  <2> QED
    BY <1>1, <1>2, <1>3, <2>1, <2>2
<1>6. RNK(to) = RNK(from) + (IF s = WHITE THEN 1 ELSE -1)
  <2>1. RNK(to) \in Int /\ RNK(from) \in Int
    BY <1>2, RankOf
  <2> QED
    BY <1>2, <2>1 DEF Ranks
<1>7. Files(from, to) = 1 \/ Files(from, to) = -1
  BY <1>2, <1>4 DEF Abs
<1>8. to - from \notin {16, -16}
  BY <1>2, <1>4, <1>7 DEF Squares
<1> QED
  BY <1>2, <1>5, <1>6, <1>8

LEMMA KingSafeFromPawns ==
  ASSUME NEW b \in Boards, Sound(b), is_legal(b), NEW from \in b.position[b.side][PAWN]
  PROVE  b.king[XSIDE(b.side)] \notin pawn_captures(b, from, b.side)
<1> DEFINE s == b.side
           k == b.king[XSIDE(s)]
<1>1. s \in Colors /\ XSIDE(s) \in Colors /\ k \in Squares /\ from \in Squares
      /\ XSIDE(XSIDE(s)) = s
  BY PieceNames DEF Boards, Colors, WHITE, BLACK, XSIDE
<1>2. pawn_capt_bb[XSIDE(s)][k] \cap (b.occupied \cup {b.epsq}) \cap b.position[s][PAWN] = {}
  BY DEF is_legal, is_attacked, pawn_captures
<1>3. from \in b.occupied
  BY <1>1, PieceNames, MenOccupy
<1> HIDE DEF k
<1>4. SUFFICES ASSUME k \in pawn_captures(b, from, s)
               PROVE  FALSE
  BY DEF k
<1>5. from \in pawn_capt_bb[XSIDE(s)][k]
  BY <1>1, <1>4, PawnTakes DEF pawn_captures
<1> QED
  BY <1>2, <1>3, <1>5

\* Where a pawn goes that stands on neither the first nor the last rank.
LEMMA PawnGoes ==
  ASSUME NEW b \in Boards, Sound(b), NEW s \in Colors, NEW from \in Squares, RNK(from) \in 1 .. 6,
         NEW to \in pawn_noncaptures(b, from, s)
  PROVE  /\ to \in Squares /\ to \notin b.occupied
         /\ from \in BeforePromotion(s) => to - from \notin {16, -16}
         /\ from \notin BeforePromotion(s) => PawnStep(b, s, from, to)
<1> DEFINE d == IF s = WHITE THEN 8 ELSE -8
           home == IF s = WHITE THEN 1 ELSE 6
           last == IF s = WHITE THEN 6 ELSE 1
<1>1. PICK n \in 1 .. 2 : /\ to = from + n * d
                          /\ \A i \in 1 .. n : from + i * d \notin b.occupied
                          /\ n = 2 => RNK(from) = home
  BY DEF pawn_noncaptures
<1>2. from \in BeforePromotion(s) <=> RNK(from) = last
  BY RankOf DEF BeforePromotion
<1>3. RNK(from) \in Int /\ FIL(from) \in 0 .. 7 /\ from = 8 * RNK(from) + FIL(from) /\ from \in Int
  BY RankOf DEF Squares
<1>4. ASSUME NEW r \in Int, to = 8 * r + FIL(from)
      PROVE  RNK(to) = r
  <2> DEFINE f == FIL(from)
  <2>1. f \in 0 .. 7 /\ to = 8 * r + f
    BY <1>3, <1>4
  <2> HIDE DEF f
  <2> QED
    BY <2>1 DEF RNK
<1>5. CASE s = WHITE /\ n = 1
  <2>1. to = from + 8 /\ from + 8 \notin b.occupied
    BY <1>1, <1>5
  <2>2. to = 8 * (RNK(from) + 1) + FIL(from)
    BY <1>3, <2>1
  <2>3. RNK(to) = RNK(from) + 1
    BY <1>3, <1>4, <2>2
  <2>4. to \in Squares
    BY <1>3, <2>2 DEF Squares
  <2>5. from \notin BeforePromotion(s) => RNK(to) \notin {0, 7}
    BY <1>2, <1>5, <2>3
  <2>6. to - from = 8
    BY <1>3, <2>1
  <2> QED
    BY <2>1, <2>4, <2>5, <2>6 DEF PawnStep
<1>6. CASE s = WHITE /\ n = 2
  <2>1. to = from + 16 /\ from + 8 \notin b.occupied /\ to \notin b.occupied /\ RNK(from) = 1
    <3>1. to = from + 2 * 8 /\ from + 1 * 8 \notin b.occupied /\ from + 2 * 8 \notin b.occupied
      BY <1>1, <1>6
    <3> QED
      BY <1>1, <1>6, <3>1
  <2>2. to = 8 * 3 + FIL(from)
    BY <1>3, <2>1
  <2>3. RNK(to) = 3 /\ to \in Squares
    <3>1. RNK(to) = 3
      BY <1>4, <2>2
    <3>2. to \in Squares
      BY <1>3, <2>2 DEF Squares
    <3> QED
      BY <3>1, <3>2
  <2> QED
    BY <1>2, <1>3, <1>6, <2>1, <2>3 DEF PawnStep
<1>7. CASE s # WHITE /\ n = 1
  <2>1. to = from - 8 /\ from - 8 \notin b.occupied
    <3>1. to = from + 1 * (-8) /\ from + 1 * (-8) \notin b.occupied
      BY <1>1, <1>7
    <3>2. from + 1 * (-8) = from - 8
      BY <1>3
    <3> QED
      BY <3>1, <3>2
  <2>2. to = 8 * (RNK(from) - 1) + FIL(from)
    BY <1>3, <2>1
  <2>3. RNK(to) = RNK(from) - 1
    BY <1>3, <1>4, <2>2
  <2>4. to \in Squares
    BY <1>3, <2>2 DEF Squares
  <2>5. from \notin BeforePromotion(s) => RNK(to) \notin {0, 7}
    BY <1>2, <1>7, <2>3
  <2> QED
    BY <1>3, <2>1, <2>4, <2>5 DEF PawnStep
<1>8. CASE s # WHITE /\ n = 2
  <2>1. to = from - 16 /\ from - 8 \notin b.occupied /\ to \notin b.occupied /\ RNK(from) = 6
    <3>1. /\ to = from + 2 * (-8) /\ from + 1 * (-8) \notin b.occupied
          /\ from + 2 * (-8) \notin b.occupied
      BY <1>1, <1>8
    <3>2. from + 1 * (-8) = from - 8 /\ from + 2 * (-8) = from - 16
      BY <1>3
    <3> QED
      BY <1>1, <1>8, <3>1, <3>2
  <2>2. to = 8 * 4 + FIL(from)
    BY <1>3, <2>1
  <2>3. RNK(to) = 4 /\ to \in Squares
    <3>1. RNK(to) = 4
      BY <1>4, <2>2
    <3>2. to \in Squares
      BY <1>3, <2>2 DEF Squares
    <3> QED
      BY <3>1, <3>2
  <2> QED
    BY <1>2, <1>3, <1>8, <2>1, <2>3 DEF PawnStep
<1> QED
  BY <1>5, <1>6, <1>7, <1>8

\* A move that make_move() can be given.
Fine(b, m) == m.from \in Squares /\ m.to \in Squares /\ Kept(b, MovePieces(b, m), m)

LEMMA PieceTakesFine ==
  ASSUME NEW b \in Boards, Sound(b), is_legal(b), NEW p \in Pieces \ {PAWN},
         NEW from \in b.position[b.side][p],
         NEW to \in piece_attacks(b, p, from) \cap b.position_all[XSIDE(b.side)]
  PROVE  Fine(b, Capture(from, to, p, piece_at(b, to)))
<1> DEFINE x == XSIDE(b.side)
           q == piece_at(b, to)
<1>1. x \in Colors /\ b.side \in Colors
  BY DEF Boards, Colors, WHITE, BLACK, XSIDE
<1>2. from \in Squares /\ to \in Squares /\ p \in Pieces
  BY <1>1 DEF Boards
<1>3. to # b.king[x]
  BY KingSafe
<1>4. q \in Pieces /\ q # KING /\ to \in b.position[x][q]
  BY <1>1, <1>3, Taken
<1> HIDE DEF q
<1>5. Kept(b, MovePieces(b, Capture(from, to, p, q)), Capture(from, to, p, q))
  BY <1>2, <1>4, TakingKept
<1>6. Capture(from, to, p, q).from = from /\ Capture(from, to, p, q).to = to
  BY <1>2, <1>4, CaptureParts
<1> QED
  BY <1>2, <1>5, <1>6 DEF Fine, q

LEMMA PieceGoesFine ==
  ASSUME NEW b \in Boards, Sound(b), NEW p \in Pieces \ {PAWN},
         NEW from \in b.position[b.side][p], NEW to \in piece_attacks(b, p, from) \ b.occupied
  PROVE  Fine(b, Normal(from, to, p))
<1>1. from \in Squares /\ p \in Pieces
  BY DEF Boards
<1>2. to \in Squares
  BY <1>1, AttackBack
<1>3. Kept(b, MovePieces(b, Normal(from, to, p)), Normal(from, to, p))
  BY <1>1, <1>2, QuietKept
<1>4. Normal(from, to, p).from = from /\ Normal(from, to, p).to = to
  BY <1>1, <1>2, NormalParts
<1> QED
  BY <1>1, <1>2, <1>3, <1>4 DEF Fine

LEMMA PawnPlace ==
  ASSUME NEW b \in Boards, PawnsWithin(b), NEW s \in Colors, NEW from \in b.position[s][PAWN]
  PROVE  /\ from \in Squares /\ RNK(from) \in 1 .. 6
         /\ from \in BeforePromotion(s) <=> RNK(from) = (IF s = WHITE THEN 6 ELSE 1)
<1>1. from \in Squares
  BY PieceNames DEF Boards
<1>2. RNK(from) \notin {0, 7}
  BY <1>1, RankOf DEF PawnsWithin
<1> QED
  BY <1>1, <1>2, RankOf DEF BeforePromotion

LEMMA PawnTakesFine ==
  ASSUME NEW b \in Boards, Sound(b), is_legal(b), PawnsWithin(b),
         NEW from \in b.position[b.side][PAWN],
         NEW to \in pawn_captures(b, from, b.side) \cap b.position_all[XSIDE(b.side)]
  PROVE  /\ \A q \in Promoted : Fine(b, PromotionCapture(from, to, q, piece_at(b, to)))
         /\ from \notin BeforePromotion(b.side) =>
              Fine(b, Capture(from, to, PAWN, piece_at(b, to)))
<1> DEFINE s == b.side
           x == XSIDE(s)
           cap == piece_at(b, to)
<1>1. x \in Colors /\ s \in Colors
  BY DEF Boards, Colors, WHITE, BLACK, XSIDE
<1>2. /\ from \in Squares /\ RNK(from) \in 1 .. 6
      /\ from \in BeforePromotion(s) <=> RNK(from) = (IF s = WHITE THEN 6 ELSE 1)
  BY <1>1, PawnPlace
<1>3. to # b.king[x]
  BY KingSafeFromPawns
<1>4. cap \in Pieces /\ cap # KING /\ to \in b.position[x][cap]
  BY <1>1, <1>3, Taken
<1>5. /\ to \in Squares /\ to - from \notin {16, -16}
      /\ RNK(to) = RNK(from) + (IF s = WHITE THEN 1 ELSE -1)
  BY <1>1, <1>2, PawnTakes DEF pawn_captures
<1> HIDE DEF cap
<1>6. ASSUME NEW q \in Promoted
      PROVE  Fine(b, PromotionCapture(from, to, q, cap))
  <2> DEFINE m == PromotionCapture(from, to, q, cap)
  <2>1. Kept(b, MovePieces(b, m), m)
    BY <1>2, <1>4, <1>5, PromotionCaptureKept
  <2>2. m.from = from /\ m.to = to
    BY <1>2, <1>4, <1>5, PromotedFacts, PromotionCaptureParts
  <2> QED
    BY <1>2, <1>5, <2>1, <2>2 DEF Fine
<1>7. ASSUME from \notin BeforePromotion(s)
      PROVE  Fine(b, Capture(from, to, PAWN, cap))
  <2> DEFINE m == Capture(from, to, PAWN, cap)
  <2>1. RNK(to) \notin {0, 7}
    BY <1>2, <1>5, <1>7
  <2>2. Kept(b, MovePieces(b, m), m)
    BY <1>2, <1>4, <1>5, <2>1, PieceNames, TakingKept
  <2>3. m.from = from /\ m.to = to
    BY <1>2, <1>4, <1>5, PieceNames, CaptureParts
  <2> QED
    BY <1>2, <1>5, <2>2, <2>3 DEF Fine
<1> QED
  BY <1>6, <1>7 DEF cap

LEMMA PawnPassesFine ==
  ASSUME NEW b \in Boards, Sound(b), EpFits(b), PawnsWithin(b),
         NEW from \in b.position[b.side][PAWN], b.epsq \in pawn_captures(b, from, b.side)
  PROVE  Fine(b, EnPassant(from, b.epsq))
<1>1. b.side \in Colors
  BY DEF Boards
<1>2. from \in Squares
  BY <1>1, PawnPlace
<1>3. b.epsq \in Squares /\ b.epsq - from \notin {16, -16}
  BY <1>1, <1>2, PawnTakes DEF pawn_captures
<1>4. b.epsq # NO_SQUARE
  BY <1>3 DEF Squares, NO_SQUARE
<1>5. Kept(b, MovePieces(b, EnPassant(from, b.epsq)), EnPassant(from, b.epsq))
  BY <1>2, <1>3, <1>4, PassingKept
<1>6. EnPassant(from, b.epsq).from = from /\ EnPassant(from, b.epsq).to = b.epsq
  BY <1>2, <1>3, EnPassantParts
<1> QED
  BY <1>2, <1>3, <1>5, <1>6 DEF Fine

LEMMA PawnGoesFine ==
  ASSUME NEW b \in Boards, Sound(b), PawnsWithin(b), NEW from \in b.position[b.side][PAWN],
         NEW to \in pawn_noncaptures(b, from, b.side)
  PROVE  /\ from \in BeforePromotion(b.side) =>
              \A q \in Promoted : Fine(b, Promotion(from, to, q))
         /\ from \notin BeforePromotion(b.side) => Fine(b, Normal(from, to, PAWN))
<1>1. b.side \in Colors
  BY DEF Boards
<1>2. from \in Squares /\ RNK(from) \in 1 .. 6
  BY <1>1, PawnPlace
<1>3. /\ to \in Squares /\ to \notin b.occupied
      /\ from \in BeforePromotion(b.side) => to - from \notin {16, -16}
      /\ from \notin BeforePromotion(b.side) => PawnStep(b, b.side, from, to)
  BY <1>1, <1>2, PawnGoes
<1>4. ASSUME from \in BeforePromotion(b.side), NEW q \in Promoted
      PROVE  Fine(b, Promotion(from, to, q))
  <2> DEFINE m == Promotion(from, to, q)
  <2>1. Kept(b, MovePieces(b, m), m)
    BY <1>2, <1>3, <1>4, PromotionKept
  <2>2. m.from = from /\ m.to = to
    BY <1>2, <1>3, PromotedFacts, PromotionParts
  <2> QED
    BY <1>2, <1>3, <2>1, <2>2 DEF Fine
<1>5. ASSUME from \notin BeforePromotion(b.side)
      PROVE  Fine(b, Normal(from, to, PAWN))
  <2> DEFINE m == Normal(from, to, PAWN)
  <2>1. Kept(b, MovePieces(b, m), m)
    BY <1>2, <1>3, <1>5, PieceNames, QuietKept
  <2>2. m.from = from /\ m.to = to
    BY <1>2, <1>3, PieceNames, NormalParts
  <2> QED
    BY <1>2, <1>3, <2>1, <2>2 DEF Fine
<1> QED
  BY <1>4, <1>5

LEMMA CastlingFine ==
  ASSUME NEW b \in Boards, Sound(b), FlagsFit(b), NEW m \in generate_castling(b)
  PROVE  Fine(b, m)
<1>1. PICK f \in FlagsOf(b.side) : /\ f \in b.flags /\ m = Castling(Castle[f].king, Castle[f].to)
                                   /\ b.occupied \cap ray_bb[Castle[f].king][Castle[f].rook] = {}
  BY DEF generate_castling, CanCastle
<1>2. f \in Flags /\ b.side \in Colors
  BY <1>1 DEF Boards
<1>3. Castle[f].side = b.side /\ Castle[f].king \in Squares /\ Castle[f].to \in Squares
  BY <1>1, <1>2, CastleTable
<1>4. HomeMen(b, f)
  BY <1>1 DEF FlagsFit, HomeMen
<1>5. Kept(b, MovePieces(b, m), m)
  BY <1>1, <1>2, <1>3, <1>4, CastlingKept
<1>6. m.from = Castle[f].king /\ m.to = Castle[f].to
  BY <1>1, <1>3, CastlingParts
<1> QED
  BY <1>3, <1>5, <1>6 DEF Fine

\* The kinds of move that generate_captures() and generate_noncaptures() return.
PieceTakes(b, m) ==
  \E p \in Pieces \ {PAWN} : \E from \in b.position[b.side][p] :
    \E to \in piece_attacks(b, p, from) \cap b.position_all[XSIDE(b.side)] :
      m = Capture(from, to, p, piece_at(b, to))
PieceGoes(b, m) ==
  \E p \in Pieces \ {PAWN} : \E from \in b.position[b.side][p] :
    \E to \in piece_attacks(b, p, from) \ b.occupied : m = Normal(from, to, p)
PawnTakesUp(b, m) ==
  \E from \in b.position[b.side][PAWN] \cap BeforePromotion(b.side) :
    \E to \in pawn_captures(b, from, b.side) \cap b.position_all[XSIDE(b.side)] :
      \E q \in Promoted : m = PromotionCapture(from, to, q, piece_at(b, to))
PawnGoesUp(b, m) ==
  \E from \in b.position[b.side][PAWN] \cap BeforePromotion(b.side) :
    \E to \in pawn_noncaptures(b, from, b.side) : \E q \in Promoted : m = Promotion(from, to, q)
PawnTakesMan(b, m) ==
  \E from \in b.position[b.side][PAWN] \ BeforePromotion(b.side) :
    \E to \in pawn_captures(b, from, b.side) \cap b.position_all[XSIDE(b.side)] :
      m = Capture(from, to, PAWN, piece_at(b, to))
PawnPasses(b, m) ==
  \E from \in b.position[b.side][PAWN] \ BeforePromotion(b.side) :
    b.epsq \in pawn_captures(b, from, b.side) /\ m = EnPassant(from, b.epsq)
PawnSteps(b, m) ==
  \E from \in b.position[b.side][PAWN] \ BeforePromotion(b.side) :
    \E to \in pawn_noncaptures(b, from, b.side) : m = Normal(from, to, PAWN)
Castles(b, m) == m \in generate_castling(b)

\* Every kind of move.
Comes(b, m) ==
  \/ PieceTakes(b, m) \/ PieceGoes(b, m) \/ PawnTakesUp(b, m) \/ PawnGoesUp(b, m)
  \/ PawnTakesMan(b, m) \/ PawnPasses(b, m) \/ PawnSteps(b, m) \/ Castles(b, m)

LEMMA CapturesAre ==
  ASSUME NEW b \in Boards, Sound(b), EpFits(b), NEW m
  PROVE  m \in generate_captures(b, TRUE) <=>
           PieceTakes(b, m) \/ PawnTakesUp(b, m) \/ PawnGoesUp(b, m) \/ PawnTakesMan(b, m)
             \/ PawnPasses(b, m)
<1> DEFINE s == b.side
           theirs == b.position_all[XSIDE(s)]
           pawns == b.position[s][PAWN]
           last == pawns \cap BeforePromotion(s)
           R == Promotions(TRUE)
           A(from) == {PromotionCapture(from, to, q, piece_at(b, to)) :
                         to \in pawn_captures(b, from, s) \cap theirs, q \in R}
           B(from) == {Promotion(from, to, q) : to \in pawn_noncaptures(b, from, s), q \in R}
           C(from) == {IF to = b.epsq THEN EnPassant(from, to)
                       ELSE Capture(from, to, PAWN, piece_at(b, to)) :
                         to \in pawn_captures(b, from, s) \ b.position_all[s]}
           D(p, from) == {Capture(from, to, p, piece_at(b, to)) :
                            to \in piece_attacks(b, p, from) \cap theirs}
<1>1. s \in Colors /\ b.position[s][KING] = {b.king[s]}
      /\ b.occupied = b.position_all[s] \cup theirs /\ b.position_all[s] \cap theirs = {}
  BY DEF Boards, Sound, MenTold, Colors, XSIDE, WHITE, BLACK
<1>2. R = Promoted /\ KING \notin KNIGHT .. QUEEN /\ Pieces \ {PAWN} = (KNIGHT .. QUEEN) \cup {KING}
  BY DEF Promotions, Promoted, Pieces, PAWN, KNIGHT, BISHOP, ROOK, QUEEN, KING
<1>3. generate_captures(b, TRUE) =
        (UNION {A(from) \cup B(from) : from \in last})
          \cup (UNION {C(from) : from \in pawns \ last})
          \cup (UNION {UNION {D(p, from) : from \in b.position[s][p]} : p \in KNIGHT .. QUEEN})
          \cup D(KING, b.king[s])
  BY DEF generate_captures
<1>4. \A from : m \in C(from) <=> \E to \in pawn_captures(b, from, s) \ b.position_all[s] :
                  m = IF to = b.epsq THEN EnPassant(from, to)
                      ELSE Capture(from, to, PAWN, piece_at(b, to))
  OBVIOUS
<1>5. \A p, from : m \in D(p, from) <=> \E to \in piece_attacks(b, p, from) \cap theirs :
                     m = Capture(from, to, p, piece_at(b, to))
  OBVIOUS
<1> HIDE DEF R
<1>6. \A from : m \in A(from) <=>
        \E to \in pawn_captures(b, from, s) \cap theirs : \E q \in Promoted :
          m = PromotionCapture(from, to, q, piece_at(b, to))
  BY <1>2
<1>7. \A from : m \in B(from) <=>
        \E to \in pawn_noncaptures(b, from, s) : \E q \in Promoted : m = Promotion(from, to, q)
  BY <1>2
<1> HIDE DEF A, B, C, D
<1>8. m \in UNION {A(from) \cup B(from) : from \in last} <=> \E from \in last : m \in A(from) \/ m \in B(from)
  <2> HIDE DEF last
  <2> QED
    BY Zenon
<1>9. m \in UNION {C(from) : from \in pawns \ last} <=> \E from \in pawns \ last : m \in C(from)
  <2> HIDE DEF last, pawns
  <2> QED
    BY Zenon
<1>10. m \in UNION {UNION {D(p, from) : from \in b.position[s][p]} : p \in KNIGHT .. QUEEN} <=>
         \E p \in KNIGHT .. QUEEN : \E from \in b.position[s][p] : m \in D(p, from)
  <2> DEFINE H(p) == UNION {D(p, from) : from \in b.position[s][p]}
             T == KNIGHT .. QUEEN
  <2>1. \A p : m \in H(p) <=> \E from \in b.position[s][p] : m \in D(p, from)
    OBVIOUS
  <2> HIDE DEF H, T
  <2>2. m \in UNION {H(p) : p \in T} <=> \E p \in T : m \in H(p)
    BY Zenon
  <2> QED
    BY <2>1, <2>2 DEF H, T
<1>11. PieceTakes(b, m) <=>
         \/ \E p \in KNIGHT .. QUEEN : \E from \in b.position[s][p] : m \in D(p, from)
         \/ m \in D(KING, b.king[s])
  BY <1>1, <1>2, <1>5 DEF PieceTakes
<1>12. /\ (\E from \in last : m \in A(from)) <=> PawnTakesUp(b, m)
       /\ (\E from \in last : m \in B(from)) <=> PawnGoesUp(b, m)
  BY <1>6, <1>7 DEF PawnTakesUp, PawnGoesUp
<1>13. (\E from \in pawns \ last : m \in C(from)) <=> PawnTakesMan(b, m) \/ PawnPasses(b, m)
  <2>1. \A from, to : to \in pawn_captures(b, from, s) => to \in b.occupied \/ to = b.epsq
    BY DEF pawn_captures
  <2>2. NO_SQUARE \notin Squares /\ b.epsq \in Squares \cup {NO_SQUARE}
    BY DEF NO_SQUARE, Squares, Boards
  <2>3. b.epsq \notin b.occupied
    <3>1. b.occupied \subseteq Squares
      BY DEF Boards
    <3> QED
      BY <2>2, <3>1 DEF EpFits
  <2>4. \A from \in pawns \ last :
          m \in C(from) <=>
            \/ \E to \in pawn_captures(b, from, s) \cap theirs :
                 m = Capture(from, to, PAWN, piece_at(b, to))
            \/ b.epsq \in pawn_captures(b, from, s) /\ m = EnPassant(from, b.epsq)
    BY <1>1, <1>4, <2>1, <2>3
  <2>5. pawns \ last = pawns \ BeforePromotion(s)
    OBVIOUS
  <2> QED
    BY <2>4, <2>5 DEF PawnTakesMan, PawnPasses
<1> HIDE DEF last, pawns, theirs
<1> QED
  BY <1>3, <1>8, <1>9, <1>10, <1>11, <1>12, <1>13

LEMMA NoncapturesAre ==
  ASSUME NEW b \in Boards, Sound(b), NEW m
  PROVE  m \in generate_noncaptures(b) <=> PieceGoes(b, m) \/ PawnSteps(b, m) \/ Castles(b, m)
<1> DEFINE s == b.side
           S == b.position[s][PAWN] \ BeforePromotion(s)
           A(from) == {Normal(from, to, PAWN) : to \in pawn_noncaptures(b, from, s)}
           B(p, from) == {Normal(from, to, p) : to \in piece_attacks(b, p, from) \ b.occupied}
<1>1. s \in Colors /\ b.position[s][KING] = {b.king[s]}
  BY DEF Boards, Sound, MenTold
<1>2. KING \notin KNIGHT .. QUEEN /\ Pieces \ {PAWN} = (KNIGHT .. QUEEN) \cup {KING}
  BY DEF Pieces, PAWN, KNIGHT, BISHOP, ROOK, QUEEN, KING
<1>3. generate_noncaptures(b) =
        generate_castling(b) \cup (UNION {A(from) : from \in S})
          \cup (UNION {UNION {B(p, from) : from \in b.position[s][p]} : p \in KNIGHT .. QUEEN})
          \cup B(KING, b.king[s])
  BY Zenon DEF generate_noncaptures
<1>4. /\ \A from : m \in A(from) <=> \E to \in pawn_noncaptures(b, from, s) : m = Normal(from, to, PAWN)
      /\ \A p, from : m \in B(p, from) <=>
           \E to \in piece_attacks(b, p, from) \ b.occupied : m = Normal(from, to, p)
  OBVIOUS
<1> HIDE DEF A, B
<1>5. m \in UNION {A(from) : from \in S} <=> \E from \in S : m \in A(from)
  <2> HIDE DEF S
  <2> QED
    BY Zenon
<1>6. m \in UNION {UNION {B(p, from) : from \in b.position[s][p]} : p \in KNIGHT .. QUEEN} <=>
        \E p \in KNIGHT .. QUEEN : \E from \in b.position[s][p] : m \in B(p, from)
  <2> DEFINE H(p) == UNION {B(p, from) : from \in b.position[s][p]}
             T == KNIGHT .. QUEEN
  <2>1. \A p : m \in H(p) <=> \E from \in b.position[s][p] : m \in B(p, from)
    OBVIOUS
  <2> HIDE DEF H, T
  <2>2. m \in UNION {H(p) : p \in T} <=> \E p \in T : m \in H(p)
    BY Zenon
  <2> QED
    BY <2>1, <2>2 DEF H, T
<1>7. PieceGoes(b, m) <=>
        \/ \E p \in KNIGHT .. QUEEN : \E from \in b.position[s][p] : m \in B(p, from)
        \/ m \in B(KING, b.king[s])
  BY <1>1, <1>2, <1>4 DEF PieceGoes
<1>8. (\E from \in S : m \in A(from)) <=> PawnSteps(b, m)
  BY <1>4 DEF PawnSteps
<1> HIDE DEF S
<1> QED
  BY <1>3, <1>5, <1>6, <1>7, <1>8 DEF Castles

LEMMA MovesAre ==
  ASSUME NEW b \in Boards, Sound(b), EpFits(b), NEW m
  PROVE  m \in generate_moves(b, TRUE) <=> Comes(b, m)
BY CapturesAre, NoncapturesAre DEF generate_moves, Comes

LEMMA MovesFine ==
  ASSUME NEW b \in Boards, Sound(b), is_legal(b), FlagsFit(b), EpFits(b), PawnsWithin(b),
         NEW m \in generate_moves(b, TRUE)
  PROVE  Fine(b, m)
<1>1. Comes(b, m)
  BY MovesAre
<1>2. ASSUME PieceTakes(b, m) PROVE Fine(b, m)
  BY <1>2, PieceTakesFine DEF PieceTakes
<1>3. ASSUME PieceGoes(b, m) PROVE Fine(b, m)
  BY <1>3, PieceGoesFine DEF PieceGoes
<1>4. ASSUME PawnTakesUp(b, m) PROVE Fine(b, m)
  BY <1>4, PawnTakesFine DEF PawnTakesUp
<1>5. ASSUME PawnGoesUp(b, m) PROVE Fine(b, m)
  BY <1>5, PawnGoesFine DEF PawnGoesUp
<1>6. ASSUME PawnTakesMan(b, m) PROVE Fine(b, m)
  BY <1>6, PawnTakesFine DEF PawnTakesMan
<1>7. ASSUME PawnPasses(b, m) PROVE Fine(b, m)
  BY <1>7, PawnPassesFine DEF PawnPasses
<1>8. ASSUME PawnSteps(b, m) PROVE Fine(b, m)
  BY <1>8, PawnGoesFine DEF PawnSteps
<1>9. ASSUME Castles(b, m) PROVE Fine(b, m)
  BY <1>9, CastlingFine DEF Castles
<1> QED
  BY <1>1, <1>2, <1>3, <1>4, <1>5, <1>6, <1>7, <1>8, <1>9 DEF Comes

-----------------------------------------------------------------------------
(***************************************************************************)
(* Every board reached is consistent.                                       *)
(***************************************************************************)
\* What the board before a move has to be like.
Fit(b) == Sound(b) /\ FlagsFit(b) /\ EpFits(b) /\ PawnsWithin(b) /\ is_legal(b)

LEMMA FitIs ==
  ASSUME NEW b \in Boards, Consistent(b)
  PROVE  Fit(b)
BY SoundMeans DEF Fit, Consistent

\* An attack depends on the men alone: the en passant square attacks nothing.
LEMMA SameAttacks ==
  ASSUME NEW a \in Boards, NEW b \in Boards, Sound(a), a.occupied = b.occupied,
         \A c \in Colors : \A p \in Pieces : a.position[c][p] = b.position[c][p],
         NEW k \in Squares, NEW c \in Colors
  PROVE  is_attacked(a, k, c) <=> is_attacked(b, k, c)
<1>1. \A p \in Pieces : a.position[c][p] = b.position[c][p]
  OBVIOUS
<1>2. rook_attacks(a, k) = rook_attacks(b, k) /\ bishop_attacks(a, k) = bishop_attacks(b, k)
  BY DEF rook_attacks, bishop_attacks
<1>3. a.position[c][PAWN] \subseteq a.occupied
  BY PieceNames, MenOccupy
<1>4. pawn_captures(a, k, XSIDE(c)) \cap a.position[c][PAWN]
        = pawn_captures(b, k, XSIDE(c)) \cap b.position[c][PAWN]
  BY <1>1, <1>3, PieceNames DEF pawn_captures
<1> QED
  BY <1>1, <1>2, <1>4, PieceNames DEF is_attacked

\* Only a pawn that goes two squares leaves an en passant square.
LEMMA OnlySteps ==
  ASSUME NEW b \in Boards, Fit(b), NEW m, Comes(b, m), EpSquare(m) # NO_SQUARE
  PROVE  PawnSteps(b, m)
<1> DEFINE s == b.side
<1>1. s \in Colors /\ Sound(b) /\ PawnsWithin(b) /\ is_legal(b) /\ EpFits(b)
  BY DEF Fit, Boards
<1>2. ptype(m) = PAWN /\ (m.to - m.from = 16 \/ m.to - m.from = -16)
  BY DEF EpSquare
<1>3. \A p \in Pieces : b.position[s][p] \subseteq Squares
  BY <1>1 DEF Boards
<1>4. ~PieceTakes(b, m)
  <2> SUFFICES ASSUME NEW p \in Pieces \ {PAWN}, NEW from \in b.position[s][p],
                      NEW to \in piece_attacks(b, p, from) \cap b.position_all[XSIDE(s)],
                      m = Capture(from, to, p, piece_at(b, to))
               PROVE  FALSE
    BY DEF PieceTakes
  <2>1. from \in Squares /\ to \in Squares
    BY <1>3, AttackBack
  <2>2. ptype(m) = p
    <3>1. Is(m, "PROMOTION") = FALSE /\ m.piece = p
      BY <2>1, Words DEF Capture, Is
    <3> QED
      BY <3>1 DEF ptype
  <2> QED
    BY <1>2, <2>2
<1>5. ~PieceGoes(b, m)
  <2> SUFFICES ASSUME NEW p \in Pieces \ {PAWN}, NEW from \in b.position[s][p],
                      NEW to \in piece_attacks(b, p, from) \ b.occupied, m = Normal(from, to, p)
               PROVE  FALSE
    BY DEF PieceGoes
  <2>1. from \in Squares /\ to \in Squares
    BY <1>3, AttackBack
  <2> QED
    BY <1>2, <2>1, NormalParts
<1>6. ~PawnTakesUp(b, m) /\ ~PawnTakesMan(b, m) /\ ~PawnPasses(b, m)
  <2> SUFFICES ASSUME NEW from \in b.position[s][PAWN], NEW to \in pawn_captures(b, from, s),
                      m.from = from /\ m.to = to
               PROVE  FALSE
    <3>1. ASSUME NEW from \in b.position[s][PAWN], NEW to \in pawn_captures(b, from, s)
          PROVE  /\ \A q \in Pieces : \A cap : PromotionCapture(from, to, q, cap).from = from
                                          /\ PromotionCapture(from, to, q, cap).to = to
                 /\ \A cap : Capture(from, to, PAWN, cap).from = from
                          /\ Capture(from, to, PAWN, cap).to = to
                 /\ EnPassant(from, to).from = from /\ EnPassant(from, to).to = to
      <4>1. from \in Squares /\ to \in Squares
        BY <1>1, <1>3, <3>1, PieceNames, PawnTakes DEF pawn_captures
      <4> QED
        BY <4>1, PieceNames, Words DEF PromotionCapture, Capture, EnPassant
    <3>2. Promoted \subseteq Pieces
      BY PieceNames DEF Promoted
    <3> QED
      BY <3>1, <3>2 DEF PawnTakesUp, PawnTakesMan, PawnPasses
  <2>1. from \in Squares /\ to \in Squares /\ to - from \notin {16, -16}
    BY <1>1, <1>3, PieceNames, PawnTakes DEF pawn_captures
  <2> QED
    BY <1>2, <2>1
<1>7. ~PawnGoesUp(b, m)
  <2> SUFFICES ASSUME NEW from \in b.position[s][PAWN] \cap BeforePromotion(s),
                      NEW to \in pawn_noncaptures(b, from, s), NEW q \in Promoted,
                      m = Promotion(from, to, q)
               PROVE  FALSE
    BY DEF PawnGoesUp
  <2>1. from \in Squares /\ RNK(from) \in 1 .. 6
    BY <1>1, PawnPlace
  <2>2. to \in Squares /\ to - from \notin {16, -16}
    BY <1>1, <2>1, PawnGoes
  <2>3. q \in Pieces
    BY PromotedFacts
  <2> QED
    BY <1>2, <2>1, <2>2, <2>3, PromotionParts
<1>8. ~Castles(b, m)
  <2> SUFFICES ASSUME NEW f \in FlagsOf(s), m = Castling(Castle[f].king, Castle[f].to)
               PROVE  FALSE
    BY DEF Castles, generate_castling
  <2>1. Castle[f].king \in Squares /\ Castle[f].to \in Squares
    BY <1>1, CastleTable DEF FlagsOf, Flags
  <2> QED
    BY <1>2, <2>1, CastlingParts, PieceNames
<1> QED
  BY <1>4, <1>5, <1>6, <1>7, <1>8 DEF Comes

\* A pawn that has gone two squares opened no line to the other king: the side that
\* moved it was not giving check before.
LEMMA EarnedKept ==
  ASSUME NEW b \in Boards, Fit(b), NEW m, Comes(b, m), Fine(b, m)
  PROVE  EpEarned(make_move(b, m))
<1> DEFINE s == b.side
           x == XSIDE(s)
           r == make_move(b, m)
           e == EpSquare(m)
<1>1. /\ s \in Colors /\ x \in Colors /\ XSIDE(x) = s /\ (x = WHITE <=> s # WHITE)
      /\ Sound(b) /\ FlagsFit(b) /\ PawnsWithin(b) /\ is_legal(b)
  BY DEF Fit, Boards, Colors, WHITE, BLACK, XSIDE
<1>2. m.from \in Squares /\ m.to \in Squares /\ Kept(b, MovePieces(b, m), m)
  BY DEF Fine
<1>3. Sound(r) /\ SameMen(MovePieces(b, m), r) /\ r.side = x /\ r.epsq = e
  BY <1>1, <1>2, MoveMade DEF Kept
<1>4. CASE e = NO_SQUARE
  BY <1>3, <1>4 DEF EpEarned
<1>5. CASE e # NO_SQUARE
  <2>1. PICK from \in b.position[s][PAWN] \ BeforePromotion(s) :
          \E to \in pawn_noncaptures(b, from, s) : m = Normal(from, to, PAWN)
    BY <1>5, OnlySteps DEF PawnSteps
  <2>2. PICK to \in pawn_noncaptures(b, from, s) : m = Normal(from, to, PAWN)
    BY <2>1
  <2>3. from \in Squares /\ to \in Squares /\ to \notin b.occupied
    <3>1. from \in Squares /\ RNK(from) \in 1 .. 6
      BY <1>1, PawnPlace
    <3> QED
      BY <1>1, <3>1, PawnGoes
  <2>4. m.from = from /\ m.to = to /\ MovePieces(b, m) = move_piece(b, from, to, s, PAWN)
    BY <2>2, <2>3, PieceNames, NormalParts DEF MovePieces
  <2>5. EpLeft(s, MovePieces(b, m), from, e, to)
    BY <1>2, <1>5, <2>4 DEF Kept
  <2> DEFINE t == MovePieces(b, m)
             P == b.position[s][PAWN]
             Q == (P \ {from}) \cup {to}
  <2>6. Repositioned(b, t, s, PAWN, P, Q)
    BY <1>1, <2>3, <2>4, PieceNames, MoveSound
  <2> HIDE DEF t, r, e
  <2>7. /\ \A c \in Colors : \A q \in Pieces :
             r.position[c][q] = IF c = s /\ q = PAWN THEN Q ELSE b.position[c][q]
        /\ r.occupied = (b.occupied \ P) \cup Q
        /\ r.king[x] = b.king[x] /\ from \notin r.occupied /\ to \in r.position[s][PAWN]
    <3>1. r.position = t.position /\ r.occupied = t.occupied /\ r.king = t.king
      BY <1>3 DEF SameMen, t, r
    <3>2. t.king[x] = b.king[x]
      BY <1>1, <2>6, PieceNames DEF Repositioned
    <3>3. /\ \A c \in Colors : \A q \in Pieces :
               t.position[c][q] = IF c = s /\ q = PAWN THEN Q ELSE b.position[c][q]
          /\ t.occupied = (b.occupied \ P) \cup Q
      BY <2>6 DEF Repositioned
    <3>4. from \notin t.occupied /\ to \in t.position[s][PAWN]
      BY <2>5 DEF EpLeft, t
    <3> HIDE DEF Q, P
    <3> QED
      BY <3>1, <3>2, <3>3, <3>4
  <2>8. /\ r.epsq + (IF r.side = WHITE THEN 8 ELSE -8) = from /\ get_eppawn(r) = to
        /\ XSIDE(r.side) = s
    <3>1. CASE s = WHITE
      <4>1. RNK(e) = 2 /\ to = e + 8 /\ from = e - 8
        BY <2>5, <3>1 DEF EpLeft
      <4>2. e + -8 = e - 8
        BY <1>2, EpSquareType DEF e, Squares, NO_SQUARE
      <4> QED
        BY <1>1, <1>3, <1>5, <3>1, <4>1, <4>2 DEF get_eppawn
    <3>2. CASE s # WHITE
      <4>1. RNK(e) = 5 /\ to = e - 8 /\ from = e + 8
        BY <2>5, <3>2 DEF EpLeft
      <4> QED
        BY <1>1, <1>3, <1>5, <3>2, <4>1 DEF get_eppawn
    <3> QED
      BY <3>1, <3>2
  <2> DEFINE u == move_piece(r, to, from, s, PAWN)
             R == r.position[s][PAWN]
             V == (R \ {to}) \cup {from}
  <2>9. Sound(u) /\ Repositioned(r, u, s, PAWN, R, V)
    <3>1. r \in Boards
      BY <1>3 DEF Sound
    <3> QED
      BY <1>1, <1>3, <2>3, <2>7, <3>1, PieceNames, MoveSound
  <2> HIDE DEF u
  <2>10. R = Q /\ V = P
    <3>1. R = Q
      BY <1>1, <2>7, PieceNames
    <3>2. to \notin P
      BY <1>1, <2>3, PieceNames, MenOccupy
    <3>3. from \in P
      OBVIOUS
    <3> QED
      BY <3>1, <3>2, <3>3
  <2>11. \A c \in Colors : \A q \in Pieces : u.position[c][q] = b.position[c][q]
    <3>1. \A c \in Colors : \A q \in Pieces :
            u.position[c][q] = IF c = s /\ q = PAWN THEN V ELSE r.position[c][q]
      BY <2>9 DEF Repositioned
    <3> HIDE DEF Q, V
    <3> QED
      BY <2>7, <2>10, <3>1
  <2>12. u.occupied = b.occupied
    <3>1. u.occupied = (r.occupied \ R) \cup V
      BY <2>9 DEF Repositioned
    <3>2. P \subseteq b.occupied
      BY <1>1, PieceNames, MenOccupy
    <3> QED
      BY <2>3, <2>7, <2>10, <3>1, <3>2
  <2>13. u \in Boards /\ b.king[x] \in Squares
    BY <1>1, <2>9 DEF Sound, Boards
  <2>14. is_attacked(u, b.king[x], s) <=> is_attacked(b, b.king[x], s)
    BY <1>1, <2>9, <2>11, <2>12, <2>13, SameAttacks
  <2>15. ~is_attacked(u, r.king[r.side], XSIDE(r.side))
    BY <1>1, <1>3, <2>7, <2>8, <2>14 DEF is_legal
  <2> QED
    <3>1. u = move_piece(r, get_eppawn(r), r.epsq + (IF r.side = WHITE THEN 8 ELSE -8),
                         XSIDE(r.side), PAWN)
      BY <2>8 DEF u
    <3> HIDE DEF s, x
    <3>2. EpEarned(r)
      BY <2>15, <3>1 DEF EpEarned
    <3> QED
      BY <3>2 DEF r
<1> QED
  BY <1>4, <1>5

LEMMA MoveConsistent ==
  ASSUME NEW b \in Boards, Consistent(b), NEW m \in LegalMoves(b)
  PROVE  make_move(b, m) \in Boards /\ Consistent(make_move(b, m))
<1> DEFINE r == make_move(b, m)
<1>1. Sound(b) /\ FlagsFit(b) /\ EpFits(b) /\ PawnsWithin(b) /\ is_legal(b)
  BY SoundMeans DEF Consistent
<1>2. m \in generate_moves(b, TRUE) /\ is_legal(r)
  BY DEF LegalMoves, filter_illegal, is_legal_move
<1>3. Fine(b, m)
  BY <1>1, <1>2, MovesFine
<1>4. Sound(r) /\ FlagsFit(r) /\ EpFits(r) /\ PawnsWithin(r)
  BY <1>1, <1>3, LeftFits DEF Fine
<1>5. EpEarned(r)
  BY <1>1, <1>2, <1>3, MovesAre, EarnedKept DEF Fit
<1> HIDE DEF r
<1>6. r \in Boards
  BY <1>4 DEF Sound
<1> QED
  BY <1>2, <1>4, <1>5, <1>6, SoundMeans DEF Consistent, r

\* A null move leaves the men where they are: the side that has passed is not in
\* check, so it has left no king to be taken.
LEMMA PassConsistent ==
  ASSUME NEW b \in Boards, Consistent(b), ~in_check(b)
  PROVE  make_move(b, NullMove) \in Boards /\ Consistent(make_move(b, NullMove))
<1> DEFINE r == make_move(b, NullMove)
           t == MovePieces(b, NullMove)
           s == b.side
           x == XSIDE(s)
<1>1. Sound(b) /\ FlagsFit(b) /\ EpFits(b) /\ PawnsWithin(b)
  BY SoundMeans DEF Consistent
<1>2. Kept(b, t, NullMove) /\ NullMove.from \in Squares /\ NullMove.to \in Squares
  BY <1>1, NullKept, NullParts
<1>3. Sound(r) /\ FlagsFit(r) /\ EpFits(r) /\ PawnsWithin(r) /\ r.side = x
  BY <1>1, <1>2, LeftFits
<1>4. t = b
  BY NullParts DEF MovePieces
<1>5. r \in Boards /\ SameMen(b, r) /\ r.epsq = NO_SQUARE
  <2>1. SameMen(t, r) /\ r.epsq = EpSquare(NullMove)
    BY <1>1, <1>2, <1>4, MoveMade
  <2>2. EpSquare(NullMove) = NO_SQUARE
    BY NullParts, PieceNames DEF EpSquare
  <2> QED
    BY <1>3, <1>4, <2>1, <2>2 DEF Sound
<1> HIDE DEF r, t
<1>6. s \in Colors /\ x \in Colors /\ XSIDE(x) = s
  BY DEF Boards, Colors, WHITE, BLACK, XSIDE
<1>7. r.position = b.position /\ r.occupied = b.occupied /\ r.king = b.king
  BY <1>5 DEF SameMen
<1>8. ~is_attacked(r, r.king[s], x)
  <2>1. r \in Boards /\ b.king[s] \in Squares
    BY <1>3, <1>6 DEF Sound, Boards
  <2>2. is_attacked(b, b.king[s], x) <=> is_attacked(r, b.king[s], x)
    BY <1>1, <1>6, <1>7, <2>1, SameAttacks
  <2> QED
    BY <1>7, <2>2 DEF in_check
<1>9. is_legal(r)
  BY <1>3, <1>6, <1>8 DEF is_legal
<1>10. EpEarned(r)
  BY <1>5 DEF EpEarned
<1> QED
  BY <1>3, <1>5, <1>9, <1>10, SoundMeans DEF Consistent, r

\* One move or null move more.
LEMMA BoardStep ==
  IncrementalStateExact /\ [Next]_vars => IncrementalStateExact'
<1> SUFFICES ASSUME IncrementalStateExact, [Next]_vars
             PROVE  IncrementalStateExact'
  OBVIOUS
<1>1. board \in Boards /\ Consistent(board) /\ ply \in 0 .. MaxPly /\ MaxPly \in Nat
  BY OpeningsAssumption DEF IncrementalStateExact, TypeOK
<1>2. CASE MakeMove
  <2>1. board' \in Boards /\ Consistent(board')
    BY <1>1, <1>2, MoveConsistent DEF MakeMove
  <2>2. ply' \in 0 .. MaxPly
    BY <1>1, <1>2 DEF MakeMove
  <2> QED
    BY <2>1, <2>2 DEF IncrementalStateExact, TypeOK
<1>3. CASE MakeNullMove
  <2>1. board' \in Boards /\ Consistent(board')
    BY <1>1, <1>3, PassConsistent DEF MakeNullMove
  <2>2. ply' \in 0 .. MaxPly
    BY <1>1, <1>3 DEF MakeNullMove
  <2> QED
    BY <2>1, <2>2 DEF IncrementalStateExact, TypeOK
<1>4. CASE UNCHANGED vars
  BY <1>4 DEF vars, IncrementalStateExact, TypeOK
<1> QED
  BY <1>2, <1>3, <1>4 DEF Next

\* Moves and null moves keep what make_move() updates incrementally equal to what
\* a computation from the pieces gives, and leave a board that fits the next move,
\* whatever the openings and however long the game.
THEOREM IncrementalExact == Spec => []IncrementalStateExact
<1>1. Init => IncrementalStateExact
  BY OpeningsAssumption DEF Init, IncrementalStateExact, TypeOK
<1> QED
  BY <1>1, BoardStep, PTL DEF Spec

-----------------------------------------------------------------------------
(***************************************************************************)
(* Sums over finite sets are numbers.                                       *)
(***************************************************************************)
\* Induction: a set of numbers that is not empty has a least one.
LEMMA LeastNumber ==
  ASSUME NEW S \in SUBSET Nat, S # {}
  PROVE  \E m \in S : \A n \in S : m <= n
<1>1. PICK m \in S : \A n \in S : ~(<<n, m>> \in OpToRel(<, Nat))
  BY NatLessThanWellFounded, WFMin
<1>2. \A n \in S : n < m => <<n, m>> \in OpToRel(<, Nat)
  BY DEF OpToRel
<1>3. \A n \in S : ~(n < m) => m <= n
  OBVIOUS
<1> QED
  BY <1>1, <1>2, <1>3

First(s) == CHOOSE x \in s : TRUE
Small(S, k) == {s \in SUBSET S : Cardinality(s) <= k}
\* The sums of f over the sets of at most k elements.
IsSums(g, f, S, k) ==
  /\ g \in [Small(S, k) -> Int] /\ g[{}] = 0
  /\ \A s \in Small(S, k) \ {{}} : g[s] = f[First(s)] + g[s \ {First(s)}]

\* What is left of a set without its first element.
LEMMA Rest ==
  ASSUME NEW S, IsFiniteSet(S), NEW s \in SUBSET S
  PROVE  /\ Cardinality(s) \in Nat /\ Cardinality(s) <= Cardinality(S) /\ Cardinality(S) \in Nat
         /\ Cardinality(s) = 0 <=> s = {}
         /\ s # {} => /\ First(s) \in s /\ s \ {First(s)} \in SUBSET S
                      /\ Cardinality(s \ {First(s)}) = Cardinality(s) - 1
<1>1. IsFiniteSet(s)
  BY FS_Subset
<1>2. s # {} => First(s) \in s
  BY DEF First
<1> QED
  BY <1>1, <1>2, FS_CardinalityType, FS_EmptySet, FS_RemoveElement, FS_Subset

LEMMA SumsExist ==
  ASSUME NEW S, IsFiniteSet(S), NEW f \in [S -> Int]
  PROVE  \E g : IsSums(g, f, S, Cardinality(S))
<1> DEFINE N == Cardinality(S)
           Bad == {k \in 0 .. N : ~\E g : IsSums(g, f, S, k)}
<1>0. N \in Nat
  BY Rest
<1>1. SUFFICES ASSUME Bad # {} PROVE FALSE
  BY <1>0
<1>2. PICK k \in Bad : \A l \in Bad : k <= l
  <2>1. Bad \in SUBSET Nat
    BY <1>0
  <2> HIDE DEF Bad
  <2> QED
    BY <1>1, <2>1, LeastNumber
<1>3. CASE k = 0
  <2> DEFINE g == [s \in Small(S, 0) |-> 0]
  <2>1. Small(S, 0) = {{}}
    <3>1. ASSUME NEW s \in SUBSET S
          PROVE  Cardinality(s) <= 0 <=> s = {}
      <4>1. Cardinality(s) \in Nat /\ (Cardinality(s) = 0 <=> s = {})
        BY Rest
      <4> QED
        BY <4>1
    <3> QED
      BY <3>1 DEF Small
  <2>2. IsSums(g, f, S, 0)
    BY <2>1 DEF IsSums
  <2> QED
    BY <1>3, <2>2
<1>4. CASE k # 0
  <2>1. k \in Nat /\ k - 1 \in 0 .. N /\ ~(k <= k - 1)
    BY <1>0, <1>4
  <2>2. PICK h : IsSums(h, f, S, k - 1)
    BY <1>2, <2>1
  <2> DEFINE g == [s \in Small(S, k) |-> IF s = {} THEN 0
                                         ELSE f[First(s)] + h[s \ {First(s)}]]
  <2>3. \A s \in Small(S, k) \ {{}} :
          f[First(s)] \in Int /\ s \ {First(s)} \in Small(S, k - 1)
    <3> SUFFICES ASSUME NEW s \in Small(S, k) \ {{}}
                 PROVE  f[First(s)] \in Int /\ s \ {First(s)} \in Small(S, k - 1)
      OBVIOUS
    <3>1. s \in SUBSET S /\ Cardinality(s) <= k
      BY DEF Small
    <3>2. /\ Cardinality(s) \in Nat /\ First(s) \in s /\ s \ {First(s)} \in SUBSET S
          /\ Cardinality(s \ {First(s)}) = Cardinality(s) - 1
      BY <3>1, Rest
    <3> QED
      BY <2>1, <3>1, <3>2 DEF Small
  <2>4. {} \in Small(S, k) /\ {} \in Small(S, k - 1)
    BY <2>1, Rest, {} \in SUBSET S DEF Small
  <2>5. g \in [Small(S, k) -> Int]
    BY <2>2, <2>3 DEF IsSums
  <2>6. \A s \in Small(S, k - 1) : g[s] = h[s]
    <3>1. Small(S, k - 1) \subseteq Small(S, k)
      <4>1. \A s \in SUBSET S : Cardinality(s) \in Nat
        BY Rest
      <4> QED
        BY <2>1, <4>1 DEF Small
    <3> QED
      BY <2>2, <3>1 DEF IsSums
  <2>7. IsSums(g, f, S, k)
    <3>1. g[{}] = 0
      BY <2>4
    <3>2. \A s \in Small(S, k) \ {{}} : g[s] = f[First(s)] + g[s \ {First(s)}]
      BY <2>3, <2>6
    <3> HIDE DEF g
    <3> QED
      BY <2>5, <3>1, <3>2 DEF IsSums
  <2> HIDE DEF g
  <2> QED
    BY <2>7
<1> QED
  BY <1>3, <1>4

\* The sums of f over all subsets of S, the last of them the sum over S.
IsSum(sum, f, S) ==
  /\ sum \in [SUBSET S -> Int] /\ sum[{}] = 0
  /\ \A s \in SUBSET S : s # {} => sum[s] = f[First(s)] + sum[s \ {First(s)}]

LEMMA SumAre ==
  ASSUME NEW S, IsFiniteSet(S), NEW f \in [S -> Int]
  PROVE  \E sum : IsSum(sum, f, S) /\ SumFunction(f) = sum[S]
<1> DEFINE Step(g) == [s \in SUBSET S |->
             IF s = {} THEN 0
             ELSE f[CHOOSE x \in s : TRUE] + g[s \ {CHOOSE x \in s : TRUE}]]
           sum == CHOOSE g : g = Step(g)
<1>1. SumFunction(f) = sum[S]
  <2>1. SumFunction(f) = SumFunctionOnSet(f, S)
    BY DEF SumFunction
  <2>2. SumFunctionOnSet(f, S) = sum[S]
    BY DEF SumFunctionOnSet, FoldFunctionOnSet, MapThenFoldSet
  <2> QED
    BY <2>1, <2>2
<1>2. \E g : g = Step(g)
  <2>1. PICK g : IsSums(g, f, S, Cardinality(S))
    BY SumsExist
  <2>2. Small(S, Cardinality(S)) = SUBSET S
    BY Rest DEF Small
  <2>3. g \in [SUBSET S -> Int] /\ g[{}] = 0
    BY <2>1, <2>2 DEF IsSums
  <2>4. \A s \in SUBSET S : s # {} =>
          g[s] = f[CHOOSE x \in s : TRUE] + g[s \ {CHOOSE x \in s : TRUE}]
    BY <2>1, <2>2 DEF IsSums, First
  <2>5. g = Step(g)
    BY <2>3, <2>4
  <2> QED
    BY <2>5
<1>3. sum = Step(sum)
  BY <1>2
<1> HIDE DEF sum
<1>4. \A s \in SUBSET S : sum[s] = IF s = {} THEN 0 ELSE f[First(s)] + sum[s \ {First(s)}]
  BY <1>3 DEF First
<1>0. sum = [s \in SUBSET S |-> sum[s]]
  BY <1>3
<1> HIDE DEF Step
<1> DEFINE Bad == {n \in Nat : \E s \in SUBSET S : Cardinality(s) = n /\ sum[s] \notin Int}
<1>5. SUFFICES ASSUME Bad # {} PROVE FALSE
  <2>1. ASSUME Bad = {} PROVE sum \in [SUBSET S -> Int]
    <3>1. \A s \in SUBSET S : Cardinality(s) \in Nat
      BY Rest
    <3>2. \A s \in SUBSET S : sum[s] \in Int
      BY <2>1, <3>1
    <3> QED
      BY <1>0, <3>2
  <2>2. ASSUME Bad = {} PROVE IsSum(sum, f, S)
    <3> HIDE DEF Bad
    <3>1. {} \in SUBSET S
      OBVIOUS
    <3> QED
      BY <1>4, <2>1, <2>2, <3>1 DEF IsSum
  <2> QED
    BY <1>1, <2>2
<1>6. PICK n \in Bad : \A l \in Bad : n <= l
  <2>1. Bad \in SUBSET Nat
    OBVIOUS
  <2> HIDE DEF Bad
  <2> QED
    BY <1>5, <2>1, LeastNumber
<1>7. PICK s \in SUBSET S : Cardinality(s) = n /\ sum[s] \notin Int
  BY <1>6
<1>8. s # {}
  <2>1. s = {} => sum[s] = 0
    BY <1>4
  <2> QED
    BY <1>7, <2>1
<1>9. /\ First(s) \in s /\ s \ {First(s)} \in SUBSET S
      /\ Cardinality(s \ {First(s)}) = n - 1 /\ n - 1 \in Nat
  BY <1>7, <1>8, Rest
<1>10. sum[s \ {First(s)}] \in Int
  <2>1. n - 1 \notin Bad
    BY <1>6, <1>9
  <2> QED
    BY <1>9, <2>1
<1>11. f[First(s)] \in Int
  BY <1>9
<1>12. sum[s] = f[First(s)] + sum[s \ {First(s)}]
  BY <1>4, <1>8
<1> QED
  BY <1>7, <1>10, <1>11, <1>12

LEMMA SumTyped ==
  ASSUME NEW S, IsFiniteSet(S), NEW f \in [S -> Int]
  PROVE  SumFunction(f) \in Int
<1>1. PICK sum : IsSum(sum, f, S) /\ SumFunction(f) = sum[S]
  BY SumAre
<1> QED
  BY <1>1 DEF IsSum

-----------------------------------------------------------------------------
(***************************************************************************)
(* What the keys tell.                                                      *)
(***************************************************************************)
\* The boards have everything in common that a score reads, but the side to move
\* and what is only read in the opening.
Alike(a, b) == SameMen(a, b) /\ a.epsq = b.epsq

\* The key without the side tells where the men are.
LEMMA KeyTellsMen ==
  ASSUME NEW a \in Boards, Consistent(a), NEW b \in Boards, Consistent(b),
         get_hashkey_noside(a) = get_hashkey_noside(b)
  PROVE  Alike(a, b)
<1>1. /\ HashTold(a) /\ HashTold(b) /\ MenTold(a) /\ MenTold(b)
      /\ StateExact(a) /\ StateExact(b)
  BY SoundMeans DEF Consistent, Sound
<1>2. \A k \in Keys \ {SideKey} : k \in a.hashkey <=> k \in b.hashkey
  BY DEF get_hashkey_noside
<1>3. \A c \in Colors : \A p \in Pieces : \A x \in Squares :
        x \in a.position[c][p] <=> x \in b.position[c][p]
  <2> SUFFICES ASSUME NEW c \in Colors, NEW p \in Pieces, NEW x \in Squares
               PROVE  x \in a.position[c][p] <=> x \in b.position[c][p]
    OBVIOUS
  <2>1. Key(c, p, x) \in Keys \ {SideKey}
    BY KeysDiffer, "WKCASTLE" \in Flags DEF Keys, Flags
  <2>2. Key(c, p, x) \in a.hashkey <=> Key(c, p, x) \in b.hashkey
    BY <1>2, <2>1
  <2> QED
    BY <1>1, <2>2 DEF HashTold
<1>4. a.position = b.position
  <2>1. /\ a.position \in [Colors -> [Pieces -> SUBSET Squares]]
        /\ b.position \in [Colors -> [Pieces -> SUBSET Squares]]
    BY DEF Boards
  <2>2. \A c \in Colors : \A p \in Pieces : a.position[c][p] = b.position[c][p]
    BY <1>3, <2>1
  <2>3. \A c \in Colors : a.position[c] = b.position[c]
    BY <2>1, <2>2
  <2> QED
    BY <2>1, <2>3
<1>5. a.position_all = b.position_all
  <2>1. /\ a.position_all \in [Colors -> SUBSET Squares]
        /\ b.position_all \in [Colors -> SUBSET Squares]
    BY DEF Boards
  <2>2. \A c \in Colors : \A x \in Squares : x \in a.position_all[c] <=> x \in b.position_all[c]
    BY <1>1, <1>4 DEF MenTold
  <2>3. \A c \in Colors : a.position_all[c] = b.position_all[c]
    BY <2>1, <2>2
  <2> QED
    BY <2>1, <2>3
<1>6. a.occupied = b.occupied
  BY <1>1, <1>5 DEF StateExact
<1>7. a.king = b.king
  <2>1. a.king \in [Colors -> Squares] /\ b.king \in [Colors -> Squares]
    BY DEF Boards
  <2>2. \A c \in Colors : {a.king[c]} = {b.king[c]}
    BY <1>1, <1>4 DEF StateExact
  <2>3. \A c \in Colors : a.king[c] = b.king[c]
    BY <2>2
  <2> QED
    BY <2>1, <2>3
<1>8. a.material = b.material
  <2>1. \A c \in Colors : MaterialOf(a, c) = MaterialOf(b, c)
    BY <1>4 DEF MaterialOf
  <2> QED
    BY <1>1, <2>1 DEF StateExact, Boards
<1>9. a.epsq = b.epsq
  <2>1. \A x \in Squares : EpKey(x) \in Keys \ {SideKey}
    BY KeysDiffer, "WKCASTLE" \in Flags, WHITE \in Colors, PAWN \in Pieces
    DEF Keys, Flags, Colors, Pieces, PAWN, KING
  <2>2. \A x \in Squares : x = a.epsq <=> x = b.epsq
    BY <1>1, <1>2, <2>1 DEF HashTold
  <2> QED
    BY <2>2 DEF Boards
<1> QED
  BY <1>4, <1>5, <1>6, <1>7, <1>8, <1>9 DEF Alike, SameMen

\* The key of the pawns tells where they are.
LEMMA KeyTellsPawns ==
  ASSUME NEW a \in Boards, Consistent(a), NEW b \in Boards, Consistent(b),
         a.pawnhashkey = b.pawnhashkey, NEW c \in Colors
  PROVE  a.position[c][PAWN] = b.position[c][PAWN]
<1>1. PawnHashTold(a) /\ PawnHashTold(b)
  BY SoundMeans DEF Consistent, Sound
<1>2. \A x \in Squares : x \in a.position[c][PAWN] <=> x \in b.position[c][PAWN]
  BY <1>1 DEF PawnHashTold
<1>3. a.position[c][PAWN] \subseteq Squares /\ b.position[c][PAWN] \subseteq Squares
  BY PieceNames DEF Boards
<1> QED
  BY <1>2, <1>3

-----------------------------------------------------------------------------
(***************************************************************************)
(* What a score is worked out from.                                         *)
(***************************************************************************)
LEMMA PawnsAlike ==
  ASSUME NEW a, NEW b, \A c \in Colors : a.position[c][PAWN] = b.position[c][PAWN],
         NEW c \in Colors, NEW phase
  PROVE  Passed(a, c) = Passed(b, c) /\ score_pawns(a, phase, c) = score_pawns(b, phase, c)
<1>1. XSIDE(c) \in Colors
  BY DEF Colors, WHITE, BLACK, XSIDE
<1>2. Passed(a, c) = Passed(b, c)
  BY <1>1 DEF Passed
<1>3. \A sq : score_passed(a, c, sq) = score_passed(b, c, sq)
  BY <1>2 DEF score_passed
<1>4. \A sq : isolated_pawn(a, c, sq) = isolated_pawn(b, c, sq)
  BY DEF isolated_pawn
<1> QED
  BY <1>2, <1>3, <1>4 DEF score_pawns

LEMMA PiecesAlike ==
  ASSUME NEW a, NEW b, Alike(a, b), NEW c \in Colors, NEW phase, NEW passed
  PROVE  /\ score_knights(a, c) = score_knights(b, c)
         /\ score_bishops(a, c) = score_bishops(b, c)
         /\ score_rooks(a, phase, passed, c) = score_rooks(b, phase, passed, c)
         /\ score_queens(a, c) = score_queens(b, c)
         /\ score_king(a, phase, c) = score_king(b, phase, c)
         /\ score_combo(a, c) = score_combo(b, c)
         /\ score_control(a, c) = score_control(b, c)
<1>1. /\ a.position = b.position /\ a.position_all = b.position_all
      /\ a.occupied = b.occupied /\ a.king = b.king /\ a.epsq = b.epsq
  BY DEF Alike, SameMen
<1>2. /\ \A sq : bishop_attacks(a, sq) = bishop_attacks(b, sq)
      /\ \A sq : rook_attacks(a, sq) = rook_attacks(b, sq)
      /\ \A sq : queen_attacks(a, sq) = queen_attacks(b, sq)
  BY <1>1 DEF bishop_attacks, rook_attacks, queen_attacks
<1>3. \A sq, s : pawn_captures(a, sq, s) = pawn_captures(b, sq, s)
  BY <1>1 DEF pawn_captures
<1>4. score_knights(a, c) = score_knights(b, c)
  BY <1>1 DEF score_knights
<1>5. score_bishops(a, c) = score_bishops(b, c)
  BY <1>1, <1>2, <1>3 DEF score_bishops
<1>6. score_rooks(a, phase, passed, c) = score_rooks(b, phase, passed, c)
  <2> DEFINE theirs(x) == x.position[XSIDE(c)]
             Open(pawns, sq) == file[FIL(sq)] \cap pawns = {}
             OnFile(x, sq) == Bonus(Open(x.position[c][PAWN], sq),
                                   IF Open(theirs(x)[PAWN], sq) THEN 10 ELSE 5)
             Seventh(x, sq) == Bonus(phase # ENDGAME /\ RNK(sq) = Rank7(c),
                                 Bonus(theirs(x)[PAWN] \cap rank[Rank7(c)] # {}, 20)
                                   + Bonus(RNK(x.king[XSIDE(c)]) = Rank8(c), 50))
             F(x) == [sq \in x.position[c][ROOK] |->
                       2 * Cardinality(rook_attacks(x, sq) \ x.position_all[c])
                         + Bonus(phase # ENDGAME /\ RNK(sq) # Rank8(XSIDE(c)), -10)
                         + OnFile(x, sq) + Seventh(x, sq) + score_rook_passed(passed, c, sq)]
  <2>1. \A sq : OnFile(a, sq) = OnFile(b, sq) /\ Seventh(a, sq) = Seventh(b, sq)
    BY <1>1
  <2>2. /\ score_rooks(a, phase, passed, c) = SumFunction(F(a))
        /\ score_rooks(b, phase, passed, c) = SumFunction(F(b))
    BY DEF score_rooks
  <2> HIDE DEF OnFile, Seventh
  <2>3. F(a) = F(b)
    BY <1>1, <1>2, <2>1
  <2> HIDE DEF F
  <2> QED
    BY <2>2, <2>3
<1>7. score_queens(a, c) = score_queens(b, c)
  BY <1>1, <1>2 DEF score_queens
<1>8. score_king(a, phase, c) = score_king(b, phase, c)
  BY <1>1 DEF score_king
<1>9. score_combo(a, c) = score_combo(b, c)
  BY <1>1, <1>2 DEF score_combo
<1>10. score_control(a, c) = score_control(b, c)
  <2>1. \A sq, p : piece_attacks(a, p, sq) = piece_attacks(b, p, sq)
    BY <1>1, <1>2 DEF piece_attacks
  <2>2. \A sq : attackers(a, sq, c) = attackers(b, sq, c)
    BY <1>1, <1>3, <2>1 DEF attackers
  <2> QED
    BY <2>2 DEF score_control
<1> QED
  BY <1>4, <1>5, <1>6, <1>7, <1>8, <1>9, <1>10

-----------------------------------------------------------------------------
(***************************************************************************)
(* Every score is a number.                                                 *)
(***************************************************************************)
LEMMA SumOfSquares ==
  ASSUME NEW S \in SUBSET Squares, NEW f \in [S -> Int]
  PROVE  SumFunction(f) \in Int
<1>1. IsFiniteSet(S)
  BY FS_Interval, FS_Subset, 0 \in Int, 63 \in Int DEF Squares
<1> QED
  BY <1>1, SumTyped

LEMMA BonusTyped ==
  ASSUME NEW score \in Int, NEW condition \in BOOLEAN
  PROVE  Bonus(condition, score) \in Int
BY DEF Bonus

LEMMA CentreRange == \A sq \in Squares : Centre(sq) \in 0 .. 3
<1> SUFFICES ASSUME NEW sq \in Squares PROVE Centre(sq) \in 0 .. 3
  OBVIOUS
<1>1. RNK(sq) \in 0 .. 7 /\ FIL(sq) \in 0 .. 7
  BY RankOf
<1> QED
  BY <1>1 DEF Centre

LEMMA TablesTyped ==
  /\ \A sq \in Squares : /\ knight_scores[sq] \in Int /\ king_scores[sq] \in Int
                         /\ king_scores_endgame[sq] \in Int
                         /\ control_score[sq] \in Int /\ control_maxattackers[sq] \in Int
  /\ \A phase \in Phases : \A i \in 1 .. 64 : pawn_scores[phase][i] \in Int
<1>1. ASSUME NEW sq \in Squares
      PROVE  /\ knight_scores[sq] \in Int /\ king_scores[sq] \in Int
             /\ king_scores_endgame[sq] \in Int
             /\ control_score[sq] \in Int /\ control_maxattackers[sq] \in Int
  <2>1. Centre(sq) \in 0 .. 3 /\ RNK(sq) \in 0 .. 7 /\ FIL(sq) \in 0 .. 7
    BY CentreRange, RankOf
  <2>2. knight_scores[sq] \in Int
    BY <2>1 DEF knight_scores
  <2>3. king_scores[sq] \in Int
    <3>1. CASE RNK(sq) \in {0, 7}
      BY <2>1, <3>1 DEF king_scores
    <3>2. CASE RNK(sq) \notin {0, 7}
      BY <2>1, <3>2 DEF king_scores
    <3> QED
      BY <3>1, <3>2
  <2>4. king_scores_endgame[sq] \in Int
    BY <2>1 DEF king_scores_endgame
  <2>5. control_score[sq] \in Int /\ control_maxattackers[sq] \in Int
    BY <2>1 DEF control_score, control_maxattackers
  <2> QED
    BY <2>2, <2>3, <2>4, <2>5
<1>2. ASSUME NEW i \in 1 .. 64
      PROVE  pawn_scores[OPENING][i] \in Int
  BY DEF pawn_scores, Phases, OPENING, MIDGAME, ENDGAME
<1>3. ASSUME NEW i \in 1 .. 64
      PROVE  pawn_scores[MIDGAME][i] \in Int
  BY DEF pawn_scores, Phases, OPENING, MIDGAME, ENDGAME
<1>4. ASSUME NEW i \in 1 .. 64
      PROVE  pawn_scores[ENDGAME][i] \in Int
  <2>1. i - 1 \in Squares /\ RNK(i - 1) \in 0 .. 7
    <3>1. i - 1 \in Squares
      BY DEF Squares
    <3> QED
      BY <3>1, RankOf
  <2>2. pawn_scores[ENDGAME][i] = <<0, 0, 2, 4, 8, 12, 16, 0>>[RNK(i - 1) + 1]
    BY DEF pawn_scores, Phases, OPENING, MIDGAME, ENDGAME
  <2> QED
    BY <2>1, <2>2
<1> QED
  BY <1>1, <1>2, <1>3, <1>4 DEF Phases

LEMMA AttacksTyped ==
  ASSUME NEW b \in Boards, NEW sq \in Squares, NEW c \in Colors
  PROVE  /\ \A p \in Pieces \ {PAWN} : attack_bb[p][sq] \subseteq Squares
         /\ bishop_attacks(b, sq) \subseteq Squares /\ rook_attacks(b, sq) \subseteq Squares
         /\ queen_attacks(b, sq) \subseteq Squares /\ pawn_captures(b, sq, c) \subseteq Squares
         /\ attackers(b, sq, c) \subseteq Squares
<1>1. \A p \in Pieces \ {PAWN} : attack_bb[p][sq] \subseteq Squares
  BY DEF attack_bb
<1>2. bishop_attacks(b, sq) \subseteq Squares
  <2>1. attack_bb[BISHOP][sq] \subseteq Squares
    BY <1>1, BISHOP \in Pieces \ {PAWN} DEF Pieces, PAWN, BISHOP, KING
  <2> QED
    BY <2>1 DEF bishop_attacks, atkl45, atkr45, Visible
<1>3. rook_attacks(b, sq) \subseteq Squares
  <2>1. rank[RNK(sq)] \subseteq Squares /\ file[FIL(sq)] \subseteq Squares
    BY RankOf DEF rank, file
  <2> QED
    BY <2>1 DEF rook_attacks, atk0, atkl90, Visible
<1>4. queen_attacks(b, sq) \subseteq Squares
  BY <1>2, <1>3 DEF queen_attacks
<1>5. pawn_captures(b, sq, c) \subseteq Squares
  BY DEF pawn_captures, pawn_capt_bb
<1>6. attackers(b, sq, c) \subseteq Squares
  <2>1. \A p \in Pieces : b.position[c][p] \subseteq Squares
    BY DEF Boards
  <2>2. b.position[c][PAWN] \subseteq Squares
    BY <2>1, PieceNames
  <2>3. \A p \in Pieces \ {PAWN} : piece_attacks(b, p, sq) \cap b.position[c][p] \subseteq Squares
    BY <2>1
  <2> DEFINE U == UNION {piece_attacks(b, p, sq) \cap b.position[c][p] : p \in Pieces \ {PAWN}}
  <2>4. U \subseteq Squares
    BY <2>3
  <2>5. attackers(b, sq, c) = (pawn_captures(b, sq, XSIDE(c)) \cap b.position[c][PAWN]) \cup U
    BY DEF attackers
  <2> HIDE DEF U
  <2> QED
    BY <2>2, <2>4, <2>5
<1> QED
  BY <1>1, <1>2, <1>3, <1>4, <1>5, <1>6

LEMMA CountTyped == \A P \in SUBSET Squares : Cardinality(P) \in Int
<1> SUFFICES ASSUME NEW P \in SUBSET Squares PROVE Cardinality(P) \in Int
  OBVIOUS
<1>1. 0 \in Squares
  BY DEF Squares
<1>2. Cardinality(P) \in Nat
  BY <1>1, Counting
<1> QED
  BY <1>2

\* No pawn stands on the last rank, where its distance to it would be zero.
LEMMA PawnsTyped ==
  ASSUME NEW b \in Boards, Consistent(b), NEW c \in Colors, NEW phase \in Phases
  PROVE  score_pawns(b, phase, c) \in Int /\ Passed(b, c) \in SUBSET Squares
<1> DEFINE pawns == b.position[c][PAWN]
           doubled == {f \in 0 .. 7 : Cardinality(pawns \cap file[f]) > 1}
           score == [sq \in pawns |-> pawn_scores[phase][TableSquare(c, sq) + 1]
                                        + Bonus(isolated_pawn(b, c, sq), -10)
                                        + Bonus(sq \in Passed(b, c), score_passed(b, c, sq))]
<1>1. pawns \in SUBSET Squares
  BY PieceNames DEF Boards
<1>2. Passed(b, c) \in SUBSET Squares
  BY <1>1 DEF Passed
<1>3. \A sq \in pawns : RNK(sq) \in 1 .. 6
  <2> SUFFICES ASSUME NEW sq \in pawns PROVE RNK(sq) \in 1 .. 6
    OBVIOUS
  <2>1. sq \in Squares /\ sq \notin rank[0] /\ sq \notin rank[7]
    BY <1>1 DEF Consistent, PawnsWithin
  <2>2. RNK(sq) \in 0 .. 7 /\ RNK(sq) # 0 /\ RNK(sq) # 7
    BY <2>1, RankOf
  <2> QED
    BY <2>2
<1>4. \A sq \in pawns : score[sq] \in Int
  <2> SUFFICES ASSUME NEW sq \in pawns PROVE score[sq] \in Int
    OBVIOUS
  <2>1. TableSquare(c, sq) + 1 \in 1 .. 64
    <3>1. sq \in 0 .. 63 /\ RNK(sq) \in 0 .. 7 /\ FIL(sq) \in 0 .. 7
      BY <1>1, RankOf DEF Squares
    <3> QED
      BY <3>1 DEF TableSquare, SQUARE
  <2>2. pawn_scores[phase][TableSquare(c, sq) + 1] \in Int
    BY <2>1, TablesTyped
  <2>3. Bonus(isolated_pawn(b, c, sq), -10) \in Int
    BY DEF Bonus
  <2>4. score_passed(b, c, sq) \in Int
    <3> DEFINE n == Abs(Rank8(c) - RNK(sq))
               near == \E pp \in Passed(b, c) : pp > sq /\ pp \in connected_pawn_mask[sq]
    <3>1. n \in Nat /\ n > 0
      <4>1. RNK(sq) \in 1 .. 6
        BY <1>3
      <4>2. Rank8(c) \in {0, 7}
        BY DEF Rank8
      <4> QED
        BY <4>1, <4>2 DEF Abs
    <3>2. Bonus(near, 20) \in Int
      BY DEF Bonus
    <3>3. score_passed(b, c, sq) = 25 + (80 \div n) + Bonus(near, 20)
      BY DEF score_passed
    <3> HIDE DEF n, near
    <3>4. 80 \div n \in Int
      BY <3>1
    <3> QED
      BY <3>2, <3>3, <3>4
  <2>5. Bonus(sq \in Passed(b, c), score_passed(b, c, sq)) \in Int
    BY <2>4 DEF Bonus
  <2> QED
    BY <2>2, <2>3, <2>5
<1>5. SumFunction(score) \in Int
  <2>1. score \in [pawns -> Int]
    BY <1>4
  <2> HIDE DEF score, pawns
  <2> QED
    BY <1>1, <2>1, SumOfSquares
<1>6. Cardinality(doubled) \in Int
  <2>1. doubled \subseteq Squares
    BY DEF Squares
  <2> HIDE DEF doubled
  <2> QED
    BY <2>1, CountTyped
<1>7. score_pawns(b, phase, c) = SumFunction(score) - 5 * Cardinality(doubled)
  BY DEF score_pawns
<1> HIDE DEF score, doubled, pawns
<1> QED
  BY <1>2, <1>5, <1>6, <1>7

LEMMA PiecesTyped ==
  ASSUME NEW b \in Boards, Consistent(b), NEW c \in Colors, NEW phase \in Phases,
         NEW passed \in SUBSET Squares
  PROVE  /\ score_knights(b, c) \in Int /\ score_bishops(b, c) \in Int
         /\ score_rooks(b, phase, passed, c) \in Int /\ score_queens(b, c) \in Int
         /\ score_king(b, phase, c) \in Int /\ score_combo(b, c) \in Int
         /\ score_control(b, c) \in Int
<1>1. /\ \A p \in Pieces : b.position[c][p] \in SUBSET Squares
      /\ b.position_all[c] \subseteq Squares /\ b.king[c] \in Squares
      /\ XSIDE(c) \in Colors /\ b.king[XSIDE(c)] \in Squares
      /\ \A p \in Pieces : b.position[XSIDE(c)][p] \in SUBSET Squares
  <2>1. XSIDE(c) \in Colors
    BY DEF Colors, WHITE, BLACK, XSIDE
  <2> QED
    BY <2>1 DEF Boards
<1>2. /\ b.position[c][KNIGHT] \in SUBSET Squares /\ b.position[c][BISHOP] \in SUBSET Squares
      /\ b.position[c][ROOK] \in SUBSET Squares /\ b.position[c][QUEEN] \in SUBSET Squares
      /\ b.position[c][PAWN] \in SUBSET Squares
  BY <1>1, PieceNames
<1>3. \A sq \in Squares : attack_bb[KNIGHT][sq] \subseteq Squares /\ attack_bb[KING][sq] \subseteq Squares
  BY AttacksTyped, KNIGHT \in Pieces \ {PAWN}, KING \in Pieces \ {PAWN}
  DEF Pieces, PAWN, KNIGHT, KING
<1>4. \A sq \in Squares : /\ bishop_attacks(b, sq) \subseteq Squares
                          /\ rook_attacks(b, sq) \subseteq Squares
                          /\ queen_attacks(b, sq) \subseteq Squares
                          /\ pawn_captures(b, sq, XSIDE(c)) \subseteq Squares
                          /\ attackers(b, sq, c) \subseteq Squares
  BY <1>1, AttacksTyped
<1>5. score_knights(b, c) \in Int
  <2> DEFINE f == [sq \in b.position[c][KNIGHT] |->
                     knight_scores[sq] + 2 * Cardinality(attack_bb[KNIGHT][sq] \ b.position_all[c])]
  <2>1. \A sq \in b.position[c][KNIGHT] : f[sq] \in Int
    <3> SUFFICES ASSUME NEW sq \in b.position[c][KNIGHT] PROVE f[sq] \in Int
      OBVIOUS
    <3>1. sq \in Squares /\ knight_scores[sq] \in Int
      BY <1>2, TablesTyped
    <3>2. Cardinality(attack_bb[KNIGHT][sq] \ b.position_all[c]) \in Int
      BY <1>3, <3>1, CountTyped
    <3> QED
      BY <3>1, <3>2
  <2>2. f \in [b.position[c][KNIGHT] -> Int]
    BY <2>1
  <2>3. score_knights(b, c) = SumFunction(f)
    BY DEF score_knights
  <2> HIDE DEF f
  <2> QED
    BY <1>2, <2>2, <2>3, SumOfSquares
<1>6. score_bishops(b, c) \in Int
  <2> DEFINE S == b.position[c][BISHOP]
             Far(sq) == Bonus(RNK(sq) = Rank7(XSIDE(c)) /\ FIL(sq) \in {1, 6}, 15)
             f == [sq \in S |->
                     2 * Cardinality(bishop_attacks(b, sq) \ b.position_all[c])
                       + 25 * Cardinality(pawn_captures(b, sq, XSIDE(c)) \cap b.position[c][PAWN])
                       + Far(sq)]
  <2>1. \A sq \in S : f[sq] \in Int
    <3> SUFFICES ASSUME NEW sq \in S PROVE f[sq] \in Int
      OBVIOUS
    <3>1. sq \in Squares
      BY <1>2
    <3>2. Cardinality(bishop_attacks(b, sq) \ b.position_all[c]) \in Int
      BY <1>4, <3>1, CountTyped
    <3>3. Cardinality(pawn_captures(b, sq, XSIDE(c)) \cap b.position[c][PAWN]) \in Int
      BY <1>4, <3>1, CountTyped
    <3>4. Far(sq) \in Int
      BY DEF Bonus
    <3> HIDE DEF Far
    <3> QED
      BY <3>2, <3>3, <3>4
  <2>2. f \in [S -> Int]
    BY <2>1
  <2>3. score_bishops(b, c) = SumFunction(f)
    BY DEF score_bishops
  <2> HIDE DEF f
  <2> QED
    BY <1>2, <2>2, <2>3, SumOfSquares
<1>7. score_rooks(b, phase, passed, c) \in Int
  <2> DEFINE S == b.position[c][ROOK]
             theirs == b.position[XSIDE(c)]
             Open(ps, sq) == file[FIL(sq)] \cap ps = {}
             Early(sq) == Bonus(phase # ENDGAME /\ RNK(sq) # Rank8(XSIDE(c)), -10)
             OnOpen(sq) == Bonus(Open(b.position[c][PAWN], sq), IF Open(theirs[PAWN], sq) THEN 10 ELSE 5)
             Seventh(sq) == Bonus(phase # ENDGAME /\ RNK(sq) = Rank7(c),
                              Bonus(theirs[PAWN] \cap rank[Rank7(c)] # {}, 20)
                                + Bonus(RNK(b.king[XSIDE(c)]) = Rank8(c), 50))
             f == [sq \in S |->
                     2 * Cardinality(rook_attacks(b, sq) \ b.position_all[c])
                       + Early(sq) + OnOpen(sq) + Seventh(sq) + score_rook_passed(passed, c, sq)]
  <2>1. \A sq \in S : f[sq] \in Int
    <3> SUFFICES ASSUME NEW sq \in S PROVE f[sq] \in Int
      OBVIOUS
    <3>1. sq \in Squares
      BY <1>2
    <3>2. Cardinality(rook_attacks(b, sq) \ b.position_all[c]) \in Int
      BY <1>4, <3>1, CountTyped
    <3>3. Early(sq) \in Int /\ OnOpen(sq) \in Int /\ Seventh(sq) \in Int
      BY DEF Bonus
    <3>4. score_rook_passed(passed, c, sq) \in Int
      <4> DEFINE pps == passed \cap file[FIL(sq)]
                 ahead == {pp \in pps : IF c = WHITE THEN Ranks(pp, sq) > 0 ELSE Ranks(pp, sq) < 0}
                 behind == {pp \in pps \ ahead : Ranks(pp, sq) # 0}
      <4>1. Cardinality(behind) \in Int /\ Cardinality(ahead) \in Int
        <5>1. behind \subseteq Squares /\ ahead \subseteq Squares
          OBVIOUS
        <5> HIDE DEF behind, ahead
        <5> QED
          BY <5>1, CountTyped
      <4>2. score_rook_passed(passed, c, sq) = 25 * Cardinality(behind) - 15 * Cardinality(ahead)
        BY DEF score_rook_passed
      <4> HIDE DEF behind, ahead
      <4> QED
        BY <4>1, <4>2
    <3> HIDE DEF Early, OnOpen, Seventh
    <3> QED
      BY <3>2, <3>3, <3>4
  <2>2. f \in [S -> Int]
    BY <2>1
  <2>3. score_rooks(b, phase, passed, c) = SumFunction(f)
    BY DEF score_rooks
  <2> HIDE DEF f
  <2> QED
    BY <1>2, <2>2, <2>3, SumOfSquares
<1>8. score_queens(b, c) \in Int
  <2> DEFINE f == [sq \in b.position[c][QUEEN] |->
                     Cardinality(queen_attacks(b, sq) \ b.position_all[c])]
  <2>1. \A sq \in b.position[c][QUEEN] : f[sq] \in Int
    BY <1>2, <1>4, CountTyped
  <2>2. f \in [b.position[c][QUEEN] -> Int]
    BY <2>1
  <2>3. score_queens(b, c) = SumFunction(f)
    BY DEF score_queens
  <2> HIDE DEF f
  <2> QED
    BY <1>2, <2>2, <2>3, SumOfSquares
<1>9. score_king(b, phase, c) \in Int
  <2> DEFINE k == b.king[c]
             shield == attack_bb[KING][k] \cap Wings(Rank7(XSIDE(c))) \cap b.position[c][PAWN]
  <2>1. king_scores[k] \in Int /\ king_scores_endgame[k] \in Int
    BY <1>1, TablesTyped
  <2>2. Cardinality(shield) \in Int
    BY <1>2, CountTyped
  <2> HIDE DEF shield
  <2>3. Bonus(k \in Wings(Rank8(XSIDE(c))), 8 * Cardinality(shield)) \in Int
    BY <2>2 DEF Bonus
  <2>4. score_king(b, phase, c) = IF phase = ENDGAME THEN king_scores_endgame[k]
          ELSE king_scores[k] + Bonus(k \in Wings(Rank8(XSIDE(c))), 8 * Cardinality(shield))
    BY DEF score_king, shield
  <2> QED
    BY <2>1, <2>3, <2>4
<1>10. score_combo(b, c) \in Int
  <2> DEFINE f == [q \in b.position[c][QUEEN] |->
                     15 * Cardinality(bishop_attacks(b, q) \cap b.position[c][BISHOP])
                       + 30 * Cardinality(rook_attacks(b, q) \cap b.position[c][ROOK])]
  <2>1. \A q \in b.position[c][QUEEN] : f[q] \in Int
    <3> SUFFICES ASSUME NEW q \in b.position[c][QUEEN] PROVE f[q] \in Int
      OBVIOUS
    <3>1. Cardinality(bishop_attacks(b, q) \cap b.position[c][BISHOP]) \in Int
      BY <1>2, CountTyped
    <3>2. Cardinality(rook_attacks(b, q) \cap b.position[c][ROOK]) \in Int
      BY <1>2, CountTyped
    <3> QED
      BY <3>1, <3>2
  <2>2. f \in [b.position[c][QUEEN] -> Int]
    BY <2>1
  <2>3. score_combo(b, c) = SumFunction(f)
    BY DEF score_combo
  <2> HIDE DEF f
  <2> QED
    BY <1>2, <2>2, <2>3, SumOfSquares
<1>11. score_control(b, c) \in Int
  <2> DEFINE N(sq) == Cardinality(attackers(b, sq, c))
             f == [sq \in Squares |->
                     control_score[sq] * (IF N(sq) < control_maxattackers[sq]
                                            THEN N(sq) ELSE control_maxattackers[sq])]
  <2>1. \A sq \in Squares : f[sq] \in Int
    <3> SUFFICES ASSUME NEW sq \in Squares PROVE f[sq] \in Int
      OBVIOUS
    <3>1. N(sq) \in Int /\ control_score[sq] \in Int /\ control_maxattackers[sq] \in Int
      BY <1>4, CountTyped, TablesTyped
    <3> HIDE DEF N
    <3> QED
      BY <3>1
  <2>2. f \in [Squares -> Int]
    BY <2>1
  <2>3. score_control(b, c) = SumFunction(f)
    BY DEF score_control
  <2> HIDE DEF f
  <2> QED
    BY <2>2, <2>3, SumOfSquares
<1> QED
  BY <1>5, <1>6, <1>7, <1>8, <1>9, <1>10, <1>11

-----------------------------------------------------------------------------
(***************************************************************************)
(* Every key has a slot: it is a finite set of numbers.                     *)
(***************************************************************************)
LEMMA ImageFinite ==
  ASSUME NEW S, IsFiniteSet(S), NEW T, NEW f \in [S -> T], \A t \in T : \E s \in S : f[s] = t
  PROVE  IsFiniteSet(T)
<1>1. f \in Surjection(S, T)
  BY DEF Surjection
<1> QED
  BY <1>1, FS_Surjection

LEMMA KeysFinite == IsFiniteSet(Keys)
<1>1. IsFiniteSet(Colors) /\ IsFiniteSet(Pieces) /\ IsFiniteSet(Squares) /\ IsFiniteSet(Flags)
  <2>1. Colors = 0 .. 1 /\ Pieces = 0 .. 5
    BY DEF Colors, WHITE, BLACK, Pieces, PAWN, KING
  <2>2. Flags = ({"WKCASTLE"} \cup {"WQCASTLE"}) \cup ({"BKCASTLE"} \cup {"BQCASTLE"})
    BY DEF Flags
  <2>3. IsFiniteSet({"WKCASTLE"} \cup {"WQCASTLE"}) /\ IsFiniteSet({"BKCASTLE"} \cup {"BQCASTLE"})
    BY FS_Singleton, FS_Union
  <2>4. IsFiniteSet(Flags)
    BY <2>2, <2>3, FS_Union
  <2>5. IsFiniteSet(0 .. 1) /\ IsFiniteSet(0 .. 5) /\ IsFiniteSet(0 .. 63)
    BY FS_Interval, 0 \in Int, 1 \in Int, 5 \in Int, 63 \in Int
  <2> QED
    BY <2>1, <2>4, <2>5 DEF Squares
<1> DEFINE P == {Key(c, p, sq) : c \in Colors, p \in Pieces, sq \in Squares}
           E == {EpKey(sq) : sq \in Squares}
           F == {FlagKey(f) : f \in Flags}
<1>2. IsFiniteSet(P)
  <2> DEFINE S == Colors \X (Pieces \X Squares)
             g == [t \in S |-> Key(t[1], t[2][1], t[2][2])]
  <2>1. IsFiniteSet(S)
    BY <1>1, FS_Product
  <2>2. g \in [S -> P]
    OBVIOUS
  <2>3. ASSUME NEW k \in P
        PROVE  \E t \in S : g[t] = k
    <3>1. PICK c \in Colors, p \in Pieces, sq \in Squares : k = Key(c, p, sq)
      OBVIOUS
    <3>2. <<c, <<p, sq>>>> \in S /\ g[<<c, <<p, sq>>>>] = k
      BY <3>1
    <3> QED
      BY <3>2
  <2> HIDE DEF P, S, g
  <2> QED
    BY <2>1, <2>2, <2>3, ImageFinite
<1>3. IsFiniteSet(E)
  <2> DEFINE g == [sq \in Squares |-> EpKey(sq)]
  <2>1. g \in [Squares -> E] /\ \A k \in E : \E sq \in Squares : g[sq] = k
    OBVIOUS
  <2> HIDE DEF E, g
  <2> QED
    BY <1>1, <2>1, ImageFinite
<1>4. IsFiniteSet(F)
  <2> DEFINE g == [f \in Flags |-> FlagKey(f)]
  <2>1. g \in [Flags -> F] /\ \A k \in F : \E f \in Flags : g[f] = k
    OBVIOUS
  <2> HIDE DEF F, g
  <2> QED
    BY <1>1, <2>1, ImageFinite
<1>5. Keys = ((P \cup E) \cup F) \cup {SideKey}
  BY DEF Keys
<1> HIDE DEF P, E, F
<1>6. IsFiniteSet(P \cup E)
  BY <1>2, <1>3, FS_Union
<1>7. IsFiniteSet((P \cup E) \cup F)
  BY <1>4, <1>6, FS_Union
<1> QED
  BY <1>5, <1>7, FS_Singleton, FS_Union

LEMMA SlotTyped ==
  ASSUME NEW b \in Boards
  PROVE  Slot(b.pawnhashkey) \in Slots /\ Slot(get_hashkey_noside(b)) \in Slots
<1>1. IsFiniteSet(b.pawnhashkey) /\ IsFiniteSet(get_hashkey_noside(b))
  BY KeysFinite, FS_Subset DEF Boards, get_hashkey_noside
<1>2. Cardinality(b.pawnhashkey) \in Nat /\ Cardinality(get_hashkey_noside(b)) \in Nat
  BY <1>1, FS_CardinalityType
<1> QED
  BY <1>2 DEF Slot, Slots

-----------------------------------------------------------------------------
(***************************************************************************)
(* The score that is worked out, and how it turns with the side to move.    *)
(***************************************************************************)
\* What the pawn hash table may hold for a board.
PawnsAre(b, phase, pawns) ==
  \A c \in Colors : pawns.score[c] = score_pawns(b, phase, c) /\ pawns.passed[c] = Passed(b, c)
FreshPawns(b) == Pawns(EmptyTable, b, get_phase(b))
Value(b) == Positional(b, get_phase(b), FreshPawns(b))
\* The score as White sees it, which is what the evaluation cache keeps.
WhiteValue(b) == IF b.side = WHITE THEN Value(b) ELSE -Value(b)

LEMMA FreshFacts ==
  ASSUME NEW b \in Boards
  PROVE  /\ FreshPawns(b) = [hashkey |-> b.pawnhashkey, phase |-> get_phase(b),
                             score |-> [c \in Colors |-> score_pawns(b, get_phase(b), c)],
                             passed |-> [c \in Colors |-> Passed(b, c)]]
         /\ PawnsAre(b, get_phase(b), FreshPawns(b))
         /\ Probe(EmptyTable, b) = {}
<1>1. /\ EmptyTable[Slot(b.pawnhashkey)] = <<>>
      /\ EmptyTable[Slot(get_hashkey_noside(b))] = <<>>
  BY SlotTyped DEF EmptyTable
<1>2. DOMAIN <<>> = {}
  OBVIOUS
<1>3. PawnEntry(EmptyTable, b, get_phase(b)) = {}
  BY <1>1, <1>2 DEF PawnEntry, Holds
<1>4. FreshPawns(b) = [hashkey |-> b.pawnhashkey, phase |-> get_phase(b),
                       score |-> [c \in Colors |-> score_pawns(b, get_phase(b), c)],
                       passed |-> [c \in Colors |-> Passed(b, c)]]
  BY <1>3 DEF FreshPawns, Pawns
<1>5. Probe(EmptyTable, b) = {}
  <2> DEFINE held == {g \in {EmptyTable[Slot(get_hashkey_noside(b))]} :
                        Holds(g, get_hashkey_noside(b))}
  <2>1. held = {}
    BY <1>1, <1>2 DEF Holds
  <2>2. Probe(EmptyTable, b) = {IF b.side = WHITE THEN f.score ELSE -f.score : f \in held}
    BY DEF Probe
  <2> HIDE DEF held
  <2> QED
    BY <2>1, <2>2
<1> QED
  BY <1>4, <1>5 DEF PawnsAre

\* What the plugins of the first phase give one side.
Given(b, phase, pawns, c) ==
  pawns.score[c] + score_knights(b, c) + score_bishops(b, c)
    + score_rooks(b, phase, pawns.passed[c], c) + score_queens(b, c)
    + score_king(b, phase, c) + score_devel(b, phase, c) + score_combo(b, c)

LEMMA GivenAlike ==
  ASSUME NEW a \in Boards, Consistent(a), NEW b \in Boards, Consistent(b), Alike(a, b),
         NEW phase \in Phases \ {OPENING}, NEW p, NEW q,
         PawnsAre(a, phase, p), PawnsAre(b, phase, q), NEW c \in Colors
  PROVE  /\ Given(a, phase, p, c) = Given(b, phase, q, c) /\ Given(a, phase, p, c) \in Int
         /\ score_control(a, c) = score_control(b, c) /\ score_control(a, c) \in Int
<1> DEFINE passed == Passed(a, c)
<1>1. \A d \in Colors : a.position[d][PAWN] = b.position[d][PAWN]
  BY DEF Alike, SameMen
<1>2. /\ p.passed[c] = passed /\ q.passed[c] = passed
      /\ p.score[c] = score_pawns(a, phase, c) /\ q.score[c] = score_pawns(a, phase, c)
  BY <1>1, PawnsAlike DEF PawnsAre
<1>3. score_pawns(a, phase, c) \in Int /\ passed \in SUBSET Squares
  BY PawnsTyped
<1>4. score_devel(a, phase, c) = 0 /\ score_devel(b, phase, c) = 0
  BY DEF score_devel, Bonus
<1> HIDE DEF passed
<1>5. /\ score_knights(a, c) \in Int /\ score_bishops(a, c) \in Int
      /\ score_rooks(a, phase, passed, c) \in Int /\ score_queens(a, c) \in Int
      /\ score_king(a, phase, c) \in Int /\ score_combo(a, c) \in Int
      /\ score_control(a, c) \in Int
  BY <1>3, PiecesTyped
<1> QED
  BY <1>2, <1>3, <1>4, <1>5, PiecesAlike DEF Given

LEMMA BalanceTurns ==
  ASSUME NEW m \in Int, NEW n \in Int
  PROVE  material_balance(m, n) \in Int /\ material_balance(n, m) = 0 - material_balance(m, n)
<1> DEFINE k == 8192 - (m + n) + 65536
           d == k * (m - n)
<1>1. d \in Int /\ 8192 - (n + m) + 65536 = k
  OBVIOUS
<1>2. k * (n - m) = 0 - d
  OBVIOUS
<1>3. material_balance(m, n) = Quot(d, 65536) /\ material_balance(n, m) = Quot(0 - d, 65536)
  BY <1>1, <1>2 DEF material_balance
<1> HIDE DEF d
<1>4. CASE d > 0
  <2>1. d \div 65536 \in Int
    BY <1>1
  <2>2. Quot(d, 65536) = d \div 65536
    BY <1>1, <1>4 DEF Quot
  <2>3. ~(0 - d >= 0) /\ -(0 - d) = d
    BY <1>1, <1>4
  <2>4. Quot(0 - d, 65536) = -(d \div 65536)
    BY <2>3 DEF Quot
  <2> QED
    BY <1>3, <2>1, <2>2, <2>4
<1>5. CASE d = 0
  BY <1>3, <1>5 DEF Quot
<1>6. CASE d < 0
  <2> DEFINE e == 0 - d
  <2>1. e \in Int /\ e > 0 /\ -d = e /\ ~(d >= 0)
    BY <1>1, <1>6
  <2> HIDE DEF e
  <2>2. e \div 65536 \in Int
    BY <2>1
  <2>3. Quot(e, 65536) = e \div 65536 /\ Quot(d, 65536) = -(e \div 65536)
    BY <2>1 DEF Quot
  <2> QED
    BY <1>3, <2>2, <2>3 DEF e
<1> QED
  BY <1>1, <1>4, <1>5, <1>6

\* Boards that are alike have the same value, with the opposite sign if the other
\* side is to move.
LEMMA ValuesTurn ==
  ASSUME NEW a \in Boards, Consistent(a), NEW b \in Boards, Consistent(b), Alike(a, b),
         get_phase(a) # OPENING, NEW p, NEW q,
         PawnsAre(a, get_phase(a), p), PawnsAre(b, get_phase(b), q)
  PROVE  LET v == Positional(a, get_phase(a), p)
             w == Positional(b, get_phase(b), q)
         IN  v \in Int /\ w = (IF a.side = b.side THEN v ELSE 0 - v)
<1> DEFINE phase == get_phase(a)
           s == a.side
           x == XSIDE(s)
           G(c) == Given(a, phase, p, c)
           C(c) == score_control(a, c)
           M(c) == a.material[c]
           v == Positional(a, phase, p)
           w == Positional(b, phase, q)
<1>1. phase \in Phases \ {OPENING} /\ get_phase(b) = phase
  BY DEF get_phase, Phases, Alike, SameMen
<1>2. /\ s \in Colors /\ x \in Colors /\ XSIDE(x) = s /\ b.side \in {s, x} /\ s # x
      /\ M(s) \in Int /\ M(x) \in Int
  BY DEF Boards, Colors, WHITE, BLACK, XSIDE
<1>3. \A c \in Colors : /\ G(c) \in Int /\ C(c) \in Int /\ b.material[c] = M(c)
                        /\ Given(b, phase, q, c) = G(c) /\ score_control(b, c) = C(c)
  BY <1>1, GivenAlike DEF Alike, SameMen
<1>4. /\ Phase1(a, phase, p) = G(s) - G(x) /\ Phase2(a) = C(s) - C(x)
      /\ Balance(a) = material_balance(M(s), M(x))
  <2>1. Phase1(a, phase, p) = G(s) - G(x)
    BY <1>2 DEF Phase1, Given, Difference
  <2>2. Phase2(a) = C(s) - C(x)
    BY <1>2 DEF Phase2, Difference
  <2> QED
    BY <2>1, <2>2 DEF Balance
<1>5. LET t == b.side
      IN  /\ Phase1(b, phase, q) = G(t) - G(XSIDE(t)) /\ Phase2(b) = C(t) - C(XSIDE(t))
          /\ Balance(b) = material_balance(M(t), M(XSIDE(t)))
  <2> DEFINE t == b.side
  <2>0. t \in Colors /\ XSIDE(t) \in Colors
    BY <1>2
  <2>1. Phase1(b, phase, q) = Given(b, phase, q, t) - Given(b, phase, q, XSIDE(t))
    BY <2>0 DEF Phase1, Given, Difference
  <2>2. Phase2(b) = score_control(b, t) - score_control(b, XSIDE(t))
    BY <2>0 DEF Phase2, Difference
  <2>3. Balance(b) = material_balance(M(t), M(XSIDE(t)))
    BY <1>3, <2>0 DEF Balance
  <2> HIDE DEF G, C, M
  <2> QED
    BY <1>3, <2>0, <2>1, <2>2, <2>3
<1> HIDE DEF G, C, M, phase
<1>6. /\ Balance(a) \in Int
      /\ Balance(b) = (IF s = b.side THEN Balance(a) ELSE 0 - Balance(a))
  <2>1. /\ material_balance(M(s), M(x)) \in Int
        /\ material_balance(M(x), M(s)) = 0 - material_balance(M(s), M(x))
    BY <1>2, BalanceTurns
  <2>2. CASE s = b.side
    BY <1>4, <1>5, <2>1, <2>2
  <2>3. CASE s # b.side
    <3>1. b.side = x /\ XSIDE(b.side) = s
      BY <1>2, <2>3
    <3> QED
      BY <1>4, <1>5, <2>1, <2>3, <3>1
  <2> QED
    BY <2>2, <2>3
<1>7. /\ Phase1(a, phase, p) \in Int
      /\ Phase1(b, phase, q) = (IF s = b.side THEN Phase1(a, phase, p) ELSE 0 - Phase1(a, phase, p))
  BY <1>2, <1>3, <1>4, <1>5
<1>8. /\ Phase2(a) \in Int
      /\ Phase2(b) = (IF s = b.side THEN Phase2(a) ELSE 0 - Phase2(a))
  BY <1>2, <1>3, <1>4, <1>5
<1>9. \A m, n \in Int : /\ m + Bonus(Abs(m) <= EVAL_CUTOFF_PHASE1, n) \in Int
                        /\ (0 - m) + Bonus(Abs(0 - m) <= EVAL_CUTOFF_PHASE1, 0 - n)
                             = 0 - (m + Bonus(Abs(m) <= EVAL_CUTOFF_PHASE1, n))
  BY DEF Bonus, Abs, EVAL_CUTOFF_PHASE1
<1> DEFINE m == Phase1(a, phase, p)
           n == Phase2(a)
           k == Refined(a, m)
<1>10. k \in Int /\ Refined(b, Phase1(b, phase, q)) = (IF s = b.side THEN k ELSE 0 - k)
  <2>1. m \in Int /\ n \in Int /\ k = m + Bonus(Abs(m) <= EVAL_CUTOFF_PHASE1, n)
    BY <1>7, <1>8 DEF Refined
  <2>2. Refined(b, Phase1(b, phase, q)) = Phase1(b, phase, q)
          + Bonus(Abs(Phase1(b, phase, q)) <= EVAL_CUTOFF_PHASE1, Phase2(b))
    BY DEF Refined
  <2> HIDE DEF k
  <2>3. CASE s = b.side
    <3>1. Phase1(b, phase, q) = m /\ Phase2(b) = n
      BY <1>7, <1>8, <2>3
    <3> HIDE DEF m, n
    <3> QED
      BY <1>9, <2>1, <2>2, <2>3, <3>1
  <2>4. CASE s # b.side
    <3>1. Phase1(b, phase, q) = 0 - m /\ Phase2(b) = 0 - n
      BY <1>7, <1>8, <2>4
    <3> HIDE DEF m, n
    <3> QED
      BY <1>9, <2>1, <2>2, <2>4, <3>1
  <2> QED
    BY <2>3, <2>4
<1>11. v = Balance(a) + k /\ w = Balance(b) + Refined(b, Phase1(b, phase, q))
  BY DEF Positional
<1> HIDE DEF k, v, w
<1>12. v \in Int /\ w = (IF s = b.side THEN v ELSE 0 - v)
  BY <1>6, <1>10, <1>11
<1> QED
  BY <1>1, <1>12 DEF v, w, phase

\* Whatever is worked out for boards with the same key is one number for White.
LEMMA SameWhiteValue ==
  ASSUME NEW a \in Boards, Consistent(a), NEW b \in Boards, Consistent(b),
         get_hashkey_noside(a) = get_hashkey_noside(b), get_phase(b) # OPENING
  PROVE  Value(a) \in Int /\ Value(b) \in Int /\ WhiteValue(a) = WhiteValue(b)
<1>1. Alike(a, b) /\ get_phase(a) = get_phase(b)
  BY KeyTellsMen DEF get_phase, Alike, SameMen
<1>2. PawnsAre(a, get_phase(a), FreshPawns(a)) /\ PawnsAre(b, get_phase(b), FreshPawns(b))
  BY FreshFacts
<1>3. Value(a) \in Int /\ Value(b) = (IF a.side = b.side THEN Value(a) ELSE 0 - Value(a))
  BY <1>1, <1>2, ValuesTurn DEF Value
<1>4. a.side \in {WHITE, BLACK} /\ b.side \in {WHITE, BLACK} /\ WHITE # BLACK
  BY DEF Boards, Colors, WHITE, BLACK
<1> QED
  BY <1>3, <1>4 DEF WhiteValue

-----------------------------------------------------------------------------
(***************************************************************************)
(* The caches hold what is true of every board they can be asked about.     *)
(***************************************************************************)
PawnTrue(e) ==
  DOMAIN e # {} =>
    /\ e = [hashkey |-> e.hashkey, phase |-> e.phase, score |-> e.score, passed |-> e.passed]
    /\ \A b \in Boards : Consistent(b) /\ b.pawnhashkey = e.hashkey => PawnsAre(b, e.phase, e)
EntryTrue(e) ==
  DOMAIN e # {} =>
    \A b \in Boards :
      Consistent(b) /\ get_hashkey_noside(b) = e.hashkey /\ get_phase(b) # OPENING =>
        e.score = WhiteValue(b)
CachesTrue(ev) ==
  /\ ev = [pawnhash |-> ev.pawnhash, evalcache |-> ev.evalcache,
           window |-> ev.window, score |-> ev.score]
  /\ ev.pawnhash = [s \in Slots |-> ev.pawnhash[s]]
  /\ ev.evalcache = [s \in Slots |-> ev.evalcache[s]]
  /\ \A s \in Slots : PawnTrue(ev.pawnhash[s]) /\ EntryTrue(ev.evalcache[s])

LEMMA NothingIsTrue == CachesTrue(NoEvaluation)
<1>1. DOMAIN <<>> = {}
  OBVIOUS
<1> QED
  BY <1>1 DEF CachesTrue, NoEvaluation, EmptyTable, PawnTrue, EntryTrue

\* The pawn hash table gives what would be worked out, and may remember it.
LEMMA PawnsTrue ==
  ASSUME NEW b \in Boards, Consistent(b), NEW ev, CachesTrue(ev)
  PROVE  LET p == Pawns(ev.pawnhash, b, get_phase(b))
         IN  PawnsAre(b, get_phase(b), p) /\ PawnTrue(p)
<1> DEFINE phase == get_phase(b)
           hits == PawnEntry(ev.pawnhash, b, phase)
           p == Pawns(ev.pawnhash, b, phase)
<1>1. CASE hits # {}
  <2> DEFINE e == CHOOSE f \in hits : TRUE
  <2>1. e \in hits
    BY <1>1
  <2>2. /\ e = ev.pawnhash[Slot(b.pawnhashkey)] /\ DOMAIN e # {}
        /\ e.hashkey = b.pawnhashkey /\ e.phase = phase
    BY <2>1 DEF PawnEntry, Holds
  <2>3. PawnTrue(e)
    BY <2>2, SlotTyped DEF CachesTrue
  <2>4. p = [e EXCEPT !.phase = phase]
    BY <1>1 DEF Pawns
  <2> HIDE DEF e, hits, p, phase
  <2>5. e = [hashkey |-> e.hashkey, phase |-> e.phase, score |-> e.score, passed |-> e.passed]
    BY <2>2, <2>3 DEF PawnTrue
  <2>6. p = e
    BY <2>2, <2>4, <2>5
  <2>7. PawnsAre(b, e.phase, e)
    BY <2>2, <2>3 DEF PawnTrue
  <2> QED
    BY <2>2, <2>3, <2>6, <2>7 DEF p, phase
<1>2. CASE hits = {}
  <2>1. p = [hashkey |-> b.pawnhashkey, phase |-> phase,
             score |-> [c \in Colors |-> score_pawns(b, phase, c)],
             passed |-> [c \in Colors |-> Passed(b, c)]]
    BY <1>2 DEF Pawns
  <2> HIDE DEF hits, p, phase
  <2>2. PawnsAre(b, phase, p)
    BY <2>1 DEF PawnsAre
  <2>3. ASSUME NEW a \in Boards, Consistent(a), a.pawnhashkey = p.hashkey
        PROVE  PawnsAre(a, p.phase, p)
    <3>1. a.pawnhashkey = b.pawnhashkey /\ p.phase = phase
      BY <2>1, <2>3
    <3>2. \A c \in Colors : a.position[c][PAWN] = b.position[c][PAWN]
      BY <2>3, <3>1, KeyTellsPawns
    <3>3. \A c \in Colors : /\ Passed(a, c) = Passed(b, c)
                            /\ score_pawns(a, phase, c) = score_pawns(b, phase, c)
      BY <3>2, PawnsAlike
    <3> QED
      BY <2>2, <3>1, <3>3 DEF PawnsAre
  <2>4. PawnTrue(p)
    BY <2>1, <2>3 DEF PawnTrue
  <2> QED
    BY <2>2, <2>4 DEF p, phase
<1> QED
  BY <1>1, <1>2

\* What is worked out is the value, wherever the pawns' scores come from.
LEMMA WorkedIsValue ==
  ASSUME NEW b \in Boards, Consistent(b), get_phase(b) # OPENING, NEW p,
         PawnsAre(b, get_phase(b), p)
  PROVE  Positional(b, get_phase(b), p) = Value(b) /\ Value(b) \in Int
<1>1. Alike(b, b)
  BY DEF Alike, SameMen
<1>2. PawnsAre(b, get_phase(b), FreshPawns(b))
  BY FreshFacts
<1> QED
  BY <1>1, <1>2, ValuesTurn DEF Value

\* An evaluation without cut-off returns the value, and leaves caches that are true.
LEMMA EvalKeeps ==
  ASSUME NEW b \in Boards, Consistent(b), NEW ev, CachesTrue(ev), NEW window
  PROVE  LET r == eval(ev, b, window)
         IN  /\ CachesTrue(r) /\ r.window = window
             /\ ~CutOff(b, window) /\ get_phase(b) # OPENING => r.score = Value(b)
<1> DEFINE r == eval(ev, b, window)
           phase == get_phase(b)
           key == get_hashkey_noside(b)
           at == [ev EXCEPT !.window = window]
           hits == Probe(ev.evalcache, b)
<1>1. /\ CachesTrue(at) /\ at.window = window /\ at.pawnhash = ev.pawnhash
      /\ at.evalcache = ev.evalcache
  BY DEF CachesTrue
<1>2. CASE CutOff(b, window)
  <2>1. r = [ev EXCEPT !.window = window, !.score = Balance(b)]
    BY <1>2 DEF eval
  <2>2. CachesTrue(r) /\ r.window = window
    BY <2>1 DEF CachesTrue
  <2> QED
    BY <1>2, <2>2
<1>3. CASE ~CutOff(b, window) /\ hits # {}
  <2> DEFINE e == ev.evalcache[Slot(key)]
             found == CHOOSE s \in hits : TRUE
  <2>1. r = [at EXCEPT !.score = found]
    BY <1>3 DEF eval, Looked
  <2>2. found \in hits
    BY <1>3
  <2>3. Holds(e, key) /\ found = IF b.side = WHITE THEN e.score ELSE -e.score
    BY <2>2 DEF Probe
  <2> HIDE DEF found, hits, at, r, key
  <2>4. CachesTrue(r) /\ r.window = window /\ r.score = found
    BY <1>1, <2>1 DEF CachesTrue
  <2>5. phase # OPENING => found = Value(b)
    <3>1. EntryTrue(e)
      BY SlotTyped DEF CachesTrue, key
    <3>2. phase # OPENING => e.score = WhiteValue(b)
      BY <2>3, <3>1 DEF EntryTrue, Holds, key
    <3>3. phase # OPENING => Value(b) \in Int
      BY SameWhiteValue
    <3> QED
      BY <2>3, <3>2, <3>3 DEF WhiteValue
  <2> QED
    BY <2>4, <2>5 DEF r
<1>4. CASE ~CutOff(b, window) /\ hits = {}
  <2> DEFINE p == Pawns(ev.pawnhash, b, phase)
             score == Positional(b, phase, p)
             e == put(b, score)
  <2>1. r = [at EXCEPT !.pawnhash[Slot(b.pawnhashkey)] = p,
                       !.evalcache[Slot(key)] = e, !.score = score]
    BY <1>1, <1>4 DEF eval, Looked, Worked, Scored
  <2>2. PawnsAre(b, phase, p) /\ PawnTrue(p)
    BY PawnsTrue
  <2>3. phase # OPENING => score = Value(b) /\ Value(b) \in Int
    BY <2>2, WorkedIsValue
  <2>4. EntryTrue(e)
    <3> SUFFICES ASSUME NEW a \in Boards, Consistent(a), get_hashkey_noside(a) = e.hashkey,
                        get_phase(a) # OPENING
                 PROVE  e.score = WhiteValue(a)
      BY DEF EntryTrue
    <3>1. /\ e.hashkey = key
          /\ e.score = IF b.side = WHITE THEN score ELSE -score
      BY DEF put
    <3>2. get_hashkey_noside(b) = get_hashkey_noside(a)
      BY <3>1
    <3>3. phase = get_phase(a)
      BY <3>2, KeyTellsMen DEF get_phase, Alike, SameMen
    <3>4. WhiteValue(b) = WhiteValue(a)
      BY <3>2, SameWhiteValue
    <3> QED
      BY <2>3, <3>1, <3>3, <3>4 DEF WhiteValue
  <2>5. Slot(b.pawnhashkey) \in Slots /\ Slot(key) \in Slots
    BY SlotTyped
  <2> HIDE DEF p, score, e, r, at, hits, key
  <2>6. /\ r = [pawnhash |-> r.pawnhash, evalcache |-> r.evalcache,
                window |-> r.window, score |-> r.score]
        /\ r.pawnhash = [ev.pawnhash EXCEPT ![Slot(b.pawnhashkey)] = p]
        /\ r.evalcache = [ev.evalcache EXCEPT ![Slot(key)] = e]
        /\ r.window = window /\ r.score = score
    BY <1>1, <2>1 DEF CachesTrue
  <2>7. /\ r.pawnhash = [s \in Slots |-> r.pawnhash[s]]
        /\ \A s \in Slots : PawnTrue(r.pawnhash[s])
    BY <2>2, <2>5, <2>6 DEF CachesTrue
  <2>8. /\ r.evalcache = [s \in Slots |-> r.evalcache[s]]
        /\ \A s \in Slots : EntryTrue(r.evalcache[s])
    BY <2>4, <2>5, <2>6 DEF CachesTrue
  <2>9. CachesTrue(r)
    BY <2>6, <2>7, <2>8 DEF CachesTrue
  <2> QED
    BY <2>3, <2>6, <2>9 DEF r
<1> QED
  BY <1>2, <1>3, <1>4

LEMMA InftyTyped == INFTY \in Int
BY DEF INFTY

\* Without caches and cut-offs the value is worked out.
LEMMA FreshIsValue ==
  ASSUME NEW b \in Boards, Consistent(b), get_phase(b) # OPENING,
         NEW w \in ((-INFTY) .. INFTY) \X ((-INFTY) .. INFTY), ~CutOff(b, w)
  PROVE  Fresh(b) = Value(b)
<1> DEFINE all == <<-INFTY, INFTY>>
<1>1. Balance(b) \in Int
  <2>1. b.side \in Colors /\ XSIDE(b.side) \in Colors
    BY DEF Boards, Colors, WHITE, BLACK, XSIDE
  <2> QED
    BY <2>1, BalanceTurns DEF Balance, Boards
<1>2. ~CutOff(b, all)
  <2>1. INFTY \in Int
    BY InftyTyped
  <2>2. w[1] \in (-INFTY) .. INFTY /\ w[2] \in (-INFTY) .. INFTY
    OBVIOUS
  <2>3. w[1] \in Int /\ w[2] \in Int /\ -INFTY <= w[1] /\ w[2] <= INFTY
    BY <2>1, <2>2
  <2>4. ~(Balance(b) >= w[2] + 150) /\ ~(Balance(b) <= w[1] - 150)
    BY DEF CutOff, EVAL_CUTOFF_MATERIAL
  <2>5. ~(Balance(b) >= INFTY + 150) /\ ~(Balance(b) <= -INFTY - 150)
    BY <1>1, <2>1, <2>3, <2>4
  <2> QED
    BY <2>5 DEF CutOff, EVAL_CUTOFF_MATERIAL
<1>3. eval(NoEvaluation, b, all).score = Value(b)
  BY <1>2, NothingIsTrue, EvalKeeps
<1> QED
  BY <1>3 DEF Fresh

-----------------------------------------------------------------------------
EvaluatorInv ==
  /\ IncrementalStateExact /\ CachesTrue(evaluator) /\ evaluator.window \in Windows
  /\ ~CutOff(board, evaluator.window) /\ get_phase(board) # OPENING =>
       evaluator.score = Value(board)

\* The caches of the evaluator never change a score: whatever boards were evaluated
\* before, with whatever windows, an evaluation that the window does not cut off
\* returns what would be worked out without them.
THEOREM CachesAreExact == ESpec => []CachesExact
<1>1. EInit => EvaluatorInv
  <2> SUFFICES ASSUME EInit PROVE EvaluatorInv
    OBVIOUS
  <2>1. IncrementalStateExact
    BY OpeningsAssumption DEF EInit, Init, IncrementalStateExact, TypeOK
  <2>2. PICK w \in Windows : evaluator = eval(NoEvaluation, board, w)
    BY DEF EInit
  <2>3. board \in Boards /\ Consistent(board)
    BY <2>1 DEF IncrementalStateExact, TypeOK
  <2> QED
    BY <2>1, <2>2, <2>3, NothingIsTrue, EvalKeeps DEF EvaluatorInv
<1>2. EvaluatorInv /\ [ENext]_evars => EvaluatorInv'
  <2> SUFFICES ASSUME EvaluatorInv, [ENext]_evars PROVE EvaluatorInv'
    OBVIOUS
  <2>1. CASE ENext
    <3>1. (MakeMove \/ MakeNullMove) /\ Evaluate
      BY <2>1 DEF ENext
    <3>2. IncrementalStateExact'
      BY <3>1, BoardStep DEF Next, EvaluatorInv
    <3>3. PICK w \in Windows : evaluator' = eval(evaluator, board', w)
      BY <3>1 DEF Evaluate
    <3>4. board' \in Boards /\ Consistent(board')
      BY <3>2 DEF IncrementalStateExact, TypeOK
    <3>5. CachesTrue(evaluator)
      BY DEF EvaluatorInv
    <3> DEFINE r == eval(evaluator, board', w)
    <3>6. /\ CachesTrue(r) /\ r.window = w
          /\ ~CutOff(board', w) /\ get_phase(board') # OPENING => r.score = Value(board')
      BY <3>4, <3>5, EvalKeeps
    <3> HIDE DEF r
    <3>7. evaluator' = r
      BY <3>3 DEF r
    <3> QED
      BY <3>2, <3>6, <3>7 DEF EvaluatorInv, CachesTrue
  <2>2. CASE UNCHANGED evars
    BY <2>2 DEF evars, EvaluatorInv, IncrementalStateExact, TypeOK
  <2> QED
    BY <2>1, <2>2
<1>3. EvaluatorInv => CachesExact
  <2> SUFFICES ASSUME EvaluatorInv, ~CutOff(board, evaluator.window), get_phase(board) # OPENING
               PROVE  evaluator.score = Fresh(board)
    BY DEF CachesExact
  <2>1. board \in Boards /\ Consistent(board)
    BY DEF EvaluatorInv, IncrementalStateExact, TypeOK
  <2>2. evaluator.window \in ((-INFTY) .. INFTY) \X ((-INFTY) .. INFTY)
    BY WindowsAssumption DEF EvaluatorInv
  <2>3. Fresh(board) = Value(board)
    BY <2>1, <2>2, FreshIsValue
  <2> QED
    BY <2>3 DEF EvaluatorInv
<1> QED
  BY <1>1, <1>2, <1>3, PTL DEF ESpec

-----------------------------------------------------------------------------
(***************************************************************************)
(* The same position with colours and ranks exchanged: sums.                *)
(***************************************************************************)
\* A sum may begin with any element.
LEMMA SumFrom ==
  ASSUME NEW S, IsFiniteSet(S), NEW f \in [S -> Int], NEW sum, IsSum(sum, f, S)
  PROVE  \A s \in SUBSET S : \A x \in s : sum[s] = f[x] + sum[s \ {x}]
<1> DEFINE Bad == {n \in Nat : \E s \in SUBSET S : \E x \in s :
                     Cardinality(s) = n /\ sum[s] # f[x] + sum[s \ {x}]}
<1>1. SUFFICES ASSUME Bad # {} PROVE FALSE
  <2>1. \A s \in SUBSET S : Cardinality(s) \in Nat
    BY Rest
  <2> QED
    BY <2>1
<1>2. PICK n \in Bad : \A l \in Bad : n <= l
  <2>1. Bad \in SUBSET Nat
    OBVIOUS
  <2> HIDE DEF Bad
  <2> QED
    BY <1>1, <2>1, LeastNumber
<1>0. PICK s \in SUBSET S : \E x \in s : Cardinality(s) = n /\ sum[s] # f[x] + sum[s \ {x}]
  BY <1>2
<1>3. PICK x \in s : Cardinality(s) = n /\ sum[s] # f[x] + sum[s \ {x}]
  BY <1>0
<1> DEFINE y == First(s)
<1>4. /\ y \in s /\ s \ {y} \in SUBSET S
      /\ Cardinality(s \ {y}) = n - 1 /\ n - 1 \in Nat /\ sum[s] = f[y] + sum[s \ {y}]
  <2>1. s # {}
    OBVIOUS
  <2>2. /\ y \in s /\ s \ {y} \in SUBSET S /\ Cardinality(s \ {y}) = Cardinality(s) - 1
        /\ Cardinality(s \ {y}) \in Nat
    BY <2>1, Rest
  <2>3. sum[s] = f[y] + sum[s \ {y}]
    BY <2>1 DEF IsSum
  <2> QED
    BY <1>3, <2>2, <2>3
<1> HIDE DEF y
<1>5. x # y
  BY <1>3, <1>4
<1>6. IsFiniteSet(s) /\ Cardinality(s \ {x}) = n - 1 /\ s \ {x} \in SUBSET S
  BY <1>3, FS_Subset, FS_RemoveElement
<1>7. ~(n <= n - 1)
  BY <1>4
<1>8. n - 1 \notin Bad
  BY <1>2, <1>7
<1>9. sum[s \ {y}] = f[x] + sum[(s \ {y}) \ {x}]
  BY <1>4, <1>5, <1>8
<1>10. sum[s \ {x}] = f[y] + sum[(s \ {x}) \ {y}]
  BY <1>4, <1>5, <1>6, <1>8
<1>11. (s \ {x}) \ {y} = (s \ {y}) \ {x} /\ (s \ {x}) \ {y} \in SUBSET S
  OBVIOUS
<1>12. sum[(s \ {x}) \ {y}] \in Int /\ f[x] \in Int /\ f[y] \in Int
  BY <1>4, <1>11 DEF IsSum
<1> HIDE DEF Bad
<1> DEFINE z == sum[(s \ {x}) \ {y}]
<1>13. sum[s] = f[y] + (f[x] + z) /\ f[x] + sum[s \ {x}] = f[x] + (f[y] + z)
  BY <1>4, <1>9, <1>10, <1>11
<1>14. z \in Int
  BY <1>12
<1> HIDE DEF z
<1>15. f[y] + (f[x] + z) = f[x] + (f[y] + z)
  BY <1>12, <1>14
<1> QED
  BY <1>3, <1>13, <1>15

\* The same numbers for other elements have the same sum.
LEMMA SumMoved ==
  ASSUME NEW S, IsFiniteSet(S), NEW f \in [S -> Int],
         NEW T, IsFiniteSet(T), NEW g \in [T -> Int],
         NEW h \in [S -> T], \A x, y \in S : h[x] = h[y] => x = y,
         \A z \in T : \E x \in S : z = h[x],
         \A x \in S : g[h[x]] = f[x]
  PROVE  SumFunction(g) = SumFunction(f)
<1>1. PICK sf : IsSum(sf, f, S) /\ SumFunction(f) = sf[S]
  BY SumAre
<1>2. PICK sg : IsSum(sg, g, T) /\ SumFunction(g) = sg[T]
  BY SumAre
<1> DEFINE Image(s) == {h[x] : x \in s}
           Bad == {n \in Nat : \E s \in SUBSET S : Cardinality(s) = n /\ sg[Image(s)] # sf[s]}
<1>3. ASSUME Bad = {} PROVE SumFunction(g) = SumFunction(f)
  <2>1. Image(S) = T
    OBVIOUS
  <2>2. S \in SUBSET S /\ Cardinality(S) \in Nat
    BY Rest
  <2>3. sg[Image(S)] = sf[S]
    BY <1>3, <2>2
  <2> HIDE DEF Image
  <2> QED
    BY <1>1, <1>2, <2>1, <2>3
<1>4. SUFFICES ASSUME Bad # {} PROVE FALSE
  BY <1>3
<1>5. PICK n \in Bad : \A l \in Bad : n <= l
  <2>1. Bad \in SUBSET Nat
    OBVIOUS
  <2> HIDE DEF Bad
  <2> QED
    BY <1>4, <2>1, LeastNumber
<1>6. PICK s \in SUBSET S : Cardinality(s) = n /\ sg[Image(s)] # sf[s]
  BY <1>5
<1>7. CASE s = {}
  <2>1. Image(s) = {}
    BY <1>7
  <2> HIDE DEF Image
  <2> QED
    BY <1>1, <1>2, <1>6, <1>7, <2>1 DEF IsSum
<1>8. CASE s # {}
  <2> DEFINE x == First(s)
             r == s \ {x}
  <2>1. x \in s /\ r \in SUBSET S /\ Cardinality(r) = n - 1 /\ n - 1 \in Nat
    BY <1>6, <1>8, Rest
  <2>2. sf[s] = f[x] + sf[r]
    BY <1>1, <1>8 DEF IsSum
  <2> HIDE DEF x
  <2>3. Image(s) \ {h[x]} = Image(r)
    BY <2>1
  <2>4. Image(s) \in SUBSET T /\ h[x] \in Image(s) /\ x \in S
    BY <2>1
  <2>5. sg[Image(s)] = g[h[x]] + sg[Image(s) \ {h[x]}]
    <3> HIDE DEF Image
    <3> QED
      BY <1>2, <2>4, SumFrom
  <2>6. ~(n <= n - 1)
    BY <2>1
  <2>7. sg[Image(r)] = sf[r]
    BY <1>5, <2>1, <2>6
  <2> HIDE DEF Image
  <2> QED
    BY <1>6, <2>2, <2>3, <2>4, <2>5, <2>7
<1> QED
  BY <1>7, <1>8

\* The sum of sums.
LEMMA SumAdded ==
  ASSUME NEW S, IsFiniteSet(S), NEW f \in [S -> Int], NEW g \in [S -> Int], NEW e \in [S -> Int],
         \A x \in S : e[x] = f[x] + g[x]
  PROVE  SumFunction(e) = SumFunction(f) + SumFunction(g)
<1>1. PICK sf : IsSum(sf, f, S) /\ SumFunction(f) = sf[S]
  BY SumAre
<1>2. PICK sg : IsSum(sg, g, S) /\ SumFunction(g) = sg[S]
  BY SumAre
<1>3. PICK se : IsSum(se, e, S) /\ SumFunction(e) = se[S]
  BY SumAre
<1> DEFINE Bad == {n \in Nat : \E s \in SUBSET S : Cardinality(s) = n /\ se[s] # sf[s] + sg[s]}
<1>4. SUFFICES ASSUME Bad # {} PROVE FALSE
  <2>1. S \in SUBSET S /\ Cardinality(S) \in Nat
    BY Rest
  <2> QED
    BY <1>1, <1>2, <1>3, <2>1
<1>5. PICK n \in Bad : \A l \in Bad : n <= l
  <2>1. Bad \in SUBSET Nat
    OBVIOUS
  <2> HIDE DEF Bad
  <2> QED
    BY <1>4, <2>1, LeastNumber
<1>6. PICK s \in SUBSET S : Cardinality(s) = n /\ se[s] # sf[s] + sg[s]
  BY <1>5
<1>7. s # {}
  <2>1. se[{}] = 0 /\ sf[{}] = 0 /\ sg[{}] = 0
    BY <1>1, <1>2, <1>3 DEF IsSum
  <2>2. se[{}] = sf[{}] + sg[{}]
    BY <2>1
  <2> HIDE DEF Bad
  <2> QED
    BY <1>6, <2>2
<1> DEFINE x == First(s)
           r == s \ {x}
<1>8. x \in s /\ r \in SUBSET S /\ Cardinality(r) = n - 1 /\ n - 1 \in Nat
  <2>1. x \in s /\ r \in SUBSET S /\ Cardinality(r) = Cardinality(s) - 1
    BY <1>7, Rest
  <2>2. Cardinality(r) \in Nat
    BY <2>1, Rest
  <2> HIDE DEF Bad
  <2> QED
    BY <1>6, <2>1, <2>2
<1>9. se[s] = e[x] + se[r] /\ sf[s] = f[x] + sf[r] /\ sg[s] = g[x] + sg[r]
  BY <1>1, <1>2, <1>3, <1>7 DEF IsSum
<1>10. ~(n <= n - 1)
  BY <1>8
<1> HIDE DEF x, r
<1>11. se[r] = sf[r] + sg[r]
  BY <1>5, <1>8, <1>10
<1>12. /\ x \in S /\ f[x] \in Int /\ g[x] \in Int /\ e[x] = f[x] + g[x]
       /\ sf[r] \in Int /\ sg[r] \in Int
  BY <1>1, <1>2, <1>8 DEF IsSum
<1> HIDE DEF Bad
<1> QED
  BY <1>6, <1>9, <1>11, <1>12

-----------------------------------------------------------------------------
(***************************************************************************)
(* The same position with colours and ranks exchanged: squares and tables.  *)
(***************************************************************************)
LEMMA FlipFacts ==
  ASSUME NEW x \in Squares
  PROVE  /\ Flip(x) \in Squares /\ Flip(Flip(x)) = x /\ Flip(x) # NO_SQUARE
         /\ RNK(Flip(x)) = 7 - RNK(x) /\ FIL(Flip(x)) = FIL(x)
<1>1. /\ RNK(x) \in 0 .. 7 /\ FIL(x) \in 0 .. 7 /\ x = 8 * RNK(x) + FIL(x) /\ x # NO_SQUARE
  BY RankOf DEF NO_SQUARE, Squares
<1> DEFINE r == RNK(x)
           f == FIL(x)
           y == Flip(x)
<1>2. y = (7 - r) * 8 + f
  BY <1>1 DEF Flip, SQUARE
<1>3. r \in 0 .. 7 /\ f \in 0 .. 7 /\ x = 8 * r + f
  BY <1>1
<1> HIDE DEF r, f, y
<1>4. y \in Squares /\ y # NO_SQUARE /\ RNK(y) = 7 - r /\ FIL(y) = f
  BY <1>2, <1>3 DEF Squares, NO_SQUARE, RNK, FIL
<1>5. Flip(y) = x
  <2>1. Flip(y) = (7 - (7 - r)) * 8 + f
    BY <1>4 DEF Flip, SQUARE
  <2> QED
    BY <1>3, <2>1
<1> QED
  BY <1>4, <1>5 DEF r, f, y

LEMMA FlipPairs ==
  ASSUME NEW x \in Squares, NEW y \in Squares
  PROVE  /\ Flip(x) = Flip(y) <=> x = y
         /\ Ranks(Flip(x), Flip(y)) = 0 - Ranks(x, y) /\ Files(Flip(x), Flip(y)) = Files(x, y)
         /\ Abs(Ranks(Flip(x), Flip(y))) = Abs(Ranks(x, y))
         /\ Flip(x) > Flip(y) <=> (IF RNK(x) = RNK(y) THEN x > y ELSE y > x)
<1>1. /\ RNK(Flip(x)) = 7 - RNK(x) /\ FIL(Flip(x)) = FIL(x) /\ Flip(x) \in Squares
      /\ RNK(Flip(y)) = 7 - RNK(y) /\ FIL(Flip(y)) = FIL(y) /\ Flip(y) \in Squares
      /\ Flip(Flip(x)) = x /\ Flip(Flip(y)) = y
  BY FlipFacts
<1>2. /\ RNK(x) \in 0 .. 7 /\ FIL(x) \in 0 .. 7 /\ x = 8 * RNK(x) + FIL(x)
      /\ RNK(y) \in 0 .. 7 /\ FIL(y) \in 0 .. 7 /\ y = 8 * RNK(y) + FIL(y)
      /\ Flip(x) = 8 * RNK(Flip(x)) + FIL(Flip(x)) /\ Flip(y) = 8 * RNK(Flip(y)) + FIL(Flip(y))
  BY <1>1, RankOf
<1>3. Ranks(Flip(x), Flip(y)) = 0 - Ranks(x, y) /\ Files(Flip(x), Flip(y)) = Files(x, y)
  BY <1>1, <1>2 DEF Ranks, Files
<1>4. Abs(Ranks(Flip(x), Flip(y))) = Abs(Ranks(x, y))
  BY <1>3, Slopes, Opposite
<1>5. Flip(x) > Flip(y) <=> (IF RNK(x) = RNK(y) THEN x > y ELSE y > x)
  <2> DEFINE rx == RNK(x)
             ry == RNK(y)
             fx == FIL(x)
             fy == FIL(y)
  <2>1. /\ rx \in 0 .. 7 /\ ry \in 0 .. 7 /\ fx \in 0 .. 7 /\ fy \in 0 .. 7
        /\ x = 8 * rx + fx /\ y = 8 * ry + fy
        /\ Flip(x) = 8 * (7 - rx) + fx /\ Flip(y) = 8 * (7 - ry) + fy
    BY <1>1, <1>2
  <2> HIDE DEF rx, ry, fx, fy
  <2>2. Flip(x) > Flip(y) <=> (IF rx = ry THEN x > y ELSE y > x)
    BY <2>1
  <2> QED
    BY <2>2 DEF rx, ry
<1> QED
  BY <1>1, <1>3, <1>4, <1>5

\* The second set of squares has the reflections of those of the first.
Mirrors(A, B) == \A x \in Squares : Flip(x) \in B <=> x \in A

LEMMA MirrorsBack ==
  ASSUME NEW A, NEW B, Mirrors(A, B)
  PROVE  \A x \in Squares : x \in B <=> Flip(x) \in A
BY FlipFacts DEF Mirrors

LEMMA FlipAllMirrors ==
  ASSUME NEW A \in SUBSET Squares
  PROVE  FlipAll(A) \in SUBSET Squares /\ Mirrors(A, FlipAll(A))
<1>1. FlipAll(A) \in SUBSET Squares
  BY FlipFacts DEF FlipAll
<1>2. ASSUME NEW x \in Squares, Flip(x) \in FlipAll(A) PROVE x \in A
  <2>1. PICK y \in A : Flip(x) = Flip(y)
    BY <1>2 DEF FlipAll
  <2> QED
    BY <2>1, FlipPairs
<1> QED
  BY <1>1, <1>2 DEF Mirrors, FlipAll

LEMMA SameCount ==
  ASSUME NEW A \in SUBSET Squares, NEW B \in SUBSET Squares, Mirrors(A, B)
  PROVE  Cardinality(B) = Cardinality(A) /\ (B = {} <=> A = {})
<1>1. IsFiniteSet(A) /\ IsFiniteSet(B)
  BY FS_Interval, FS_Subset, 0 \in Int, 63 \in Int DEF Squares
<1> DEFINE f == [x \in A |-> Flip(x)]
           g == [y \in B |-> Flip(y)]
<1>2. f \in [A -> B] /\ g \in [B -> A]
  BY FlipFacts, MirrorsBack DEF Mirrors
<1>3. f \in Surjection(A, B) /\ g \in Surjection(B, A)
  <2>1. \A y \in B : Flip(y) \in A /\ f[Flip(y)] = y
    BY <1>2, FlipFacts
  <2>2. \A x \in A : Flip(x) \in B /\ g[Flip(x)] = x
    BY <1>2, FlipFacts
  <2> HIDE DEF f, g
  <2> QED
    BY <1>2, <2>1, <2>2 DEF Surjection
<1> HIDE DEF f, g
<1>4. Cardinality(B) <= Cardinality(A) /\ Cardinality(A) <= Cardinality(B)
  BY <1>1, <1>3, FS_Surjection
<1>5. Cardinality(A) \in Nat /\ Cardinality(B) \in Nat
  BY <1>1, FS_CardinalityType
<1>6. Cardinality(A) = Cardinality(B)
  BY <1>4, <1>5
<1>7. (B = {}) <=> (A = {})
  BY <1>2
<1> QED
  BY <1>6, <1>7

LEMMA FlipSum ==
  ASSUME NEW S \in SUBSET Squares, NEW f \in [S -> Int],
         NEW T \in SUBSET Squares, Mirrors(S, T),
         NEW g, g = [x \in T |-> g[x]], \A x \in S : g[Flip(x)] = f[x]
  PROVE  SumFunction(g) = SumFunction(f)
<1>1. IsFiniteSet(S) /\ IsFiniteSet(T)
  BY FS_Interval, FS_Subset, 0 \in Int, 63 \in Int DEF Squares
<1>2. \A y \in T : Flip(y) \in S /\ Flip(Flip(y)) = y
  BY FlipFacts, MirrorsBack
<1>3. g \in [T -> Int]
  <2>1. \A y \in T : g[y] \in Int
    BY <1>2
  <2> QED
    BY <2>1
<1> DEFINE h == [x \in S |-> Flip(x)]
<1>4. h \in [S -> T]
  BY DEF Mirrors
<1>5. \A x, y \in S : h[x] = h[y] => x = y
  BY FlipPairs
<1>6. \A z \in T : \E x \in S : z = h[x]
  BY <1>2
<1>7. \A x \in S : g[h[x]] = f[x]
  OBVIOUS
<1> HIDE DEF h
<1> QED
  BY <1>1, <1>3, <1>4, <1>5, <1>6, <1>7, SumMoved

\* The tables are symmetric.
LEMMA TablesMirrored ==
  ASSUME NEW x \in Squares
  PROVE  /\ Centre(Flip(x)) = Centre(x)
         /\ knight_scores[Flip(x)] = knight_scores[x] /\ king_scores[Flip(x)] = king_scores[x]
         /\ king_scores_endgame[Flip(x)] = king_scores_endgame[x]
         /\ control_score[Flip(x)] = control_score[x]
         /\ control_maxattackers[Flip(x)] = control_maxattackers[x]
         /\ \A c \in Colors : TableSquare(XSIDE(c), Flip(x)) = TableSquare(c, x)
<1>1. /\ Flip(x) \in Squares /\ RNK(Flip(x)) = 7 - RNK(x) /\ FIL(Flip(x)) = FIL(x)
      /\ RNK(x) \in 0 .. 7 /\ FIL(x) \in 0 .. 7 /\ x = 8 * RNK(x) + FIL(x)
      /\ Flip(x) = 8 * RNK(Flip(x)) + FIL(Flip(x))
  BY FlipFacts, RankOf
<1>2. Centre(Flip(x)) = Centre(x)
  <2> DEFINE Depth(n) == IF n < 4 THEN n ELSE 7 - n
  <2>1. Depth(7 - RNK(x)) = Depth(RNK(x))
    BY <1>1
  <2>2. \A y : Centre(y) = IF Depth(RNK(y)) < Depth(FIL(y)) THEN Depth(RNK(y)) ELSE Depth(FIL(y))
    BY DEF Centre
  <2> HIDE DEF Depth
  <2> QED
    BY <1>1, <2>1, <2>2
<1>3. Flip(x) \in Corners4 <=> x \in Corners4
  BY <1>1 DEF Corners4
<1>4. knight_scores[Flip(x)] = knight_scores[x]
  BY <1>1, <1>2, <1>3 DEF knight_scores
<1>5. king_scores[Flip(x)] = king_scores[x]
  <2>1. RNK(Flip(x)) \in {0, 7} <=> RNK(x) \in {0, 7}
    BY <1>1
  <2>2. CASE RNK(x) \in {0, 7}
    <3>1. king_scores[x] = <<12, 12, 10, 0, 0, 10, 16, 16>>[FIL(x) + 1]
      BY <2>2 DEF king_scores
    <3>2. king_scores[Flip(x)] = <<12, 12, 10, 0, 0, 10, 16, 16>>[FIL(Flip(x)) + 1]
      BY <1>1, <2>1, <2>2 DEF king_scores
    <3> QED
      BY <1>1, <3>1, <3>2
  <2>3. CASE RNK(x) \notin {0, 7}
    <3>1. king_scores[x] = <<0, -70, -75, -80>>[Centre(x) + 1]
      BY <2>3 DEF king_scores
    <3>2. king_scores[Flip(x)] = <<0, -70, -75, -80>>[Centre(Flip(x)) + 1]
      BY <1>1, <2>1, <2>3 DEF king_scores
    <3> QED
      BY <1>2, <3>1, <3>2
  <2> QED
    BY <2>2, <2>3
<1>6. king_scores_endgame[Flip(x)] = king_scores_endgame[x]
  BY <1>1, <1>2 DEF king_scores_endgame
<1>7. /\ control_score[Flip(x)] = control_score[x]
      /\ control_maxattackers[Flip(x)] = control_maxattackers[x]
  BY <1>1, <1>2 DEF control_score, control_maxattackers
<1>8. ASSUME NEW c \in Colors
      PROVE  TableSquare(XSIDE(c), Flip(x)) = TableSquare(c, x)
  <2>1. CASE c = WHITE
    <3>1. TableSquare(XSIDE(c), Flip(x)) = (7 - (7 - RNK(x))) * 8 + FIL(x)
      BY <1>1, <2>1 DEF TableSquare, SQUARE, XSIDE, WHITE
    <3> QED
      BY <1>1, <2>1, <3>1 DEF TableSquare
  <2>2. CASE c = BLACK
    <3>1. TableSquare(c, x) = (7 - RNK(x)) * 8 + FIL(x)
      BY <1>1, <2>2 DEF TableSquare, SQUARE, WHITE, BLACK
    <3>2. TableSquare(XSIDE(c), Flip(x)) = Flip(x)
      BY <2>2 DEF TableSquare, XSIDE, WHITE, BLACK
    <3> QED
      BY <1>1, <3>1, <3>2
  <2> QED
    BY <2>1, <2>2 DEF Colors
<1> QED
  BY <1>2, <1>4, <1>5, <1>6, <1>7, <1>8

\* Steps of a knight or king and captures of a pawn.
LEMMA LeapsMirrored ==
  ASSUME NEW x \in Squares
  PROVE  /\ Mirrors(attack_bb[KNIGHT][x], attack_bb[KNIGHT][Flip(x)])
         /\ Mirrors(attack_bb[KING][x], attack_bb[KING][Flip(x)])
         /\ \A c \in Colors : Mirrors(pawn_capt_bb[c][x], pawn_capt_bb[XSIDE(c)][Flip(x)])
<1>1. \A y \in Squares :
        /\ Flip(y) \in Squares /\ Ranks(Flip(x), Flip(y)) = 0 - Ranks(x, y) /\ Ranks(x, y) \in Int
        /\ Files(Flip(x), Flip(y)) = Files(x, y)
        /\ Abs(Ranks(Flip(x), Flip(y))) = Abs(Ranks(x, y))
  BY FlipPairs, FlipFacts, Slopes
<1>2. Flip(x) \in Squares
  BY FlipFacts
<1>0. PAWN = 0 /\ KNIGHT = 1 /\ BISHOP = 2 /\ ROOK = 3 /\ QUEEN = 4 /\ KING = 5
  BY DEF PAWN, KNIGHT, BISHOP, ROOK, QUEEN, KING
<1>3. Mirrors(attack_bb[KNIGHT][x], attack_bb[KNIGHT][Flip(x)])
  <2>1. \A y \in Squares : attack_bb[KNIGHT][y] =
          {z \in Squares : {Abs(Ranks(y, z)), Abs(Files(y, z))} = {1, 2}}
    BY <1>0 DEF attack_bb, Pieces
  <2>2. ASSUME NEW y \in Squares
        PROVE  Flip(y) \in attack_bb[KNIGHT][Flip(x)] <=> y \in attack_bb[KNIGHT][x]
    <3>1. /\ Abs(Ranks(Flip(x), Flip(y))) = Abs(Ranks(x, y))
          /\ Abs(Files(Flip(x), Flip(y))) = Abs(Files(x, y)) /\ Flip(y) \in Squares
      BY <1>1
    <3>2. Flip(y) \in attack_bb[KNIGHT][Flip(x)] <=>
            {Abs(Ranks(Flip(x), Flip(y))), Abs(Files(Flip(x), Flip(y)))} = {1, 2}
      BY <1>2, <2>1, <3>1
    <3> QED
      BY <2>1, <3>1, <3>2
  <2> QED
    BY <2>2 DEF Mirrors
<1>4. Mirrors(attack_bb[KING][x], attack_bb[KING][Flip(x)])
  <2>1. \A y \in Squares : attack_bb[KING][y] =
          {z \in Squares : Larger(Abs(Ranks(y, z)), Abs(Files(y, z))) = 1}
    BY DEF attack_bb, Pieces, PAWN, KNIGHT, BISHOP, ROOK, QUEEN, KING
  <2> QED
    BY <1>1, <1>2, <2>1 DEF Mirrors
<1>5. ASSUME NEW c \in Colors
      PROVE  Mirrors(pawn_capt_bb[c][x], pawn_capt_bb[XSIDE(c)][Flip(x)])
  <2>1. c \in {WHITE, BLACK} /\ XSIDE(WHITE) = BLACK /\ XSIDE(BLACK) = WHITE /\ WHITE # BLACK
    BY DEF Colors, XSIDE, WHITE, BLACK
  <2>2. \A d \in Colors : \A y \in Squares : pawn_capt_bb[d][y] =
          {z \in Squares : Ranks(y, z) = (IF d = WHITE THEN 1 ELSE -1) /\ Abs(Files(y, z)) = 1}
    BY DEF pawn_capt_bb
  <2>3. /\ pawn_capt_bb[c][x] =
           {z \in Squares : Ranks(x, z) = (IF c = WHITE THEN 1 ELSE -1) /\ Abs(Files(x, z)) = 1}
        /\ pawn_capt_bb[XSIDE(c)][Flip(x)] =
             {z \in Squares : Ranks(Flip(x), z) = (IF c = WHITE THEN -1 ELSE 1) /\ Abs(Files(Flip(x), z)) = 1}
    BY <1>2, <2>1, <2>2 DEF Colors
  <2> QED
    BY <1>1, <2>1, <2>3 DEF Mirrors
<1> QED
  BY <1>3, <1>4, <1>5

LEMMA FilesMirrored ==
  /\ \A f \in 0 .. 7 : file[f] \in SUBSET Squares /\ Mirrors(file[f], file[f])
  /\ \A r \in 0 .. 7 : rank[r] \in SUBSET Squares /\ Mirrors(rank[r], rank[7 - r])
<1>1. ASSUME NEW f \in 0 .. 7
      PROVE  file[f] \in SUBSET Squares /\ Mirrors(file[f], file[f])
  BY FlipFacts DEF file, Mirrors
<1>2. ASSUME NEW r \in 0 .. 7
      PROVE  rank[r] \in SUBSET Squares /\ Mirrors(rank[r], rank[7 - r])
  <2>1. 7 - r \in 0 .. 7
    OBVIOUS
  <2>2. rank[r] = {z \in Squares : RNK(z) = r} /\ rank[7 - r] = {z \in Squares : RNK(z) = 7 - r}
    BY <2>1 DEF rank
  <2>3. \A x \in Squares : /\ Flip(x) \in Squares /\ RNK(x) \in 0 .. 7
                           /\ RNK(Flip(x)) = 7 - RNK(x)
    BY FlipFacts, RankOf
  <2> QED
    BY <2>2, <2>3 DEF Mirrors
<1> QED
  BY <1>1, <1>2

LEMMA MasksMirrored ==
  ASSUME NEW x \in Squares
  PROVE  /\ Mirrors(isolated_pawn_mask[x], isolated_pawn_mask[Flip(x)])
         /\ Mirrors(connected_pawn_mask[x], connected_pawn_mask[Flip(x)])
         /\ \A c \in Colors : Mirrors(passed_pawn_mask[c][x], passed_pawn_mask[XSIDE(c)][Flip(x)])
<1>1. \A y \in Squares :
        /\ Flip(y) \in Squares /\ Ranks(Flip(x), Flip(y)) = 0 - Ranks(x, y) /\ Ranks(x, y) \in Int
        /\ Files(Flip(x), Flip(y)) = Files(x, y)
  BY FlipPairs, FlipFacts, Slopes
<1>2. Flip(x) \in Squares /\ FIL(Flip(x)) = FIL(x) /\ FIL(x) \in 0 .. 7
  BY FlipFacts, RankOf
<1>3. Mirrors(isolated_pawn_mask[x], isolated_pawn_mask[Flip(x)])
  BY <1>1, <1>2 DEF isolated_pawn_mask, Mirrors
<1>4. Mirrors(connected_pawn_mask[x], connected_pawn_mask[Flip(x)])
  <2>1. /\ connected_pawn_mask[x] = attack_bb[KING][x] \ file[FIL(x)]
        /\ connected_pawn_mask[Flip(x)] = attack_bb[KING][Flip(x)] \ file[FIL(x)]
    BY <1>2 DEF connected_pawn_mask
  <2> QED
    BY <1>2, <2>1, LeapsMirrored, FilesMirrored DEF Mirrors
<1>5. ASSUME NEW c \in Colors
      PROVE  Mirrors(passed_pawn_mask[c][x], passed_pawn_mask[XSIDE(c)][Flip(x)])
  <2>1. c \in {WHITE, BLACK} /\ XSIDE(WHITE) = BLACK /\ XSIDE(BLACK) = WHITE /\ WHITE # BLACK
    BY DEF Colors, XSIDE, WHITE, BLACK
  <2>2. \A d \in Colors : \A y \in Squares : passed_pawn_mask[d][y] =
          {z \in Squares : /\ Abs(Files(y, z)) <= 1
                           /\ IF d = WHITE THEN Ranks(y, z) > 0 ELSE Ranks(y, z) < 0}
    BY DEF passed_pawn_mask
  <2>3. /\ passed_pawn_mask[c][x] =
             {z \in Squares : /\ Abs(Files(x, z)) <= 1
                              /\ IF c = WHITE THEN Ranks(x, z) > 0 ELSE Ranks(x, z) < 0}
        /\ passed_pawn_mask[XSIDE(c)][Flip(x)] =
             {z \in Squares : /\ Abs(Files(Flip(x), z)) <= 1
                              /\ IF c = WHITE THEN Ranks(Flip(x), z) < 0 ELSE Ranks(Flip(x), z) > 0}
    BY <1>2, <2>1, <2>2 DEF Colors
  <2>4. \A y \in Squares : /\ 0 - Ranks(x, y) > 0 <=> Ranks(x, y) < 0
                           /\ 0 - Ranks(x, y) < 0 <=> Ranks(x, y) > 0
    BY <1>1
  <2> QED
    BY <1>1, <2>3, <2>4 DEF Mirrors
<1> QED
  BY <1>3, <1>4, <1>5

\* Between the reflections of two squares lie the reflections of those between them.
LEMMA RayMirrored ==
  ASSUME NEW x \in Squares, NEW y \in Squares
  PROVE  /\ Straight(Flip(x), Flip(y)) <=> Straight(x, y)
         /\ Diagonal(Flip(x), Flip(y)) <=> Diagonal(x, y)
         /\ Mirrors(ray_bb[x][y], ray_bb[Flip(x)][Flip(y)]) /\ ray_bb[x][y] \subseteq Squares
         /\ ray_bb[Flip(x)][Flip(y)] \subseteq Squares
<1> DEFINE u == Flip(x)
           v == Flip(y)
           r == Ranks(x, y)
           f == Files(x, y)
           k == Larger(Abs(r), Abs(f))
           sr == Sign(r)
           sf == Sign(f)
<1>1. /\ u \in Squares /\ v \in Squares /\ (u = v <=> x = y) /\ Flip(u) = x /\ Flip(v) = y
      /\ Ranks(u, v) = 0 - r /\ Files(u, v) = f /\ Abs(Ranks(u, v)) = Abs(r)
      /\ r \in Int /\ f \in Int
  BY FlipFacts, FlipPairs, Slopes
<1>2. /\ RNK(x) \in 0 .. 7 /\ FIL(x) \in 0 .. 7 /\ x = 8 * RNK(x) + FIL(x)
      /\ RNK(y) \in 0 .. 7 /\ FIL(y) \in 0 .. 7 /\ RNK(y) = RNK(x) + r /\ FIL(y) = FIL(x) + f
      /\ u = 8 * (7 - RNK(x)) + FIL(x)
  <2>1. /\ RNK(u) = 7 - RNK(x) /\ FIL(u) = FIL(x) /\ u = 8 * RNK(u) + FIL(u)
    BY <1>1, FlipFacts, RankOf
  <2>2. /\ RNK(x) \in 0 .. 7 /\ FIL(x) \in 0 .. 7 /\ x = 8 * RNK(x) + FIL(x)
        /\ RNK(y) \in 0 .. 7 /\ FIL(y) \in 0 .. 7
    BY RankOf
  <2>3. RNK(y) = RNK(x) + r /\ FIL(y) = FIL(x) + f
    BY <2>2 DEF Ranks, Files
  <2> HIDE DEF u, r, f
  <2> QED
    BY <2>1, <2>2, <2>3
<1>3. (Straight(u, v) <=> Straight(x, y)) /\ (Diagonal(u, v) <=> Diagonal(x, y))
  <2> HIDE DEF u, v
  <2>1. 0 - r = 0 <=> r = 0
    BY <1>1
  <2> QED
    BY <1>1, <2>1 DEF Straight, Diagonal
<1>4. CASE ~(Straight(x, y) \/ Diagonal(x, y))
  <2>1. ray_bb[x][y] = {} /\ ray_bb[u][v] = {}
    BY <1>1, <1>3, <1>4 DEF ray_bb
  <2> QED
    BY <1>3, <2>1 DEF Mirrors
<1>5. CASE Straight(x, y) \/ Diagonal(x, y)
  <2>1. /\ sr \in {-1, 0, 1} /\ sf \in {-1, 0, 1} /\ r = sr * Abs(r) /\ f = sf * Abs(f)
        /\ Abs(r) \in Nat /\ Abs(f) \in Nat
        /\ Sign(Ranks(u, v)) = 0 - sr /\ Sign(Files(u, v)) = sf
        /\ (r = 0 => Abs(r) = 0 /\ sr = 0) /\ (f = 0 => Abs(f) = 0 /\ sf = 0)
    <3>1. /\ sr \in {-1, 0, 1} /\ r = sr * Abs(r) /\ Abs(r) \in Nat /\ Sign(0 - r) = 0 - sr
          /\ (r = 0 => Abs(r) = 0)
      <4>1. 0 - r \in Int
        BY <1>1
      <4> HIDE DEF r
      <4> QED
        BY <1>1, <4>1, Opposite
    <3>2. sf \in {-1, 0, 1} /\ f = sf * Abs(f) /\ Abs(f) \in Nat /\ (f = 0 => Abs(f) = 0)
      <4>1. 0 - f \in Int
        BY <1>1
      <4> HIDE DEF f
      <4> QED
        BY <1>1, <4>1, Opposite
    <3>3. (r = 0 => sr = 0) /\ (f = 0 => sf = 0)
      BY DEF Sign
    <3> HIDE DEF r, f, sr, sf, u, v
    <3> QED
      BY <1>1, <3>1, <3>2, <3>3 DEF sf
  <2>2. /\ ray_bb[x][y] = {x + n * (8 * sr + sf) : n \in 1 .. k - 1}
        /\ ray_bb[u][v] = {u + n * (8 * (0 - sr) + sf) : n \in 1 .. k - 1}
    <3>1. ray_bb[x][y] = {x + n * (8 * sr + sf) : n \in 1 .. k - 1}
      BY <1>5 DEF ray_bb
    <3>2. ray_bb[u][v] = {u + n * (8 * Sign(Ranks(u, v)) + Sign(Files(u, v))) :
                            n \in 1 .. Larger(Abs(Ranks(u, v)), Abs(Files(u, v))) - 1}
      BY <1>1, <1>3, <1>5 DEF ray_bb
    <3> HIDE DEF r, f, sr, sf, u, v
    <3> QED
      BY <1>1, <2>1, <3>1, <3>2
  <2>3. k \in Nat /\ (sr # 0 => Abs(r) = k) /\ (sf # 0 => Abs(f) = k)
    <3>1. r = 0 \/ f = 0 \/ Abs(r) = Abs(f)
      BY <1>5 DEF Straight, Diagonal
    <3> HIDE DEF sr, sf
    <3> QED
      BY <2>1, <3>1 DEF Larger
  <2> HIDE DEF r, f, sr, sf, k
  <2>4. ASSUME NEW n \in 1 .. k - 1
        PROVE  /\ x + n * (8 * sr + sf) \in Squares
               /\ Flip(x + n * (8 * sr + sf)) = u + n * (8 * (0 - sr) + sf)
    <3> DEFINE p == RNK(x) + n * sr
               q == FIL(x) + n * sf
               z == x + n * (8 * sr + sf)
    <3>0. n \in Nat /\ n > 0 /\ n < k
      BY <2>3
    <3>1. p \in 0 .. 7
      <4>1. CASE sr = 0
        BY <1>2, <3>0, <4>1
      <4>2. CASE sr = 1
        <5>1. p = RNK(x) + n /\ RNK(y) = RNK(x) + k
          BY <1>2, <2>1, <2>3, <3>0, <4>2
        <5> QED
          BY <1>2, <2>3, <3>0, <5>1
      <4>3. CASE sr = -1
        <5>1. n * sr = 0 - n /\ sr * k = 0 - k
          BY <2>3, <3>0, <4>3
        <5>2. r = 0 - k
          BY <2>1, <2>3, <4>3, <5>1
        <5>3. p = RNK(x) + (0 - n) /\ RNK(y) = RNK(x) + (0 - k)
          BY <1>2, <5>1, <5>2
        <5>4. RNK(x) \in 0 .. 7 /\ RNK(y) \in 0 .. 7 /\ k \in Nat /\ n \in Nat /\ n > 0 /\ n < k
          BY <1>2, <2>3, <3>0
        <5> HIDE DEF p
        <5> QED
          BY <5>3, <5>4
      <4> QED
        BY <2>1, <4>1, <4>2, <4>3
    <3>2. q \in 0 .. 7
      <4>1. CASE sf = 0
        BY <1>2, <3>0, <4>1
      <4>2. CASE sf = 1
        <5>1. q = FIL(x) + n /\ FIL(y) = FIL(x) + k
          BY <1>2, <2>1, <2>3, <3>0, <4>2
        <5> QED
          BY <1>2, <2>3, <3>0, <5>1
      <4>3. CASE sf = -1
        <5>1. n * sf = 0 - n /\ sf * k = 0 - k
          BY <2>3, <3>0, <4>3
        <5>2. f = 0 - k
          BY <2>1, <2>3, <4>3, <5>1
        <5>3. q = FIL(x) + (0 - n) /\ FIL(y) = FIL(x) + (0 - k)
          BY <1>2, <5>1, <5>2
        <5>4. FIL(x) \in 0 .. 7 /\ FIL(y) \in 0 .. 7 /\ k \in Nat /\ n \in Nat /\ n > 0 /\ n < k
          BY <1>2, <2>3, <3>0
        <5> HIDE DEF q
        <5> QED
          BY <5>3, <5>4
      <4> QED
        BY <2>1, <4>1, <4>2, <4>3
    <3>3. z = 8 * p + q /\ u + n * (8 * (0 - sr) + sf) = 8 * (7 - p) + q
      <4> DEFINE a == n * sr
                 c == n * sf
      <4>1. a \in Int /\ c \in Int
        BY <2>1, <3>0
      <4>2. n * (8 * sr + sf) = 8 * a + c /\ n * (8 * (0 - sr) + sf) = c - 8 * a
        BY <2>1, <3>0
      <4>3. p = RNK(x) + a /\ q = FIL(x) + c
        OBVIOUS
      <4> HIDE DEF a, c, p, q
      <4> QED
        BY <1>2, <4>1, <4>2, <4>3
    <3> HIDE DEF p, q, z
    <3>4. z \in Squares /\ RNK(z) = p /\ FIL(z) = q
      BY <3>1, <3>2, <3>3 DEF Squares, RNK, FIL
    <3>5. Flip(z) = (7 - p) * 8 + q
      <4>1. z # NO_SQUARE
        BY <3>4 DEF Squares, NO_SQUARE
      <4> QED
        BY <3>4, <4>1 DEF Flip, SQUARE
    <3>6. (7 - p) * 8 + q = 8 * (7 - p) + q
      BY <3>1, <3>2
    <3> QED
      BY <3>3, <3>4, <3>5, <3>6 DEF z
  <2>5. ray_bb[x][y] \subseteq Squares /\ ray_bb[u][v] \subseteq Squares
    BY <2>2, <2>4, FlipFacts
  <2>6. ASSUME NEW z \in Squares, z \in ray_bb[x][y] PROVE Flip(z) \in ray_bb[u][v]
    BY <2>2, <2>4, <2>6
  <2>7. ASSUME NEW z \in Squares, Flip(z) \in ray_bb[u][v] PROVE z \in ray_bb[x][y]
    <3>1. PICK n \in 1 .. k - 1 : Flip(z) = u + n * (8 * (0 - sr) + sf)
      BY <2>2, <2>7
    <3>2. /\ x + n * (8 * sr + sf) \in Squares
          /\ Flip(x + n * (8 * sr + sf)) = Flip(z)
      BY <2>4, <3>1
    <3>3. z = x + n * (8 * sr + sf)
      BY <3>2, FlipPairs
    <3> QED
      BY <2>2, <3>3
  <2>8. Mirrors(ray_bb[x][y], ray_bb[u][v])
    BY <2>6, <2>7 DEF Mirrors
  <2> QED
    BY <1>3, <2>5, <2>8
<1> QED
  BY <1>4, <1>5

\* What a slider sees is what no man on the ray between hides.
LEMMA SlidersSee ==
  ASSUME NEW b, NEW x \in Squares, NEW y
  PROVE  /\ y \in rook_attacks(b, x) <=>
              y \in Squares /\ Straight(x, y) /\ ray_bb[x][y] \cap b.occupied = {}
         /\ y \in bishop_attacks(b, x) <=>
              y \in Squares /\ Diagonal(x, y) /\ ray_bb[x][y] \cap b.occupied = {}
<1>1. RNK(x) \in 0 .. 7 /\ FIL(x) \in 0 .. 7
  BY RankOf
<1>2. y \in rank[RNK(x)] <=> y \in Squares /\ RNK(y) = RNK(x)
  BY <1>1 DEF rank
<1>3. y \in file[FIL(x)] <=> y \in Squares /\ FIL(y) = FIL(x)
  BY <1>1 DEF file
<1>4. y \in Squares => /\ Ranks(x, y) = 0 <=> RNK(y) = RNK(x)
                       /\ Files(x, y) = 0 <=> FIL(y) = FIL(x)
                       /\ Ranks(x, y) \in Int /\ Files(x, y) \in Int
  BY <1>1, RankOf DEF Ranks, Files
<1>5. y \in rook_attacks(b, x) <=>
        y \in Squares /\ Straight(x, y) /\ ray_bb[x][y] \cap b.occupied = {}
  BY <1>2, <1>3, <1>4 DEF rook_attacks, atk0, atkl90, Visible, Straight
<1>6. attack_bb[BISHOP][x] = {to \in Squares : Diagonal(x, to)}
  <2>1. PAWN = 0 /\ KNIGHT = 1 /\ BISHOP = 2 /\ ROOK = 3 /\ QUEEN = 4 /\ KING = 5
    BY DEF PAWN, KNIGHT, BISHOP, ROOK, QUEEN, KING
  <2> QED
    BY <2>1 DEF attack_bb, Pieces
<1>7. \A m, n \in Int : Abs(m) = Abs(n) <=> m = n \/ m = -n
  BY DEF Abs
<1>8. y \in Squares /\ Diagonal(x, y) => Ranks(x, y) = Files(x, y) \/ Ranks(x, y) = -Files(x, y)
  BY <1>4, <1>7 DEF Diagonal
<1>9. y \in bishop_attacks(b, x) <=>
        y \in Squares /\ Diagonal(x, y) /\ ray_bb[x][y] \cap b.occupied = {}
  BY <1>6, <1>8 DEF bishop_attacks, atkl45, atkr45, Visible
<1> QED
  BY <1>5, <1>9

-----------------------------------------------------------------------------
(***************************************************************************)
(* The same position with colours and ranks exchanged: the board.           *)
(***************************************************************************)
LEMMA MirrorIs ==
  ASSUME NEW b \in Boards
  PROVE  /\ Mirror(b) \in Boards /\ Mirror(b).side = XSIDE(b.side)
         /\ \A c \in Colors :
              /\ \A p \in Pieces : Mirror(b).position[XSIDE(c)][p] = FlipAll(b.position[c][p])
              /\ Mirror(b).position_all[XSIDE(c)] = FlipAll(b.position_all[c])
              /\ Mirror(b).king[XSIDE(c)] = Flip(b.king[c])
              /\ Mirror(b).material[XSIDE(c)] = b.material[c]
              /\ Mirror(b).has_castled[XSIDE(c)] = b.has_castled[c]
         /\ Mirror(b).occupied = FlipAll(b.occupied) /\ Mirror(b).epsq = Flip(b.epsq)
         /\ Mirror(b).flags = {FlipFlag[f] : f \in b.flags}
         /\ \A x \in Squares : Mirror(b).pce_movecnt[x] = b.pce_movecnt[Flip(x)]
<1> DEFINE m == Mirror(b)
<1>1. /\ m.side = XSIDE(b.side)
      /\ m.position = [c \in Colors |-> [p \in Pieces |-> FlipAll(b.position[XSIDE(c)][p])]]
      /\ m.position_all = [c \in Colors |-> FlipAll(b.position_all[XSIDE(c)])]
      /\ m.occupied = FlipAll(b.occupied)
      /\ m.king = [c \in Colors |-> Flip(b.king[XSIDE(c)])]
      /\ m.flags = {FlipFlag[f] : f \in b.flags} /\ m.epsq = Flip(b.epsq)
      /\ m.material = [c \in Colors |-> b.material[XSIDE(c)]]
      /\ m.has_castled = [c \in Colors |-> b.has_castled[XSIDE(c)]]
      /\ m.pce_movecnt = [sq \in Squares |-> b.pce_movecnt[Flip(sq)]]
      /\ m.moveno = b.moveno /\ m.movecnt50 = b.movecnt50
      /\ m.hashkey = b.hashkey /\ m.pawnhashkey = b.pawnhashkey
  BY DEF Mirror, Boards
<1>2. m = [side |-> m.side, moveno |-> m.moveno, movecnt50 |-> m.movecnt50,
           position |-> m.position, position_all |-> m.position_all, occupied |-> m.occupied,
           king |-> m.king, flags |-> m.flags, epsq |-> m.epsq, material |-> m.material,
           has_castled |-> m.has_castled, pce_movecnt |-> m.pce_movecnt,
           hashkey |-> m.hashkey, pawnhashkey |-> m.pawnhashkey]
  <2>1. /\ b = [k \in DOMAIN b |-> b[k]]
        /\ DOMAIN b = {"side", "moveno", "movecnt50", "position", "position_all", "occupied",
                       "king", "flags", "epsq", "material", "has_castled", "pce_movecnt",
                       "hashkey", "pawnhashkey"}
    BY DEF Boards
  <2>2. m = [k \in DOMAIN m |-> m[k]] /\ DOMAIN m = DOMAIN b
    BY <2>1 DEF Mirror
  <2> HIDE DEF m
  <2> QED
    BY <2>1, <2>2
<1>3. /\ \A c \in Colors : XSIDE(c) \in Colors /\ XSIDE(XSIDE(c)) = c
  BY DEF Colors, WHITE, BLACK, XSIDE
<1> HIDE DEF m
<1>4. /\ m.side \in Colors /\ m.moveno \in Nat /\ m.movecnt50 \in Nat
      /\ m.hashkey \in SUBSET Keys /\ m.pawnhashkey \in SUBSET Keys
  BY <1>1, <1>3 DEF Boards
<1>5. /\ m.position \in [Colors -> [Pieces -> SUBSET Squares]]
      /\ m.position_all \in [Colors -> SUBSET Squares] /\ m.occupied \in SUBSET Squares
  <2>1. /\ \A c \in Colors : \A p \in Pieces : b.position[XSIDE(c)][p] \in SUBSET Squares
        /\ \A c \in Colors : b.position_all[XSIDE(c)] \in SUBSET Squares
        /\ b.occupied \in SUBSET Squares
    BY <1>3 DEF Boards
  <2>2. /\ \A c \in Colors : \A p \in Pieces : FlipAll(b.position[XSIDE(c)][p]) \in SUBSET Squares
        /\ \A c \in Colors : FlipAll(b.position_all[XSIDE(c)]) \in SUBSET Squares
        /\ FlipAll(b.occupied) \in SUBSET Squares
    BY <2>1, FlipAllMirrors
  <2> QED
    BY <1>1, <2>2
<1>6. m.king \in [Colors -> Squares] /\ m.epsq \in Squares \cup {NO_SQUARE}
  <2>1. \A c \in Colors : Flip(b.king[XSIDE(c)]) \in Squares
    BY <1>3, FlipFacts DEF Boards
  <2>2. Flip(b.epsq) \in Squares \cup {NO_SQUARE}
    <3>1. b.epsq \in Squares \/ b.epsq = NO_SQUARE
      BY DEF Boards
    <3>2. Flip(NO_SQUARE) = NO_SQUARE
      BY DEF Flip
    <3> QED
      BY <3>1, <3>2, FlipFacts
  <2> QED
    BY <1>1, <2>1, <2>2
<1>7. m.flags \in SUBSET Flags
  <2>1. \A f \in Flags : FlipFlag[f] \in Flags
    BY DEF Flags, FlipFlag
  <2> QED
    BY <1>1, <2>1 DEF Boards
<1>8. /\ m.material \in [Colors -> Int] /\ m.has_castled \in [Colors -> BOOLEAN]
      /\ m.pce_movecnt \in [Squares -> Nat]
  <2>1. /\ \A c \in Colors : b.material[XSIDE(c)] \in Int /\ b.has_castled[XSIDE(c)] \in BOOLEAN
        /\ \A x \in Squares : b.pce_movecnt[Flip(x)] \in Nat
    BY <1>3, FlipFacts DEF Boards
  <2> QED
    BY <1>1, <2>1
<1>9. m \in Boards
  BY <1>2, <1>4, <1>5, <1>6, <1>7, <1>8 DEF Boards
<1>10. ASSUME NEW c \in Colors
       PROVE  /\ \A p \in Pieces : m.position[XSIDE(c)][p] = FlipAll(b.position[c][p])
              /\ m.position_all[XSIDE(c)] = FlipAll(b.position_all[c])
              /\ m.king[XSIDE(c)] = Flip(b.king[c])
              /\ m.material[XSIDE(c)] = b.material[c]
              /\ m.has_castled[XSIDE(c)] = b.has_castled[c]
  BY <1>1, <1>3
<1>11. \A x \in Squares : m.pce_movecnt[x] = b.pce_movecnt[Flip(x)]
  BY <1>1
<1> QED
  BY <1>1, <1>9, <1>10, <1>11 DEF m

\* The men stand on the reflected squares, with the other colour.
LEMMA MenMirrored ==
  ASSUME NEW b \in Boards, NEW c \in Colors
  PROVE  /\ \A p \in Pieces : /\ b.position[c][p] \in SUBSET Squares
                              /\ Mirror(b).position[XSIDE(c)][p] \in SUBSET Squares
                              /\ Mirrors(b.position[c][p], Mirror(b).position[XSIDE(c)][p])
         /\ Mirrors(b.position_all[c], Mirror(b).position_all[XSIDE(c)])
         /\ Mirrors(b.occupied, Mirror(b).occupied)
         /\ XSIDE(c) \in Colors /\ XSIDE(XSIDE(c)) = c
<1>1. /\ \A p \in Pieces : b.position[c][p] \in SUBSET Squares
      /\ b.position_all[c] \in SUBSET Squares /\ b.occupied \in SUBSET Squares
  BY DEF Boards
<1>2. /\ \A p \in Pieces : Mirror(b).position[XSIDE(c)][p] = FlipAll(b.position[c][p])
      /\ Mirror(b).position_all[XSIDE(c)] = FlipAll(b.position_all[c])
      /\ Mirror(b).occupied = FlipAll(b.occupied)
  BY MirrorIs
<1>3. XSIDE(c) \in Colors /\ XSIDE(XSIDE(c)) = c
  BY DEF Colors, WHITE, BLACK, XSIDE
<1>4. \A p \in Pieces : /\ FlipAll(b.position[c][p]) \in SUBSET Squares
                        /\ Mirrors(b.position[c][p], FlipAll(b.position[c][p]))
  BY <1>1, FlipAllMirrors
<1>5. /\ Mirrors(b.position_all[c], FlipAll(b.position_all[c]))
      /\ Mirrors(b.occupied, FlipAll(b.occupied))
  BY <1>1, FlipAllMirrors
<1> QED
  BY <1>1, <1>2, <1>3, <1>4, <1>5

LEMMA AttacksMirrored ==
  ASSUME NEW b \in Boards, NEW x \in Squares, NEW c \in Colors
  PROVE  /\ Mirrors(bishop_attacks(b, x), bishop_attacks(Mirror(b), Flip(x)))
         /\ Mirrors(rook_attacks(b, x), rook_attacks(Mirror(b), Flip(x)))
         /\ Mirrors(queen_attacks(b, x), queen_attacks(Mirror(b), Flip(x)))
         /\ Mirrors(pawn_captures(b, x, c), pawn_captures(Mirror(b), Flip(x), XSIDE(c)))
<1> DEFINE m == Mirror(b)
<1>1. Mirrors(b.occupied, m.occupied) /\ b.occupied \in SUBSET Squares
  BY MenMirrored DEF Boards
<1>2. \A y \in Squares : ray_bb[Flip(x)][Flip(y)] \cap m.occupied = {} <=>
                           ray_bb[x][y] \cap b.occupied = {}
  <2> SUFFICES ASSUME NEW y \in Squares
               PROVE  ray_bb[Flip(x)][Flip(y)] \cap m.occupied = {} <=>
                        ray_bb[x][y] \cap b.occupied = {}
    OBVIOUS
  <2>1. /\ Mirrors(ray_bb[x][y], ray_bb[Flip(x)][Flip(y)]) /\ ray_bb[x][y] \subseteq Squares
        /\ ray_bb[Flip(x)][Flip(y)] \subseteq Squares
    BY RayMirrored
  <2>2. Mirrors(ray_bb[x][y] \cap b.occupied, ray_bb[Flip(x)][Flip(y)] \cap m.occupied)
    BY <1>1, <2>1 DEF Mirrors
  <2>3. /\ ray_bb[x][y] \cap b.occupied \in SUBSET Squares
        /\ ray_bb[Flip(x)][Flip(y)] \cap m.occupied \in SUBSET Squares
    BY <2>1
  <2> QED
    BY <2>2, <2>3, SameCount
<1>3. \A y \in Squares : /\ Flip(y) \in Squares /\ Flip(x) \in Squares
                         /\ Straight(Flip(x), Flip(y)) <=> Straight(x, y)
                         /\ Diagonal(Flip(x), Flip(y)) <=> Diagonal(x, y)
  BY FlipFacts, RayMirrored
<1> HIDE DEF m
<1>4. Mirrors(bishop_attacks(b, x), bishop_attacks(m, Flip(x)))
  BY <1>2, <1>3, SlidersSee DEF Mirrors
<1>5. Mirrors(rook_attacks(b, x), rook_attacks(m, Flip(x)))
  BY <1>2, <1>3, SlidersSee DEF Mirrors
<1>6. Mirrors(queen_attacks(b, x), queen_attacks(m, Flip(x)))
  BY <1>4, <1>5 DEF Mirrors, queen_attacks
<1>7. Mirrors(pawn_captures(b, x, c), pawn_captures(m, Flip(x), XSIDE(c)))
  <2>1. Mirrors(pawn_capt_bb[c][x], pawn_capt_bb[XSIDE(c)][Flip(x)])
    BY LeapsMirrored
  <2>2. \A y \in Squares : Flip(y) = m.epsq <=> y = b.epsq
    <3>1. m.epsq = Flip(b.epsq) /\ (b.epsq \in Squares \/ b.epsq = NO_SQUARE)
      BY MirrorIs DEF m, Boards
    <3>2. Flip(NO_SQUARE) = NO_SQUARE
      BY DEF Flip
    <3>3. \A y \in Squares : Flip(y) # NO_SQUARE /\ y # NO_SQUARE
      BY FlipFacts DEF Squares, NO_SQUARE
    <3> QED
      BY <3>1, <3>2, <3>3, FlipPairs
  <2> QED
    BY <1>1, <2>1, <2>2 DEF Mirrors, pawn_captures, m
<1> QED
  BY <1>4, <1>5, <1>6, <1>7 DEF m

LEMMA AttackersMirrored ==
  ASSUME NEW b \in Boards, NEW x \in Squares, NEW c \in Colors
  PROVE  Mirrors(attackers(b, x, c), attackers(Mirror(b), Flip(x), XSIDE(c)))
<1> DEFINE m == Mirror(b)
           d == XSIDE(c)
           A(p) == piece_attacks(b, p, x)
           B(p) == piece_attacks(m, p, Flip(x))
<1>1. /\ \A p \in Pieces : Mirrors(b.position[c][p], m.position[d][p])
      /\ d \in Colors /\ XSIDE(d) = c
  BY MenMirrored
<1>2. Mirrors(pawn_captures(b, x, d), pawn_captures(m, Flip(x), c))
  BY <1>1, AttacksMirrored
<1>3. \A p \in Pieces \ {PAWN} : Mirrors(A(p), B(p))
  <2> SUFFICES ASSUME NEW p \in Pieces \ {PAWN} PROVE Mirrors(A(p), B(p))
    OBVIOUS
  <2>0. PAWN = 0 /\ KNIGHT = 1 /\ BISHOP = 2 /\ ROOK = 3 /\ QUEEN = 4 /\ KING = 5
        /\ p \in {KNIGHT, BISHOP, ROOK, QUEEN, KING}
    BY DEF Pieces, PAWN, KNIGHT, BISHOP, ROOK, QUEEN, KING
  <2>1. CASE p = KNIGHT
    <3>1. A(p) = attack_bb[KNIGHT][x] /\ B(p) = attack_bb[KNIGHT][Flip(x)]
      BY <2>0, <2>1 DEF piece_attacks
    <3> QED
      BY <3>1, LeapsMirrored
  <2>2. CASE p = KING
    <3>1. A(p) = attack_bb[KING][x] /\ B(p) = attack_bb[KING][Flip(x)]
      BY <2>0, <2>2 DEF piece_attacks
    <3> QED
      BY <3>1, LeapsMirrored
  <2>3. CASE p = BISHOP
    <3>1. A(p) = bishop_attacks(b, x) /\ B(p) = bishop_attacks(m, Flip(x))
      BY <2>0, <2>3 DEF piece_attacks
    <3> QED
      BY <3>1, AttacksMirrored
  <2>4. CASE p = ROOK
    <3>1. A(p) = rook_attacks(b, x) /\ B(p) = rook_attacks(m, Flip(x))
      BY <2>0, <2>4 DEF piece_attacks
    <3> QED
      BY <3>1, AttacksMirrored
  <2>5. CASE p = QUEEN
    <3>1. A(p) = queen_attacks(b, x) /\ B(p) = queen_attacks(m, Flip(x))
      BY <2>0, <2>5 DEF piece_attacks
    <3> QED
      BY <3>1, AttacksMirrored
  <2> QED
    BY <2>0, <2>1, <2>2, <2>3, <2>4, <2>5
<1>4. PAWN \in Pieces
  BY PieceNames
<1> HIDE DEF A, B, m, d
<1>5. /\ attackers(b, x, c) = (pawn_captures(b, x, d) \cap b.position[c][PAWN])
           \cup (UNION {A(p) \cap b.position[c][p] : p \in Pieces \ {PAWN}})
      /\ attackers(m, Flip(x), d) = (pawn_captures(m, Flip(x), c) \cap m.position[d][PAWN])
           \cup (UNION {B(p) \cap m.position[d][p] : p \in Pieces \ {PAWN}})
  BY <1>1 DEF attackers, A, B, d
<1>6. ASSUME NEW y \in Squares
      PROVE  Flip(y) \in attackers(m, Flip(x), d) <=> y \in attackers(b, x, c)
  <2>1. y \in attackers(b, x, c) <=>
          \/ y \in pawn_captures(b, x, d) /\ y \in b.position[c][PAWN]
          \/ \E p \in Pieces \ {PAWN} : y \in A(p) /\ y \in b.position[c][p]
    BY <1>5
  <2>2. Flip(y) \in attackers(m, Flip(x), d) <=>
          \/ Flip(y) \in pawn_captures(m, Flip(x), c) /\ Flip(y) \in m.position[d][PAWN]
          \/ \E p \in Pieces \ {PAWN} : Flip(y) \in B(p) /\ Flip(y) \in m.position[d][p]
    BY <1>5
  <2>3. \A p \in Pieces \ {PAWN} : Flip(y) \in B(p) <=> y \in A(p)
    BY <1>3 DEF Mirrors
  <2>4. \A p \in Pieces : Flip(y) \in m.position[d][p] <=> y \in b.position[c][p]
    BY <1>1 DEF Mirrors
  <2>5. Flip(y) \in pawn_captures(m, Flip(x), c) <=> y \in pawn_captures(b, x, d)
    BY <1>2 DEF Mirrors
  <2> QED
    BY <1>4, <2>1, <2>2, <2>3, <2>4, <2>5
<1> QED
  BY <1>6 DEF Mirrors, m, d

-----------------------------------------------------------------------------
(***************************************************************************)
(* The same position with colours and ranks exchanged: the plugins.         *)
(***************************************************************************)
Reflected(A, B) == A \in SUBSET Squares /\ B \in SUBSET Squares /\ Mirrors(A, B)

LEMMA ReflectedCount ==
  ASSUME NEW A, NEW B, Reflected(A, B)
  PROVE  /\ Cardinality(B) = Cardinality(A) /\ Cardinality(A) \in Int
         /\ (B = {} <=> A = {})
BY SameCount, CountTyped DEF Reflected

LEMMA PiecesMirrored ==
  ASSUME NEW b \in Boards, NEW c \in Colors
  PROVE  /\ score_knights(Mirror(b), XSIDE(c)) = score_knights(b, c)
         /\ score_bishops(Mirror(b), XSIDE(c)) = score_bishops(b, c)
         /\ score_queens(Mirror(b), XSIDE(c)) = score_queens(b, c)
         /\ score_combo(Mirror(b), XSIDE(c)) = score_combo(b, c)
         /\ score_control(Mirror(b), XSIDE(c)) = score_control(b, c)
<1> DEFINE m == Mirror(b)
           d == XSIDE(c)
<1>1. /\ \A p \in Pieces : /\ b.position[c][p] \in SUBSET Squares
                           /\ m.position[d][p] \in SUBSET Squares
                           /\ Mirrors(b.position[c][p], m.position[d][p])
      /\ Mirrors(b.position_all[c], m.position_all[d]) /\ Mirrors(b.occupied, m.occupied)
      /\ d \in Colors /\ XSIDE(d) = c /\ m \in Boards
  BY MenMirrored, MirrorIs
<1>2. PAWN \in Pieces /\ KNIGHT \in Pieces /\ BISHOP \in Pieces /\ ROOK \in Pieces /\ QUEEN \in Pieces
  BY PieceNames
<1>3. ASSUME NEW x \in Squares
      PROVE  /\ Flip(x) \in Squares
             /\ attack_bb[KNIGHT][x] \in SUBSET Squares /\ attack_bb[KNIGHT][Flip(x)] \in SUBSET Squares
             /\ Mirrors(attack_bb[KNIGHT][x], attack_bb[KNIGHT][Flip(x)])
             /\ bishop_attacks(b, x) \in SUBSET Squares /\ bishop_attacks(m, Flip(x)) \in SUBSET Squares
             /\ Mirrors(bishop_attacks(b, x), bishop_attacks(m, Flip(x)))
             /\ rook_attacks(b, x) \in SUBSET Squares /\ rook_attacks(m, Flip(x)) \in SUBSET Squares
             /\ Mirrors(rook_attacks(b, x), rook_attacks(m, Flip(x)))
             /\ queen_attacks(b, x) \in SUBSET Squares /\ queen_attacks(m, Flip(x)) \in SUBSET Squares
             /\ Mirrors(queen_attacks(b, x), queen_attacks(m, Flip(x)))
             /\ pawn_captures(b, x, d) \in SUBSET Squares
             /\ pawn_captures(m, Flip(x), c) \in SUBSET Squares
             /\ Mirrors(pawn_captures(b, x, d), pawn_captures(m, Flip(x), c))
             /\ attackers(b, x, c) \in SUBSET Squares /\ attackers(m, Flip(x), d) \in SUBSET Squares
             /\ Mirrors(attackers(b, x, c), attackers(m, Flip(x), d))
  <2>1. Flip(x) \in Squares
    BY FlipFacts
  <2>2. KNIGHT \in Pieces \ {PAWN}
    BY DEF Pieces, PAWN, KNIGHT, KING
  <2>3. /\ attack_bb[KNIGHT][x] \subseteq Squares /\ bishop_attacks(b, x) \subseteq Squares
        /\ rook_attacks(b, x) \subseteq Squares /\ queen_attacks(b, x) \subseteq Squares
        /\ pawn_captures(b, x, d) \subseteq Squares /\ attackers(b, x, c) \subseteq Squares
    BY <1>1, <2>2, AttacksTyped
  <2> HIDE DEF m, d
  <2>4. /\ attack_bb[KNIGHT][Flip(x)] \subseteq Squares /\ bishop_attacks(m, Flip(x)) \subseteq Squares
        /\ rook_attacks(m, Flip(x)) \subseteq Squares /\ queen_attacks(m, Flip(x)) \subseteq Squares
        /\ pawn_captures(m, Flip(x), c) \subseteq Squares /\ attackers(m, Flip(x), d) \subseteq Squares
    BY <1>1, <2>1, <2>2, AttacksTyped
  <2>5. /\ Mirrors(attack_bb[KNIGHT][x], attack_bb[KNIGHT][Flip(x)])
        /\ Mirrors(bishop_attacks(b, x), bishop_attacks(m, Flip(x)))
        /\ Mirrors(rook_attacks(b, x), rook_attacks(m, Flip(x)))
        /\ Mirrors(queen_attacks(b, x), queen_attacks(m, Flip(x)))
        /\ Mirrors(attackers(b, x, c), attackers(m, Flip(x), d))
    BY LeapsMirrored, AttacksMirrored, AttackersMirrored DEF m, d
  <2>6. Mirrors(pawn_captures(b, x, d), pawn_captures(m, Flip(x), c))
    BY <1>1, AttacksMirrored DEF m
  <2> QED
    BY <2>1, <2>3, <2>4, <2>5, <2>6
<1> HIDE DEF m, d
<1>4. score_knights(m, d) = score_knights(b, c)
  <2> DEFINE S == b.position[c][KNIGHT]
             T == m.position[d][KNIGHT]
             f == [sq \in S |->
                     knight_scores[sq] + 2 * Cardinality(attack_bb[KNIGHT][sq] \ b.position_all[c])]
             g == [sq \in T |->
                     knight_scores[sq] + 2 * Cardinality(attack_bb[KNIGHT][sq] \ m.position_all[d])]
  <2>1. S \in SUBSET Squares /\ T \in SUBSET Squares /\ Mirrors(S, T)
    BY <1>1, <1>2
  <2>2. ASSUME NEW x \in S PROVE f[x] \in Int /\ g[Flip(x)] = f[x]
    <3>1. x \in Squares /\ Flip(x) \in T
      BY <2>1 DEF Mirrors
    <3>2. /\ Cardinality(attack_bb[KNIGHT][Flip(x)] \ m.position_all[d])
               = Cardinality(attack_bb[KNIGHT][x] \ b.position_all[c])
          /\ Cardinality(attack_bb[KNIGHT][x] \ b.position_all[c]) \in Int
      <4>1. /\ Reflected(attack_bb[KNIGHT][x], attack_bb[KNIGHT][Flip(x)])
            /\ Mirrors(b.position_all[c], m.position_all[d])
        BY <1>1, <1>3, <3>1 DEF Reflected
      <4>2. Reflected(attack_bb[KNIGHT][x] \ b.position_all[c],
                      attack_bb[KNIGHT][Flip(x)] \ m.position_all[d])
        BY <4>1 DEF Reflected, Mirrors
      <4> QED
        BY <4>2, ReflectedCount
    <3>3. knight_scores[Flip(x)] = knight_scores[x] /\ knight_scores[x] \in Int
      BY <3>1, TablesMirrored, TablesTyped
    <3> QED
      BY <3>1, <3>2, <3>3
  <2>3. f \in [S -> Int] /\ g = [x \in T |-> g[x]] /\ \A x \in S : g[Flip(x)] = f[x]
    BY <2>2
  <2>4. score_knights(m, d) = SumFunction(g) /\ score_knights(b, c) = SumFunction(f)
    BY DEF score_knights
  <2> HIDE DEF f, g, S, T
  <2> QED
    BY <2>1, <2>3, <2>4, FlipSum
<1>5. score_bishops(m, d) = score_bishops(b, c)
  <2> DEFINE S == b.position[c][BISHOP]
             T == m.position[d][BISHOP]
             F(sq) == Bonus(RNK(sq) = Rank7(d) /\ FIL(sq) \in {1, 6}, 15)
             G(sq) == Bonus(RNK(sq) = Rank7(c) /\ FIL(sq) \in {1, 6}, 15)
             f == [sq \in S |->
                     2 * Cardinality(bishop_attacks(b, sq) \ b.position_all[c])
                       + 25 * Cardinality(pawn_captures(b, sq, d) \cap b.position[c][PAWN]) + F(sq)]
             g == [sq \in T |->
                     2 * Cardinality(bishop_attacks(m, sq) \ m.position_all[d])
                       + 25 * Cardinality(pawn_captures(m, sq, c) \cap m.position[d][PAWN]) + G(sq)]
  <2>1. S \in SUBSET Squares /\ T \in SUBSET Squares /\ Mirrors(S, T)
    BY <1>1, <1>2
  <2>2. ASSUME NEW x \in S PROVE f[x] \in Int /\ g[Flip(x)] = f[x]
    <3>1. x \in Squares /\ Flip(x) \in T
      BY <2>1 DEF Mirrors
    <3>2. /\ Cardinality(bishop_attacks(m, Flip(x)) \ m.position_all[d])
               = Cardinality(bishop_attacks(b, x) \ b.position_all[c])
          /\ Cardinality(bishop_attacks(b, x) \ b.position_all[c]) \in Int
      <4>1. /\ Reflected(bishop_attacks(b, x), bishop_attacks(m, Flip(x)))
            /\ Mirrors(b.position_all[c], m.position_all[d])
        BY <1>1, <1>3, <3>1 DEF Reflected
      <4>2. Reflected(bishop_attacks(b, x) \ b.position_all[c],
                      bishop_attacks(m, Flip(x)) \ m.position_all[d])
        BY <4>1 DEF Reflected, Mirrors
      <4> QED
        BY <4>2, ReflectedCount
    <3>3. /\ Cardinality(pawn_captures(m, Flip(x), c) \cap m.position[d][PAWN])
               = Cardinality(pawn_captures(b, x, d) \cap b.position[c][PAWN])
          /\ Cardinality(pawn_captures(b, x, d) \cap b.position[c][PAWN]) \in Int
      <4>1. /\ Reflected(pawn_captures(b, x, d), pawn_captures(m, Flip(x), c))
            /\ Mirrors(b.position[c][PAWN], m.position[d][PAWN])
        BY <1>1, <1>2, <1>3, <3>1 DEF Reflected
      <4>2. Reflected(pawn_captures(b, x, d) \cap b.position[c][PAWN],
                      pawn_captures(m, Flip(x), c) \cap m.position[d][PAWN])
        BY <4>1 DEF Reflected, Mirrors
      <4> QED
        BY <4>2, ReflectedCount
    <3>4. F(x) \in Int /\ G(Flip(x)) = F(x)
      <4>1. /\ RNK(Flip(x)) = 7 - RNK(x) /\ FIL(Flip(x)) = FIL(x) /\ RNK(x) \in 0 .. 7
        BY <3>1, FlipFacts, RankOf
      <4>2. Rank7(c) = 7 - Rank7(d) /\ Rank7(d) \in 0 .. 7 /\ Rank7(c) \in 0 .. 7
        BY <1>1 DEF Rank7, Colors, XSIDE, WHITE, BLACK, d
      <4>3. RNK(Flip(x)) = Rank7(c) <=> RNK(x) = Rank7(d)
        BY <4>1, <4>2
      <4> QED
        BY <4>1, <4>3 DEF Bonus
    <3> HIDE DEF F, G
    <3> QED
      BY <3>1, <3>2, <3>3, <3>4
  <2>3. f \in [S -> Int] /\ g = [x \in T |-> g[x]] /\ \A x \in S : g[Flip(x)] = f[x]
    BY <2>2
  <2>4. score_bishops(m, d) = SumFunction(g) /\ score_bishops(b, c) = SumFunction(f)
    BY <1>1 DEF score_bishops, d
  <2> HIDE DEF f, g, S, T
  <2> QED
    BY <2>1, <2>3, <2>4, FlipSum
<1>6. score_queens(m, d) = score_queens(b, c)
  <2> DEFINE S == b.position[c][QUEEN]
             T == m.position[d][QUEEN]
             f == [sq \in S |-> Cardinality(queen_attacks(b, sq) \ b.position_all[c])]
             g == [sq \in T |-> Cardinality(queen_attacks(m, sq) \ m.position_all[d])]
  <2>1. S \in SUBSET Squares /\ T \in SUBSET Squares /\ Mirrors(S, T)
    BY <1>1, <1>2
  <2>2. ASSUME NEW x \in S PROVE f[x] \in Int /\ g[Flip(x)] = f[x]
    <3>1. x \in Squares /\ Flip(x) \in T
      BY <2>1 DEF Mirrors
    <3>2. /\ Cardinality(queen_attacks(m, Flip(x)) \ m.position_all[d])
               = Cardinality(queen_attacks(b, x) \ b.position_all[c])
          /\ Cardinality(queen_attacks(b, x) \ b.position_all[c]) \in Int
      <4>1. /\ Reflected(queen_attacks(b, x), queen_attacks(m, Flip(x)))
            /\ Mirrors(b.position_all[c], m.position_all[d])
        BY <1>1, <1>3, <3>1 DEF Reflected
      <4>2. Reflected(queen_attacks(b, x) \ b.position_all[c], queen_attacks(m, Flip(x)) \ m.position_all[d])
        BY <4>1 DEF Reflected, Mirrors
      <4> QED
        BY <4>2, ReflectedCount
    <3> QED
      BY <3>1, <3>2
  <2>3. f \in [S -> Int] /\ g = [x \in T |-> g[x]] /\ \A x \in S : g[Flip(x)] = f[x]
    BY <2>2
  <2>4. score_queens(m, d) = SumFunction(g) /\ score_queens(b, c) = SumFunction(f)
    BY DEF score_queens
  <2> HIDE DEF f, g, S, T
  <2> QED
    BY <2>1, <2>3, <2>4, FlipSum
<1>7. score_combo(m, d) = score_combo(b, c)
  <2> DEFINE S == b.position[c][QUEEN]
             T == m.position[d][QUEEN]
             f == [q \in S |->
                     15 * Cardinality(bishop_attacks(b, q) \cap b.position[c][BISHOP])
                       + 30 * Cardinality(rook_attacks(b, q) \cap b.position[c][ROOK])]
             g == [q \in T |->
                     15 * Cardinality(bishop_attacks(m, q) \cap m.position[d][BISHOP])
                       + 30 * Cardinality(rook_attacks(m, q) \cap m.position[d][ROOK])]
  <2>1. S \in SUBSET Squares /\ T \in SUBSET Squares /\ Mirrors(S, T)
    BY <1>1, <1>2
  <2>2. ASSUME NEW x \in S PROVE f[x] \in Int /\ g[Flip(x)] = f[x]
    <3>1. x \in Squares /\ Flip(x) \in T
      BY <2>1 DEF Mirrors
    <3>2. /\ Cardinality(bishop_attacks(m, Flip(x)) \cap m.position[d][BISHOP])
               = Cardinality(bishop_attacks(b, x) \cap b.position[c][BISHOP])
          /\ Cardinality(bishop_attacks(b, x) \cap b.position[c][BISHOP]) \in Int
      <4>1. /\ Reflected(bishop_attacks(b, x), bishop_attacks(m, Flip(x)))
            /\ Mirrors(b.position[c][BISHOP], m.position[d][BISHOP])
        BY <1>1, <1>2, <1>3, <3>1 DEF Reflected
      <4>2. Reflected(bishop_attacks(b, x) \cap b.position[c][BISHOP],
                      bishop_attacks(m, Flip(x)) \cap m.position[d][BISHOP])
        BY <4>1 DEF Reflected, Mirrors
      <4> QED
        BY <4>2, ReflectedCount
    <3>3. /\ Cardinality(rook_attacks(m, Flip(x)) \cap m.position[d][ROOK])
               = Cardinality(rook_attacks(b, x) \cap b.position[c][ROOK])
          /\ Cardinality(rook_attacks(b, x) \cap b.position[c][ROOK]) \in Int
      <4>1. /\ Reflected(rook_attacks(b, x), rook_attacks(m, Flip(x)))
            /\ Mirrors(b.position[c][ROOK], m.position[d][ROOK])
        BY <1>1, <1>2, <1>3, <3>1 DEF Reflected
      <4>2. Reflected(rook_attacks(b, x) \cap b.position[c][ROOK],
                      rook_attacks(m, Flip(x)) \cap m.position[d][ROOK])
        BY <4>1 DEF Reflected, Mirrors
      <4> QED
        BY <4>2, ReflectedCount
    <3> QED
      BY <3>1, <3>2, <3>3
  <2>3. f \in [S -> Int] /\ g = [x \in T |-> g[x]] /\ \A x \in S : g[Flip(x)] = f[x]
    BY <2>2
  <2>4. score_combo(m, d) = SumFunction(g) /\ score_combo(b, c) = SumFunction(f)
    BY DEF score_combo
  <2> HIDE DEF f, g, S, T
  <2> QED
    BY <2>1, <2>3, <2>4, FlipSum
<1>8. score_control(m, d) = score_control(b, c)
  <2> DEFINE M(sq) == Cardinality(attackers(b, sq, c))
             N(sq) == Cardinality(attackers(m, sq, d))
             f == [sq \in Squares |->
                     control_score[sq] * (IF M(sq) < control_maxattackers[sq]
                                            THEN M(sq) ELSE control_maxattackers[sq])]
             g == [sq \in Squares |->
                     control_score[sq] * (IF N(sq) < control_maxattackers[sq]
                                            THEN N(sq) ELSE control_maxattackers[sq])]
  <2>1. Squares \in SUBSET Squares /\ Mirrors(Squares, Squares)
    BY FlipFacts DEF Mirrors
  <2>2. ASSUME NEW x \in Squares PROVE f[x] \in Int /\ g[Flip(x)] = f[x]
    <3>1. Flip(x) \in Squares /\ N(Flip(x)) = M(x) /\ M(x) \in Int
      BY <1>3, SameCount, CountTyped
    <3>2. /\ control_score[Flip(x)] = control_score[x] /\ control_score[x] \in Int
          /\ control_maxattackers[Flip(x)] = control_maxattackers[x]
          /\ control_maxattackers[x] \in Int
      BY TablesMirrored, TablesTyped
    <3> HIDE DEF M, N
    <3> QED
      BY <3>1, <3>2
  <2>3. f \in [Squares -> Int] /\ g = [x \in Squares |-> g[x]] /\ \A x \in Squares : g[Flip(x)] = f[x]
    BY <2>2
  <2>4. score_control(m, d) = SumFunction(g) /\ score_control(b, c) = SumFunction(f)
    BY DEF score_control
  <2> HIDE DEF f, g
  <2> QED
    BY <2>1, <2>3, <2>4, FlipSum
<1> QED
  BY <1>4, <1>5, <1>6, <1>7, <1>8 DEF m, d

LEMMA HomeMirrored ==
  ASSUME NEW c \in Colors
  PROVE  /\ Rank7(c) \in 0 .. 7 /\ Rank8(c) \in 0 .. 7
         /\ Rank7(XSIDE(c)) = 7 - Rank7(c) /\ Rank8(XSIDE(c)) = 7 - Rank8(c)
         /\ \A x \in Squares : /\ RNK(Flip(x)) = Rank7(XSIDE(c)) <=> RNK(x) = Rank7(c)
                               /\ RNK(Flip(x)) = Rank8(XSIDE(c)) <=> RNK(x) = Rank8(c)
<1>1. /\ Rank7(c) \in 0 .. 7 /\ Rank8(c) \in 0 .. 7
      /\ Rank7(XSIDE(c)) = 7 - Rank7(c) /\ Rank8(XSIDE(c)) = 7 - Rank8(c)
  BY DEF Rank7, Rank8, Colors, XSIDE, WHITE, BLACK
<1>2. \A x \in Squares : RNK(Flip(x)) = 7 - RNK(x) /\ RNK(x) \in 0 .. 7
  BY FlipFacts, RankOf
<1> QED
  BY <1>1, <1>2

LEMMA RookPassedMirrored ==
  ASSUME NEW c \in Colors, NEW P, NEW Q, Reflected(P, Q), NEW x \in Squares
  PROVE  /\ score_rook_passed(Q, XSIDE(c), Flip(x)) = score_rook_passed(P, c, x)
         /\ score_rook_passed(P, c, x) \in Int
<1> DEFINE d == XSIDE(c)
           y == Flip(x)
           pps == P \cap file[FIL(x)]
           qps == Q \cap file[FIL(y)]
           ahead == {pp \in pps : IF c = WHITE THEN Ranks(pp, x) > 0 ELSE Ranks(pp, x) < 0}
           front == {pp \in qps : IF d = WHITE THEN Ranks(pp, y) > 0 ELSE Ranks(pp, y) < 0}
           behind == {pp \in pps \ ahead : Ranks(pp, x) # 0}
           back == {pp \in qps \ front : Ranks(pp, y) # 0}
<1>1. /\ y \in Squares /\ FIL(y) = FIL(x) /\ FIL(x) \in 0 .. 7
      /\ \A z \in Squares : /\ Ranks(Flip(z), y) = 0 - Ranks(z, x) /\ Ranks(z, x) \in Int
                            /\ Flip(z) \in Squares
  BY FlipFacts, FlipPairs, RankOf, Slopes
<1>2. P \in SUBSET Squares /\ Q \in SUBSET Squares /\ Mirrors(pps, qps)
  <2>1. Mirrors(file[FIL(x)], file[FIL(x)])
    BY <1>1, FilesMirrored
  <2> QED
    BY <1>1, <2>1 DEF Reflected, Mirrors
<1>3. (c = WHITE <=> ~(d = WHITE))
  BY DEF Colors, XSIDE, WHITE, BLACK
<1>4. \A z \in Squares : /\ 0 - Ranks(z, x) > 0 <=> Ranks(z, x) < 0
                         /\ 0 - Ranks(z, x) < 0 <=> Ranks(z, x) > 0
                         /\ 0 - Ranks(z, x) = 0 <=> Ranks(z, x) = 0
  BY <1>1
<1>5. ahead \in SUBSET Squares /\ front \in SUBSET Squares /\ behind \in SUBSET Squares /\ back \in SUBSET Squares
  BY <1>2
<1> HIDE DEF pps, qps, y, d
<1>6. Mirrors(ahead, front)
  BY <1>1, <1>2, <1>3, <1>4 DEF Mirrors, y
<1>7. Mirrors(behind, back)
  <2> HIDE DEF ahead, front
  <2> QED
    BY <1>1, <1>2, <1>4, <1>6 DEF Mirrors, y
<1>8. /\ score_rook_passed(P, c, x) = 25 * Cardinality(behind) - 15 * Cardinality(ahead)
      /\ score_rook_passed(Q, d, y) = 25 * Cardinality(back) - 15 * Cardinality(front)
  BY DEF score_rook_passed, pps, qps
<1> HIDE DEF ahead, front, behind, back
<1>9. /\ Cardinality(front) = Cardinality(ahead) /\ Cardinality(ahead) \in Int
      /\ Cardinality(back) = Cardinality(behind) /\ Cardinality(behind) \in Int
  BY <1>5, <1>6, <1>7, ReflectedCount DEF Reflected
<1> QED
  BY <1>8, <1>9 DEF y, d

LEMMA RooksMirrored ==
  ASSUME NEW b \in Boards, NEW c \in Colors, NEW phase \in Phases, NEW P, NEW Q, Reflected(P, Q)
  PROVE  score_rooks(Mirror(b), phase, Q, XSIDE(c)) = score_rooks(b, phase, P, c)
<1> DEFINE m == Mirror(b)
           d == XSIDE(c)
<1>1. /\ \A p \in Pieces : /\ Reflected(b.position[c][p], m.position[d][p])
                           /\ Reflected(b.position[d][p], m.position[c][p])
      /\ Mirrors(b.position_all[c], m.position_all[d])
      /\ d \in Colors /\ XSIDE(d) = c /\ m \in Boards
  BY MenMirrored, MirrorIs DEF Reflected
<1>2. PAWN \in Pieces /\ ROOK \in Pieces
  BY PieceNames
<1>3. b.king[d] \in Squares /\ m.king[c] = Flip(b.king[d])
  <2>1. b.king \in [Colors -> Squares] /\ d \in Colors
    BY <1>1 DEF Boards
  <2>2. m.king[XSIDE(d)] = Flip(b.king[d])
    BY <2>1, MirrorIs
  <2> QED
    BY <1>1, <2>1, <2>2
<1> DEFINE S == b.position[c][ROOK]
           T == m.position[d][ROOK]
           Open(pawns, sq) == file[FIL(sq)] \cap pawns = {}
           OnOpen(own, theirs, sq) == Bonus(Open(own, sq), IF Open(theirs, sq) THEN 10 ELSE 5)
           Early(s, sq) == Bonus(phase # ENDGAME /\ RNK(sq) # Rank8(XSIDE(s)), -10)
           Prey(a, s) == Bonus(a.position[XSIDE(s)][PAWN] \cap rank[Rank7(s)] # {}, 20)
                           + Bonus(RNK(a.king[XSIDE(s)]) = Rank8(s), 50)
           Seventh(a, s, sq) == Bonus(phase # ENDGAME /\ RNK(sq) = Rank7(s), Prey(a, s))
           Score(a, s, passed) ==
             [sq \in a.position[s][ROOK] |->
                2 * Cardinality(rook_attacks(a, sq) \ a.position_all[s])
                  + Early(s, sq)
                  + OnOpen(a.position[s][PAWN], a.position[XSIDE(s)][PAWN], sq)
                  + Seventh(a, s, sq)
                  + score_rook_passed(passed, s, sq)]
           f == Score(b, c, P)
           g == Score(m, d, Q)
<1>4. score_rooks(b, phase, P, c) = SumFunction(f) /\ score_rooks(m, phase, Q, d) = SumFunction(g)
  BY DEF score_rooks
<1>5. Prey(b, c) \in Int /\ Prey(m, d) = Prey(b, c)
  <2>1. /\ Rank7(c) \in 0 .. 7 /\ Rank7(d) = 7 - Rank7(c)
        /\ RNK(m.king[c]) = Rank8(d) <=> RNK(b.king[d]) = Rank8(c)
    BY <1>3, HomeMirrored
  <2>2. /\ Reflected(b.position[d][PAWN], m.position[c][PAWN])
        /\ Mirrors(rank[Rank7(c)], rank[Rank7(d)])
    BY <1>1, <1>2, <2>1, FilesMirrored
  <2>3. Reflected(b.position[d][PAWN] \cap rank[Rank7(c)], m.position[c][PAWN] \cap rank[Rank7(d)])
    BY <2>2 DEF Reflected, Mirrors
  <2>4. m.position[c][PAWN] \cap rank[Rank7(d)] = {} <=> b.position[d][PAWN] \cap rank[Rank7(c)] = {}
    BY <2>3, ReflectedCount
  <2> HIDE DEF m, d
  <2> QED
    BY <1>1, <2>1, <2>4 DEF Bonus, d
<1> HIDE DEF Prey
<1>6. ASSUME NEW x \in S PROVE f[x] \in Int /\ g[Flip(x)] = f[x]
  <2>1. x \in Squares /\ Flip(x) \in T /\ Flip(x) \in Squares
    BY <1>1, <1>2, FlipFacts DEF Reflected, Mirrors
  <2> HIDE DEF m, d
  <2>2. /\ Cardinality(rook_attacks(m, Flip(x)) \ m.position_all[d])
             = Cardinality(rook_attacks(b, x) \ b.position_all[c])
        /\ Cardinality(rook_attacks(b, x) \ b.position_all[c]) \in Int
    <3>1. /\ rook_attacks(b, x) \subseteq Squares /\ rook_attacks(m, Flip(x)) \subseteq Squares
          /\ Mirrors(rook_attacks(b, x), rook_attacks(m, Flip(x)))
      BY <1>1, <2>1, AttacksTyped, AttacksMirrored DEF m
    <3>2. Reflected(rook_attacks(b, x) \ b.position_all[c], rook_attacks(m, Flip(x)) \ m.position_all[d])
      BY <1>1, <3>1 DEF Reflected, Mirrors
    <3> QED
      BY <3>2, ReflectedCount
  <2>3. /\ score_rook_passed(Q, d, Flip(x)) = score_rook_passed(P, c, x)
        /\ score_rook_passed(P, c, x) \in Int
    BY <2>1, RookPassedMirrored DEF d
  <2>4. Early(c, x) \in Int /\ Early(d, Flip(x)) = Early(c, x)
    <3>1. RNK(Flip(x)) = Rank8(c) <=> RNK(x) = Rank8(d)
      BY <1>1, <2>1, HomeMirrored
    <3> QED
      BY <1>1, <3>1 DEF Bonus, d
  <2>5. /\ OnOpen(b.position[c][PAWN], b.position[d][PAWN], x) \in Int
        /\ OnOpen(m.position[d][PAWN], m.position[c][PAWN], Flip(x))
             = OnOpen(b.position[c][PAWN], b.position[d][PAWN], x)
    <3>1. FIL(Flip(x)) = FIL(x) /\ FIL(x) \in 0 .. 7
      BY <2>1, FlipFacts, RankOf
    <3>2. Reflected(file[FIL(x)], file[FIL(Flip(x))])
      BY <3>1, FilesMirrored DEF Reflected
    <3>3. /\ Reflected(b.position[c][PAWN], m.position[d][PAWN])
          /\ Reflected(b.position[d][PAWN], m.position[c][PAWN])
      BY <1>1, <1>2
    <3>4. /\ Reflected(file[FIL(x)] \cap b.position[c][PAWN], file[FIL(Flip(x))] \cap m.position[d][PAWN])
          /\ Reflected(file[FIL(x)] \cap b.position[d][PAWN], file[FIL(Flip(x))] \cap m.position[c][PAWN])
      BY <3>2, <3>3 DEF Reflected, Mirrors
    <3>5. /\ Open(m.position[d][PAWN], Flip(x)) <=> Open(b.position[c][PAWN], x)
          /\ Open(m.position[c][PAWN], Flip(x)) <=> Open(b.position[d][PAWN], x)
      BY <3>4, ReflectedCount
    <3> HIDE DEF Open
    <3> QED
      BY <3>5 DEF Bonus
  <2>6. Seventh(b, c, x) \in Int /\ Seventh(m, d, Flip(x)) = Seventh(b, c, x)
    <3>1. RNK(Flip(x)) = Rank7(d) <=> RNK(x) = Rank7(c)
      BY <2>1, HomeMirrored DEF d
    <3> QED
      BY <1>5, <3>1 DEF Bonus
  <2>7. /\ f[x] = 2 * Cardinality(rook_attacks(b, x) \ b.position_all[c]) + Early(c, x)
                    + OnOpen(b.position[c][PAWN], b.position[d][PAWN], x)
                    + Seventh(b, c, x) + score_rook_passed(P, c, x)
        /\ g[Flip(x)] = 2 * Cardinality(rook_attacks(m, Flip(x)) \ m.position_all[d]) + Early(d, Flip(x))
                    + OnOpen(m.position[d][PAWN], m.position[c][PAWN], Flip(x))
                    + Seventh(m, d, Flip(x)) + score_rook_passed(Q, d, Flip(x))
    <3> HIDE DEF Early, OnOpen, Seventh
    <3> QED
      BY <1>1, <2>1 DEF d
  <2> HIDE DEF Early, OnOpen, Seventh, f, g
  <2> QED
    BY <2>2, <2>3, <2>4, <2>5, <2>6, <2>7
<1>7. S \in SUBSET Squares /\ T \in SUBSET Squares /\ Mirrors(S, T)
  BY <1>1, <1>2 DEF Reflected
<1>8. f = [x \in S |-> f[x]] /\ g = [x \in T |-> g[x]]
  OBVIOUS
<1> HIDE DEF f, g, S, T, m, d
<1>9. f \in [S -> Int] /\ \A x \in S : g[Flip(x)] = f[x]
  BY <1>6, <1>8
<1>10. SumFunction(g) = SumFunction(f)
  BY <1>7, <1>8, <1>9, FlipSum
<1> QED
  BY <1>4, <1>10 DEF m, d

LEMMA KingMirrored ==
  ASSUME NEW b \in Boards, NEW c \in Colors, NEW phase \in Phases
  PROVE  score_king(Mirror(b), phase, XSIDE(c)) = score_king(b, phase, c)
<1> DEFINE m == Mirror(b)
           d == XSIDE(c)
           k == b.king[c]
           l == m.king[d]
           shield == attack_bb[KING][k] \cap Wings(Rank7(d)) \cap b.position[c][PAWN]
           screen == attack_bb[KING][l] \cap Wings(Rank7(c)) \cap m.position[d][PAWN]
<1>1. k \in Squares /\ l = Flip(k) /\ d \in Colors /\ XSIDE(d) = c
  BY MenMirrored, MirrorIs DEF Boards
<1>2. ASSUME NEW r \in 0 .. 7
      PROVE  Mirrors(Wings(r), Wings(7 - r)) /\ Wings(r) \in SUBSET Squares
  <2>1. Mirrors(rank[r], rank[7 - r]) /\ rank[r] \in SUBSET Squares
    BY FilesMirrored
  <2>2. \A x \in Squares : FIL(Flip(x)) = FIL(x)
    BY FlipFacts
  <2> QED
    BY <2>1, <2>2 DEF Mirrors, Wings
<1>3. /\ Rank7(d) \in 0 .. 7 /\ Rank7(c) = 7 - Rank7(d)
      /\ Rank8(d) \in 0 .. 7 /\ Rank8(c) = 7 - Rank8(d)
  BY <1>1, HomeMirrored
<1> HIDE DEF m, d, k, l
<1>4. Cardinality(screen) = Cardinality(shield)
  <2>1. Mirrors(attack_bb[KING][k], attack_bb[KING][l]) /\ l \in Squares
    BY <1>1, LeapsMirrored, FlipFacts
  <2>2. Mirrors(Wings(Rank7(d)), Wings(Rank7(c)))
    BY <1>2, <1>3
  <2>3. Reflected(b.position[c][PAWN], m.position[d][PAWN])
    BY PieceNames, MenMirrored DEF Reflected, m, d
  <2>4. Reflected(shield, screen)
    BY <2>1, <2>2, <2>3 DEF Reflected, Mirrors
  <2> QED
    BY <2>4, ReflectedCount
<1>5. l \in Wings(Rank8(c)) <=> k \in Wings(Rank8(d))
  BY <1>1, <1>2, <1>3 DEF Mirrors
<1>6. king_scores_endgame[l] = king_scores_endgame[k] /\ king_scores[l] = king_scores[k]
  BY <1>1, TablesMirrored
<1>7. score_king(b, phase, c) =
        IF phase = ENDGAME THEN king_scores_endgame[k]
        ELSE king_scores[k] + Bonus(k \in Wings(Rank8(d)), 8 * Cardinality(shield))
  BY DEF score_king, k, d
<1>8. score_king(m, phase, d) =
        IF phase = ENDGAME THEN king_scores_endgame[l]
        ELSE king_scores[l] + Bonus(l \in Wings(Rank8(c)), 8 * Cardinality(screen))
  BY <1>1 DEF score_king, l
<1> HIDE DEF shield, screen
<1>9. Bonus(l \in Wings(Rank8(c)), 8 * Cardinality(screen))
        = Bonus(k \in Wings(Rank8(d)), 8 * Cardinality(shield))
  BY <1>4, <1>5 DEF Bonus
<1>10. score_king(m, phase, d) = score_king(b, phase, c)
  BY <1>6, <1>7, <1>8, <1>9
<1> QED
  BY <1>10 DEF m, d

LEMMA DevelopmentMirrored ==
  ASSUME NEW b \in Boards, NEW c \in Colors, NEW phase \in Phases
  PROVE  score_devel(Mirror(b), phase, XSIDE(c)) = score_devel(b, phase, c)
<1> DEFINE m == Mirror(b)
           d == XSIDE(c)
           moved == {sq \in Squares : b.pce_movecnt[sq] > 0}
           stirred == {sq \in Squares : m.pce_movecnt[sq] > 0}
<1>1. Mirrors(moved, stirred)
  <2>1. \A x \in Squares : /\ Flip(x) \in Squares
                           /\ m.pce_movecnt[Flip(x)] = b.pce_movecnt[x]
    BY FlipFacts, MirrorIs
  <2> HIDE DEF m
  <2> QED
    BY <2>1 DEF Mirrors
<1>2. \A p \in Pieces : Reflected(b.position[c][p], m.position[d][p])
  BY MenMirrored DEF Reflected
<1>3. m.has_castled[d] = b.has_castled[c]
  BY MirrorIs
<1>4. m.flags \cap FlagsOf(d) # {} <=> b.flags \cap FlagsOf(c) # {}
  <2>1. m.flags = {FlipFlag[f] : f \in b.flags} /\ b.flags \in SUBSET Flags
    BY MirrorIs DEF Boards
  <2>2. \A f \in Flags : FlipFlag[f] \in FlagsOf(d) <=> f \in FlagsOf(c)
    BY DEF Flags, FlipFlag, FlagsOf, Colors, XSIDE, WHITE, BLACK
  <2> HIDE DEF m, d
  <2> QED
    BY <2>1, <2>2
<1>5. KNIGHT \in Pieces /\ BISHOP \in Pieces /\ ROOK \in Pieces /\ QUEEN \in Pieces
  BY PieceNames
<1> DEFINE own == b.position[c]
           men == m.position[d]
<1>6. score_devel(b, phase, c) =
        Bonus(phase = OPENING,
              -15 * Cardinality((own[KNIGHT] \cup own[BISHOP]) \ moved)
                - 20 * Cardinality(own[ROOK] \cap moved) - 25 * Cardinality(own[QUEEN] \cap moved)
                + (IF b.has_castled[c] THEN 32 ELSE Bonus(b.flags \cap FlagsOf(c) # {}, 16)))
  BY DEF score_devel
<1>7. score_devel(m, phase, d) =
        Bonus(phase = OPENING,
              -15 * Cardinality((men[KNIGHT] \cup men[BISHOP]) \ stirred)
                - 20 * Cardinality(men[ROOK] \cap stirred) - 25 * Cardinality(men[QUEEN] \cap stirred)
                + (IF m.has_castled[d] THEN 32 ELSE Bonus(m.flags \cap FlagsOf(d) # {}, 16)))
  BY DEF score_devel
<1> HIDE DEF m, d, moved, stirred, own, men
<1>8. /\ Reflected(own[KNIGHT], men[KNIGHT]) /\ Reflected(own[BISHOP], men[BISHOP])
      /\ Reflected(own[ROOK], men[ROOK]) /\ Reflected(own[QUEEN], men[QUEEN])
  BY <1>2, <1>5 DEF own, men
<1>9. Cardinality((men[KNIGHT] \cup men[BISHOP]) \ stirred) = Cardinality((own[KNIGHT] \cup own[BISHOP]) \ moved)
  <2>1. Reflected((own[KNIGHT] \cup own[BISHOP]) \ moved, (men[KNIGHT] \cup men[BISHOP]) \ stirred)
    BY <1>1, <1>8 DEF Reflected, Mirrors
  <2> QED
    BY <2>1, ReflectedCount
<1>10. Cardinality(men[ROOK] \cap stirred) = Cardinality(own[ROOK] \cap moved)
  <2>1. Reflected(own[ROOK] \cap moved, men[ROOK] \cap stirred)
    BY <1>1, <1>8 DEF Reflected, Mirrors
  <2> QED
    BY <2>1, ReflectedCount
<1>11. Cardinality(men[QUEEN] \cap stirred) = Cardinality(own[QUEEN] \cap moved)
  <2>1. Reflected(own[QUEEN] \cap moved, men[QUEEN] \cap stirred)
    BY <1>1, <1>8 DEF Reflected, Mirrors
  <2> QED
    BY <2>1, ReflectedCount
<1>12. Bonus(m.flags \cap FlagsOf(d) # {}, 16) = Bonus(b.flags \cap FlagsOf(c) # {}, 16)
  BY <1>4 DEF Bonus
<1>13. score_devel(m, phase, d) = score_devel(b, phase, c)
  BY <1>3, <1>6, <1>7, <1>9, <1>10, <1>11, <1>12
<1> QED
  BY <1>13 DEF m, d

\* A pawn is passed where its reflection is.
LEMMA PassedMirrored ==
  ASSUME NEW b \in Boards, NEW c \in Colors
  PROVE  Reflected(Passed(b, c), Passed(Mirror(b), XSIDE(c)))
<1> DEFINE m == Mirror(b)
           d == XSIDE(c)
<1>1. /\ \A p \in Pieces : /\ Reflected(b.position[c][p], m.position[d][p])
                           /\ Reflected(b.position[d][p], m.position[c][p])
      /\ d \in Colors /\ XSIDE(d) = c
  BY MenMirrored DEF Reflected
<1> DEFINE S == b.position[c][PAWN]
           T == m.position[d][PAWN]
           U == b.position[d][PAWN]
           V == m.position[c][PAWN]
<1>2. Reflected(S, T) /\ Reflected(U, V)
  BY <1>1, PieceNames
<1>3. /\ Passed(b, c) = {sq \in S : passed_pawn_mask[c][sq] \cap U = {}}
      /\ Passed(m, d) = {sq \in T : passed_pawn_mask[d][sq] \cap V = {}}
  BY <1>1 DEF Passed
<1> HIDE DEF m, S, T, U, V
<1>4. ASSUME NEW x \in Squares
      PROVE  passed_pawn_mask[d][Flip(x)] \cap V = {} <=> passed_pawn_mask[c][x] \cap U = {}
  <2>1. Mirrors(passed_pawn_mask[c][x], passed_pawn_mask[d][Flip(x)])
    BY MasksMirrored
  <2>2. Reflected(passed_pawn_mask[c][x] \cap U, passed_pawn_mask[d][Flip(x)] \cap V)
    BY <1>2, <2>1 DEF Reflected, Mirrors
  <2> QED
    BY <2>2, ReflectedCount
<1>5. Reflected(Passed(b, c), Passed(m, d))
  BY <1>2, <1>3, <1>4 DEF Reflected, Mirrors
<1> QED
  BY <1>5 DEF m

LEMMA NeighbourBack ==
  ASSUME NEW x \in Squares, NEW y, y \in connected_pawn_mask[x]
  PROVE  y \in Squares /\ y # x /\ x \in connected_pawn_mask[y]
<1>1. \A z \in Squares : attack_bb[KING][z] =
        {t \in Squares : Larger(Abs(Ranks(z, t)), Abs(Files(z, t))) = 1}
  BY DEF attack_bb, Pieces, PAWN, KNIGHT, BISHOP, ROOK, QUEEN, KING
<1>2. connected_pawn_mask[x] = attack_bb[KING][x] \ file[FIL(x)]
  BY DEF connected_pawn_mask
<1>3. y \in Squares
  BY <1>1, <1>2
<1>4. FIL(x) \in 0 .. 7 /\ FIL(y) \in 0 .. 7
  BY <1>3, RankOf
<1>5. FIL(y) # FIL(x)
  BY <1>2, <1>3, <1>4 DEF file
<1>6. x \in attack_bb[KING][y]
  <2>1. Larger(Abs(Ranks(x, y)), Abs(Files(x, y))) = 1
    BY <1>1, <1>2
  <2>2. Abs(Ranks(y, x)) = Abs(Ranks(x, y)) /\ Abs(Files(y, x)) = Abs(Files(x, y))
    BY <1>3, Slopes, Opposite
  <2> QED
    BY <1>1, <1>3, <2>1, <2>2
<1>7. x \notin file[FIL(y)]
  BY <1>4, <1>5 DEF file
<1>8. connected_pawn_mask[y] = attack_bb[KING][y] \ file[FIL(y)]
  BY <1>3 DEF connected_pawn_mask
<1> QED
  BY <1>3, <1>5, <1>6, <1>7, <1>8

LEMMA OnlyOne ==
  ASSUME NEW A \in SUBSET Squares, Cardinality(A) <= 1, NEW y \in A, NEW z \in A
  PROVE  y = z
<1> SUFFICES ASSUME y # z PROVE FALSE
  OBVIOUS
<1> DEFINE B == A \ {y}
           C == B \ {z}
<1>1. y \in Squares /\ z \in Squares /\ z \in B /\ B \in SUBSET Squares /\ C \in SUBSET Squares
  OBVIOUS
<1>2. Cardinality(A) \in Nat /\ Cardinality(B) = Cardinality(A) - 1
  BY <1>1, Counting
<1> HIDE DEF B
<1>3. Cardinality(B) \in Nat /\ Cardinality(C) = Cardinality(B) - 1
  BY <1>1, Counting
<1> HIDE DEF C
<1>4. Cardinality(C) \in Nat
  BY <1>1, Counting
<1> QED
  BY <1>2, <1>3, <1>4

\* The bonus for a pair of passed pawns goes to the one that is visited last, which
\* is not the same one after the exchange if they stand on different ranks.
LEMMA PairsMirrored ==
  ASSUME NEW S \in SUBSET Squares, NEW T \in SUBSET Squares, Mirrors(S, T),
         NEW P \in SUBSET S, NEW Q \in SUBSET T, Mirrors(P, Q),
         \A x \in P : Cardinality(connected_pawn_mask[x] \cap P) <= 1
  PROVE  SumFunction([y \in T |->
             Bonus(y \in Q /\ \E q \in Q : q > y /\ q \in connected_pawn_mask[y], 20)])
         = SumFunction([x \in S |->
             Bonus(x \in P /\ \E p \in P : p > x /\ p \in connected_pawn_mask[x], 20)])
<1> DEFINE Near(x) == x \in P /\ \E p \in P : p > x /\ p \in connected_pawn_mask[x]
           Close(y) == y \in Q /\ \E q \in Q : q > y /\ q \in connected_pawn_mask[y]
           Other(x) == {p \in P \cap connected_pawn_mask[x] : RNK(p) # RNK(x)}
           Swap(x) == IF x \in P /\ Other(x) # {} THEN CHOOSE p \in Other(x) : TRUE ELSE x
           f == [x \in S |-> Bonus(Near(x), 20)]
           g == [y \in T |-> Bonus(Close(y), 20)]
           h == [x \in S |-> Flip(Swap(x))]
<1>1. \A x \in P : \A y, z \in P : y \in connected_pawn_mask[x] /\ z \in connected_pawn_mask[x] => y = z
  <2> SUFFICES ASSUME NEW x \in P, NEW y \in P, NEW z \in P,
                      y \in connected_pawn_mask[x], z \in connected_pawn_mask[x]
               PROVE  y = z
    OBVIOUS
  <2> DEFINE A == connected_pawn_mask[x] \cap P
  <2>1. A \in SUBSET Squares /\ Cardinality(A) <= 1 /\ y \in A /\ z \in A
    OBVIOUS
  <2> HIDE DEF A
  <2> QED
    BY <2>1, OnlyOne
<1>2. ASSUME NEW x \in S, x \in P, Other(x) # {}
      PROVE  /\ Swap(x) \in P /\ Swap(x) \in connected_pawn_mask[x] /\ RNK(Swap(x)) # RNK(x)
             /\ x \in connected_pawn_mask[Swap(x)] /\ Swap(Swap(x)) = x
  <2> DEFINE y == Swap(x)
  <2>1. y \in Other(x)
    BY <1>2
  <2>2. y \in P /\ y \in connected_pawn_mask[x] /\ RNK(y) # RNK(x)
    BY <2>1
  <2> HIDE DEF y
  <2>3. x \in connected_pawn_mask[y]
    BY <2>2, NeighbourBack
  <2>4. x \in Other(y)
    BY <1>2, <2>2, <2>3
  <2>5. Swap(y) \in Other(y)
    BY <2>2, <2>4
  <2>6. Swap(y) \in P /\ Swap(y) \in connected_pawn_mask[y]
    BY <2>5
  <2> HIDE DEF Swap
  <2>7. Swap(y) = x
    BY <1>1, <1>2, <2>2, <2>3, <2>6
  <2> QED
    BY <2>2, <2>3, <2>7 DEF y
<1>3. ASSUME NEW x \in S, ~(x \in P /\ Other(x) # {})
      PROVE  Swap(x) = x
  BY <1>3
<1> HIDE DEF Swap
<1>4. \A x \in S : Swap(x) \in S /\ Swap(Swap(x)) = x
  BY <1>2, <1>3
<1>5. \A y \in T : Flip(y) \in S /\ Flip(Flip(y)) = y
  BY FlipFacts, MirrorsBack
<1>6. ASSUME NEW x \in S PROVE g[h[x]] = f[x]
  <2> DEFINE z == Swap(x)
  <2>1. /\ x \in Squares /\ z \in Squares /\ z \in S /\ Flip(z) \in T /\ Flip(z) \in Squares
        /\ h[x] = Flip(z)
    BY <1>4, FlipFacts DEF Mirrors
  <2>2. Close(Flip(z)) <=> z \in P /\ \E p \in P : Flip(p) > Flip(z) /\ p \in connected_pawn_mask[z]
    <3>1. Mirrors(connected_pawn_mask[z], connected_pawn_mask[Flip(z)])
      BY <2>1, MasksMirrored
    <3>2. Flip(z) \in Q <=> z \in P
      BY <2>1 DEF Mirrors
    <3>3. ASSUME NEW q \in Q PROVE Flip(q) \in P /\ Flip(Flip(q)) = q /\ Flip(q) \in Squares
      BY FlipFacts, MirrorsBack
    <3>4. ASSUME NEW p \in P PROVE Flip(p) \in Q /\ p \in Squares
      BY DEF Mirrors
    <3>5. ASSUME Close(Flip(z))
          PROVE  z \in P /\ \E p \in P : Flip(p) > Flip(z) /\ p \in connected_pawn_mask[z]
      <4>1. PICK q \in Q : q > Flip(z) /\ q \in connected_pawn_mask[Flip(z)]
        BY <3>5
      <4>2. Flip(q) \in P /\ Flip(Flip(q)) = q /\ Flip(q) \in Squares
        BY <3>3
      <4>3. Flip(q) \in connected_pawn_mask[z]
        BY <3>1, <4>1, <4>2 DEF Mirrors
      <4> QED
        BY <3>2, <3>5, <4>1, <4>2, <4>3
    <3>6. ASSUME z \in P, NEW p \in P, Flip(p) > Flip(z), p \in connected_pawn_mask[z]
          PROVE  Close(Flip(z))
      <4>1. Flip(p) \in Q /\ Flip(p) \in connected_pawn_mask[Flip(z)]
        BY <3>1, <3>4, <3>6 DEF Mirrors
      <4> QED
        BY <3>2, <3>6, <4>1
    <3> QED
      BY <3>5, <3>6
  <2>3. Close(Flip(z)) <=> Near(x)
    <3>1. CASE x \in P /\ Other(x) # {}
      <4>1. /\ z \in P /\ z \in connected_pawn_mask[x] /\ RNK(z) # RNK(x)
            /\ x \in connected_pawn_mask[z]
        BY <1>2, <3>1
      <4>2. Near(x) <=> z > x
        BY <1>1, <3>1, <4>1
      <4>3. Close(Flip(z)) <=> Flip(x) > Flip(z)
        <5>1. \A p \in P : p \in connected_pawn_mask[z] => p = x
          BY <1>1, <3>1, <4>1
        <5> QED
          BY <2>2, <3>1, <4>1, <5>1
      <4>4. Flip(x) > Flip(z) <=> z > x
        BY <2>1, <4>1, FlipPairs
      <4> QED
        BY <4>2, <4>3, <4>4
    <3>2. CASE ~(x \in P /\ Other(x) # {})
      <4>1. z = x
        BY <1>3, <3>2
      <4>2. ASSUME x \in P, NEW p \in P, p \in connected_pawn_mask[x]
            PROVE  Flip(p) > Flip(x) <=> p > x
        <5>1. RNK(p) = RNK(x)
          BY <3>2, <4>2
        <5> QED
          BY <2>1, <5>1, FlipPairs
      <4> HIDE DEF Close
      <4>3. Close(Flip(z)) <=> x \in P /\ \E p \in P : Flip(p) > Flip(x) /\ p \in connected_pawn_mask[x]
        BY <2>2, <4>1
      <4> QED
        BY <4>2, <4>3
    <3> QED
      BY <3>1, <3>2
  <2>4. g[h[x]] = Bonus(Close(Flip(z)), 20) /\ f[x] = Bonus(Near(x), 20)
    BY <2>1
  <2> HIDE DEF Close, Near, g, f, h
  <2> QED
    BY <2>3, <2>4 DEF Bonus
<1>7. IsFiniteSet(S) /\ IsFiniteSet(T)
  BY FS_Interval, FS_Subset, 0 \in Int, 63 \in Int DEF Squares
<1>8. f \in [S -> Int] /\ g \in [T -> Int]
  BY DEF Bonus
<1>9. h \in [S -> T] /\ \A x \in S : h[x] = Flip(Swap(x))
  BY <1>4 DEF Mirrors
<1> HIDE DEF h, f, g
<1>10. ASSUME NEW x \in S, NEW y \in S, h[x] = h[y] PROVE x = y
  <2>1. Flip(Swap(x)) = Flip(Swap(y)) /\ Swap(x) \in Squares /\ Swap(y) \in Squares
    BY <1>4, <1>9, <1>10
  <2>2. Swap(x) = Swap(y)
    BY <2>1, FlipPairs
  <2> QED
    BY <1>4, <2>2
<1>11. ASSUME NEW z \in T PROVE \E x \in S : z = h[x]
  <2>1. /\ Flip(z) \in S /\ Flip(Flip(z)) = z /\ Swap(Flip(z)) \in S
        /\ Swap(Swap(Flip(z))) = Flip(z)
    BY <1>4, <1>5
  <2>2. h[Swap(Flip(z))] = z
    BY <1>9, <2>1
  <2> QED
    BY <2>1, <2>2
<1>12. SumFunction(g) = SumFunction(f)
  BY <1>6, <1>7, <1>8, <1>9, <1>10, <1>11, SumMoved
<1> QED
  BY <1>12 DEF f, g

LEMMA PawnsMirrored ==
  ASSUME NEW b \in Boards, Consistent(b), AtMostPairs(b), NEW c \in Colors, NEW phase \in Phases
  PROVE  score_pawns(Mirror(b), phase, XSIDE(c)) = score_pawns(b, phase, c)
<1> DEFINE m == Mirror(b)
           d == XSIDE(c)
           S == b.position[c][PAWN]
           T == m.position[d][PAWN]
           P == Passed(b, c)
           Q == Passed(m, d)
           Away(s, sq) == 80 \div Abs(Rank8(s) - RNK(sq))
           Base(a, s, sq) == pawn_scores[phase][TableSquare(s, sq) + 1]
                               + Bonus(isolated_pawn(a, s, sq), -10)
                               + Bonus(sq \in Passed(a, s), 25 + Away(s, sq))
           Known(s, sq) == pawn_scores[phase][TableSquare(s, sq) + 1] \in Int /\ Away(s, sq) \in Int
           Pair(a, s, sq) == Bonus(sq \in Passed(a, s) /\ \E pp \in Passed(a, s) :
                                     pp > sq /\ pp \in connected_pawn_mask[sq], 20)
           f == [x \in S |-> Base(b, c, x)]
           g == [y \in T |-> Base(m, d, y)]
           i == [x \in S |-> Bonus(x \in P /\ \E p \in P : p > x /\ p \in connected_pawn_mask[x], 20)]
           j == [y \in T |-> Bonus(y \in Q /\ \E q \in Q : q > y /\ q \in connected_pawn_mask[y], 20)]
           Score(a, s) == [sq \in a.position[s][PAWN] |->
                              pawn_scores[phase][TableSquare(s, sq) + 1]
                                + Bonus(isolated_pawn(a, s, sq), -10)
                                + Bonus(sq \in Passed(a, s), score_passed(a, s, sq))]
           Doubled(a, s) == {k \in 0 .. 7 : Cardinality(a.position[s][PAWN] \cap file[k]) > 1}
<1>1. score_pawns(b, phase, c) = SumFunction(Score(b, c)) - 5 * Cardinality(Doubled(b, c))
  BY DEF score_pawns
<1>2. score_pawns(m, phase, d) = SumFunction(Score(m, d)) - 5 * Cardinality(Doubled(m, d))
  BY DEF score_pawns
<1>3. /\ Reflected(S, T) /\ Reflected(P, Q) /\ S \in SUBSET Squares /\ T \in SUBSET Squares
      /\ Mirrors(S, T) /\ d \in Colors
  BY MenMirrored, PassedMirrored, PieceNames DEF Reflected
<1>4. P \in SUBSET S /\ Q \in SUBSET T /\ Mirrors(P, Q)
  BY <1>3 DEF Passed, Reflected
<1>5. Doubled(m, d) = Doubled(b, c)
  <2>1. ASSUME NEW k \in 0 .. 7 PROVE Cardinality(T \cap file[k]) = Cardinality(S \cap file[k])
    <3>1. Reflected(S \cap file[k], T \cap file[k])
      BY <1>3, FilesMirrored DEF Reflected, Mirrors
    <3> QED
      BY <3>1, ReflectedCount
  <2> QED
    BY <2>1
<1>6. \A x \in S : f[x] \in Int /\ g[Flip(x)] = f[x] /\ Known(c, x) /\ Known(d, Flip(x))
  <2> SUFFICES ASSUME NEW x \in S
               PROVE  f[x] \in Int /\ g[Flip(x)] = f[x] /\ Known(c, x) /\ Known(d, Flip(x))
    OBVIOUS
  <2>1. x \in Squares /\ Flip(x) \in T /\ Flip(x) \in Squares
    BY <1>3, FlipFacts DEF Mirrors
  <2> HIDE DEF m, d
  <2>2. /\ pawn_scores[phase][TableSquare(d, Flip(x)) + 1] = pawn_scores[phase][TableSquare(c, x) + 1]
        /\ pawn_scores[phase][TableSquare(c, x) + 1] \in Int
    <3>1. TableSquare(d, Flip(x)) = TableSquare(c, x)
      BY <2>1, TablesMirrored DEF d
    <3>2. TableSquare(c, x) + 1 \in 1 .. 64
      <4>1. x \in 0 .. 63 /\ RNK(x) \in 0 .. 7 /\ FIL(x) \in 0 .. 7
        BY <2>1, RankOf DEF Squares
      <4> QED
        BY <4>1 DEF TableSquare, SQUARE
    <3> QED
      BY <3>1, <3>2, TablesTyped
  <2>3. isolated_pawn(m, d, Flip(x)) <=> isolated_pawn(b, c, x)
    <3>1. Mirrors(isolated_pawn_mask[x], isolated_pawn_mask[Flip(x)])
      BY <2>1, MasksMirrored
    <3>2. Reflected(isolated_pawn_mask[x] \cap S, isolated_pawn_mask[Flip(x)] \cap T)
      BY <1>3, <3>1 DEF Reflected, Mirrors
    <3>3. isolated_pawn_mask[Flip(x)] \cap T = {} <=> isolated_pawn_mask[x] \cap S = {}
      BY <3>2, ReflectedCount
    <3> QED
      BY <3>3 DEF isolated_pawn
  <2>4. Away(d, Flip(x)) = Away(c, x) /\ Away(c, x) \in Int
    <3> DEFINE n == Abs(Rank8(c) - RNK(x))
    <3>1. RNK(Flip(x)) = 7 - RNK(x) /\ RNK(x) \in 0 .. 7 /\ Rank8(d) = 7 - Rank8(c) /\ Rank8(c) \in {0, 7}
      BY <2>1, FlipFacts, RankOf, HomeMirrored DEF d, Rank8
    <3>2. Abs(Rank8(d) - RNK(Flip(x))) = n
      BY <3>1 DEF Abs
    <3>3. RNK(x) # 0 /\ RNK(x) # 7
      <4>1. x \notin rank[0] /\ x \notin rank[7]
        BY DEF Consistent, PawnsWithin
      <4> QED
        BY <2>1, <4>1, RankOf
    <3>4. n \in Nat /\ n > 0
      BY <3>1, <3>3 DEF Abs
    <3> HIDE DEF n
    <3>5. 80 \div n \in Int
      BY <3>4
    <3> QED
      BY <3>2, <3>5 DEF n
  <2>5. Flip(x) \in Q <=> x \in P
    BY <1>4, <2>1 DEF Mirrors
  <2>6. /\ f[x] = pawn_scores[phase][TableSquare(c, x) + 1] + Bonus(isolated_pawn(b, c, x), -10)
                    + Bonus(x \in P, 25 + Away(c, x))
        /\ g[Flip(x)] = pawn_scores[phase][TableSquare(d, Flip(x)) + 1]
                    + Bonus(isolated_pawn(m, d, Flip(x)), -10)
                    + Bonus(Flip(x) \in Q, 25 + Away(d, Flip(x)))
    BY <2>1
  <2> HIDE DEF f, g, P, Q, Away
  <2>7. /\ Bonus(isolated_pawn(m, d, Flip(x)), -10) = Bonus(isolated_pawn(b, c, x), -10)
        /\ Bonus(isolated_pawn(b, c, x), -10) \in Int
    BY <2>3 DEF Bonus
  <2>8. /\ Bonus(Flip(x) \in Q, 25 + Away(d, Flip(x))) = Bonus(x \in P, 25 + Away(c, x))
        /\ Bonus(x \in P, 25 + Away(c, x)) \in Int
    BY <2>4, <2>5 DEF Bonus
  <2>9. Known(c, x) /\ Known(d, Flip(x))
    BY <2>2, <2>4
  <2> HIDE DEF Known
  <2>10. f[x] \in Int /\ g[Flip(x)] = f[x]
    <3> DEFINE t == pawn_scores[phase][TableSquare(c, x) + 1]
               u == Bonus(isolated_pawn(b, c, x), -10)
               v == Bonus(x \in P, 25 + Away(c, x))
    <3>1. t \in Int /\ u \in Int /\ v \in Int /\ f[x] = t + u + v /\ g[Flip(x)] = t + u + v
      BY <2>2, <2>6, <2>7, <2>8
    <3> HIDE DEF t, u, v
    <3> QED
      BY <3>1
  <2> QED
    BY <2>9, <2>10
<1>7. \A y \in T : g[y] \in Int /\ Known(d, y)
  <2>1. \A y \in T : Flip(y) \in S /\ Flip(Flip(y)) = y
    BY <1>3, FlipFacts, MirrorsBack
  <2> HIDE DEF f, g, S, T, Known
  <2>2. \A y \in T : g[Flip(Flip(y))] \in Int /\ Known(d, Flip(Flip(y)))
    BY <1>6, <2>1
  <2> QED
    BY <2>1, <2>2
<1>8. SumFunction(g) = SumFunction(f)
  <2>1. f \in [S -> Int] /\ g = [y \in T |-> g[y]] /\ \A x \in S : g[Flip(x)] = f[x]
    BY <1>6
  <2> HIDE DEF f, g, S, T
  <2> QED
    BY <1>3, <2>1, FlipSum
<1>9. SumFunction(j) = SumFunction(i)
  <2>1. \A x \in P : Cardinality(connected_pawn_mask[x] \cap P) <= 1
    BY DEF AtMostPairs
  <2> HIDE DEF S, T, P, Q
  <2> QED
    BY <1>3, <1>4, <2>1, PairsMirrored
<1>10. ASSUME NEW a, NEW s, NEW sq \in a.position[s][PAWN], Known(s, sq)
       PROVE  Score(a, s)[sq] = Base(a, s, sq) + Pair(a, s, sq) /\ Score(a, s)[sq] \in Int
  <2> DEFINE t == pawn_scores[phase][TableSquare(s, sq) + 1]
             u == Bonus(isolated_pawn(a, s, sq), -10)
             w == Away(s, sq)
             p == sq \in Passed(a, s)
             e == \E pp \in Passed(a, s) : pp > sq /\ pp \in connected_pawn_mask[sq]
  <2>1. Score(a, s)[sq] = t + u + Bonus(p, score_passed(a, s, sq))
    OBVIOUS
  <2>2. score_passed(a, s, sq) = 25 + w + Bonus(e, 20)
    BY DEF score_passed
  <2>3. Base(a, s, sq) = t + u + Bonus(p, 25 + w) /\ Pair(a, s, sq) = Bonus(p /\ e, 20)
    OBVIOUS
  <2>4. t \in Int /\ u \in Int /\ w \in Int
    BY <1>10 DEF Bonus
  <2> HIDE DEF t, u, w, p, e, Score, Base, Pair
  <2>5. /\ Bonus(p, 25 + w + Bonus(e, 20)) = Bonus(p, 25 + w) + Bonus(p /\ e, 20)
        /\ Bonus(p, 25 + w) \in Int /\ Bonus(p /\ e, 20) \in Int
    BY <2>4 DEF Bonus
  <2> QED
    BY <2>1, <2>2, <2>3, <2>4, <2>5
<1>11. SumFunction(Score(b, c)) = SumFunction(f) + SumFunction(i)
  <2> DEFINE e == Score(b, c)
  <2>1. \A x \in S : e[x] = f[x] + i[x] /\ e[x] \in Int /\ f[x] \in Int /\ i[x] \in Int
    <3> SUFFICES ASSUME NEW x \in S
                 PROVE  e[x] = f[x] + i[x] /\ e[x] \in Int /\ f[x] \in Int /\ i[x] \in Int
      OBVIOUS
    <3>1. Known(c, x) /\ f[x] \in Int
      BY <1>6
    <3>2. f[x] = Base(b, c, x) /\ i[x] = Pair(b, c, x)
      OBVIOUS
    <3>3. i[x] \in Int
      BY DEF Bonus
    <3> HIDE DEF f, i, Base, Pair, Known, Score
    <3>4. e[x] = Base(b, c, x) + Pair(b, c, x) /\ e[x] \in Int
      BY <1>10, <3>1
    <3> QED
      BY <3>1, <3>2, <3>3, <3>4
  <2>2. e = [x \in S |-> e[x]] /\ f = [x \in S |-> f[x]] /\ i = [x \in S |-> i[x]]
    OBVIOUS
  <2>3. IsFiniteSet(S)
    BY <1>3, FS_Interval, FS_Subset, 0 \in Int, 63 \in Int DEF Squares
  <2> HIDE DEF e, f, i, S
  <2>4. e \in [S -> Int] /\ f \in [S -> Int] /\ i \in [S -> Int]
    BY <2>1, <2>2
  <2>5. SumFunction(e) = SumFunction(f) + SumFunction(i)
    BY <2>1, <2>3, <2>4, SumAdded
  <2> QED
    BY <2>5 DEF e
<1>12. SumFunction(Score(m, d)) = SumFunction(g) + SumFunction(j)
  <2> DEFINE e == Score(m, d)
  <2>1. \A y \in T : e[y] = g[y] + j[y] /\ e[y] \in Int /\ g[y] \in Int /\ j[y] \in Int
    <3> SUFFICES ASSUME NEW y \in T
                 PROVE  e[y] = g[y] + j[y] /\ e[y] \in Int /\ g[y] \in Int /\ j[y] \in Int
      OBVIOUS
    <3>1. Known(d, y) /\ g[y] \in Int
      BY <1>7
    <3>2. g[y] = Base(m, d, y) /\ j[y] = Pair(m, d, y)
      OBVIOUS
    <3>3. j[y] \in Int
      BY DEF Bonus
    <3> HIDE DEF g, j, Base, Pair, Known, Score
    <3>4. e[y] = Base(m, d, y) + Pair(m, d, y) /\ e[y] \in Int
      BY <1>10, <3>1
    <3> QED
      BY <3>1, <3>2, <3>3, <3>4
  <2>2. e = [y \in T |-> e[y]] /\ g = [y \in T |-> g[y]] /\ j = [y \in T |-> j[y]]
    OBVIOUS
  <2>3. IsFiniteSet(T)
    BY <1>3, FS_Interval, FS_Subset, 0 \in Int, 63 \in Int DEF Squares
  <2> HIDE DEF e, g, j, T
  <2>4. e \in [T -> Int] /\ g \in [T -> Int] /\ j \in [T -> Int]
    BY <2>1, <2>2
  <2>5. SumFunction(e) = SumFunction(g) + SumFunction(j)
    BY <2>1, <2>3, <2>4, SumAdded
  <2> QED
    BY <2>5 DEF e
<1> HIDE DEF Score, Doubled, f, g, i, j
<1>13. score_pawns(m, phase, d) = score_pawns(b, phase, c)
  BY <1>1, <1>2, <1>5, <1>8, <1>9, <1>11, <1>12
<1> QED
  BY <1>13 DEF m, d

-----------------------------------------------------------------------------
(***************************************************************************)
(* The same position with colours and ranks exchanged: the score.           *)
(***************************************************************************)
LEMMA ValueMirrored ==
  ASSUME NEW b \in Boards, Consistent(b), AtMostPairs(b)
  PROVE  Balance(Mirror(b)) = Balance(b) /\ Value(Mirror(b)) = Value(b)
<1> DEFINE m == Mirror(b)
           s == b.side
           phase == get_phase(b)
           p == FreshPawns(b)
           q == FreshPawns(m)
<1>1. /\ m \in Boards /\ m.side = XSIDE(s) /\ XSIDE(m.side) = s
      /\ s \in Colors /\ XSIDE(s) \in Colors /\ XSIDE(XSIDE(s)) = s
      /\ \A c \in Colors : XSIDE(c) \in Colors /\ m.material[XSIDE(c)] = b.material[c]
  <2>1. s \in Colors
    BY DEF Boards
  <2>2. \A c \in Colors : XSIDE(c) \in Colors /\ XSIDE(XSIDE(c)) = c
    BY DEF Colors, WHITE, BLACK, XSIDE
  <2>3. m \in Boards /\ m.side = XSIDE(s) /\ \A c \in Colors : m.material[XSIDE(c)] = b.material[c]
    BY MirrorIs
  <2> QED
    BY <2>1, <2>2, <2>3
<1>2. get_phase(m) = phase /\ phase \in Phases
  <2>1. m.material[BLACK] = b.material[WHITE] /\ m.material[WHITE] = b.material[BLACK]
    BY <1>1 DEF Colors, XSIDE, WHITE, BLACK
  <2>2. b.material[WHITE] \in Int /\ b.material[BLACK] \in Int
    BY DEF Boards, Colors
  <2>3. m.material[WHITE] + m.material[BLACK] = b.material[WHITE] + b.material[BLACK]
    BY <2>1, <2>2
  <2> HIDE DEF m
  <2> QED
    BY <2>3 DEF get_phase, Phases
<1>3. PawnsAre(b, phase, p) /\ PawnsAre(m, phase, q)
  <2> HIDE DEF m
  <2> QED
    BY <1>1, <1>2, FreshFacts
<1>4. \A c \in Colors : Given(m, phase, q, XSIDE(c)) = Given(b, phase, p, c)
  <2> SUFFICES ASSUME NEW c \in Colors
               PROVE  Given(m, phase, q, XSIDE(c)) = Given(b, phase, p, c)
    OBVIOUS
  <2> DEFINE d == XSIDE(c)
  <2>1. /\ p.score[c] = score_pawns(b, phase, c) /\ p.passed[c] = Passed(b, c)
        /\ q.score[d] = score_pawns(m, phase, d) /\ q.passed[d] = Passed(m, d)
    BY <1>1, <1>3 DEF PawnsAre
  <2>2. score_pawns(m, phase, d) = score_pawns(b, phase, c)
    BY <1>2, PawnsMirrored
  <2>3. score_rooks(m, phase, Passed(m, d), d) = score_rooks(b, phase, Passed(b, c), c)
    BY <1>2, PassedMirrored, RooksMirrored
  <2>4. /\ score_knights(m, d) = score_knights(b, c) /\ score_bishops(m, d) = score_bishops(b, c)
        /\ score_queens(m, d) = score_queens(b, c) /\ score_combo(m, d) = score_combo(b, c)
    BY PiecesMirrored
  <2>5. /\ score_king(m, phase, d) = score_king(b, phase, c)
        /\ score_devel(m, phase, d) = score_devel(b, phase, c)
    BY <1>2, KingMirrored, DevelopmentMirrored
  <2> HIDE DEF m, d, phase, p, q
  <2> QED
    BY <2>1, <2>2, <2>3, <2>4, <2>5 DEF Given, d
<1>5. \A c \in Colors : score_control(m, XSIDE(c)) = score_control(b, c)
  BY PiecesMirrored
<1>6. \A a, ps : a.side \in Colors =>
        Phase1(a, phase, ps) = Given(a, phase, ps, a.side) - Given(a, phase, ps, XSIDE(a.side))
  <2> SUFFICES ASSUME NEW a, NEW ps, a.side \in Colors
               PROVE  Phase1(a, phase, ps) = Given(a, phase, ps, a.side) - Given(a, phase, ps, XSIDE(a.side))
    OBVIOUS
  <2>1. XSIDE(a.side) \in Colors
    BY <1>1
  <2> QED
    BY <2>1 DEF Phase1, Given, Difference
<1>7. \A a : a.side \in Colors =>
        Phase2(a) = score_control(a, a.side) - score_control(a, XSIDE(a.side))
  <2> SUFFICES ASSUME NEW a, a.side \in Colors
               PROVE  Phase2(a) = score_control(a, a.side) - score_control(a, XSIDE(a.side))
    OBVIOUS
  <2>1. XSIDE(a.side) \in Colors
    BY <1>1
  <2> QED
    BY <2>1 DEF Phase2, Difference
<1> HIDE DEF m, s, phase, p, q
<1>8. Phase1(m, phase, q) = Phase1(b, phase, p)
  <2>1. Phase1(b, phase, p) = Given(b, phase, p, s) - Given(b, phase, p, XSIDE(s))
    BY <1>1, <1>6 DEF s
  <2>2. Phase1(m, phase, q) = Given(m, phase, q, XSIDE(s)) - Given(m, phase, q, s)
    BY <1>1, <1>6
  <2>3. /\ Given(m, phase, q, XSIDE(s)) = Given(b, phase, p, s)
        /\ Given(m, phase, q, s) = Given(b, phase, p, XSIDE(s))
    BY <1>1, <1>4
  <2> QED
    BY <2>1, <2>2, <2>3
<1>9. Phase2(m) = Phase2(b)
  <2>1. Phase2(b) = score_control(b, s) - score_control(b, XSIDE(s))
    BY <1>1, <1>7 DEF s
  <2>2. Phase2(m) = score_control(m, XSIDE(s)) - score_control(m, s)
    BY <1>1, <1>7
  <2>3. /\ score_control(m, XSIDE(s)) = score_control(b, s)
        /\ score_control(m, s) = score_control(b, XSIDE(s))
    BY <1>1, <1>5
  <2> QED
    BY <2>1, <2>2, <2>3
<1>10. Balance(m) = Balance(b)
  <2>1. m.material[XSIDE(s)] = b.material[s] /\ m.material[s] = b.material[XSIDE(s)]
    BY <1>1
  <2> QED
    BY <1>1, <2>1 DEF Balance, s
<1>11. /\ Value(b) = Balance(b) + (Phase1(b, phase, p)
                       + Bonus(Abs(Phase1(b, phase, p)) <= EVAL_CUTOFF_PHASE1, Phase2(b)))
       /\ Value(m) = Balance(m) + (Phase1(m, phase, q)
                       + Bonus(Abs(Phase1(m, phase, q)) <= EVAL_CUTOFF_PHASE1, Phase2(m)))
  BY <1>2 DEF Value, Positional, Refined, phase, p, q
<1> QED
  BY <1>8, <1>9, <1>10, <1>11 DEF m

\* With the widest window and empty caches.
LEMMA FreshIs ==
  ASSUME NEW b \in Boards
  PROVE  Fresh(b) = IF CutOff(b, <<-INFTY, INFTY>>) THEN Balance(b) ELSE Value(b)
<1> DEFINE all == <<-INFTY, INFTY>>
           at == [NoEvaluation EXCEPT !.window = all]
           r == eval(NoEvaluation, b, all)
<1>1. Fresh(b) = r.score
  BY DEF Fresh
<1>2. CASE CutOff(b, all)
  BY <1>1, <1>2 DEF eval, NoEvaluation
<1>3. CASE ~CutOff(b, all)
  <2>1. NoEvaluation.evalcache = EmptyTable /\ at.pawnhash = EmptyTable
    BY DEF NoEvaluation
  <2>2. Probe(EmptyTable, b) = {}
    BY FreshFacts
  <2>3. r = Worked(at, b, FreshPawns(b))
    BY <1>3, <2>1, <2>2 DEF eval, Looked, FreshPawns
  <2>4. r = Scored(at, b, FreshPawns(b), Value(b))
    BY <2>3 DEF Worked, Value
  <2> HIDE DEF r
  <2>5. r.score = Value(b)
    BY <2>4 DEF Scored, NoEvaluation
  <2> QED
    BY <1>1, <1>3, <2>5
<1> QED
  BY <1>2, <1>3

\* The evaluation favours neither colour: on every board that moves lead to, at
\* every phase of the game, the position with the colours exchanged has the same
\* score for the side to move, unless a passed pawn has more than one passed
\* neighbour.
THEOREM ColoursAreEqual == ESpec => []EvalMirrored
<1>1. EInit => IncrementalStateExact
  BY OpeningsAssumption DEF EInit, Init, IncrementalStateExact, TypeOK
<1>2. IncrementalStateExact /\ [ENext]_evars => IncrementalStateExact'
  <2> SUFFICES ASSUME IncrementalStateExact, [ENext]_evars PROVE IncrementalStateExact'
    OBVIOUS
  <2>1. CASE ENext
    BY <2>1, BoardStep DEF ENext, Next
  <2>2. CASE UNCHANGED evars
    BY <2>2 DEF evars, IncrementalStateExact, TypeOK
  <2> QED
    BY <2>1, <2>2
<1>3. IncrementalStateExact => EvalMirrored
  <2> SUFFICES ASSUME IncrementalStateExact, AtMostPairs(board)
               PROVE  Fresh(Mirror(board)) = Fresh(board)
    BY DEF EvalMirrored
  <2>1. board \in Boards /\ Consistent(board)
    BY DEF IncrementalStateExact, TypeOK
  <2>2. Balance(Mirror(board)) = Balance(board) /\ Value(Mirror(board)) = Value(board)
    BY <2>1, ValueMirrored
  <2>3. Mirror(board) \in Boards
    BY <2>1, MirrorIs
  <2>4. \A w : CutOff(Mirror(board), w) <=> CutOff(board, w)
    BY <2>2 DEF CutOff
  <2> QED
    BY <2>1, <2>2, <2>3, <2>4, FreshIs
<1> QED
  BY <1>1, <1>2, <1>3, PTL DEF ESpec
==============================================================================
