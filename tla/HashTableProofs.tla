--------------------------- MODULE HashTableProofs --------------------------
(* Proofs about HashTable, for any threads, slots, lock domains and positions. *)
EXTENDS HashTable, TLAPS

-----------------------------------------------------------------------------
(* The inductive invariant. *)

\* What an entry claims of its position is true at every distance from the root.
Claim(p, e) == \A v \in Value[p][e.depth] :
  /\ e.type = "EXACT" => v = e.score
  /\ e.type = "ALPHA" => v <= e.score
  /\ e.type = "BETA" => v >= e.score

\* ... unless it is of one of the three kinds that may claim something else.
Sound(e) ==
  e.type # "NONE" =>
    \E p \in Positions :
      /\ e.key = Key[p]
      /\ e.origin = "search" => e.depth \in 0 .. MaxDepth /\ Claim(p, e)

\* The arguments of put() and probe().
Puts == {c \in [op: {"put"}, pos: Positions, line: BOOLEAN, entry: Entries] :
           c.entry.key = Key[c.pos] /\ c.entry.type # "NONE" /\ Sound(c.entry)}
Probes == {c \in [op: {"probe"}, pos: Positions, depth: 0 .. MaxDepth, alpha: Int, beta: Int] :
             <<c.alpha, c.beta>> \in Windows}

Putting == {"put", "put_score", "put_line"}
Probing == {"probe", "probe_entry"}
Locking == Putting \union Probing \union {"unlock"}

\* Where a thread is in its call, and that it holds the lock there.
CallInv == \A t \in Threads :
  /\ pc[t] # "idle" => call[t] \in Puts \union Probes
  /\ pc[t] \in Putting => call[t] \in Puts
  /\ pc[t] \in Probing => call[t] \in Probes
  /\ pc[t] \in Locking => spinlock[Domain(call[t].pos)] = t

\* A put() has written the first half of its entry, or all of it.
PutInv == \A t \in Threads :
  /\ pc[t] \in {"put_score", "put_line"} =>
       /\ table[SlotOf(t)].key = call[t].entry.key
       /\ table[SlotOf(t)].depth = call[t].entry.depth
  /\ pc[t] = "put_line" => table[SlotOf(t)] = call[t].entry

\* An entry is sound unless it is being written, and its line belongs to it.
SlotInv == \A k \in Slots :
  /\ Sound(table[k]) \/ \E t \in Threads : pc[t] = "put_score" /\ SlotOf(t) = k
  /\ \/ table[k].type = "NONE"
     \/ pvtable[k] = NoLine
     \/ pvtable[k] = [key |-> table[k].key, depth |-> table[k].depth]
     \/ \E t \in Threads : pc[t] \in {"put_score", "put_line"} /\ SlotOf(t) = k

\* What a probe has copied is sound, of its position, and belongs together.
CopyInv == \A t \in Threads :
  /\ Sound(copy[t])
  /\ pc[t] \notin {"unlock", "done"} => copy[t] = NoEntry
  /\ copy[t].type # "NONE" =>
       /\ copy[t].key = Key[call[t].pos]
       /\ line[t] = NoLine \/ line[t] = [key |-> copy[t].key, depth |-> copy[t].depth]
  /\ pc[t] = "probe_entry" =>
       /\ table[SlotOf(t)].type # "NONE" /\ table[SlotOf(t)].key = Key[call[t].pos]
       /\ \/ line[t] = NoLine
          \/ line[t] = [key |-> table[SlotOf(t)].key, depth |-> table[SlotOf(t)].depth]

Shapes ==
  /\ TypeOK
  /\ call = [t \in Threads |-> call[t]]

IInv == Shapes /\ CallInv /\ PutInv /\ SlotInv /\ CopyInv

-----------------------------------------------------------------------------
(* Scores. *)

\* Whatever is stored has the types of an entry.
LEMMA EntryTypes ==
  ASSUME NEW p \in Positions, NEW d \in -1 .. MaxDepth, NEW w \in Windows, NEW s \in Int,
         NEW origin \in {"search", "fixme", "negative", "slave"}
  PROVE  /\ EntryOf(p, d, w, s, origin) \in Entries
         /\ EntryOf(p, d, w, s, origin).type # "NONE"
         /\ EntryOf(p, d, w, s, origin).key = Key[p]
         /\ EntryOf(p, d, w, s, origin).origin = origin
<1>1. Mate \in Nat /\ Key[p] \in Int /\ DepthRange \in Nat \ {0} /\ MaxDepth \in Nat
  BY HashAssumption
<1>2. Stored(s, w[1], w[2]).type \in {"EXACT", "ALPHA", "BETA"} /\ Stored(s, w[1], w[2]).score \in Int
  BY <1>1 DEF Stored
<1>3. StoredDepth(d) \in 0 .. DepthRange - 1
  BY <1>1 DEF StoredDepth
<1> QED
  BY <1>1, <1>2, <1>3 DEF EntryOf, Entries

\* The entry that store_hashtable() makes of a node's score claims the truth, outside
\* the cases of its FIXME.
LEMMA StoredSound ==
  ASSUME NEW p \in Positions, NEW d \in 0 .. MaxDepth, NEW w \in Windows,
         NEW v \in Value[p][d], NEW s \in Scores, Result(s, v, w[1], w[2]), ~FailAtMate(s, w),
         NEW origin
  PROVE  /\ EntryOf(p, d, w, s, origin).depth = d
         /\ Claim(p, EntryOf(p, d, w, s, origin))
<1> DEFINE e == EntryOf(p, d, w, s, origin)
<1>1. StoredDepth(d) = d
  <2>1. MaxDepth \in Nat /\ DepthRange \in Nat /\ MaxDepth < DepthRange
    BY HashAssumption
  <2>2. d % DepthRange = d
    BY <2>1
  <2> QED
    BY <2>2 DEF StoredDepth
<1>2. /\ w = <<w[1], w[2]>> /\ w[1] \in Int /\ w[2] \in Int /\ w[1] < w[2]
      /\ ~(w[1] >= s /\ s >= Mate) /\ ~(-Mate >= s /\ s >= w[2])
      /\ Mate \in Nat \ {0} /\ s \in Int
  BY HashAssumption DEF FailAtMate
<1>3. v \in Value[p][d] /\ v \in Int /\ \A u \in Value[p][d] : u \in Int
  <2>1. Value[p][d] \in SUBSET Scores
    BY <1>1, HashAssumption
  <2> QED
    BY <1>1, <2>1, HashAssumption
<1>4. /\ e.key = Key[p] /\ e.depth = d
      /\ e.type = Stored(s, w[1], w[2]).type /\ e.score = Stored(s, w[1], w[2]).score
  BY <1>1 DEF EntryOf
<1>5. \/ \A u \in Value[p][d] : u >= Mate
      \/ \A u \in Value[p][d] : u <= -Mate
      \/ v < Mate /\ v > -Mate /\ \A u \in Value[p][d] : u = v
  <2>1. \/ \A u \in Value[p][d] : u >= Mate
        \/ \A u \in Value[p][d] : u <= -Mate
        \/ \E x \in Scores : Value[p][d] = {x} /\ x < Mate /\ x > -Mate
    BY <1>1, HashAssumption
  <2> QED
    BY <1>3, <2>1
<1>8. /\ s <= w[1] => v <= s
      /\ s >= w[2] => v >= s
      /\ w[1] < s /\ s < w[2] => s = v
  BY <1>2, <1>3 DEF Result, Bound
<1>9. ASSUME NEW u \in Value[p][d]
      PROVE  /\ e.type = "EXACT" => u = e.score
             /\ e.type = "ALPHA" => u <= e.score
             /\ e.type = "BETA" => u >= e.score
  <2> HIDE DEF e
  <2>1. u \in Int
    BY <1>3
  <2>2. \/ u >= Mate /\ v >= Mate
        \/ u <= -Mate /\ v <= -Mate
        \/ u = v /\ v < Mate /\ v > -Mate
    BY <1>3, <1>5
  <2>3. Stored(s, w[1], w[2]).type = "EXACT" =>
          s = v /\ -Mate < s /\ s < Mate /\ Stored(s, w[1], w[2]).score = s
    BY <1>2, <1>8 DEF Stored
  <2>4. Stored(s, w[1], w[2]).type = "ALPHA" =>
          \/ s <= -Mate /\ v <= s /\ Stored(s, w[1], w[2]).score = -Mate
          \/ s > -Mate /\ v <= s /\ s < Mate /\ Stored(s, w[1], w[2]).score = s
    BY <1>2, <1>3, <1>8 DEF Stored
  <2>5. Stored(s, w[1], w[2]).type = "BETA" =>
          \/ s >= Mate /\ v >= s /\ Stored(s, w[1], w[2]).score = Mate
          \/ s > -Mate /\ v >= s /\ s < Mate /\ Stored(s, w[1], w[2]).score = s
    BY <1>2, <1>3, <1>8 DEF Stored
  <2> QED
    BY <1>2, <1>3, <1>4, <2>1, <2>2, <2>3, <2>4, <2>5
<1> QED
  BY <1>4, <1>9 DEF Claim

\* What a search puts is sound.
LEMMA PutSound ==
  ASSUME NEW p \in Positions, NEW d \in Depths, NEW w \in Windows,
         NEW v \in Value[p][Searched(d)], NEW s \in Scores, Result(s, v, w[1], w[2])
  PROVE  LET e == EntryOf(p, d, w, s, OriginOf(d, w, s)) IN
         e \in Entries /\ e.type # "NONE" /\ e.key = Key[p] /\ Sound(e)
<1> DEFINE e == EntryOf(p, d, w, s, OriginOf(d, w, s))
<1>1. d \in -1 .. MaxDepth /\ s \in Int /\ MaxDepth \in Nat
  BY HashAssumption DEF Depths
<1>2. OriginOf(d, w, s) \in {"search", "fixme", "negative", "slave"}
  BY DEF OriginOf
<1>3. e \in Entries /\ e.type # "NONE" /\ e.key = Key[p] /\ e.origin = OriginOf(d, w, s)
  BY <1>1, <1>2, EntryTypes
<1>4. ASSUME e.origin = "search" PROVE e.depth \in 0 .. MaxDepth /\ Claim(p, e)
  <2>1. ~(d < 0) /\ ~FailAtMate(s, w)
    BY <1>3, <1>4 DEF OriginOf
  <2>2. d \in 0 .. MaxDepth /\ v \in Value[p][d]
    BY <1>1, <2>1 DEF Searched
  <2> QED
    BY <2>1, <2>2, StoredSound
<1> QED
  BY <1>3, <1>4 DEF Sound

\* What parallel_search() puts for a slave is an entry; nothing is said of its score.
LEMMA PutSlaveSound ==
  ASSUME NEW p \in Positions, NEW d \in 0 .. MaxDepth, NEW w \in Windows, NEW s \in Scores
  PROVE  LET e == EntryOf(p, d, w, -s, "slave") IN
         e \in Entries /\ e.type # "NONE" /\ e.key = Key[p] /\ Sound(e)
<1>1. d \in -1 .. MaxDepth /\ -s \in Int
  BY HashAssumption
<1> QED
  BY <1>1, EntryTypes DEF Sound

\* What probe_hashtable() makes of a sound entry is a result of this window.
LEMMA UsableSound ==
  ASSUME NEW p \in Positions, NEW e \in Entries, NEW depth \in 0 .. MaxDepth,
         NEW alpha \in Int, NEW beta \in Int, alpha < beta,
         e.depth \in 0 .. MaxDepth, Claim(p, e), Usable(e, depth, alpha, beta)
  PROVE  /\ e.depth \in depth .. MaxDepth
         /\ \A v \in Value[p][e.depth] : Result(Returned(e.score, alpha, beta), v, alpha, beta)
<1>1. e.depth \in depth .. MaxDepth
  <2>1. MaxDepth \in Nat
    BY HashAssumption
  <2> QED
    BY <2>1 DEF Usable
<1>2. \A u \in Value[p][e.depth] : u \in Int
  <2>1. Value[p][e.depth] \in SUBSET Scores /\ Scores \subseteq Int
    BY HashAssumption
  <2> QED
    BY <2>1
<1>2a. e.score \in Int
  BY DEF Entries
<1>3. SUFFICES ASSUME NEW v \in Value[p][e.depth]
               PROVE  Result(Returned(e.score, alpha, beta), v, alpha, beta)
  BY <1>1
<1>4. /\ e.type = "EXACT" => v = e.score
      /\ e.type = "ALPHA" => v <= e.score
      /\ e.type = "BETA" => v >= e.score
  BY DEF Claim
<1> QED
  BY <1>2, <1>2a, <1>4 DEF Usable, Result, Returned, Bound

-----------------------------------------------------------------------------
(* Slots and locks. *)

LEMMA SlotTypes ==
  ASSUME NEW p \in Positions
  PROVE  Slot(p) \in Slots /\ Domain(p) \in 0 .. Domains - 1
<1>1. Key[p] \in Nat /\ TableSize \in Nat \ {0} /\ Domains \in Nat \ {0}
  BY HashAssumption
<1>2. Key[p] % TableSize \in 0 .. TableSize - 1
  BY <1>1
<1>3. Slot(p) \in Slots /\ Slot(p) \in Nat
  BY <1>1, <1>2 DEF Slot, Slots
<1>4. Slot(p) % Domains \in 0 .. Domains - 1
  BY <1>1, <1>3
<1> QED
  BY <1>3, <1>4 DEF Domain

LEMMA CallSlots ==
  ASSUME CallInv, NEW t \in Threads, pc[t] # "idle"
  PROVE  /\ call[t].pos \in Positions
         /\ SlotOf(t) \in Slots /\ Domain(call[t].pos) \in 0 .. Domains - 1
<1>1. call[t].pos \in Positions
  BY DEF CallInv, Puts, Probes
<1> QED
  BY <1>1, SlotTypes DEF SlotOf

\* Two threads are never in the same slot.
LEMMA Exclusive ==
  ASSUME CallInv, NEW t \in Threads, NEW u \in Threads, pc[t] \in Locking, pc[u] \in Locking,
         SlotOf(t) = SlotOf(u)
  PROVE  t = u
<1>1. Domain(call[t].pos) = Domain(call[u].pos)
  BY DEF SlotOf, Domain
<1>2. spinlock[Domain(call[t].pos)] = t /\ spinlock[Domain(call[u].pos)] = u
  BY DEF CallInv
<1> QED
  BY <1>1, <1>2

LEMMA NoEntrySound == NoEntry \in Entries /\ Sound(NoEntry) /\ NoLine \in Lines
<1>1. 0 \in 0 .. DepthRange - 1
  BY HashAssumption
<1> QED
  BY <1>1 DEF NoEntry, NoLine, NoKey, Entries, Lines, Sound

LEMMA InitIInv == Init => IInv
<1> SUFFICES ASSUME Init PROVE IInv
  OBVIOUS
<1> USE DEF Init
<1>1. Shapes
  BY NoEntrySound DEF Shapes, TypeOK
<1>2. CallInv /\ PutInv
  BY DEF CallInv, PutInv, Locking, Putting, Probing
<1>3. SlotInv
  BY NoEntrySound DEF SlotInv, NoEntry
<1>4. CopyInv
  BY NoEntrySound DEF CopyInv, NoEntry
<1> QED
  BY <1>1, <1>2, <1>3, <1>4 DEF IInv

-----------------------------------------------------------------------------
(* Steps. *)

LEMMA CallStep ==
  ASSUME IInv, NEW t \in Threads, Thread(t)
  PROVE  CallInv'
<1> USE DEF IInv, Shapes, TypeOK, At, Goto, Locking, Putting, Probing
<1>0. ASSUME NEW u \in Threads, u # t, pc[u] \in Locking, pc[t] \in Locking
      PROVE  Domain(call[u].pos) # Domain(call[t].pos)
  BY <1>0 DEF CallInv
<1>1. CASE BeginPut(t)
  <2>1. PICK p \in Positions, d \in Depths, w \in Windows, l \in BOOLEAN :
          \E v \in Value[p][Searched(d)], s \in Scores :
            /\ Result(s, v, w[1], w[2])
            /\ call' = [call EXCEPT ![t] =
                 [op |-> "put", pos |-> p, line |-> l,
                  entry |-> EntryOf(p, d, w, s, OriginOf(d, w, s))]]
    BY <1>1 DEF BeginPut
  <2>2. PICK v \in Value[p][Searched(d)], s \in Scores :
          /\ Result(s, v, w[1], w[2])
          /\ call' = [call EXCEPT ![t] =
               [op |-> "put", pos |-> p, line |-> l,
                entry |-> EntryOf(p, d, w, s, OriginOf(d, w, s))]]
    BY <2>1
  <2>3. call'[t] \in Puts
    BY <2>2, PutSound DEF Puts
  <2> QED
    BY <1>1, <2>2, <2>3 DEF BeginPut, CallInv
<1>1a. CASE BeginPutSlave(t)
  <2>1. PICK p \in Positions, d \in 0 .. MaxDepth, w \in Windows, l \in BOOLEAN, s \in Scores :
          call' = [call EXCEPT ![t] =
            [op |-> "put", pos |-> p, line |-> l, entry |-> EntryOf(p, d, w, -s, "slave")]]
    BY <1>1a DEF BeginPutSlave
  <2>2. call'[t] \in Puts
    BY <2>1, PutSlaveSound DEF Puts
  <2> QED
    BY <1>1a, <2>1, <2>2 DEF BeginPutSlave, CallInv
<1>2. CASE BeginProbe(t)
  <2>1. PICK p \in Positions, d \in 0 .. MaxDepth, w \in Windows :
          call' = [call EXCEPT ![t] =
            [op |-> "probe", pos |-> p, depth |-> d, alpha |-> w[1], beta |-> w[2]]]
    BY <1>2 DEF BeginProbe
  <2>2. w = <<w[1], w[2]>> /\ w[1] \in Int /\ w[2] \in Int
    BY HashAssumption
  <2>3. call'[t] \in Probes
    BY <2>1, <2>2 DEF Probes
  <2> QED
    BY <1>2, <2>1, <2>3 DEF BeginProbe, CallInv
<1>3. CASE Lock(t)
  <2>1. call[t] \in Puts => call[t].op = "put"
    BY DEF Puts
  <2>2. call[t] \in Probes => call[t].op = "probe"
    BY DEF Probes
  <2>3. Domain(call[t].pos) \in 0 .. Domains - 1 /\ call[t] \in Puts \union Probes
    BY <1>3, CallSlots DEF Lock, CallInv
  <2>4. ASSUME NEW u \in Threads, pc[u] \in Locking
        PROVE  Domain(call[u].pos) # Domain(call[t].pos)
    BY <1>3, <2>4, HashAssumption DEF Lock, CallInv
  <2> QED
    BY <1>3, <2>1, <2>2, <2>3, <2>4 DEF Lock, CallInv
<1>4. CASE PutKey(t)
  BY <1>4 DEF PutKey, CallInv
<1>5. CASE PutScore(t)
  BY <1>5 DEF PutScore, CallInv
<1>6. CASE PutLine(t)
  BY <1>6 DEF PutLine, CallInv
<1>7. CASE ProbeMiss(t)
  BY <1>7 DEF ProbeMiss, CallInv
<1>8. CASE ProbeLine(t)
  BY <1>8 DEF ProbeLine, CallInv
<1>9. CASE ProbeEntry(t)
  BY <1>9 DEF ProbeEntry, CallInv
<1>10. CASE Unlock(t)
  BY <1>10, <1>0 DEF Unlock, CallInv
<1>11. CASE Finish(t)
  BY <1>11 DEF Finish, CallInv
<1> QED
  BY <1>1, <1>1a, <1>2, <1>3, <1>4, <1>5, <1>6, <1>7, <1>8, <1>9, <1>10, <1>11 DEF Thread

LEMMA ShapeStep ==
  ASSUME IInv, NEW t \in Threads, Thread(t)
  PROVE  Shapes'
<1> USE DEF IInv, Shapes, TypeOK, At, Goto
<1>1. CASE BeginPut(t)
  BY <1>1 DEF BeginPut
<1>1a. CASE BeginPutSlave(t)
  BY <1>1a DEF BeginPutSlave
<1>2. CASE BeginProbe(t)
  BY <1>2 DEF BeginProbe
<1>3. CASE Lock(t)
  <2>1. call[t].op \in {"put", "probe"}
    BY <1>3 DEF Lock, CallInv, Puts, Probes
  <2> QED
    BY <1>3, <2>1 DEF Lock
<1>4. CASE PutKey(t)
  <2>1. call[t].entry \in Entries /\ SlotOf(t) \in Slots
    BY <1>4, CallSlots DEF PutKey, CallInv, Puts, Putting
  <2>2. ASSUME NEW e \in Entries, NEW f \in Entries
        PROVE  [[e EXCEPT !.key = f.key] EXCEPT !.depth = f.depth] \in Entries
    BY DEF Entries
  <2>3. table[SlotOf(t)] \in Entries
    BY <2>1
  <2>4. table' \in [Slots -> Entries]
    BY <1>4, <2>1, <2>2, <2>3 DEF PutKey
  <2> QED
    BY <1>4, <2>4 DEF PutKey
<1>5. CASE PutScore(t)
  <2>1. call[t].entry \in Entries /\ SlotOf(t) \in Slots
    BY <1>5, CallSlots DEF PutScore, CallInv, Puts, Putting
  <2>2. ASSUME NEW e \in Entries, NEW f \in Entries
        PROVE  [[[e EXCEPT !.type = f.type] EXCEPT !.score = f.score] EXCEPT !.origin = f.origin] \in Entries
    BY DEF Entries
  <2>3. table[SlotOf(t)] \in Entries
    BY <2>1
  <2>4. table' \in [Slots -> Entries]
    BY <1>5, <2>1, <2>2, <2>3 DEF PutScore
  <2> QED
    BY <1>5, <2>4 DEF PutScore
<1>6. CASE PutLine(t)
  <2>1. call[t].entry \in Entries
    BY <1>6 DEF PutLine, CallInv, Puts, Putting
  <2>2. [key |-> call[t].entry.key, depth |-> call[t].entry.depth] \in Lines
    BY <2>1 DEF Entries, Lines
  <2> QED
    BY <1>6, <2>2, NoEntrySound DEF PutLine
<1>7. CASE ProbeMiss(t)
  BY <1>7 DEF ProbeMiss
<1>8. CASE ProbeLine(t)
  <2>1. SlotOf(t) \in Slots
    BY <1>8, CallSlots DEF ProbeLine
  <2> QED
    BY <1>8, <2>1 DEF ProbeLine
<1>9. CASE ProbeEntry(t)
  <2>1. SlotOf(t) \in Slots
    BY <1>9, CallSlots DEF ProbeEntry
  <2> QED
    BY <1>9, <2>1 DEF ProbeEntry
<1>10. CASE Unlock(t)
  BY <1>10 DEF Unlock
<1>11. CASE Finish(t)
  BY <1>11, NoEntrySound DEF Finish
<1> QED
  BY <1>1, <1>1a, <1>2, <1>3, <1>4, <1>5, <1>6, <1>7, <1>8, <1>9, <1>10, <1>11 DEF Thread

\* What a thread writes it writes to its own slot.
LEMMA WhoWrites ==
  ASSUME IInv, NEW t \in Threads, Thread(t), NEW k \in Slots
  PROVE  \/ table'[k] = table[k] /\ pvtable'[k] = pvtable[k]
         \/ pc[t] \in Putting /\ SlotOf(t) = k
<1> USE DEF IInv, Shapes, TypeOK, At, Goto, Putting
<1> QED
  BY DEF Thread, BeginPut, BeginPutSlave, BeginProbe, Lock, PutKey, PutScore, PutLine, ProbeMiss,
     ProbeLine, ProbeEntry, Unlock, Finish

\* Steps of a thread leave the others where they are.
LEMMA OthersStay ==
  ASSUME IInv, NEW t \in Threads, Thread(t), NEW u \in Threads, u # t
  PROVE  /\ pc'[u] = pc[u] /\ call'[u] = call[u] /\ copy'[u] = copy[u] /\ line'[u] = line[u]
         /\ SlotOf(u)' = SlotOf(u)
<1> USE DEF IInv, Shapes, TypeOK, At, Goto
<1>1. pc'[u] = pc[u] /\ call'[u] = call[u] /\ copy'[u] = copy[u] /\ line'[u] = line[u]
  BY DEF Thread, BeginPut, BeginPutSlave, BeginProbe, Lock, PutKey, PutScore, PutLine, ProbeMiss,
     ProbeLine, ProbeEntry, Unlock, Finish
<1> QED
  BY <1>1 DEF SlotOf

\* What put() has written when it has written half of the entry, or all of it.
LEMMA Written ==
  ASSUME IInv, NEW t \in Threads
  PROVE  /\ PutKey(t) =>
              /\ SlotOf(t) \in Slots /\ pc'[t] = "put_score" /\ call' = call
              /\ table'[SlotOf(t)].key = call[t].entry.key
              /\ table'[SlotOf(t)].depth = call[t].entry.depth
         /\ PutScore(t) =>
              /\ SlotOf(t) \in Slots /\ pc'[t] = "put_line" /\ call' = call
              /\ table'[SlotOf(t)] = call[t].entry
         /\ PutLine(t) =>
              /\ SlotOf(t) \in Slots /\ pc'[t] = "unlock" /\ call' = call
              /\ table'[SlotOf(t)] = call[t].entry
              /\ \/ pvtable'[SlotOf(t)] = NoLine
                 \/ pvtable'[SlotOf(t)] = [key |-> call[t].entry.key, depth |-> call[t].entry.depth]
<1> USE DEF IInv, Shapes, TypeOK, At, Goto, Putting
<1>1. ASSUME pc[t] \in Putting
      PROVE  SlotOf(t) \in Slots /\ call[t].entry \in Entries /\ table[SlotOf(t)] \in Entries
  <2>1. SlotOf(t) \in Slots /\ call[t].entry \in Entries
    BY <1>1, CallSlots DEF CallInv, Puts
  <2> QED
    BY <2>1
<1>2. ASSUME NEW e \in Entries, NEW f \in Entries, e.key = f.key, e.depth = f.depth
      PROVE  [[[e EXCEPT !.type = f.type] EXCEPT !.score = f.score] EXCEPT !.origin = f.origin] = f
  BY <1>2 DEF Entries
<1>3. ASSUME PutKey(t)
      PROVE  table'[SlotOf(t)] = [[table[SlotOf(t)] EXCEPT !.key = call[t].entry.key]
                                    EXCEPT !.depth = call[t].entry.depth]
  BY <1>1, <1>3 DEF PutKey
<1>4. ASSUME PutScore(t)
      PROVE  table'[SlotOf(t)] = [[[table[SlotOf(t)] EXCEPT !.type = call[t].entry.type]
                                    EXCEPT !.score = call[t].entry.score]
                                    EXCEPT !.origin = call[t].entry.origin]
  BY <1>1, <1>4 DEF PutScore
<1>5. ASSUME PutScore(t)
      PROVE  table'[SlotOf(t)] = call[t].entry
  <2>1. /\ table[SlotOf(t)].key = call[t].entry.key
        /\ table[SlotOf(t)].depth = call[t].entry.depth
    BY <1>5 DEF PutScore, PutInv
  <2> QED
    BY <1>1, <1>2, <1>4, <1>5, <2>1 DEF PutScore
<1>6. ASSUME PutKey(t)
      PROVE  /\ table'[SlotOf(t)].key = call[t].entry.key
             /\ table'[SlotOf(t)].depth = call[t].entry.depth
  <2>1. call[t].entry \in Entries /\ table[SlotOf(t)] \in Entries
    BY <1>1, <1>6 DEF PutKey
  <2> DEFINE e == table[SlotOf(t)]
             f == call[t].entry
             g == table'[SlotOf(t)]
  <2>2. e \in Entries /\ f \in Entries /\ g = [[e EXCEPT !.key = f.key] EXCEPT !.depth = f.depth]
    BY <1>3, <1>6, <2>1
  <2>3. g.key = f.key /\ g.depth = f.depth
    <3> HIDE DEF e, f, g
    <3> QED
      BY <2>2 DEF Entries
  <2> QED
    BY <2>3
<1>7. ASSUME PutLine(t)
      PROVE  table'[SlotOf(t)] = call[t].entry
  BY <1>7 DEF PutLine, PutInv
<1> QED
  BY <1>1, <1>5, <1>6, <1>7 DEF PutKey, PutScore, PutLine

LEMMA PutStep ==
  ASSUME IInv, CallInv', NEW t \in Threads, Thread(t)
  PROVE  PutInv'
<1>1. ASSUME NEW u \in Threads, u # t, pc[u] \in {"put_score", "put_line"}
      PROVE  table'[SlotOf(u)] = table[SlotOf(u)]
  <2>1. SlotOf(u) \in Slots
    BY <1>1, CallSlots DEF IInv
  <2>2. ~(pc[t] \in Putting /\ SlotOf(t) = SlotOf(u))
    BY <1>1, Exclusive DEF IInv, Locking, Putting
  <2> QED
    BY <2>1, <2>2, WhoWrites
<1>2. ASSUME NEW u \in Threads, u # t
      PROVE  /\ pc'[u] \in {"put_score", "put_line"} =>
                  /\ table'[SlotOf(u)'].key = call'[u].entry.key
                  /\ table'[SlotOf(u)'].depth = call'[u].entry.depth
             /\ pc'[u] = "put_line" => table'[SlotOf(u)'] = call'[u].entry
  BY <1>1, <1>2, OthersStay DEF IInv, PutInv
<1>3. /\ pc'[t] \in {"put_score", "put_line"} =>
           /\ table'[SlotOf(t)'].key = call'[t].entry.key
           /\ table'[SlotOf(t)'].depth = call'[t].entry.depth
      /\ pc'[t] = "put_line" => table'[SlotOf(t)'] = call'[t].entry
  <2>1. pc'[t] \in {"put_score", "put_line"} => PutKey(t) \/ PutScore(t)
    <3>1. call[t] \in Puts \union Probes => call[t].op \in {"put", "probe"}
      BY DEF Puts, Probes
    <3> QED
      BY <3>1 DEF Thread, IInv, Shapes, TypeOK, CallInv, At, Goto, BeginPut, BeginPutSlave, BeginProbe, Lock, PutLine,
         ProbeMiss, ProbeLine, ProbeEntry, Unlock, Finish
  <2>2. PutKey(t) \/ PutScore(t) => SlotOf(t)' = SlotOf(t)
    BY Written DEF SlotOf
  <2>3. PutKey(t) => pc'[t] # "put_line"
    BY Written
  <2>4. ASSUME PutKey(t)
        PROVE  /\ table'[SlotOf(t)'].key = call'[t].entry.key
               /\ table'[SlotOf(t)'].depth = call'[t].entry.depth
    <3>1. SlotOf(t)' = SlotOf(t) /\ call' = call
      BY <2>2, <2>4, Written
    <3> QED
      BY <2>4, <3>1, Written
  <2>5. ASSUME PutScore(t)
        PROVE  table'[SlotOf(t)'] = call'[t].entry
    <3>1. SlotOf(t)' = SlotOf(t) /\ call' = call
      BY <2>2, <2>5, Written
    <3> QED
      BY <2>5, <3>1, Written
  <2> QED
    BY <2>1, <2>3, <2>4, <2>5
<1> QED
  BY <1>2, <1>3 DEF PutInv

LEMMA SlotStep ==
  ASSUME IInv, PutInv', NEW t \in Threads, Thread(t)
  PROVE  SlotInv'
<1> SUFFICES ASSUME NEW k \in Slots
             PROVE  /\ Sound(table'[k]) \/ \E u \in Threads : pc'[u] = "put_score" /\ SlotOf(u)' = k
                    /\ \/ table'[k].type = "NONE"
                       \/ pvtable'[k] = NoLine
                       \/ pvtable'[k] = [key |-> table'[k].key, depth |-> table'[k].depth]
                       \/ \E u \in Threads : pc'[u] \in {"put_score", "put_line"} /\ SlotOf(u)' = k
  BY DEF SlotInv
<1>1. CASE pc[t] \in Putting /\ SlotOf(t) = k
  <2>1. PutKey(t) \/ PutScore(t) \/ PutLine(t)
    BY <1>1 DEF Thread, Putting, At, BeginPut, BeginPutSlave, BeginProbe, Lock, ProbeMiss, ProbeLine,
       ProbeEntry, Unlock, Finish
  <2>2. Sound(call[t].entry)
    BY <1>1 DEF IInv, CallInv, Puts
  <2>3. call' = call /\ SlotOf(t)' = k
    BY <1>1, <2>1, Written DEF SlotOf
  <2> QED
    BY <1>1, <2>1, <2>2, <2>3, Written
<1>2. CASE ~(pc[t] \in Putting /\ SlotOf(t) = k)
  <2>1. table'[k] = table[k] /\ pvtable'[k] = pvtable[k]
    BY <1>2, WhoWrites
  <2>2. ASSUME NEW u \in Threads, pc[u] \in {"put_score", "put_line"}, SlotOf(u) = k
        PROVE  pc'[u] = pc[u] /\ SlotOf(u)' = k
    BY <1>2, <2>2, OthersStay DEF Putting
  <2> QED
    BY <2>1, <2>2 DEF IInv, SlotInv
<1> QED
  BY <1>1, <1>2

\* Where nobody writes the slot of a probe, its entry is sound and its line belongs to it.
LEMMA SlotRead ==
  ASSUME IInv, NEW t \in Threads, pc[t] \in Probing
  PROVE  /\ SlotOf(t) \in Slots
         /\ Sound(table[SlotOf(t)])
         /\ \/ table[SlotOf(t)].type = "NONE"
            \/ pvtable[SlotOf(t)] = NoLine
            \/ pvtable[SlotOf(t)] = [key |-> table[SlotOf(t)].key, depth |-> table[SlotOf(t)].depth]
<1>1. SlotOf(t) \in Slots
  BY CallSlots DEF IInv, Probing
<1>2. \A u \in Threads : pc[u] \in {"put_score", "put_line"} => SlotOf(u) # SlotOf(t)
  BY Exclusive DEF IInv, Locking, Putting, Probing
<1> QED
  BY <1>1, <1>2 DEF IInv, SlotInv

\* What CopyInv says of one thread.
CopyOk(t) ==
  /\ Sound(copy[t])
  /\ pc[t] \notin {"unlock", "done"} => copy[t] = NoEntry
  /\ copy[t].type # "NONE" =>
       /\ copy[t].key = Key[call[t].pos]
       /\ line[t] = NoLine \/ line[t] = [key |-> copy[t].key, depth |-> copy[t].depth]
  /\ pc[t] = "probe_entry" =>
       /\ table[SlotOf(t)].type # "NONE" /\ table[SlotOf(t)].key = Key[call[t].pos]
       /\ \/ line[t] = NoLine
          \/ line[t] = [key |-> table[SlotOf(t)].key, depth |-> table[SlotOf(t)].depth]

LEMMA CopyStep ==
  ASSUME IInv, NEW t \in Threads, Thread(t)
  PROVE  CopyInv'
<1> SUFFICES \A u \in Threads : CopyOk(u)'
  BY DEF CopyInv, CopyOk
<1>1. \A u \in Threads : CopyOk(u)
  BY DEF IInv, CopyInv, CopyOk
<1>2. ASSUME NEW u \in Threads, u # t
      PROVE  CopyOk(u)'
  <2>1. pc[u] = "probe_entry" => table'[SlotOf(u)] = table[SlotOf(u)]
    <3>1. pc[u] = "probe_entry" => SlotOf(u) \in Slots
      BY SlotRead DEF Probing
    <3>2. pc[u] = "probe_entry" => ~(pc[t] \in Putting /\ SlotOf(t) = SlotOf(u))
      BY <1>2, Exclusive DEF IInv, Locking, Putting, Probing
    <3> QED
      BY <3>1, <3>2, WhoWrites
  <2>2. /\ pc'[u] = pc[u] /\ call'[u] = call[u] /\ copy'[u] = copy[u] /\ line'[u] = line[u]
        /\ SlotOf(u)' = SlotOf(u)
    BY <1>2, OthersStay
  <2>3. CopyOk(u)
    BY <1>1
  <2> QED
    BY <2>1, <2>2, <2>3 DEF CopyOk
<1>3. CopyOk(t)'
  <2> USE DEF At, Goto, NoEntry
  <2>0. /\ pc \in [Threads -> {"idle", "lock", "put", "put_score", "put_line", "probe",
                               "probe_entry", "unlock", "done"}]
        /\ copy \in [Threads -> Entries] /\ line \in [Threads -> Lines]
    BY DEF IInv, Shapes, TypeOK
  <2>1. CASE ProbeLine(t)
    <3>1. /\ table[SlotOf(t)].type # "NONE" /\ table[SlotOf(t)].key = Key[call[t].pos]
          /\ pc'[t] = "probe_entry" /\ copy' = copy /\ table' = table /\ call' = call
          /\ line'[t] = pvtable[SlotOf(t)] /\ pc[t] = "probe"
      BY <2>0, <2>1 DEF ProbeLine
    <3>2. SlotOf(t)' = SlotOf(t)
      BY <3>1 DEF SlotOf
    <3> QED
      BY <1>1, <3>1, <3>2, SlotRead DEF CopyOk, Probing
  <2>2. CASE ProbeEntry(t)
    <3>1. /\ pc[t] = "probe_entry" /\ pc'[t] = "unlock" /\ copy'[t] = table[SlotOf(t)]
          /\ table' = table /\ call' = call /\ line' = line
      BY <2>0, <2>2 DEF ProbeEntry
    <3> QED
      BY <1>1, <3>1, SlotRead DEF CopyOk, Probing
  <2>3. CASE Finish(t)
    BY <1>1, <2>0, <2>3, NoEntrySound DEF CopyOk, Finish
  <2>4. CASE Unlock(t)
    BY <1>1, <2>0, <2>4 DEF CopyOk, Unlock
  <2>5. CASE BeginPut(t) \/ BeginPutSlave(t) \/ BeginProbe(t)
    BY <1>1, <2>0, <2>5 DEF CopyOk, BeginPut, BeginPutSlave, BeginProbe
  <2>6. CASE Lock(t)
    <3>1. call[t].op \in {"put", "probe"}
      BY <2>6 DEF Lock, IInv, CallInv, Puts, Probes
    <3> QED
      BY <1>1, <2>0, <2>6, <3>1 DEF CopyOk, Lock
  <2>7. CASE PutKey(t) \/ PutScore(t) \/ PutLine(t) \/ ProbeMiss(t)
    BY <1>1, <2>0, <2>7 DEF CopyOk, PutKey, PutScore, PutLine, ProbeMiss
  <2> QED
    BY <2>1, <2>2, <2>3, <2>4, <2>5, <2>6, <2>7 DEF Thread
<1> QED
  BY <1>2, <1>3

LEMMA ClearStep == IInv /\ Clear => IInv'
<1> SUFFICES ASSUME IInv, Clear PROVE IInv'
  OBVIOUS
<1> USE DEF IInv, Clear, At
<1>1. Shapes'
  BY NoEntrySound DEF Shapes, TypeOK
<1>2. CallInv' /\ PutInv'
  BY DEF CallInv, PutInv, Locking, Putting, Probing
<1>3. SlotInv'
  BY NoEntrySound DEF SlotInv, NoEntry
<1>4. CopyInv'
  BY DEF CopyInv
<1> QED
  BY <1>1, <1>2, <1>3, <1>4

LEMMA Step == IInv /\ [Next]_vars => IInv'
<1> SUFFICES ASSUME IInv, [Next]_vars PROVE IInv'
  OBVIOUS
<1>1. ASSUME NEW t \in Threads, Thread(t) PROVE IInv'
  <2>1. Shapes' /\ CallInv'
    BY <1>1, ShapeStep, CallStep
  <2>2. PutInv'
    BY <1>1, <2>1, PutStep
  <2>3. SlotInv' /\ CopyInv'
    BY <1>1, <2>2, SlotStep, CopyStep
  <2> QED
    BY <2>1, <2>2, <2>3 DEF IInv
<1>2. CASE UNCHANGED vars
  BY <1>2 DEF vars, IInv, Shapes, TypeOK, CallInv, PutInv, SlotInv, CopyInv, SlotOf
<1> QED
  BY <1>1, <1>2, ClearStep DEF Next

-----------------------------------------------------------------------------
(* Theorems. *)

LEMMA Invariant == Spec => []IInv
<1>1. IInv /\ [Next]_vars => IInv'
  BY Step
<1> QED
  BY <1>1, InitIInv, PTL DEF Spec

\* Table, locks, and what the threads have copied keep their types.
THEOREM HashTypes == Spec => []TypeOK
<1>1. IInv => TypeOK
  BY DEF IInv, Shapes
<1> QED
  BY <1>1, Invariant, PTL

\* However threads interleave in put() and probe(), and whatever the windows and depths, a
\* score that probe_hashtable() returns is one that a search of this position, as deep and
\* with this window, may return, unless it was stored in a case of the FIXME, with a
\* negative depth, or by parallel_search() for a slave.
THEOREM HitIsSound == Spec => []HitSound
<1>1. IInv => HitSound
  <2> SUFFICES ASSUME IInv, NEW t \in Threads, Answered(t), copy[t].origin = "search"
               PROVE  Right(t)
    BY DEF HitSound
  <2>0. Hit(t) /\ Usable(copy[t], call[t].depth, call[t].alpha, call[t].beta)
    BY DEF Answered
  <2>1. call[t] \in Probes
    BY <2>0 DEF Hit, At, IInv, CallInv, Puts
  <2>2. PICK p \in Positions :
          copy[t].key = Key[p] /\ copy[t].depth \in 0 .. MaxDepth /\ Claim(p, copy[t])
    BY <2>0 DEF IInv, CopyInv, Hit, Sound
  <2>3. p = call[t].pos
    <3>1. call[t].pos \in Positions
      BY <2>1 DEF Probes
    <3>2. Key[p] = Key[call[t].pos]
      BY <2>0, <2>2 DEF IInv, CopyInv, Hit
    <3> QED
      BY <3>1, <3>2, HashAssumption
  <2>4. /\ call[t].depth \in 0 .. MaxDepth /\ call[t].alpha \in Int /\ call[t].beta \in Int
        /\ call[t].alpha < call[t].beta
    BY <2>1, HashAssumption DEF Probes
  <2>5. copy[t] \in Entries
    BY DEF IInv, Shapes, TypeOK
  <2> QED
    BY <2>0, <2>2, <2>3, <2>4, <2>5, UsableSound DEF Right
<1> QED
  BY <1>1, Invariant, PTL

\* The line that probe() copies belongs to the entry that it copies, although they are
\* written and copied one after the other.
THEOREM LinesMatch == Spec => []LineOfEntry
<1>1. IInv => LineOfEntry
  BY DEF IInv, CopyInv, LineOfEntry, Hit
<1> QED
  BY <1>1, Invariant, PTL

=============================================================================
