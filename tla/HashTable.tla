----------------------------- MODULE HashTable ------------------------------
(***************************************************************************)
(* The transposition table (src/src/common/hash.cc) with the threads that    *)
(* share it, and what the search stores in it and reads from it              *)
(* (Search::store_hashtable(), probe_hashtable()).  An entry is written and  *)
(* copied in parts, under the spinlock of its lock domain.  What a position  *)
(* is worth, searched to a depth, is a constant; several values stand for a  *)
(* mate, whose score depends on the distance from the root.                  *)
(***************************************************************************)
EXTENDS Integers

CONSTANTS
  Threads,
  TableSize,      \* number of slots
  Domains,        \* HASHTABLE_LOCK_DOMAINS
  Positions,
  Key,            \* hash key of a position
  MaxDepth,
  DepthRange,     \* number of values of an unsigned short
  Mate,           \* MATE, the least score of a mate
  Value,          \* scores of a position by depth
  Scores,         \* the scores a search can return
  Windows,        \* alpha and beta of a search
  FailSoft,       \* option search_failsoft
  Negative,       \* whether nodes of negative depth are stored
  Masters,        \* threads that let slaves search nodes for them
  NoThread

ASSUME HashAssumption ==
  /\ TableSize \in Nat \ {0} /\ Domains \in Nat \ {0}
  /\ Key \in [Positions -> Nat]
  /\ \A p, q \in Positions : Key[p] = Key[q] => p = q
  /\ MaxDepth \in Nat /\ DepthRange \in Nat /\ MaxDepth < DepthRange
  /\ Mate \in Nat \ {0}
  /\ Scores \subseteq Int
  /\ Value \in [Positions -> [0 .. MaxDepth -> SUBSET Scores]]
  /\ \A p \in Positions, d \in 0 .. MaxDepth :
       \/ \A v \in Value[p][d] : v >= Mate
       \/ \A v \in Value[p][d] : v <= -Mate
       \/ \E v \in Scores : Value[p][d] = {v} /\ v < Mate /\ v > -Mate
  /\ Windows \subseteq Int \X Int
  /\ \A w \in Windows : w[1] < w[2]
  /\ FailSoft \in BOOLEAN /\ Negative \in BOOLEAN
  /\ Masters \subseteq Threads
  /\ NoThread \notin Threads

VARIABLES
  table,          \* the entries
  pvtable,        \* the lines of an entry, by the depth they were searched to
  spinlock,       \* who holds the lock of a domain
  pc,
  call,           \* the arguments of a thread's put() or probe()
  copy,           \* the entry that probe() has copied, ...
  line            \* ... and its line

vars == <<table, pvtable, spinlock, pc, call, copy, line>>

Slots == 0 .. TableSize - 1
Slot(p) == Key[p] % TableSize
NoKey == -1               \* the key of a slot that has never been written

\* Fault: the domain is taken from the hash key, not from the table's key.
DomainFault(p) == Key[p] % Domains

\* HashTable::lock(): the domain of a position's slot.
Domain(p) == Slot(p) % Domains

-----------------------------------------------------------------------------
(* Scores. *)

\* Search::bound_score()
Bound(s, alpha, beta) == IF s > beta THEN beta ELSE IF s < alpha THEN alpha ELSE s

\* What a search with this window may return for a node of value v.
Result(s, v, alpha, beta) ==
  IF FailSoft
    THEN /\ s <= alpha => v <= s
         /\ s >= beta => v >= s
         /\ alpha < s /\ s < beta => s = v
    ELSE s = Bound(v, alpha, beta)

\* Fault: the type is decided by the window before it is decided by the mate.
StoredFault(s, alpha, beta) ==
  IF s >= beta THEN [type |-> "BETA", score |-> Bound(s, -Mate, Mate)]
  ELSE IF s <= alpha THEN [type |-> "ALPHA", score |-> Bound(s, -Mate, Mate)]
  ELSE [type |-> "EXACT", score |-> Bound(s, -Mate, Mate)]

\* store_hashtable(): a mate score is stored as the bound that holds at every ply.
Stored(s, alpha, beta) ==
  IF s >= Mate THEN [type |-> "BETA", score |-> Mate]
  ELSE IF s <= -Mate THEN [type |-> "ALPHA", score |-> -Mate]
  ELSE IF s >= beta THEN [type |-> "BETA", score |-> s]
  ELSE IF s <= alpha THEN [type |-> "ALPHA", score |-> s]
  ELSE [type |-> "EXACT", score |-> s]

\* probe_hashtable(): whether an entry can be used in place of a search.
Usable(e, depth, alpha, beta) ==
  /\ e.depth >= depth
  /\ \/ e.type = "EXACT"
     \/ e.type = "ALPHA" /\ e.score <= alpha
     \/ e.type = "BETA" /\ e.score >= beta

Returned(s, alpha, beta) == IF FailSoft THEN s ELSE Bound(s, alpha, beta)

-----------------------------------------------------------------------------
(* put() and probe(). *)

Depths == (IF Negative THEN -1 ELSE 0) .. MaxDepth

\* A node of negative depth has been searched by quiescence_search().
Searched(depth) == IF depth < 0 THEN 0 ELSE depth

\* The cast of HashEntry's constructor.
StoredDepth(depth) == depth % DepthRange

\* The cases that the FIXME of store_hashtable() leaves open: "fail-low at mate" and
\* "fail-high at being mated".
FailAtMate(s, w) == (w[1] >= s /\ s >= Mate) \/ (-Mate >= s /\ s >= w[2])

\* History: how the score of an entry came about. Not a field of HashEntry.
OriginOf(d, w, s) ==
  IF d < 0 THEN "negative" ELSE IF FailAtMate(s, w) THEN "fixme" ELSE "search"

\* HashEntry::HashEntry()
EntryOf(p, d, w, s, origin) ==
  [key |-> Key[p], depth |-> StoredDepth(d), type |-> Stored(s, w[1], w[2]).type,
   score |-> Stored(s, w[1], w[2]).score, origin |-> origin]
NoEntry == [key |-> NoKey, depth |-> 0, type |-> "NONE", score |-> 0, origin |-> "search"]
NoLine == [key |-> NoKey, depth |-> 0]
NoCall == [op |-> "none"]

Init ==
  /\ table = [k \in Slots |-> NoEntry]
  /\ pvtable = [k \in Slots |-> NoLine]
  /\ spinlock = [d \in 0 .. Domains - 1 |-> NoThread]
  /\ pc = [t \in Threads |-> "idle"]
  /\ call = [t \in Threads |-> NoCall]
  /\ copy = [t \in Threads |-> NoEntry]
  /\ line = [t \in Threads |-> NoLine]

At(t, label) == pc[t] = label
Goto(t, label) == pc' = [pc EXCEPT ![t] = label]
SlotOf(t) == Slot(call[t].pos)

\* A node has been searched, and its score is stored, with a line or without.
BeginPut(t) ==
  /\ At(t, "idle")
  /\ \E p \in Positions, d \in Depths, w \in Windows, l \in BOOLEAN :
       \E v \in Value[p][Searched(d)], s \in Scores :
         /\ Result(s, v, w[1], w[2])
         /\ call' = [call EXCEPT ![t] =
              [op |-> "put", pos |-> p, line |-> l,
               entry |-> EntryOf(p, d, w, s, OriginOf(d, w, s))]]
  /\ Goto(t, "lock")
  /\ UNCHANGED <<table, pvtable, spinlock, copy, line>>

\* parallel_search() stores what a slave has found for a child: the slave's window u
\* may be narrower than the window w of the node, and the score has been negated.
BeginPutSlave(t) ==
  /\ At(t, "idle") /\ t \in Masters
  /\ \E p \in Positions, d \in 0 .. MaxDepth, w, u \in Windows, l \in BOOLEAN :
       \E v \in Value[p][d], s \in Scores :
         /\ w[1] <= u[1] /\ u[2] <= w[2]
         /\ Result(s, v, u[1], u[2])
         /\ call' = [call EXCEPT ![t] =
              [op |-> "put", pos |-> p, line |-> l,
               entry |-> EntryOf(p, d, w, -s, "slave")]]
  /\ Goto(t, "lock")
  /\ UNCHANGED <<table, pvtable, spinlock, copy, line>>

\* A node is about to be searched, with depth 0 by quiescence_search().
BeginProbe(t) ==
  /\ At(t, "idle")
  /\ \E p \in Positions, d \in 0 .. MaxDepth, w \in Windows :
       call' = [call EXCEPT ![t] =
         [op |-> "probe", pos |-> p, depth |-> d, alpha |-> w[1], beta |-> w[2]]]
  /\ Goto(t, "lock")
  /\ UNCHANGED <<table, pvtable, spinlock, copy, line>>

Lock(t) ==
  /\ At(t, "lock")
  /\ spinlock[Domain(call[t].pos)] = NoThread
  /\ spinlock' = [spinlock EXCEPT ![Domain(call[t].pos)] = t]
  /\ Goto(t, call[t].op)
  /\ UNCHANGED <<table, pvtable, call, copy, line>>

\* table[key] = entry, word by word.
PutKey(t) ==
  /\ At(t, "put")
  /\ table' = [table EXCEPT ![SlotOf(t)].key = call[t].entry.key,
                             ![SlotOf(t)].depth = call[t].entry.depth]
  /\ Goto(t, "put_score")
  /\ UNCHANGED <<pvtable, spinlock, call, copy, line>>

PutScore(t) ==
  /\ At(t, "put_score")
  /\ table' = [table EXCEPT ![SlotOf(t)].type = call[t].entry.type,
                             ![SlotOf(t)].score = call[t].entry.score,
                             ![SlotOf(t)].origin = call[t].entry.origin]
  /\ Goto(t, "put_line")
  /\ UNCHANGED <<pvtable, spinlock, call, copy, line>>

\* Fault: an entry without a line leaves the old one.
PutLineFault(t) ==
  /\ At(t, "put_line")
  /\ pvtable' = [pvtable EXCEPT ![SlotOf(t)] =
       IF call[t].line THEN [key |-> call[t].entry.key, depth |-> call[t].entry.depth]
       ELSE @]
  /\ Goto(t, "unlock")
  /\ UNCHANGED <<table, spinlock, call, copy, line>>

PutLine(t) ==
  /\ At(t, "put_line")
  /\ pvtable' = [pvtable EXCEPT ![SlotOf(t)] =
       IF call[t].line THEN [key |-> call[t].entry.key, depth |-> call[t].entry.depth]
       ELSE NoLine]
  /\ Goto(t, "unlock")
  /\ UNCHANGED <<table, spinlock, call, copy, line>>

\* The entry is empty or belongs to another position.
ProbeMiss(t) ==
  /\ At(t, "probe")
  /\ table[SlotOf(t)].type = "NONE" \/ table[SlotOf(t)].key # Key[call[t].pos]
  /\ Goto(t, "unlock")
  /\ UNCHANGED <<table, pvtable, spinlock, call, copy, line>>

\* The line is copied, ...
ProbeLine(t) ==
  /\ At(t, "probe")
  /\ table[SlotOf(t)].type # "NONE" /\ table[SlotOf(t)].key = Key[call[t].pos]
  /\ line' = [line EXCEPT ![t] = pvtable[SlotOf(t)]]
  /\ Goto(t, "probe_entry")
  /\ UNCHANGED <<table, pvtable, spinlock, call, copy>>

\* ... and then the entry.
ProbeEntry(t) ==
  /\ At(t, "probe_entry")
  /\ copy' = [copy EXCEPT ![t] = table[SlotOf(t)]]
  /\ Goto(t, "unlock")
  /\ UNCHANGED <<table, pvtable, spinlock, call, line>>

Unlock(t) ==
  /\ At(t, "unlock")
  /\ spinlock' = [spinlock EXCEPT ![Domain(call[t].pos)] = NoThread]
  /\ Goto(t, "done")
  /\ UNCHANGED <<table, pvtable, call, copy, line>>

\* The caller goes on with what it has got.
Finish(t) ==
  /\ At(t, "done")
  /\ Goto(t, "idle")
  /\ call' = [call EXCEPT ![t] = NoCall]
  /\ copy' = [copy EXCEPT ![t] = NoEntry]
  /\ line' = [line EXCEPT ![t] = NoLine]
  /\ UNCHANGED <<table, pvtable, spinlock>>

\* clear(), when no search runs: the entries are allocated anew, the lines stay.
Clear ==
  /\ \A t \in Threads : At(t, "idle")
  /\ table' = [k \in Slots |-> NoEntry]
  /\ UNCHANGED <<pvtable, spinlock, pc, call, copy, line>>

Thread(t) ==
  \/ BeginPut(t) \/ BeginPutSlave(t) \/ BeginProbe(t) \/ Lock(t)
  \/ PutKey(t) \/ PutScore(t) \/ PutLine(t)
  \/ ProbeMiss(t) \/ ProbeLine(t) \/ ProbeEntry(t)
  \/ Unlock(t) \/ Finish(t)

Next == Clear \/ \E t \in Threads : Thread(t)

Spec == Init /\ [][Next]_vars

-----------------------------------------------------------------------------
(* Properties. *)

Entries == [key: Int, depth: 0 .. DepthRange - 1,
            type: {"NONE", "EXACT", "ALPHA", "BETA"}, score: Int,
            origin: {"search", "fixme", "negative", "slave"}]
Lines == [key: Int, depth: 0 .. DepthRange - 1]

\* Types of the table and of what is copied from it.
TypeOK ==
  /\ table \in [Slots -> Entries]
  /\ pvtable \in [Slots -> Lines]
  /\ spinlock \in [0 .. Domains - 1 -> Threads \union {NoThread}]
  /\ pc \in [Threads -> {"idle", "lock", "put", "put_score", "put_line", "probe",
                         "probe_entry", "unlock", "done"}]
  /\ copy \in [Threads -> Entries]
  /\ line \in [Threads -> Lines]

\* A probe that hits an entry it can use.
Hit(t) == At(t, "done") /\ call[t].op = "probe" /\ copy[t].type # "NONE"
Answered(t) == Hit(t) /\ Usable(copy[t], call[t].depth, call[t].alpha, call[t].beta)

\* The score that probe_hashtable() returns is one that a search of this position
\* with this window, at least as deep, may return, at whatever distance from the root.
Right(t) == LET c == call[t] IN
  \E d \in c.depth .. MaxDepth : \A v \in Value[c.pos][d] :
    Result(Returned(copy[t].score, c.alpha, c.beta), v, c.alpha, c.beta)

\* Of all the entries the threads put, only three kinds can make a probe return a wrong
\* score: those of the two cases that the FIXME of store_hashtable() names, those
\* of a negative depth, and those that parallel_search() makes of a slave's score.
\* No mixture of two entries, other depth, window or distance does.
HitSound ==
  \A t \in Threads : Answered(t) /\ copy[t].origin = "search" => Right(t)

\* "Returns true if the probe result can be directly used as search return value."
HitDirectlyUsable == \A t \in Threads : Answered(t) => Right(t)

\* The line that comes with an entry was found by the search that found its score.
LineOfEntry ==
  \A t \in Threads :
    Hit(t) => line[t] = NoLine \/ line[t] = [key |-> copy[t].key, depth |-> copy[t].depth]

=============================================================================
