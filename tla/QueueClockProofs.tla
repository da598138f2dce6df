-------------------------- MODULE QueueClockProofs --------------------------
(***************************************************************************)
(* Proofs about Queue, for any set of producers and at most one consumer,   *)
(* and about Clock, for all time controls and all elapsed times.  The two   *)
(* share nothing.                                                           *)
(***************************************************************************)
EXTENDS Queue, Clock, SequenceTheorems, TLAPS

-----------------------------------------------------------------------------
(* The queue. *)

\* Which operation a thread can be in at which point, and whose it is.
OpInv == \A t \in Threads :
  /\ op[t] = "put" => t \in Producers
  /\ op[t] \in {"get", "wait", "clear"} => t \in Consumers
  /\ pc[t] = "idle" => op[t] = "none"
  /\ pc[t] = "signal" => op[t] = "put"
  /\ pc[t] = "blocked" => op[t] \in {"get", "wait"}
  /\ pc[t] = "late" => op[t] = "wait"
  /\ pc[t] \notin {"unlock"} => result[t] = "none"

Inv == TypeOK /\ OpInv /\ MutualExclusion /\ NoLostWakeup

\* The initial state satisfies the invariant.
LEMMA InvInit == Init => Inv
BY ThreadsAssumption, EmptySeq
  DEF Init, Inv, TypeOK, OpInv, MutualExclusion, NoLostWakeup, Inside, Blocked, Threads

\* Types are preserved by each step of a thread.
LEMMA TypeStep ==
  ASSUME TypeOK, OpInv, [Next]_vars
  PROVE  TypeOK'
<1> USE DEF TypeOK, Threads, At
<1>1. CASE UNCHANGED vars
  BY <1>1 DEF vars
<1>2. ASSUME NEW t \in Threads, Invoke(t) PROVE TypeOK'
  BY <1>2 DEF Invoke, Operations
<1>3. ASSUME NEW t \in Threads, Lock(t) \/ PutSignal(t) \/ WaitTimeout(t) \/ Spurious(t)
      PROVE TypeOK'
  BY <1>3 DEF Lock, PutSignal, Blocked, WaitTimeout, Spurious
<1>4. ASSUME NEW t \in Threads, PutPush(t) PROVE TypeOK'
  <2>1. t \in Producers
    BY <1>4 DEF PutPush, OpInv
  <2>2. queue' \in Seq(Producers)
    BY <1>4, <2>1 DEF PutPush
  <2> QED
    BY <1>4, <2>2 DEF PutPush
<1>5. ASSUME NEW t \in Threads, GetTake(t) PROVE TypeOK'
  <2>1. Head(queue) \in Producers /\ Tail(queue) \in Seq(Producers)
    BY <1>5, HeadTailProperties DEF GetTake
  <2> QED
    BY <1>5, <2>1 DEF GetTake
<1>6. ASSUME NEW t \in Threads, GetBlock(t) \/ WaitBlock(t) PROVE TypeOK'
  BY <1>6 DEF GetBlock, WaitBlock, Block
<1>7. ASSUME NEW t \in Threads, WaitReady(t) \/ WaitLate(t) \/ Unlock(t) PROVE TypeOK'
  BY <1>7 DEF WaitReady, WaitLate, Unlock
<1>8. ASSUME NEW t \in Threads, Clear(t) PROVE TypeOK'
  BY <1>8, EmptySeq DEF Clear
<1> QED
  BY <1>1, <1>2, <1>3, <1>4, <1>5, <1>6, <1>7, <1>8 DEF Next, Proceed

\* So is the relation between control points and operations.
LEMMA OpStep ==
  ASSUME TypeOK, OpInv, [Next]_vars
  PROVE  OpInv'
<1> USE DEF TypeOK, OpInv, Threads, At
<1>1. CASE UNCHANGED vars
  BY <1>1 DEF vars
<1>2. ASSUME NEW t \in Threads, Invoke(t) PROVE OpInv'
  BY <1>2, ThreadsAssumption DEF Invoke, Operations
<1>3. ASSUME NEW t \in Threads, Lock(t) PROVE OpInv'
  BY <1>3 DEF Lock
<1>4. ASSUME NEW t \in Threads, PutPush(t) PROVE OpInv'
  BY <1>4 DEF PutPush
<1>5. ASSUME NEW t \in Threads, PutSignal(t) PROVE OpInv'
  BY <1>5 DEF PutSignal, Blocked
<1>6. ASSUME NEW t \in Threads, GetTake(t) PROVE OpInv'
  BY <1>6 DEF GetTake
<1>7. ASSUME NEW t \in Threads, GetBlock(t) \/ WaitBlock(t) PROVE OpInv'
  BY <1>7 DEF GetBlock, WaitBlock, Block
<1>8. ASSUME NEW t \in Threads, WaitReady(t) \/ WaitLate(t) PROVE OpInv'
  BY <1>8 DEF WaitReady, WaitLate
<1>9. ASSUME NEW t \in Threads, Clear(t) \/ WaitTimeout(t) \/ Spurious(t) PROVE OpInv'
  BY <1>9 DEF Clear, WaitTimeout, Spurious
<1>10. ASSUME NEW t \in Threads, Unlock(t) PROVE OpInv'
  BY <1>10 DEF Unlock
<1> QED
  BY <1>1, <1>2, <1>3, <1>4, <1>5, <1>6, <1>7, <1>8, <1>9, <1>10 DEF Next, Proceed

\* The mutex stays with the thread that is inside.
LEMMA MutexStep ==
  ASSUME TypeOK, OpInv, MutualExclusion, [Next]_vars
  PROVE  MutualExclusion'
<1> USE ThreadsAssumption DEF TypeOK, MutualExclusion, Inside, Threads, At
<1>1. CASE UNCHANGED vars
  BY <1>1 DEF vars
<1>2. ASSUME NEW t \in Threads, Invoke(t) \/ WaitTimeout(t) \/ Spurious(t)
      PROVE MutualExclusion'
  BY <1>2 DEF Invoke, WaitTimeout, Spurious
<1>3. ASSUME NEW t \in Threads, Lock(t) \/ WaitLate(t) PROVE MutualExclusion'
  BY <1>3 DEF Lock, WaitLate
<1>4. ASSUME NEW t \in Threads, PutPush(t) \/ GetTake(t) \/ WaitReady(t) \/ Clear(t)
      PROVE MutualExclusion'
  BY <1>4 DEF PutPush, GetTake, WaitReady, Clear
<1>5. ASSUME NEW t \in Threads, PutSignal(t) PROVE MutualExclusion'
  BY <1>5 DEF PutSignal, Blocked
<1>6. ASSUME NEW t \in Threads, GetBlock(t) \/ WaitBlock(t) \/ Unlock(t)
      PROVE MutualExclusion'
  BY <1>6 DEF GetBlock, WaitBlock, Block, Unlock
<1> QED
  BY <1>1, <1>2, <1>3, <1>4, <1>5, <1>6 DEF Next, Proceed

\* A signal reaches the only thread that can be blocked, and a thread blocks
\* only while the list is empty.
LEMMA WakeupStep ==
  ASSUME TypeOK, OpInv, NoLostWakeup, [Next]_vars
  PROVE  NoLostWakeup'
<1> USE DEF TypeOK, NoLostWakeup, Blocked, Threads, At
<1>1. CASE UNCHANGED vars
  BY <1>1 DEF vars
<1>2. ASSUME NEW t \in Threads, Invoke(t) \/ WaitTimeout(t) \/ Spurious(t) \/ Lock(t)
      PROVE NoLostWakeup'
  BY <1>2 DEF Invoke, WaitTimeout, Spurious, Lock
<1>3. ASSUME NEW t \in Threads, PutPush(t) PROVE NoLostWakeup'
  BY <1>3 DEF PutPush, OpInv
<1>4. ASSUME NEW t \in Threads, PutSignal(t) PROVE NoLostWakeup'
  <2>1. \A w \in Threads : pc[w] = "blocked" => w \in Consumers
    BY DEF OpInv
  <2>2. pc[t] = "signal" /\ queue' = queue
    BY <1>4 DEF PutSignal
  <2>3. Blocked' = {}
    <3>1. CASE Blocked = {} /\ pc' = [pc EXCEPT ![t] = "unlock"]
      BY <3>1
    <3>2. CASE \E w \in Blocked : pc' = [pc EXCEPT ![t] = "unlock", ![w] = "lock"]
      BY <2>1, <3>2, ThreadsAssumption
    <3> QED
      BY <1>4, <3>1, <3>2 DEF PutSignal
  <2> QED
    BY <2>3
<1>5. ASSUME NEW t \in Threads, GetTake(t) \/ WaitReady(t) \/ WaitLate(t) \/ Unlock(t)
      PROVE NoLostWakeup'
  <2>1. Blocked' \subseteq Blocked
    BY <1>5 DEF GetTake, WaitReady, WaitLate, Unlock
  <2>2. queue' # <<>> => queue # <<>>
    BY <1>5 DEF GetTake, WaitReady, WaitLate, Unlock
  <2>3. \A p \in Producers : pc[p] = "signal" => pc'[p] = "signal"
    BY <1>5 DEF GetTake, WaitReady, WaitLate, Unlock
  <2> QED
    BY <2>1, <2>2, <2>3
<1>6. ASSUME NEW t \in Threads, GetBlock(t) \/ WaitBlock(t) \/ Clear(t)
      PROVE NoLostWakeup'
  BY <1>6 DEF GetBlock, WaitBlock, Block, Clear
<1> QED
  BY <1>1, <1>2, <1>3, <1>4, <1>5, <1>6 DEF Next, Proceed

\* The invariant holds in every reachable state.
LEMMA Invariant == Spec => []Inv
<1>1. Inv /\ [Next]_vars => Inv'
  BY TypeStep, OpStep, MutexStep, WakeupStep DEF Inv
<1> QED
  BY InvInit, <1>1, PTL DEF Spec

\* Type correctness of the queue.
THEOREM QueueTypes == Spec => []TypeOK
BY Invariant, PTL DEF Inv

\* The list is touched by one thread at a time.
THEOREM QueueMutualExclusion == Spec => []MutualExclusion
BY Invariant, PTL DEF Inv

\* No wakeup is lost: get() never sleeps on a list that is not empty unless a
\* signal is on its way.
THEOREM QueueNoLostWakeup == Spec => []NoLostWakeup
BY Invariant, PTL DEF Inv

-----------------------------------------------------------------------------
(* The queue implements a first-in first-out list with atomic operations. *)

\* A step inside an operation that has no effect on the abstract list.
LEMMA StepsMapped ==
  ASSUME Inv, [Next]_vars
  PROVE  [F!Next]_F!fifoVars
<1>0. /\ TypeOK /\ OpInv
      /\ Threads = F!Threads
      /\ Status \in [Threads -> {"idle", "called", "done"}]
  BY DEF Inv, Threads, F!Threads, Status
<1> USE <1>0 DEF TypeOK, At
<1> DEFINE Kept(t) == \A u \in Threads \ {t} : Status'[u] = Status[u]
<1>a. \A t \in Threads, s \in {"idle", "called", "done"} :
        Kept(t) /\ Status'[t] = s => Status' = [Status EXCEPT ![t] = s]
  <2>1. Status' = [u \in Threads |-> Status'[u]] /\ Status = [u \in Threads |-> Status[u]]
    BY DEF Status
  <2> QED
    BY <2>1
<1>1. CASE UNCHANGED vars
  BY <1>1 DEF vars, F!fifoVars, Status
<1>2. ASSUME NEW t \in Threads, Invoke(t) PROVE F!Invoke(t)
  <2>1. Status[t] = "idle" /\ Status'[t] = "called" /\ Kept(t)
    BY <1>2 DEF Invoke, Status
  <2> QED
    BY <1>a, <1>2, <2>1 DEF Invoke, F!Invoke, Operations, F!Operations
<1>3. ASSUME NEW t \in Threads,
             Lock(t) \/ PutSignal(t) \/ GetBlock(t) \/ WaitBlock(t)
               \/ WaitTimeout(t) \/ Spurious(t)
      PROVE UNCHANGED F!fifoVars
  <2>1. UNCHANGED <<queue, op, result>>
    BY <1>3 DEF Lock, PutSignal, GetBlock, WaitBlock, Block, WaitTimeout, Spurious
  <2>2. \A u \in Threads : Status'[u] = Status[u]
    BY <1>3 DEF Lock, PutSignal, Blocked, GetBlock, WaitBlock, Block, WaitTimeout,
                Spurious, Status
  <2>3. Status' = Status
    BY <2>2 DEF Status
  <2> QED
    BY <2>1, <2>3 DEF F!fifoVars
<1>4. ASSUME NEW t \in Threads, PutPush(t) PROVE F!Put(t)
  <2>1. Status[t] = "called" /\ Status'[t] = "done" /\ Kept(t)
    BY <1>4 DEF PutPush, Status
  <2>2. result' = [result EXCEPT ![t] = "none"]
    BY <1>4 DEF PutPush, OpInv
  <2> QED
    BY <1>a, <1>4, <2>1, <2>2 DEF PutPush, F!Put, F!Effect
<1>5. ASSUME NEW t \in Threads, GetTake(t) PROVE F!Get(t)
  <2>1. Status[t] = "called" /\ Status'[t] = "done" /\ Kept(t)
    BY <1>5 DEF GetTake, Status
  <2> QED
    BY <1>a, <1>5, <2>1 DEF GetTake, F!Get, F!Effect
<1>6. ASSUME NEW t \in Threads, WaitReady(t) \/ WaitLate(t) PROVE F!Wait(t)
  <2>1. Status[t] = "called" /\ Status'[t] = "done" /\ Kept(t) /\ op[t] = "wait"
    BY <1>6 DEF WaitReady, WaitLate, Status, OpInv
  <2> QED
    BY <1>a, <1>6, <2>1 DEF WaitReady, WaitLate, F!Wait, F!Effect
<1>7. ASSUME NEW t \in Threads, Clear(t) PROVE F!Clear(t)
  <2>1. Status[t] = "called" /\ Status'[t] = "done" /\ Kept(t)
    BY <1>7 DEF Clear, Status
  <2>2. result' = [result EXCEPT ![t] = "none"]
    BY <1>7 DEF Clear, OpInv
  <2> QED
    BY <1>a, <1>7, <2>1, <2>2 DEF Clear, F!Clear, F!Effect
<1>8. ASSUME NEW t \in Threads, Unlock(t) PROVE F!Return(t)
  <2>1. Status[t] = "done" /\ Status'[t] = "idle" /\ Kept(t)
    BY <1>8 DEF Unlock, Status
  <2> QED
    BY <1>a, <1>8, <2>1 DEF Unlock, F!Return
<1> QED
  BY <1>1, <1>2, <1>3, <1>4, <1>5, <1>6, <1>7, <1>8 DEF Next, Proceed, F!Next

\* Queue<T> implements the list that the parallel search takes it to be.
THEOREM QueueImplementsFifo == Spec => ImplementsFifo
<1>1. Init => F!Init
  BY DEF Init, F!Init, Status, Threads, F!Threads
<1> QED
  BY <1>1, Invariant, StepsMapped, PTL DEF Spec, ImplementsFifo, F!Spec

-----------------------------------------------------------------------------
(* The clock: its methods. *)

\* A clock that allocate_time() may be called for.
Sane(c) == c \in Clock /\ (c.mode = "CONV" => c.remaining_moves \in 1 .. BaseMoves)

\* The share of a move is a number: the division is by a positive count.
LEMMA ShareIsNumber ==
  ASSUME NEW c, Sane(c)
  PROVE  RemainingSafe(c) \in Int /\ Share(c) \in Int /\ WithMargin(c) \in Nat
<1>1. RemainingSafe(c) \in Int
  BY ClockAssumption DEF Sane, Clock, RemainingSafe
<1>2. Share(c) \in Int
  <2>1. CASE c.mode = "CONV"
    <3>1. c.remaining_moves \in Int /\ c.remaining_moves > 0
      BY <2>1, ClockAssumption DEF Sane
    <3> QED
      BY <1>1, <2>1, <3>1 DEF Share
  <2>2. CASE c.mode # "CONV"
    BY <1>1, <2>2, ClockAssumption DEF Share
  <2> QED
    BY <2>1, <2>2
<1>3. WithMargin(c) \in Nat
  <2>1. c.over_time \in Nat
    BY DEF Sane, Clock
  <2> QED
    BY <1>2, <2>1 DEF WithMargin
<1> QED
  BY <1>1, <1>2, <1>3

\* allocate_time() sets both limits so that the reserve is kept.
LEMMA AllocatedKeepsReserve ==
  ASSUME NEW c, Sane(c)
  PROVE  /\ Sane(Allocated(c))
         /\ Allocated(c).mode = c.mode
         /\ c.mode \in Timed =>
              /\ Allocated(c).limit <= Allocated(c).hard_limit
              /\ Allocated(c).hard_limit = 0
                   \/ Allocated(c).hard_limit + Second <= Allocated(c).remaining_time
<1>0. /\ RemainingSafe(c) \in Int /\ WithMargin(c) \in Nat
      /\ c.remaining_time \in Int /\ c.lost_time \in Nat
      /\ RemainingSafe(c) = c.remaining_time - 2 * c.lost_time - Second
  BY ShareIsNumber DEF Sane, Clock, RemainingSafe
<1> DEFINE a == Allocated(c)
<1>1. CASE c.mode \notin Timed
  BY <1>1 DEF Allocated, Sane
<1>2. CASE c.mode \in Timed /\ RemainingSafe(c) <= 0
  <2>1. a = [c EXCEPT !.limit = 0, !.hard_limit = 0]
    BY <1>2 DEF Allocated
  <2>2. Sane(a) /\ a.mode = c.mode /\ a.limit = 0 /\ a.hard_limit = 0
    <3> HIDE DEF a
    <3> QED
      BY <2>1 DEF Sane, Clock
  <2> QED
    BY <2>2
<1>3. CASE c.mode \in Timed /\ RemainingSafe(c) > 0 /\ 2 * WithMargin(c) > RemainingSafe(c)
  <2>1. a = [c EXCEPT !.limit = RemainingSafe(c), !.hard_limit = RemainingSafe(c)]
    BY <1>0, <1>3 DEF Allocated
  <2>2. RemainingSafe(c) \in Nat
    BY <1>0, <1>3
  <2>3. Sane(a) /\ a.mode = c.mode /\ a.limit = RemainingSafe(c)
        /\ a.hard_limit = RemainingSafe(c) /\ a.remaining_time = c.remaining_time
    <3> HIDE DEF a
    <3> QED
      BY <2>1, <2>2 DEF Sane, Clock
  <2> QED
    BY <1>0, <2>3, ClockAssumption
<1>4. CASE c.mode \in Timed /\ RemainingSafe(c) > 0 /\ ~(2 * WithMargin(c) > RemainingSafe(c))
  <2>1. a = [c EXCEPT !.limit = WithMargin(c), !.hard_limit = 2 * WithMargin(c)]
    BY <1>0, <1>4 DEF Allocated
  <2>2. 2 * WithMargin(c) \in Nat
    BY <1>0
  <2>3. Sane(a) /\ a.mode = c.mode /\ a.limit = WithMargin(c)
        /\ a.hard_limit = 2 * WithMargin(c) /\ a.remaining_time = c.remaining_time
    <3> HIDE DEF a
    <3> QED
      BY <1>0, <2>1, <2>2 DEF Sane, Clock
  <2> QED
    BY <1>0, <1>4, <2>3, ClockAssumption
<1> QED
  BY <1>0, <1>1, <1>2, <1>3, <1>4

\* allocate_more_time() raises the limit, at most to the hard limit.
LEMMA MoreTimeBounded ==
  ASSUME NEW c, Sane(c), NEW t \in Nat, c.mode \in Timed => c.limit <= c.hard_limit
  PROVE  /\ Sane(MoreTime(c, t))
         /\ MoreTime(c, t).mode = c.mode
         /\ MoreTime(c, t).hard_limit = c.hard_limit
         /\ MoreTime(c, t).remaining_time = c.remaining_time
         /\ MoreTime(c, t).limit >= c.limit
         /\ c.mode \in Timed => MoreTime(c, t).limit <= c.hard_limit
<1>0. c.limit \in Nat /\ c.hard_limit \in Nat
  BY DEF Sane, Clock
<1>1. CASE c.mode \notin Timed
  BY <1>0, <1>1 DEF MoreTime
<1>2. CASE c.mode \in Timed
  <2> DEFINE l == IF c.limit + t > c.hard_limit THEN c.hard_limit ELSE c.limit + t
  <2>1. l \in Nat /\ l >= c.limit /\ l <= c.hard_limit
    BY <1>0, <1>2
  <2>2. MoreTime(c, t) = [c EXCEPT !.limit = l]
    BY <1>2 DEF MoreTime
  <2> HIDE DEF l
  <2> QED
    BY <1>2, <2>1, <2>2 DEF Sane, Clock
<1> QED
  BY <1>1, <1>2

\* stop() charges the elapsed time and keeps the count of moves positive.
LEMMA StoppedSane ==
  ASSUME NEW c, Sane(c), NEW e \in Nat
  PROVE  /\ Sane(Stopped(c, e))
         /\ Stopped(c, e).mode = c.mode
         /\ c.mode \in Timed => Stopped(c, e).remaining_time >= c.remaining_time - e
<1>0. /\ c \in Clock /\ c.remaining_time \in Int /\ c.limit \in Nat
      /\ c.remaining_moves \in Nat
  BY DEF Sane, Clock
<1>1. Sane(Updated(c, e)) /\ Updated(c, e).mode = c.mode
      /\ Updated(c, e).remaining_time \in Int
      /\ (c.mode \in Timed => Updated(c, e).remaining_time >= c.remaining_time - e)
  <2> DEFINE u == Updated(c, e)
             t == c.remaining_time - e
  <2>0. t \in Int /\ t + BaseTime \in Int /\ t + Increment \in Int
        /\ t + BaseTime >= t /\ t + Increment >= t /\ t >= t
    BY <1>0, ClockAssumption
  <2>1. CASE c.mode = "CONV" /\ c.remaining_moves = 1
    <3>1. u = [c EXCEPT !.remaining_time = t + BaseTime, !.remaining_moves = BaseMoves]
      BY <2>1 DEF Updated
    <3>2. BaseMoves \in Nat /\ BaseMoves \in 1 .. BaseMoves
      BY ClockAssumption
    <3> HIDE DEF u, t
    <3>3. Sane(u) /\ u.mode = c.mode /\ u.remaining_time = t + BaseTime
      BY <1>0, <2>0, <2>1, <3>1, <3>2 DEF Sane, Clock
    <3> QED
      BY <2>0, <3>3 DEF u, t
  <2>2. CASE c.mode = "CONV" /\ c.remaining_moves # 1
    <3>1. u = [c EXCEPT !.remaining_time = t, !.remaining_moves = c.remaining_moves - 1]
      BY <2>2 DEF Updated
    <3>2. c.remaining_moves - 1 \in Nat /\ c.remaining_moves - 1 \in 1 .. BaseMoves
      BY <1>0, <2>2, ClockAssumption DEF Sane
    <3> HIDE DEF u, t
    <3>3. Sane(u) /\ u.mode = c.mode /\ u.remaining_time = t
      BY <1>0, <2>0, <2>2, <3>1, <3>2 DEF Sane, Clock
    <3> QED
      BY <2>0, <3>3 DEF u, t
  <2>3. CASE c.mode = "INCR"
    <3>1. u = [c EXCEPT !.remaining_time = t + Increment]
      BY <2>3 DEF Updated
    <3> HIDE DEF u, t
    <3>2. Sane(u) /\ u.mode = c.mode /\ u.remaining_time = t + Increment
      BY <1>0, <2>0, <2>3, <3>1 DEF Sane, Clock
    <3> QED
      BY <2>0, <3>2 DEF u, t
  <2>4. CASE c.mode = "SUDDENDEATH"
    <3>1. u = [c EXCEPT !.remaining_time = t]
      BY <2>4 DEF Updated
    <3> HIDE DEF u, t
    <3>2. Sane(u) /\ u.mode = c.mode /\ u.remaining_time = t
      BY <1>0, <2>0, <2>4, <3>1 DEF Sane, Clock
    <3> QED
      BY <2>0, <3>2 DEF u, t
  <2>5. CASE c.mode \notin Timed
    BY <1>0, <2>5 DEF Updated, Timed, Sane
  <2> QED
    BY <2>1, <2>2, <2>3, <2>4, <2>5 DEF Timed
<1>2. CASE ~c.running
  BY <1>0, <1>2 DEF Stopped
<1>3. CASE c.running
  <2> DEFINE u == Updated(c, e)
             o == IF c.mode # "NONE" /\ e > c.limit THEN e - c.limit ELSE 0
  <2>1. Stopped(c, e) = [u EXCEPT !.running = FALSE, !.over_time = o]
    BY <1>3 DEF Stopped
  <2>2. o \in Nat
    BY <1>0
  <2>3. Sane(u) /\ u.mode = c.mode
        /\ (c.mode \in Timed => u.remaining_time >= c.remaining_time - e)
    BY <1>1
  <2> HIDE DEF u, o
  <2> QED
    BY <2>1, <2>2, <2>3 DEF Sane, Clock
<1> QED
  BY <1>2, <1>3

-----------------------------------------------------------------------------
(* The clock over a game. *)

\* A search that has seen the timeout would see it again.
TimeoutKept == searching /\ stop => TimedOut(clock, elapsed)

\* A search is over before its side's clock is stopped.
SearchRuns == searching => clock.running

ClockInv == ClockTypeOK /\ MovesRemain /\ ReserveKept /\ TimeoutKept /\ SearchRuns

\* The initial state satisfies the invariant.
LEMMA ClockInvInit == ClockInit => ClockInv
<1> SUFFICES ASSUME ClockInit PROVE ClockInv
  OBVIOUS
<1>1. PICK mode \in Modes : clock = NewClock(mode)
  BY DEF ClockInit
<1>2. clock \in Clock /\ clock.remaining_moves = BaseMoves
  <2>1. (IF mode = "EXACT" THEN Exact ELSE 0) \in Nat
    BY ClockAssumption
  <2> QED
    BY <1>1, <2>1, ClockAssumption DEF NewClock, Clock
<1>3. BaseMoves \in 1 .. BaseMoves
  BY ClockAssumption
<1> QED
  BY <1>2, <1>3
  DEF ClockInit, ClockInv, ClockTypeOK, MovesRemain, ReserveKept, TimeoutKept, SearchRuns

\* Facts about the state that every step of the proof below uses.
LEMMA InvFacts ==
  ASSUME ClockInv
  PROVE  /\ Sane(clock) /\ clock \in Clock
         /\ clock.limit \in Nat /\ clock.hard_limit \in Nat /\ clock.over_time \in Nat
         /\ clock.remaining_time \in Int /\ clock.running \in BOOLEAN
         /\ elapsed \in Nat /\ moves \in Nat
         /\ searching \in BOOLEAN /\ stop \in BOOLEAN /\ extended \in BOOLEAN
BY DEF ClockInv, ClockTypeOK, MovesRemain, Sane, Clock

\* The invariant when no search is in progress.
LEMMA InvIdle ==
  ASSUME Sane(clock)', elapsed' \in Nat, moves' \in Nat, searching' = FALSE,
         stop' \in BOOLEAN, extended' \in BOOLEAN
  PROVE  ClockInv'
BY DEF ClockInv, ClockTypeOK, MovesRemain, ReserveKept, TimeoutKept, SearchRuns, Sane

\* The invariant while a search is in progress.
LEMMA InvSearching ==
  ASSUME Sane(clock)', clock'.running, elapsed' \in Nat, moves' \in Nat, searching' = TRUE,
         stop' \in BOOLEAN, extended' \in BOOLEAN, ReserveKept', TimeoutKept'
  PROVE  ClockInv'
BY DEF ClockInv, ClockTypeOK, MovesRemain, SearchRuns, Sane

\* One search step: the limits are raised at most to the hard limit.
LEMMA CheckTimeStep ==
  ASSUME ClockInv, CheckTime
  PROVE  /\ ClockInv' /\ clock'.limit >= clock.limit
         /\ stop => clock' = clock
<1>0. /\ Sane(clock) /\ clock.limit \in Nat /\ clock.hard_limit \in Nat
      /\ elapsed \in Nat /\ extended \in BOOLEAN /\ stop \in BOOLEAN
      /\ searching /\ clock.running /\ moves \in Nat
  BY InvFacts DEF ClockInv, SearchRuns, CheckTime
<1>1. UNCHANGED <<elapsed, searching, moves>> /\ extended' \in BOOLEAN
  BY <1>0 DEF CheckTime
<1>10. /\ searching' = TRUE /\ elapsed' \in Nat /\ moves' \in Nat
  <2>1. searching = TRUE
    BY <1>0 DEF ClockInv, ClockTypeOK
  <2> QED
    BY <1>0, <1>1, <2>1
<1>2. CASE TimedOut(clock, elapsed)
  <2>1. clock' = clock /\ stop' = TRUE
    BY <1>2 DEF CheckTime
  <2> QED
    BY <1>0, <1>1, <1>2, <2>1
    DEF ClockInv, ClockTypeOK, MovesRemain, ReserveKept, TimeoutKept, SearchRuns
<1>3. CASE ~TimedOut(clock, elapsed)
  <2>1. ~stop /\ stop' = FALSE
    <3>1. ~stop
      BY <1>0, <1>3 DEF ClockInv, TimeoutKept
    <3>2. stop' = stop /\ stop \in BOOLEAN
      BY <1>0, <1>3 DEF CheckTime
    <3> QED
      BY <3>1, <3>2
  <2>10. TimeoutKept' /\ stop' \in BOOLEAN
    BY <2>1 DEF TimeoutKept
  <2>2. CASE clock' = clock
    <3>1. clock'.limit >= clock.limit
      BY <1>0, <2>2
    <3>2. ReserveKept'
      BY <1>0, <1>1, <2>2 DEF ClockInv, ReserveKept
    <3>3. ClockInv'
      BY <1>0, <1>1, <1>10, <2>10, <2>2, <3>2, InvSearching
    <3> QED
      BY <2>2, <3>1, <3>3
  <2>3. CASE clock' # clock
    <3>1. PICK t \in Extensions : clock' = MoreTime(clock, t)
      BY <1>3, <2>3 DEF CheckTime
    <3>2. t \in Nat /\ (clock.mode \in Timed => clock.limit <= clock.hard_limit)
      BY <1>0, GameAssumption DEF ClockInv, ReserveKept
    <3>3. /\ Sane(clock') /\ clock'.mode = clock.mode
          /\ clock'.hard_limit = clock.hard_limit
          /\ clock'.remaining_time = clock.remaining_time
          /\ clock'.limit >= clock.limit
          /\ clock.mode \in Timed => clock'.limit <= clock.hard_limit
      BY <1>0, <3>1, <3>2, MoreTimeBounded
    <3>4. clock'.running /\ clock'.limit \in Nat
      BY <1>0, <3>1, <3>3 DEF MoreTime, Sane, Clock
    <3>5. ReserveKept'
      BY <1>0, <3>3, <3>4 DEF ClockInv, ReserveKept
    <3>6. ClockInv'
      BY <1>1, <1>10, <2>10, <3>3, <3>4, <3>5, InvSearching
    <3> QED
      BY <2>1, <3>3, <3>6
  <2> QED
    BY <2>2, <2>3
<1> QED
  BY <1>2, <1>3

\* Every step preserves the invariant.
LEMMA InvStep == ClockInv /\ [ClockNext]_clockVars => ClockInv'
<1> SUFFICES ASSUME ClockInv, [ClockNext]_clockVars PROVE ClockInv'
  OBVIOUS
<1>0. /\ Sane(clock) /\ clock \in Clock /\ elapsed \in Nat /\ moves \in Nat
      /\ searching \in BOOLEAN /\ stop \in BOOLEAN /\ extended \in BOOLEAN
  BY InvFacts
<1>1. CASE Start
  <2>1. ~searching
    BY <1>0, <1>1 DEF Start, ClockInv, SearchRuns
  <2>2. Sane(clock')
    BY <1>0, <1>1 DEF Start, Started, Sane, Clock
  <2> QED
    BY <1>0, <1>1, <2>1, <2>2, InvIdle DEF Start
<1>2. CASE BeginSearch
  <2>1. clock' = Allocated(clock) /\ searching' = TRUE /\ stop' = FALSE
        /\ extended' = FALSE /\ UNCHANGED <<elapsed, moves>> /\ clock.running
    BY <1>2 DEF BeginSearch
  <2>2. /\ Sane(clock') /\ clock'.mode = clock.mode
        /\ clock.mode \in Timed =>
              /\ clock'.limit <= clock'.hard_limit
              /\ clock'.hard_limit = 0 \/ clock'.hard_limit + Second <= clock'.remaining_time
    BY <1>0, <2>1, AllocatedKeepsReserve
  <2>3. clock'.running
    BY <1>0, <2>1 DEF Allocated, Clock
  <2>4. clock'.limit \in Nat /\ clock' \in Clock
    BY <2>2 DEF Sane, Clock
  <2>5. ReserveKept'
    BY <1>0, <2>2, <2>4 DEF ReserveKept
  <2> QED
    BY <1>0, <2>1, <2>2, <2>3, <2>5, InvSearching DEF TimeoutKept
<1>3. CASE CheckTime
  BY <1>3, CheckTimeStep
<1>4. CASE Move
  <2>1. Sane(clock')
    BY <1>0, <1>4, StoppedSane DEF Move
  <2>2. moves' \in Nat
    BY <1>0, <1>4 DEF Move
  <2> QED
    BY <1>0, <1>4, <2>1, <2>2, InvIdle DEF Move
<1>5. CASE TimeCommand
  <2>1. PICK t \in Reported : clock' = WithRemaining(clock, t)
    BY <1>5 DEF TimeCommand
  <2>2. t \in Nat /\ clock.remaining_time \in Int
    BY <1>0, GameAssumption DEF Clock
  <2> DEFINE l == IF t < clock.remaining_time THEN clock.remaining_time - t ELSE 0
  <2>3. l \in Nat /\ clock' = [clock EXCEPT !.remaining_time = t, !.lost_time = l]
    BY <2>1, <2>2 DEF WithRemaining
  <2>4. Sane(clock')
    <3> HIDE DEF l
    <3>1. t \in Int
      BY <2>2
    <3> QED
      BY <1>0, <2>3, <3>1 DEF Sane, Clock
  <2> QED
    BY <1>0, <1>5, <2>4, InvIdle DEF TimeCommand
<1>6. CASE GoCommand
  <2>1. Sane(clock')
    BY <1>0, <1>6 DEF GoCommand, TurnedBack, Sane, Clock
  <2> QED
    BY <1>0, <1>6, <2>1, InvIdle DEF GoCommand
<1>7. CASE Tick
  <2>1. PICK d \in Delays : elapsed' = elapsed + d
    BY <1>7 DEF Tick
  <2>2. elapsed' \in Nat /\ elapsed' >= elapsed
    BY <1>0, <2>1, GameAssumption
  <2>3. clock.limit \in Nat
    BY <1>0 DEF Clock
  <2>4. TimeoutKept'
    BY <1>0, <1>7, <2>2, <2>3 DEF Tick, ClockInv, TimeoutKept, TimedOut
  <2> QED
    BY <1>0, <1>7, <2>2, <2>4
    DEF Tick, ClockInv, ClockTypeOK, MovesRemain, ReserveKept, SearchRuns
<1>8. CASE UNCHANGED clockVars
  BY <1>0, <1>8
  DEF clockVars, ClockInv, ClockTypeOK, MovesRemain, ReserveKept, TimeoutKept, SearchRuns, TimedOut
<1> QED
  BY <1>1, <1>2, <1>3, <1>4, <1>5, <1>6, <1>7, <1>8 DEF ClockNext

\* The invariant holds throughout.
LEMMA InvAlways == ClockSpec => []ClockInv
<1> QED
  BY ClockInvInit, InvStep, PTL DEF ClockSpec

\* The clock keeps its types whatever the game does with it.
THEOREM ClockTypes == ClockSpec => []ClockTypeOK
<1>1. ClockInv => ClockTypeOK
  BY DEF ClockInv
<1> QED
  BY InvAlways, <1>1, PTL

\* allocate_time() never divides by zero moves.
THEOREM ClockMovesRemain == ClockSpec => []MovesRemain
<1>1. ClockInv => MovesRemain
  BY DEF ClockInv
<1> QED
  BY InvAlways, <1>1, PTL

\* A search is never allowed to think into the reserve.
THEOREM ClockReserveKept == ClockSpec => []ReserveKept
<1>1. ClockInv => ReserveKept
  BY DEF ClockInv
<1> QED
  BY InvAlways, <1>1, PTL

\* A move not later than the reserve never brings the clock below zero.
THEOREM ClockNeverFlagged == ClockSpec => NeverFlagged
<1> DEFINE A == Move /\ searching /\ clock.mode \in Timed
                  /\ clock.limit > 0 /\ elapsed <= clock.limit + Second
                => clock'.remaining_time >= 0
<1>1. ClockInv => A
  <2> SUFFICES ASSUME ClockInv, Move, searching, clock.mode \in Timed,
                      clock.limit > 0, elapsed <= clock.limit + Second
               PROVE  clock'.remaining_time >= 0
    OBVIOUS
  <2>0. /\ Sane(clock) /\ elapsed \in Nat /\ clock.limit \in Nat
        /\ clock.hard_limit \in Nat /\ clock.remaining_time \in Int
    BY InvFacts
  <2>1. clock.limit <= clock.hard_limit /\ clock.hard_limit + Second <= clock.remaining_time
    BY <2>0 DEF ClockInv, ReserveKept
  <2>2. clock.remaining_time - elapsed >= 0
    BY <2>0, <2>1, ClockAssumption
  <2>3. Sane(clock') /\ clock'.remaining_time >= clock.remaining_time - elapsed
    BY <2>0, StoppedSane DEF Move
  <2>4. clock'.remaining_time \in Int
    BY <2>3 DEF Sane, Clock
  <2> QED
    BY <2>0, <2>2, <2>3, <2>4
<1> QED
  BY InvAlways, <1>1, PTL DEF NeverFlagged

\* The limit of a search only grows, and not after a timeout.
THEOREM ClockLimitGrows == ClockSpec => LimitGrows
<1> DEFINE A == searching /\ searching' =>
                  clock'.limit >= clock.limit /\ (stop => clock' = clock)
<1>1. ClockInv /\ [ClockNext]_clockVars => A
  <2> SUFFICES ASSUME ClockInv, [ClockNext]_clockVars, searching, searching' PROVE A
    OBVIOUS
  <2>0. clock.limit \in Nat /\ clock.running /\ clock.limit >= clock.limit
    BY InvFacts DEF ClockInv, SearchRuns
  <2>1. CASE CheckTime
    BY <2>1, CheckTimeStep
  <2>2. CASE clock' = clock
    BY <2>0, <2>2
  <2> QED
    BY <2>0, <2>1, <2>2
    DEF ClockNext, Start, BeginSearch, Move, TimeCommand, GoCommand, Tick, clockVars
<1> QED
  BY InvAlways, <1>1, PTL DEF ClockSpec, LimitGrows

=============================================================================
