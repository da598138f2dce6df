-------------------------------- MODULE Queue -------------------------------
(***************************************************************************)
(* Queue<T> (src/src/queue.h) as built on POSIX threads: a list protected   *)
(* by a mutex, and a condition variable on which get() and wait() block     *)
(* while the list is empty.  pthread_cond_signal() wakes at most one thread *)
(* that blocks; a thread may also wake up for no reason, and has to acquire *)
(* the mutex again before it looks at the list.                             *)
(*                                                                          *)
(* The threads are those of the parallel search: each slave puts its index  *)
(* once per search and is not started again before the index is taken or    *)
(* dropped, which bounds the list.                                          *)
(***************************************************************************)
EXTENDS Naturals, Sequences

CONSTANTS Producers,  \* slave threads
          Consumers,  \* the master thread
          NoThread

ASSUME ThreadsAssumption ==
  /\ Producers \intersect Consumers = {}
  /\ NoThread \notin Producers \union Consumers
  /\ \A c, d \in Consumers : c = d
  /\ "none" \notin Producers /\ "ready" \notin Producers /\ "timeout" \notin Producers

VARIABLES queue,   \* the list
          owner,   \* the thread that holds the mutex
          pc,      \* control point of each thread
          op,      \* the operation each thread is in
          result   \* its return value

vars == <<queue, owner, pc, op, result>>

Threads == Producers \union Consumers

Operations(t) ==
  (IF t \in Producers THEN {"put"} ELSE {}) \union
  (IF t \in Consumers THEN {"get", "wait", "clear"} ELSE {})

Queued(t) == \E i \in 1 .. Len(queue) : queue[i] = t

At(t, label) == pc' = [pc EXCEPT ![t] = label]

Init ==
  /\ queue = <<>>
  /\ owner = NoThread
  /\ pc = [t \in Threads |-> "idle"]
  /\ op = [t \in Threads |-> "none"]
  /\ result = [t \in Threads |-> "none"]

\* A slave whose index is still in the list does not run.
Invoke(t) ==
  /\ pc[t] = "idle" /\ ~Queued(t)
  /\ \E o \in Operations(t) : op' = [op EXCEPT ![t] = o]
  /\ At(t, "lock")
  /\ UNCHANGED <<queue, owner, result>>

\* pthread_mutex_lock(), or the mutex being acquired again inside
\* pthread_cond_wait() after a wakeup.
Lock(t) ==
  /\ pc[t] = "lock" /\ owner = NoThread
  /\ owner' = t
  /\ At(t, "body")
  /\ UNCHANGED <<queue, op, result>>

PutPush(t) ==
  /\ pc[t] = "body" /\ op[t] = "put"
  /\ queue' = Append(queue, t)
  /\ At(t, "signal")
  /\ UNCHANGED <<owner, op, result>>

Blocked == {t \in Threads : pc[t] = "blocked"}

\* Fault: nobody is woken up.
PutSignalFault(t) ==
  /\ pc[t] = "signal"
  /\ At(t, "unlock")
  /\ UNCHANGED <<queue, owner, op, result>>

\* pthread_cond_signal() while the mutex is held.
PutSignal(t) ==
  /\ pc[t] = "signal"
  /\ \/ Blocked = {} /\ At(t, "unlock")
     \/ \E w \in Blocked : pc' = [pc EXCEPT ![t] = "unlock", ![w] = "lock"]
  /\ UNCHANGED <<queue, owner, op, result>>

\* pthread_cond_wait() and pthread_cond_timedwait() release the mutex and block
\* in one step.
Block(t) ==
  /\ owner' = NoThread
  /\ At(t, "blocked")
  /\ UNCHANGED <<queue, op, result>>

\* Fault: the list is read without being tested again after a wakeup.
GetTakeFault(t) ==
  /\ pc[t] = "body" /\ op[t] = "get"
  /\ result' = [result EXCEPT ![t] = IF queue = <<>> THEN NoThread ELSE Head(queue)]
  /\ queue' = IF queue = <<>> THEN queue ELSE Tail(queue)
  /\ At(t, "unlock")
  /\ UNCHANGED <<owner, op>>

GetTake(t) ==
  /\ pc[t] = "body" /\ op[t] = "get" /\ queue # <<>>
  /\ result' = [result EXCEPT ![t] = Head(queue)]
  /\ queue' = Tail(queue)
  /\ At(t, "unlock")
  /\ UNCHANGED <<owner, op>>

GetBlock(t) == pc[t] = "body" /\ op[t] = "get" /\ queue = <<>> /\ Block(t)

WaitReady(t) ==
  /\ pc[t] = "body" /\ op[t] = "wait" /\ queue # <<>>
  /\ result' = [result EXCEPT ![t] = "ready"]
  /\ At(t, "unlock")
  /\ UNCHANGED <<queue, owner, op>>

WaitBlock(t) == pc[t] = "body" /\ op[t] = "wait" /\ queue = <<>> /\ Block(t)

\* ETIMEDOUT is returned once the mutex is held again, and breaks the loop
\* without another look at the list.
WaitTimeout(t) ==
  /\ pc[t] = "blocked" /\ op[t] = "wait"
  /\ At(t, "late")
  /\ UNCHANGED <<queue, owner, op, result>>

WaitLate(t) ==
  /\ pc[t] = "late" /\ owner = NoThread
  /\ owner' = t
  /\ result' = [result EXCEPT ![t] = "timeout"]
  /\ At(t, "unlock")
  /\ UNCHANGED <<queue, op>>

Clear(t) ==
  /\ pc[t] = "body" /\ op[t] = "clear"
  /\ queue' = <<>>
  /\ At(t, "unlock")
  /\ UNCHANGED <<owner, op, result>>

\* A wakeup without a signal.
Spurious(t) ==
  /\ pc[t] = "blocked"
  /\ At(t, "lock")
  /\ UNCHANGED <<queue, owner, op, result>>

\* pthread_mutex_unlock() and return.
Unlock(t) ==
  /\ pc[t] = "unlock"
  /\ owner' = NoThread
  /\ op' = [op EXCEPT ![t] = "none"]
  /\ result' = [result EXCEPT ![t] = "none"]
  /\ At(t, "idle")
  /\ UNCHANGED queue

\* What a thread does by itself once it has called an operation.
Proceed(t) ==
  \/ Lock(t) \/ PutPush(t) \/ PutSignal(t)
  \/ GetTake(t) \/ GetBlock(t) \/ WaitReady(t) \/ WaitBlock(t) \/ WaitLate(t)
  \/ Clear(t) \/ Unlock(t)

Next == \E t \in Threads :
  Invoke(t) \/ Proceed(t) \/ WaitTimeout(t) \/ Spurious(t)

Spec == Init /\ [][Next]_vars

\* A thread inside an operation keeps running; wakeups come from signals only.
FairSpec == Spec /\ \A t \in Producers \union Consumers : WF_vars(Proceed(t))

-----------------------------------------------------------------------------
(* Properties. *)

Inside(t) == pc[t] \in {"body", "signal", "unlock"}

\* Types of all variables.
TypeOK ==
  /\ queue \in Seq(Producers)
  /\ owner \in Threads \union {NoThread}
  /\ pc \in [Threads -> {"idle", "lock", "body", "signal", "blocked", "late", "unlock"}]
  /\ op \in [Threads -> {"none", "put", "get", "wait", "clear"}]
  /\ result \in [Threads -> Producers \union {"none", "ready", "timeout"}]

\* The list is touched by one thread at a time: whoever is past the lock and not
\* blocked holds the mutex, also after pthread_cond_wait() has returned.
MutualExclusion == \A t \in Threads : Inside(t) <=> owner = t

\* No wakeup is lost: a get() sleeps on a list that is not empty only while the
\* put() that filled it is on its way to the signal.
NoLostWakeup ==
  Blocked # {} /\ queue # <<>> => \E p \in Producers : pc[p] = "signal"

\* Each operation takes effect at one moment between call and return.
Status ==
  [t \in Threads |-> IF pc[t] = "idle" THEN "idle"
                     ELSE IF pc[t] \in {"signal", "unlock"} THEN "done" ELSE "called"]

F == INSTANCE Fifo WITH contents <- queue, status <- Status

\* The queue is a first-in first-out list with atomic operations, as the
\* parallel search assumes of ready_queue.
ImplementsFifo == F!Spec

\* A get() returns if there is something to get.
GetReturns ==
  \A c \in Consumers :
    op[c] = "get" /\ queue # <<>> ~> op[c] # "get"

=============================================================================
