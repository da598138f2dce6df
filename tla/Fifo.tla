-------------------------------- MODULE Fifo --------------------------------
(***************************************************************************)
(* What Queue<T> (src/src/queue.h) promises to the threads that use it: a   *)
(* first-in first-out list on which each operation takes effect at a single *)
(* moment between its call and its return.  ParallelSearch relies on this   *)
(* when it treats ready_queue as a sequence.                                *)
(***************************************************************************)
EXTENDS Sequences

CONSTANTS Producers,  \* the threads that put() (each puts its own index)
          Consumers   \* the threads that get(), wait() and clear()

VARIABLES contents,   \* the list
          op,         \* the operation each thread is in, "none" outside
          status,     \* "idle", "called", or "done" once it has taken effect
          result      \* what the operation will return

fifoVars == <<contents, op, status, result>>

Threads == Producers \union Consumers
Operations(t) ==
  (IF t \in Producers THEN {"put"} ELSE {}) \union
  (IF t \in Consumers THEN {"get", "wait", "clear"} ELSE {})

Init ==
  /\ contents = <<>>
  /\ op = [t \in Threads |-> "none"]
  /\ status = [t \in Threads |-> "idle"]
  /\ result = [t \in Threads |-> "none"]

Invoke(t) ==
  /\ status[t] = "idle"
  /\ \E o \in Operations(t) : op' = [op EXCEPT ![t] = o]
  /\ status' = [status EXCEPT ![t] = "called"]
  /\ UNCHANGED <<contents, result>>

Effect(t, o, r) ==
  /\ status[t] = "called" /\ op[t] = o
  /\ status' = [status EXCEPT ![t] = "done"]
  /\ result' = [result EXCEPT ![t] = r]
  /\ UNCHANGED op

Put(t) == Effect(t, "put", "none") /\ contents' = Append(contents, t)

Get(t) ==
  /\ contents # <<>>
  /\ Effect(t, "get", Head(contents)) /\ contents' = Tail(contents)

\* wait() says "ready" only if there is an element; it may time out at any time.
Wait(t) ==
  /\ \/ contents # <<>> /\ Effect(t, "wait", "ready")
     \/ Effect(t, "wait", "timeout")
  /\ UNCHANGED contents

Clear(t) == Effect(t, "clear", "none") /\ contents' = <<>>

Return(t) ==
  /\ status[t] = "done"
  /\ status' = [status EXCEPT ![t] = "idle"]
  /\ op' = [op EXCEPT ![t] = "none"]
  /\ result' = [result EXCEPT ![t] = "none"]
  /\ UNCHANGED contents

Next == \E t \in Threads :
  Invoke(t) \/ Put(t) \/ Get(t) \/ Wait(t) \/ Clear(t) \/ Return(t)

Spec == Init /\ [][Next]_fifoVars

=============================================================================
