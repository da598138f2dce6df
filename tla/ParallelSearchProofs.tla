------------------------ MODULE ParallelSearchProofs ------------------------
(***************************************************************************)
(* Proofs about ParallelSearch, for any number of slaves, any depth, any    *)
(* numbers of moves and any time limit.                                     *)
(*                                                                          *)
(*   TypeInv       types, and the frame on top of the stack fits the        *)
(*                 control point;                                           *)
(*   SlaveInv      which slaves are busy, have a thread, are in the queue;  *)
(*   InterruptInv  how far an interrupt has come while the master waits;    *)
(*   RootIsBottom  search_root() is the outermost call;                     *)
(*   GenuineInv    while the limit is as allocated and the table was genuine  *)
(*                 at the start, a score that is not genuine exists only once   *)
(*                 the search is over; a raised limit makes the iteration the   *)
(*                 last one;                                                    *)
(*   TotalInv      the master's node count is the sum of what it has taken  *)
(*                 over from each slave;                                    *)
(*   NodesInv      the master's nodes are those that the calls in progress  *)
(*                 hold.                                                    *)
(***************************************************************************)
EXTENDS ParallelSearch, FiniteSetTheorems, FunctionTheorems, WellFoundedInduction, TLAPS

-----------------------------------------------------------------------------
(* The inductive invariant, in parts. *)

\* Values of "at" before the first move of a node is searched.
Early == {"none", "null", "iid"}

\* What the steps of a call make of its frame: a node that is split still has
\* its first move until that move is searched.
GoodFrame ==
  {f \in Frame :
     /\ f.kind = "root" => f.at \in {"none", "nullwin", "move"}
     /\ f.at = "first" => f.kind = "par"
     /\ f.kind = "par" /\ f.at \in Early => f.moves > 0}

\* The frame on top belongs to the call the control point is in.
TopFits ==
  /\ At \in {"root", "root_search"} => stack # <<>> /\ Top.kind = "root"
  /\ At = "root" => Top.moves > 0
  /\ At \in {"null", "iid", "first"} =>
       stack # <<>> /\ Top.kind # "root" /\ Top.at \in Early
  /\ At = "first" => Top.kind = "par"
  /\ At \in {"reduce", "seq", "seq_done"} => stack # <<>> /\ Top.kind = "seq"
  /\ At \in {"first_done", "done"} \union LoopPoints \union AbortPoints =>
       stack # <<>> /\ Top.at = "first"

\* Where check_time() and abort_all_slaves() return to.
ResumeFits ==
  /\ mpc \in {"check", "extend"} =>
       resume \in {"root_search", "iterated", "np_done", "seq_done", "first_done", "checked"}
  /\ mpc \in AbortPoints => resume \in {"done", "cancelled"}

\* search_root() is the outermost call and the only one of its kind.
RootIsBottom ==
  /\ \A i \in 1 .. Len(stack) : stack[i].kind = "root" <=> i = Len(stack)
  /\ At \in {"idle", "iterate", "iterated"} <=> stack = <<>>

\* Types and shapes.
TypeInv ==
  /\ TypeOK
  /\ stack \in Seq(GoodFrame)
  /\ TopFits
  /\ ResumeFits
  /\ SlaveNodesFit

\* The slave's index is in ready_queue.
Queued(s) == \E i \in 1 .. Len(ready_queue) : ready_queue[i] = s

\* No slave is in the queue twice.
NoDuplicates ==
  \A i, j \in 1 .. Len(ready_queue) : ready_queue[i] = ready_queue[j] => i = j

\* The master is in no function that hands out or collects searches.
Quiet == At \notin LoopPoints \union AbortPoints \union AlonePoints

\* Which slaves may be busy where.
BusySlaves ==
  /\ Quiet => \A s \in Slaves : Free(s)
  /\ At \in AlonePoints => \A s \in Slaves : Free(s) <=> s # id
  /\ At \in {"join", "abort_join"} => ~Free(id)
  /\ At \in {"checked", "wait"} => ~AllSlavesFree

\* Which slaves have a thread.
ThreadPhases ==
  \A s \in Slaves :
    /\ Free(s) => search[s].phase = "none"
    /\ ~Free(s) /\ At # "np_done" => search[s].phase # "none"
    /\ At = "np_done" => search[s].phase = "none"

\* Where the index of a slave that has reported is: in the queue, until the
\* master has taken it out to collect that slave.
QueueContents ==
  /\ NoDuplicates
  /\ \A s \in Slaves :
       Queued(s) => \/ search[s].phase = "posted" /\ ~Free(s)
                    \/ At \in AbortPoints /\ Free(s)
  /\ \A s \in Slaves :
       search[s].phase = "posted" /\ ~(At \in {"join", "np_join"} /\ s = id) => Queued(s)
  /\ At \in {"join", "np_join"} => search[id].phase = "posted" /\ ~Queued(id)
  /\ At \notin LoopPoints \union AbortPoints \union {"np_wait"} => ready_queue = <<>>

\* All of it.
SlaveInv == BusySlaves /\ ThreadPhases /\ QueueContents

\* An interrupt in progress has told the slaves below ipc to stop.
InterruptInv ==
  mpc = "wait" /\ stop =>
    \A s \in Slaves : s < ipc /\ search[s].phase = "running" => search[s].stop

\* The search is over, whether or not the master has noticed.
Over == stop \/ now >= limit

\* A slave that was told to stop, or has returned INT_MIN because of it, is
\* about to be aborted or the search is over.
SlavesGenuine ==
  \A s \in Slaves :
    \/ search[s].phase = "running" /\ search[s].stop
    \/ search[s].phase \in {"posting", "posted"} /\ search[s].score # "score"
    => Over \/ (At = "abort_join" /\ s = id)

\* The same for the values of the calls in progress...
StackGenuine == \A i \in 1 .. Len(stack) : stack[i].value # "score" => Over

\* ...and for what the master returns, stores and accepts.
MasterGenuine ==
  /\ ret # "score" /\ mpc # "idle" => Over
  /\ mpc # "check" /\ At = "iterated" /\ ret # "score" => stop
  /\ mpc \in AbortPoints /\ resume = "cancelled" => Over
  /\ ipc # NSlaves => stop
  /\ hashtable \subseteq {"score"} \/ Over

\* The three of them.
AllGenuine == SlavesGenuine /\ StackGenuine /\ MasterGenuine

\* The limit is the one allocated, and the table was genuine at the start.
Kept == limit = TimeLimit /\ ~stale

\* The limit is raised once, and no iteration follows.
LimitInv == limit >= TimeLimit /\ (limit > TimeLimit => stop_iteration)

\* All of it.
GenuineInv == (Kept => AllGenuine) /\ LimitInv /\ CancelledOnlyWhenExtended

-----------------------------------------------------------------------------
(* Which actions can change what. *)

USE DEF Next, Master, SlaveThread, Start, IterateRoot, RootMove, RootSearch,
        RootReturn, Iterated, CheckTimeout, ExtendTime, SearchLeaf, NonparallelStart,
        NonparallelWait, NonparallelJoin, NonparallelDone, SearchNode, NullMove,
        NullReturn, InternalDeepening, DeepeningReturn, SeqReduce, SeqMove, SeqReturn,
        SeqDone, SeqEnd, FirstMove, FirstReturn, FirstDone, GiveMove, NoMoveToGive,
        TestStop, WaitSlaveReady, SearchAgain, CollectSlave, AbortSlave, AbortJoin,
        AbortEnd, ParallelEnd, SlaveFinish, SlaveCancel, SlaveReady, Interrupt,
        InterruptSlave, Tick, Goto, Call, Return, Push, Replace, CheckTime, Store,
        vars, masterVars, iterVars, dataVars, slaveVars, envVars

\* The master's view of a slave changes where it is started or given up.
LEMMA WhoChangesSlaves ==
  [Next]_vars =>
    \/ UNCHANGED slaves
    \/ Start \/ NonparallelStart \/ NonparallelDone \/ GiveMove \/ SearchAgain
    \/ CollectSlave \/ AbortJoin
  OBVIOUS

\* Calls are entered, continued and left by the master only.
LEMMA WhoChangesStack ==
  [Next]_vars =>
    \/ UNCHANGED stack
    \/ IterateRoot \/ RootMove \/ RootSearch \/ RootReturn \/ SearchNode
    \/ NullMove \/ NullReturn \/ InternalDeepening \/ SeqReduce \/ SeqMove \/ SeqReturn
    \/ SeqDone \/ SeqEnd \/ FirstMove \/ FirstDone \/ GiveMove \/ CollectSlave
    \/ AbortEnd \/ ParallelEnd
  OBVIOUS

\* A slave's thread is started, stopped and joined by the master, works by itself,
\* and is told to stop by an interrupt.
LEMMA WhoChangesSearch ==
  [Next]_vars =>
    \/ UNCHANGED search
    \/ Start \/ NonparallelStart \/ NonparallelWait \/ NonparallelJoin \/ GiveMove
    \/ WaitSlaveReady \/ SearchAgain \/ CollectSlave \/ AbortSlave \/ AbortJoin
    \/ (\E s \in Slaves : SlaveThread(s)) \/ InterruptSlave
  OBVIOUS

\* Slaves append to ready_queue; the master takes from it or clears it.
LEMMA WhoChangesQueue ==
  [Next]_vars =>
    \/ UNCHANGED ready_queue
    \/ NonparallelWait \/ WaitSlaveReady \/ AbortEnd
    \/ \E s \in Slaves : SlaveReady(s)
  OBVIOUS

\* The small variables change in small ways.
LEMMA WhatChanges ==
  [Next]_vars =>
    /\ nodealloc' = nodealloc \/ nodealloc' = nodealloc + 1 \/ nodealloc' = nodealloc - 1
    /\ ipc' = ipc \/ ipc' = 0 \/ (ipc \in Slaves /\ ipc' = ipc + 1)
    /\ interrupts' = interrupts \/ interrupts' = 0 \/ interrupts' = interrupts + 1
    /\ now' = now \/ now' = 0 \/ now' = now + 1
    /\ limit' = limit \/ limit' = TimeLimit \/ limit' \in limit .. HardLimit
    /\ \/ window' = window \/ window' = {} \/ window' = {"alpha", "beta"}
       \/ \E side \in window : window' = window \ {side}
    /\ rootdepth' = rootdepth \/ rootdepth' = 1 \/ rootdepth' = rootdepth + 1
    /\ best' = best \/ best' = "score" \/ best' = ret
    /\ \/ id' = id \/ id' = 0 \/ id' \in Slaves
       \/ ready_queue # <<>> /\ id' = Head(ready_queue)
  OBVIOUS

\* The master's node count is reset or taken over from a slave.
LEMMA WhoChangesTotal ==
  [Next]_vars =>
    nodes' = nodes \/ nodes' = 0 \/ nodes' = Statistics(id)
  OBVIOUS

\* Who calls search().
LEMMA WhoChangesArg ==
  [Next]_vars =>
    \/ arg' = arg \/ arg' = 0
    \/ RootSearch \/ RootReturn \/ NullMove \/ InternalDeepening \/ SeqMove \/ SeqReturn
    \/ FirstMove
  OBVIOUS

\* Who computes a return value.
LEMMA WhoChangesRet ==
  [Next]_vars =>
    \/ UNCHANGED ret
    \/ Start \/ RootReturn \/ SearchLeaf \/ NonparallelJoin \/ SeqDone \/ SeqEnd
    \/ FirstDone \/ AbortEnd \/ ParallelEnd
  OBVIOUS

\* Who stores a score.
LEMMA WhoChangesHashtable ==
  [Next]_vars =>
    UNCHANGED hashtable \/ NonparallelDone \/ CollectSlave \/ SeqEnd \/ ParallelEnd
  OBVIOUS

\* The two flags of the master are Boolean.
LEMMA FlagsStayBoolean ==
  stop \in BOOLEAN /\ stop_iteration \in BOOLEAN /\ [Next]_vars =>
    stop' \in BOOLEAN /\ stop_iteration' \in BOOLEAN
  OBVIOUS

\* The limit is raised by extend_time_iteration() alone.
LEMMA WhoChangesClock ==
  [Next]_vars =>
    /\ UNCHANGED limit \/ Start \/ ExtendTime
    /\ UNCHANGED now \/ Start \/ now' = now + 1
  OBVIOUS

\* The table is looked over when a search starts.
LEMMA WhoChangesStale ==
  [Next]_vars => UNCHANGED stale \/ (Start /\ stale' = ~ (hashtable \subseteq {"score"}))
  OBVIOUS

\* Nothing but an extension says that the iteration is the last one.
LEMMA WhoChangesIteration ==
  [Next]_vars => UNCHANGED stop_iteration \/ Start \/ ExtendTime
  OBVIOUS

\* Only the start of a search clears the master's stop flag.
LEMMA WhoChangesStop == [Next]_vars => (stop => stop') \/ Start
  OBVIOUS

\* An interrupt proceeds from slave to slave.
LEMMA WhoChangesIpc == [Next]_vars => UNCHANGED ipc \/ Interrupt \/ InterruptSlave
  OBVIOUS

\* Only iterate() chooses a best move.
LEMMA WhoChangesBest == [Next]_vars => UNCHANGED best \/ Start \/ Iterated
  OBVIOUS

\* Where a search starts, ends, checks the time and begins to abort slaves.
LEMMA WhoChangesPoint ==
  [Next]_vars =>
    /\ mpc = "idle" => mpc' = "idle" \/ Start
    /\ mpc' = "extend" => mpc = "extend" \/ CheckTimeout \/ ExtendTime
    /\ mpc' \in {"abort", "abort_join"} =>
         \/ mpc \in {"abort", "abort_join"} /\ UNCHANGED resume
         \/ TestStop \/ CollectSlave \/ CheckTimeout \/ ExtendTime
  OBVIOUS

\* iterate() gets its result through check_time().
LEMMA WhoComesToIterated ==
  [Next]_vars /\ (mpc' = "iterated" \/ (mpc' = "extend" /\ resume' = "iterated")) =>
    \/ UNCHANGED <<mpc, resume, ret>>
    \/ CheckTimeout \/ ExtendTime
  OBVIOUS

\* Before the master waits it has found the stop flag clear.
LEMMA WhoEntersWait ==
  [Next]_vars /\ mpc' = "wait" =>
    \/ ~stop' \/ resume = "wait"
    \/ UNCHANGED <<mpc, stop, search, ipc>>
    \/ mpc = "wait" /\ (Interrupt \/ InterruptSlave \/ \E s \in Slaves : SlaveThread(s))
  OBVIOUS

HIDE DEF Next, Master, SlaveThread, Start, IterateRoot, RootMove, RootSearch,
         RootReturn, Iterated, CheckTimeout, ExtendTime, SearchLeaf, NonparallelStart,
         NonparallelWait, NonparallelJoin, NonparallelDone, SearchNode, NullMove,
         NullReturn, InternalDeepening, DeepeningReturn, SeqReduce, SeqMove,
         SeqReturn, SeqDone, SeqEnd, FirstMove, FirstReturn, FirstDone, GiveMove,
         NoMoveToGive, TestStop, WaitSlaveReady, SearchAgain, CollectSlave,
         AbortSlave, AbortJoin, AbortEnd, ParallelEnd, SlaveFinish, SlaveCancel,
         SlaveReady, Interrupt, InterruptSlave, Tick, Goto, Call, Return, Push,
         Replace, CheckTime, Store, vars, masterVars, iterVars, dataVars, slaveVars,
         envVars

-----------------------------------------------------------------------------
(* The slaves' nodes. *)

\* The master's view of the slaves is well formed.
SlavesOK == slaves \in [Slaves -> Slave] /\ SlaveNodesFit

\* Giving up a slave empties its node allocator.
LEMMA ReleasedOK ==
  ASSUME SlavesOK, search \in [Slaves -> Search], NEW s \in Slaves, slaves' = Released(s)
  PROVE  SlavesOK'
<1>1. slaves[s] \in Slave /\ search[s].nodes \in Nat
  BY DEF SlavesOK, Search
<1>2. slaves'[s] = [free |-> TRUE, node |-> "none",
                   used |-> IF slaves[s].node = "child" THEN slaves[s].used - 1 ELSE slaves[s].used,
                   pvs_nullwin |-> slaves[s].pvs_nullwin, last_nodes |-> search[s].nodes]
  BY <1>1 DEF SlavesOK, Released, Slave
<1>3. slaves' \in [Slaves -> Slave]
  <2>1. slaves'[s] \in Slave
    BY <1>1, <1>2 DEF SlavesOK, SlaveNodesFit, Slave
  <2> QED
    BY <2>1 DEF SlavesOK, Released
<1>4. \A t \in Slaves \ {s} : slaves'[t] = slaves[t]
  BY DEF SlavesOK, Released
<1>5. SlaveNodesFit'
  BY <1>1, <1>2, <1>4 DEF SlavesOK, SlaveNodesFit, Free
<1> QED
  BY <1>3, <1>5 DEF SlavesOK

\* A slave's allocator holds its child node and nothing else.
LEMMA SlavesStep ==
  ASSUME SlavesOK, search \in [Slaves -> Search], id \in Slaves, [Next]_vars
  PROVE  SlavesOK'
<1>1. CASE UNCHANGED slaves
  BY <1>1 DEF SlavesOK, SlaveNodesFit, Free
<1>2. CASE Start
  BY <1>2 DEF Start, SlavesOK, SlaveNodesFit, Free, Slave
<1>3. CASE NonparallelStart
  BY <1>3 DEF NonparallelStart, FirstFree, SlavesOK, SlaveNodesFit, Free, Slave
<1>4. CASE GiveMove
  BY <1>4 DEF GiveMove, FirstFree, SlavesOK, SlaveNodesFit, Free, Slave
<1>5. CASE SearchAgain
  <2>1. slaves[id] \in Slave /\ search[id].nodes \in Nat
    BY DEF SlavesOK, Search
  <2>2. slaves' = [slaves EXCEPT ![id] = [@ EXCEPT !.pvs_nullwin = FALSE,
                                                  !.last_nodes = search[id].nodes]]
    BY <1>5, <2>1 DEF SearchAgain, SlavesOK
  <2>3. /\ [slaves[id] EXCEPT !.pvs_nullwin = FALSE, !.last_nodes = search[id].nodes] \in Slave
        /\ slaves'[id].used = slaves[id].used /\ slaves'[id].node = slaves[id].node
        /\ slaves'[id].free = slaves[id].free
    BY <2>1, <2>2 DEF SlavesOK, Slave
  <2>4. slaves' \in [Slaves -> Slave] /\ \A t \in Slaves \ {id} : slaves'[t] = slaves[t]
    BY <2>2, <2>3 DEF SlavesOK
  <2> QED
    BY <2>3, <2>4 DEF SlavesOK, SlaveNodesFit, Free
<1>6. CASE NonparallelDone \/ CollectSlave \/ AbortJoin
  BY <1>6, ReleasedOK DEF NonparallelDone, CollectSlave, AbortJoin
<1> QED
  BY <1>1, <1>2, <1>3, <1>4, <1>5, <1>6, WhoChangesSlaves

-----------------------------------------------------------------------------
(* The stack of calls. *)

\* Frames are well formed.
StackOK == stack \in Seq(GoodFrame)

\* Replacing the frame on top keeps the stack a stack.
LEMMA Replaced ==
  ASSUME StackOK, stack # <<>>, NEW f \in GoodFrame, Replace(f)
  PROVE  StackOK' /\ stack' # <<>> /\ Top' = f
  BY DEF StackOK, Replace, Top

\* So does calling a function.
LEMMA Pushed ==
  ASSUME StackOK, NEW f \in GoodFrame, Push(f)
  PROVE  StackOK' /\ stack' # <<>> /\ Top' = f
  BY DEF StackOK, Push, Top

\* So does returning from one.
LEMMA Popped ==
  ASSUME StackOK, stack # <<>>, stack' = Tail(stack)
  PROVE  StackOK'
  BY DEF StackOK

\* The frame on top is one of the stack.
LEMMA TopGood ==
  ASSUME StackOK, stack # <<>>
  PROVE  Top \in GoodFrame
  BY DEF StackOK, Top

\* Taking a move from a frame that has one.
LEMMA MoveTaken ==
  ASSUME NEW f \in GoodFrame, f.moves > 0, NEW a \in {"first", "nullwin", "move"},
         a = "first" => f.kind = "par"
  PROVE  /\ [f EXCEPT !.moves = @ - 1, !.at = a] \in GoodFrame
         /\ [[f EXCEPT !.moves = @ - 1] EXCEPT !.at = a] \in GoodFrame
<1>1. f.moves - 1 \in Nat
  BY DEF GoodFrame, Frame
<1>2. \A n \in Nat : [f EXCEPT !.moves = n, !.at = a] \in GoodFrame
  BY DEF GoodFrame, Frame, Early
<1>3. [[f EXCEPT !.moves = @ - 1] EXCEPT !.at = a] = [f EXCEPT !.moves = f.moves - 1, !.at = a]
  BY DEF GoodFrame, Frame
<1> QED
  BY <1>1, <1>2, <1>3

\* Where the new value of the frame on top comes from.
ValueFrom(f) ==
  \/ f.value = Top.value
  \/ mpc \notin {"idle", "iterated"} /\ f.value = Blend(Top.value, ret)
  \/ CollectSlave /\ f.value = Blend(Top.value, search[id].score)

\* A step changes the stack only by replacing, pushing or popping one frame.
LEMMA StackMoves ==
  ASSUME StackOK, TopFits, arg \in Int, rootdepth \in Nat, [Next]_vars
  PROVE  \/ UNCHANGED stack
         \/ stack # <<>> /\ \E f \in GoodFrame : Replace(f) /\ f.kind = Top.kind /\ ValueFrom(f)
         \/ \E f \in GoodFrame : /\ Push(f) /\ f.value = "score"
                                 /\ \/ IterateRoot /\ f.kind = "root"
                                    \/ SearchNode /\ f.kind # "root"
         \/ stack # <<>> /\ stack' = Tail(stack) /\ (Top.kind = "root" <=> RootReturn)
<1> DEFINE Replaces == \E f \in GoodFrame : Replace(f) /\ f.kind = Top.kind /\ ValueFrom(f)
           Pushes   == \E f \in GoodFrame : /\ Push(f) /\ f.value = "score"
                                            /\ \/ IterateRoot /\ f.kind = "root"
                                               \/ SearchNode /\ f.kind # "root"
<1> USE DEF GoodFrame, Frame, Early
<1>1. CASE IterateRoot
  <2>1. Pushes
    BY <1>1, ConstantsAssumption DEF IterateRoot
  <2> QED
    BY <2>1
<1>2. CASE SearchNode
  <2>1. PICK n \in MoveCounts :
          Push([kind |-> IF n < MinMoves THEN "seq" ELSE "par", depth |-> arg,
                moves |-> n, at |-> "none", value |-> "score"])
    BY <1>2 DEF SearchNode
  <2>2. [kind |-> IF n < MinMoves THEN "seq" ELSE "par", depth |-> arg,
         moves |-> n, at |-> "none", value |-> "score"] \in GoodFrame
    BY <1>2, ConstantsAssumption DEF SearchNode
  <2>3. Pushes
    BY <1>2, <2>1, <2>2
  <2> QED
    BY <2>3
<1>3. CASE RootMove
  <2>1. stack # <<>> /\ Top \in GoodFrame /\ Top.kind = "root" /\ Top.moves > 0
    BY <1>3, TopGood DEF RootMove, TopFits, At
  <2>2. [Top EXCEPT !.moves = @ - 1, !.at = "move"] \in GoodFrame
    BY <2>1, MoveTaken
  <2>3. Replaces
    BY <1>3, <2>1, <2>2 DEF RootMove, ValueFrom
  <2> QED
    BY <2>1, <2>3
<1>4. CASE RootSearch
  <2>1. stack # <<>> /\ Top \in GoodFrame /\ Top.kind = "root"
    BY <1>4, TopGood DEF RootSearch, TopFits, At
  <2>2. Replaces
    BY <1>4, <2>1 DEF RootSearch, Call, ValueFrom
  <2> QED
    BY <2>1, <2>2
<1>5. CASE RootReturn
  <2>1. Top \in GoodFrame /\ Top.kind = "root" /\ stack # <<>>
    BY <1>5, TopGood DEF RootReturn
  <2>2. Blend(Top.value, ret) \in {"score", "tainted"}
    BY <2>1 DEF Blend
  <2>3. stack' = Tail(stack) \/ Replaces
    BY <1>5, <2>1, <2>2 DEF RootReturn, Call, ValueFrom
  <2> QED
    BY <1>5, <2>1, <2>3
<1>6. CASE NullMove \/ InternalDeepening \/ FirstMove
  <2>1. stack # <<>> /\ Top \in GoodFrame /\ Top.kind # "root" /\ Top.at \in Early
    BY <1>6, TopGood DEF NullMove, InternalDeepening, FirstMove, TopFits, At
  <2>2. CASE NullMove \/ InternalDeepening
    <3>1. UNCHANGED stack \/ Replaces
      BY <2>2, <2>1 DEF NullMove, InternalDeepening, Call, Goto, ValueFrom
    <3> QED
      BY <2>1, <3>1
  <2>3. CASE FirstMove
    <3>1. Top.kind = "par" /\ Top.moves > 0
      BY <2>1, <2>3 DEF FirstMove, TopFits, At
    <3>2. [Top EXCEPT !.moves = @ - 1, !.at = "first"] \in GoodFrame
      BY <2>1, <3>1, MoveTaken
    <3>3. Replaces
      BY <2>1, <2>3, <3>2 DEF FirstMove, Call, ValueFrom
    <3> QED
      BY <2>1, <3>3
  <2> QED
    BY <1>6, <2>2, <2>3
<1>7. CASE NullReturn
  <2>1. Top \in GoodFrame /\ Top.kind # "root" /\ stack # <<>>
    BY <1>7, TopGood DEF NullReturn
  <2> QED
    BY <1>7, <2>1 DEF NullReturn, Return, Goto, RootReturn
<1>8. CASE SeqReduce \/ SeqMove \/ SeqDone \/ SeqEnd
  <2>1. stack # <<>> /\ Top \in GoodFrame /\ Top.kind = "seq"
    BY <1>8, TopGood DEF SeqReduce, SeqMove, SeqDone, SeqEnd, TopFits, At
  <2>2. CASE SeqReduce
    <3>1. Replaces
      BY <2>1, <2>2 DEF SeqReduce, Reduced, ValueFrom
    <3> QED
      BY <2>1, <3>1
  <2>3. CASE SeqMove
    <3>1. \A at \in {"nullwin", "move"} :
            [[Top EXCEPT !.moves = @ - 1] EXCEPT !.at = at] \in GoodFrame
      BY <2>1, <2>3, MoveTaken DEF SeqMove
    <3>2. [Top EXCEPT !.moves = @ - 1] \in GoodFrame
      BY <2>1, <2>3 DEF SeqMove
    <3>3. Replaces
      BY <2>1, <2>3, <3>1, <3>2 DEF SeqMove, Call, ValueFrom
    <3> QED
      BY <2>1, <3>3
  <2>4. CASE SeqDone
    <3>1. Blend(Top.value, ret) \in {"score", "tainted"}
      BY <2>1 DEF Blend
    <3>2. PICK v \in {"score", "tainted"} : v = Blend(Top.value, ret)
      BY <3>1
    <3>3. \A m \in Nat : /\ [Top EXCEPT !.value = v, !.moves = m] \in GoodFrame
                          /\ [Top EXCEPT !.value = v, !.moves = m].kind = Top.kind
                          /\ [Top EXCEPT !.value = v, !.moves = m].value = v
      BY <2>1
    <3>4. /\ [Top EXCEPT !.value = v] \in GoodFrame
          /\ [Top EXCEPT !.value = v].kind = Top.kind
          /\ [Top EXCEPT !.value = v].value = v
      BY <2>1
    <3>5. Top.moves \in Nat /\ mpc = "seq_done"
      BY <2>1, <2>4 DEF SeqDone
    <3>6. \/ stack' = Tail(stack)
          \/ \E m \in Nat : Replace([Top EXCEPT !.value = v, !.moves = m])
          \/ Replace([Top EXCEPT !.value = v])
      BY <2>4, <3>2, <3>5 DEF SeqDone, Return
    <3>7. stack' = Tail(stack) \/ Replaces
      <4>1. CASE \E m \in Nat : Replace([Top EXCEPT !.value = v, !.moves = m])
        <5>1. PICK m \in Nat : Replace([Top EXCEPT !.value = v, !.moves = m])
          BY <4>1
        <5>2. ValueFrom([Top EXCEPT !.value = v, !.moves = m])
          BY <3>2, <3>3, <3>5 DEF ValueFrom
        <5> QED
          BY <3>3, <5>1, <5>2
      <4>2. CASE Replace([Top EXCEPT !.value = v])
        <5>1. ValueFrom([Top EXCEPT !.value = v])
          BY <3>2, <3>4, <3>5 DEF ValueFrom
        <5> QED
          BY <3>4, <4>2, <5>1
      <4> QED
        BY <3>6, <4>1, <4>2
    <3> QED
      BY <2>1, <2>4, <3>7 DEF RootReturn
  <2>5. CASE SeqEnd
    BY <2>5, <2>1 DEF SeqEnd, Return, RootReturn
  <2> QED
    BY <1>8, <2>2, <2>3, <2>4, <2>5
<1>9. CASE SeqReturn
  <2>1. Top \in GoodFrame /\ Top.kind = "seq" /\ stack # <<>>
    BY <1>9, TopGood DEF SeqReturn
  <2>2. UNCHANGED stack \/ Replaces
    BY <1>9, <2>1 DEF SeqReturn, Call, Goto, ValueFrom
  <2> QED
    BY <2>1, <2>2
<1>10. CASE FirstDone \/ GiveMove \/ CollectSlave \/ AbortEnd \/ ParallelEnd
  <2>1. stack # <<>> /\ Top \in GoodFrame /\ Top.at = "first" /\ Top.kind = "par"
    BY <1>10, TopGood DEF FirstDone, GiveMove, CollectSlave, AbortEnd, ParallelEnd,
                          TopFits, At, LoopPoints, AbortPoints
  <2>2. \A r : Blend(Top.value, r) \in {"score", "tainted"}
    BY <2>1 DEF Blend
  <2>3. CASE FirstDone
    <3>1. stack' = Tail(stack) \/ Replaces
      BY <2>1, <2>2, <2>3 DEF FirstDone, Return, ValueFrom
    <3> QED
      BY <2>1, <2>3, <3>1 DEF FirstDone, RootReturn
  <2>4. CASE GiveMove
    <3>1. [Top EXCEPT !.moves = @ - 1] \in GoodFrame
      BY <2>1, <2>4 DEF GiveMove
    <3>2. Replaces
      BY <2>1, <2>4, <3>1 DEF GiveMove, ValueFrom
    <3> QED
      BY <2>1, <3>2
  <2>5. CASE CollectSlave
    <3>1. Replaces
      BY <2>1, <2>2, <2>5 DEF CollectSlave, ValueFrom
    <3> QED
      BY <2>1, <3>1
  <2>6. CASE AbortEnd \/ ParallelEnd
    BY <2>1, <2>6 DEF AbortEnd, ParallelEnd, Return, Goto, RootReturn
  <2> QED
    BY <1>10, <2>3, <2>4, <2>5, <2>6
<1> QED
  BY <1>1, <1>2, <1>3, <1>4, <1>5, <1>6, <1>7, <1>8, <1>9, <1>10, WhoChangesStack

\* Every step keeps the stack well formed.
LEMMA StackStep ==
  ASSUME StackOK, TopFits, arg \in Int, rootdepth \in Nat, [Next]_vars
  PROVE  StackOK'
<1>1. CASE UNCHANGED stack
  BY <1>1 DEF StackOK
<1> QED
  BY <1>1, StackMoves, Replaced, Pushed, Popped

-----------------------------------------------------------------------------
(* Control points. *)

\* Where the call in progress is.
ControlOK ==
  /\ mpc \in {"idle", "iterate", "root", "root_search", "iterated", "check",
              "extend", "search", "return", "null", "iid", "first", "first_done",
              "reduce", "seq", "seq_done", "done"}
             \union LoopPoints \union AbortPoints \union AlonePoints
  /\ resume \in {"idle", "root_search", "iterated", "np_done", "seq_done",
                 "first_done", "checked", "cancelled", "done"}

\* Every step leads to a control point, and subroutines return to their caller.
LEMMA ControlStep ==
  ASSUME ControlOK, ResumeFits, [Next]_vars
  PROVE  ControlOK' /\ ResumeFits'
<1> USE DEF ControlOK, ResumeFits, LoopPoints, AbortPoints, AlonePoints
<1>1. CASE UNCHANGED <<mpc, resume>>
  BY <1>1
<1>2. CASE Start \/ IterateRoot \/ RootMove \/ RootSearch \/ RootReturn \/ Iterated
  BY <1>2 DEF Start, IterateRoot, RootMove, RootSearch, RootReturn, Iterated, Call, Goto, CheckTime
<1>3. CASE CheckTimeout \/ ExtendTime
  BY <1>3 DEF CheckTimeout, ExtendTime, Goto
<1>4. CASE \/ SearchLeaf \/ NonparallelStart \/ NonparallelWait \/ NonparallelJoin
           \/ NonparallelDone \/ SearchNode
  BY <1>4 DEF SearchLeaf, NonparallelStart, NonparallelWait, NonparallelJoin, NonparallelDone,
              SearchNode, Goto, CheckTime
<1>5. CASE NullMove \/ NullReturn \/ InternalDeepening \/ DeepeningReturn
  BY <1>5 DEF NullMove, NullReturn, InternalDeepening, DeepeningReturn, Call, Return, Goto
<1>6. CASE SeqReduce \/ SeqMove \/ SeqReturn \/ SeqDone \/ SeqEnd
  BY <1>6 DEF SeqReduce, SeqMove, SeqReturn, SeqDone, SeqEnd, Call, Return, Goto, CheckTime
<1>7. CASE FirstMove \/ FirstReturn \/ FirstDone
  BY <1>7 DEF FirstMove, FirstReturn, FirstDone, Call, Return, CheckTime
<1>8. CASE NoMoveToGive \/ TestStop \/ WaitSlaveReady \/ SearchAgain \/ CollectSlave
  BY <1>8 DEF NoMoveToGive, TestStop, WaitSlaveReady, SearchAgain, CollectSlave, Goto, CheckTime
<1>9. CASE AbortSlave \/ AbortJoin \/ AbortEnd \/ ParallelEnd
  BY <1>9 DEF AbortSlave, AbortJoin, AbortEnd, ParallelEnd, Return, Goto
<1> QED
  BY <1>1, <1>2, <1>3, <1>4, <1>5, <1>6, <1>7, <1>8, <1>9
     DEF Next, Master, SlaveThread, GiveMove, SlaveFinish, SlaveCancel, SlaveReady,
         Interrupt, InterruptSlave, Tick, vars, masterVars

\* Every step leaves the frame on top fitting the control point.
LEMMA TopStep ==
  ASSUME StackOK, TopFits, ResumeFits, arg \in Int, rootdepth \in Nat, [Next]_vars
  PROVE  TopFits'
<1> USE DEF TopFits, At, LoopPoints, AbortPoints
<1>1. CASE UNCHANGED <<mpc, resume, stack>>
  BY <1>1 DEF Top
<1>2. CASE mpc' \in {"idle", "iterate", "iterated", "search", "return", "np_wait", "np_join"}
  BY <1>2
<1>3. CASE IterateRoot
  BY <1>3, Pushed, ConstantsAssumption DEF IterateRoot, GoodFrame, Frame
<1>4. CASE RootMove
  <2>1. stack # <<>> /\ Top \in GoodFrame /\ Top.kind = "root" /\ Top.moves > 0
    BY <1>4, TopGood DEF RootMove
  <2>2. [Top EXCEPT !.moves = @ - 1, !.at = "move"] \in GoodFrame
    BY <2>1, MoveTaken
  <2> QED
    BY <1>4, <2>1, <2>2, Replaced DEF RootMove, CheckTime, GoodFrame, Frame
<1>5. CASE RootReturn
  <2>1. Top \in GoodFrame /\ Top.kind = "root" /\ stack # <<>>
    BY <1>5, TopGood DEF RootReturn
  <2>2. [Top EXCEPT !.value = Blend(Top.value, ret)] \in GoodFrame
    BY <2>1 DEF GoodFrame, Frame, Blend
  <2> QED
    BY <1>5, <2>1, <2>2, Replaced DEF RootReturn, Call, CheckTime, GoodFrame, Frame
<1>6. CASE CheckTimeout \/ ExtendTime
  BY <1>6 DEF CheckTimeout, ExtendTime, Goto, ResumeFits, Top
<1>7. CASE NonparallelJoin
  BY <1>7 DEF NonparallelJoin, CheckTime
<1>8. CASE SearchNode
  <2>1. PICK n \in MoveCounts :
          Push([kind |-> IF n < MinMoves THEN "seq" ELSE "par", depth |-> arg,
                moves |-> n, at |-> "none", value |-> "score"])
    BY <1>8 DEF SearchNode
  <2>2. [kind |-> IF n < MinMoves THEN "seq" ELSE "par", depth |-> arg,
         moves |-> n, at |-> "none", value |-> "score"] \in GoodFrame
    BY <1>8, ConstantsAssumption DEF SearchNode, GoodFrame, Frame, Early
  <2> QED
    BY <1>8, <2>1, <2>2, Pushed DEF SearchNode, Early
<1>9. CASE NullMove \/ NullReturn \/ InternalDeepening \/ DeepeningReturn
  <2>1. CASE mpc' \in {"search", "return"}
    BY <1>2, <2>1
  <2>2. CASE mpc' \notin {"search", "return"} /\ (NullMove \/ InternalDeepening)
    BY <2>2 DEF NullMove, InternalDeepening, Call, Goto, Top, GoodFrame, Frame, StackOK
  <2>3. CASE mpc' \notin {"search", "return"} /\ (NullReturn \/ DeepeningReturn)
    <3>1. Top \in GoodFrame /\ Top.kind # "root" /\ Top.at \in Early
      BY <2>3, TopGood DEF NullReturn, DeepeningReturn, GoodFrame, Early
    <3> QED
      BY <2>3, <3>1 DEF NullReturn, DeepeningReturn, Return, Goto, Top, GoodFrame, Frame
  <2> QED
    BY <1>9, <2>1, <2>2, <2>3
<1>10. CASE SeqReduce \/ SeqMove \/ SeqReturn \/ SeqDone
  <2>1. CASE SeqReduce
    <3>1. stack # <<>> /\ Top \in GoodFrame /\ Top.kind = "seq"
      BY <2>1, TopGood DEF SeqReduce
    <3>2. \A d \in Reduced(Top.depth) : [Top EXCEPT !.depth = d] \in GoodFrame
      BY <3>1 DEF GoodFrame, Frame, Reduced
    <3> QED
      BY <2>1, <3>1, <3>2, Replaced DEF SeqReduce, GoodFrame, Frame
  <2>2. CASE SeqMove
    <3>1. stack # <<>> /\ Top \in GoodFrame /\ Top.kind = "seq"
      BY <2>2, TopGood DEF SeqMove
    <3>2. [Top EXCEPT !.moves = @ - 1] \in GoodFrame
      BY <2>2, <3>1 DEF SeqMove, GoodFrame, Frame
    <3> QED
      BY <2>2, <3>1, <3>2, Replaced DEF SeqMove, Call, GoodFrame, Frame
  <2>3. CASE SeqReturn
    BY <2>3 DEF SeqReturn, Call, CheckTime, Goto, Top
  <2>4. CASE SeqDone
    <3>1. stack # <<>> /\ Top \in GoodFrame /\ Top.kind = "seq"
      BY <2>4, TopGood DEF SeqDone
    <3>2. CASE mpc' = "return"
      BY <3>2
    <3>3. CASE mpc' # "return"
      <4>1. \A m \in Nat, v \in {"score", "tainted"} :
              [Top EXCEPT !.value = v, !.moves = m] \in {f \in GoodFrame : f.kind = "seq"}
        BY <3>1 DEF GoodFrame, Frame
      <4>2. \A v \in {"score", "tainted"} :
              [Top EXCEPT !.value = v] \in {f \in GoodFrame : f.kind = "seq"}
        BY <3>1 DEF GoodFrame, Frame
      <4>3. Blend(Top.value, ret) \in {"score", "tainted"} /\ Top.moves \in Nat
        BY <3>1 DEF Blend, GoodFrame, Frame
      <4>4. PICK f \in {g \in GoodFrame : g.kind = "seq"} : Replace(f)
        BY <2>4, <3>3, <4>1, <4>2, <4>3 DEF SeqDone, Return
      <4> QED
        BY <2>4, <3>1, <3>3, <4>4, Replaced DEF SeqDone, Return
    <3> QED
      BY <3>2, <3>3
  <2> QED
    BY <1>10, <2>1, <2>2, <2>3, <2>4
<1>11. CASE FirstReturn
  BY <1>11 DEF FirstReturn, CheckTime, Top
<1>12. CASE FirstDone \/ GiveMove \/ CollectSlave
  <2>1. stack # <<>> /\ Top \in GoodFrame /\ Top.at = "first"
    BY <1>12, TopGood DEF FirstDone, GiveMove, CollectSlave
  <2>2. CASE FirstDone /\ mpc' # "return"
    BY <2>2, <2>1, Replaced DEF FirstDone, Return, Blend, GoodFrame, Frame
  <2>3. CASE GiveMove
    <3>1. [Top EXCEPT !.moves = @ - 1] \in GoodFrame
      BY <2>1, <2>3 DEF GiveMove, GoodFrame, Frame, Early
    <3> QED
      BY <2>3, <2>1, <3>1, Replaced DEF GiveMove, GoodFrame, Frame
  <2>4. CASE CollectSlave
    BY <2>4, <2>1, Replaced DEF CollectSlave, Blend, GoodFrame, Frame
  <2> QED
    BY <1>2, <1>12, <2>2, <2>3, <2>4
<1>13. CASE \/ NoMoveToGive \/ TestStop \/ WaitSlaveReady \/ SearchAgain
            \/ AbortSlave \/ AbortJoin
  BY <1>13 DEF NoMoveToGive, TestStop, WaitSlaveReady, SearchAgain, AbortSlave, AbortJoin,
               CheckTime, Goto, Top
<1>14. CASE AbortEnd
  BY <1>14 DEF AbortEnd, Goto, Return, Top
<1> QED
  BY <1>1, <1>2, <1>3, <1>4, <1>5, <1>6, <1>7, <1>8, <1>9, <1>10, <1>11, <1>12, <1>13, <1>14
     DEF Next, Master, SlaveThread, Start, RootSearch, Iterated, SearchLeaf, NonparallelStart,
         NonparallelWait, NonparallelDone, SeqEnd, FirstMove, ParallelEnd, Call, Return, Goto,
         SlaveFinish, SlaveCancel, SlaveReady, Interrupt, InterruptSlave, Tick, vars, masterVars

-----------------------------------------------------------------------------
(* The other variables, and TypeInv. *)

\* Types of the variables that any thread may write at any time.
OthersOK ==
  /\ arg \in Int
  /\ ret \in Provenance
  /\ id \in Slaves
  /\ stop \in BOOLEAN /\ stop_iteration \in BOOLEAN
  /\ rootdepth \in Nat
  /\ window \in SUBSET {"alpha", "beta"}
  /\ best \in Provenance
  /\ nodealloc \in Int
  /\ hashtable \in SUBSET Provenance
  /\ nodes \in Int
  /\ search \in [Slaves -> Search]
  /\ ready_queue \in Seq(Slaves)
  /\ now \in Nat /\ limit \in Nat
  /\ ipc \in 0 .. NSlaves
  /\ interrupts \in Nat
  /\ stale \in BOOLEAN

\* The helpers on slave threads have the right type.
LEMMA SearchTypes ==
  ASSUME search \in [Slaves -> Search], NEW s \in Slaves
  PROVE  /\ StartThread(s) \in [Slaves -> Search]
         /\ InterruptThread(s) \in [Slaves -> Search]
         /\ Joined(s) \in [Slaves -> Search]
         /\ search[s].score \in Provenance
         /\ search[s].nodes \in Nat
  BY DEF StartThread, InterruptThread, Joined, Search, Phases

\* Every step keeps the types of the remaining variables.
LEMMA OthersStep ==
  ASSUME OthersOK, StackOK, SlavesOK, TopFits, [Next]_vars
  PROVE  OthersOK'
<1> USE DEF OthersOK
<1>1. search' \in [Slaves -> Search]
  <2>1. CASE UNCHANGED search
    BY <2>1
  <2>2. CASE Start
    BY <2>2 DEF Start, Search
  <2>3. CASE \/ NonparallelStart \/ NonparallelWait \/ NonparallelJoin \/ GiveMove
             \/ CollectSlave \/ AbortSlave \/ AbortJoin
    BY <2>3, SearchTypes DEF NonparallelStart, NonparallelWait, NonparallelJoin, GiveMove,
                             CollectSlave, AbortSlave, AbortJoin
  <2>4. CASE WaitSlaveReady
    <3>1. Head(ready_queue) \in Slaves
      BY <2>4 DEF WaitSlaveReady
    <3> QED
      BY <2>4, <3>1, SearchTypes DEF WaitSlaveReady
  <2>5. CASE SearchAgain
    <3>1. search' = [search EXCEPT ![id] = [@ EXCEPT !.phase = "running", !.stop = FALSE]]
      BY <2>5 DEF SearchAgain
    <3>2. id \in Slaves => [search[id] EXCEPT !.phase = "running", !.stop = FALSE] \in Search
      BY DEF Search, Phases
    <3> QED
      BY <3>1, <3>2
  <2>6. CASE \E s \in Slaves : SlaveThread(s)
    <3>1. PICK s \in Slaves : SlaveThread(s)
      BY <2>6
    <3>2. search[s] \in Search /\ search[s].nodes + 1 \in Nat
      BY DEF Search
    <3>3. CASE SlaveFinish(s)
      BY <3>2, <3>3 DEF SlaveFinish, Search, Phases, Provenance
    <3>4. CASE SlaveCancel(s)
      BY <3>2, <3>4 DEF SlaveCancel, Search, Phases, Provenance
    <3>5. CASE SlaveReady(s)
      BY <3>5 DEF SlaveReady, Search, Phases
    <3> QED
      BY <3>1, <3>3, <3>4, <3>5 DEF SlaveThread
  <2>7. CASE InterruptSlave
    BY <2>7, SearchTypes DEF InterruptSlave
  <2> QED
    BY <2>1, <2>2, <2>3, <2>4, <2>5, <2>6, <2>7, WhoChangesSearch
<1>2. ready_queue' \in Seq(Slaves)
  <2>1. <<>> \in Seq(Slaves) /\ (ready_queue # <<>> => Tail(ready_queue) \in Seq(Slaves))
    OBVIOUS
  <2>2. \A s \in Slaves : Append(ready_queue, s) \in Seq(Slaves)
    OBVIOUS
  <2>3. CASE \E s \in Slaves : SlaveReady(s)
    BY <2>2, <2>3 DEF SlaveReady
  <2>4. CASE NonparallelWait \/ WaitSlaveReady \/ AbortEnd
    BY <2>1, <2>4 DEF NonparallelWait, WaitSlaveReady, AbortEnd
  <2> QED
    BY <2>3, <2>4, WhoChangesQueue
<1>3. nodealloc' \in Int /\ rootdepth' \in Nat /\ interrupts' \in Nat /\ now' \in Nat
  BY WhatChanges
<1>4. ipc' \in 0 .. NSlaves /\ limit' \in Nat
  BY WhatChanges, ConstantsAssumption DEF Slaves
<1>5. window' \in SUBSET {"alpha", "beta"} /\ best' \in Provenance
  BY WhatChanges DEF Provenance
<1>6. id' \in Slaves
  <2>1. 0 \in Slaves /\ (ready_queue # <<>> => Head(ready_queue) \in Slaves)
    BY ConstantsAssumption DEF Slaves
  <2> QED
    BY <2>1, WhatChanges
<1>7. nodes' \in Int
  <2>1. Statistics(id) \in Int
    BY SearchTypes DEF Statistics, SlavesOK, Slave
  <2> QED
    BY <2>1, WhoChangesTotal
<1>8. arg' \in Int
  <2>1. stack # <<>> => Top.depth \in Nat
    BY TopGood DEF GoodFrame, Frame
  <2>2. CASE RootSearch \/ RootReturn \/ NullMove \/ InternalDeepening
    <3> HIDE DEF OthersOK
    <3>1. stack # <<>> /\ arg \in Int
      BY <2>2 DEF RootSearch, RootReturn, NullMove, InternalDeepening, TopFits, At, OthersOK
    <3>2. arg' \in {arg, Top.depth - 1, Top.depth - 2, Top.depth - 3}
      BY <2>2 DEF RootSearch, RootReturn, NullMove, InternalDeepening, Call, Goto
    <3> QED
      BY <2>1, <3>1, <3>2
  <2>3. CASE SeqMove \/ SeqReturn \/ FirstMove
    BY <2>1, <2>3 DEF SeqMove, SeqReturn, FirstMove, Call, Goto, TopFits, At
  <2> QED
    BY <2>2, <2>3, WhoChangesArg
<1>9. ret' \in Provenance
  <2>1. CASE SearchLeaf
    BY <2>1 DEF SearchLeaf, LeafValues, Provenance
  <2>2. CASE SeqEnd \/ ParallelEnd
    BY <2>2, TopGood DEF SeqEnd, ParallelEnd, Return, TopFits, At, GoodFrame, Frame, Provenance
  <2>3. CASE RootReturn
    BY <2>3, TopGood DEF RootReturn, Blend, Call, GoodFrame, Frame, Provenance
  <2>4. CASE NonparallelJoin
    BY <2>4, SearchTypes DEF NonparallelJoin
  <2>5. CASE Start \/ SeqDone \/ FirstDone \/ AbortEnd
    BY <2>5 DEF Start, SeqDone, FirstDone, AbortEnd, Return, Goto, Provenance
  <2> QED
    BY <2>1, <2>2, <2>3, <2>4, <2>5, WhoChangesRet
<1>10. hashtable' \in SUBSET Provenance
  <2>1. CASE NonparallelDone
    BY <2>1 DEF NonparallelDone, Store
  <2>2. CASE CollectSlave
    BY <2>2, SearchTypes DEF CollectSlave, Store
  <2>3. CASE SeqEnd \/ ParallelEnd
    <3>1. Top.value \in Provenance
      BY <2>3, TopGood DEF SeqEnd, ParallelEnd, TopFits, At, GoodFrame, Frame, Provenance
    <3> QED
      BY <2>3, <3>1 DEF SeqEnd, ParallelEnd, Store
  <2> QED
    BY <2>1, <2>2, <2>3, WhoChangesHashtable
<1>11. stop' \in BOOLEAN /\ stop_iteration' \in BOOLEAN
  BY FlagsStayBoolean
<1>12. stale' \in BOOLEAN
  BY WhoChangesStale
<1> QED
  BY <1>1, <1>2, <1>3, <1>4, <1>5, <1>6, <1>7, <1>8, <1>9, <1>10, <1>11, <1>12

\* TypeInv is inductive.
LEMMA TypeInvStep == TypeInv /\ [Next]_vars => TypeInv'
<1> SUFFICES ASSUME TypeInv, [Next]_vars PROVE TypeInv'
  OBVIOUS
<1>1. SlavesOK /\ StackOK /\ ControlOK /\ OthersOK
  BY DEF TypeInv, TypeOK, SlavesOK, StackOK, ControlOK, OthersOK
<1>2. StackOK' /\ TopFits'
  BY <1>1, StackStep, TopStep DEF TypeInv, OthersOK
<1>3. SlavesOK' /\ ControlOK' /\ ResumeFits' /\ OthersOK'
  BY <1>1, SlavesStep, ControlStep, OthersStep DEF TypeInv, OthersOK
<1>4. stack' \in Seq(Frame)
  BY <1>2 DEF StackOK, GoodFrame
<1> QED
  BY <1>2, <1>3, <1>4 DEF TypeInv, TypeOK, SlavesOK, StackOK, ControlOK, OthersOK

\* TypeInv holds when the program starts.
LEMMA TypeInvInit == Init => TypeInv
<1> SUFFICES ASSUME Init PROVE TypeInv
  OBVIOUS
<1> USE ConstantsAssumption DEF Init
<1>1. SlavesOK
  BY DEF SlavesOK, SlaveNodesFit, Slave, Free
<1>2. ControlOK /\ TopFits /\ ResumeFits
  BY DEF ControlOK, TopFits, ResumeFits, At, LoopPoints, AbortPoints, AlonePoints
<1>3. search \in [Slaves -> Search]
  BY DEF Search, Phases, Provenance
<1>4. stack \in Seq(GoodFrame) /\ stack \in Seq(Frame) /\ ready_queue \in Seq(Slaves)
  OBVIOUS
<1>5. ret \in Provenance /\ best \in Provenance
  BY DEF Provenance
<1>6. 0 \in Slaves /\ NSlaves \in 0 .. NSlaves
  BY DEF Slaves
<1>7. hashtable \in SUBSET Provenance /\ window \in SUBSET {"alpha", "beta"}
  OBVIOUS
<1>8. arg \in Int /\ nodealloc \in Int /\ nodes \in Int /\ rootdepth \in Nat
      /\ now \in Nat /\ limit \in Nat /\ interrupts \in Nat
  OBVIOUS
<1>9. id \in Slaves /\ ipc \in 0 .. NSlaves /\ stop \in BOOLEAN /\ stop_iteration \in BOOLEAN
  BY <1>6
<1>10. stale \in BOOLEAN
  OBVIOUS
<1> HIDE DEF Init
<1>11. OthersOK
  BY <1>3, <1>4, <1>5, <1>7, <1>8, <1>9, <1>10 DEF OthersOK
<1> QED
  BY <1>1, <1>2, <1>4, <1>11 DEF TypeInv, TypeOK, SlavesOK, ControlOK, OthersOK

\* Every variable has its type in every reachable state; for the number of moves
\* left this says that a move is made only where one is left.
THEOREM TypeCorrect == Spec => []TypeOK
<1>1. Spec => []TypeInv
  BY TypeInvInit, TypeInvStep, PTL DEF Spec
<1>2. TypeInv => TypeOK
  BY DEF TypeInv
<1> QED
  BY <1>1, <1>2, PTL

-----------------------------------------------------------------------------
(* Slaves, threads and the queue. *)

\* Removing the first index from a queue without duplicates.
LEMMA QueueTail ==
  ASSUME ready_queue \in Seq(Slaves), ready_queue # <<>>, NoDuplicates,
         ready_queue' = Tail(ready_queue)
  PROVE  /\ NoDuplicates'
         /\ Queued(Head(ready_queue)) /\ Head(ready_queue) \in Slaves
         /\ \A s \in Slaves : Queued(s)' <=> Queued(s) /\ s # Head(ready_queue)
<1>1. /\ Len(Tail(ready_queue)) = Len(ready_queue) - 1 /\ Len(ready_queue) \in Nat \ {0}
      /\ \A i \in 1 .. Len(ready_queue) - 1 : Tail(ready_queue)[i] = ready_queue[i + 1]
      /\ Head(ready_queue) = ready_queue[1] /\ Head(ready_queue) \in Slaves
  OBVIOUS
<1>2. NoDuplicates'
  BY <1>1 DEF NoDuplicates
<1>3. Queued(Head(ready_queue))
  BY <1>1 DEF Queued
<1>4. ASSUME NEW s \in Slaves PROVE Queued(s)' <=> Queued(s) /\ s # Head(ready_queue)
  <2>1. ASSUME Queued(s)' PROVE Queued(s) /\ s # Head(ready_queue)
    BY <1>1, <2>1 DEF Queued, NoDuplicates
  <2>2. ASSUME Queued(s), s # Head(ready_queue) PROVE Queued(s)'
    <3>1. PICK i \in 1 .. Len(ready_queue) : ready_queue[i] = s
      BY <2>2 DEF Queued
    <3>2. i # 1 /\ i - 1 \in 1 .. Len(ready_queue) - 1
      BY <1>1, <2>2, <3>1
    <3>3. Tail(ready_queue)[i - 1] = s
      BY <1>1, <3>1, <3>2
    <3> QED
      BY <1>1, <3>2, <3>3 DEF Queued
  <2> QED
    BY <2>1, <2>2
<1> QED
  BY <1>1, <1>2, <1>3, <1>4

\* Appending an index that is not in the queue.
LEMMA QueueAppend ==
  ASSUME ready_queue \in Seq(Slaves), NoDuplicates, NEW s \in Slaves, ~Queued(s),
         ready_queue' = Append(ready_queue, s)
  PROVE  /\ NoDuplicates'
         /\ \A t \in Slaves : Queued(t)' <=> Queued(t) \/ t = s
<1>1. /\ Len(ready_queue') = Len(ready_queue) + 1 /\ Len(ready_queue) \in Nat
      /\ \A i \in 1 .. Len(ready_queue) : ready_queue'[i] = ready_queue[i]
      /\ ready_queue'[Len(ready_queue) + 1] = s
  OBVIOUS
<1>2. \A i \in 1 .. Len(ready_queue') : i \in 1 .. Len(ready_queue) \/ i = Len(ready_queue) + 1
  BY <1>1
<1>3. NoDuplicates'
  BY <1>1, <1>2 DEF NoDuplicates, Queued
<1>4. \A t \in Slaves : Queued(t)' <=> Queued(t) \/ t = s
  BY <1>1, <1>2 DEF Queued
<1> QED
  BY <1>3, <1>4

\* A queue is empty when no slave is in it.
LEMMA QueueEmpty ==
  ASSUME ready_queue \in Seq(Slaves)
  PROVE  /\ ready_queue = <<>> <=> \A s \in Slaves : ~Queued(s)
         /\ ready_queue = <<>> => NoDuplicates
<1>1. ASSUME ready_queue # <<>> PROVE \E s \in Slaves : Queued(s)
  <2>1. Len(ready_queue) \in Nat \ {0} /\ ready_queue[1] \in Slaves
    BY <1>1
  <2> QED
    BY <2>1 DEF Queued
<1>2. ASSUME ready_queue = <<>> PROVE NoDuplicates /\ \A s \in Slaves : ~Queued(s)
  BY <1>2 DEF Queued, NoDuplicates
<1> QED
  BY <1>1, <1>2

\* Steps that concern no slave.
LEMMA WhoTouchesSlaves ==
  ASSUME ResumeFits, [Next]_vars
  PROVE  \/ UNCHANGED slaveVars /\ Quiet /\ Quiet'
         \/ UNCHANGED <<slaveVars, id>> /\ At' = At
         \/ Start \/ NonparallelStart \/ NonparallelWait \/ NonparallelJoin \/ NonparallelDone
         \/ FirstDone \/ GiveMove \/ NoMoveToGive \/ TestStop \/ WaitSlaveReady \/ SearchAgain
         \/ CollectSlave \/ AbortSlave \/ AbortJoin \/ AbortEnd
         \/ (\E s \in Slaves : SlaveThread(s)) \/ InterruptSlave
<1> USE DEF Quiet, At, LoopPoints, AbortPoints, AlonePoints, slaveVars
<1>1. CASE IterateRoot \/ RootMove \/ RootSearch \/ RootReturn \/ Iterated
  BY <1>1 DEF IterateRoot, RootMove, RootSearch, RootReturn, Iterated, Call, Goto, CheckTime
<1>2. CASE CheckTimeout \/ ExtendTime
  BY <1>2 DEF CheckTimeout, ExtendTime, Goto, ResumeFits
<1>3. CASE SearchLeaf \/ SearchNode \/ NullMove \/ NullReturn \/ InternalDeepening \/ DeepeningReturn
  BY <1>3 DEF SearchLeaf, SearchNode, NullMove, NullReturn, InternalDeepening, DeepeningReturn,
              Call, Return, Goto
<1>4. CASE SeqReduce \/ SeqMove \/ SeqReturn \/ SeqDone \/ SeqEnd
  BY <1>4 DEF SeqReduce, SeqMove, SeqReturn, SeqDone, SeqEnd, Call, Return, Goto, CheckTime
<1>5. CASE FirstMove \/ FirstReturn \/ ParallelEnd
  BY <1>5 DEF FirstMove, FirstReturn, ParallelEnd, Call, Return, CheckTime
<1>6. CASE Interrupt \/ Tick \/ UNCHANGED vars
  BY <1>6 DEF Interrupt, Tick, vars, masterVars
<1> QED
  BY <1>1, <1>2, <1>3, <1>4, <1>5, <1>6 DEF Next, Master

\* QueueContents without the queue's representation.
LEMMA QueueStep ==
  ASSUME TypeInv, SlaveInv, [Next]_vars, UNCHANGED ready_queue
  PROVE  NoDuplicates' /\ \A s \in Slaves : Queued(s)' <=> Queued(s)
  BY DEF SlaveInv, QueueContents, NoDuplicates, Queued

\* SlaveInv is inductive: one step per action that concerns a slave.
LEMMA SlaveInvStep == TypeInv /\ SlaveInv /\ [Next]_vars => SlaveInv'
<1> SUFFICES ASSUME TypeInv, SlaveInv, [Next]_vars PROVE SlaveInv'
  OBVIOUS
<1>0. /\ TypeInv' /\ ready_queue \in Seq(Slaves) /\ ready_queue' \in Seq(Slaves)
      /\ slaves \in [Slaves -> Slave] /\ search \in [Slaves -> Search] /\ id \in Slaves
      /\ ResumeFits
  BY TypeInvStep DEF TypeInv, TypeOK
<1> USE DEF SlaveInv, BusySlaves, ThreadPhases, QueueContents
<1>1. CASE UNCHANGED slaveVars /\ Quiet /\ Quiet'
  BY <1>0, <1>1, QueueStep, QueueEmpty
     DEF slaveVars, Free, Quiet, LoopPoints, AbortPoints, AlonePoints
<1>2. CASE UNCHANGED <<slaveVars, id>> /\ At' = At
  BY <1>0, <1>2, QueueStep DEF slaveVars, Free, AllSlavesFree, Quiet
<1>3. CASE Start
  <2>1. Quiet /\ Quiet' /\ UNCHANGED ready_queue
    BY <1>3 DEF Start, Quiet, At, LoopPoints, AbortPoints, AlonePoints
  <2>2. \A s \in Slaves : Free(s) /\ Free(s)' /\ search'[s].phase = "none"
    <3> SUFFICES ASSUME NEW s \in Slaves
                 PROVE  Free(s) /\ Free(s)' /\ search'[s].phase = "none"
      OBVIOUS
    <3>1. Free(s) /\ search[s].phase = "none"
      BY <2>1
    <3>2. slaves'[s].free = slaves[s].free
      BY <1>0, <1>3 DEF Start, Slave
    <3>3. search'[s].phase = search[s].phase
      BY <1>0, <1>3 DEF Start, Search
    <3> QED
      BY <3>1, <3>2, <3>3 DEF Free
  <2> QED
    BY <1>0, <2>1, <2>2, QueueStep, QueueEmpty DEF Quiet, LoopPoints, AbortPoints, AlonePoints
<1>4. CASE NonparallelStart
  <2>1. Quiet /\ At' = "np_wait" /\ ready_queue' = ready_queue /\ ready_queue = <<>>
    BY <1>4 DEF NonparallelStart, Quiet, At, LoopPoints, AbortPoints, AlonePoints
  <2>2. /\ id' \in Slaves /\ ~Free(id)' /\ search'[id'].phase = "running"
        /\ \A s \in Slaves \ {id'} : Free(s)' /\ search'[s].phase = "none"
    BY <1>0, <1>4, <2>1 DEF NonparallelStart, StartThread, Free, Slave, Search
  <2> QED
    BY <1>0, <2>1, <2>2, QueueStep, QueueEmpty DEF Quiet, LoopPoints, AbortPoints, AlonePoints
<1>5. CASE NonparallelWait
  <2>1. At = "np_wait" /\ At' = "np_join" /\ id' = id /\ UNCHANGED slaves
        /\ ready_queue # <<>> /\ ready_queue' = Tail(ready_queue)
    BY <1>5 DEF NonparallelWait, Goto, At
  <2>2. \A s \in Slaves : search'[s].phase = search[s].phase
    BY <1>0, <1>5 DEF NonparallelWait, InterruptThread, Search
  <2>3. \A s \in Slaves : Queued(s) => s = id /\ search[s].phase = "posted"
    BY <2>1 DEF AlonePoints, AbortPoints
  <2>4. NoDuplicates' /\ Queued(id) /\ \A s \in Slaves : ~Queued(s)'
    BY <1>0, <2>1, <2>3, QueueTail
  <2>5. ASSUME ready_queue' # <<>> PROVE FALSE
    <3>1. Len(ready_queue') \in Nat \ {0} /\ ready_queue'[1] \in Slaves
      BY <1>0, <2>5
    <3> QED
      BY <2>4, <3>1 DEF Queued
  <2> QED
    BY <1>0, <2>1, <2>2, <2>3, <2>4, <2>5
       DEF Free, Quiet, LoopPoints, AbortPoints, AlonePoints
<1>6. CASE NonparallelJoin
  <2>1. At = "np_join" /\ At' = "np_done" /\ id' = id /\ UNCHANGED <<slaves, ready_queue>>
    BY <1>6 DEF NonparallelJoin, CheckTime, At
  <2>2. \A s \in Slaves : search'[s].phase = "none"
    BY <1>0, <1>6, <2>1 DEF NonparallelJoin, Joined, Search, AlonePoints
  <2> QED
    BY <1>0, <2>1, <2>2, QueueStep, QueueEmpty
       DEF Free, Quiet, LoopPoints, AbortPoints, AlonePoints
<1>7. CASE NonparallelDone
  <2>1. At = "np_done" /\ At' = "return" /\ UNCHANGED <<search, ready_queue>>
    BY <1>7 DEF NonparallelDone, Goto, At
  <2>2. \A s \in Slaves : Free(s)'
    BY <1>0, <1>7, <2>1 DEF NonparallelDone, Released, Free, Slave, AlonePoints
  <2> QED
    BY <1>0, <2>1, <2>2, QueueStep, QueueEmpty
       DEF Quiet, LoopPoints, AbortPoints, AlonePoints
<1>8. CASE FirstDone
  <2>1. Quiet /\ At' \in {"return", "done", "loop"} /\ UNCHANGED slaveVars
    BY <1>8 DEF FirstDone, Return, Quiet, At, LoopPoints, AbortPoints, AlonePoints
  <2> QED
    BY <1>0, <2>1, QueueStep, QueueEmpty
       DEF slaveVars, Free, Quiet, LoopPoints, AbortPoints, AlonePoints
<1>9. CASE GiveMove
  <2>1. At = "loop" /\ At' = "loop" /\ UNCHANGED ready_queue /\ id' \in Slaves /\ Free(id')
    BY <1>9 DEF GiveMove, FirstFree, At
  <2>2. /\ ~Free(id)' /\ search'[id'].phase = "running"
        /\ \A s \in Slaves \ {id'} : slaves'[s] = slaves[s] /\ search'[s] = search[s]
    BY <1>0, <1>9, <2>1 DEF GiveMove, StartThread, Free, Slave, Search
  <2> QED
    BY <1>0, <2>1, <2>2, QueueStep
       DEF Free, Quiet, LoopPoints, AbortPoints, AlonePoints
<1>10. CASE NoMoveToGive
  <2>1. At = "loop" /\ UNCHANGED slaveVars
        /\ (AllSlavesFree => At' = "done") /\ (~AllSlavesFree => At' = "checked")
    <3>1. /\ At = "loop" /\ UNCHANGED slaveVars
          /\ IF AllSlavesFree THEN mpc' = "done" ELSE mpc' = "check" /\ resume' = "checked"
      BY <1>10 DEF NoMoveToGive, CheckTime, At
    <3>2. AllSlavesFree => At' = "done"
      <4>1. AllSlavesFree => mpc' = "done"
        BY <3>1
      <4> QED
        BY <4>1 DEF At
    <3>3. ~AllSlavesFree => At' = "checked"
      <4>1. ~AllSlavesFree => mpc' = "check" /\ resume' = "checked"
        BY <3>1
      <4> QED
        BY <4>1 DEF At
    <3> QED
      BY <3>1, <3>2, <3>3
  <2> QED
    BY <1>0, <2>1, QueueStep, QueueEmpty
       DEF slaveVars, Free, AllSlavesFree, Quiet, LoopPoints, AbortPoints, AlonePoints
<1>11. CASE TestStop
  <2>1. At = "checked" /\ At' \in {"abort", "wait"} /\ UNCHANGED slaveVars
    BY <1>11 DEF TestStop, At
  <2> QED
    BY <1>0, <2>1, QueueStep
       DEF slaveVars, Free, AllSlavesFree, Quiet, LoopPoints, AbortPoints, AlonePoints
<1>12. CASE WaitSlaveReady
  <2>1. At = "wait" /\ At' = "join" /\ id' = Head(ready_queue) /\ UNCHANGED slaves
        /\ ready_queue # <<>> /\ ready_queue' = Tail(ready_queue)
    BY <1>12 DEF WaitSlaveReady, At
  <2>2. /\ NoDuplicates' /\ Queued(id') /\ id' \in Slaves
        /\ \A s \in Slaves : Queued(s)' <=> Queued(s) /\ s # id'
    BY <1>0, <2>1, QueueTail
  <2>3. \A s \in Slaves : search'[s].phase = search[s].phase
    BY <1>0, <1>12, <2>1, <2>2 DEF WaitSlaveReady, InterruptThread, Search
  <2> QED
    BY <1>0, <2>1, <2>2, <2>3
       DEF Free, Quiet, LoopPoints, AbortPoints, AlonePoints
<1>13. CASE SearchAgain
  <2>1. At = "join" /\ At' = "loop" /\ id' = id /\ UNCHANGED ready_queue
    BY <1>13 DEF SearchAgain, Goto, At
  <2>2. /\ search'[id].phase = "running" /\ \A s \in Slaves : Free(s)' = Free(s)
        /\ \A s \in Slaves \ {id} : search'[s].phase = search[s].phase
    BY <1>0, <1>13 DEF SearchAgain, Free, Slave, Search
  <2> QED
    BY <1>0, <2>1, <2>2, QueueStep
       DEF Quiet, LoopPoints, AbortPoints, AlonePoints
<1>14. CASE CollectSlave
  <2>1. At = "join" /\ At' \in {"loop", "abort"} /\ id' = id /\ UNCHANGED ready_queue
    BY <1>14 DEF CollectSlave, At
  <2>2. /\ search'[id].phase = "none" /\ Free(id)'
        /\ \A s \in Slaves \ {id} : slaves'[s] = slaves[s] /\ search'[s] = search[s]
    BY <1>0, <1>14 DEF CollectSlave, Joined, Released, Free, Slave, Search
  <2> QED
    BY <1>0, <2>1, <2>2, QueueStep
       DEF Free, Quiet, LoopPoints, AbortPoints, AlonePoints
<1>15. CASE AbortSlave
  <2>1. At = "abort" /\ At' = "abort_join" /\ id' \in Slaves /\ ~Free(id')
        /\ UNCHANGED <<slaves, ready_queue>>
    BY <1>15 DEF AbortSlave, FirstBusy, At
  <2>2. \A s \in Slaves : search'[s].phase = search[s].phase
    BY <1>0, <1>15 DEF AbortSlave, InterruptThread, Search
  <2> QED
    BY <1>0, <2>1, <2>2, QueueStep
       DEF Free, Quiet, LoopPoints, AbortPoints, AlonePoints
<1>16. CASE AbortJoin
  <2>1. At = "abort_join" /\ At' = "abort" /\ id' = id /\ UNCHANGED ready_queue
    BY <1>16 DEF AbortJoin, Goto, At
  <2>2. /\ search'[id].phase = "none" /\ Free(id)'
        /\ \A s \in Slaves \ {id} : slaves'[s] = slaves[s] /\ search'[s] = search[s]
    <3>1. search' = Joined(id) /\ slaves' = Released(id)
      BY <1>16 DEF AbortJoin
    <3>2. search'[id].phase = "none" /\ \A s \in Slaves \ {id} : search'[s] = search[s]
      BY <1>0, <3>1 DEF Joined, Search
    <3>3. Free(id)' /\ \A s \in Slaves \ {id} : slaves'[s] = slaves[s]
      BY <1>0, <2>1, <3>1 DEF Released, Free, Slave
    <3> QED
      BY <3>2, <3>3
  <2> QED
    BY <1>0, <2>1, <2>2, QueueStep
       DEF Free, Quiet, LoopPoints, AbortPoints, AlonePoints
<1>17. CASE AbortEnd
  <2>1. At = "abort" /\ At' \in {"done", "return"} /\ UNCHANGED <<slaves, search>>
        /\ ready_queue' = <<>> /\ AllSlavesFree
    BY <1>17 DEF AbortEnd, Goto, Return, At
  <2>2. NoDuplicates' /\ \A s \in Slaves : ~Queued(s)'
    BY <2>1 DEF NoDuplicates, Queued
  <2> QED
    BY <1>0, <2>1, <2>2
       DEF Free, AllSlavesFree, Quiet, LoopPoints, AbortPoints, AlonePoints
<1>18. CASE \E s \in Slaves : SlaveThread(s)
  <2>1. PICK s \in Slaves : SlaveThread(s)
    BY <1>18
  <2>2. At' = At /\ id' = id /\ UNCHANGED slaves
        /\ \A t \in Slaves \ {s} : search'[t] = search[t]
    BY <1>0, <2>1 DEF SlaveThread, SlaveFinish, SlaveCancel, SlaveReady, At, masterVars
  <2>3. CASE SlaveFinish(s) \/ SlaveCancel(s)
    <3>1. search[s].phase = "running" /\ search'[s].phase = "posting" /\ UNCHANGED ready_queue
      BY <1>0, <2>3 DEF SlaveFinish, SlaveCancel, Search
    <3> QED
      BY <1>0, <2>2, <3>1, QueueStep DEF Free, AllSlavesFree, Quiet
  <2>4. CASE SlaveReady(s)
    <3>1. search[s].phase = "posting" /\ search'[s].phase = "posted"
          /\ ready_queue' = Append(ready_queue, s)
      BY <1>0, <2>4 DEF SlaveReady, Search
    <3>2. ~Free(s) /\ ~Queued(s)
      BY <3>1
    <3>3. NoDuplicates' /\ \A t \in Slaves : Queued(t)' <=> Queued(t) \/ t = s
      BY <1>0, <3>1, <3>2, QueueAppend
    <3>4. At \in LoopPoints \union AbortPoints \union {"np_wait"}
      BY <1>0, <3>1, <3>2 DEF Quiet, AlonePoints
    <3> QED
      BY <1>0, <2>2, <3>1, <3>2, <3>3, <3>4 DEF Free, AllSlavesFree, Quiet
  <2> QED
    BY <2>1, <2>3, <2>4 DEF SlaveThread
<1>19. CASE InterruptSlave
  <2>1. At' = At /\ id' = id /\ UNCHANGED <<slaves, ready_queue>>
        /\ \A s \in Slaves : search'[s].phase = search[s].phase
    BY <1>0, <1>19 DEF InterruptSlave, InterruptThread, Search, At, masterVars
  <2> QED
    BY <1>0, <2>1, QueueStep DEF Free, AllSlavesFree, Quiet
<1> QED
  BY <1>0, <1>1, <1>2, <1>3, <1>4, <1>5, <1>6, <1>7, <1>8, <1>9, <1>10, <1>11, <1>12, <1>13,
     <1>14, <1>15, <1>16, <1>17, <1>18, <1>19, WhoTouchesSlaves

\* SlaveInv holds when the program starts.
LEMMA SlaveInvInit == Init => SlaveInv
<1> SUFFICES ASSUME Init PROVE SlaveInv
  OBVIOUS
<1>1. At = "idle" /\ ready_queue = <<>>
      /\ \A s \in Slaves : Free(s) /\ search[s].phase = "none"
  BY DEF Init, At, Free
<1>2. NoDuplicates /\ \A s \in Slaves : ~Queued(s)
  BY <1>1 DEF NoDuplicates, Queued
<1> QED
  BY <1>1, <1>2 DEF SlaveInv, BusySlaves, ThreadPhases, QueueContents, Quiet, LoopPoints,
                    AbortPoints, AlonePoints

\* Both invariants hold throughout.
LEMMA SlavesInvariant == Spec => [](TypeInv /\ SlaveInv)
  BY TypeInvInit, TypeInvStep, SlaveInvInit, SlaveInvStep, PTL DEF Spec

\* Outside the slave loop and nonparallel_search() all slaves are free, without a
\* thread, and ready_queue is empty: parallel_search() may recurse.
THEOREM SlavesIdle == Spec => []SlavesIdleBetweenCalls
<1>1. SlaveInv => SlavesIdleBetweenCalls
  BY DEF SlaveInv, BusySlaves, ThreadPhases, QueueContents, SlavesIdleBetweenCalls, Quiet,
         LoopPoints, AbortPoints, AlonePoints
<1> QED
  BY <1>1, SlavesInvariant, PTL

\* ready_queue holds a slave at most once, and only one that has reported and has
\* not been collected, or was freed by the abort_all_slaves() in progress.
THEOREM QueueSound == Spec => []ReadyQueueSound
<1>1. TypeInv /\ SlaveInv => ReadyQueueSound
  <2> SUFFICES ASSUME TypeInv, SlaveInv PROVE ReadyQueueSound
    OBVIOUS
  <2>1. \A i \in 1 .. Len(ready_queue) :
          ready_queue[i] \in Slaves /\ Queued(ready_queue[i])
    BY DEF TypeInv, TypeOK, Queued
  <2> QED
    BY <2>1 DEF SlaveInv, QueueContents, NoDuplicates, ReadyQueueSound
<1> QED
  BY <1>1, SlavesInvariant, PTL

\* ASSERT(id1 == id) in nonparallel_search() always holds.
THEOREM NonparallelOwnSlave == Spec => []NonparallelGetsItsSlave
<1>1. TypeInv /\ SlaveInv => NonparallelGetsItsSlave
  <2> SUFFICES ASSUME TypeInv, SlaveInv, mpc = "np_wait", ready_queue # <<>>
               PROVE  ready_queue = <<id>>
    BY DEF NonparallelGetsItsSlave
  <2>1. At = "np_wait" /\ ready_queue \in Seq(Slaves)
    BY DEF At, TypeInv, TypeOK
  <2>2. \A i \in 1 .. Len(ready_queue) : ready_queue[i] \in Slaves /\ Queued(ready_queue[i])
    BY <2>1 DEF Queued
  <2>3. \A i \in 1 .. Len(ready_queue) : ready_queue[i] = id
    BY <2>1, <2>2 DEF SlaveInv, QueueContents, BusySlaves, AbortPoints, AlonePoints
  <2>4. Len(ready_queue) = 1 /\ ready_queue[1] = id
    <3>1. Len(ready_queue) \in Nat \ {0}
      BY <2>1
    <3>2. 1 \in 1 .. Len(ready_queue) /\ Len(ready_queue) \in 1 .. Len(ready_queue)
      BY <3>1
    <3> QED
      BY <2>3, <3>1, <3>2 DEF SlaveInv, QueueContents, NoDuplicates
  <2> QED
    BY <2>1, <2>4
<1> QED
  BY <1>1, SlavesInvariant, PTL

\* stop_slave_thread() never finds its thread missing, start_slave_thread() never
\* finds it running.
THEOREM ThreadsMatch == Spec => []ThreadsMatchSlaves
<1>1. TypeInv /\ SlaveInv => ThreadsMatchSlaves
  <2> SUFFICES ASSUME TypeInv, SlaveInv PROVE ThreadsMatchSlaves
    OBVIOUS
  <2>1. id \in Slaves
    BY DEF TypeInv, TypeOK
  <2> QED
    BY <2>1 DEF SlaveInv, BusySlaves, ThreadPhases, ThreadsMatchSlaves, At, AlonePoints
<1> QED
  BY <1>1, SlavesInvariant, PTL

\* NodeAllocator(1) of a slave is never exhausted, each node is returned once.
THEOREM SlaveNodes == Spec => []SlaveNodesFit
<1>1. TypeInv => SlaveNodesFit
  BY DEF TypeInv
<1> QED
  BY <1>1, SlavesInvariant, PTL

\* The master never waits for a slave when none is left that will report.
THEOREM WaitAnswered == Spec => []WaitIsAnswered
<1>1. TypeInv /\ SlaveInv => WaitIsAnswered
  <2> SUFFICES ASSUME TypeInv, SlaveInv, mpc \in {"wait", "np_wait"}
               PROVE  ready_queue # <<>> \/ \E s \in Slaves : search[s].phase \in {"running", "posting"}
    BY DEF WaitIsAnswered
  <2>1. At = mpc /\ id \in Slaves /\ ready_queue \in Seq(Slaves) /\ search \in [Slaves -> Search]
    BY DEF At, TypeInv, TypeOK
  <2>2. PICK s \in Slaves : ~Free(s)
    BY <2>1 DEF SlaveInv, BusySlaves, AllSlavesFree, AlonePoints
  <2>3. search[s].phase # "none"
    BY <2>1, <2>2 DEF SlaveInv, ThreadPhases
  <2>4. search[s].phase = "posted" => Queued(s)
    BY <2>1 DEF SlaveInv, QueueContents
  <2>5. Queued(s) => ready_queue # <<>>
    BY <2>1 DEF Queued
  <2> QED
    BY <2>1, <2>3, <2>4, <2>5 DEF Search, Phases
<1> QED
  BY <1>1, SlavesInvariant, PTL

\* A slave's node count changes only while its thread runs.
LEMMA CountsStay ==
  ASSUME search \in [Slaves -> Search], [Next]_vars, ~Start, NEW s \in Slaves
  PROVE  search'[s].nodes = search[s].nodes \/ search[s].phase = "running"
<1>1. \A t : /\ InterruptThread(t)[s].nodes = search[s].nodes
             /\ Joined(t)[s].nodes = search[s].nodes
             /\ StartThread(t)[s].nodes = search[s].nodes
  BY DEF InterruptThread, Joined, StartThread, Search
<1>2. CASE NonparallelWait \/ WaitSlaveReady \/ AbortSlave \/ InterruptSlave
  BY <1>1, <1>2 DEF NonparallelWait, WaitSlaveReady, AbortSlave, InterruptSlave
<1>3. CASE NonparallelJoin \/ CollectSlave \/ AbortJoin \/ NonparallelStart \/ GiveMove
  BY <1>1, <1>3 DEF NonparallelJoin, CollectSlave, AbortJoin, NonparallelStart, GiveMove
<1>4. CASE SearchAgain
  BY <1>4 DEF SearchAgain, Search
<1>5. CASE \E t \in Slaves : SlaveThread(t)
  <2>1. PICK t \in Slaves : SlaveThread(t)
    BY <1>5
  <2>2. CASE SlaveFinish(t)
    BY <2>2 DEF SlaveFinish, Search
  <2>3. CASE SlaveCancel(t)
    BY <2>3 DEF SlaveCancel, Search
  <2>4. CASE SlaveReady(t)
    BY <2>4 DEF SlaveReady, Search
  <2> QED
    BY <2>1, <2>2, <2>3, <2>4 DEF SlaveThread
<1> QED
  BY <1>2, <1>3, <1>4, <1>5, WhoChangesSearch

\* StatisticsTaken is inductive.
LEMMA StatisticsStep ==
  ASSUME TypeInv, SlaveInv, StatisticsTaken, [Next]_vars
  PROVE  StatisticsTaken'
<1>0. slaves \in [Slaves -> Slave] /\ search \in [Slaves -> Search] /\ id \in Slaves
  BY DEF TypeInv, TypeOK
<1>1. CASE Start
  BY <1>0, <1>1 DEF Start, StatisticsTaken, Free, Slave, Search
<1> SUFFICES ASSUME ~Start PROVE StatisticsTaken'
  BY <1>1
<1>2. \A s \in Slaves : Free(s) => search'[s].nodes = search[s].nodes
  BY <1>0, CountsStay DEF SlaveInv, ThreadPhases
<1> USE DEF StatisticsTaken, Free
<1>3. CASE UNCHANGED slaves
  <2>1. \A s \in Slaves : /\ Free(s)' = Free(s)
                         /\ slaves'[s].last_nodes = slaves[s].last_nodes
    BY <1>3
  <2> QED
    BY <1>2, <2>1
<1>4. CASE NonparallelStart \/ GiveMove
  <2>1. PICK t \in Slaves, nullwin \in BOOLEAN :
          \/ slaves' = [slaves EXCEPT ![t].free = FALSE, ![t].node = "node"]
          \/ slaves' = [slaves EXCEPT ![t].free = FALSE, ![t].node = "child",
                                      ![t].used = @ + 1, ![t].pvs_nullwin = nullwin]
    BY <1>4 DEF NonparallelStart, GiveMove
  <2>2. ~Free(t)' /\ \A s \in Slaves \ {t} : slaves'[s] = slaves[s]
    BY <1>0, <2>1 DEF Slave
  <2>3. slaves'[t].last_nodes = slaves[t].last_nodes
    BY <1>0, <2>1 DEF Slave
  <2> QED
    BY <1>2, <2>2, <2>3
<1>5. CASE SearchAgain
  <2>1. ~Free(id) /\ \A s \in Slaves : Free(s)' = Free(s)
    BY <1>0, <1>5 DEF SearchAgain, Terminated, Slave, SlaveInv, ThreadPhases
  <2>2. \A s \in Slaves \ {id} : slaves'[s].last_nodes = slaves[s].last_nodes
    BY <1>0, <1>5 DEF SearchAgain, Slave
  <2> QED
    BY <1>2, <2>1, <2>2
<1>6. CASE NonparallelDone \/ CollectSlave \/ AbortJoin
  <2>1. slaves' = Released(id)
    BY <1>6 DEF NonparallelDone, CollectSlave, AbortJoin
  <2>2. search'[id].nodes = search[id].nodes
    BY <1>0, <1>6 DEF NonparallelDone, CollectSlave, AbortJoin, Joined, Search
  <2> QED
    BY <1>0, <1>2, <2>1, <2>2 DEF Released, Slave
<1> QED
  BY <1>1, <1>3, <1>4, <1>5, <1>6, WhoChangesSlaves

\* The counts of a free slave have been taken over completely, on every path on
\* which a slave is given up.
THEOREM StatisticsAreTaken == Spec => []StatisticsTaken
<1>1. Init => StatisticsTaken
  BY DEF Init, StatisticsTaken
<1> QED
  BY <1>1, SlavesInvariant, StatisticsStep, PTL DEF Spec

-----------------------------------------------------------------------------
(* The stop flag. *)

\* A step never lets the master wait for a slave that an interrupt has passed by.
LEMMA InterruptInvStep == TypeInv /\ InterruptInv /\ [Next]_vars => InterruptInv'
<1> SUFFICES ASSUME TypeInv, InterruptInv, [Next]_vars, (mpc = "wait" /\ stop)'
             PROVE  (\A s \in Slaves : s < ipc /\ search[s].phase = "running" => search[s].stop)'
  BY DEF InterruptInv
<1>0. search \in [Slaves -> Search]
  BY DEF TypeInv, TypeOK
<1>1. CASE Interrupt
  BY <1>1 DEF Interrupt, Slaves
<1>2. CASE InterruptSlave
  <2>1. \A s \in Slaves : s < ipc' <=> s < ipc \/ s = ipc
    BY <1>2 DEF InterruptSlave, Slaves
  <2> QED
    BY <1>0, <1>2, <2>1 DEF InterruptSlave, InterruptThread, InterruptInv, Search, masterVars
<1>3. CASE \E s \in Slaves : SlaveThread(s)
  <2>1. PICK s \in Slaves : SlaveThread(s)
    BY <1>3
  <2>2. search'[s].phase # "running" /\ \A t \in Slaves \ {s} : search'[t] = search[t]
    <3>1. CASE SlaveFinish(s)
      BY <1>0, <3>1 DEF SlaveFinish, Search
    <3>2. CASE SlaveCancel(s)
      BY <1>0, <3>2 DEF SlaveCancel, Search
    <3>3. CASE SlaveReady(s)
      BY <1>0, <3>3 DEF SlaveReady, Search
    <3> QED
      BY <2>1, <3>1, <3>2, <3>3 DEF SlaveThread
  <2>3. UNCHANGED <<mpc, stop, ipc>>
    BY <2>1 DEF SlaveThread, SlaveFinish, SlaveCancel, SlaveReady, masterVars, envVars
  <2> QED
    BY <2>2, <2>3 DEF InterruptInv
<1>4. CASE UNCHANGED <<mpc, stop, search, ipc>>
  BY <1>4 DEF InterruptInv
<1>5. resume # "wait"
  BY DEF TypeInv, TypeOK
<1> QED
  BY <1>1, <1>2, <1>3, <1>4, <1>5, WhoEntersWait

\* No interrupt is in progress when the program starts.
LEMMA InterruptInvInit == Init => InterruptInv
  BY DEF Init, InterruptInv

\* Once an interrupt is complete, a master that waits in the slave loop waits for
\* slaves that have been told to stop.
THEOREM StopReachesSlaves == Spec => []NoLostStop
<1>1. TypeInv /\ InterruptInv => NoLostStop
  BY ConstantsAssumption DEF InterruptInv, NoLostStop, Slaves
<1> QED
  BY <1>1, TypeInvInit, TypeInvStep, InterruptInvInit, InterruptInvStep, PTL DEF Spec

-----------------------------------------------------------------------------
(* The root of the stack. *)

\* Where the frames are after the top one has been replaced.
LEMMA ReplacedIndices ==
  ASSUME StackOK, stack # <<>>, NEW f \in GoodFrame, Replace(f)
  PROVE  /\ Len(stack) \in Nat \ {0} /\ Len(stack') = Len(stack)
         /\ stack'[1] = f /\ \A i \in 2 .. Len(stack) : stack'[i] = stack[i]
<1>1. /\ Tail(stack) \in Seq(GoodFrame) /\ Len(stack) \in Nat \ {0}
      /\ Len(Tail(stack)) = Len(stack) - 1
  BY DEF StackOK
<1>2. \A i \in 1 .. Len(stack) - 1 : Tail(stack)[i] = stack[i + 1]
  BY <1>1 DEF StackOK
<1>3. Len(stack') = Len(stack) /\ stack'[1] = f
      /\ \A i \in 2 .. Len(stack) : stack'[i] = Tail(stack)[i - 1]
  BY <1>1 DEF Replace
<1>4. \A i \in 2 .. Len(stack) : stack'[i] = stack[i]
  BY <1>1, <1>2, <1>3
<1> QED
  BY <1>1, <1>3, <1>4

\* Where the frames are after a call.
LEMMA PushedIndices ==
  ASSUME StackOK, NEW f \in GoodFrame, Push(f)
  PROVE  /\ Len(stack) \in Nat /\ Len(stack') = Len(stack) + 1
         /\ stack'[1] = f /\ \A i \in 2 .. Len(stack') : stack'[i] = stack[i - 1]
  BY DEF StackOK, Push

\* Where the frames are after a return.
LEMMA PoppedIndices ==
  ASSUME StackOK, stack # <<>>, stack' = Tail(stack)
  PROVE  /\ Len(stack) \in Nat \ {0} /\ Len(stack') = Len(stack) - 1
         /\ \A i \in 1 .. Len(stack') : stack'[i] = stack[i + 1]
<1>1. Len(stack) \in Nat \ {0} /\ Len(Tail(stack)) = Len(stack) - 1
  BY DEF StackOK
<1>2. \A i \in 1 .. Len(stack) - 1 : Tail(stack)[i] = stack[i + 1]
  BY <1>1 DEF StackOK
<1> QED
  BY <1>1, <1>2

\* The frame on top is the first of the stack.
LEMMA TopIsFirst ==
  ASSUME StackOK, stack # <<>>
  PROVE  Top = stack[1] /\ Len(stack) \in Nat \ {0}
  BY DEF StackOK, Top

\* A stack without frames is the empty stack.
LEMMA EmptyStack ==
  ASSUME StackOK
  PROVE  stack = <<>> <=> Len(stack) = 0
  BY DEF StackOK

\* Replacing a frame by one of its kind leaves the root frame at the bottom.
LEMMA ReplacedRoot ==
  ASSUME StackOK, stack # <<>>, RootIsBottom, NEW f \in GoodFrame, f.kind = Top.kind, Replace(f)
  PROVE  stack' # <<>> /\ \A i \in 1 .. Len(stack') : stack'[i].kind = "root" <=> i = Len(stack')
<1>1. Top = stack[1] /\ Len(stack) \in Nat \ {0}
  BY TopIsFirst
<1>2. /\ stack' # <<>> /\ Len(stack') = Len(stack) /\ stack'[1] = f
      /\ \A i \in 2 .. Len(stack) : stack'[i] = stack[i]
  BY Replaced, ReplacedIndices
<1>3. \A i \in 1 .. Len(stack) : i = 1 \/ i \in 2 .. Len(stack)
  BY <1>1
<1> QED
  BY <1>1, <1>2, <1>3 DEF RootIsBottom

\* So does calling search() from a call in progress.
LEMMA PushedRoot ==
  ASSUME StackOK, RootIsBottom, NEW f \in GoodFrame, f.kind = "root" <=> stack = <<>>, Push(f)
  PROVE  stack' # <<>> /\ \A i \in 1 .. Len(stack') : stack'[i].kind = "root" <=> i = Len(stack')
<1>1. /\ stack' # <<>> /\ Len(stack) \in Nat /\ Len(stack') = Len(stack) + 1 /\ stack'[1] = f
      /\ \A i \in 2 .. Len(stack') : stack'[i] = stack[i - 1]
  BY Pushed, PushedIndices
<1>2. f.kind = "root" <=> Len(stack) = 0
  BY EmptyStack
<1>3. ASSUME NEW i \in 2 .. Len(stack')
      PROVE  stack'[i].kind = "root" <=> i = Len(stack')
  <2>1. i - 1 \in 1 .. Len(stack)
    BY <1>1
  <2> QED
    BY <1>1, <2>1 DEF RootIsBottom
<1>4. \A i \in 1 .. Len(stack') : i = 1 \/ i \in 2 .. Len(stack')
  BY <1>1
<1> QED
  BY <1>1, <1>2, <1>3, <1>4

\* So does a return; the stack is empty after the return of search_root().
LEMMA PoppedRoot ==
  ASSUME StackOK, stack # <<>>, RootIsBottom
  PROVE  /\ Tail(stack) = <<>> <=> Top.kind = "root"
         /\ \A i \in 1 .. Len(Tail(stack)) :
              Tail(stack)[i].kind = "root" <=> i = Len(Tail(stack))
<1>1. Top = stack[1] /\ Len(stack) \in Nat \ {0}
  BY TopIsFirst
<1>2. PICK t : t = Tail(stack)
  OBVIOUS
<1>3. /\ t \in Seq(GoodFrame) /\ Len(t) = Len(stack) - 1
      /\ \A i \in 1 .. Len(stack) - 1 : t[i] = stack[i + 1]
  BY <1>1, <1>2 DEF StackOK
<1>4. t = <<>> <=> Len(t) = 0
  BY <1>3
<1>5. Top.kind = "root" <=> Len(stack) = 1
  <2>1. 1 \in 1 .. Len(stack)
    BY <1>1
  <2>2. stack[1].kind = "root" <=> 1 = Len(stack)
    BY <2>1 DEF RootIsBottom
  <2> QED
    BY <1>1, <2>2
<1>6. ASSUME NEW i \in 1 .. Len(t)
      PROVE  t[i].kind = "root" <=> i = Len(t)
  <2>1. i + 1 \in 1 .. Len(stack) /\ t[i] = stack[i + 1]
    BY <1>1, <1>3
  <2>2. stack[i + 1].kind = "root" <=> i + 1 = Len(stack)
    BY <2>1 DEF RootIsBottom
  <2> QED
    BY <1>1, <1>3, <2>1, <2>2
<1>7. t = <<>> <=> Top.kind = "root"
  BY <1>1, <1>3, <1>4, <1>5
<1> QED
  BY <1>2, <1>6, <1>7

\* Control points outside search_root().
Outer == {"idle", "iterate", "iterated"}

\* Only search_root() is called from iterate() and returns to it.
LEMMA RootReturnCases ==
  ASSUME TypeInv, RootReturn
  PROVE  /\ At \notin Outer
         /\ \/ At' = "iterated" /\ stack' = Tail(stack)
            \/ At' \notin Outer /\ \E f \in GoodFrame : f.kind = "root" /\ Replace(f)
<1>1. Top \in GoodFrame /\ Top.kind = "root"
  BY TopGood DEF RootReturn, TypeInv, StackOK
<1>2. /\ [Top EXCEPT !.at = "move"] \in {f \in GoodFrame : f.kind = "root"}
      /\ [Top EXCEPT !.value = Blend(@, ret)] \in {f \in GoodFrame : f.kind = "root"}
  BY <1>1 DEF GoodFrame, Frame, Blend
<1> QED
  BY <1>1, <1>2 DEF RootReturn, Call, CheckTime, At, Outer

\* Nothing else enters or leaves search_root().
LEMMA WhoEntersRoot ==
  ASSUME TypeInv, [Next]_vars, ~RootReturn, ~IterateRoot
  PROVE  At' \in Outer <=> At \in Outer
<1> USE DEF At, Outer
<1>1. CASE Start \/ RootMove \/ RootSearch \/ Iterated
  BY <1>1 DEF Start, RootMove, RootSearch, Iterated, Call, Goto, CheckTime
<1>2. CASE CheckTimeout \/ ExtendTime
  BY <1>2 DEF CheckTimeout, ExtendTime, Goto, TypeInv, ResumeFits
<1>3. CASE SearchLeaf \/ NonparallelStart \/ NonparallelWait \/ NonparallelJoin \/ NonparallelDone
           \/ SearchNode
  BY <1>3 DEF SearchLeaf, NonparallelStart, NonparallelWait, NonparallelJoin, NonparallelDone,
              SearchNode, Goto, CheckTime
<1>4. CASE NullMove \/ NullReturn \/ InternalDeepening \/ DeepeningReturn
  BY <1>4 DEF NullMove, NullReturn, InternalDeepening, DeepeningReturn, Call, Return, Goto
<1>5. CASE SeqReduce \/ SeqMove \/ SeqReturn \/ SeqDone \/ SeqEnd
  BY <1>5 DEF SeqReduce, SeqMove, SeqReturn, SeqDone, SeqEnd, Call, Return, Goto, CheckTime
<1>6. CASE FirstMove \/ FirstReturn \/ FirstDone \/ GiveMove
  BY <1>6 DEF FirstMove, FirstReturn, FirstDone, GiveMove, Call, Return, CheckTime
<1>7. CASE NoMoveToGive \/ TestStop \/ WaitSlaveReady \/ SearchAgain \/ CollectSlave
  BY <1>7 DEF NoMoveToGive, TestStop, WaitSlaveReady, SearchAgain, CollectSlave, Goto, CheckTime
<1>8. CASE AbortSlave \/ AbortJoin \/ AbortEnd \/ ParallelEnd
  BY <1>8 DEF AbortSlave, AbortJoin, AbortEnd, ParallelEnd, Return, Goto
<1>9. CASE UNCHANGED <<mpc, resume>>
  BY <1>9
<1> QED
  BY <1>1, <1>2, <1>3, <1>4, <1>5, <1>6, <1>7, <1>8, <1>9
     DEF Next, Master, SlaveThread, SlaveFinish, SlaveCancel, SlaveReady, Interrupt, InterruptSlave,
         Tick, vars, masterVars

\* RootIsBottom is inductive.
LEMMA RootIsBottomStep == TypeInv /\ RootIsBottom /\ [Next]_vars => RootIsBottom'
<1> SUFFICES ASSUME TypeInv, RootIsBottom, [Next]_vars PROVE RootIsBottom'
  OBVIOUS
<1> DEFINE Bottom == \A i \in 1 .. Len(stack) : stack[i].kind = "root" <=> i = Len(stack)
<1>0. StackOK /\ TopFits /\ arg \in Int /\ rootdepth \in Nat /\ Bottom
      /\ (At \in Outer <=> stack = <<>>)
  BY DEF TypeInv, TypeOK, StackOK, RootIsBottom, Outer
<1>1. CASE IterateRoot
  <2>1. PICK f \in GoodFrame : f.kind = "root" /\ Push(f)
    BY <1>1, ConstantsAssumption, <1>0 DEF IterateRoot, GoodFrame, Frame, Early
  <2>2. stack = <<>> /\ At' \notin Outer
    BY <1>0, <1>1 DEF IterateRoot, At, Outer
  <2>3. stack' # <<>> /\ Bottom'
    BY <1>0, <2>1, <2>2, PushedRoot
  <2> QED
    BY <2>2, <2>3 DEF RootIsBottom, Outer
<1>2. CASE RootReturn
  <2>1. stack # <<>> /\ Top.kind = "root"
    BY <1>2 DEF RootReturn
  <2>2. CASE At' = "iterated" /\ stack' = Tail(stack)
    <3>1. stack' = <<>> /\ Bottom'
      BY <1>0, <2>1, <2>2, PoppedRoot
    <3> QED
      BY <2>2, <3>1 DEF RootIsBottom
  <2>3. CASE At' \notin Outer /\ \E f \in GoodFrame : f.kind = "root" /\ Replace(f)
    <3>1. stack' # <<>> /\ Bottom'
      BY <1>0, <2>1, <2>3, ReplacedRoot
    <3> QED
      BY <2>3, <3>1 DEF RootIsBottom, Outer
  <2> QED
    BY <1>2, <2>2, <2>3, RootReturnCases
<1>3. CASE ~IterateRoot /\ ~RootReturn
  <2>1. At' \in Outer <=> At \in Outer
    BY <1>3, WhoEntersRoot
  <2>2. CASE UNCHANGED stack
    BY <1>0, <2>1, <2>2 DEF RootIsBottom, Outer
  <2>3. CASE stack # <<>> /\ \E f \in GoodFrame : Replace(f) /\ f.kind = Top.kind /\ ValueFrom(f)
    <3>1. stack' # <<>> /\ Bottom'
      BY <1>0, <2>3, ReplacedRoot
    <3> QED
      BY <1>0, <2>1, <2>3, <3>1 DEF RootIsBottom, Outer
  <2>4. CASE \E f \in GoodFrame : Push(f) /\ SearchNode /\ f.kind # "root"
    <3>1. stack # <<>> /\ At \notin Outer
      BY <1>0, <2>4 DEF SearchNode, At, Outer
    <3>2. stack' # <<>> /\ Bottom'
      BY <1>0, <2>4, <3>1, PushedRoot
    <3> QED
      BY <2>1, <3>1, <3>2 DEF RootIsBottom, Outer
  <2>5. CASE stack # <<>> /\ stack' = Tail(stack) /\ Top.kind # "root"
    <3>1. stack' # <<>> /\ Bottom'
      BY <1>0, <2>5, PoppedRoot
    <3> QED
      BY <1>0, <2>1, <2>5, <3>1 DEF RootIsBottom, Outer
  <2> QED
    BY <1>0, <1>3, <2>2, <2>3, <2>4, <2>5, StackMoves
<1> QED
  BY <1>1, <1>2, <1>3

-----------------------------------------------------------------------------
(* Genuine scores. *)

\* A limit that was raised is never taken back before the next search.
LEMMA LimitInvStep ==
  ASSUME TypeInv, LimitInv, [Next]_vars
  PROVE  /\ LimitInv'
         /\ ~Start => (Kept' => Kept)
<1>1. limit \in Nat /\ TimeLimit \in Nat
  BY ConstantsAssumption DEF TypeInv, TypeOK
<1>2. CASE Start
  BY <1>1, <1>2 DEF Start, LimitInv
<1>3. CASE ExtendTime
  <2>1. /\ UNCHANGED stale
        /\ UNCHANGED <<limit, stop_iteration>> \/ (limit' \in limit .. HardLimit /\ stop_iteration')
    BY <1>3 DEF ExtendTime, envVars
  <2> QED
    BY <1>1, <2>1 DEF LimitInv, Kept
<1>4. CASE ~Start /\ ~ExtendTime
  BY <1>4, WhoChangesClock, WhoChangesIteration, WhoChangesStale DEF LimitInv, Kept
<1> QED
  BY <1>2, <1>3, <1>4

\* Nothing but the start of the next search and a raised limit takes back that a
\* search is over.
LEMMA OverStays ==
  ASSUME TypeInv, LimitInv, Kept', [Next]_vars, ~Start
  PROVE  /\ stop => stop'
         /\ Over => Over'
<1>1. Kept
  BY LimitInvStep
<1>2. now \in Nat /\ limit \in Nat /\ limit' = limit
  BY <1>1 DEF TypeInv, TypeOK, Kept
<1>3. (UNCHANGED now \/ now' = now + 1) /\ (stop => stop')
  BY WhoChangesClock, WhoChangesStop
<1> QED
  BY <1>2, <1>3 DEF Over

\* A frame's value stays genuine as long as the search is not over.
LEMMA StackGenuineStep ==
  ASSUME TypeInv, AllGenuine, LimitInv, Kept', [Next]_vars, ~Start
  PROVE  StackGenuine'
<1>0. StackOK /\ TopFits /\ arg \in Int /\ rootdepth \in Nat /\ id \in Slaves
  BY DEF TypeInv, TypeOK, StackOK
<1> SUFFICES ASSUME ~Over' PROVE \A i \in 1 .. Len(stack') : stack'[i].value = "score"
  BY DEF StackGenuine
<1>1. ~Over
  BY OverStays
<1>2. \A i \in 1 .. Len(stack) : stack[i].value = "score"
  BY <1>1 DEF AllGenuine, StackGenuine
<1>3. stack # <<>> => Top.value = "score"
  BY <1>0, <1>2, TopIsFirst
<1>4. CASE stack # <<>> /\ \E f \in GoodFrame : Replace(f) /\ f.kind = Top.kind /\ ValueFrom(f)
  <2>1. PICK f \in GoodFrame : Replace(f) /\ ValueFrom(f)
    BY <1>4
  <2>2. mpc \notin {"idle", "iterated"} => ret = "score"
    BY <1>1 DEF AllGenuine, MasterGenuine
  <2>3. CollectSlave => search[id].score = "score"
    BY <1>0, <1>1 DEF CollectSlave, Terminated, AllGenuine, SlavesGenuine, At
  <2>4. f.value = "score"
    BY <1>3, <1>4, <2>1, <2>2, <2>3 DEF ValueFrom, Blend
  <2> QED
    BY <1>0, <1>2, <1>4, <2>1, <2>4, ReplacedIndices
<1>5. CASE \E f \in GoodFrame : Push(f) /\ f.value = "score"
  <2>1. PICK f \in GoodFrame : Push(f) /\ f.value = "score"
    BY <1>5
  <2>2. /\ Len(stack) \in Nat /\ Len(stack') = Len(stack) + 1 /\ stack'[1] = f
        /\ \A i \in 2 .. Len(stack') : stack'[i] = stack[i - 1]
    BY <1>0, <2>1, PushedIndices
  <2>3. \A i \in 2 .. Len(stack') : i - 1 \in 1 .. Len(stack)
    BY <2>2
  <2> QED
    BY <1>2, <2>1, <2>2, <2>3
<1>6. CASE stack # <<>> /\ stack' = Tail(stack)
  <2>1. /\ Len(stack) \in Nat \ {0} /\ Len(stack') = Len(stack) - 1
        /\ \A i \in 1 .. Len(stack') : stack'[i] = stack[i + 1]
    BY <1>0, <1>6, PoppedIndices
  <2>2. \A i \in 1 .. Len(stack') : i + 1 \in 1 .. Len(stack)
    BY <2>1
  <2> QED
    BY <1>2, <2>1, <2>2
<1>7. CASE UNCHANGED stack
  BY <1>2, <1>7
<1> QED
  BY <1>0, <1>4, <1>5, <1>6, <1>7, StackMoves

\* A slave's result stays genuine as long as the search is not over.
LEMMA SlavesGenuineStep ==
  ASSUME TypeInv, SlaveInv, AllGenuine, LimitInv, Kept', [Next]_vars, ~Start
  PROVE  SlavesGenuine'
<1>0. /\ SlaveInv' /\ ResumeFits /\ id \in Slaves /\ id' \in Slaves
      /\ slaves \in [Slaves -> Slave] /\ search \in [Slaves -> Search]
  BY SlaveInvStep, TypeInvStep DEF TypeInv, TypeOK
<1>1. Over => Over'
  BY OverStays
<1> USE DEF AllGenuine, SlavesGenuine
<1>2. CASE UNCHANGED slaveVars /\ Quiet /\ Quiet'
  BY <1>1, <1>2 DEF slaveVars, Quiet, AbortPoints
<1>3. CASE UNCHANGED <<slaveVars, id>> /\ At' = At
  BY <1>1, <1>3 DEF slaveVars
<1>4. CASE NonparallelStart \/ GiveMove
  <2>1. \E s \in Slaves : search' = StartThread(s)
    BY <1>4 DEF NonparallelStart, GiveMove
  <2>2. At # "abort_join"
    BY <1>4 DEF NonparallelStart, GiveMove, At
  <2> QED
    BY <1>0, <1>1, <2>1, <2>2 DEF StartThread, Search
<1>5. CASE NonparallelWait \/ WaitSlaveReady
  <2>1. search' = InterruptThread(id') /\ At # "abort_join" /\ At' \in {"join", "np_join"}
    BY <1>5 DEF NonparallelWait, WaitSlaveReady, Goto, At
  <2>2. search'[id'].phase = "posted"
    BY <1>0, <2>1 DEF SlaveInv, QueueContents
  <2> QED
    BY <1>0, <1>1, <2>1, <2>2 DEF InterruptThread, Search
<1>6. CASE NonparallelJoin \/ CollectSlave \/ AbortJoin
  <2>1. search' = Joined(id)
    BY <1>6 DEF NonparallelJoin, CollectSlave, AbortJoin
  <2> QED
    BY <1>0, <1>1, <2>1 DEF Joined, Search
<1>7. CASE NonparallelDone \/ FirstDone \/ NoMoveToGive \/ TestStop \/ AbortEnd
  <2>1. UNCHANGED search /\ At # "abort_join"
    BY <1>7 DEF NonparallelDone, FirstDone, NoMoveToGive, TestStop, AbortEnd, slaveVars, At
  <2> QED
    BY <1>1, <2>1
<1>8. CASE SearchAgain
  <2>1. At # "abort_join"
    BY <1>8 DEF SearchAgain, At
  <2> QED
    BY <1>0, <1>1, <1>8, <2>1 DEF SearchAgain, Search
<1>9. CASE AbortSlave
  <2>1. At # "abort_join" /\ At' = "abort_join" /\ search' = InterruptThread(id')
    BY <1>9 DEF AbortSlave, At
  <2> QED
    BY <1>0, <1>1, <2>1 DEF InterruptThread, Search
<1>10. CASE \E s \in Slaves : SlaveThread(s)
  <2>1. PICK s \in Slaves : SlaveThread(s)
    BY <1>10
  <2>2. At' = At /\ id' = id /\ (now >= limit => Over')
    BY <1>1, <2>1 DEF SlaveThread, SlaveFinish, SlaveCancel, SlaveReady, At, masterVars, Over
  <2>3. CASE SlaveFinish(s)
    BY <1>0, <1>1, <2>2, <2>3 DEF SlaveFinish, Search
  <2>4. CASE SlaveCancel(s)
    BY <1>0, <1>1, <2>2, <2>4 DEF SlaveCancel, Search
  <2>5. CASE SlaveReady(s)
    BY <1>0, <1>1, <2>2, <2>5 DEF SlaveReady, Search
  <2> QED
    BY <2>1, <2>3, <2>4, <2>5 DEF SlaveThread
<1>11. CASE InterruptSlave
  <2>1. stop /\ At' = At /\ id' = id
    BY <1>11, ConstantsAssumption DEF InterruptSlave, MasterGenuine, Slaves, At, masterVars
  <2> QED
    BY <1>1, <2>1 DEF Over
<1> QED
  BY <1>0, <1>2, <1>3, <1>4, <1>5, <1>6, <1>7, <1>8, <1>9, <1>10, <1>11, WhoTouchesSlaves

\* A return value stays genuine as long as the search is not over.
LEMMA MasterGenuineStep ==
  ASSUME TypeInv, RootIsBottom, AllGenuine, LimitInv, Kept', [Next]_vars, ~Start
  PROVE  MasterGenuine'
<1>0. StackOK /\ id \in Slaves /\ ResumeFits /\ (stop => stop') /\ (Over => Over')
  BY OverStays DEF TypeInv, TypeOK, StackOK
<1>1. stack # <<>> /\ Top.value # "score" => Over
  BY <1>0, TopIsFirst DEF AllGenuine, StackGenuine
<1> USE DEF AllGenuine, MasterGenuine
<1>2. ret' # "score" /\ mpc' # "idle" => Over'
  <2>1. CASE UNCHANGED ret
    BY <1>0, <2>1, WhoChangesPoint
  <2>2. CASE RootReturn
    BY <1>0, <1>1, <2>2 DEF RootReturn, Call, CheckTime, Blend, Over
  <2>3. CASE SearchLeaf
    BY <1>0, <2>3 DEF SearchLeaf, LeafValues
  <2>4. CASE NonparallelJoin
    BY <1>0, <2>4 DEF NonparallelJoin, Terminated, SlavesGenuine, At
  <2>5. CASE SeqDone \/ FirstDone
    BY <1>0, <2>5 DEF SeqDone, FirstDone, Return, Over
  <2>6. CASE SeqEnd \/ ParallelEnd
    BY <1>0, <1>1, <2>6 DEF SeqEnd, ParallelEnd, Return, TypeInv, TopFits, At
  <2>7. CASE AbortEnd
    BY <1>0, <2>7 DEF AbortEnd, Goto, Return, ResumeFits, AbortPoints
  <2> QED
    BY <2>1, <2>2, <2>3, <2>4, <2>5, <2>6, <2>7, WhoChangesRet
<1>3. mpc' # "check" /\ At' = "iterated" /\ ret' # "score" => stop'
  <2>1. CASE CheckTimeout
    BY <1>0, <2>1 DEF CheckTimeout, Over, At, ResumeFits
  <2>2. CASE ExtendTime
    <3>1. mpc = "extend" /\ mpc' = resume /\ resume # "extend" /\ UNCHANGED <<resume, ret, stop>>
      BY <1>0, <2>2 DEF ExtendTime, Goto, ResumeFits
    <3> QED
      BY <3>1 DEF At
  <2>3. CASE UNCHANGED <<mpc, resume, ret>>
    BY <1>0, <2>3 DEF At
  <2> QED
    BY <1>0, <2>1, <2>2, <2>3, WhoComesToIterated DEF At
<1>4. mpc' \in AbortPoints /\ resume' = "cancelled" => Over'
  <2>1. CASE TestStop
    BY <1>0, <2>1 DEF TestStop, Over, AbortPoints
  <2>2. CASE CollectSlave
    BY <2>2 DEF CollectSlave, AbortPoints
  <2>3. CASE mpc \in AbortPoints /\ UNCHANGED resume
    BY <1>0, <2>3
  <2>4. CASE CheckTimeout \/ ExtendTime
    BY <2>4 DEF CheckTimeout, ExtendTime, Goto, ResumeFits, AbortPoints, TypeInv
  <2> QED
    BY <2>1, <2>2, <2>3, <2>4, WhoChangesPoint DEF AbortPoints
<1>5. ipc' # NSlaves => stop'
  <2>1. CASE Interrupt
    BY <2>1 DEF Interrupt
  <2>2. CASE InterruptSlave
    BY <1>0, <2>2, ConstantsAssumption DEF InterruptSlave, Slaves
  <2> QED
    BY <1>0, <2>1, <2>2, WhoChangesIpc
<1>6. hashtable' \subseteq {"score"} \/ Over'
  <2>1. CASE UNCHANGED hashtable
    BY <1>0, <2>1
  <2>2. CASE NonparallelDone
    BY <1>0, <2>2 DEF NonparallelDone, Store
  <2>3. CASE CollectSlave
    BY <1>0, <2>3 DEF CollectSlave, Store, Terminated, SlavesGenuine, At
  <2>4. CASE SeqEnd \/ ParallelEnd
    BY <1>0, <1>1, <2>4 DEF SeqEnd, ParallelEnd, Store, TypeInv, TopFits, At
  <2> QED
    BY <2>1, <2>2, <2>3, <2>4, WhoChangesHashtable
<1> QED
  BY <1>2, <1>3, <1>4, <1>5, <1>6

\* What iterate() takes over: while the limit is as allocated the stop flag tells
\* it, and a raised limit makes this iteration the last one.
LEMMA AcceptedStep ==
  ASSUME TypeInv, GenuineInv, [Next]_vars, ~Start
  PROVE  CancelledOnlyWhenExtended'
<1>1. /\ limit \in Nat /\ TimeLimit \in Nat /\ limit >= TimeLimit /\ UNCHANGED stale
      /\ mpc = "idle" => mpc' = "idle"
  BY ConstantsAssumption, WhoChangesPoint, WhoChangesStale DEF TypeInv, TypeOK, GenuineInv, LimitInv
<1>2. CASE Iterated
  <2>1. UNCHANGED limit /\ mpc = "iterated"
    BY <1>2 DEF Iterated
  <2>2. CASE Kept
    <3>1. ret # "score" => stop
      BY <2>1, <2>2 DEF GenuineInv, AllGenuine, MasterGenuine, At
    <3> QED
      BY <1>1, <1>2, <2>1, <3>1 DEF Iterated, GenuineInv, CancelledOnlyWhenExtended
  <2>3. CASE limit > TimeLimit
    BY <1>1, <1>2, <2>1, <2>3 DEF Iterated, Goto, GenuineInv, LimitInv, CancelledOnlyWhenExtended
  <2> QED
    BY <1>1, <2>2, <2>3 DEF Kept, CancelledOnlyWhenExtended
<1>3. CASE ~Iterated
  <2>1. UNCHANGED best
    BY <1>3, WhoChangesBest
  <2>2. CASE best # "score" /\ ~stale
    <3>1. limit > TimeLimit /\ mpc = "idle"
      BY <2>2 DEF GenuineInv, CancelledOnlyWhenExtended
    <3>2. UNCHANGED limit
      BY <3>1, WhoChangesClock DEF ExtendTime
    <3> QED
      BY <1>1, <3>1, <3>2 DEF CancelledOnlyWhenExtended
  <2> QED
    BY <1>1, <2>1, <2>2 DEF CancelledOnlyWhenExtended
<1> QED
  BY <1>2, <1>3

\* GenuineInv is inductive.
LEMMA GenuineInvStep ==
  ASSUME TypeInv, SlaveInv, RootIsBottom, GenuineInv, [Next]_vars
  PROVE  GenuineInv'
<1>1. CASE Start
  <2>1. Quiet /\ At \in Outer
    BY <1>1 DEF Start, Quiet, At, Outer, LoopPoints, AbortPoints, AlonePoints
  <2>2. \A s \in Slaves : search'[s].phase = "none"
    BY <1>1, <2>1 DEF Start, TypeInv, TypeOK, Search, SlaveInv, BusySlaves, ThreadPhases
  <2>3. Len(stack') = 0
    BY <1>1, <2>1 DEF Start, RootIsBottom, Outer
  <2>4. Kept' => AllGenuine'
    <3>1. SlavesGenuine' /\ StackGenuine'
      BY <2>2, <2>3 DEF SlavesGenuine, StackGenuine
    <3>2. /\ mpc' = "iterate" /\ ret' = "score" /\ ipc' = NSlaves /\ UNCHANGED hashtable
          /\ stale' = ~ (hashtable \subseteq {"score"})
      BY <1>1 DEF Start
    <3> QED
      BY <3>1, <3>2 DEF AllGenuine, MasterGenuine, Kept, At, AbortPoints
  <2>5. CancelledOnlyWhenExtended'
    BY <1>1 DEF Start, CancelledOnlyWhenExtended
  <2> QED
    BY <2>4, <2>5, LimitInvStep DEF GenuineInv
<1>2. CASE ~Start
  <2>1. CASE Kept'
    BY <1>2, <2>1, LimitInvStep, StackGenuineStep, SlavesGenuineStep, MasterGenuineStep,
       AcceptedStep DEF GenuineInv, AllGenuine
  <2>2. CASE ~Kept'
    BY <1>2, <2>2, LimitInvStep, AcceptedStep DEF GenuineInv
  <2> QED
    BY <2>1, <2>2
<1> QED
  BY <1>1, <1>2

\* GenuineInv holds when the program starts.
LEMMA GenuineInvInit ==
  ASSUME Init
  PROVE  RootIsBottom /\ GenuineInv
  BY ConstantsAssumption DEF Init, RootIsBottom, GenuineInv, AllGenuine, SlavesGenuine,
     StackGenuine, MasterGenuine, Kept, LimitInv, CancelledOnlyWhenExtended, At, AbortPoints

\* iterate() takes a score of a cancelled search at most in the last iteration of a
\* search whose limit extend_time_iteration() has raised, or if the hash table it
\* began with already held one: for any number of slaves, with the hash table and
\* with time extension.
THEOREM AcceptedGenuine == Spec => []CancelledOnlyWhenExtended
<1>1. Init => TypeInv /\ SlaveInv /\ RootIsBottom /\ GenuineInv
  BY TypeInvInit, SlaveInvInit, GenuineInvInit
<1>2. TypeInv /\ SlaveInv /\ RootIsBottom /\ GenuineInv /\ [Next]_vars
        => (TypeInv /\ SlaveInv /\ RootIsBottom /\ GenuineInv)'
  BY TypeInvStep, SlaveInvStep, RootIsBottomStep, GenuineInvStep
<1>3. GenuineInv => CancelledOnlyWhenExtended
  BY DEF GenuineInv
<1> QED
  BY <1>1, <1>2, <1>3, PTL DEF Spec

-----------------------------------------------------------------------------
(* The sum of the slaves' counts. *)

\* Induction: a set of numbers that is not empty has a least one.
LEMMA LeastNumber ==
  ASSUME NEW S \in SUBSET Nat, S # {}
  PROVE  \E m \in S : \A n \in S : m <= n
<1>1. PICK m \in S : \A n \in S : ~(<<n, m>> \in OpToRel(<, Nat))
  BY NatLessThanWellFounded, WFMin
<1>2. \A n \in S : n < m => <<n, m>> \in OpToRel(<, Nat)
  BY DEF OpToRel
<1>3. \A n \in S : ~(n < m) => m <= n
  OBVIOUS
<1> QED
  BY <1>1, <1>2, <1>3

\* The sums of the first counts.
IsSums(sum, f, k) ==
  /\ sum \in [0 .. k -> Int] /\ sum[0] = 0
  /\ \A n \in 1 .. k : sum[n] = sum[n - 1] + f[n - 1]

LEMMA SumsExist ==
  ASSUME NEW f \in [Slaves -> Int]
  PROVE  \E sum : IsSums(sum, f, NSlaves)
<1> DEFINE Bad == {k \in 0 .. NSlaves : ~\E sum : IsSums(sum, f, k)}
<1>0. NSlaves \in Nat
  BY ConstantsAssumption
<1>1. SUFFICES Bad = {}
  BY <1>0
<1>2. SUFFICES ASSUME Bad # {} PROVE FALSE
  OBVIOUS
<1>3. PICK k \in Bad : \A l \in Bad : k <= l
  <2> HIDE DEF Bad
  <2>1. Bad \in SUBSET Nat
    BY <1>0 DEF Bad
  <2> QED
    BY <1>2, <2>1, LeastNumber
<1>4. CASE k = 0
  <2>1. IsSums([n \in 0 .. 0 |-> 0], f, 0)
    BY DEF IsSums
  <2> QED
    BY <1>4, <2>1
<1>5. CASE k # 0
  <2>1. k \in Nat \ {0} /\ k <= NSlaves /\ k - 1 \in 0 .. NSlaves /\ ~(k <= k - 1)
    BY <1>0, <1>5
  <2>2. PICK sum : IsSums(sum, f, k - 1)
    BY <1>3, <2>1
  <2> DEFINE more == [n \in 0 .. k |-> IF n = k THEN sum[k - 1] + f[k - 1] ELSE sum[n]]
  <2>3. f[k - 1] \in Int /\ sum[k - 1] \in Int
    <3>1. k - 1 \in Slaves /\ k - 1 \in 0 .. k - 1
      BY <1>0, <2>1 DEF Slaves
    <3> QED
      BY <2>2, <3>1 DEF IsSums
  <2>4. more \in [0 .. k -> Int]
    BY <2>1, <2>2, <2>3 DEF IsSums
  <2>5. more[0] = 0 /\ \A n \in 1 .. k : more[n] = more[n - 1] + f[n - 1]
    BY <2>1, <2>2 DEF IsSums
  <2>6. IsSums(more, f, k)
    BY <2>4, <2>5 DEF IsSums
  <2> QED
    BY <2>6
<1> QED
  BY <1>4, <1>5

\* SumOf is the last of them.
LEMMA SumIsLast ==
  ASSUME NEW f \in [Slaves -> Int]
  PROVE  \E sum : IsSums(sum, f, NSlaves) /\ SumOf(f) = sum[NSlaves]
<1> DEFINE Step(g) == [n \in 0 .. NSlaves |-> IF n = 0 THEN 0 ELSE g[n - 1] + f[n - 1]]
           sum == CHOOSE g : g = Step(g)
<1>0. NSlaves \in Nat
  BY ConstantsAssumption
<1>1. \E g : g = Step(g)
  <2>1. PICK g : IsSums(g, f, NSlaves)
    BY SumsExist
  <2>2. \A n \in 0 .. NSlaves : g[n] = IF n = 0 THEN 0 ELSE g[n - 1] + f[n - 1]
    BY <1>0, <2>1 DEF IsSums
  <2>3. g = Step(g)
    BY <2>1, <2>2 DEF IsSums
  <2> QED
    BY <2>3
<1>2. sum = Step(sum)
  BY <1>1
<1>3. SumOf(f) = sum[NSlaves]
  BY DEF SumOf
<1> HIDE DEF sum
<1>4. sum = [n \in 0 .. NSlaves |-> IF n = 0 THEN 0 ELSE sum[n - 1] + f[n - 1]]
  BY <1>2
<1> HIDE DEF Step
<1>5. sum[0] = 0 /\ \A n \in 1 .. NSlaves : sum[n] = sum[n - 1] + f[n - 1]
  BY <1>0, <1>4
<1>6. \A n \in 0 .. NSlaves : sum[n] \in Int
  <2> DEFINE Bad == {n \in 0 .. NSlaves : sum[n] \notin Int}
  <2>1. SUFFICES ASSUME Bad # {} PROVE FALSE
    OBVIOUS
  <2>2. PICK n \in Bad : \A l \in Bad : n <= l
    <3>1. Bad \in SUBSET Nat
      BY <1>0
    <3> HIDE DEF Bad
    <3> QED
      BY <2>1, <3>1, LeastNumber
  <2>3. n # 0
    BY <1>5
  <2>4. n - 1 \in 0 .. NSlaves /\ n \in 1 .. NSlaves /\ ~(n <= n - 1) /\ n - 1 \in Slaves
    BY <1>0, <2>3 DEF Slaves
  <2>5. sum[n - 1] \in Int /\ f[n - 1] \in Int
    BY <2>2, <2>4
  <2> QED
    BY <1>5, <2>4, <2>5
<1>7. IsSums(sum, f, NSlaves)
  <2>1. sum \in [0 .. NSlaves -> Int]
    BY <1>4, <1>6
  <2> QED
    BY <1>5, <2>1 DEF IsSums
<1> QED
  BY <1>3, <1>7

\* A count that changes changes the sum as much.
LEMMA SumChanges ==
  ASSUME NEW f \in [Slaves -> Int], NEW g \in [Slaves -> Int], NEW s \in Slaves,
         \A t \in Slaves \ {s} : g[t] = f[t]
  PROVE  SumOf(g) = SumOf(f) + (g[s] - f[s]) /\ SumOf(f) \in Int
<1>0. NSlaves \in Nat /\ s \in 0 .. NSlaves - 1
  BY ConstantsAssumption DEF Slaves
<1>1. PICK sumf : IsSums(sumf, f, NSlaves) /\ SumOf(f) = sumf[NSlaves]
  BY SumIsLast
<1>2. PICK sumg : IsSums(sumg, g, NSlaves) /\ SumOf(g) = sumg[NSlaves]
  BY SumIsLast
<1>3. PICK d \in Int : d = g[s] - f[s]
  OBVIOUS
<1> DEFINE Good(n) == sumg[n] = sumf[n] + (IF n > s THEN d ELSE 0)
           Bad == {n \in 0 .. NSlaves : ~Good(n)}
<1>4. ASSUME Bad # {} PROVE FALSE
  <2>1. PICK n \in Bad : \A l \in Bad : n <= l
    <3>1. Bad \in SUBSET Nat
      BY <1>0
    <3> HIDE DEF Bad
    <3> QED
      BY <1>4, <3>1, LeastNumber
  <2>2. CASE n = 0
    BY <1>0, <1>1, <1>2, <2>1, <2>2 DEF IsSums
  <2>3. CASE n # 0
    <3>1. n \in 1 .. NSlaves /\ n - 1 \in 0 .. NSlaves /\ ~(n <= n - 1) /\ n - 1 \in Slaves
      BY <1>0, <2>3 DEF Slaves
    <3>2. sumg[n - 1] = sumf[n - 1] + (IF n - 1 > s THEN d ELSE 0)
      BY <2>1, <3>1
    <3>3. sumg[n] = sumg[n - 1] + g[n - 1] /\ sumf[n] = sumf[n - 1] + f[n - 1]
          /\ sumf[n - 1] \in Int /\ f[n - 1] \in Int /\ g[n - 1] \in Int
      BY <1>1, <1>2, <3>1 DEF IsSums
    <3>4. g[n - 1] = f[n - 1] + (IF n - 1 = s THEN d ELSE 0)
      BY <1>3, <3>1, <3>3
    <3>5. Good(n)
      BY <1>0, <3>1, <3>2, <3>3, <3>4
    <3> QED
      BY <2>1, <3>5
  <2> QED
    BY <2>2, <2>3
<1>5. Good(NSlaves)
  BY <1>0, <1>4
<1>6. NSlaves > s /\ SumOf(f) \in Int
  BY <1>0, <1>1 DEF IsSums
<1> QED
  BY <1>1, <1>2, <1>3, <1>5, <1>6

\* The sum of no counts.
LEMMA SumZero ==
  ASSUME NEW f \in [Slaves -> Int], \A s \in Slaves : f[s] = 0
  PROVE  SumOf(f) = 0
<1>0. NSlaves \in Nat
  BY ConstantsAssumption
<1>1. PICK sum : IsSums(sum, f, NSlaves) /\ SumOf(f) = sum[NSlaves]
  BY SumIsLast
<1> DEFINE Bad == {n \in 0 .. NSlaves : sum[n] # 0}
<1>2. ASSUME Bad # {} PROVE FALSE
  <2>1. PICK n \in Bad : \A l \in Bad : n <= l
    <3>1. Bad \in SUBSET Nat
      BY <1>0
    <3> HIDE DEF Bad
    <3> QED
      BY <1>2, <3>1, LeastNumber
  <2>2. n # 0
    BY <1>1 DEF IsSums
  <2>3. n \in 1 .. NSlaves /\ n - 1 \in 0 .. NSlaves /\ ~(n <= n - 1) /\ n - 1 \in Slaves
    BY <1>0, <2>2 DEF Slaves
  <2>4. sum[n - 1] = 0 /\ f[n - 1] = 0 /\ sum[n] = sum[n - 1] + f[n - 1]
    BY <1>1, <2>1, <2>3 DEF IsSums
  <2> QED
    BY <2>1, <2>4
<1> QED
  BY <1>0, <1>1, <1>2

\* What the master has taken over from each slave, so far.
Taken == [s \in Slaves |-> slaves[s].last_nodes]

\* The inductive invariant: the total is the sum of what has been taken over,
\* at any time, also of slaves that are busy.
TotalInv == nodes = SumOf(Taken)

\* The master's total changes with what it has taken over.
LEMMA TotalChanges ==
  [Next]_vars =>
    \/ UNCHANGED <<nodes, slaves>>
    \/ Start \/ NonparallelStart \/ NonparallelDone \/ GiveMove \/ SearchAgain
    \/ CollectSlave \/ AbortJoin
BY DEF Next, Master, SlaveThread, Start, IterateRoot, RootMove, RootSearch,
        RootReturn, Iterated, CheckTimeout, ExtendTime, SearchLeaf, NonparallelStart,
        NonparallelWait, NonparallelJoin, NonparallelDone, SearchNode, NullMove,
        NullReturn, InternalDeepening, DeepeningReturn, SeqReduce, SeqMove, SeqReturn,
        SeqDone, SeqEnd, FirstMove, FirstReturn, FirstDone, GiveMove, NoMoveToGive,
        TestStop, WaitSlaveReady, SearchAgain, CollectSlave, AbortSlave, AbortJoin,
        AbortEnd, ParallelEnd, SlaveFinish, SlaveCancel, SlaveReady, Interrupt,
        InterruptSlave, Tick,
        vars, masterVars, iterVars, dataVars, slaveVars, envVars

LEMMA TakenType ==
  ASSUME slaves \in [Slaves -> Slave]
  PROVE  Taken \in [Slaves -> Int]
BY DEF Taken, Slave

LEMMA TotalStep ==
  ASSUME TypeInv, TypeInv', TotalInv, [Next]_vars
  PROVE  TotalInv'
<1>0. /\ slaves \in [Slaves -> Slave] /\ search \in [Slaves -> Search] /\ id \in Slaves
      /\ slaves' \in [Slaves -> Slave] /\ Taken \in [Slaves -> Int] /\ Taken' \in [Slaves -> Int]
  <2>1. /\ slaves \in [Slaves -> Slave] /\ search \in [Slaves -> Search] /\ id \in Slaves
        /\ slaves' \in [Slaves -> Slave]
    BY DEF TypeInv, TypeOK
  <2>2. \A s \in Slaves : slaves'[s].last_nodes \in Int
    BY <2>1 DEF Slave
  <2> QED
    BY <2>1, <2>2, TakenType DEF Taken
<1>1. CASE UNCHANGED <<nodes, slaves>>
  BY <1>1 DEF TotalInv, Taken
<1>2. CASE Start
  <2>1. nodes' = 0 /\ \A s \in Slaves : Taken'[s] = 0
    BY <1>0, <1>2 DEF Start, Taken, Slave
  <2> QED
    BY <1>0, <2>1, SumZero DEF TotalInv
<1>3. CASE NonparallelStart \/ GiveMove
  <2>1. PICK t \in Slaves, nullwin \in BOOLEAN :
          \/ slaves' = [slaves EXCEPT ![t].free = FALSE, ![t].node = "node"]
          \/ slaves' = [slaves EXCEPT ![t].free = FALSE, ![t].node = "child",
                                      ![t].used = @ + 1, ![t].pvs_nullwin = nullwin]
    BY <1>3 DEF NonparallelStart, GiveMove
  <2>2. \A s \in Slaves : slaves'[s].last_nodes = slaves[s].last_nodes
    BY <1>0, <2>1 DEF Slave
  <2>3. nodes' = nodes
    BY <1>3 DEF NonparallelStart, GiveMove, dataVars
  <2> QED
    BY <2>2, <2>3 DEF TotalInv, Taken
<1>4. CASE NonparallelDone \/ SearchAgain \/ CollectSlave \/ AbortJoin
  <2>1. nodes' = nodes + (search[id].nodes - slaves[id].last_nodes)
    BY <1>4 DEF NonparallelDone, SearchAgain, CollectSlave, AbortJoin, Statistics
  <2>2. \/ slaves' = Released(id)
        \/ slaves' = [slaves EXCEPT ![id].pvs_nullwin = FALSE,
                                    ![id].last_nodes = search[id].nodes]
    BY <1>4 DEF NonparallelDone, SearchAgain, CollectSlave, AbortJoin
  <2>3. /\ slaves'[id].last_nodes = search[id].nodes
        /\ \A s \in Slaves \ {id} : slaves'[s] = slaves[s]
    BY <1>0, <2>2 DEF Released, Slave
  <2>4. /\ Taken[id] = slaves[id].last_nodes /\ Taken'[id] = search[id].nodes
        /\ \A s \in Slaves \ {id} : Taken'[s] = Taken[s]
    BY <1>0, <2>3 DEF Taken
  <2>5. SumOf(Taken') = SumOf(Taken) + (Taken'[id] - Taken[id])
    BY <1>0, <2>4, SumChanges
  <2>6. SumOf(Taken)' = SumOf(Taken')
    BY DEF SumOf
  <2> QED
    BY <2>1, <2>4, <2>5, <2>6 DEF TotalInv
<1> QED
  BY <1>1, <1>2, <1>3, <1>4, TotalChanges

\* Whatever was aborted, started again or waited for: once all slaves are free,
\* the master's total is the sum of what they have counted.
THEOREM TotalComplete == Spec => []StatisticsComplete
<1>1. Init => TotalInv
  <2> SUFFICES ASSUME Init PROVE TotalInv
    OBVIOUS
  <2>1. nodes = 0 /\ Taken \in [Slaves -> Int] /\ \A s \in Slaves : Taken[s] = 0
    BY DEF Init, Taken
  <2> QED
    BY <2>1, SumZero DEF TotalInv
<1>2. TypeInv /\ TypeInv' /\ TotalInv /\ [Next]_vars => TotalInv'
  BY TotalStep
<1>3. TotalInv /\ StatisticsTaken => StatisticsComplete
  <2> SUFFICES ASSUME TotalInv, StatisticsTaken, AllSlavesFree PROVE nodes = SumOf([s \in Slaves |-> search[s].nodes])
    BY DEF StatisticsComplete
  <2>1. \A s \in Slaves : slaves[s].last_nodes = search[s].nodes
    BY DEF AllSlavesFree, StatisticsTaken
  <2>2. Taken = [s \in Slaves |-> search[s].nodes]
    BY <2>1 DEF Taken
  <2> QED
    BY <2>2 DEF TotalInv
<1> QED
  BY <1>1, <1>2, <1>3, SlavesInvariant, StatisticsAreTaken, PTL DEF Spec

-----------------------------------------------------------------------------
(* The master's node allocator. *)

\* The calls below the one on top that hold a child node.
Below == {i \in 2 .. Len(stack) : Holds(stack[i])}

\* The node that the call on top holds.
TopNode == IF stack # <<>> /\ Holds(Top) /\ ChildInUse THEN 1 ELSE 0

\* Where the frame on top says that its call is.
FrameFits ==
  /\ At \in {"search", "return"} \union AlonePoints => Top.at # "none"
  /\ At = "root_search" => Top.at = "move"
  /\ At = "seq_done" => Top.at \in {"nullwin", "move"}

\* The inductive invariant: nodes are counted where they are held, and a call
\* that waits for another one, or has a child to give back, is where its frame
\* says.
NodesInv ==
  /\ nodealloc = Cardinality(Below) + TopNode
  /\ \A i \in 2 .. Len(stack) : stack[i].at # "none"
  /\ FrameFits

LEMMA BelowFinite ==
  ASSUME StackOK
  PROVE  IsFiniteSet(Below) /\ Cardinality(Below) \in Nat
<1>1. Len(stack) \in Int /\ 2 \in Int
  BY DEF StackOK
<1>2. IsFiniteSet(2 .. Len(stack)) /\ Below \in SUBSET (2 .. Len(stack))
  BY <1>1, FS_Interval DEF Below
<1> QED
  BY <1>2, FS_Subset, FS_CardinalityType

\* Counting from another number does not change how many they are.
LEMMA Shifted ==
  ASSUME NEW S \in SUBSET Int, IsFiniteSet(S)
  PROVE  IsFiniteSet({i + 1 : i \in S}) /\ Cardinality({i + 1 : i \in S}) = Cardinality(S)
<1> DEFINE T == {i + 1 : i \in S}
           f == [i \in S |-> i + 1]
<1>1. f \in [S -> T] /\ \A a, b \in S : f[a] = f[b] => a = b
  OBVIOUS
<1>2. \A t \in T : \E i \in S : f[i] = t
  OBVIOUS
<1> HIDE DEF f, T
<1>3. f \in Bijection(S, T)
  BY <1>1, <1>2, Fun_IsBij
<1>4. ExistsBijection(S, T)
  BY <1>3, Fun_ExistsBij
<1>5. IsFiniteSet(T) /\ Cardinality(T) = Cardinality(S)
  BY <1>4, FS_Bijection
<1> QED
  BY <1>5 DEF T

\* Continuing a call leaves the others where they are.
LEMMA ReplacedBelow ==
  ASSUME StackOK, stack # <<>>, NEW f \in GoodFrame, Replace(f)
  PROVE  Below' = Below
BY ReplacedIndices DEF Below, Holds

\* A call adds its caller.
LEMMA PushedBelow ==
  ASSUME StackOK, stack # <<>>, NEW f \in GoodFrame, Push(f)
  PROVE  Cardinality(Below') = Cardinality(Below) + (IF Holds(Top) THEN 1 ELSE 0)
<1> DEFINE held == {i \in 1 .. Len(stack) : Holds(stack[i])}
<1>1. /\ Len(stack) \in Nat \ {0} /\ Len(stack') = Len(stack) + 1 /\ Top = stack[1]
      /\ \A i \in 2 .. Len(stack') : stack'[i] = stack[i - 1]
  BY PushedIndices, TopIsFirst
<1>2. IsFiniteSet(Below) /\ Cardinality(Below) \in Nat /\ 1 \notin Below
  BY BelowFinite DEF Below
<1>3. held = IF Holds(Top) THEN Below \union {1} ELSE Below
  BY <1>1 DEF Below
<1>4. IsFiniteSet(held) /\ Cardinality(held) = Cardinality(Below) + (IF Holds(Top) THEN 1 ELSE 0)
  <2> HIDE DEF held
  <2>1. CASE Holds(Top)
    BY <1>2, <1>3, <2>1, FS_AddElement
  <2>2. CASE ~Holds(Top)
    BY <1>2, <1>3, <2>2
  <2> QED
    BY <2>1, <2>2
<1>5. Below' = {i + 1 : i \in held}
  <2>1. \A i \in 2 .. Len(stack') : i - 1 \in 1 .. Len(stack) /\ i = (i - 1) + 1
    BY <1>1
  <2>2. \A i \in 1 .. Len(stack) : i + 1 \in 2 .. Len(stack') /\ stack'[i + 1] = stack[i]
    BY <1>1
  <2>3. Below' = {i \in 2 .. Len(stack') : Holds(stack'[i])}
    BY DEF Below, Holds
  <2>4. \A i \in Below' : i - 1 \in held /\ i = (i - 1) + 1
    BY <1>1, <2>1, <2>3
  <2>5. \A i \in held : i + 1 \in Below'
    BY <2>2, <2>3
  <2> HIDE DEF held
  <2> QED
    BY <2>4, <2>5
<1>6. held \in SUBSET Int
  BY <1>1
<1> HIDE DEF held
<1> QED
  BY <1>4, <1>5, <1>6, Shifted

\* A return removes it again.
LEMMA PoppedBelow ==
  ASSUME StackOK, stack # <<>>, stack' = Tail(stack)
  PROVE  Cardinality(Below) = Cardinality(Below') + (IF stack' # <<>> /\ Holds(Top') THEN 1 ELSE 0)
<1> DEFINE held == {i \in 1 .. Len(stack') : Holds(stack'[i])}
<1>1. /\ Len(stack) \in Nat \ {0} /\ Len(stack') = Len(stack) - 1
      /\ \A i \in 1 .. Len(stack') : stack'[i] = stack[i + 1]
  BY PoppedIndices
<1>2. StackOK'
  BY Popped
<1>3. stack' # <<>> => Top' = stack'[1]
  BY <1>2 DEF Top, StackOK
<1>4. stack' = <<>> <=> Len(stack') = 0
  <2>1. PICK t \in Seq(GoodFrame) : t = stack'
    BY <1>2 DEF StackOK
  <2>2. t = <<>> <=> Len(t) = 0
    OBVIOUS
  <2> QED
    BY <2>1, <2>2
<1>5. IsFiniteSet(Below') /\ Cardinality(Below') \in Nat /\ 1 \notin Below'
  <2>1. Len(stack') \in Int /\ 2 \in Int
    BY <1>1
  <2>2. IsFiniteSet(2 .. Len(stack')) /\ Below' \in SUBSET (2 .. Len(stack'))
    BY <2>1, FS_Interval DEF Below
  <2> QED
    BY <2>2, FS_Subset, FS_CardinalityType DEF Below
<1>6. Below' = {i \in 2 .. Len(stack') : Holds(stack'[i])}
  BY DEF Below, Holds
<1>7. held = IF stack' # <<>> /\ Holds(Top') THEN Below' \union {1} ELSE Below'
  BY <1>1, <1>3, <1>4, <1>6
<1>8. /\ IsFiniteSet(held)
      /\ Cardinality(held) = Cardinality(Below') + (IF stack' # <<>> /\ Holds(Top') THEN 1 ELSE 0)
  <2> HIDE DEF held
  <2>1. CASE stack' # <<>> /\ Holds(Top')
    BY <1>5, <1>7, <2>1, FS_AddElement
  <2>2. CASE ~(stack' # <<>> /\ Holds(Top'))
    BY <1>5, <1>7, <2>2
  <2> QED
    BY <2>1, <2>2
<1>9. Below = {i + 1 : i \in held}
  <2>1. \A i \in Below : i - 1 \in held /\ i = (i - 1) + 1
    BY <1>1 DEF Below
  <2>2. \A i \in held : i + 1 \in Below
    BY <1>1 DEF Below
  <2> HIDE DEF held
  <2> QED
    BY <2>1, <2>2
<1>10. held \in SUBSET Int
  BY <1>1
<1> HIDE DEF held
<1> QED
  BY <1>8, <1>9, <1>10, Shifted

\* The frame on top when a call continues.
LEMMA ReplacedTop ==
  ASSUME StackOK, StackOK', stack # <<>>, NEW f, Replace(f)
  PROVE  stack' # <<>> /\ Top' = f /\ f \in GoodFrame
<1>1. <<f>> \in Seq({f}) /\ Tail(stack) \in Seq(GoodFrame) /\ stack' = <<f>> \o Tail(stack)
  BY DEF StackOK, Replace
<1>2. <<f>> \in Seq(GoodFrame \union {f}) /\ Tail(stack) \in Seq(GoodFrame \union {f})
  BY <1>1
<1>3. stack' # <<>> /\ Len(stack') \in Nat \ {0} /\ stack'[1] = f
  BY <1>1, <1>2
<1>4. stack'[1] \in GoodFrame
  BY <1>3 DEF StackOK
<1> QED
  BY <1>3, <1>4 DEF Top

\* The call on top continues: it may take a node or give it back.
LEMMA ContinuesKeeps ==
  ASSUME StackOK, StackOK', NodesInv, FrameFits',
         UNCHANGED stack \/ (stack # <<>> /\ \E f : Replace(f)),
         nodealloc' = nodealloc + (TopNode' - TopNode)
  PROVE  NodesInv'
<1>1. Below' = Below /\ \A i \in 2 .. Len(stack') : stack'[i].at # "none"
  <2>1. CASE UNCHANGED stack
    BY <2>1 DEF Below, Holds, NodesInv
  <2>2. CASE stack # <<>> /\ \E f : Replace(f)
    <3>1. PICK f \in GoodFrame : Replace(f)
      BY <2>2, ReplacedTop
    <3>2. Below' = Below
      BY <2>2, <3>1, ReplacedBelow
    <3>3. Len(stack') = Len(stack) /\ \A i \in 2 .. Len(stack) : stack'[i] = stack[i]
      BY <2>2, <3>1, ReplacedIndices
    <3> QED
      BY <3>2, <3>3 DEF NodesInv
  <2> QED
    BY <2>1, <2>2
<1>2. Cardinality(Below) \in Nat /\ TopNode \in {0, 1} /\ TopNode' \in {0, 1}
  BY BelowFinite DEF TopNode
<1>3. nodealloc' = Cardinality(Below') + TopNode'
  BY <1>1, <1>2 DEF NodesInv
<1> QED
  BY <1>1, <1>3 DEF NodesInv, FrameFits

\* A call leaves its caller's child in use.
LEMMA CallsKeep ==
  ASSUME StackOK, StackOK', NodesInv, stack # <<>>, NEW f \in GoodFrame, Push(f),
         At = "search", At' = "null", nodealloc' = nodealloc
  PROVE  NodesInv'
<1>1. /\ Len(stack) \in Nat \ {0} /\ Len(stack') = Len(stack) + 1 /\ Top = stack[1]
      /\ \A i \in 2 .. Len(stack') : stack'[i] = stack[i - 1]
  BY PushedIndices, TopIsFirst
<1>2. TopNode = IF Holds(Top) THEN 1 ELSE 0
  BY DEF TopNode, ChildInUse
<1>3. TopNode' = 0
  BY DEF TopNode, ChildInUse, AlonePoints
<1>4. Cardinality(Below') = Cardinality(Below) + TopNode
  BY <1>2, PushedBelow
<1>5. Cardinality(Below) \in Nat
  BY BelowFinite
<1>6. nodealloc' = Cardinality(Below') + TopNode'
  BY <1>2, <1>3, <1>4, <1>5 DEF NodesInv
<1>7. \A i \in 2 .. Len(stack') : stack'[i].at # "none"
  <2> TAKE i \in 2 .. Len(stack')
  <2>1. CASE i = 2
    BY <1>1, <2>1 DEF NodesInv, FrameFits
  <2>2. CASE i > 2
    <3>1. i - 1 \in 2 .. Len(stack)
      BY <1>1, <2>2
    <3> QED
      BY <1>1, <3>1 DEF NodesInv
  <2> QED
    BY <2>1, <2>2
<1> QED
  BY <1>6, <1>7 DEF NodesInv, FrameFits, AlonePoints

\* A return gives back the child of the call that returns, and comes to a caller
\* whose child is in use still.
LEMMA ReturnsKeep ==
  ASSUME StackOK, StackOK', NodesInv, stack # <<>>, stack' = Tail(stack),
         \/ At' = "return" /\ stack' # <<>>
         \/ At' = "iterated" /\ stack' = <<>>,
         nodealloc' = nodealloc - TopNode
  PROVE  NodesInv'
<1>1. /\ Len(stack) \in Nat \ {0} /\ Len(stack') = Len(stack) - 1
      /\ \A i \in 1 .. Len(stack') : stack'[i] = stack[i + 1]
  BY PoppedIndices
<1>2. Cardinality(Below) = Cardinality(Below') + (IF stack' # <<>> /\ Holds(Top') THEN 1 ELSE 0)
  BY PoppedBelow
<1>3. TopNode' = IF stack' # <<>> /\ Holds(Top') THEN 1 ELSE 0
  <2>1. CASE At' = "return"
    <3>1. ChildInUse'
      BY <2>1 DEF ChildInUse
    <3> QED
      BY <3>1 DEF TopNode, Holds
  <2>2. CASE stack' = <<>>
    BY <2>2 DEF TopNode
  <2> QED
    BY <2>1, <2>2
<1>4. Cardinality(Below) \in Nat /\ TopNode \in {0, 1}
  BY BelowFinite DEF TopNode
<1>5. IsFiniteSet(Below') /\ Cardinality(Below') \in Nat
  <2>1. Len(stack') \in Int /\ 2 \in Int
    BY <1>1
  <2>2. IsFiniteSet(2 .. Len(stack')) /\ Below' \in SUBSET (2 .. Len(stack'))
    BY <2>1, FS_Interval DEF Below
  <2> QED
    BY <2>2, FS_Subset, FS_CardinalityType
<1>6. nodealloc' = Cardinality(Below') + TopNode'
  BY <1>2, <1>3, <1>4, <1>5 DEF NodesInv
<1>7. \A i \in 1 .. Len(stack') : stack'[i].at # "none"
  <2> TAKE i \in 1 .. Len(stack')
  <2>1. i + 1 \in 2 .. Len(stack)
    BY <1>1
  <2> QED
    BY <1>1, <2>1 DEF NodesInv
<1>8. At' = "return" => Top'.at # "none"
  <2>1. SUFFICES ASSUME stack' # <<>> PROVE Top'.at # "none"
    OBVIOUS
  <2>2. PICK t \in Seq(GoodFrame) : t = stack'
    BY DEF StackOK
  <2>3. Head(t) = t[1] /\ 1 \in 1 .. Len(t)
    BY <2>1, <2>2
  <2> QED
    BY <1>7, <2>2, <2>3 DEF Top
<1>9. At' \notin {"search", "root_search", "seq_done"} \union AlonePoints
  BY DEF AlonePoints
<1> QED
  BY <1>1, <1>6, <1>7, <1>8, <1>9 DEF NodesInv, FrameFits, AlonePoints

\* The next move of a call.
LEMMA AtTaken ==
  ASSUME NEW f \in GoodFrame, NEW a
  PROVE  /\ [f EXCEPT !.moves = @ - 1, !.at = a].at = a
         /\ [f EXCEPT !.at = a, !.moves = @ - 1].at = a
         /\ [[f EXCEPT !.moves = @ - 1] EXCEPT !.at = a].at = a
BY DEF GoodFrame, Frame

\* The calls of search_root().
LEMMA RootNodes ==
  ASSUME TypeInv, TypeInv', RootIsBottom, RootIsBottom', NodesInv,
         Start \/ IterateRoot \/ RootMove \/ RootSearch \/ RootReturn \/ Iterated
  PROVE  NodesInv'
<1>0. /\ StackOK /\ StackOK' /\ TopFits /\ FrameFits /\ nodealloc \in Int
      /\ (At \in Outer <=> stack = <<>>) /\ (At' \in Outer <=> stack' = <<>>)
      /\ (stack # <<>> => Top \in GoodFrame)
  BY TopGood DEF TypeInv, TypeOK, StackOK, RootIsBottom, Outer, NodesInv
<1> USE DEF At
<1>1. CASE Start \/ Iterated
  <2>1. stack = <<>> /\ UNCHANGED stack /\ nodealloc' = nodealloc /\ At' \in {"idle", "iterate"}
    BY <1>0, <1>1 DEF Start, Iterated, Goto, Outer, dataVars
  <2>2. TopNode = 0 /\ TopNode' = 0
    BY <2>1 DEF TopNode
  <2>3. FrameFits'
    BY <2>1 DEF FrameFits, AlonePoints
  <2> QED
    BY <1>0, <2>1, <2>2, <2>3, ContinuesKeeps
<1>2. CASE IterateRoot
  <2>1. stack = <<>> /\ mpc' = "root" /\ nodealloc' = nodealloc
    BY <1>0, <1>2 DEF IterateRoot, Outer, dataVars
  <2>2. PICK f \in GoodFrame : Push(f)
    BY <1>2, <1>0, ConstantsAssumption DEF IterateRoot, GoodFrame, Frame, Early, TypeInv, TypeOK
  <2>3. Len(stack) = 0 /\ Len(stack') = 1
    BY <1>0, <2>1, <2>2, PushedIndices
  <2>4. Below = {} /\ Below' = {}
    BY <2>3 DEF Below
  <2>5. TopNode = 0 /\ TopNode' = 0
    BY <2>1 DEF TopNode, ChildInUse, AlonePoints
  <2>6. FrameFits'
    BY <2>1 DEF FrameFits, AlonePoints
  <2> QED
    BY <2>1, <2>3, <2>4, <2>5, <2>6 DEF NodesInv
<1>3. CASE RootMove
  <2>1. /\ stack # <<>> /\ Replace([Top EXCEPT !.moves = @ - 1, !.at = "move"])
        /\ mpc = "root" /\ At' = "root_search" /\ nodealloc' = nodealloc + 1
    BY <1>0, <1>3 DEF RootMove, CheckTime, Outer
  <2>2. stack' # <<>> /\ Top'.at = "move"
    <3>1. PICK f : f = [Top EXCEPT !.moves = @ - 1, !.at = "move"] /\ Replace(f)
      BY <2>1
    <3>2. f.at = "move"
      BY <1>0, <2>1, <3>1, AtTaken
    <3> QED
      BY <1>0, <2>1, <3>1, <3>2, ReplacedTop
  <2>3. TopNode = 0 /\ TopNode' = 1
    BY <2>1, <2>2 DEF TopNode, ChildInUse, AlonePoints, Holds
  <2>4. FrameFits'
    BY <2>1, <2>2 DEF FrameFits, AlonePoints
  <2> QED
    BY <1>0, <2>1, <2>3, <2>4, ContinuesKeeps
<1>4. CASE RootSearch
  <2>1. PICK at \in {"nullwin", "move"} :
          /\ stack # <<>> /\ Replace([Top EXCEPT !.at = at])
          /\ mpc = "root_search" /\ mpc' = "search" /\ nodealloc' = nodealloc
    BY <1>0, <1>4 DEF RootSearch, Call, Outer, dataVars
  <2>2. stack' # <<>> /\ Top'.at = at
    BY <1>0, <2>1, ReplacedTop DEF GoodFrame, Frame
  <2>3. TopNode = 1 /\ TopNode' = 1
    BY <1>0, <2>1, <2>2 DEF TopNode, ChildInUse, AlonePoints, Holds, FrameFits
  <2>4. FrameFits'
    BY <2>1, <2>2 DEF FrameFits, AlonePoints
  <2> QED
    BY <1>0, <2>1, <2>3, <2>4, ContinuesKeeps
<1>5. CASE RootReturn
  <2>1. stack # <<>> /\ mpc = "return" /\ Top.kind = "root" /\ Top.at \in {"nullwin", "move"}
    BY <1>0, <1>5 DEF RootReturn, FrameFits, GoodFrame
  <2>2. TopNode = 1
    BY <2>1 DEF TopNode, ChildInUse, Holds
  <2>3. CASE Replace([Top EXCEPT !.at = "move"]) /\ mpc' = "search" /\ nodealloc' = nodealloc
    <3>1. stack' # <<>> /\ Top'.at = "move"
      BY <1>0, <2>1, <2>3, ReplacedTop DEF GoodFrame, Frame
    <3>2. TopNode' = 1
      BY <2>3, <3>1 DEF TopNode, ChildInUse, Holds
    <3>3. FrameFits'
      BY <2>3, <3>1 DEF FrameFits, AlonePoints
    <3> QED
      BY <1>0, <2>1, <2>2, <2>3, <3>2, <3>3, ContinuesKeeps
  <2>4. CASE stack' = Tail(stack) /\ At' = "iterated" /\ nodealloc' = nodealloc - 1
    BY <1>0, <2>1, <2>2, <2>4, ReturnsKeep DEF Outer
  <2>5. CASE (\E f : Replace(f)) /\ mpc' = "root" /\ nodealloc' = nodealloc - 1
    <3>1. TopNode' = 0 /\ FrameFits'
      BY <2>5 DEF TopNode, ChildInUse, FrameFits, AlonePoints
    <3> QED
      BY <1>0, <2>1, <2>2, <2>5, <3>1, ContinuesKeeps
  <2> QED
    BY <1>5, <2>1, <2>3, <2>4, <2>5 DEF RootReturn, Call, CheckTime
<1> QED
  BY <1>1, <1>2, <1>3, <1>4, <1>5

\* The null move and internal deepening.
LEMMA DeepeningNodes ==
  ASSUME TypeInv, TypeInv', RootIsBottom, RootIsBottom', NodesInv,
         SearchNode \/ NullMove \/ NullReturn \/ InternalDeepening \/ DeepeningReturn
  PROVE  NodesInv'
<1>0. /\ StackOK /\ StackOK' /\ TopFits /\ FrameFits /\ nodealloc \in Int
      /\ (At \in Outer <=> stack = <<>>) /\ (At' \in Outer <=> stack' = <<>>)
      /\ (stack # <<>> => Top \in GoodFrame)
  BY TopGood DEF TypeInv, TypeOK, StackOK, RootIsBottom, Outer, NodesInv
<1> USE DEF At
<1>1. CASE SearchNode
  <2>1. /\ stack # <<>> /\ mpc = "search" /\ mpc' = "null" /\ nodealloc' = nodealloc
        /\ \E f : Push(f)
    BY <1>0, <1>1 DEF SearchNode, dataVars, Outer
  <2>2. PICK n \in MoveCounts :
          Push([kind |-> IF n < MinMoves THEN "seq" ELSE "par", depth |-> arg,
                moves |-> n, at |-> "none", value |-> "score"])
    BY <1>1 DEF SearchNode
  <2>3. [kind |-> IF n < MinMoves THEN "seq" ELSE "par", depth |-> arg,
         moves |-> n, at |-> "none", value |-> "score"] \in GoodFrame
    BY <1>1, ConstantsAssumption DEF SearchNode, GoodFrame, Frame, Early, TypeInv, TypeOK
  <2> QED
    BY <1>0, <2>1, <2>2, <2>3, CallsKeep
<1>2. CASE NullMove
  <2>1. stack # <<>> /\ mpc = "null" /\ TopNode = 0
    BY <1>0, <1>2 DEF NullMove, Outer, TopNode, ChildInUse, AlonePoints
  <2>2. CASE Replace([Top EXCEPT !.at = "null"]) /\ mpc' = "search" /\ nodealloc' = nodealloc + 1
    <3>1. stack' # <<>> /\ Top'.at = "null"
      BY <1>0, <2>1, <2>2, ReplacedTop DEF GoodFrame, Frame
    <3>2. TopNode' = 1 /\ FrameFits'
      BY <2>2, <3>1 DEF TopNode, ChildInUse, Holds, FrameFits, AlonePoints
    <3> QED
      BY <1>0, <2>1, <2>2, <3>2, ContinuesKeeps
  <2>3. CASE UNCHANGED stack /\ mpc' = "iid" /\ nodealloc' = nodealloc
    <3>1. TopNode' = 0 /\ FrameFits'
      BY <2>3 DEF TopNode, ChildInUse, FrameFits, AlonePoints
    <3> QED
      BY <1>0, <2>1, <2>3, <3>1, ContinuesKeeps
  <2> QED
    BY <1>2, <2>2, <2>3 DEF NullMove, Call, Goto
<1>3. CASE NullReturn
  <2>1. stack # <<>> /\ mpc = "return" /\ TopNode = 1 /\ nodealloc' = nodealloc - 1
    BY <1>0, <1>3 DEF NullReturn, TopNode, ChildInUse, Holds
  <2>2. CASE stack' = Tail(stack) /\ mpc' = "return"
    BY <1>0, <2>1, <2>2, ReturnsKeep DEF Outer
  <2>3. CASE UNCHANGED stack /\ mpc' = "iid"
    <3>1. TopNode' = 0 /\ FrameFits'
      BY <2>3 DEF TopNode, ChildInUse, FrameFits, AlonePoints
    <3> QED
      BY <1>0, <2>1, <2>3, <3>1, ContinuesKeeps
  <2> QED
    BY <1>3, <2>2, <2>3 DEF NullReturn, Return, Goto
<1>4. CASE InternalDeepening
  <2>1. stack # <<>> /\ mpc = "iid" /\ TopNode = 0 /\ nodealloc' = nodealloc
    BY <1>0, <1>4 DEF InternalDeepening, Outer, TopNode, ChildInUse, AlonePoints, dataVars
  <2>2. CASE Replace([Top EXCEPT !.at = "iid"]) /\ mpc' = "search"
    <3>1. stack' # <<>> /\ Top'.at = "iid"
      BY <1>0, <2>1, <2>2, ReplacedTop DEF GoodFrame, Frame
    <3>2. TopNode' = 0 /\ FrameFits'
      BY <2>2, <3>1 DEF TopNode, ChildInUse, Holds, FrameFits, AlonePoints
    <3> QED
      BY <1>0, <2>1, <2>2, <3>2, ContinuesKeeps
  <2>3. CASE UNCHANGED stack /\ mpc' \in {"first", "reduce"}
    <3>1. TopNode' = 0 /\ FrameFits'
      BY <2>3 DEF TopNode, ChildInUse, FrameFits, AlonePoints
    <3> QED
      BY <1>0, <2>1, <2>3, <3>1, ContinuesKeeps
  <2> QED
    BY <1>4, <2>2, <2>3 DEF InternalDeepening, Call, Goto
<1>5. CASE DeepeningReturn
  <2>1. /\ stack # <<>> /\ UNCHANGED stack /\ nodealloc' = nodealloc
        /\ mpc' \in {"first", "reduce"} /\ Top.at = "iid"
    BY <1>5 DEF DeepeningReturn, Goto, dataVars
  <2>2. TopNode = 0 /\ TopNode' = 0 /\ FrameFits'
    BY <2>1 DEF TopNode, ChildInUse, Holds, FrameFits, AlonePoints
  <2> QED
    BY <1>0, <2>1, <2>2, ContinuesKeeps
<1> QED
  BY <1>1, <1>2, <1>3, <1>4, <1>5

\* The nodes that the master searches move by move.
LEMMA SeqNodes ==
  ASSUME TypeInv, TypeInv', RootIsBottom, RootIsBottom', NodesInv,
         SeqReduce \/ SeqMove \/ SeqReturn \/ SeqDone \/ SeqEnd
  PROVE  NodesInv'
<1>0. /\ StackOK /\ StackOK' /\ TopFits /\ FrameFits /\ nodealloc \in Int
      /\ (At \in Outer <=> stack = <<>>) /\ (At' \in Outer <=> stack' = <<>>)
      /\ (stack # <<>> => Top \in GoodFrame)
  BY TopGood DEF TypeInv, TypeOK, StackOK, RootIsBottom, Outer, NodesInv
<1> USE DEF At
<1>1. CASE SeqReduce
  <2>1. /\ stack # <<>> /\ mpc = "reduce" /\ mpc' = "seq" /\ nodealloc' = nodealloc
        /\ \E f : Replace(f)
    BY <1>0, <1>1 DEF SeqReduce, dataVars, Outer
  <2>2. TopNode = 0 /\ TopNode' = 0 /\ FrameFits'
    BY <2>1 DEF TopNode, ChildInUse, FrameFits, AlonePoints
  <2> QED
    BY <1>0, <2>1, <2>2, ContinuesKeeps
<1>2. CASE SeqMove
  <2>1. stack # <<>> /\ mpc = "seq" /\ TopNode = 0
    BY <1>0, <1>2 DEF SeqMove, Outer, TopNode, ChildInUse, AlonePoints
  <2> DEFINE g == [Top EXCEPT !.moves = @ - 1]
  <2>2. CASE \E at \in {"nullwin", "move"} :
               Replace([g EXCEPT !.at = at]) /\ mpc' = "search" /\ nodealloc' = nodealloc + 1
    <3>1. PICK at \in {"nullwin", "move"} :
            Replace([g EXCEPT !.at = at]) /\ mpc' = "search" /\ nodealloc' = nodealloc + 1
      BY <2>2
    <3>2. stack' # <<>> /\ Top'.at = at
      <4>1. PICK f : f = [g EXCEPT !.at = at] /\ Replace(f)
        BY <3>1
      <4>2. f.at = at
        BY <1>0, <2>1, <4>1, AtTaken
      <4> QED
        BY <1>0, <2>1, <4>1, <4>2, ReplacedTop
    <3>3. TopNode' = 1 /\ FrameFits'
      BY <3>1, <3>2 DEF TopNode, ChildInUse, Holds, FrameFits, AlonePoints
    <3> QED
      BY <1>0, <2>1, <3>1, <3>3, ContinuesKeeps
  <2>3. CASE Replace(g) /\ mpc' = mpc /\ resume' = resume /\ nodealloc' = nodealloc
    <3>1. TopNode' = 0 /\ FrameFits'
      BY <2>1, <2>3 DEF TopNode, ChildInUse, FrameFits, AlonePoints
    <3> QED
      BY <1>0, <2>1, <2>3, <3>1, ContinuesKeeps
  <2> QED
    BY <1>2, <2>2, <2>3 DEF SeqMove, Call
<1>3. CASE SeqReturn
  <2>1. /\ stack # <<>> /\ mpc = "return" /\ Top.at \in {"nullwin", "move"} /\ TopNode = 1
        /\ nodealloc' = nodealloc
    BY <1>0, <1>3 DEF SeqReturn, TopNode, ChildInUse, Holds, dataVars
  <2>2. CASE Replace([Top EXCEPT !.at = "move"]) /\ mpc' = "search"
    <3>1. stack' # <<>> /\ Top'.at = "move"
      BY <1>0, <2>1, <2>2, ReplacedTop DEF GoodFrame, Frame
    <3>2. TopNode' = 1 /\ FrameFits'
      BY <2>2, <3>1 DEF TopNode, ChildInUse, Holds, FrameFits, AlonePoints
    <3> QED
      BY <1>0, <2>1, <2>2, <3>2, ContinuesKeeps
  <2>3. CASE UNCHANGED stack /\ At' = "seq_done"
    <3>1. Top' = Top
      BY <2>3 DEF Top
    <3>2. TopNode' = 1 /\ FrameFits'
      BY <2>1, <2>3, <3>1 DEF TopNode, ChildInUse, Holds, FrameFits, AlonePoints
    <3> QED
      BY <1>0, <2>1, <2>3, <3>2, ContinuesKeeps
  <2> QED
    BY <1>3, <2>2, <2>3 DEF SeqReturn, Call, CheckTime, Goto
<1>4. CASE SeqDone
  <2>1. /\ stack # <<>> /\ mpc = "seq_done" /\ TopNode = 1 /\ nodealloc' = nodealloc - 1
    BY <1>0, <1>4 DEF SeqDone, TopNode, ChildInUse, Holds, Outer, FrameFits
  <2>2. CASE stack' = Tail(stack) /\ mpc' = "return"
    BY <1>0, <2>1, <2>2, ReturnsKeep DEF Outer
  <2>3. CASE (\E f : Replace(f)) /\ mpc' = "seq"
    <3>1. TopNode' = 0 /\ FrameFits'
      BY <2>3 DEF TopNode, ChildInUse, FrameFits, AlonePoints
    <3> QED
      BY <1>0, <2>1, <2>3, <3>1, ContinuesKeeps
  <2> QED
    BY <1>4, <2>2, <2>3 DEF SeqDone, Return
<1>5. CASE SeqEnd
  <2>1. /\ stack # <<>> /\ mpc = "seq" /\ TopNode = 0 /\ nodealloc' = nodealloc
        /\ stack' = Tail(stack) /\ mpc' = "return"
    BY <1>0, <1>5 DEF SeqEnd, Return, TopNode, ChildInUse, AlonePoints, Outer
  <2> QED
    BY <1>0, <2>1, ReturnsKeep DEF Outer
<1> QED
  BY <1>1, <1>2, <1>3, <1>4, <1>5

\* The nodes that are split.
LEMMA ParNodes ==
  ASSUME TypeInv, TypeInv', RootIsBottom, RootIsBottom', NodesInv,
         FirstMove \/ FirstReturn \/ FirstDone \/ AbortEnd \/ ParallelEnd
  PROVE  NodesInv'
<1>0. /\ StackOK /\ StackOK' /\ TopFits /\ FrameFits /\ nodealloc \in Int
      /\ (At \in Outer <=> stack = <<>>) /\ (At' \in Outer <=> stack' = <<>>)
      /\ (stack # <<>> => Top \in GoodFrame)
  BY TopGood DEF TypeInv, TypeOK, StackOK, RootIsBottom, Outer, NodesInv
<1> USE DEF At
<1>1. CASE FirstMove
  <2>1. /\ stack # <<>> /\ mpc = "first" /\ TopNode = 0 /\ mpc' = "search"
        /\ Replace([Top EXCEPT !.at = "first", !.moves = @ - 1])
        /\ nodealloc' = nodealloc + 1
    BY <1>0, <1>1 DEF FirstMove, Call, Outer, TopNode, ChildInUse, AlonePoints
  <2>2. stack' # <<>> /\ Top'.at = "first"
    <3>1. PICK f : f = [Top EXCEPT !.at = "first", !.moves = @ - 1] /\ Replace(f)
      BY <2>1
    <3>2. f.at = "first"
      BY <1>0, <2>1, <3>1, AtTaken
    <3> QED
      BY <1>0, <2>1, <3>1, <3>2, ReplacedTop
  <2>3. TopNode' = 1 /\ FrameFits'
    BY <2>1, <2>2 DEF TopNode, ChildInUse, Holds, FrameFits, AlonePoints
  <2> QED
    BY <1>0, <2>1, <2>3, ContinuesKeeps
<1>2. CASE FirstReturn
  <2>1. /\ stack # <<>> /\ mpc = "return" /\ Top.at = "first" /\ TopNode = 1
        /\ UNCHANGED stack /\ At' = "first_done" /\ nodealloc' = nodealloc
    BY <1>2 DEF FirstReturn, CheckTime, TopNode, ChildInUse, Holds, dataVars
  <2>2. Top' = Top
    BY <2>1 DEF Top
  <2>3. TopNode' = 1 /\ FrameFits'
    BY <2>1, <2>2 DEF TopNode, ChildInUse, Holds, FrameFits, AlonePoints
  <2> QED
    BY <1>0, <2>1, <2>3, ContinuesKeeps
<1>3. CASE FirstDone
  <2>1. /\ stack # <<>> /\ mpc = "first_done" /\ TopNode = 1 /\ nodealloc' = nodealloc - 1
    BY <1>0, <1>3 DEF FirstDone, TopNode, ChildInUse, Holds, TopFits
  <2>2. CASE stack' = Tail(stack) /\ mpc' = "return"
    BY <1>0, <2>1, <2>2, ReturnsKeep DEF Outer
  <2>3. CASE (\E f : Replace(f)) /\ mpc' \in {"done", "loop"}
    <3>1. TopNode' = 0 /\ FrameFits'
      BY <2>3 DEF TopNode, ChildInUse, FrameFits, AlonePoints
    <3> QED
      BY <1>0, <2>1, <2>3, <3>1, ContinuesKeeps
  <2> QED
    BY <1>3, <2>2, <2>3 DEF FirstDone, Return
<1>4. CASE AbortEnd
  <2>1. /\ stack # <<>> /\ mpc = "abort" /\ TopNode = 0 /\ nodealloc' = nodealloc
    BY <1>0, <1>4 DEF AbortEnd, TopNode, ChildInUse, AlonePoints, Outer, dataVars
  <2>2. CASE stack' = Tail(stack) /\ mpc' = "return"
    BY <1>0, <2>1, <2>2, ReturnsKeep DEF Outer
  <2>3. CASE UNCHANGED stack /\ mpc' = "done"
    <3>1. TopNode' = 0 /\ FrameFits'
      BY <2>3 DEF TopNode, ChildInUse, FrameFits, AlonePoints
    <3> QED
      BY <1>0, <2>1, <2>3, <3>1, ContinuesKeeps
  <2> QED
    BY <1>4, <2>2, <2>3 DEF AbortEnd, Return, Goto
<1>5. CASE ParallelEnd
  <2>1. /\ stack # <<>> /\ mpc = "done" /\ TopNode = 0 /\ nodealloc' = nodealloc
        /\ stack' = Tail(stack) /\ mpc' = "return"
    BY <1>0, <1>5 DEF ParallelEnd, Return, TopNode, ChildInUse, AlonePoints, Outer
  <2> QED
    BY <1>0, <2>1, ReturnsKeep DEF Outer
<1> QED
  BY <1>1, <1>2, <1>3, <1>4, <1>5

\* What happens while the node on top stays as it is.
LEMMA OtherNodes ==
  ASSUME TypeInv, TypeInv', RootIsBottom, RootIsBottom', NodesInv,
         \/ CheckTimeout \/ ExtendTime \/ SearchLeaf \/ NonparallelStart \/ NonparallelWait
         \/ NonparallelJoin \/ NonparallelDone \/ GiveMove \/ NoMoveToGive \/ TestStop
         \/ WaitSlaveReady \/ SearchAgain \/ CollectSlave \/ AbortSlave \/ AbortJoin
         \/ UNCHANGED <<mpc, resume, stack, nodealloc>>
  PROVE  NodesInv'
<1>0. /\ StackOK /\ StackOK' /\ TopFits /\ FrameFits /\ nodealloc \in Int
      /\ (At \in Outer <=> stack = <<>>)
  BY DEF TypeInv, TypeOK, StackOK, RootIsBottom, Outer, NodesInv
<1> USE DEF At
<1>1. CASE UNCHANGED <<mpc, resume, stack, nodealloc>> \/ CheckTimeout \/ ExtendTime
  <2>1. UNCHANGED stack /\ nodealloc' = nodealloc /\ At' = At /\ Top' = Top
    BY <1>1 DEF CheckTimeout, ExtendTime, Goto, dataVars, TypeInv, ResumeFits, Top
  <2>2. TopNode' = TopNode /\ TopNode \in {0, 1}
    <3>1. ChildInUse' = ChildInUse
      BY <2>1 DEF ChildInUse
    <3> QED
      BY <2>1, <3>1 DEF TopNode, Holds
  <2>3. FrameFits'
    BY <1>0, <2>1 DEF FrameFits
  <2> QED
    BY <1>0, <2>1, <2>2, <2>3, ContinuesKeeps
<1>2. CASE SearchLeaf \/ NonparallelStart \/ NonparallelWait \/ NonparallelJoin \/ NonparallelDone
  <2>1. /\ UNCHANGED stack /\ nodealloc' = nodealloc /\ Top' = Top
        /\ At \in {"search", "np_wait", "np_join", "np_done"}
        /\ At' \in {"return", "np_wait", "np_join", "np_done"}
    BY <1>2 DEF SearchLeaf, NonparallelStart, NonparallelWait, NonparallelJoin, NonparallelDone,
                Goto, CheckTime, dataVars, Top
  <2>2. ChildInUse /\ ChildInUse'
    BY <2>1 DEF ChildInUse, AlonePoints
  <2>3. TopNode' = TopNode /\ TopNode \in {0, 1}
    BY <2>1, <2>2 DEF TopNode, Holds
  <2>4. FrameFits'
    BY <1>0, <2>1 DEF FrameFits, AlonePoints
  <2> QED
    BY <1>0, <2>1, <2>3, <2>4, ContinuesKeeps
<1>3. CASE \/ GiveMove \/ NoMoveToGive \/ TestStop \/ WaitSlaveReady \/ SearchAgain
           \/ CollectSlave \/ AbortSlave \/ AbortJoin
  <2>1. /\ stack # <<>> /\ nodealloc' = nodealloc
        /\ At \in LoopPoints \union AbortPoints
        /\ At' \in LoopPoints \union AbortPoints \union {"done"}
        /\ UNCHANGED stack \/ \E f : Replace(f)
    BY <1>0, <1>3 DEF GiveMove, NoMoveToGive, TestStop, WaitSlaveReady, SearchAgain, CollectSlave,
                AbortSlave, AbortJoin, Goto, CheckTime, dataVars, LoopPoints, AbortPoints, Outer
  <2>2. ~ChildInUse /\ ~ChildInUse' /\ FrameFits'
    BY <2>1 DEF ChildInUse, FrameFits, AlonePoints, LoopPoints, AbortPoints
  <2>3. TopNode = 0 /\ TopNode' = 0
    BY <2>2 DEF TopNode
  <2> QED
    BY <1>0, <2>1, <2>2, <2>3, ContinuesKeeps
<1> QED
  BY <1>1, <1>2, <1>3

LEMMA NodesStep ==
  ASSUME TypeInv, TypeInv', RootIsBottom, RootIsBottom', NodesInv, [Next]_vars
  PROVE  NodesInv'
<1>1. CASE \E s \in Slaves : SlaveThread(s)
  BY <1>1, OtherNodes DEF SlaveThread, SlaveFinish, SlaveCancel, SlaveReady, masterVars, dataVars
<1>2. CASE Interrupt \/ InterruptSlave \/ Tick \/ UNCHANGED vars
  BY <1>2, OtherNodes DEF Interrupt, InterruptSlave, Tick, vars, masterVars, dataVars
<1>3. CASE Master
  BY <1>3, RootNodes, DeepeningNodes, SeqNodes, ParNodes, OtherNodes DEF Master
<1> QED
  BY <1>1, <1>2, <1>3 DEF Next

\* On every path on which a call returns, cutoffs and aborts included, the
\* master's allocator holds the children of the calls in progress.
THEOREM NodesBalanced == Spec => []MasterNodesBalanced
<1>1. Init => TypeInv /\ RootIsBottom /\ NodesInv
  <2> SUFFICES ASSUME Init PROVE TypeInv /\ RootIsBottom /\ NodesInv
    OBVIOUS
  <2>1. TypeInv
    BY TypeInvInit
  <2>2. RootIsBottom
    BY DEF Init, RootIsBottom, At
  <2>3. Below = {} /\ TopNode = 0 /\ FrameFits
    BY DEF Init, Below, TopNode, FrameFits, At, AlonePoints
  <2>4. NodesInv
    BY <2>3, FS_EmptySet DEF Init, NodesInv
  <2> QED
    BY <2>1, <2>2, <2>4
<1>2. TypeInv /\ RootIsBottom /\ [Next]_vars => TypeInv' /\ RootIsBottom'
  BY TypeInvStep, RootIsBottomStep
<1>3. TypeInv /\ TypeInv' /\ RootIsBottom /\ RootIsBottom' /\ NodesInv /\ [Next]_vars => NodesInv'
  BY NodesStep
<1>4. TypeInv /\ NodesInv => MasterNodesBalanced
  <2> SUFFICES ASSUME TypeInv, NodesInv PROVE MasterNodesBalanced
    OBVIOUS
  <2> DEFINE used == {i \in 1 .. Len(stack) : Holds(stack[i]) /\ (i > 1 \/ ChildInUse)}
  <2>1. StackOK
    BY DEF TypeInv, StackOK
  <2>2. IsFiniteSet(Below) /\ Cardinality(Below) \in Nat /\ 1 \notin Below
    BY <2>1, BelowFinite DEF Below
  <2>3. CASE stack = <<>>
    <3>1. Len(stack) = 0
      BY <2>3
    <3>2. used = {} /\ Below = {} /\ TopNode = 0
      BY <2>3, <3>1 DEF Below, TopNode
    <3> HIDE DEF used
    <3>3. Cardinality(used) = 0 /\ nodealloc = 0
      BY <3>2, FS_EmptySet DEF NodesInv
    <3> QED
      BY <3>3 DEF MasterNodesBalanced, used
  <2>4. CASE stack # <<>>
    <3>1. Top = stack[1] /\ Len(stack) \in Nat \ {0}
      BY <2>1, <2>4, TopIsFirst
    <3>2. used = IF TopNode = 1 THEN Below \union {1} ELSE Below
      BY <2>4, <3>1 DEF Below, TopNode
    <3>3. TopNode \in {0, 1}
      BY DEF TopNode
    <3> HIDE DEF used
    <3>4. Cardinality(used) = Cardinality(Below) + TopNode
      <4>1. CASE TopNode = 1
        BY <2>2, <3>2, <4>1, FS_AddElement
      <4>2. CASE TopNode = 0
        BY <2>2, <3>2, <4>2
      <4> QED
        BY <3>3, <4>1, <4>2
    <3> QED
      BY <3>4 DEF NodesInv, MasterNodesBalanced, used
  <2> QED
    BY <2>3, <2>4
<1> QED
  BY <1>1, <1>2, <1>3, <1>4, PTL DEF Spec

=============================================================================
