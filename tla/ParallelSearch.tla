--------------------------- MODULE ParallelSearch ---------------------------
(***************************************************************************)
(* The parallel search of HoiChess (src/src/common/parallelsearch.cc on     *)
(* top of src/src/common/search.cc).  One master thread runs iterative      *)
(* deepening and recurses into the tree.  Deep nodes with enough moves are  *)
(* split: the first move is searched by recursion, the others are handed to *)
(* slave threads.  Shallow nodes are handed to one slave.  A slave that is  *)
(* done puts its index into ready_queue, from which the master collects it. *)
(*                                                                          *)
(* The master, the slaves, whoever calls ParallelSearch::interrupt() (the   *)
(* shell thread or the SIGINT handler) and the clock interleave freely.     *)
(* Scores are abstracted to how they were obtained ("score", "tainted",     *)
(* "cancelled") and to how they compare with the caller's window.           *)
(***************************************************************************)
EXTENDS Integers, Sequences, FiniteSets

CONSTANTS
  NSlaves,        \* slaves.size(), the number of slave searches
  MaxDepth,       \* maxdepth of iterative deepening
  MinDepth,       \* option search_parallel_min_depth
  MinMoves,       \* option search_parallel_min_move_ratio * slaves.size()
  MoveCounts,     \* numbers of legal moves an inner node may have
  RootMoves,      \* number of legal moves of the root node
  TimeLimit,      \* Clock::limit as set by allocate_time()
  HardLimit,      \* Clock::hard_limit
  MaxTime,        \* bound: the clock is not observed beyond this time
  Extensible,     \* mode is MOVE, clock not exact, extend_time_iteration on
  UseHash,        \* the master has a hash table
  MaxInterrupts   \* bound: calls of interrupt() per search

ASSUME ConstantsAssumption ==
  /\ NSlaves \in Nat \ {0}
  /\ MaxDepth \in Nat \ {0}
  /\ MinDepth \in Nat \ {0}
  /\ MinMoves \in Nat \ {0}
  /\ MoveCounts \subseteq Nat
  /\ RootMoves \in Nat \ {0}
  /\ TimeLimit \in Nat
  /\ HardLimit \in Nat
  /\ TimeLimit <= HardLimit
  /\ MaxTime \in Nat
  /\ Extensible \in BOOLEAN
  /\ UseHash \in BOOLEAN
  /\ MaxInterrupts \in Nat

VARIABLES
  mpc,            \* control point of the master thread
  resume,         \* where check_time() / abort_all_slaves() returns to
  stack,          \* calls of search_root() and search() in progress, top first
  arg,            \* depth argument of the search() call being entered
  ret,            \* how the value just returned was obtained
  id,             \* local variable id: the slave being dealt with
  stop,           \* Search::stop of the master
  stop_iteration, \* Search::stop_iteration
  rootdepth,      \* Search::rootdepth
  window,         \* finite sides of the aspiration window
  best,           \* provenance of the score behind iterate()'s best move
  nodealloc,      \* nodes in use in the master's NodeAllocator
  hashtable,      \* provenance of the scores in the master's hash table
  nodes,          \* node count the master has taken over from its slaves
  slaves,         \* ParallelSearch::slaves, the master's view of each slave
  search,         \* the Search object and thread of each slave
  ready_queue,    \* slave indices, appended by slaves, removed by the master
  now,            \* elapsed time of the clock
  limit,          \* Clock::limit
  ipc,            \* next slave to be interrupted, NSlaves when none
  interrupts,     \* calls of interrupt() during this search
  stale           \* history: this search began with a table that held
                  \*   scores of a search that was cancelled

masterVars == <<mpc, resume, stack, arg, ret, id>>
iterVars   == <<stop_iteration, rootdepth, window, best>>
dataVars   == <<nodealloc, hashtable, nodes>>
slaveVars  == <<slaves, search, ready_queue>>
envVars    == <<ipc, interrupts, stale>>
vars == <<masterVars, stop, iterVars, dataVars, slaveVars, now, limit, envVars>>

Slaves     == 0 .. NSlaves - 1
Provenance == {"score", "tainted", "cancelled"}
Outcome    == {"low", "in", "high"}
Phases     == {"none", "running", "posting", "posted"}

Slave  == [free: BOOLEAN, node: {"none", "child", "node"}, used: Nat,
           pvs_nullwin: BOOLEAN, last_nodes: Nat]
Search == [phase: Phases, stop: BOOLEAN, score: Provenance, nodes: Nat]
Frame  == [kind: {"root", "par", "seq"}, depth: Nat, moves: Nat,
           at: {"none", "null", "iid", "first", "nullwin", "move"},
           value: {"score", "tainted"}]

-----------------------------------------------------------------------------
(* Scores and frames. *)

\* How the negated return value compares with the caller's alpha and beta. A
\* search that saw its stop flag returns INT_MIN, and -INT_MIN is INT_MIN again.
Outcomes(r) == IF r = "cancelled" THEN {"low"} ELSE Outcome

\* Provenance of a node's value after it has taken a child's score into account.
Blend(v, r) == IF r = "score" THEN v ELSE "tainted"

Top == Head(stack)
Replace(f) == stack' = <<f>> \o Tail(stack)
Push(f) == stack' = <<f>> \o stack

\* Enter search() with the given depth; f is the calling frame's new state.
Call(f, depth) ==
  /\ Replace(f)
  /\ arg' = depth
  /\ mpc' = "search"
  /\ UNCHANGED <<resume, ret, id>>

\* Return r from the call on top of the stack.
Return(r) ==
  /\ stack' = Tail(stack)
  /\ ret' = r
  /\ mpc' = "return"
  /\ UNCHANGED <<resume, arg, id>>

Goto(label) ==
  /\ mpc' = label
  /\ UNCHANGED <<resume, stack, arg, ret, id>>

Store(r) == hashtable' = IF UseHash THEN hashtable \union {r} ELSE hashtable

\* A draw by rule is a genuine score; a hash table hit is as good as the score
\* that was stored (a stored INT_MIN comes back as a mate score).
LeafValues ==
  {"score"} \union {IF r = "score" THEN r ELSE "tainted" : r \in hashtable}

-----------------------------------------------------------------------------
(* Slave management. *)

Free(s) == slaves[s].free
AllSlavesFree == \A s \in Slaves : Free(s)

FirstFree(s) == Free(s) /\ \A t \in Slaves : t < s => ~Free(t)
FirstBusy(s) == ~Free(s) /\ \A t \in Slaves : t < s => Free(t)

\* start_slave_thread(): a thread is created only when there is none yet, and
\* the slave's stop flag is cleared whatever the master's flag says.
StartThread(s) ==
  IF search[s].phase = "none"
    THEN [search EXCEPT ![s].phase = "running", ![s].stop = FALSE]
    ELSE search

\* First half of stop_slave_thread(): interrupt(). The second half waits for
\* the thread to terminate and is enabled by Terminated(s).
InterruptThread(s) == [search EXCEPT ![s].stop = TRUE]
Terminated(s) == search[s].phase = "posted"
Joined(s) == [search EXCEPT ![s].phase = "none"]

\* Fault: the slave's total is added again each time.
StatisticsFault(s) == nodes + search[s].nodes

\* get_slave_statistics(): add what the slave counted since the last time.
Statistics(s) == nodes + (search[s].nodes - slaves[s].last_nodes)

\* The slave is given up: statistics are taken, its node is returned to its
\* allocator unless the node belongs to the caller, and it is free again.
Released(s) ==
  [slaves EXCEPT ![s].free = TRUE,
                 ![s].used = IF slaves[s].node = "child" THEN @ - 1 ELSE @,
                 ![s].node = "none",
                 ![s].last_nodes = search[s].nodes]

-----------------------------------------------------------------------------
(* check_time(), as a subroutine that returns to the label in resume. *)

CheckTime(label) ==
  /\ mpc' = "check"
  /\ resume' = label

\* The clock is read; a timeout sets the stop flag and returns at once.
CheckTimeout ==
  /\ mpc = "check"
  /\ IF now >= limit
       THEN stop' = TRUE /\ mpc' = resume
       ELSE UNCHANGED stop /\ mpc' = IF Extensible /\ ~stop_iteration
                                       THEN "extend" ELSE resume
  /\ UNCHANGED <<resume, stack, arg, ret, id, iterVars, dataVars, slaveVars,
                 now, limit, envVars>>

\* extend_time_iteration() and Clock::allocate_more_time(): depending on the
\* progress at the root, the limit is raised, at most to the hard limit.
ExtendTime ==
  /\ mpc = "extend"
  /\ \/ UNCHANGED <<limit, stop_iteration>>
     \/ /\ limit' \in limit .. HardLimit
        /\ stop_iteration' = TRUE
  /\ Goto(resume)
  /\ UNCHANGED <<stop, rootdepth, window, best, dataVars, slaveVars, now, envVars>>

-----------------------------------------------------------------------------
(* Search::start(), main(), iterate() and search_root(). *)

Init ==
  /\ mpc = "idle" /\ resume = "idle" /\ stack = <<>> /\ arg = 0
  /\ ret = "score" /\ id = 0
  /\ stop = FALSE /\ stop_iteration = FALSE /\ rootdepth = 0
  /\ window = {} /\ best = "score"
  /\ nodealloc = 0 /\ hashtable = {} /\ nodes = 0
  /\ slaves = [s \in Slaves |-> [free |-> TRUE, node |-> "none", used |-> 0,
                                 pvs_nullwin |-> FALSE, last_nodes |-> 0]]
  /\ search = [s \in Slaves |-> [phase |-> "none", stop |-> FALSE,
                                 score |-> "score", nodes |-> 0]]
  /\ ready_queue = <<>>
  /\ now = 0 /\ limit = TimeLimit
  /\ ipc = NSlaves /\ interrupts = 0 /\ stale = FALSE

\* Statistics are reset, the time is allocated and the first iteration begins
\* with an infinite window and a best move that is just some legal move. The
\* flag is cleared by the main thread, which also runs every interrupt().
Start ==
  /\ mpc = "idle" /\ ipc = NSlaves
  /\ stop' = FALSE
  /\ nodes' = 0
  /\ slaves' = [s \in Slaves |-> [slaves[s] EXCEPT !.last_nodes = 0]]
  /\ search' = [s \in Slaves |-> [search[s] EXCEPT !.nodes = 0]]
  /\ stop_iteration' = FALSE /\ rootdepth' = 1 /\ window' = {} /\ best' = "score"
  /\ now' = 0 /\ limit' = TimeLimit
  /\ interrupts' = 0
  /\ stale' = ~ (hashtable \subseteq {"score"})
  /\ mpc' = "iterate"
  /\ resume' = "idle" /\ arg' = 0 /\ ret' = "score" /\ id' = 0  \* fresh locals
  /\ UNCHANGED <<stack, nodealloc, hashtable, ready_queue, ipc>>

IterateRoot ==
  /\ mpc = "iterate"
  /\ Push([kind |-> "root", depth |-> rootdepth, moves |-> RootMoves,
           at |-> "none", value |-> "score"])
  /\ mpc' = "root"
  /\ UNCHANGED <<resume, arg, ret, id, stop, iterVars, dataVars, slaveVars,
                 now, limit, envVars>>

\* search_root(): make the next move, then check the time.
RootMove ==
  /\ mpc = "root"
  /\ Replace([Top EXCEPT !.moves = @ - 1, !.at = "move"])
  /\ nodealloc' = nodealloc + 1
  /\ CheckTime("root_search")
  /\ UNCHANGED <<arg, ret, id, stop, iterVars, hashtable, nodes, slaveVars,
                 now, limit, envVars>>

\* The stop flag check_time() may have set is not looked at before the search.
\* The first move is never searched with a null window.
RootSearch ==
  /\ mpc = "root_search"
  /\ \E at \in {"nullwin", "move"} :
       /\ at = "nullwin" => Top.moves < RootMoves - 1
       /\ Call([Top EXCEPT !.at = at], Top.depth - 1)
  /\ UNCHANGED <<stop, iterVars, dataVars, slaveVars, now, limit, envVars>>

RootReturn ==
  /\ mpc = "return" /\ stack # <<>> /\ Top.kind = "root"
  /\ \E o \in Outcomes(ret) :
       IF Top.at = "nullwin" /\ o = "in"
         THEN Call([Top EXCEPT !.at = "move"], Top.depth - 1) /\ UNCHANGED nodealloc
         ELSE /\ nodealloc' = nodealloc - 1
              /\ \/ /\ stop
                    /\ ret' = "cancelled" /\ stack' = Tail(stack)
                    /\ CheckTime("iterated")
                 \/ /\ ~stop /\ (o = "high" \/ Top.moves = 0)
                    /\ ret' = Blend(Top.value, ret) /\ stack' = Tail(stack)
                    /\ CheckTime("iterated")
                 \/ /\ ~stop /\ o # "high" /\ Top.moves > 0
                    /\ Replace([Top EXCEPT !.value = Blend(@, ret)])
                    /\ mpc' = "root" /\ UNCHANGED <<resume, ret>>
              /\ UNCHANGED <<arg, id>>
  /\ UNCHANGED <<stop, iterVars, hashtable, nodes, slaveVars, now, limit, envVars>>

\* Fault: the result is accepted before the stop flag is tested.
IteratedFault ==
  /\ mpc = "iterated"
  /\ best' = ret
  /\ \/ stop_iteration \/ stop
     \/ rootdepth < MaxDepth
  /\ IF stop \/ stop_iteration
       THEN Goto("idle") /\ UNCHANGED rootdepth
       ELSE Goto("iterate") /\ rootdepth' = rootdepth + 1
  /\ UNCHANGED <<window, stop, stop_iteration, dataVars, slaveVars, now, limit, envVars>>

\* iterate() after search_root() and check_time(): an interrupted iteration is
\* dropped, a fail-low or fail-high is searched again with one side of the
\* window opened, anything else is accepted and may be the last iteration.
Iterated ==
  /\ mpc = "iterated"
  /\ \/ /\ stop
        /\ Goto("idle") /\ UNCHANGED <<rootdepth, window, best>>
     \/ /\ ~stop
        /\ \E side \in window :
             /\ window' = window \ {side}
             /\ Goto(IF stop_iteration THEN "idle" ELSE "iterate")
        /\ UNCHANGED <<rootdepth, best>>
     \/ /\ ~stop
        /\ best' = ret
        /\ \/ Goto("idle") /\ UNCHANGED <<rootdepth, window>>
           \/ /\ ~stop_iteration /\ rootdepth < MaxDepth
              /\ rootdepth' = rootdepth + 1 /\ window' = {"alpha", "beta"}
              /\ Goto("iterate")
  /\ UNCHANGED <<stop, stop_iteration, dataVars, slaveVars, now, limit, envVars>>

-----------------------------------------------------------------------------
(* ParallelSearch::search(): the three ways to search a node, and the part    *)
(* parallel_search() and Search::search() have in common.                     *)

\* nonparallel_search() or parallel_search() or Search::search() find a draw or
\* a hash table entry and are done. Below depth 1 they do not look.
SearchLeaf ==
  /\ mpc = "search" /\ arg > 0
  /\ ret' \in LeafValues
  /\ mpc' = "return"
  /\ UNCHANGED <<resume, stack, arg, id, stop, iterVars, dataVars, slaveVars,
                 now, limit, envVars>>

\* Hand the whole node to one slave.
NonparallelStart ==
  /\ mpc = "search" /\ arg < MinDepth
  /\ \E s \in Slaves :
       /\ FirstFree(s)
       /\ id' = s
       /\ slaves' = [slaves EXCEPT ![s].free = FALSE, ![s].node = "node"]
       /\ search' = StartThread(s)
  /\ mpc' = "np_wait"
  /\ UNCHANGED <<resume, stack, arg, ret, stop, iterVars, dataVars, ready_queue,
                 now, limit, envVars>>

\* wait_slave_ready() and the interrupt() of stop_slave_thread().
NonparallelWait ==
  /\ mpc = "np_wait" /\ ready_queue # <<>>
  /\ ready_queue' = Tail(ready_queue)
  /\ search' = InterruptThread(id)
  /\ Goto("np_join")
  /\ UNCHANGED <<stop, iterVars, dataVars, slaves, now, limit, envVars>>

NonparallelJoin ==
  /\ mpc = "np_join" /\ Terminated(id)
  /\ search' = Joined(id)
  /\ ret' = search[id].score
  /\ CheckTime("np_done")
  /\ UNCHANGED <<stack, arg, id, stop, iterVars, dataVars, slaves, ready_queue,
                 now, limit, envVars>>

\* The slave's score is stored in the master's hash table whatever it is.
NonparallelDone ==
  /\ mpc = "np_done"
  /\ nodes' = Statistics(id)
  /\ slaves' = Released(id)
  /\ Store(ret)
  /\ Goto("return")
  /\ UNCHANGED <<stop, iterVars, nodealloc, search, ready_queue, now, limit, envVars>>

\* Enough moves: parallel_search(); few moves: Search::search() by the master.
SearchNode ==
  /\ mpc = "search" /\ arg >= MinDepth
  /\ \E n \in MoveCounts :
       Push([kind |-> IF n < MinMoves THEN "seq" ELSE "par", depth |-> arg,
             moves |-> n, at |-> "none", value |-> "score"])
  /\ mpc' = "null"
  /\ UNCHANGED <<resume, arg, ret, id, stop, iterVars, dataVars, slaveVars,
                 now, limit, envVars>>

\* Fault: the child of the null move is freed only when it causes no cutoff.
NullReturnFault ==
  /\ mpc = "return" /\ stack # <<>> /\ Top.at = "null"
  /\ \E o \in Outcomes(ret) :
       IF o = "high" THEN Return(ret) /\ UNCHANGED nodealloc
                     ELSE Goto("iid") /\ nodealloc' = nodealloc - 1
  /\ UNCHANGED <<stop, iterVars, hashtable, nodes, slaveVars, now, limit, envVars>>

\* Null-move pruning searches the position with the other side to move.
NullMove ==
  /\ mpc = "null"
  /\ \/ /\ Call([Top EXCEPT !.at = "null"], Top.depth - 3)
        /\ nodealloc' = nodealloc + 1
     \/ Goto("iid") /\ UNCHANGED nodealloc
  /\ UNCHANGED <<stop, iterVars, hashtable, nodes, slaveVars, now, limit, envVars>>

NullReturn ==
  /\ mpc = "return" /\ stack # <<>> /\ Top.at = "null"
  /\ nodealloc' = nodealloc - 1
  /\ \E o \in Outcomes(ret) :
       IF o = "high" THEN Return(ret) ELSE Goto("iid")
  /\ UNCHANGED <<stop, iterVars, hashtable, nodes, slaveVars, now, limit, envVars>>

\* Internal iterative deepening searches the same node; only its move is used.
InternalDeepening ==
  /\ mpc = "iid"
  /\ \/ Top.depth > 2 /\ Call([Top EXCEPT !.at = "iid"], Top.depth - 2)
     \/ Goto(IF Top.kind = "par" THEN "first" ELSE "reduce")
  /\ UNCHANGED <<stop, iterVars, dataVars, slaveVars, now, limit, envVars>>

DeepeningReturn ==
  /\ mpc = "return" /\ stack # <<>> /\ Top.at = "iid"
  /\ Goto(IF Top.kind = "par" THEN "first" ELSE "reduce")
  /\ UNCHANGED <<stop, iterVars, dataVars, slaveVars, now, limit, envVars>>

-----------------------------------------------------------------------------
(* Search::search() run by the master for a node with few moves. *)

\* Razoring (at depth 3) and extended futility pruning (at depth 2).
Reduced(depth) ==
  {depth} \union (IF depth = 3 THEN {1, 2} ELSE IF depth = 2 THEN {1} ELSE {})

SeqReduce ==
  /\ mpc = "reduce"
  /\ \E d \in Reduced(Top.depth) : Replace([Top EXCEPT !.depth = d])
  /\ mpc' = "seq"
  /\ UNCHANGED <<resume, arg, ret, id, stop, iterVars, dataVars, slaveVars,
                 now, limit, envVars>>

\* The next move is searched, or skipped because it is futile.
SeqMove ==
  /\ mpc = "seq" /\ Top.moves > 0
  /\ LET f == [Top EXCEPT !.moves = @ - 1] IN
     \/ \E at \in {"nullwin", "move"} :
          /\ Call([f EXCEPT !.at = at], f.depth - 1)
          /\ nodealloc' = nodealloc + 1
     \/ /\ Replace(f) /\ UNCHANGED <<mpc, resume, arg, ret, id, nodealloc>>
  /\ UNCHANGED <<stop, iterVars, hashtable, nodes, slaveVars, now, limit, envVars>>

\* A null window search that lands inside the window is repeated at once;
\* otherwise the time may be checked before the score is used.
SeqReturn ==
  /\ mpc = "return" /\ stack # <<>> /\ Top.kind = "seq" /\ Top.at \in {"nullwin", "move"}
  /\ \/ /\ Top.at = "nullwin" /\ "in" \in Outcomes(ret)
        /\ Call([Top EXCEPT !.at = "move"], Top.depth - 1)
     \/ /\ CheckTime("seq_done") /\ UNCHANGED <<stack, arg, ret, id>>
     \/ Goto("seq_done")
  /\ UNCHANGED <<stop, iterVars, dataVars, slaveVars, now, limit, envVars>>

SeqDone ==
  /\ mpc = "seq_done"
  /\ nodealloc' = nodealloc - 1
  /\ \/ stop /\ Return("cancelled")
     \/ /\ ~stop
        /\ Replace([Top EXCEPT !.value = Blend(@, ret),
                               !.moves = IF "high" \in Outcomes(ret) THEN 0 ELSE @])
        /\ mpc' = "seq" /\ UNCHANGED <<resume, arg, ret, id>>
     \/ /\ ~stop
        /\ Replace([Top EXCEPT !.value = Blend(@, ret)])
        /\ mpc' = "seq" /\ UNCHANGED <<resume, arg, ret, id>>
  /\ UNCHANGED <<stop, iterVars, hashtable, nodes, slaveVars, now, limit, envVars>>

\* All moves searched, or none existed (mate or stalemate): store and return.
SeqEnd ==
  /\ mpc = "seq" /\ Top.moves = 0
  /\ Store(Top.value)
  /\ Return(Top.value)
  /\ UNCHANGED <<stop, iterVars, nodealloc, nodes, slaveVars, now, limit, envVars>>

-----------------------------------------------------------------------------
(* parallel_search(): the first move by recursion, the others by slaves. *)

FirstMove ==
  /\ mpc = "first"
  /\ Call([Top EXCEPT !.at = "first", !.moves = @ - 1], Top.depth - 1)
  /\ nodealloc' = nodealloc + 1
  /\ UNCHANGED <<stop, iterVars, hashtable, nodes, slaveVars, now, limit, envVars>>

FirstReturn ==
  /\ mpc = "return" /\ stack # <<>> /\ Top.at = "first"
  /\ CheckTime("first_done")
  /\ UNCHANGED <<stack, arg, ret, id, stop, iterVars, dataVars, slaveVars,
                 now, limit, envVars>>

FirstDone ==
  /\ mpc = "first_done"
  /\ nodealloc' = nodealloc - 1
  /\ \/ stop /\ Return("cancelled")
     \/ /\ ~stop
        /\ Replace([Top EXCEPT !.value = Blend(@, ret)])
        /\ \E o \in Outcomes(ret) : mpc' = IF o = "high" THEN "done" ELSE "loop"
        /\ UNCHANGED <<resume, arg, ret, id>>
  /\ UNCHANGED <<stop, iterVars, hashtable, nodes, slaveVars, now, limit, envVars>>

\* Give the next move to the first free slave. The child node comes from the
\* slave's own allocator, which holds exactly one node.
GiveMove ==
  /\ mpc = "loop" /\ Top.moves > 0
  /\ \E s \in Slaves, nullwin \in BOOLEAN :
       /\ FirstFree(s)
       /\ id' = s
       /\ slaves' = [slaves EXCEPT ![s].free = FALSE, ![s].node = "child",
                                   ![s].used = @ + 1, ![s].pvs_nullwin = nullwin]
       /\ search' = StartThread(s)
  /\ Replace([Top EXCEPT !.moves = @ - 1])
  /\ UNCHANGED <<mpc, resume, arg, ret, stop, iterVars, dataVars, ready_queue,
                 now, limit, envVars>>

\* No move or no slave left: done if all slaves are free, otherwise check the
\* time before waiting.
NoMoveToGive ==
  /\ mpc = "loop"
  /\ Top.moves = 0 \/ \A s \in Slaves : ~Free(s)
  /\ IF AllSlavesFree
       THEN mpc' = "done" /\ UNCHANGED resume
       ELSE CheckTime("checked")
  /\ UNCHANGED <<stack, arg, ret, id, stop, iterVars, dataVars, slaveVars,
                 now, limit, envVars>>

\* Fault: the stop flag is not tested before waiting.
TestStopFault ==
  /\ mpc = "checked"
  /\ Goto("wait")
  /\ UNCHANGED <<stop, iterVars, dataVars, slaveVars, now, limit, envVars>>

\* Fault: the index is read but left in the queue.
WaitSlaveReadyFault ==
  /\ mpc = "wait" /\ ready_queue # <<>>
  /\ id' = Head(ready_queue)
  /\ search' = InterruptThread(Head(ready_queue))
  /\ mpc' = "join"
  /\ UNCHANGED <<resume, stack, arg, ret, stop, iterVars, dataVars, slaves,
                 ready_queue, now, limit, envVars>>

\* The only place in the loop where the stop flag is looked at.
TestStop ==
  /\ mpc = "checked"
  /\ IF stop THEN mpc' = "abort" /\ resume' = "cancelled"
             ELSE mpc' = "wait" /\ UNCHANGED resume
  /\ UNCHANGED <<stack, arg, ret, id, stop, iterVars, dataVars, slaveVars,
                 now, limit, envVars>>

\* wait_slave_ready() and the interrupt() of stop_slave_thread().
WaitSlaveReady ==
  /\ mpc = "wait" /\ ready_queue # <<>>
  /\ id' = Head(ready_queue)
  /\ ready_queue' = Tail(ready_queue)
  /\ search' = InterruptThread(Head(ready_queue))
  /\ mpc' = "join"
  /\ UNCHANGED <<resume, stack, arg, ret, stop, iterVars, dataVars, slaves,
                 now, limit, envVars>>

\* A null window search that landed inside the window is started again for the
\* same node with the full window.
SearchAgain ==
  /\ mpc = "join" /\ Terminated(id)
  /\ slaves[id].pvs_nullwin /\ "in" \in Outcomes(search[id].score)
  /\ nodes' = Statistics(id)
  /\ slaves' = [slaves EXCEPT ![id].pvs_nullwin = FALSE,
                              ![id].last_nodes = search[id].nodes]
  /\ search' = [search EXCEPT ![id].phase = "running", ![id].stop = FALSE]
  /\ Goto("loop")
  /\ UNCHANGED <<stop, iterVars, nodealloc, hashtable, ready_queue, now, limit, envVars>>

\* Otherwise the score is used and stored, and the slave is free. A score that
\* reaches beta makes the other slaves' work useless.
CollectSlave ==
  /\ mpc = "join" /\ Terminated(id)
  /\ search' = Joined(id)
  /\ nodes' = Statistics(id)
  /\ slaves' = Released(id)
  /\ Store(search[id].score)
  /\ Replace([Top EXCEPT !.value = Blend(@, search[id].score)])
  /\ \E o \in Outcomes(search[id].score) :
       /\ o = "in" => ~slaves[id].pvs_nullwin
       /\ IF o = "high" THEN mpc' = "abort" /\ resume' = "done"
                        ELSE mpc' = "loop" /\ UNCHANGED resume
  /\ UNCHANGED <<arg, ret, id, stop, iterVars, nodealloc, ready_queue, now, limit, envVars>>

\* abort_all_slaves(): one busy slave after the other is interrupted, waited
\* for and freed, then the indices they have put into the queue are dropped.
AbortSlave ==
  /\ mpc = "abort"
  /\ \E s \in Slaves :
       /\ FirstBusy(s)
       /\ id' = s
       /\ search' = InterruptThread(s)
  /\ mpc' = "abort_join"
  /\ UNCHANGED <<resume, stack, arg, ret, stop, iterVars, dataVars, slaves,
                 ready_queue, now, limit, envVars>>

AbortJoin ==
  /\ mpc = "abort_join" /\ Terminated(id)
  /\ search' = Joined(id)
  /\ nodes' = Statistics(id)
  /\ slaves' = Released(id)
  /\ Goto("abort")
  /\ UNCHANGED <<stop, iterVars, nodealloc, hashtable, ready_queue, now, limit, envVars>>

AbortEnd ==
  /\ mpc = "abort" /\ AllSlavesFree
  /\ ready_queue' = <<>>
  /\ IF resume = "done" THEN Goto("done") ELSE Return("cancelled")
  /\ UNCHANGED <<stop, iterVars, dataVars, slaves, search, now, limit, envVars>>

\* Save the result in the hash table and return it.
ParallelEnd ==
  /\ mpc = "done"
  /\ Store(Top.value)
  /\ Return(Top.value)
  /\ UNCHANGED <<stop, iterVars, nodealloc, nodes, slaveVars, now, limit, envVars>>

-----------------------------------------------------------------------------
(* Slave threads: slave_thread_main(), slave_main(), Search::search(). *)

SlaveFinish(s) ==
  /\ search[s].phase = "running"
  /\ search' = [search EXCEPT ![s].phase = "posting", ![s].score = "score",
                              ![s].nodes = @ + 1]
  /\ UNCHANGED <<masterVars, stop, iterVars, dataVars, slaves, ready_queue,
                 now, limit, envVars>>

\* check_time() in the slave, and the return of INT_MIN when stop is set.
SlaveCancel(s) ==
  /\ search[s].phase = "running"
  /\ search[s].stop \/ now >= limit
  /\ search' = [search EXCEPT ![s].phase = "posting", ![s].score = "cancelled",
                              ![s].nodes = @ + 1, ![s].stop = TRUE]
  /\ UNCHANGED <<masterVars, stop, iterVars, dataVars, slaves, ready_queue,
                 now, limit, envVars>>

\* Fault: a slave that was told to stop terminates without reporting.
SlaveReadyFault(s) ==
  /\ search[s].phase = "posting"
  /\ search' = [search EXCEPT ![s].phase = "posted"]
  /\ ready_queue' = IF search[s].score = "cancelled" THEN ready_queue
                                                     ELSE Append(ready_queue, s)
  /\ UNCHANGED <<masterVars, stop, iterVars, dataVars, slaves, now, limit, envVars>>

\* slave_ready(): the last thing a slave thread does before it terminates.
SlaveReady(s) ==
  /\ search[s].phase = "posting"
  /\ search' = [search EXCEPT ![s].phase = "posted"]
  /\ ready_queue' = Append(ready_queue, s)
  /\ UNCHANGED <<masterVars, stop, iterVars, dataVars, slaves, now, limit, envVars>>

-----------------------------------------------------------------------------
(* ParallelSearch::interrupt(), called by the main thread in stop_thread() or *)
(* in the SIGINT handler, while the master runs in a thread of its own: first *)
(* the master's flag is set, then the slaves' flags one by one.               *)

Interrupt ==
  /\ ipc = NSlaves /\ interrupts < MaxInterrupts
  /\ stop' = TRUE
  /\ ipc' = 0
  /\ interrupts' = interrupts + 1
  /\ UNCHANGED <<masterVars, iterVars, dataVars, slaveVars, now, limit, stale>>

InterruptSlave ==
  /\ ipc \in Slaves
  /\ search' = InterruptThread(ipc)
  /\ ipc' = ipc + 1
  /\ UNCHANGED <<masterVars, stop, iterVars, dataVars, slaves, ready_queue,
                 now, limit, interrupts, stale>>

Tick ==
  /\ now < MaxTime
  /\ now' = now + 1
  /\ UNCHANGED <<masterVars, stop, iterVars, dataVars, slaveVars, limit, envVars>>

-----------------------------------------------------------------------------
Master ==
  \/ Start \/ IterateRoot \/ RootMove \/ RootSearch \/ RootReturn \/ Iterated
  \/ CheckTimeout \/ ExtendTime
  \/ SearchLeaf \/ NonparallelStart \/ NonparallelWait \/ NonparallelJoin
  \/ NonparallelDone \/ SearchNode \/ NullMove \/ NullReturn
  \/ InternalDeepening \/ DeepeningReturn
  \/ SeqReduce \/ SeqMove \/ SeqReturn \/ SeqDone \/ SeqEnd
  \/ FirstMove \/ FirstReturn \/ FirstDone \/ GiveMove \/ NoMoveToGive
  \/ TestStop \/ WaitSlaveReady \/ SearchAgain \/ CollectSlave
  \/ AbortSlave \/ AbortJoin \/ AbortEnd \/ ParallelEnd

SlaveThread(s) == SlaveFinish(s) \/ SlaveCancel(s) \/ SlaveReady(s)

Next ==
  \/ Master
  \/ \E s \in Slaves : SlaveThread(s)
  \/ Interrupt \/ InterruptSlave
  \/ Tick

Spec == Init /\ [][Next]_vars

\* Threads are scheduled by the operating system; a search tree is finite.
\* Nothing is assumed of the clock or of whoever interrupts.
FairSpec ==
  /\ Spec
  /\ WF_vars(Master /\ mpc # "idle")
  /\ \A s \in 0 .. NSlaves - 1 : WF_vars(SlaveThread(s))

-----------------------------------------------------------------------------
(* Properties. *)

\* The control point, with check_time() counted to the place it returns to.
At == IF mpc \in {"check", "extend"} THEN resume ELSE mpc

\* Control points of the slave loop, of its abort, and of nonparallel_search().
LoopPoints  == {"loop", "checked", "wait", "join"}
AbortPoints == {"abort", "abort_join"}
AlonePoints == {"np_wait", "np_join", "np_done"}

\* Nodes of the master's allocator that the calls in progress hold.
Holds(f) == f.at \in {"null", "first", "nullwin", "move"}

\* The calling frame's child node is in use from make_move() to free().
ChildInUse ==
  \/ At \in {"search", "return", "root_search", "seq_done", "first_done"}
  \/ At \in AlonePoints

\* Types of all variables.
TypeOK ==
  /\ mpc \in {"idle", "iterate", "root", "root_search", "iterated", "check",
              "extend", "search", "return", "null", "iid", "first", "first_done",
              "reduce", "seq", "seq_done", "done"}
             \union LoopPoints \union AbortPoints \union AlonePoints
  /\ resume \in {"idle", "root_search", "iterated", "np_done", "seq_done",
                 "first_done", "checked", "cancelled", "done"}
  /\ stack \in Seq(Frame)
  /\ arg \in Int
  /\ ret \in Provenance
  /\ id \in Slaves
  /\ stop \in BOOLEAN /\ stop_iteration \in BOOLEAN
  /\ rootdepth \in Nat
  /\ window \in SUBSET {"alpha", "beta"}
  /\ best \in Provenance
  /\ nodealloc \in Int
  /\ hashtable \in SUBSET Provenance
  /\ nodes \in Int
  /\ slaves \in [Slaves -> Slave]
  /\ search \in [Slaves -> Search]
  /\ ready_queue \in Seq(Slaves)
  /\ now \in Nat /\ limit \in Nat
  /\ ipc \in 0 .. NSlaves
  /\ interrupts \in Nat
  /\ stale \in BOOLEAN

\* Whenever the master is not inside the slave loop or nonparallel_search(),
\* every slave is free, has no thread, and nothing is left in ready_queue: this
\* is what each recursive call of search() relies on and leaves behind.
SlavesIdleBetweenCalls ==
  At \notin LoopPoints \union AbortPoints \union AlonePoints =>
    /\ ready_queue = <<>>
    /\ \A s \in Slaves : Free(s) /\ search[s].phase = "none"

\* ready_queue holds each slave at most once, and only slaves whose thread has
\* finished a search the master has not collected. (While abort_all_slaves()
\* runs, indices of slaves it has already freed may still be there.)
ReadyQueueSound ==
  /\ \A i, j \in 1 .. Len(ready_queue) :
       ready_queue[i] = ready_queue[j] => i = j
  /\ \A i \in 1 .. Len(ready_queue) :
       \/ search[ready_queue[i]].phase = "posted" /\ ~Free(ready_queue[i])
       \/ At \in AbortPoints /\ Free(ready_queue[i])

\* ASSERT(id1 == id) in nonparallel_search(): the only index that can come out
\* of the queue is that of the slave just started.
NonparallelGetsItsSlave ==
  mpc = "np_wait" /\ ready_queue # <<>> => ready_queue = <<id>>

\* A master that waits for a slave is answered: there is an index in the queue,
\* or a slave that is still running will put one there (wait_slave_ready() never
\* blocks for ever, whichever slaves were aborted or started again before).
WaitIsAnswered ==
  mpc \in {"wait", "np_wait"} =>
    ready_queue # <<>> \/ \E s \in Slaves : search[s].phase \in {"running", "posting"}

\* BUG("thread not running") in stop_slave_thread() is never reached, and a
\* slave is started only when it has no thread ("thread already running" would
\* leave the master waiting for a search that was never started).
ThreadsMatchSlaves ==
  /\ mpc \in {"join", "abort_join", "np_join"} => search[id].phase # "none"
  /\ \A s \in Slaves : Free(s) => search[s].phase = "none"
  /\ \A s \in Slaves : ~Free(s) /\ At # "np_done" => search[s].phase # "none"

\* NodeAllocator(1) of a slave is never exhausted ("Node alloc failed") and a
\* node is returned exactly once, to the allocator it came from.
SlaveNodesFit ==
  \A s \in Slaves :
    /\ slaves[s].used = (IF slaves[s].node = "child" THEN 1 ELSE 0)
    /\ slaves[s].node = "none" <=> Free(s)

\* The master's node allocator is a stack: at every moment it holds exactly the
\* children of the calls in progress, so nothing leaks on any return path.
MasterNodesBalanced ==
  nodealloc = Cardinality({i \in 1 .. Len(stack) :
                             Holds(stack[i]) /\ (i > 1 \/ ChildInUse)})

\* A free slave's node count has been taken over by the master completely, also
\* when its search was aborted (get_slave_statistics()).
StatisticsTaken ==
  \A s \in Slaves : Free(s) => slaves[s].last_nodes = search[s].nodes

\* f[0] + ... + f[NSlaves - 1]
SumOf(f) ==
  LET sum[n \in 0 .. NSlaves] == IF n = 0 THEN 0 ELSE sum[n - 1] + f[n - 1]
  IN  sum[NSlaves]

\* The master's total is the sum of what the slaves have counted, whenever all
\* slaves are free (Search::nodes_fullwidth after get_slave_statistics()).
StatisticsComplete == AllSlavesFree => nodes = SumOf([s \in Slaves |-> search[s].nodes])

\* Once interrupt() has returned, a master that waits in the slave loop waits
\* only for slaves that have been told to stop: the flag a slave's start clears
\* is never the one an interrupt has just set.
NoLostStop ==
  mpc = "wait" /\ stop /\ ipc = NSlaves =>
    \A s \in Slaves : search[s].phase = "running" => search[s].stop

\* iterate() takes over a best move only from an iteration in which no score of
\* a cancelled search was used, be it of a slave that was just collected or of the hash
\* table that the search began with: "iterate() won't use it anyway". The code breaks this.
AcceptedIsGenuine == best = "score"

\* What is left of that claim with time extension and the hash table: the flag
\* that a timeout sets, the second check_time() of nonparallel_search() and the
\* tests of stop keep scores of cancelled searches out of every iteration but
\* the last one of a search whose limit was raised, unless the table of an
\* earlier search brings them in.
CancelledOnlyWhenExtended ==
  best = "score" \/ stale \/ (limit > TimeLimit /\ mpc = "idle")

\* Every search ends, however the slaves, the clock and interrupts interleave.
SearchTerminates == mpc # "idle" ~> mpc = "idle"

=============================================================================
