----------------------------- MODULE ThreadPool -----------------------------
(***************************************************************************)
(* threads/src/threadpool.c: a fixed set of worker threads, a circular     *)
(* task queue, one mutex and one condition variable.                       *)
(*                                                                         *)
(* Every access to the shared fields happens inside a critical section     *)
(* that ends before the thread blocks or leaves it, so a critical section  *)
(* is one step, taken when the mutex is free.  The exception is the error  *)
(* path of threadpool_destroy, which returns with the mutex held: that is  *)
(* what the variable lock records.  A worker blocked in pthread_mutex_lock *)
(* and one that has been woken in pthread_cond_wait do the same thing      *)
(* next, so both are "ready".                                              *)
(*                                                                         *)
(* Callers respect the ownership of the pool: none of them starts a call   *)
(* before threadpool_create has returned it or after its arrays are freed. *)
(* Operators whose name holds an underscore followed by a phrase are       *)
(* faulty variants of the definition that follows them.                    *)
(***************************************************************************)
EXTENDS Integers, Sequences, FiniteSets

CONSTANTS
  Workers,    (* the threads threadpool_create is asked for                *)
  QueueSize,  (* the queue_size argument of threadpool_create              *)
  Callers,    (* the threads that call the functions of the pool           *)
  Creator,    (* the caller that creates the pool                          *)
  Destroyers, (* the callers that may call threadpool_destroy              *)
  Tasks,      (* the task arguments, each submitted at most once           *)
  NoTask,     (* an uninitialised slot or local variable                   *)
  Nobody      (* the owner of a free mutex                                 *)

ASSUME ThreadPoolAssumption ==
  /\ IsFiniteSet(Workers) /\ Workers # {}
  /\ QueueSize \in Nat \ {0}
  /\ Creator \in Callers
  /\ Destroyers \subseteq Callers
  /\ NoTask \notin Tasks
  /\ Nobody \notin Callers

VARIABLES
  lock,       (* the thread that left the mutex locked, or Nobody          *)
  queue,      (* pool->queue: the argument stored in each slot             *)
  head,       (* pool->head                                                *)
  tail,       (* pool->tail                                                *)
  count,      (* pool->count                                               *)
  shutdown,   (* pool->shutdown                                            *)
  started,    (* pool->started                                             *)
  pool,       (* whether the pool is being created, live, gutted or freed  *)
  pcw,        (* where each worker is in threadpool_thread                 *)
  task,       (* the local variable task of each worker                    *)
  pcc,        (* where each caller is                                      *)
  submitted,  (* history: tasks passed to threadpool_add                   *)
  done        (* history: tasks whose function has returned                *)

ring == <<queue, head, tail, count>>
history == <<submitted, done>>
vars == <<lock, queue, head, tail, count, shutdown, started, pool,
          pcw, task, pcc, submitted, done>>

Slots == 0 .. QueueSize - 1
Shutdowns == {"none", "immediate", "graceful"}
WorkerPlaces == {"unborn", "ready", "wait", "run", "dead"}
CallerPlaces == {"idle", "create", "join", "free", "lock"}
PoolStates == {"creating", "live", "gutted", "freed"}

Created == {w \in Workers : pcw[w] # "unborn"}
Alive == {w \in Created : pcw[w] # "dead"}
Waiting == {w \in Workers : pcw[w] = "wait"}
Ready == {w \in Workers : pcw[w] = "ready"}

(* The shape of the state: every task taken or stored is a real task.      *)
TypeOK ==
  /\ lock \in Callers \cup {Nobody}
  /\ queue \in [Slots -> Tasks \cup {NoTask}]
  /\ head \in Slots /\ tail \in Slots
  /\ count \in 0 .. QueueSize
  /\ shutdown \in Shutdowns
  /\ started \in Int
  /\ pool \in PoolStates
  /\ pcw \in [Workers -> WorkerPlaces]
  /\ task \in [Workers -> Tasks \cup {NoTask}]
  /\ \A w \in Workers : pcw[w] = "run" <=> task[w] # NoTask
  /\ pcc \in [Callers -> CallerPlaces]
  /\ submitted \subseteq Tasks
  /\ done \subseteq Tasks

-----------------------------------------------------------------------------
(* threadpool_create, up to the loop that starts the threads.              *)
Init ==
  /\ lock = Nobody
  /\ queue = [i \in Slots |-> NoTask]
  /\ head = 0 /\ tail = 0 /\ count = 0
  /\ shutdown = "none"
  /\ started = 0
  /\ pool = "creating"
  /\ pcw = [w \in Workers |-> "unborn"]
  /\ task = [w \in Workers |-> NoTask]
  /\ pcc = [c \in Callers |-> IF c = Creator THEN "create" ELSE "idle"]
  /\ submitted = {} /\ done = {}

(* The successor of an index, back to 0 at the end of the array.           *)
Wrap(i) == IF i + 1 = QueueSize THEN 0 ELSE i + 1

(* "Are we full ?"                                                         *)
Full == count = QueueSize

Signal_Forgotten == UNCHANGED pcw
(* pthread_cond_signal: one waiting worker, if there is one, is woken.     *)
Signal ==
  IF Waiting = {}
  THEN UNCHANGED pcw
  ELSE \E w \in Waiting : pcw' = [pcw EXCEPT ![w] = "ready"]

Broadcast_WakesOne == Signal
(* pthread_cond_broadcast: every waiting worker is woken.                  *)
Broadcast ==
  pcw' = [w \in Workers |-> IF w \in Waiting THEN "ready" ELSE pcw[w]]

-----------------------------------------------------------------------------
(* One iteration of the loop of threadpool_create: the thread starts.      *)
CreateThread(c, w) ==
  /\ pcc[c] = "create"
  /\ pcw[w] = "unborn"
  /\ pcw' = [pcw EXCEPT ![w] = "ready"]
  /\ started' = started + 1
  /\ UNCHANGED <<lock, ring, shutdown, pool, task, pcc, history>>

CreateReturn(c) ==
  /\ pcc[c] = "create"
  /\ Created = Workers
  /\ pcc' = [pcc EXCEPT ![c] = "idle"]
  /\ pool' = "live"
  /\ UNCHANGED <<lock, ring, shutdown, started, pcw, task, history>>

(* malloc or an initialiser fails: goto err, with no thread started.       *)
CreateAllocFails(c) ==
  /\ pcc[c] = "create"
  /\ Created = {}
  /\ pcc' = [pcc EXCEPT ![c] = "idle"]
  /\ pool' = "freed"
  /\ UNCHANGED <<lock, ring, shutdown, started, pcw, task, history>>

(* threadpool_destroy up to the join, in its first call.                   *)
BeginShutdown(c, flag) ==
  /\ shutdown = "none"
  /\ shutdown' = flag
  /\ Broadcast
  /\ pcc' = [pcc EXCEPT ![c] = "join"]
  /\ UNCHANGED <<lock, ring, started, pool, task, history>>

(* pthread_create fails: threadpool_destroy(pool, 0), then NULL.           *)
CreateThreadFails(c) ==
  /\ pcc[c] = "create"
  /\ Created # Workers
  /\ lock = Nobody
  /\ BeginShutdown(c, "immediate")

-----------------------------------------------------------------------------
(* A call by a thread that is not in one already.                          *)
Calls(c) ==
  /\ pcc[c] = "idle"
  /\ pool = "live"
  /\ lock = Nobody

Refused_OnlyWhenFull == Full
(* "Are we full ?" and "Are we shutting down ?"                            *)
Refused == Full \/ shutdown # "none"

(* threadpool_add: the task is stored at tail, or refused.                 *)
Add(c, t) ==
  /\ Calls(c)
  /\ t \notin submitted
  /\ submitted' = submitted \cup {t}
  /\ IF Refused
     THEN UNCHANGED <<queue, tail, count, pcw>>
     ELSE /\ queue' = [queue EXCEPT ![tail] = t]
          /\ tail' = Wrap(tail)
          /\ count' = count + 1
          /\ Signal
  /\ UNCHANGED <<lock, head, shutdown, started, pool, task, pcc, done>>

(* threadpool_destroy.  A second call leaves through break with the mutex  *)
(* still locked.                                                           *)
Destroy(c, flag) ==
  /\ Calls(c)
  /\ c \in Destroyers
  /\ \/ BeginShutdown(c, flag)
     \/ /\ shutdown # "none"
        /\ lock' = c
        /\ UNCHANGED <<ring, shutdown, started, pool, pcw, task, pcc, history>>

Joined_OneIsEnough == Created = {} \/ \E w \in Created : pcw[w] = "dead"
(* pthread_join has returned for each of the thread_count threads.         *)
Joined == \A w \in Created : pcw[w] = "dead"

Join(c) ==
  /\ pcc[c] = "join"
  /\ Joined
  /\ pcc' = [pcc EXCEPT ![c] = "free"]
  /\ UNCHANGED <<lock, ring, shutdown, started, pool, pcw, task, history>>

(* threadpool_free: nothing is freed while a thread is counted as started. *)
FreeArrays(c) ==
  /\ pcc[c] = "free"
  /\ IF started > 0
     THEN /\ pcc' = [pcc EXCEPT ![c] = "idle"]
          /\ UNCHANGED pool
     ELSE /\ pcc' = [pcc EXCEPT ![c] = "lock"]
          /\ pool' = "gutted"
  /\ UNCHANGED <<lock, ring, shutdown, started, pcw, task, history>>

(* The rest of threadpool_free: lock the mutex "just in case", destroy it  *)
(* and free the structure.                                                 *)
FreePool(c) ==
  /\ pcc[c] = "lock"
  /\ lock = Nobody
  /\ pcc' = [pcc EXCEPT ![c] = "idle"]
  /\ pool' = "freed"
  /\ UNCHANGED <<lock, ring, shutdown, started, pcw, task, history>>

-----------------------------------------------------------------------------
(* The condition of the loop around pthread_cond_wait.                     *)
NothingToDo == count = 0 /\ shutdown = "none"

MustExit_DroppingQueue == shutdown # "none"
(* The condition of the break that follows the wait.                       *)
MustExit ==
  \/ shutdown = "immediate"
  \/ shutdown = "graceful" /\ count = 0

(* A worker that owns the mutex finds nothing to do and waits.             *)
Sleep(w) ==
  /\ pcw[w] = "ready" /\ lock = Nobody
  /\ NothingToDo
  /\ pcw' = [pcw EXCEPT ![w] = "wait"]
  /\ UNCHANGED <<lock, ring, shutdown, started, pool, task, pcc, history>>

(* A worker takes the task at head and leaves the critical section.        *)
Grab(w) ==
  /\ pcw[w] = "ready" /\ lock = Nobody
  /\ ~NothingToDo /\ ~MustExit
  /\ task' = [task EXCEPT ![w] = queue[head]]
  /\ head' = Wrap(head)
  /\ count' = count - 1
  /\ pcw' = [pcw EXCEPT ![w] = "run"]
  /\ UNCHANGED <<lock, queue, tail, shutdown, started, pool, pcc, history>>

Exit_NotCounted(w) ==
  /\ pcw[w] = "ready" /\ lock = Nobody
  /\ MustExit
  /\ pcw' = [pcw EXCEPT ![w] = "dead"]
  /\ UNCHANGED <<lock, ring, shutdown, started, pool, task, pcc, history>>
(* A worker leaves the loop, counts itself out and unlocks.                *)
Exit(w) ==
  /\ pcw[w] = "ready" /\ lock = Nobody
  /\ MustExit
  /\ started' = started - 1
  /\ pcw' = [pcw EXCEPT ![w] = "dead"]
  /\ UNCHANGED <<lock, ring, shutdown, pool, task, pcc, history>>

(* The task's function returns and the worker goes round the loop.         *)
Finish(w) ==
  /\ pcw[w] = "run"
  /\ done' = done \cup {task[w]}
  /\ task' = [task EXCEPT ![w] = NoTask]
  /\ pcw' = [pcw EXCEPT ![w] = "ready"]
  /\ UNCHANGED <<lock, ring, shutdown, started, pool, pcc, submitted>>

(* pthread_cond_wait may return without a signal.                          *)
SpuriousWakeup(w) ==
  /\ pcw[w] = "wait"
  /\ pcw' = [pcw EXCEPT ![w] = "ready"]
  /\ UNCHANGED <<lock, ring, shutdown, started, pool, task, pcc, history>>

-----------------------------------------------------------------------------
CreateStep(c) ==
  \/ \E w \in Workers : CreateThread(c, w)
  \/ CreateReturn(c)
  \/ CreateAllocFails(c)
  \/ CreateThreadFails(c)

DestroyStep(c) == Join(c) \/ FreeArrays(c) \/ FreePool(c)

WorkerStep(w) == Sleep(w) \/ Grab(w) \/ Exit(w) \/ Finish(w)

Next ==
  \/ \E c \in Callers :
       \/ CreateStep(c)
       \/ \E t \in Tasks : Add(c, t)
       \/ \E flag \in {"immediate", "graceful"} : Destroy(c, flag)
       \/ DestroyStep(c)
  \/ \E w \in Workers : WorkerStep(w) \/ SpuriousWakeup(w)

Spec == Init /\ [][Next]_vars

(* Threads are scheduled, tasks end, and a caller that is inside a call    *)
(* goes on with it.  Nobody has to call, and spurious wake-ups need not    *)
(* happen.  The mutex is free whenever a thread waits for it, except after *)
(* a second destroy, so weak fairness is enough.                           *)
Fairness ==
  /\ \A w \in Workers : WF_vars(WorkerStep(w))
  /\ \A c \in Callers : WF_vars(CreateStep(c)) /\ WF_vars(DestroyStep(c))

FairSpec == Spec /\ Fairness

-----------------------------------------------------------------------------
(* The k-th occupied slot of the ring, counted from head.                  *)
Slot(k) == IF head + k < QueueSize THEN head + k ELSE head + k - QueueSize

(* The occupied part of the ring, oldest task first.                       *)
Pending == [k \in 1 .. count |-> queue[Slot(k - 1)]]

(* No task waits in the queue for a worker that sleeps: while a worker is  *)
(* asleep in pthread_cond_wait there are at least as many awake workers    *)
(* about to look at the queue as there are tasks in it.  One lost or       *)
(* conditional pthread_cond_signal breaks it.                              *)
NoLostWakeup == Waiting # {} => Cardinality(Ready) >= count

(* threadpool_free runs only when no worker can touch the pool again, and  *)
(* it never gives up: the count of started threads that it tests agrees    *)
(* with the threads that are left, although create increments it without   *)
(* the mutex.                                                              *)
FreeIsSafe ==
  /\ started = Cardinality(Alive)
  /\ (\E c \in Callers : pcc[c] \in {"free", "lock"}) => Alive = {}
  /\ pool \in {"gutted", "freed"} => Alive = {}

(* A graceful destroy frees the pool only after every accepted task ran:   *)
(* "processes all pending tasks before shutdown" (threadpool.h).           *)
GracefulLosesNothing ==
  (shutdown = "graceful" /\ pool \in {"gutted", "freed"})
    => count = 0 /\ \A w \in Workers : task[w] = NoTask

(* An accepted task is executed, unless the pool is shut down at once or   *)
(* somebody left the mutex locked.                                         *)
TasksAreExecuted ==
  \A t \in Tasks :
    (\E k \in 1 .. count : Pending[k] = t)
      ~> (t \in done \/ shutdown = "immediate" \/ lock # Nobody)

(* The call of threadpool_destroy that stops the pool returns, with the    *)
(* pool freed, unless another call left the mutex locked.                  *)
DestroyReturns ==
  (\E c \in Callers : pcc[c] = "join") ~> (pool = "freed" \/ lock # Nobody)

-----------------------------------------------------------------------------
(* head, tail and count agree, and only real tasks are between them.       *)
RingOK ==
  /\ tail = IF head + count < QueueSize THEN head + count
                                        ELSE head + count - QueueSize
  /\ \A k \in 0 .. QueueSize - 1 : k < count => queue[Slot(k)] \in Tasks

Owners == {"create", "join", "free", "lock"}

(* One caller at a time creates or destroys the pool, and what it has      *)
(* already done is visible in shutdown, pool and the workers.              *)
Lifecycle ==
  /\ \A c, d \in Callers : pcc[c] \in Owners /\ pcc[d] \in Owners => c = d
  /\ \A c \in Callers :
       /\ pcc[c] = "create" => pool = "creating" /\ shutdown = "none"
       /\ pcc[c] \in {"join", "free", "lock"} => shutdown # "none"
       /\ pcc[c] \in {"join", "free"} => pool \in {"creating", "live"}
       /\ pcc[c] \in {"free", "lock"} => Alive = {}
  /\ pool \in {"gutted", "freed"} => Alive = {}
  /\ pool = "live" \/ shutdown = "graceful" => Created = Workers

(* A worker exits, and the waiters are all woken, only in a shutdown; a    *)
(* graceful one starts to lose workers when the queue is empty.            *)
Winding ==
  /\ shutdown # "none" => Waiting = {}
  /\ \A w \in Workers : pcw[w] = "dead" =>
       \/ shutdown = "immediate"
       \/ shutdown = "graceful" /\ count = 0

(* The inductive invariant of ThreadPoolProofs.tla.                        *)
Inductive ==
  /\ TypeOK
  /\ RingOK
  /\ Lifecycle
  /\ Winding
  /\ NoLostWakeup
  /\ started = Cardinality(Alive)

-----------------------------------------------------------------------------
(* The implementation of TaskPool.                                         *)
Mode ==
  CASE shutdown = "none" -> "open"
    [] shutdown = "graceful" -> "draining"
    [] shutdown = "immediate" -> "dropping"

Abstract == INSTANCE TaskPool WITH
  Capacity <- QueueSize, pending <- Pending, running <- task, mode <- Mode

(* The pool implements TaskPool: tasks start in the order of their         *)
(* acceptance, each of them once, and none is invented or overwritten by   *)
(* the ring's wrap-around.                                                 *)
ImplementsTaskPool == Abstract!PoolSafeSpec
=============================================================================
