-------------------------- MODULE ThreadPoolProofs --------------------------
(***************************************************************************)
(* Proofs about ThreadPool.tla, for every number of workers and callers    *)
(* and every queue size: its inductive invariant, the safety properties    *)
(* that follow from it, and the safety part of its implementation of       *)
(* TaskPool.  Liveness stays with TLC.                                     *)
(***************************************************************************)
EXTENDS ThreadPool, FiniteSetTheorems, SequenceTheorems, TLAPS

USE ThreadPoolAssumption

(* Sets of workers are finite, so their sizes are naturals.                *)
LEMMA WorkerSets ==
  ASSUME NEW S \in SUBSET Workers
  PROVE  IsFiniteSet(S) /\ Cardinality(S) \in Nat
BY FS_Subset, FS_CardinalityType

(* One more worker in a set of workers counts for one.                     *)
LEMMA OneMore ==
  ASSUME NEW S \in SUBSET Workers, NEW w \in Workers, w \notin S
  PROVE  Cardinality(S \cup {w}) = Cardinality(S) + 1
BY WorkerSets, FS_AddElement

(* One worker fewer in a set of workers counts for one.                    *)
LEMMA OneLess ==
  ASSUME NEW S \in SUBSET Workers, NEW w \in S
  PROVE  Cardinality(S \ {w}) = Cardinality(S) - 1
BY WorkerSets, FS_RemoveElement

(* A task can be taken exactly when there is one.                          *)
LEMMA TaskToGrab ==
  ASSUME TypeOK, ~NothingToDo, ~MustExit
  PROVE  count \in 1 .. QueueSize
BY DEF TypeOK, NothingToDo, MustExit, Shutdowns

-----------------------------------------------------------------------------
(* The pool starts in the invariant.                                       *)
LEMMA InductiveInit == Init => Inductive
<1> SUFFICES ASSUME Init PROVE Inductive
    OBVIOUS
<1>1. TypeOK
      BY DEF Init, TypeOK, Slots, Shutdowns, PoolStates, WorkerPlaces,
             CallerPlaces
<1>2. RingOK
      BY DEF Init, RingOK
<1>3. Created = {} /\ Alive = {} /\ Waiting = {}
      BY DEF Init, Created, Alive, Waiting
<1>4. Lifecycle
      BY <1>3 DEF Init, Lifecycle, Owners
<1>5. Winding
      BY <1>3 DEF Init, Winding
<1>6. NoLostWakeup
      BY <1>3 DEF NoLostWakeup
<1>7. started = Cardinality(Alive)
      BY <1>3, FS_EmptySet DEF Init
<1> QED
    BY <1>1, <1>2, <1>4, <1>5, <1>6, <1>7 DEF Inductive
-----------------------------------------------------------------------------
(* What moving one worker to another place does to the sets of workers.    *)
LEMMA Move ==
  ASSUME TypeOK, NEW w \in Workers, NEW p \in WorkerPlaces,
         pcw' = [pcw EXCEPT ![w] = p]
  PROVE  /\ Created' = IF p = "unborn" THEN Created \ {w} ELSE Created \cup {w}
         /\ Alive' = IF p \in {"unborn", "dead"} THEN Alive \ {w}
                                                ELSE Alive \cup {w}
         /\ Waiting' = IF p = "wait" THEN Waiting \cup {w} ELSE Waiting \ {w}
         /\ Ready' = IF p = "ready" THEN Ready \cup {w} ELSE Ready \ {w}
BY DEF TypeOK, Created, Alive, Waiting, Ready

(* Nothing about the workers changes while pcw does not.                   *)
LEMMA Stay ==
  ASSUME UNCHANGED pcw
  PROVE  /\ Created' = Created /\ Alive' = Alive
         /\ Waiting' = Waiting /\ Ready' = Ready
BY DEF Created, Alive, Waiting, Ready

(* pthread_cond_signal wakes one sleeper if there is one.                  *)
LEMMA SignalEffect ==
  ASSUME TypeOK, Signal
  PROVE  /\ pcw' \in [Workers -> WorkerPlaces]
         /\ Created' = Created /\ Alive' = Alive
         /\ \A w \in Workers : pcw'[w] = "run" <=> pcw[w] = "run"
         /\ \A w \in Workers : pcw'[w] = "dead" <=> pcw[w] = "dead"
         /\ Waiting' \subseteq Waiting
         /\ Waiting # {} => Cardinality(Ready') = Cardinality(Ready) + 1
<1>1. CASE Waiting = {}
      BY <1>1, Stay DEF Signal, TypeOK
<1>2. CASE Waiting # {}
  <2>1. PICK w \in Waiting : pcw' = [pcw EXCEPT ![w] = "ready"]
        BY <1>2 DEF Signal
  <2>2. w \in Workers /\ pcw[w] = "wait" /\ "ready" \in WorkerPlaces
        BY DEF Waiting, WorkerPlaces
  <2>3. w \in Alive /\ w \in Created /\ w \notin Ready /\ Ready \subseteq Workers
        BY <2>2 DEF Alive, Created, Ready
  <2>4. /\ Created' = Created \cup {w} /\ Alive' = Alive \cup {w}
        /\ Waiting' = Waiting \ {w} /\ Ready' = Ready \cup {w}
        BY <2>1, <2>2, Move
  <2>5. Cardinality(Ready') = Cardinality(Ready) + 1
        BY <2>2, <2>3, <2>4, OneMore
  <2> QED
      BY <2>1, <2>2, <2>3, <2>4, <2>5 DEF TypeOK
<1> QED
    BY <1>1, <1>2

(* pthread_cond_broadcast leaves nobody waiting.                           *)
LEMMA BroadcastEffect ==
  ASSUME TypeOK, Broadcast
  PROVE  /\ pcw' \in [Workers -> WorkerPlaces]
         /\ Created' = Created /\ Alive' = Alive
         /\ \A w \in Workers : pcw'[w] = "run" <=> pcw[w] = "run"
         /\ \A w \in Workers : pcw'[w] = "dead" <=> pcw[w] = "dead"
         /\ Waiting' = {}
BY DEF TypeOK, Broadcast, Created, Alive, Waiting, WorkerPlaces
-----------------------------------------------------------------------------
(* Each action preserves the invariant: the creation of the pool.          *)
LEMMA CreateThreadStep ==
  ASSUME Inductive, NEW c \in Callers, NEW w \in Workers, CreateThread(c, w)
  PROVE  Inductive'
<1> USE DEF Inductive
<1>1. w \notin Alive /\ w \notin Ready /\ w \notin Waiting /\ w \notin Created
      BY DEF CreateThread, Alive, Created, Ready, Waiting
<1>2. /\ Created' = Created \cup {w} /\ Alive' = Alive \cup {w}
      /\ Waiting' = Waiting \ {w} /\ Ready' = Ready \cup {w}
      BY Move DEF CreateThread, WorkerPlaces
<1>3. TypeOK'
      BY DEF TypeOK, CreateThread, ring, history, WorkerPlaces
<1>4. RingOK'
      BY DEF RingOK, CreateThread, ring, Slot
<1>5. pcc[c] = "create" /\ pool = "creating" /\ shutdown = "none"
      BY DEF CreateThread, Lifecycle
<1>6. Lifecycle'
      BY <1>2, <1>5 DEF Lifecycle, CreateThread, Owners
<1>7. Winding'
      BY <1>5 DEF Winding, CreateThread, TypeOK
<1>8. NoLostWakeup'
  <2>1. Cardinality(Ready') = Cardinality(Ready) + 1 /\ Cardinality(Ready) \in Nat
        BY <1>1, <1>2, OneMore, WorkerSets DEF Ready
  <2> QED
      BY <1>1, <1>2, <2>1 DEF NoLostWakeup, CreateThread, ring, TypeOK
<1>9. started' = Cardinality(Alive')
      BY <1>1, <1>2, OneMore DEF CreateThread, Alive, Created
<1> QED
    BY <1>3, <1>4, <1>6, <1>7, <1>8, <1>9

(* The steps that leave the workers and the queue alone: they only move a  *)
(* caller, or leave the mutex locked.                                      *)
LEMMA CallerStep ==
  ASSUME Inductive, NEW c \in Callers,
         \/ CreateReturn(c) \/ CreateAllocFails(c)
         \/ Join(c) \/ FreeArrays(c) \/ FreePool(c)
  PROVE  Inductive'
<1> USE DEF Inductive
<1>1. UNCHANGED <<lock, ring, shutdown, started, pcw, task, history>>
      BY DEF CreateReturn, CreateAllocFails, Join, FreeArrays, FreePool
<1>2. /\ Created' = Created /\ Alive' = Alive
      /\ Waiting' = Waiting /\ Ready' = Ready
      BY <1>1, Stay
<1>3. TypeOK'
      BY <1>1 DEF TypeOK, ring, history, CreateReturn, CreateAllocFails, Join,
                  FreeArrays, FreePool, CallerPlaces, PoolStates
<1>4. RingOK' /\ Winding' /\ NoLostWakeup' /\ started' = Cardinality(Alive')
      BY <1>1, <1>2 DEF RingOK, Slot, Winding, NoLostWakeup, ring
<1>5. Lifecycle'
  <2>1. CASE CreateReturn(c)
        BY <1>1, <1>2, <2>1 DEF CreateReturn, Lifecycle, Owners, TypeOK
  <2>2. CASE CreateAllocFails(c)
    <3>1. Alive = {}
          BY <2>2 DEF CreateAllocFails, Alive
    <3> QED
        BY <1>1, <1>2, <2>2, <3>1 DEF CreateAllocFails, Lifecycle, Owners, TypeOK
  <2>3. CASE Join(c)
    <3>1. Alive = {}
          BY <2>3 DEF Join, Joined, Alive
    <3> QED
        BY <1>1, <1>2, <2>3, <3>1 DEF Join, Lifecycle, Owners, TypeOK
  <2>4. CASE FreeArrays(c)
        BY <1>1, <1>2, <2>4 DEF FreeArrays, Lifecycle, Owners, TypeOK
  <2>5. CASE FreePool(c)
        BY <1>1, <1>2, <2>5 DEF FreePool, Lifecycle, Owners, TypeOK
  <2> QED
      BY <2>1, <2>2, <2>3, <2>4, <2>5
<1> QED
    BY <1>3, <1>4, <1>5

(* The start of a shutdown, by threadpool_destroy or a failed creation.    *)
LEMMA BeginShutdownStep ==
  ASSUME Inductive, NEW c \in Callers, NEW flag \in {"immediate", "graceful"},
         BeginShutdown(c, flag),
         \/ pcc[c] = "create" /\ flag = "immediate"
         \/ pcc[c] = "idle" /\ pool = "live"
  PROVE  Inductive'
<1> USE DEF Inductive
<1>1. /\ shutdown = "none" /\ shutdown' = flag /\ Broadcast
      /\ pcc' = [pcc EXCEPT ![c] = "join"]
      /\ UNCHANGED <<lock, queue, head, tail, count, started, pool, task,
                     submitted, done>>
      BY DEF BeginShutdown, ring, history
<1>2. /\ pcw' \in [Workers -> WorkerPlaces]
      /\ Created' = Created /\ Alive' = Alive /\ Waiting' = {}
      /\ \A w \in Workers : pcw'[w] = "run" <=> pcw[w] = "run"
      /\ \A w \in Workers : pcw'[w] = "dead" <=> pcw[w] = "dead"
      BY <1>1, BroadcastEffect
<1>3. TypeOK'
      BY <1>1, <1>2 DEF TypeOK, CallerPlaces, Shutdowns
<1>4. RingOK'
      BY <1>1 DEF RingOK, Slot
<1>5. \A d \in Callers : pcc[d] \in Owners => d = c
      BY <1>1 DEF Lifecycle, Owners
<1>6. Lifecycle'
      BY <1>1, <1>2, <1>5 DEF Lifecycle, Owners, TypeOK
<1>7. Winding'
      BY <1>1, <1>2 DEF Winding
<1>8. NoLostWakeup' /\ started' = Cardinality(Alive')
      BY <1>1, <1>2 DEF NoLostWakeup
<1> QED
    BY <1>3, <1>4, <1>6, <1>7, <1>8
-----------------------------------------------------------------------------
(* threadpool_add, when it refuses the task and when it accepts it.        *)
LEMMA AddStep ==
  ASSUME Inductive, NEW c \in Callers, NEW t \in Tasks, Add(c, t)
  PROVE  Inductive'
<1> USE DEF Inductive
<1>1. /\ pool = "live" /\ submitted' = submitted \cup {t}
      /\ UNCHANGED <<lock, head, shutdown, started, pool, task, pcc, done>>
      BY DEF Add, Calls
<1>2. CASE Refused
  <2>1. UNCHANGED <<queue, tail, count, pcw>>
        BY <1>2 DEF Add
  <2>2. TypeOK' /\ RingOK' /\ Winding'
        BY <1>1, <2>1, Stay DEF TypeOK, RingOK, Slot, Winding
  <2>3. Lifecycle' /\ NoLostWakeup' /\ started' = Cardinality(Alive')
        BY <1>1, <2>1, Stay DEF Lifecycle, NoLostWakeup
  <2> QED
      BY <2>2, <2>3
<1>3. CASE ~Refused
  <2>1. /\ count < QueueSize /\ shutdown = "none"
        /\ queue' = [queue EXCEPT ![tail] = t]
        /\ tail' = Wrap(tail)
        /\ count' = count + 1
        /\ Signal
        BY <1>3 DEF Add, Refused, Full, TypeOK
  <2>2. /\ pcw' \in [Workers -> WorkerPlaces]
        /\ Created' = Created /\ Alive' = Alive
        /\ \A w \in Workers : pcw'[w] = "run" <=> pcw[w] = "run"
        /\ \A w \in Workers : pcw'[w] = "dead" <=> pcw[w] = "dead"
        /\ Waiting' \subseteq Waiting
        /\ Waiting # {} => Cardinality(Ready') = Cardinality(Ready) + 1
        BY <2>1, SignalEffect
  <2>3. TypeOK'
        BY <1>1, <2>1, <2>2 DEF TypeOK, Slots, Wrap
  <2>4. RingOK'
    <3>1. /\ QueueSize \in Nat \ {0}
          /\ head \in 0 .. QueueSize - 1 /\ count \in 0 .. QueueSize - 1
          /\ tail = IF head + count < QueueSize THEN head + count
                                                ELSE head + count - QueueSize
          BY <2>1 DEF RingOK, TypeOK, Slots
    <3>2. tail' = IF head' + count' < QueueSize THEN head' + count'
                                               ELSE head' + count' - QueueSize
          BY <1>1, <2>1, <3>1 DEF Wrap
    <3>3. ASSUME NEW k \in 0 .. QueueSize - 1, k < count'
          PROVE  queue'[Slot(k)] \in Tasks
      <4>1. Slot(k) \in Slots
            BY <3>1 DEF Slot, Slots
      <4>2. CASE k < count
        <5>1. Slot(k) # tail
              BY <3>1, <4>2 DEF Slot
        <5>2. queue[Slot(k)] \in Tasks
              BY <4>2 DEF RingOK
        <5> QED
            BY <2>1, <4>1, <5>1, <5>2 DEF TypeOK
      <4>3. CASE k = count
            BY <2>1, <3>1, <4>1, <4>3 DEF Slot, TypeOK
      <4> QED
          BY <2>1, <3>1, <3>3, <4>2, <4>3
    <3>4. \A k \in 0 .. QueueSize - 1 : Slot(k)' = Slot(k)
          BY <1>1 DEF Slot
    <3> QED
        BY <3>2, <3>3, <3>4 DEF RingOK
  <2>5. Lifecycle' /\ started' = Cardinality(Alive')
        BY <1>1, <2>2 DEF Lifecycle
  <2>6. Winding'
        BY <1>1, <2>1, <2>2 DEF Winding
  <2>7. NoLostWakeup'
    <3>1. Cardinality(Ready) \in Nat
          BY WorkerSets DEF Ready
    <3> QED
        BY <2>1, <2>2, <3>1 DEF NoLostWakeup, TypeOK
  <2> QED
      BY <2>3, <2>4, <2>5, <2>6, <2>7
<1> QED
    BY <1>2, <1>3

(* threadpool_destroy, the first call and the later ones.                  *)
LEMMA DestroyStepHolds ==
  ASSUME Inductive, NEW c \in Callers, NEW flag \in {"immediate", "graceful"},
         Destroy(c, flag)
  PROVE  Inductive'
<1>1. CASE BeginShutdown(c, flag)
      BY <1>1, BeginShutdownStep DEF Destroy, Calls
<1>2. CASE ~BeginShutdown(c, flag)
  <2>1. /\ lock' = c
        /\ UNCHANGED <<queue, head, tail, count, shutdown, started, pool, pcw,
                       task, pcc, submitted, done>>
        BY <1>2 DEF Destroy, ring, history
  <2>2. TypeOK' /\ RingOK' /\ Winding'
        BY <2>1, Stay DEF Inductive, TypeOK, RingOK, Slot, Winding
  <2>3. Lifecycle' /\ NoLostWakeup' /\ started' = Cardinality(Alive')
        BY <2>1, Stay DEF Inductive, Lifecycle, NoLostWakeup
  <2> QED
      BY <2>2, <2>3 DEF Inductive
<1> QED
    BY <1>1, <1>2

(* CreateThreadFails begins an immediate shutdown.                         *)
LEMMA CreateThreadFailsStep ==
  ASSUME Inductive, NEW c \in Callers, CreateThreadFails(c)
  PROVE  Inductive'
BY BeginShutdownStep DEF CreateThreadFails
-----------------------------------------------------------------------------
(* The steps of a worker: it sleeps, wakes up for no reason or finishes a  *)
(* task.                                                                   *)
LEMMA PlaceStep ==
  ASSUME Inductive, NEW w \in Workers,
         Sleep(w) \/ SpuriousWakeup(w) \/ Finish(w)
  PROVE  Inductive'
<1> USE DEF Inductive
<1>1. UNCHANGED <<lock, queue, head, tail, count, shutdown, started, pool, pcc,
                  submitted>>
      BY DEF Sleep, SpuriousWakeup, Finish, ring, history
<1>2. PICK p \in {"ready", "wait"} : pcw' = [pcw EXCEPT ![w] = p]
      BY DEF Sleep, SpuriousWakeup, Finish
<1>3. /\ Created' = Created \cup {w} /\ Alive' = Alive \cup {w}
      /\ Waiting' = IF p = "wait" THEN Waiting \cup {w} ELSE Waiting \ {w}
      /\ Ready' = IF p = "ready" THEN Ready \cup {w} ELSE Ready \ {w}
  <2>1. p \in WorkerPlaces /\ p \notin {"unborn", "dead"}
        BY DEF WorkerPlaces
  <2> QED
      BY <1>2, <2>1, Move
<1>4. w \in Created /\ w \in Alive
      BY DEF Created, Alive, Sleep, SpuriousWakeup, Finish
<1>5. Created' = Created /\ Alive' = Alive
      BY <1>3, <1>4
<1>6. TypeOK'
  <2>1. pcw' \in [Workers -> WorkerPlaces]
        BY <1>2 DEF TypeOK, WorkerPlaces
  <2>2. /\ task' \in [Workers -> Tasks \cup {NoTask}]
        /\ \A v \in Workers : pcw'[v] = "run" <=> task'[v] # NoTask
        BY <1>2 DEF TypeOK, Sleep, SpuriousWakeup, Finish
  <2>3. done' \subseteq Tasks
        BY DEF TypeOK, Sleep, SpuriousWakeup, Finish, history
  <2> QED
      BY <1>1, <2>1, <2>2, <2>3 DEF TypeOK
<1>7. RingOK' /\ Lifecycle' /\ started' = Cardinality(Alive')
      BY <1>1, <1>5 DEF RingOK, Slot, Lifecycle
<1>8. Winding'
  <2>1. shutdown' # "none" => Waiting' \subseteq Waiting
    <3>1. CASE Sleep(w)
          BY <1>1, <3>1 DEF Sleep, NothingToDo
    <3>2. CASE SpuriousWakeup(w) \/ Finish(w)
          BY <3>2, Move DEF SpuriousWakeup, Finish, WorkerPlaces
    <3> QED
        BY <3>1, <3>2
  <2>2. \A v \in Workers : pcw'[v] = "dead" => pcw[v] = "dead"
        BY <1>2 DEF TypeOK
  <2> QED
      BY <1>1, <2>1, <2>2 DEF Winding
<1>9. NoLostWakeup'
  <2>1. CASE Sleep(w)
    <3>1. count' = 0 /\ Ready' \in SUBSET Workers
          BY <1>1, <2>1 DEF Sleep, NothingToDo, Ready
    <3>2. Cardinality(Ready') \in Nat
          BY <3>1, WorkerSets
    <3> QED
        BY <3>1, <3>2 DEF NoLostWakeup
  <2>2. CASE SpuriousWakeup(w) \/ Finish(w)
    <3>1. w \notin Ready /\ pcw' = [pcw EXCEPT ![w] = "ready"]
          BY <2>2 DEF Ready, SpuriousWakeup, Finish
    <3>2. Ready' = Ready \cup {w} /\ Waiting' = Waiting \ {w}
          BY <3>1, Move DEF WorkerPlaces
    <3>3. /\ Cardinality(Ready') = Cardinality(Ready) + 1
          /\ Cardinality(Ready) \in Nat
          BY <3>1, <3>2, OneMore, WorkerSets DEF Ready
    <3> QED
        BY <1>1, <3>2, <3>3 DEF NoLostWakeup, TypeOK
  <2> QED
      BY <2>1, <2>2
<1> QED
    BY <1>6, <1>7, <1>8, <1>9

(* A worker takes the oldest task.                                         *)
LEMMA GrabStep ==
  ASSUME Inductive, NEW w \in Workers, Grab(w)
  PROVE  Inductive'
<1> USE DEF Inductive
<1>1. /\ pcw[w] = "ready" /\ shutdown # "immediate"
      /\ task' = [task EXCEPT ![w] = queue[head]]
      /\ head' = Wrap(head) /\ count' = count - 1
      /\ pcw' = [pcw EXCEPT ![w] = "run"]
      /\ UNCHANGED <<lock, queue, tail, shutdown, started, pool, pcc,
                     submitted, done>>
      BY DEF Grab, MustExit, history
<1>2. count \in 1 .. QueueSize
      BY TaskToGrab DEF Grab
<1>3. head \in Slots /\ queue[head] \in Tasks
      BY <1>2 DEF RingOK, Slot, TypeOK, Slots
<1>4. /\ Created' = Created \cup {w} /\ Alive' = Alive \cup {w}
      /\ Waiting' = Waiting \ {w} /\ Ready' = Ready \ {w}
      BY <1>1, Move DEF WorkerPlaces
<1>5. Created' = Created /\ Alive' = Alive /\ Waiting' = Waiting /\ w \in Ready
      BY <1>1, <1>4 DEF Created, Alive, Waiting, Ready
<1>6. TypeOK'
      BY <1>1, <1>2, <1>3 DEF TypeOK, Wrap, Slots, WorkerPlaces
<1>7. RingOK'
  <2>1. /\ QueueSize \in Nat \ {0} /\ head \in 0 .. QueueSize - 1
        /\ tail = IF head + count < QueueSize THEN head + count
                                              ELSE head + count - QueueSize
        BY DEF RingOK, TypeOK, Slots
  <2>2. tail' = IF head' + count' < QueueSize THEN head' + count'
                                             ELSE head' + count' - QueueSize
        BY <1>1, <1>2, <2>1 DEF Wrap
  <2>3. ASSUME NEW k \in 0 .. QueueSize - 1, k < count'
        PROVE  queue'[Slot(k)'] \in Tasks
    <3>1. k + 1 \in 0 .. QueueSize - 1 /\ k + 1 < count
          BY <1>1, <1>2, <2>3
    <3>2. Slot(k)' = Slot(k + 1)
          BY <1>1, <2>1, <3>1 DEF Slot, Wrap
    <3> QED
        BY <1>1, <3>1, <3>2 DEF RingOK
  <2> QED
      BY <2>2, <2>3 DEF RingOK
<1>8. Lifecycle' /\ started' = Cardinality(Alive')
      BY <1>1, <1>5 DEF Lifecycle
<1>9. Winding'
      BY <1>1, <1>2, <1>5 DEF Winding, TypeOK
<1>10. NoLostWakeup'
  <2>1. /\ Cardinality(Ready') = Cardinality(Ready) - 1
        /\ Cardinality(Ready) \in Nat
        BY <1>4, <1>5, OneLess, WorkerSets DEF Ready
  <2> QED
      BY <1>1, <1>2, <1>5, <2>1 DEF NoLostWakeup
<1> QED
    BY <1>6, <1>7, <1>8, <1>9, <1>10

(* A worker leaves the loop.                                               *)
LEMMA ExitStep ==
  ASSUME Inductive, NEW w \in Workers, Exit(w)
  PROVE  Inductive'
<1> USE DEF Inductive
<1>1. /\ pcw[w] = "ready" /\ MustExit /\ started' = started - 1
      /\ pcw' = [pcw EXCEPT ![w] = "dead"]
      /\ UNCHANGED <<lock, queue, head, tail, count, shutdown, pool, task, pcc,
                     submitted, done>>
      BY DEF Exit, ring, history
<1>2. /\ Created' = Created \cup {w} /\ Alive' = Alive \ {w}
      /\ Waiting' = Waiting \ {w}
      BY <1>1, Move DEF WorkerPlaces
<1>3. w \in Alive /\ Created' = Created /\ shutdown # "none"
      BY <1>1, <1>2 DEF Alive, Created, MustExit
<1>4. TypeOK'
      BY <1>1 DEF TypeOK, WorkerPlaces
<1>5. RingOK'
      BY <1>1 DEF RingOK, Slot
<1>6. Lifecycle'
      BY <1>1, <1>2, <1>3 DEF Lifecycle
<1>7. Winding'
      BY <1>1, <1>2, <1>3 DEF Winding, MustExit, TypeOK
<1>8. NoLostWakeup'
      BY <1>2, <1>3 DEF NoLostWakeup, Winding
<1>9. started' = Cardinality(Alive')
      BY <1>1, <1>2, <1>3, OneLess DEF Alive, Created
<1> QED
    BY <1>4, <1>5, <1>6, <1>7, <1>8, <1>9

(* Every step of the pool preserves the invariant.                         *)
LEMMA InductiveNext == Inductive /\ [Next]_vars => Inductive'
<1> SUFFICES ASSUME Inductive, [Next]_vars PROVE Inductive'
    OBVIOUS
<1>1. ASSUME NEW c \in Callers, CreateStep(c) PROVE Inductive'
      BY <1>1, CreateThreadStep, CallerStep, CreateThreadFailsStep DEF CreateStep
<1>2. ASSUME NEW c \in Callers, NEW t \in Tasks, Add(c, t) PROVE Inductive'
      BY <1>2, AddStep
<1>3. ASSUME NEW c \in Callers, NEW flag \in {"immediate", "graceful"},
             Destroy(c, flag)
      PROVE  Inductive'
      BY <1>3, DestroyStepHolds
<1>4. ASSUME NEW c \in Callers, DestroyStep(c) PROVE Inductive'
      BY <1>4, CallerStep DEF DestroyStep
<1>5. ASSUME NEW w \in Workers, WorkerStep(w) \/ SpuriousWakeup(w)
      PROVE  Inductive'
      BY <1>5, PlaceStep, GrabStep, ExitStep DEF WorkerStep
<1>6. CASE UNCHANGED vars
  <2>1. TypeOK' /\ RingOK' /\ Winding'
        BY <1>6, Stay DEF vars, ring, history, Inductive, TypeOK, RingOK, Slot,
                          Winding
  <2>2. Lifecycle' /\ NoLostWakeup' /\ started' = Cardinality(Alive')
        BY <1>6, Stay DEF vars, ring, history, Inductive, Lifecycle, NoLostWakeup
  <2> QED
      BY <2>1, <2>2 DEF Inductive
<1> QED
    BY <1>1, <1>2, <1>3, <1>4, <1>5, <1>6 DEF Next

-----------------------------------------------------------------------------
(* The pool keeps its inductive invariant.                                 *)
THEOREM Correct == Spec => []Inductive
BY InductiveInit, InductiveNext, PTL DEF Spec

(* Every queued and running task is a task somebody added, and the indices *)
(* stay inside the array.                                                  *)
THEOREM TypeCorrect == Spec => []TypeOK
<1>1. Inductive => TypeOK
      BY DEF Inductive
<1> QED
    BY <1>1, Correct, PTL

(* No accepted task is left to workers that all sleep.                     *)
THEOREM WakeupsAreNotLost == Spec => []NoLostWakeup
<1>1. Inductive => NoLostWakeup
      BY DEF Inductive
<1> QED
    BY <1>1, Correct, PTL

(* The pool is freed only when its workers are gone, and then it is.       *)
THEOREM FreeingIsSafe == Spec => []FreeIsSafe
<1>1. Inductive => FreeIsSafe
      BY DEF Inductive, Lifecycle, FreeIsSafe
<1> QED
    BY <1>1, Correct, PTL

(* A graceful shutdown frees the pool after the last accepted task.        *)
THEOREM GracefulIsGraceful == Spec => []GracefulLosesNothing
<1>1. Inductive => GracefulLosesNothing
  <2> SUFFICES ASSUME Inductive, shutdown = "graceful",
                      pool \in {"gutted", "freed"}
               PROVE  count = 0 /\ \A w \in Workers : task[w] = NoTask
      BY DEF GracefulLosesNothing
  <2>1. Alive = {} /\ Created = Workers
        BY DEF Inductive, Lifecycle
  <2>2. \A w \in Workers : pcw[w] = "dead"
        BY <2>1 DEF Alive
  <2>3. \A w \in Workers : task[w] = NoTask
        BY <2>2 DEF Inductive, TypeOK
  <2>4. count = 0
        BY <2>2 DEF Inductive, Winding
  <2> QED
      BY <2>3, <2>4
<1> QED
    BY <1>1, Correct, PTL
-----------------------------------------------------------------------------
(* The occupied part of the ring as a sequence.                            *)
LEMMA PendingIsSeq ==
  ASSUME TypeOK, RingOK
  PROVE  /\ Pending \in Seq(Tasks) /\ Len(Pending) = count
         /\ \A k \in 1 .. count : Pending[k] = queue[Slot(k - 1)]
<1>1. count \in Nat /\ count <= QueueSize
      BY DEF TypeOK
<1>2. \A k \in 1 .. count : queue[Slot(k - 1)] \in Tasks
      BY <1>1 DEF RingOK
<1> QED
    BY <1>1, <1>2 DEF Pending

(* A function on 1 .. n is a sequence of length n.                         *)
LEMMA FunctionIsSeq ==
  ASSUME NEW S, NEW n \in Nat, NEW f \in [1 .. n -> S]
  PROVE  f \in Seq(S) /\ Len(f) = n
OBVIOUS

(* Storing a task at tail appends it.                                      *)
LEMMA StoreAppends ==
  ASSUME TypeOK, RingOK, RingOK', NEW t \in Tasks, count < QueueSize,
         queue' = [queue EXCEPT ![tail] = t], count' = count + 1, head' = head
  PROVE  Pending' = Append(Pending, t)
<1>1. /\ QueueSize \in Nat \ {0}
      /\ head \in 0 .. QueueSize - 1 /\ count \in 0 .. QueueSize - 1
      /\ tail = IF head + count < QueueSize THEN head + count
                                            ELSE head + count - QueueSize
      BY DEF RingOK, TypeOK, Slots
<1>2. Pending \in Seq(Tasks) /\ Len(Pending) = count
      BY PendingIsSeq
<1>3. Pending' = [k \in 1 .. count + 1 |-> queue'[Slot(k - 1)']]
      BY <1>1 DEF Pending, Slot
<1>4. ASSUME NEW k \in 1 .. count + 1
      PROVE  queue'[Slot(k - 1)'] = Append(Pending, t)[k]
  <2>1. Slot(k - 1)' = Slot(k - 1) /\ Slot(k - 1) \in Slots
        BY <1>1 DEF Slot, Slots
  <2>2. CASE k = count + 1
        BY <1>1, <1>2, <2>1, <2>2 DEF Slot, TypeOK
  <2>3. CASE k # count + 1
    <3>1. Slot(k - 1) # tail
          BY <1>1, <2>3 DEF Slot
    <3>2. Append(Pending, t)[k] = queue[Slot(k - 1)]
          BY <1>1, <1>2, <2>3, PendingIsSeq
    <3> QED
        BY <2>1, <3>1, <3>2 DEF TypeOK
  <2> QED
      BY <2>2, <2>3
<1>5. Append(Pending, t) \in Seq(Tasks) /\ Len(Append(Pending, t)) = count + 1
      BY <1>2, AppendProperties
<1>6. \A k \in 1 .. count + 1 : Pending'[k] = Append(Pending, t)[k]
      BY <1>3, <1>4
<1>7. \A k \in 1 .. count + 1 : Append(Pending, t)[k] \in Tasks
      BY <1>5, ElementOfSeq
<1>8. Pending' \in Seq(Tasks) /\ Len(Pending') = count + 1
  <2>1. /\ DOMAIN Pending' = 1 .. count + 1
        /\ Pending' = [k \in DOMAIN Pending' |-> Pending'[k]]
        BY <1>3
  <2>2. Pending' \in [1 .. count + 1 -> Tasks]
        BY <2>1, <1>6, <1>7
  <2> QED
      BY <1>1, <2>2, FunctionIsSeq
<1> QED
    BY <1>5, <1>6, <1>8, SeqEqual

(* Advancing head drops the oldest task.                                   *)
LEMMA TakeDropsHead ==
  ASSUME TypeOK, RingOK, count > 0, UNCHANGED queue,
         head' = Wrap(head), count' = count - 1
  PROVE  /\ Pending # << >> /\ Head(Pending) = queue[head]
         /\ Pending' = Tail(Pending)
<1>1. /\ QueueSize \in Nat \ {0}
      /\ head \in 0 .. QueueSize - 1 /\ count \in 1 .. QueueSize
      BY DEF TypeOK, Slots
<1>2. Pending \in Seq(Tasks) /\ Len(Pending) = count
      BY PendingIsSeq
<1>3. Pending # << >> /\ Head(Pending) = queue[head]
      BY <1>1, <1>2, PendingIsSeq DEF Slot
<1>4. Pending' = [k \in 1 .. count - 1 |-> queue[Slot(k - 1)']]
      BY DEF Pending, Slot
<1>5. ASSUME NEW k \in 1 .. count - 1
      PROVE  queue[Slot(k - 1)'] = Tail(Pending)[k]
  <2>1. Slot(k - 1)' = Slot(k)
        BY <1>1 DEF Slot, Wrap
  <2>2. Tail(Pending)[k] = Pending[k + 1]
        BY <1>1, <1>2
  <2> QED
      BY <1>1, <2>1, <2>2, PendingIsSeq
<1>6. Tail(Pending) \in Seq(Tasks) /\ Len(Tail(Pending)) = count - 1
      BY <1>2, <1>3, HeadTailProperties
<1>7. \A k \in 1 .. count - 1 : Tail(Pending)[k] \in Tasks
      BY <1>6, ElementOfSeq
<1>8. \A k \in 1 .. count - 1 : Pending'[k] = Tail(Pending)[k]
      BY <1>4, <1>5
<1>9. Pending' \in Seq(Tasks) /\ Len(Pending') = count - 1
  <2>1. /\ DOMAIN Pending' = 1 .. count - 1
        /\ Pending' = [k \in DOMAIN Pending' |-> Pending'[k]]
        BY <1>4
  <2>2. Pending' \in [1 .. count - 1 -> Tasks]
        BY <2>1, <1>7, <1>8
  <2> QED
      BY <1>1, <2>2, FunctionIsSeq
<1> QED
    BY <1>3, <1>6, <1>8, <1>9, SeqEqual

(* The pool starts as TaskPool does.                                       *)
LEMMA RefinesInit == Init => Abstract!PoolInit
BY DEF Init, Abstract!PoolInit, Pending, Mode

(* A step that leaves the ring, the workers' tasks and the shutdown alone  *)
(* is a stuttering step of TaskPool.                                       *)
LEMMA Stutters ==
  ASSUME UNCHANGED <<queue, head, count, task, done, submitted, shutdown>>
  PROVE  UNCHANGED Abstract!poolVars
BY DEF Abstract!poolVars, Pending, Slot, Mode

(* Every step of the pool is a step of TaskPool or a stuttering step.      *)
LEMMA RefinesNext ==
  Inductive /\ [Next]_vars => [Abstract!PoolNext]_Abstract!poolVars
<1> SUFFICES ASSUME Inductive, Inductive', [Next]_vars
             PROVE  [Abstract!PoolNext]_Abstract!poolVars
    BY InductiveNext
<1> USE DEF Inductive
<1>1. ASSUME NEW c \in Callers, NEW flag \in {"immediate", "graceful"},
             BeginShutdown(c, flag)
      PROVE  Abstract!PoolNext
  <2>1. /\ Mode = "open" /\ Mode' \in {"draining", "dropping"}
        /\ UNCHANGED <<Pending, task, done, submitted>>
        BY <1>1 DEF BeginShutdown, Mode, ring, history, Pending, Slot
  <2>2. Abstract!Close(Mode')
        BY <2>1 DEF Abstract!Close
  <2> QED
      BY <2>1, <2>2 DEF Abstract!PoolNext, Abstract!Modes
<1>2. ASSUME NEW c \in Callers, CreateStep(c)
      PROVE  [Abstract!PoolNext]_Abstract!poolVars
  <2>1. CASE CreateThreadFails(c)
        BY <1>1, <2>1 DEF CreateThreadFails
  <2>2. CASE ~CreateThreadFails(c)
        BY <1>2, <2>2, Stutters
           DEF CreateStep, CreateThread, CreateReturn, CreateAllocFails, ring,
               history
  <2> QED
      BY <2>1, <2>2
<1>3. ASSUME NEW c \in Callers, NEW t \in Tasks, Add(c, t)
      PROVE  Abstract!PoolNext
  <2>1. CASE Refused
    <3>1. /\ t \notin submitted /\ submitted' = submitted \cup {t}
          /\ UNCHANGED <<Pending, task, done, Mode>>
          BY <1>3, <2>1 DEF Add, Pending, Slot, Mode
    <3>2. Mode # "open" \/ Len(Pending) = QueueSize
          BY <2>1, PendingIsSeq DEF Refused, Full, Mode, TypeOK, Shutdowns
    <3> QED
        BY <3>1, <3>2 DEF Abstract!PoolNext, Abstract!Refuse
  <2>2. CASE ~Refused
    <3>1. /\ t \notin submitted /\ submitted' = submitted \cup {t}
          /\ UNCHANGED <<head, task, done, Mode>>
          /\ count < QueueSize /\ count' = count + 1
          /\ queue' = [queue EXCEPT ![tail] = t]
          /\ Mode = "open"
          BY <1>3, <2>2 DEF Add, Refused, Full, Mode, TypeOK
    <3>2. Pending' = Append(Pending, t) /\ Len(Pending) < QueueSize
          BY <3>1, StoreAppends, PendingIsSeq
    <3> QED
        BY <3>1, <3>2 DEF Abstract!PoolNext, Abstract!Submit
  <2> QED
      BY <2>1, <2>2
<1>4. ASSUME NEW c \in Callers, NEW flag \in {"immediate", "graceful"},
             Destroy(c, flag)
      PROVE  [Abstract!PoolNext]_Abstract!poolVars
  <2>1. CASE BeginShutdown(c, flag)
        BY <1>1, <2>1
  <2>2. CASE ~BeginShutdown(c, flag)
        BY <1>4, <2>2, Stutters DEF Destroy, ring, history
  <2> QED
      BY <2>1, <2>2
<1>5. ASSUME NEW c \in Callers, DestroyStep(c)
      PROVE  UNCHANGED Abstract!poolVars
      BY <1>5, Stutters DEF DestroyStep, Join, FreeArrays, FreePool, ring, history
<1>6. ASSUME NEW w \in Workers, Grab(w) PROVE Abstract!PoolNext
  <2>1. count > 0
        BY <1>6, TaskToGrab DEF Grab
  <2>2. /\ Pending # << >> /\ Head(Pending) = queue[head]
        /\ Pending' = Tail(Pending)
        BY <1>6, <2>1, TakeDropsHead DEF Grab
  <2>3. task[w] = NoTask /\ Mode # "dropping" /\ Mode' = Mode
        BY <1>6 DEF Grab, MustExit, Mode, TypeOK, Shutdowns
  <2>4. Abstract!Start(w)
        BY <1>6, <2>2, <2>3 DEF Abstract!Start, Grab, history
  <2> QED
      BY <2>4 DEF Abstract!PoolNext
<1>7. ASSUME NEW w \in Workers, Finish(w) PROVE Abstract!PoolNext
  <2>1. task[w] # NoTask /\ UNCHANGED <<Pending, Mode>>
        BY <1>7 DEF Finish, TypeOK, ring, Pending, Slot, Mode
  <2>2. Abstract!Finish(w)
        BY <1>7, <2>1 DEF Abstract!Finish, Finish
  <2> QED
      BY <2>2 DEF Abstract!PoolNext
<1>8. ASSUME NEW w \in Workers, Sleep(w) \/ Exit(w) \/ SpuriousWakeup(w)
      PROVE  UNCHANGED Abstract!poolVars
      BY <1>8, Stutters DEF Sleep, Exit, SpuriousWakeup, ring, history
<1>9. CASE UNCHANGED vars
      BY <1>9, Stutters DEF vars, ring, history
<1> QED
    BY <1>2, <1>3, <1>4, <1>5, <1>6, <1>7, <1>8, <1>9 DEF Next, WorkerStep

(* The safety of the pool: it implements TaskPool, so that tasks start in  *)
(* the order of their acceptance, each of them once.                       *)
THEOREM Implements == Spec => ImplementsTaskPool
BY RefinesInit, RefinesNext, Correct, PTL
   DEF Spec, ImplementsTaskPool, Abstract!PoolSafeSpec
=============================================================================
