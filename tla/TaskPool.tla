------------------------------ MODULE TaskPool ------------------------------
(***************************************************************************)
(* What a pool of threads promises its callers, with no mutex, condition   *)
(* variable or ring buffer: accepted tasks wait in one FIFO line of        *)
(* bounded length, each is started once, by one worker, in the order of    *)
(* acceptance, and closing the pool either drains the line or drops it.    *)
(* ThreadPool.tla (threads/src/threadpool.c) is shown to implement this    *)
(* module; AsyncJobs.tla uses it in place of the detailed pool.            *)
(***************************************************************************)
EXTENDS Naturals, Sequences

CONSTANTS
  Workers,   (* the threads of the pool                                    *)
  Tasks,     (* the tasks callers may submit, each of them at most once    *)
  Capacity,  (* the longest line of waiting tasks the pool accepts         *)
  NoTask     (* what a worker with nothing to do is executing              *)

ASSUME PoolAssumption ==
  /\ Capacity \in Nat \ {0}
  /\ NoTask \notin Tasks

VARIABLES
  pending,   (* accepted tasks no worker has taken, oldest first           *)
  running,   (* the task each worker is executing, or NoTask               *)
  done,      (* tasks whose function has returned                          *)
  submitted, (* tasks that callers have submitted, accepted or refused     *)
  mode       (* "open", "draining" or "dropping"                           *)

poolVars == <<pending, running, done, submitted, mode>>

Modes == {"open", "draining", "dropping"}

PoolTypeOK ==
  /\ pending \in Seq(Tasks)
  /\ running \in [Workers -> Tasks \cup {NoTask}]
  /\ done \subseteq Tasks
  /\ submitted \subseteq Tasks
  /\ mode \in Modes

PoolInit ==
  /\ pending = << >>
  /\ running = [w \in Workers |-> NoTask]
  /\ done = {}
  /\ submitted = {}
  /\ mode = "open"

(* A caller hands over a task.  It joins the line if the pool is open and  *)
(* the line is not full.                                                   *)
Submit(t) ==
  /\ t \notin submitted
  /\ submitted' = submitted \cup {t}
  /\ mode = "open"
  /\ Len(pending) < Capacity
  /\ pending' = Append(pending, t)
  /\ UNCHANGED <<running, done, mode>>

(* A caller is told that the line is full or the pool is closing.          *)
Refuse(t) ==
  /\ t \notin submitted
  /\ submitted' = submitted \cup {t}
  /\ mode # "open" \/ Len(pending) = Capacity
  /\ UNCHANGED <<pending, running, done, mode>>

(* An idle worker starts the oldest waiting task.                          *)
Start(w) ==
  /\ pending # << >>
  /\ running[w] = NoTask
  /\ mode # "dropping"
  /\ running' = [running EXCEPT ![w] = Head(pending)]
  /\ pending' = Tail(pending)
  /\ UNCHANGED <<done, submitted, mode>>

Finish(w) ==
  /\ running[w] # NoTask
  /\ done' = done \cup {running[w]}
  /\ running' = [running EXCEPT ![w] = NoTask]
  /\ UNCHANGED <<pending, submitted, mode>>

Close(m) ==
  /\ mode = "open"
  /\ m \in {"draining", "dropping"}
  /\ mode' = m
  /\ UNCHANGED <<pending, running, done, submitted>>

PoolNext ==
  \/ \E t \in Tasks : Submit(t) \/ Refuse(t)
  \/ \E w \in Workers : Start(w) \/ Finish(w)
  \/ \E m \in Modes : Close(m)

PoolSafeSpec == PoolInit /\ [][PoolNext]_poolVars
=============================================================================
