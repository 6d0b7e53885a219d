----------------------------- MODULE AsyncJobs ------------------------------
(***************************************************************************)
(* threads/src/threads.c: .threads.async hands a job to the thread pool;   *)
(* the worker sends the address of the finished job through the main loop  *)
(* pipe; the q main thread calls the callback, wakes the worker up through *)
(* the job's own pipe, so that the worker frees its result, and frees the  *)
(* job.  The pool is TaskPool, which ThreadPool.tla implements; nobody     *)
(* destroys it.                                                            *)
(*                                                                         *)
(* A job is a chunk of memory.  After its write to the main loop pipe the  *)
(* worker still reads job->free_pipe, which races with the main thread's   *)
(* free(job): free leaves the field as it is, and malloc may have given    *)
(* the chunk to another job.  A pipe is named by the job it was made for.  *)
(***************************************************************************)
EXTENDS TaskPool, FiniteSets, Functions

CONSTANTS
  Chunks,   (* the addresses malloc can return for an async_job            *)
  MaxPipes, (* how many pipes the process can open                         *)
  NoPipe,   (* what an unwritten free_pipe field holds                     *)
  NoChunk   (* the job variable of the main thread outside the callback    *)

ASSUME JobsAssumption ==
  /\ IsFiniteSet(Workers)
  /\ MaxPipes \in Nat
  /\ NoPipe \notin Tasks
  /\ NoChunk \notin Chunks

VARIABLES
  owner,     (* the job stored in each chunk, NoTask if the chunk is free  *)
  freePipe,  (* the field free_pipe of each chunk                          *)
  pipes,     (* the jobs whose call of pipe() succeeded                    *)
  bytes,     (* the number of bytes in each pipe                           *)
  at,        (* the job pointer of each worker's task                      *)
  wpc,       (* where each worker is in threads_thread_callback            *)
  reads,     (* the pipe a worker blocks on                                *)
  result,    (* the serialised result of each job                          *)
  mainPipe,  (* mainloop_pipe: addresses of jobs with a result             *)
  mpc,       (* where the main thread is in threads_q_callback             *)
  mjob,      (* its local variable job                                     *)
  answered   (* history: jobs whose callback was called                    *)

memory == <<owner, freePipe>>
worker == <<at, wpc, reads>>
main == <<mainPipe, mpc, mjob, answered>>
vars == <<poolVars, memory, pipes, bytes, worker, result, main>>

WorkerPlaces == {"idle", "eval", "written", "blocked"}
MainPlaces == {"idle", "read", "callback", "free"}

JobsTypeOK ==
  /\ PoolTypeOK
  /\ owner \in [Chunks -> Tasks \cup {NoTask}]
  /\ freePipe \in [Chunks -> Tasks \cup {NoPipe}]
  /\ pipes \subseteq Tasks
  /\ bytes \in [Tasks -> Nat]
  /\ at \in [Tasks -> Chunks \cup {NoChunk}]
  /\ wpc \in [Workers -> WorkerPlaces]
  /\ reads \in [Workers -> Tasks \cup {NoPipe}]
  /\ result \in [Tasks -> {"none", "live", "freed"}]
  /\ mainPipe \in Seq(Chunks)
  /\ mpc \in MainPlaces
  /\ mjob \in Chunks \cup {NoChunk}
  /\ answered \subseteq Tasks

(* threads_init.                                                           *)
Init ==
  /\ PoolInit
  /\ owner = [x \in Chunks |-> NoTask]
  /\ freePipe = [x \in Chunks |-> NoPipe]
  /\ pipes = {}
  /\ bytes = [j \in Tasks |-> 0]
  /\ at = [j \in Tasks |-> NoChunk]
  /\ wpc = [w \in Workers |-> "idle"]
  /\ reads = [w \in Workers |-> NoPipe]
  /\ result = [j \in Tasks |-> "none"]
  /\ mainPipe = << >>
  /\ mpc = "idle"
  /\ mjob = NoChunk
  /\ answered = {}

-----------------------------------------------------------------------------
(* threads_create_job: malloc, and a pipe if there is a descriptor left.   *)
(* The failure of pipe() is ignored: the field keeps what the chunk held.  *)
CreateJob(j, x) ==
  /\ owner[x] = NoTask
  /\ owner' = [owner EXCEPT ![x] = j]
  /\ at' = [at EXCEPT ![j] = x]
  /\ IF Cardinality(pipes) < MaxPipes
     THEN /\ pipes' = pipes \cup {j}
          /\ freePipe' = [freePipe EXCEPT ![x] = j]
     ELSE UNCHANGED <<pipes, freePipe>>

(* threads_async, called by q code on the main thread, inside a callback   *)
(* or not.  The result of threadpool_add is ignored: a refused job stays   *)
(* allocated and nobody knows of it.                                       *)
Async(j, x) ==
  /\ mpc \in {"idle", "callback"}
  /\ CreateJob(j, x)
  /\ Submit(j) \/ Refuse(j)
  /\ UNCHANGED <<bytes, wpc, reads, result, main>>

-----------------------------------------------------------------------------
TakeJob_AnnouncedEarly(w) ==
  /\ Start(w)
  /\ wpc' = [wpc EXCEPT ![w] = "eval"]
  /\ mainPipe' = Append(mainPipe, at[Head(pending)])
  /\ UNCHANGED <<memory, pipes, bytes, at, reads, result, mpc, mjob, answered>>
(* A worker takes a job and evaluates it in threads_thread_callback.       *)
TakeJob(w) ==
  /\ Start(w)
  /\ wpc' = [wpc EXCEPT ![w] = "eval"]
  /\ UNCHANGED <<memory, pipes, bytes, at, reads, result, main>>

(* The job is evaluated, its result serialised, its address written.       *)
Reply(w) ==
  /\ wpc[w] = "eval"
  /\ result' = [result EXCEPT ![running[w]] = "live"]
  /\ mainPipe' = Append(mainPipe, at[running[w]])
  /\ wpc' = [wpc EXCEPT ![w] = "written"]
  /\ UNCHANGED <<poolVars, memory, pipes, bytes, at, reads, mpc, mjob,
                 answered>>

(* The operand job->free_pipe[0] of the call of read(), whatever is there. *)
LoadPipe(w) ==
  /\ wpc[w] = "written"
  /\ reads' = [reads EXCEPT ![w] = freePipe[at[running[w]]]]
  /\ wpc' = [wpc EXCEPT ![w] = "blocked"]
  /\ UNCHANGED <<poolVars, memory, pipes, bytes, at, result, main>>

Release_WithoutWaiting(w) ==
  /\ wpc[w] = "blocked"
  /\ bytes' = [p \in Tasks |-> IF p = reads[w] THEN bytes[p] - 1 ELSE bytes[p]]
  /\ result' = [result EXCEPT ![running[w]] = "freed"]
  /\ Finish(w)
  /\ wpc' = [wpc EXCEPT ![w] = "idle"]
  /\ reads' = [reads EXCEPT ![w] = NoPipe]
  /\ UNCHANGED <<memory, pipes, at, main>>
(* read() returns, with a byte or, for a descriptor that is none, with an  *)
(* error that is ignored.  The result is released.  (An unwritten field    *)
(* can also name an open descriptor by chance; that case is left out.)     *)
Release(w) ==
  /\ wpc[w] = "blocked"
  /\ \/ /\ reads[w] # NoPipe
        /\ bytes[reads[w]] > 0
        /\ bytes' = [bytes EXCEPT ![reads[w]] = @ - 1]
     \/ /\ reads[w] = NoPipe
        /\ UNCHANGED bytes
  /\ result' = [result EXCEPT ![running[w]] = "freed"]
  /\ Finish(w)
  /\ wpc' = [wpc EXCEPT ![w] = "idle"]
  /\ reads' = [reads EXCEPT ![w] = NoPipe]
  /\ UNCHANGED <<memory, pipes, at, main>>

-----------------------------------------------------------------------------
(* threads_q_callback, which the event loop of q calls when the main loop  *)
(* pipe is readable: it reads the address of a job,                        *)
Receive ==
  /\ mpc = "idle"
  /\ mainPipe # << >>
  /\ mjob' = Head(mainPipe)
  /\ mainPipe' = Tail(mainPipe)
  /\ mpc' = "read"
  /\ UNCHANGED <<poolVars, memory, pipes, bytes, worker, result, answered>>

(* deserialises the result and calls the callback,                         *)
Callback ==
  /\ mpc = "read"
  /\ answered' = answered \cup {owner[mjob]}
  /\ mpc' = "callback"
  /\ UNCHANGED <<poolVars, memory, pipes, bytes, worker, result, mainPipe,
                 mjob>>

WakeWorker_Forgotten ==
  /\ mpc = "callback"
  /\ mpc' = "free"
  /\ UNCHANGED <<poolVars, memory, pipes, bytes, worker, result, mainPipe,
                 mjob, answered>>
(* wakes the worker up                                                     *)
WakeWorker ==
  /\ mpc = "callback"
  /\ IF freePipe[mjob] = NoPipe
     THEN UNCHANGED bytes
     ELSE bytes' = [bytes EXCEPT ![freePipe[mjob]] = @ + 1]
  /\ mpc' = "free"
  /\ UNCHANGED <<poolVars, memory, pipes, worker, result, mainPipe, mjob,
                 answered>>

(* and frees the job (threads_free_job).                                   *)
FreeJob ==
  /\ mpc = "free"
  /\ owner' = [owner EXCEPT ![mjob] = NoTask]
  /\ mjob' = NoChunk
  /\ mpc' = "idle"
  /\ UNCHANGED <<poolVars, freePipe, pipes, bytes, worker, result, mainPipe,
                 answered>>

-----------------------------------------------------------------------------
WorkerStep(w) == TakeJob(w) \/ Reply(w) \/ LoadPipe(w) \/ Release(w)

MainStep == Receive \/ Callback \/ WakeWorker \/ FreeJob

Next ==
  \/ \E j \in Tasks, x \in Chunks : Async(j, x)
  \/ \E w \in Workers : WorkerStep(w)
  \/ MainStep

Spec == Init /\ [][Next]_vars

(* Threads are scheduled, jobs and callbacks end, the event loop of q      *)
(* serves the pipe.  A byte in a pipe two workers read can go to the same  *)
(* one each time: weak fairness of each worker does not choose.            *)
Fairness ==
  /\ WF_vars(MainStep)
  /\ \A w \in Workers : WF_vars(WorkerStep(w))

FairSpec == Spec /\ Fairness
-----------------------------------------------------------------------------
(* A job is not freed while it waits in the pool or is evaluated: the      *)
(* worker that takes it finds it in its chunk.                             *)
JobOutlivesEvaluation ==
  /\ \A k \in DOMAIN pending : owner[at[pending[k]]] = pending[k]
  /\ \A w \in Workers : wpc[w] = "eval" => owner[at[running[w]]] = running[w]

(* "returns data to the callback" (threads/README.md): when the main       *)
(* thread deserialises a result the worker has not released it yet, at     *)
(* least if there was a pipe for the job.                                  *)
CallbackGetsResult ==
  mpc = "read" =>
    /\ owner[mjob] \in Tasks
    /\ result[owner[mjob]] = "live" \/ owner[mjob] \notin pipes

(* The memory that threads.c shares between its threads: what a worker     *)
(* evaluates and what the callback deserialises is there when it is used.  *)
JobMemorySafe == JobsTypeOK /\ JobOutlivesEvaluation /\ CallbackGetsResult

(* Beside those of jobs that got no pipe, the main loop pipe holds at most *)
(* one address for each worker that waits for its answer: a worker never   *)
(* blocks writing to it however many jobs are submitted.                   *)
WritersNeverBlock ==
  LET waiting == {w \in Workers : wpc[w] \in {"written", "blocked"}}
  IN  Len(mainPipe) <= Cardinality(waiting) + Cardinality(submitted \ pipes)

(* A worker reads another pipe than that of its own job: it loaded         *)
(* job->free_pipe after the chunk had been freed and given to another job, *)
(* or the job never had a pipe.                                            *)
Astray ==
  \E w \in Workers : wpc[w] = "blocked" /\ reads[w] # running[w]

(* A job the pool accepts has its callback called, unless a worker lost    *)
(* the race for its job's chunk.                                           *)
AcceptedIsAnswered ==
  \A j \in Tasks : (\E k \in DOMAIN pending : pending[k] = j)
                     ~> (j \in answered \/ Astray)

(* "runs the job and returns data to the callback" (threads/README.md).    *)
EveryJobIsAnswered ==
  \A j \in Tasks : j \in submitted ~> j \in answered
=============================================================================
