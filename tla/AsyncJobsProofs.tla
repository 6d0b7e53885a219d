-------------------------- MODULE AsyncJobsProofs ---------------------------
(***************************************************************************)
(* Proofs about AsyncJobs.tla, for any number of workers, jobs and pipes:  *)
(* the memory of a job outlives its uses up to the callback, and the main  *)
(* loop pipe stays short.                                                  *)
(***************************************************************************)
EXTENDS AsyncJobs, SequenceTheorems, FiniteSetTheorems, TLAPS

(* What an append adds.                                                    *)
LEMMA RangeOfAppend ==
  ASSUME NEW S, NEW s \in Seq(S), NEW e \in S
  PROVE  Range(Append(s, e)) = Range(s) \cup {e}
BY AppendProperties, LenProperties DEF Range

(* A sequence still holds everything once when something new is appended.  *)
LEMMA InjectiveAppend ==
  ASSUME NEW S, NEW s \in Seq(S), NEW e \in S,
         IsInjective(s), e \notin Range(s)
  PROVE  IsInjective(Append(s, e))
BY AppendProperties, LenProperties DEF Range, IsInjective

(* What a read removes.                                                    *)
LEMMA RangeOfTail ==
  ASSUME NEW S, NEW s \in Seq(S), s # << >>
  PROVE  /\ Head(s) \in Range(s)
         /\ Range(s) = Range(Tail(s)) \cup {Head(s)}
<1>1. Len(s) \in Nat \ {0} /\ DOMAIN s = 1 .. Len(s)
      BY LenProperties, EmptySeq
<1>2. /\ Len(Tail(s)) = Len(s) - 1 /\ DOMAIN Tail(s) = 1 .. Len(s) - 1
      /\ \A i \in 1 .. Len(s) - 1 : Tail(s)[i] = s[i + 1]
      BY HeadTailProperties, LenProperties
<1>3. Head(s) = s[1]
      OBVIOUS
<1>4. ASSUME NEW i \in 1 .. Len(s), i # 1
      PROVE  s[i] \in Range(Tail(s))
  <2>1. i - 1 \in 1 .. Len(s) - 1 /\ s[(i - 1) + 1] = s[i]
        BY <1>1, <1>4
  <2> QED
      BY <1>2, <2>1 DEF Range
<1>5. \A i \in 1 .. Len(s) - 1 : Tail(s)[i] \in Range(s)
      BY <1>1, <1>2 DEF Range
<1>6. Range(s) \subseteq Range(Tail(s)) \cup {Head(s)}
      BY <1>1, <1>3, <1>4 DEF Range
<1>7. Range(Tail(s)) \subseteq Range(s)
      BY <1>2, <1>5 DEF Range
<1>8. Head(s) \in Range(s)
      BY <1>1, <1>3 DEF Range
<1> QED
    BY <1>6, <1>7, <1>8

(* A sequence that holds everything once gives its head away with a read.  *)
LEMMA InjectiveTail ==
  ASSUME NEW S, NEW s \in Seq(S), s # << >>, IsInjective(s)
  PROVE  /\ IsInjective(Tail(s))
         /\ Head(s) \notin Range(Tail(s))
         /\ Range(Tail(s)) = Range(s) \ {Head(s)}
BY RangeOfTail, HeadTailProperties, LenProperties, EmptySeq
   DEF Range, IsInjective

(* A sequence that holds everything once holds as much as it is long.      *)
LEMMA InjectiveLen ==
  ASSUME NEW S, NEW s \in Seq(S), IsInjective(s)
  PROVE  IsFiniteSet(Range(s)) /\ Cardinality(Range(s)) = Len(s)
<1>1. Len(s) \in Nat /\ DOMAIN s = 1 .. Len(s) /\ s \in [1 .. Len(s) -> S]
      BY LenProperties
<1>2. s \in Bijection(1 .. Len(s), Range(s))
      BY <1>1 DEF Bijection, Injection, Surjection, IsInjective, Range
<1>3. ExistsBijection(1 .. Len(s), Range(s))
      BY <1>2 DEF ExistsBijection
<1>4. IsFiniteSet(1 .. Len(s)) /\ Cardinality(1 .. Len(s)) = Len(s)
      BY <1>1, FS_Interval, SMTT(40)
<1> QED
    BY <1>3, <1>4, FS_Bijection
-----------------------------------------------------------------------------

USE PoolAssumption, JobsAssumption

(* The pool takes each job once and one worker has it.                     *)
TakenOnce ==
  /\ IsInjective(pending)
  /\ Range(pending) \subseteq submitted
  /\ IsFiniteSet(submitted) /\ pipes \subseteq submitted
  /\ \A w \in Workers : running[w] # NoTask =>
       /\ running[w] \in submitted
       /\ running[w] \notin Range(pending)
       /\ \A v \in Workers : running[v] = running[w] => v = w
  /\ \A w \in Workers : wpc[w] = "idle" <=> running[w] = NoTask

(* The workers that have sent a job and not been woken.                    *)
Waiting == {w \in Workers : wpc[w] \in {"written", "blocked"}}

(* A result is there from the end of the evaluation until its worker goes. *)
Results ==
  /\ \A j \in Tasks \ submitted : result[j] = "none" /\ bytes[j] = 0
  /\ \A j \in Range(pending) : result[j] = "none"
  /\ \A w \in Workers : wpc[w] = "eval" => result[running[w]] = "none"
  /\ \A w \in Waiting : result[running[w]] = "live"

(* A chunk and its job know each other.  The field free_pipe still tells   *)
(* where the job of that pipe is or was; while a job is in its chunk the   *)
(* field is its own, and nothing is in its pipe before the main thread has *)
(* written to it, just before it frees the chunk.                          *)
Memory ==
  /\ \A j \in submitted : at[j] \in Chunks
  /\ \A x \in Chunks : freePipe[x] # NoPipe =>
       freePipe[x] \in submitted /\ at[freePipe[x]] = x
  /\ \A x \in Chunks : owner[x] # NoTask =>
       owner[x] \in submitted /\ at[owner[x]] = x
  /\ \A x \in Chunks : owner[x] \in pipes =>
       /\ freePipe[x] = owner[x]
       /\ bytes[owner[x]] = 0 \/ (mpc = "free" /\ mjob = x)
  /\ \A j \in Range(pending) : owner[at[j]] = j
  /\ \A w \in Workers : wpc[w] = "eval" => owner[at[running[w]]] = running[w]

(* The chunks the main thread has been sent, and those of them whose       *)
(* worker it has not woken.                                                *)
Sent == Range(mainPipe) \cup ({mjob} \ {NoChunk})
Unanswered == Range(mainPipe) \cup
              (IF mpc \in {"read", "callback"} THEN {mjob} ELSE {})

(* What is sent is a job that was evaluated, sent once.  While its chunk   *)
(* is its own, its worker reads its pipe, so that the worker waits until   *)
(* it is answered.                                                         *)
Answers ==
  /\ mpc = "idle" <=> mjob = NoChunk
  /\ IsInjective(mainPipe) /\ mjob \notin Range(mainPipe)
  /\ \A x \in Sent : owner[x] # NoTask /\ result[owner[x]] # "none"
  /\ \A w \in Workers :
       (wpc[w] = "blocked" /\ running[w] \in pipes
        /\ owner[at[running[w]]] = running[w]) => reads[w] = running[w]
  /\ \A x \in Unanswered :
       owner[x] \in pipes => \E w \in Waiting : running[w] = owner[x]

(* The inductive invariant.                                                *)
Inv == JobsTypeOK /\ TakenOnce /\ Results /\ Memory /\ Answers

-----------------------------------------------------------------------------
(* threads_init.                                                           *)
LEMMA InvInit == Init => Inv
<1> SUFFICES ASSUME Init PROVE Inv
    OBVIOUS
<1> USE DEF Init, PoolInit
<1>1. Range(<< >>) = {} /\ IsInjective(<< >>) /\ \A S : << >> \in Seq(S)
      BY EmptySeq DEF Range, IsInjective
<1>2. JobsTypeOK
      BY <1>1 DEF JobsTypeOK, PoolTypeOK, Modes, WorkerPlaces, MainPlaces
<1>3. TakenOnce
      BY <1>1, FS_EmptySet DEF TakenOnce
<1>4. Waiting = {} /\ Sent = {} /\ Unanswered = {}
      BY <1>1 DEF Waiting, Sent, Unanswered
<1>5. Results /\ Memory /\ Answers
      BY <1>1, <1>4 DEF Results, Memory, Answers
<1> QED
    BY <1>2, <1>3, <1>5 DEF Inv

(* What a call of threads_async leaves alone.                              *)
LEMMA AsyncStep ==
  ASSUME Inv, NEW j \in Tasks, NEW x \in Chunks, Async(j, x)
  PROVE  Inv'
<1> USE DEF Inv
<1>1. /\ j \notin submitted /\ submitted' = submitted \cup {j}
      /\ owner[x] = NoTask /\ owner' = [owner EXCEPT ![x] = j]
      /\ at' = [at EXCEPT ![j] = x]
      /\ UNCHANGED <<running, done, mode, bytes, wpc, reads, result, mainPipe,
                     mpc, mjob, answered>>
      BY DEF Async, CreateJob, Submit, Refuse, main
<1>2. \/ pipes' = pipes \cup {j} /\ freePipe' = [freePipe EXCEPT ![x] = j]
      \/ pipes' = pipes /\ freePipe' = freePipe
      BY DEF Async, CreateJob
<1>3. pending \in Seq(Tasks) /\ j \notin Range(pending)
      BY <1>1 DEF JobsTypeOK, PoolTypeOK, TakenOnce
<1>4. /\ pending' \in Seq(Tasks) /\ IsInjective(pending')
      /\ Range(pending') \subseteq Range(pending) \cup {j}
  <2>1. CASE pending' = Append(pending, j)
        BY <1>3, <2>1, AppendProperties, RangeOfAppend, InjectiveAppend
           DEF TakenOnce
  <2>2. CASE pending' = pending
        BY <1>3, <2>2 DEF TakenOnce
  <2> QED
      BY <2>1, <2>2 DEF Async, Submit, Refuse
<1>5. JobsTypeOK'
  <2>1. owner' \in [Chunks -> Tasks \cup {NoTask}]
        BY <1>1 DEF JobsTypeOK
  <2>2. at' \in [Tasks -> Chunks \cup {NoChunk}]
        BY <1>1 DEF JobsTypeOK
  <2>3. freePipe' \in [Chunks -> Tasks \cup {NoPipe}]
    <3>1. [freePipe EXCEPT ![x] = j] \in [Chunks -> Tasks \cup {NoPipe}]
          BY DEF JobsTypeOK
    <3> QED
        BY <1>2, <3>1 DEF JobsTypeOK
  <2>4. pipes' \subseteq Tasks
        BY <1>2 DEF JobsTypeOK
  <2>5. PoolTypeOK'
        BY <1>1, <1>4 DEF JobsTypeOK, PoolTypeOK
  <2> QED
      BY <1>1, <2>1, <2>2, <2>3, <2>4, <2>5 DEF JobsTypeOK
<1>6. TakenOnce'
  <2>1. IsFiniteSet(submitted')
        BY <1>1, FS_AddElement DEF TakenOnce
  <2> QED
      BY <1>1, <1>2, <1>4, <2>1 DEF TakenOnce
<1>7. Waiting' = Waiting /\ Sent' = Sent /\ Unanswered' = Unanswered
      BY <1>1 DEF Waiting, Sent, Unanswered
<1>8. Results'
      BY <1>1, <1>4, <1>7 DEF Results
<1>9. \A w \in Workers : running[w] # j
      BY <1>1 DEF TakenOnce
<1>10. /\ owner'[x] = j /\ at'[j] = x
       /\ \A y \in Chunks : y # x => owner'[y] = owner[y] /\ freePipe'[y] = freePipe[y]
       /\ \A k \in Tasks : k # j => at'[k] = at[k]
       BY <1>1, <1>2 DEF JobsTypeOK
<1>11. /\ j \notin pipes /\ submitted \subseteq Tasks /\ pipes \subseteq submitted
       /\ \A y \in Chunks : freePipe[y] # j /\ owner[y] # j
       BY <1>1 DEF TakenOnce, Memory, JobsTypeOK, PoolTypeOK
<1>12. Memory'
  <2>1. \A k \in submitted' : at'[k] \in Chunks
        BY <1>1, <1>10, <1>11 DEF Memory
  <2>2. \A y \in Chunks : freePipe'[y] # NoPipe =>
          freePipe'[y] \in submitted' /\ at'[freePipe'[y]] = y
    <3> SUFFICES ASSUME NEW y \in Chunks, freePipe'[y] # NoPipe
                 PROVE  freePipe'[y] \in submitted' /\ at'[freePipe'[y]] = y
        OBVIOUS
    <3>1. freePipe'[y] = freePipe[y] \/ (y = x /\ freePipe'[y] = j)
          BY <1>2 DEF JobsTypeOK
    <3>2. CASE freePipe'[y] = freePipe[y]
          BY <1>1, <1>10, <1>11, <3>2 DEF Memory
    <3> QED
        BY <1>1, <1>10, <3>1, <3>2
  <2>3. \A y \in Chunks : owner'[y] # NoTask =>
          owner'[y] \in submitted' /\ at'[owner'[y]] = y
        BY <1>1, <1>10, <1>11 DEF Memory
  <2>4. \A y \in Chunks : owner'[y] \in pipes' =>
          /\ freePipe'[y] = owner'[y]
          /\ bytes'[owner'[y]] = 0 \/ (mpc' = "free" /\ mjob' = y)
    <3>1. \A y \in Chunks : y # x /\ owner'[y] \in pipes' => owner[y] \in pipes
          BY <1>2, <1>10, <1>11
    <3>2. j \in pipes' => freePipe'[x] = j
          BY <1>2, <1>11 DEF JobsTypeOK
    <3>3. bytes[j] = 0
          BY <1>1 DEF Results
    <3> QED
        BY <1>1, <1>10, <3>1, <3>2, <3>3 DEF Memory
  <2>5. \A k \in Range(pending') : owner'[at'[k]] = k
        BY <1>1, <1>4, <1>10, <1>11 DEF Memory, TakenOnce
  <2>6. \A w \in Workers : wpc'[w] = "eval" => owner'[at'[running'[w]]] = running'[w]
    <3> SUFFICES ASSUME NEW w \in Workers, wpc[w] = "eval"
                 PROVE  owner'[at'[running[w]]] = running[w]
        BY <1>1
    <3>1. running[w] \in submitted /\ running[w] # j
          BY <1>9 DEF TakenOnce
    <3>2. at[running[w]] \in Chunks /\ owner[at[running[w]]] = running[w]
          BY <3>1 DEF Memory
    <3> QED
        BY <1>1, <1>10, <1>11, <3>1, <3>2 DEF Memory
  <2> QED
      BY <2>1, <2>2, <2>3, <2>4, <2>5, <2>6 DEF Memory
<1>13. Answers'
  <2>1. \A y \in Sent : y \in Chunks /\ y # x
        BY <1>1 DEF Answers, Sent, JobsTypeOK, Range
  <2>2. \A y \in Sent' : owner'[y] # NoTask /\ result'[owner'[y]] # "none"
        BY <1>1, <1>7, <1>10, <2>1 DEF Answers
  <2>3. \A w \in Workers :
          (wpc'[w] = "blocked" /\ running'[w] \in pipes'
           /\ owner'[at'[running'[w]]] = running'[w]) => reads'[w] = running'[w]
    <3> SUFFICES ASSUME NEW w \in Workers, wpc[w] = "blocked", running[w] \in pipes',
                        owner'[at'[running[w]]] = running[w]
                 PROVE  reads[w] = running[w]
        BY <1>1
    <3>1. running[w] \in submitted /\ running[w] # j
          BY <1>9 DEF TakenOnce
    <3>2. running[w] \in pipes /\ at'[running[w]] = at[running[w]]
          BY <1>2, <1>10, <1>11, <3>1
    <3>3. at[running[w]] \in Chunks
          BY <3>1 DEF Memory
    <3> QED
        BY <1>10, <3>1, <3>2, <3>3 DEF Answers
  <2>4. \A y \in Unanswered' :
          owner'[y] \in pipes' => \E w \in Waiting' : running'[w] = owner'[y]
    <3>1. \A y \in Unanswered : y \in Sent
          BY DEF Unanswered, Sent, Answers, JobsTypeOK
    <3>2. \A y \in Unanswered : owner'[y] = owner[y] /\ owner[y] # j
          BY <1>10, <1>11, <2>1, <3>1
    <3> QED
        BY <1>1, <1>2, <1>7, <3>2 DEF Answers
  <2> QED
      BY <1>1, <2>2, <2>3, <2>4 DEF Answers
<1> QED
    BY <1>5, <1>6, <1>8, <1>12, <1>13

-----------------------------------------------------------------------------
(* The steps of a worker: it takes a job,                                  *)
LEMMA TakeJobStep ==
  ASSUME Inv, NEW w \in Workers, TakeJob(w)
  PROVE  Inv'
<1> DEFINE j == Head(pending)
<1> USE DEF Inv
<1>1. /\ pending \in Seq(Tasks) /\ pending # << >> /\ IsInjective(pending)
      /\ running[w] = NoTask
      BY DEF TakeJob, Start, JobsTypeOK, PoolTypeOK, TakenOnce
<1>2. /\ j \in Tasks /\ pending' \in Seq(Tasks)
      /\ j \in Range(pending) /\ Range(pending') = Range(pending) \ {j}
      /\ IsInjective(pending')
      BY <1>1, HeadTailProperties, RangeOfTail, InjectiveTail DEF TakeJob, Start
<1>3. /\ running' = [running EXCEPT ![w] = j]
      /\ wpc' = [wpc EXCEPT ![w] = "eval"]
      /\ UNCHANGED <<done, submitted, mode, owner, freePipe, pipes, bytes, at,
                     reads, result, mainPipe, mpc, mjob, answered>>
      BY DEF TakeJob, Start, memory, main
<1> HIDE DEF j
<1>4. /\ running \in [Workers -> Tasks \cup {NoTask}]
      /\ wpc \in [Workers -> WorkerPlaces] /\ wpc[w] = "idle"
      BY <1>1 DEF JobsTypeOK, PoolTypeOK, TakenOnce
<1>5. /\ running'[w] = j /\ wpc'[w] = "eval"
      /\ \A v \in Workers : v # w => running'[v] = running[v] /\ wpc'[v] = wpc[v]
      BY <1>3, <1>4
<1>6. JobsTypeOK'
  <2>1. PoolTypeOK'
        BY <1>2, <1>3 DEF JobsTypeOK, PoolTypeOK
  <2>2. wpc' \in [Workers -> WorkerPlaces]
        BY <1>3, <1>4 DEF WorkerPlaces
  <2> QED
      BY <1>3, <2>1, <2>2 DEF JobsTypeOK
<1>7. /\ Waiting' = Waiting /\ w \notin Waiting
      /\ Sent' = Sent /\ Unanswered' = Unanswered
      BY <1>3, <1>4, <1>5 DEF Waiting, Sent, Unanswered
<1>8. j # NoTask /\ \A v \in Workers : running[v] # j
      BY <1>2 DEF TakenOnce
<1>9. TakenOnce'
      BY <1>2, <1>3, <1>5, <1>8 DEF TakenOnce
<1>10. Results'
       BY <1>2, <1>3, <1>5, <1>7 DEF Results
<1>11. Memory'
       BY <1>2, <1>3, <1>5 DEF Memory
<1>12. Answers'
       BY <1>3, <1>5, <1>7 DEF Answers
<1> QED
    BY <1>6, <1>9, <1>10, <1>11, <1>12

(* evaluates it and sends its address,                                     *)
LEMMA ReplyStep ==
  ASSUME Inv, NEW w \in Workers, Reply(w)
  PROVE  Inv'
<1> DEFINE j == running[w]
<1> DEFINE x == at[j]
<1> USE DEF Inv
<1>1. wpc[w] = "eval" /\ j \in Tasks /\ j \in submitted /\ j \notin Range(pending)
      BY DEF Reply, JobsTypeOK, PoolTypeOK, TakenOnce
<1>2. x \in Chunks /\ owner[x] = j /\ result[j] = "none"
      BY <1>1 DEF Memory, Results
<1>3. \A v \in Workers : running[v] = j => v = w
      BY <1>1 DEF TakenOnce, JobsTypeOK, PoolTypeOK
<1>4. /\ result' = [result EXCEPT ![j] = "live"]
      /\ mainPipe' = Append(mainPipe, x)
      /\ wpc' = [wpc EXCEPT ![w] = "written"]
      /\ UNCHANGED <<pending, running, done, submitted, mode, owner, freePipe,
                     pipes, bytes, at, reads, mpc, mjob, answered>>
      BY DEF Reply, poolVars, memory
<1> HIDE DEF j, x
<1>5. /\ result'[j] = "live" /\ \A k \in Tasks : k # j => result'[k] = result[k]
      /\ wpc'[w] = "written" /\ \A v \in Workers : v # w => wpc'[v] = wpc[v]
      BY <1>1, <1>4 DEF JobsTypeOK
<1>6. x \notin Sent /\ mainPipe \in Seq(Chunks)
      BY <1>2 DEF Answers, JobsTypeOK
<1>7. /\ mainPipe' \in Seq(Chunks) /\ IsInjective(mainPipe')
      /\ Range(mainPipe') = Range(mainPipe) \cup {x}
      BY <1>2, <1>4, <1>6, AppendProperties, RangeOfAppend, InjectiveAppend
         DEF Answers, Sent
<1>8. JobsTypeOK'
  <2>1. result' \in [Tasks -> {"none", "live", "freed"}]
        BY <1>1, <1>4 DEF JobsTypeOK
  <2>2. wpc' \in [Workers -> WorkerPlaces]
        BY <1>4 DEF JobsTypeOK, WorkerPlaces
  <2>3. PoolTypeOK'
        BY <1>4 DEF JobsTypeOK, PoolTypeOK
  <2> QED
      BY <1>4, <1>7, <2>1, <2>2, <2>3 DEF JobsTypeOK
<1>9. /\ Waiting' = Waiting \cup {w} /\ Sent' = Sent \cup {x}
      /\ Unanswered' = Unanswered \cup {x} /\ running[w] = j
      BY <1>4, <1>5, <1>7 DEF Waiting, Sent, Unanswered, j
<1>10. TakenOnce'
       BY <1>1, <1>4, <1>5 DEF TakenOnce
<1>11. Results'
  <2>1. \A k \in Range(pending) : k \in Tasks
        BY DEF TakenOnce, JobsTypeOK, PoolTypeOK
  <2>2. \A v \in Workers : wpc[v] # "idle" => running[v] \in Tasks
        BY DEF TakenOnce, JobsTypeOK, PoolTypeOK
  <2>3. \A v \in Workers : wpc'[v] = "eval" => result'[running[v]] = "none"
        BY <1>3, <1>5, <2>2 DEF Results
  <2>4. \A v \in Waiting' : result'[running[v]] = "live"
        BY <1>3, <1>5, <1>9, <2>2 DEF Results, Waiting
  <2> QED
      BY <1>1, <1>4, <1>5, <2>1, <2>3, <2>4 DEF Results
<1>12. Memory'
       BY <1>4, <1>5 DEF Memory
<1>13. Answers'
  <2>1. mjob \notin Range(mainPipe')
        BY <1>2, <1>6, <1>7 DEF Answers, Sent
  <2>2. \A y \in Sent' : owner[y] # NoTask /\ result'[owner[y]] # "none"
    <3>1. \A y \in Sent : y \in Chunks
          BY DEF Sent, JobsTypeOK, Range
    <3>2. \A y \in Sent : owner[y] \in Tasks
          BY <3>1 DEF Answers, JobsTypeOK
    <3> QED
        BY <1>1, <1>2, <1>5, <1>9, <3>2 DEF Answers
  <2>3. \A v \in Workers :
          (wpc'[v] = "blocked" /\ running[v] \in pipes
           /\ owner[at[running[v]]] = running[v]) => reads[v] = running[v]
        BY <1>5 DEF Answers
  <2>4. \A y \in Unanswered' :
          owner[y] \in pipes => \E v \in Waiting' : running[v] = owner[y]
        BY <1>2, <1>9 DEF Answers
  <2> QED
      BY <1>4, <1>7, <2>1, <2>2, <2>3, <2>4 DEF Answers
<1> QED
    BY <1>8, <1>10, <1>11, <1>12, <1>13

(* loads the pipe to wait on from the chunk, its job's or not,             *)
LEMMA LoadPipeStep ==
  ASSUME Inv, NEW w \in Workers, LoadPipe(w)
  PROVE  Inv'
<1> DEFINE j == running[w]
<1> USE DEF Inv
<1>1. wpc[w] = "written" /\ j \in Tasks /\ j \in submitted
      BY DEF LoadPipe, JobsTypeOK, PoolTypeOK, TakenOnce
<1>2. at[j] \in Chunks
      BY <1>1 DEF Memory
<1>3. /\ reads' = [reads EXCEPT ![w] = freePipe[at[j]]]
      /\ wpc' = [wpc EXCEPT ![w] = "blocked"]
      /\ UNCHANGED <<pending, running, done, submitted, mode, owner, freePipe,
                     pipes, bytes, at, result, mainPipe, mpc, mjob, answered>>
      BY DEF LoadPipe, poolVars, memory, main
<1>4. /\ reads'[w] = freePipe[at[j]] /\ wpc'[w] = "blocked"
      /\ \A v \in Workers : v # w => wpc'[v] = wpc[v] /\ reads'[v] = reads[v]
      BY <1>3 DEF JobsTypeOK
<1>5. JobsTypeOK'
  <2>1. /\ wpc' \in [Workers -> WorkerPlaces]
        /\ reads' \in [Workers -> Tasks \cup {NoPipe}]
        BY <1>2, <1>3 DEF JobsTypeOK, WorkerPlaces
  <2> QED
      BY <1>3, <2>1 DEF JobsTypeOK, PoolTypeOK
<1>6. Waiting' = Waiting /\ Sent' = Sent /\ Unanswered' = Unanswered
      BY <1>1, <1>3, <1>4 DEF Waiting, Sent, Unanswered
<1>7. TakenOnce' /\ Results' /\ Memory'
      BY <1>1, <1>3, <1>4, <1>6 DEF TakenOnce, Results, Memory
<1>8. Answers'
  <2>1. j \in pipes /\ owner[at[j]] = j => freePipe[at[j]] = j
        BY <1>2 DEF Memory
  <2> QED
      BY <1>3, <1>4, <1>6, <2>1 DEF Answers
<1> QED
    BY <1>5, <1>7, <1>8

(* and, when the main thread has read its job, or without a pipe, releases *)
(* the result.                                                             *)
LEMMA ReleaseStep ==
  ASSUME Inv, NEW w \in Workers, Release(w)
  PROVE  Inv'
<1> DEFINE j == running[w]
<1> USE DEF Inv
<1>1. wpc[w] = "blocked" /\ j \in Tasks /\ j \in submitted /\ j \notin Range(pending)
      BY DEF Release, JobsTypeOK, PoolTypeOK, TakenOnce
<1>2. \A v \in Workers : running[v] = j => v = w
      BY <1>1 DEF TakenOnce, JobsTypeOK, PoolTypeOK
<1>3. /\ result' = [result EXCEPT ![j] = "freed"]
      /\ done' = done \cup {j} /\ running' = [running EXCEPT ![w] = NoTask]
      /\ wpc' = [wpc EXCEPT ![w] = "idle"]
      /\ reads' = [reads EXCEPT ![w] = NoPipe]
      /\ UNCHANGED <<pending, submitted, mode, owner, freePipe, pipes, at,
                     mainPipe, mpc, mjob, answered>>
      BY DEF Release, Finish, memory, main
<1>4. /\ bytes' \in [Tasks -> Nat]
      /\ \A k \in Tasks : bytes[k] = 0 => bytes'[k] = 0
  <2>1. CASE /\ reads[w] # NoPipe /\ bytes[reads[w]] > 0
             /\ bytes' = [bytes EXCEPT ![reads[w]] = @ - 1]
        BY <2>1 DEF JobsTypeOK
  <2>2. CASE UNCHANGED bytes
        BY <2>2 DEF JobsTypeOK
  <2> QED
      BY <2>1, <2>2 DEF Release
<1>5. reads[w] # NoPipe => reads[w] \in Tasks /\ bytes[reads[w]] # 0
      BY DEF Release, JobsTypeOK
<1>6. /\ running'[w] = NoTask /\ wpc'[w] = "idle" /\ reads'[w] = NoPipe
      /\ \A v \in Workers : v # w =>
           running'[v] = running[v] /\ wpc'[v] = wpc[v] /\ reads'[v] = reads[v]
      /\ result'[j] = "freed" /\ \A k \in Tasks : k # j => result'[k] = result[k]
      BY <1>1, <1>3 DEF JobsTypeOK, PoolTypeOK
<1>7. JobsTypeOK'
  <2>1. PoolTypeOK'
        BY <1>1, <1>3 DEF JobsTypeOK, PoolTypeOK
  <2>2. result' \in [Tasks -> {"none", "live", "freed"}]
        BY <1>1, <1>3 DEF JobsTypeOK
  <2>3. /\ wpc' \in [Workers -> WorkerPlaces]
        /\ reads' \in [Workers -> Tasks \cup {NoPipe}]
        BY <1>3 DEF JobsTypeOK, WorkerPlaces
  <2> QED
      BY <1>3, <1>4, <2>1, <2>2, <2>3 DEF JobsTypeOK
<1>8. /\ Waiting' = Waiting \ {w} /\ Sent' = Sent
      /\ Unanswered' = Unanswered /\ Unanswered \subseteq Sent
      BY <1>3, <1>6 DEF Waiting, Sent, Unanswered, Answers, JobsTypeOK
<1>9. \A v \in Workers : wpc[v] # "idle" => running[v] \in Tasks
      BY DEF TakenOnce, JobsTypeOK, PoolTypeOK
<1>10. TakenOnce'
       BY <1>3, <1>6 DEF TakenOnce
<1>11. Results'
  <2>1. \A k \in Range(pending) : result'[k] = "none"
        BY <1>1, <1>6 DEF Results, TakenOnce, JobsTypeOK, PoolTypeOK
  <2>2. \A v \in Workers : wpc'[v] = "eval" => result'[running'[v]] = "none"
        BY <1>2, <1>6, <1>9 DEF Results
  <2>3. \A v \in Waiting' : result'[running'[v]] = "live"
        BY <1>2, <1>6, <1>8, <1>9 DEF Results, Waiting
  <2>4. \A k \in Tasks \ submitted : result'[k] = "none" /\ bytes'[k] = 0
        BY <1>1, <1>4, <1>6 DEF Results
  <2> QED
      BY <1>3, <2>1, <2>2, <2>3, <2>4 DEF Results
<1>12. Memory'
  <2>1. \A x \in Chunks : owner[x] \in pipes =>
          /\ freePipe[x] = owner[x]
          /\ bytes'[owner[x]] = 0 \/ (mpc = "free" /\ mjob = x)
        BY <1>4 DEF Memory, JobsTypeOK
  <2>2. \A v \in Workers : wpc'[v] = "eval" => owner[at[running'[v]]] = running'[v]
        BY <1>6 DEF Memory
  <2> QED
      BY <1>3, <2>1, <2>2 DEF Memory
<1>13. Answers'
  <2>1. \A y \in Sent : y \in Chunks
        BY DEF Sent, JobsTypeOK, Range
  <2>2. \A y \in Sent : owner[y] # NoTask /\ result'[owner[y]] # "none"
    <3>1. \A y \in Sent : owner[y] \in Tasks
          BY <2>1 DEF Answers, JobsTypeOK
    <3> QED
        BY <1>6, <3>1 DEF Answers
  <2>3. ASSUME NEW y \in Unanswered, owner[y] \in pipes
        PROVE  owner[y] # j
    <3> SUFFICES ASSUME owner[y] = j PROVE FALSE
        OBVIOUS
    <3>1. y \in Chunks
          BY <1>8, <2>1
    <3>2. at[j] = y /\ owner[at[j]] = j /\ j \in pipes
          BY <1>1, <2>3, <3>1 DEF Memory
    <3>3. reads[w] = j
          BY <1>1, <3>2 DEF Answers
    <3>4. bytes[j] # 0 /\ j # NoPipe
          BY <1>1, <1>5, <3>3
    <3>5. mpc = "free" /\ mjob = y
          BY <2>3, <3>1, <3>4 DEF Memory
    <3> QED
        BY <2>3, <3>5 DEF Unanswered, Answers
  <2>4. \A y \in Unanswered :
          owner[y] \in pipes => \E v \in Waiting' : running'[v] = owner[y]
    <3> SUFFICES ASSUME NEW y \in Unanswered, owner[y] \in pipes
                 PROVE  \E v \in Waiting' : running'[v] = owner[y]
        OBVIOUS
    <3>1. PICK v \in Waiting : running[v] = owner[y]
          BY DEF Answers
    <3>2. v # w
          BY <2>3, <3>1
    <3> QED
        BY <1>6, <1>8, <3>1, <3>2 DEF Waiting
  <2>5. \A v \in Workers :
          (wpc'[v] = "blocked" /\ running'[v] \in pipes
           /\ owner[at[running'[v]]] = running'[v]) => reads'[v] = running'[v]
        BY <1>6 DEF Answers
  <2> QED
      BY <1>3, <1>8, <2>2, <2>4, <2>5 DEF Answers
<1> QED
    BY <1>7, <1>10, <1>11, <1>12, <1>13

-----------------------------------------------------------------------------
(* The main thread reads the address of a job,                             *)
LEMMA ReceiveStep ==
  ASSUME Inv, Receive
  PROVE  Inv'
<1> DEFINE x == Head(mainPipe)
<1> USE DEF Inv
<1>1. /\ mainPipe \in Seq(Chunks) /\ mainPipe # << >> /\ IsInjective(mainPipe)
      /\ mpc = "idle" /\ mjob = NoChunk
      BY DEF Receive, JobsTypeOK, Answers
<1>2. /\ x \in Chunks /\ mainPipe' \in Seq(Chunks)
      /\ x \in Range(mainPipe) /\ Range(mainPipe') = Range(mainPipe) \ {x}
      /\ IsInjective(mainPipe')
      BY <1>1, HeadTailProperties, RangeOfTail, InjectiveTail DEF Receive
<1>3. /\ mjob' = x /\ mpc' = "read"
      /\ UNCHANGED <<pending, running, done, submitted, mode, owner, freePipe,
                     pipes, bytes, at, wpc, reads, result, answered>>
      BY DEF Receive, poolVars, memory, worker
<1> HIDE DEF x
<1>4. JobsTypeOK'
      BY <1>2, <1>3 DEF JobsTypeOK, PoolTypeOK, MainPlaces
<1>5. Waiting' = Waiting /\ Sent' = Sent /\ Unanswered' = Unanswered
      BY <1>1, <1>2, <1>3 DEF Waiting, Sent, Unanswered
<1>6. TakenOnce' /\ Results' /\ Memory'
      BY <1>1, <1>3, <1>5 DEF TakenOnce, Results, Memory
<1>7. Answers'
      BY <1>2, <1>3, <1>5 DEF Answers
<1> QED
    BY <1>4, <1>6, <1>7

(* calls the callback with its result,                                     *)
LEMMA CallbackStep ==
  ASSUME Inv, Callback
  PROVE  Inv'
<1> USE DEF Inv
<1>1. /\ mpc = "read" /\ mpc' = "callback"
      /\ answered' = answered \cup {owner[mjob]}
      /\ UNCHANGED <<pending, running, done, submitted, mode, owner, freePipe,
                     pipes, bytes, at, wpc, reads, result, mainPipe, mjob>>
      BY DEF Callback, poolVars, memory, worker
<1>2. mjob \in Chunks /\ owner[mjob] \in Tasks
      BY <1>1 DEF Answers, Sent, JobsTypeOK
<1>3. JobsTypeOK'
      BY <1>1, <1>2 DEF JobsTypeOK, PoolTypeOK, MainPlaces
<1>4. Waiting' = Waiting /\ Sent' = Sent /\ Unanswered' = Unanswered
      BY <1>1 DEF Waiting, Sent, Unanswered
<1>5. TakenOnce' /\ Results' /\ Memory' /\ Answers'
      BY <1>1, <1>4 DEF TakenOnce, Results, Memory, Answers
<1> QED
    BY <1>3, <1>5

(* writes to the pipe the chunk names,                                     *)
LEMMA WakeWorkerStep ==
  ASSUME Inv, WakeWorker
  PROVE  Inv'
<1> DEFINE p == freePipe[mjob]
<1> USE DEF Inv
<1>1. /\ mpc = "callback" /\ mpc' = "free"
      /\ UNCHANGED <<pending, running, done, submitted, mode, owner, freePipe,
                     pipes, at, wpc, reads, result, mainPipe, mjob, answered>>
      BY DEF WakeWorker, poolVars, memory, worker
<1>2. mjob \in Chunks /\ p \in Tasks \cup {NoPipe}
      BY <1>1 DEF Answers, JobsTypeOK
<1>3. p # NoPipe => p \in submitted /\ at[p] = mjob
      BY <1>2 DEF Memory
<1>4. /\ bytes' \in [Tasks -> Nat]
      /\ \A k \in Tasks : k # p => bytes'[k] = bytes[k]
  <2>1. CASE p = NoPipe
        BY <2>1 DEF WakeWorker, JobsTypeOK
  <2>2. CASE p # NoPipe
    <3>1. p \in Tasks /\ bytes' = [bytes EXCEPT ![p] = @ + 1]
          BY <1>2, <2>2 DEF WakeWorker
    <3> HIDE DEF p
    <3> QED
        BY <3>1 DEF JobsTypeOK
  <2> QED
      BY <2>1, <2>2
<1> HIDE DEF p
<1>5. JobsTypeOK'
      BY <1>1, <1>4 DEF JobsTypeOK, PoolTypeOK, MainPlaces
<1>6. /\ Waiting' = Waiting /\ Sent' = Sent
      /\ Unanswered' \subseteq Unanswered
      BY <1>1 DEF Waiting, Sent, Unanswered
<1>7. TakenOnce'
      BY <1>1 DEF TakenOnce
<1>8. Results'
  <2>1. \A k \in Tasks \ submitted : bytes'[k] = 0
        BY <1>2, <1>3, <1>4 DEF Results
  <2> QED
      BY <1>1, <1>6, <2>1 DEF Results
<1>9. Memory'
  <2>1. ASSUME NEW x \in Chunks, owner[x] \in pipes
        PROVE  /\ freePipe[x] = owner[x]
               /\ bytes'[owner[x]] = 0 \/ (mpc' = "free" /\ mjob = x)
    <3>1. /\ owner[x] \in Tasks /\ owner[x] # NoTask
          BY <2>1 DEF JobsTypeOK
    <3>2. /\ at[owner[x]] = x /\ freePipe[x] = owner[x] /\ bytes[owner[x]] = 0
          BY <1>1, <2>1, <3>1 DEF Memory
    <3>3. CASE owner[x] = p
          BY <1>1, <1>3, <3>1, <3>2, <3>3
    <3>4. CASE owner[x] # p
          BY <1>4, <3>1, <3>2, <3>4
    <3> QED
        BY <3>2, <3>3, <3>4
  <2> QED
      BY <1>1, <2>1 DEF Memory
<1>10. Answers'
       BY <1>1, <1>6 DEF Answers
<1> QED
    BY <1>5, <1>7, <1>8, <1>9, <1>10

(* and frees the chunk, which is nobody's that is still to be evaluated.   *)
LEMMA FreeJobStep ==
  ASSUME Inv, FreeJob
  PROVE  Inv'
<1> USE DEF Inv
<1>1. /\ mpc = "free" /\ mpc' = "idle" /\ mjob' = NoChunk
      /\ owner' = [owner EXCEPT ![mjob] = NoTask]
      /\ UNCHANGED <<pending, running, done, submitted, mode, freePipe, pipes,
                     bytes, at, wpc, reads, result, mainPipe, answered>>
      BY DEF FreeJob, poolVars, worker
<1>2. /\ mjob \in Chunks /\ mjob \in Sent /\ mjob \notin Range(mainPipe)
      BY <1>1 DEF Answers, Sent, JobsTypeOK
<1>3. /\ owner'[mjob] = NoTask
      /\ \A x \in Chunks : x # mjob => owner'[x] = owner[x]
      /\ NoTask \notin pipes
      BY <1>1, <1>2 DEF JobsTypeOK
<1>4. JobsTypeOK'
      BY <1>1, <1>2 DEF JobsTypeOK, PoolTypeOK, MainPlaces
<1>5. /\ Waiting' = Waiting /\ Sent' = Sent \ {mjob}
      /\ Unanswered' = Unanswered /\ Unanswered = Range(mainPipe)
      /\ Range(mainPipe) \subseteq Sent
      BY <1>1, <1>2 DEF Waiting, Sent, Unanswered, JobsTypeOK, Range
<1>6. TakenOnce' /\ Results'
      BY <1>1, <1>5 DEF TakenOnce, Results
<1>7. result[owner[mjob]] # "none"
      BY <1>2 DEF Answers
<1>8. Memory'
  <2>1. ASSUME NEW k \in Range(pending)
        PROVE  owner'[at[k]] = k
    <3>1. k \in submitted /\ owner[at[k]] = k /\ result[k] = "none"
          BY DEF TakenOnce, Memory, Results
    <3>2. at[k] \in Chunks /\ at[k] # mjob
          BY <1>7, <3>1 DEF Memory
    <3> QED
        BY <1>3, <3>1, <3>2
  <2>2. ASSUME NEW w \in Workers, wpc[w] = "eval"
        PROVE  owner'[at[running[w]]] = running[w]
    <3>1. /\ running[w] \in submitted /\ result[running[w]] = "none"
          /\ owner[at[running[w]]] = running[w]
          BY <2>2 DEF TakenOnce, Memory, Results
    <3>2. at[running[w]] \in Chunks /\ at[running[w]] # mjob
          BY <1>7, <3>1 DEF Memory
    <3> QED
        BY <1>3, <3>1, <3>2
  <2>3. \A x \in Chunks : owner'[x] # NoTask =>
          owner'[x] \in submitted /\ at[owner'[x]] = x
        BY <1>3 DEF Memory
  <2>4. \A x \in Chunks : owner'[x] \in pipes =>
          freePipe[x] = owner'[x] /\ bytes[owner'[x]] = 0
        BY <1>3 DEF Memory
  <2> QED
      BY <1>1, <2>1, <2>2, <2>3, <2>4 DEF Memory
<1>9. Answers'
  <2>1. \A x \in Sent : x \in Chunks
        BY DEF Sent, JobsTypeOK, Range
  <2>2. \A x \in Sent' : owner'[x] = owner[x]
        BY <1>3, <1>5, <2>1
  <2>3. ASSUME NEW w \in Workers, wpc[w] = "blocked", running[w] \in pipes,
               owner'[at[running[w]]] = running[w]
        PROVE  reads[w] = running[w]
    <3>1. running[w] \in submitted /\ running[w] # NoTask
          BY <1>3, <2>3 DEF TakenOnce
    <3>2. at[running[w]] \in Chunks /\ at[running[w]] # mjob
          BY <1>3, <2>3, <3>1 DEF Memory
    <3> QED
        BY <1>3, <2>3, <3>2 DEF Answers
  <2>4. \A x \in Unanswered' : x \in Sent'
        BY <1>2, <1>5
  <2>5. NoChunk \notin Range(mainPipe)
        BY <1>5, <2>1
  <2> QED
      BY <1>1, <1>5, <2>2, <2>3, <2>4, <2>5 DEF Answers
<1> QED
    BY <1>4, <1>6, <1>8, <1>9

-----------------------------------------------------------------------------
(* The invariant of the workers, the main thread and the memory they share *)
THEOREM InvHolds == Spec => []Inv
<1>1. Inv /\ [Next]_vars => Inv'
  <2> SUFFICES ASSUME Inv, [Next]_vars PROVE Inv'
      OBVIOUS
  <2>1. CASE UNCHANGED vars
    <3>1. UNCHANGED <<pending, running, done, submitted, mode, owner, freePipe,
                      pipes, bytes, at, wpc, reads, result, mainPipe, mpc,
                      mjob, answered>>
          BY <2>1 DEF vars, poolVars, memory, worker, main
    <3>2. Waiting' = Waiting /\ Sent' = Sent /\ Unanswered' = Unanswered
          BY <3>1 DEF Waiting, Sent, Unanswered
    <3> QED
        BY <3>1, <3>2 DEF Inv, JobsTypeOK, PoolTypeOK, TakenOnce, Results,
                          Memory, Answers
  <2>2. ASSUME NEW j \in Tasks, NEW x \in Chunks, Async(j, x)
        PROVE  Inv'
        BY <2>2, AsyncStep
  <2>3. ASSUME NEW w \in Workers, WorkerStep(w)
        PROVE  Inv'
        BY <2>3, TakeJobStep, ReplyStep, LoadPipeStep, ReleaseStep
           DEF WorkerStep
  <2>4. CASE MainStep
        BY <2>4, ReceiveStep, CallbackStep, WakeWorkerStep, FreeJobStep
           DEF MainStep
  <2> QED
      BY <2>1, <2>2, <2>3, <2>4 DEF Next
<1> QED
    BY <1>1, InvInit, PTL DEF Spec

(* The chunk of a job is not freed before a worker has evaluated the job,  *)
(* and the callback finds the result of a job that has a pipe: the worker  *)
(* still waits then, whatever other workers have read from other pipes.    *)
THEOREM MemoryIsSafe == Spec => []JobMemorySafe
<1>1. Inv => JobMemorySafe
  <2> SUFFICES ASSUME Inv PROVE JobMemorySafe
      OBVIOUS
  <2>1. JobOutlivesEvaluation
        BY DEF Inv, Memory, JobOutlivesEvaluation, Range
  <2>2. ASSUME mpc = "read"
        PROVE  /\ owner[mjob] \in Tasks
               /\ result[owner[mjob]] = "live" \/ owner[mjob] \notin pipes
    <3>1. mjob \in Sent /\ mjob \in Unanswered /\ mjob \in Chunks
          BY <2>2 DEF Inv, Answers, Sent, Unanswered, JobsTypeOK
    <3>2. owner[mjob] \in Tasks
          BY <3>1 DEF Inv, Answers, JobsTypeOK
    <3>3. ASSUME owner[mjob] \in pipes
          PROVE  result[owner[mjob]] = "live"
      <4>1. PICK w \in Waiting : running[w] = owner[mjob]
            BY <3>1, <3>3 DEF Inv, Answers
      <4> QED
          BY <4>1 DEF Inv, Results
    <3> QED
        BY <3>2, <3>3
  <2> QED
      BY <2>1, <2>2 DEF Inv, JobMemorySafe, CallbackGetsResult
<1> QED
    BY <1>1, InvHolds, PTL

(* The addresses in the main loop pipe are those of jobs with a pipe, each *)
(* with a worker that waits for its answer, and of jobs without one.       *)
LEMMA PipeIsShort ==
  ASSUME Inv
  PROVE  Len(mainPipe) <= Cardinality(Waiting) + Cardinality(submitted \ pipes)
<1> USE DEF Inv
<1> DEFINE A == {x \in Range(mainPipe) : owner[x] \in pipes}
<1> DEFINE B == {x \in Range(mainPipe) : owner[x] \notin pipes}
<1> DEFINE f == [x \in A |-> CHOOSE w \in Waiting : running[w] = owner[x]]
<1> DEFINE g == [x \in B |-> owner[x]]
<1>1. /\ IsFiniteSet(Range(mainPipe))
      /\ Cardinality(Range(mainPipe)) = Len(mainPipe)
      BY InjectiveLen DEF JobsTypeOK, Answers
<1>2. /\ \A x \in Range(mainPipe) : owner[x] \in submitted /\ at[owner[x]] = x
      BY DEF Answers, Sent, Memory, JobsTypeOK, Range
<1>3. IsFiniteSet(Waiting) /\ IsFiniteSet(submitted \ pipes)
      BY FS_Subset DEF Waiting, TakenOnce
<1>4. Cardinality(A) <= Cardinality(Waiting)
  <2>1. \A x \in A : f[x] \in Waiting /\ running[f[x]] = owner[x]
        BY DEF Answers, Unanswered
  <2>2. \A x, y \in A : f[x] = f[y] => x = y
        BY <1>2, <2>1
  <2> HIDE DEF f, A
  <2>3. f \in Injection(A, Waiting)
    <3>1. DOMAIN f = A /\ f \in [A -> Waiting]
          BY <2>1 DEF f
    <3> QED
        BY <2>2, <3>1 DEF Injection, IsInjective
  <2> QED
      BY <1>3, <2>3, FS_Injection
<1>5. Cardinality(B) <= Cardinality(submitted \ pipes)
  <2>1. \A x \in B : g[x] \in submitted \ pipes
        BY <1>2
  <2>2. \A x, y \in B : g[x] = g[y] => x = y
        BY <1>2
  <2> HIDE DEF g, B
  <2>3. g \in Injection(B, submitted \ pipes)
    <3>1. DOMAIN g = B /\ g \in [B -> submitted \ pipes]
          BY <2>1 DEF g
    <3> QED
        BY <2>2, <3>1 DEF Injection, IsInjective
  <2> QED
      BY <1>3, <2>3, FS_Injection
<1>6. /\ IsFiniteSet(A) /\ IsFiniteSet(B) /\ A \cap B = {}
      /\ A \cup B = Range(mainPipe)
      BY <1>1, FS_Subset
<1> HIDE DEF A, B
<1>7. Cardinality(Range(mainPipe)) = Cardinality(A) + Cardinality(B)
  <2>1. Cardinality(A \cap B) = 0
        BY <1>6, FS_EmptySet
  <2>2. Cardinality(A) \in Nat /\ Cardinality(B) \in Nat
        BY <1>6, FS_CardinalityType
  <2> QED
      BY <1>6, <2>1, <2>2, FS_Union
<1> QED
  <2>1. /\ Cardinality(A) \in Nat /\ Cardinality(B) \in Nat
        /\ Cardinality(Waiting) \in Nat /\ Cardinality(submitted \ pipes) \in Nat
        BY <1>3, <1>6, FS_CardinalityType
  <2> QED
      BY <1>1, <1>4, <1>5, <1>7, <2>1

(* However many jobs are submitted, the workers add at most one address    *)
(* each to the main loop pipe before they wait, beside those of jobs that  *)
(* found no descriptor.                                                    *)
THEOREM MainPipeStaysShort == Spec => []WritersNeverBlock
<1>1. Inv => WritersNeverBlock
      BY PipeIsShort DEF WritersNeverBlock, Waiting
<1> QED
    BY <1>1, InvHolds, PTL
=============================================================================
