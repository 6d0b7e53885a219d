--------------------------- MODULE OptimizerProofs ---------------------------
(***************************************************************************)
(* Proofs about QmlOptimizers.tla, for any calls, any conversions of their *)
(* values to numbers, any number of evaluations and any answers of the q   *)
(* functions: what the caller of an optimiser gets after a failure, what   *)
(* is not freed, and what a result says about the search.                  *)
(***************************************************************************)
EXTENDS QmlOptimizers, FiniteSets, SequenceTheorems, TLAPS

USE OptimizersAssumption

Stages  == {"entry", "eval", "ends", "run", "cons", "finish", "done"}
Backs   == {none, "ends", "run", "cons", "finish"}
Firsts  == {none, "user", "type", "rank"}
Errors  == {no_error, "wsfull", "limit", "user", "type", "rank"}
Signals == {none, "iter", "feas", "nan", "sign", "qml_assert", "round", "wsfull",
            "fail"}
Job == [arg : {-1, 0, 1}, sign : {-1, 1}, which : Int, back : Backs,
        evals : Nat, iter : Int, ok : BOOLEAN, sig : Signals, ends : Seq(Int),
        con_err : Int, cons : Nat, contyp : Int, first : Firsts,
        late : BOOLEAN]

Types ==
  /\ call \in Calls /\ pc \in Stages /\ job \in Job /\ error \in Errors
  /\ param \in Seq(Int) /\ vals \in Seq(Int) /\ todo \in Seq(Int \X Int)
  /\ out.kind \in {"none", "error", "value"}

(* Nothing has happened before a routine is chosen; a call that is refused *)
(* goes no further.                                                        *)
Fresh ==
  /\ pc = "entry" => job = Job0 /\ error = no_error /\ live = {} /\ todo = << >>
  /\ pc \notin {"entry", "done"} => Refusal(call) = none
  /\ pc = "done" <=> out.kind # "none"

(* Calls are left while something is evaluated, and then only.  Outside    *)
(* the routine an evaluation is one call, or one at each end for root.     *)
Evaluating ==
  /\ pc = "eval" <=> todo # << >>
  /\ pc = "eval" => job.back # none
  /\ pc = "eval" /\ job.back # "run" =>
        Len(vals) + Len(todo) = IF job.back = "ends" THEN 2 ELSE 1
  /\ pc = "ends" => Len(vals) = 2
  /\ pc = "cons" /\ job.cons > 0 => Len(vals) = 1

(* Buffers are the caller's until it is done.                              *)
Owned == pc # "done" => live \subseteq Arrays \cup {"start"}

(* The error is the first failure of a q function, if one failed: without  *)
(* one it is an allocation that failed, and nothing runs.                  *)
ErrorIsFirst ==
  /\ job.first # none => error = job.first
  /\ error # no_error /\ job.first = none => pc \in {"finish", "done"}
  /\ job.late => job.first # none

(* Until the routine returned there is no signal.  When there is one, the  *)
(* functions that failed failed after that.                                *)
At(stages) == pc \in stages \/ (pc = "eval" /\ job.back \in stages)
SignalOrFailure ==
  /\ At({"ends", "run"}) => job.sig = none /\ ~job.late /\ job.cons = 0
  /\ At({"cons"}) => (job.first # none => job.late)
  /\ pc = "eval" /\ job.back = "finish" => (job.first # none => job.late)
  /\ job.first # none /\ ~job.late => job.sig = none

(* Nothing but a routine evaluates more than once.                         *)
Deactivated ==
  /\ At({"ends"}) => job.evals = 0
  /\ ErrorDeactivates

Inv ==
  /\ Types /\ Fresh /\ Evaluating /\ Owned /\ ErrorIsFirst /\ SignalOrFailure
  /\ Deactivated /\ FirstFailureReported /\ LeaksOnlyLate

-----------------------------------------------------------------------------
(* An evaluation makes at least one call, and without a gradient just one. *)
LEMMA PointsType ==
  ASSUME NEW which, NEW grad \in BOOLEAN, param \in Seq(Int)
  PROVE  /\ Points(which, grad) \in Seq(Int \X Int)
         /\ Points(which, grad) # << >>
         /\ ~grad => Len(Points(which, grad)) = 1
<1> DEFINE n == Len(param)
           one == [i \in 1..n |-> <<i, 1>>]
           two == [k \in 1..2 * n |->
                      <<(k + 1) \div 2, IF k % 2 = 1 THEN 1 ELSE -1>>]
           steps == IF contyp(which) = -1 THEN one ELSE two
           here == <<<<0, 0>>>>
           rest == IF grad THEN steps ELSE << >>
<1>1. n \in Nat
      BY LenProperties
<1>2. one \in Seq(Int \X Int)
  <2>1. \A i \in 1..n : <<i, 1>> \in Int \X Int
        OBVIOUS
  <2> QED
      BY <1>1, <2>1, IsASeq
<1>3. two \in Seq(Int \X Int)
  <2>1. \A k \in 1..2 * n :
           <<(k + 1) \div 2, IF k % 2 = 1 THEN 1 ELSE -1>> \in Int \X Int
        BY <1>1
  <2>2. 2 * n \in Nat
        BY <1>1
  <2> QED
      BY <2>1, <2>2, IsASeq
<1>4. Points(which, grad) = here \o rest
      BY DEF Points
<1>5. here \in Seq(Int \X Int) /\ Len(here) = 1
      OBVIOUS
<1> HIDE DEF one, two, here
<1>6. rest \in Seq(Int \X Int) /\ (~grad => rest = << >>)
      BY <1>2, <1>3
<1> HIDE DEF rest
<1> DEFINE D == Int \X Int
<1>7. here \in Seq(D) /\ rest \in Seq(D)
      BY <1>5, <1>6
<1> HIDE DEF D
<1>8. /\ here \o rest \in Seq(D) /\ Len(here \o rest) = 1 + Len(rest)
      /\ Len(rest) \in Nat
      BY <1>5, <1>7, ConcatProperties, LenProperties, ZenonT(40)
<1>9. here \o rest # << >>
      BY <1>8, EmptySeq
<1>10. ~grad => Len(here \o rest) = 1
      BY <1>6, <1>8, EmptySeq
<1> QED
    BY <1>4, <1>8, <1>9, <1>10 DEF D

(* What becomes of an answer: a number, or the first error there was.      *)
LEMMA AnswerCounts ==
  ASSUME Types, NEW a \in Answers
  PROVE  /\ call_param(a).v \in Int /\ call_param(a).error \in Errors
         /\ error # no_error => call_param(a).error = error
         /\ error = no_error => call_param(a).error \in {no_error} \cup (Firsts \ {none})
<1>1. a.kind \in {"number", "nan", "user", "type", "rank"}
      BY DEF Answers
<1>2. a.kind = "number" => a.v \in Int
      BY DEF Answers
<1>3. sign(job.which) \in {-1, 1}
      BY DEF Types, Job, sign
<1>4. sign(job.which) * a.v \in Int \/ a.kind # "number"
      BY <1>2, <1>3
<1>5. error \in Errors /\ no_error \in Errors /\ wf \in Int /\ 0 \in Int
      BY DEF Types, Errors, wf
<1>6. CASE error # no_error
  <2>1. call_param(a) = [error |-> error, v |-> 0]
        BY <1>6 DEF call_param
  <2> QED
      <3>1. call_param(a).v = 0 /\ call_param(a).error = error
            BY <2>1
      <3> QED
          BY <1>5, <1>6, <3>1, Zenon
<1>7. CASE error = no_error /\ a.kind = "number"
  <2>1. call_param(a) = [error |-> error, v |-> sign(job.which) * a.v]
        BY <1>7 DEF call_param
  <2>2. sign(job.which) * a.v \in Int
        BY <1>4, <1>7
  <2> QED
      BY <1>5, <1>7, <2>1, <2>2
<1>8. CASE error = no_error /\ a.kind = "nan"
  <2>1. call_param(a) = [error |-> error, v |-> wf]
        BY <1>8 DEF call_param
  <2> QED
      BY <1>5, <1>8, <2>1
<1>9. CASE error = no_error /\ a.kind \in {"user", "type", "rank"}
  <2>1. call_param(a) = [error |-> a.kind, v |-> 0]
        BY <1>9 DEF call_param
  <2>2. a.kind \in Errors /\ a.kind \in Firsts \ {none}
        BY <1>9 DEF Errors, Firsts, none
  <2> QED
      <3>1. call_param(a).v = 0 /\ call_param(a).error = a.kind
            BY <2>1
      <3> QED
          BY <1>5, <1>9, <2>2, <3>1, Zenon
<1> QED
    BY <1>1, <1>6, <1>7, <1>8, <1>9

-----------------------------------------------------------------------------
(* Steps                                                                   *)

(* Every call begins with nothing done.                                    *)
LEMMA InvInit == Init => Inv
<1> SUFFICES ASSUME Init PROVE Inv
    OBVIOUS
<1>1. Job0 \in Job
      BY DEF Job0, Job, Backs, Signals, Firsts
<1>2. Types
  <2>1. << >> \in Seq(Int) /\ << >> \in Seq(Int \X Int)
        OBVIOUS
  <2>2. out.kind = "none" /\ pc \in Stages /\ error \in Errors
        BY DEF Init, NoOut, Stages, Errors
  <2> QED
      BY <1>1, <2>1, <2>2 DEF Init, Types
<1>3. Fresh
      BY DEF Init, Fresh, NoOut
<1>4. Evaluating
      BY DEF Init, Evaluating
<1>5. Owned /\ ErrorIsFirst
      BY DEF Init, Owned, ErrorIsFirst, Job0
<1>6. SignalOrFailure /\ Deactivated
      BY DEF Init, SignalOrFailure, At, Deactivated, ErrorDeactivates, Job0
<1>7. FirstFailureReported /\ LeaksOnlyLate
      BY DEF Init, FirstFailureReported, LeaksOnlyLate
<1> QED
    BY <1>2, <1>3, <1>4, <1>5, <1>6, <1>7 DEF Inv

(* A refused call allocates nothing and calls nothing.                     *)
LEMMA RefuseKeeps ==
  ASSUME Inv, Refuse
  PROVE  Inv'
<1>1. /\ pc = "entry" /\ pc' = "done" /\ out'.kind = "error"
      /\ UNCHANGED <<call, job, param, todo, vals, error, live>>
      BY DEF Refuse, Raised, NoOut
<1>2. job = Job0 /\ error = no_error /\ live = {} /\ todo = << >>
      BY <1>1 DEF Inv, Fresh
<1>3. Types'
      BY <1>1 DEF Inv, Types, Stages
<1>4. Fresh' /\ Evaluating' /\ Owned'
      BY <1>1, <1>2 DEF Fresh, Evaluating, Owned
<1>5. job.first = none /\ ~job.late
      BY <1>2 DEF Job0
<1>6. ErrorIsFirst' /\ SignalOrFailure' /\ Deactivated'
      BY <1>1, <1>2, <1>5
         DEF ErrorIsFirst, SignalOrFailure, At, Deactivated, ErrorDeactivates
<1>7. FirstFailureReported' /\ LeaksOnlyLate'
      BY <1>1, <1>2, <1>5 DEF FirstFailureReported, LeaksOnlyLate
<1> QED
    BY <1>3, <1>4, <1>6, <1>7 DEF Inv

(* The routine of a call is CONMAX or NLopt, and has its buffers, or there *)
(* is an error and nothing is run.                                         *)
LEMMA AllocateKeeps ==
  ASSUME Inv, Allocate
  PROVE  Inv'
<1> DEFINE p == Flat(Floats(call.start))
           nan == Method(call) = "nlopt" /\ \E i \in DOMAIN p : p[i] = nf
<1>1. /\ pc = "entry" /\ Refusal(call) = none /\ param' = p
      /\ Method(call) \in {"conmax", "nlopt"}
      /\ job' = [job EXCEPT !.arg = IF Floats(call.start).t = -KF THEN 1 ELSE 0,
                            !.sig = IF nan THEN "nan" ELSE none]
      /\ UNCHANGED <<call, todo, vals, out>>
      BY DEF Allocate
<1>2. PICK got \in {Buffers(call)} \cup {Buffers(call) \ {b} : b \in Buffers(call)},
           e \in {no_error, "wsfull", "limit"} :
        /\ error' = e
        /\ live' = (IF e # no_error \/ nan THEN got \ Scratch ELSE got)
                   \cup {"start"}
        /\ pc' = IF e # no_error THEN "finish" ELSE IF nan THEN "cons" ELSE "run"
      BY DEF Allocate
<1>3. job = Job0 /\ error = no_error /\ live = {} /\ todo = << >>
      BY <1>1 DEF Inv, Fresh
<1>4. /\ job' \in Job /\ job'.first = none /\ ~job'.late /\ job'.evals = 0
      /\ job'.cons = 0
  <2>1. job \in Job /\ {none, "nan"} \subseteq Signals
        BY DEF Inv, Types, Signals
  <2>2. /\ job' \in Job /\ job'.first = job.first /\ job'.late = job.late
        /\ job'.evals = job.evals /\ job'.cons = job.cons
        BY <1>1, <2>1 DEF Job
  <2> QED
      BY <1>3, <2>2 DEF Job0
<1>12. ~nan => job'.sig = none
       BY <1>1 DEF Inv, Types, Job
<1>5. p \in Seq(Int)
  <2>1. call \in Calls
        BY DEF Inv, Types
  <2> QED
      BY <1>1, <2>1, NumbersAssumption, Zenon
<1>6. Buffers(call) \subseteq Arrays
      BY DEF Buffers, Arrays, Scratch
<1>7. live' \subseteq Arrays \cup {"start"}
      BY <1>2, <1>6
<1> HIDE DEF p, nan
<1>8. Types'
      BY <1>1, <1>2, <1>4, <1>5 DEF Inv, Types, Stages, Errors
<1>9. Fresh' /\ Evaluating' /\ Owned'
  <2>1. pc' \in {"finish", "cons", "run"}
        BY <1>2
  <2>2. out'.kind = "none"
        BY <1>1 DEF Inv, Fresh
  <2>3. todo' = << >> /\ Refusal(call') = none
        BY <1>1, <1>3
  <2>4. Fresh'
        BY <2>1, <2>2, <2>3 DEF Fresh
  <2>5. Evaluating'
    <3>1. ~(job'.cons > 0)
          BY <1>4
    <3> QED
        BY <2>1, <2>3, <3>1, Zenon DEF Evaluating
  <2> QED
      BY <1>7, <2>4, <2>5 DEF Owned
<1>10. ErrorIsFirst' /\ SignalOrFailure' /\ Deactivated'
       BY <1>2, <1>4, <1>12
          DEF ErrorIsFirst, SignalOrFailure, At, Deactivated, ErrorDeactivates
<1>11. FirstFailureReported' /\ LeaksOnlyLate'
       BY <1>2 DEF FirstFailureReported, LeaksOnlyLate
<1> QED
    BY <1>8, <1>9, <1>10, <1>11 DEF Inv

(* An evaluation has as many calls as its function makes, and one when     *)
(* there is no gradient.                                                   *)
LEMMA EvaluationStarts ==
  ASSUME param \in Seq(Int), NEW which, NEW grad \in BOOLEAN, NEW back,
         StartEval(which, grad, back)
  PROVE  /\ pc' = "eval" /\ vals' = << >> /\ todo' \in Seq(Int \X Int)
         /\ todo' # << >> /\ Len(vals') = 0 /\ vals' \in Seq(Int)
         /\ ~grad => Len(todo') = 1
<1>1. todo' = Points(which, grad) /\ vals' = << >> /\ pc' = "eval"
      BY DEF StartEval
<1>2. Len(vals') = 0 /\ vals' \in Seq(Int)
      BY <1>1
<1> QED
    BY <1>1, <1>2, PointsType

(* An evaluation without a gradient is one call.                           *)
LEMMA OneCallStarts ==
  ASSUME param \in Seq(Int), NEW which, NEW back, StartEval(which, FALSE, back)
  PROVE  /\ pc' = "eval" /\ vals' \in Seq(Int) /\ todo' \in Seq(Int \X Int)
         /\ todo' # << >> /\ Len(vals') + Len(todo') = 1
<1>1. FALSE \in BOOLEAN
      OBVIOUS
<1>2. /\ pc' = "eval" /\ vals' \in Seq(Int) /\ todo' \in Seq(Int \X Int)
      /\ todo' # << >> /\ Len(vals') = 0 /\ (~FALSE => Len(todo') = 1)
      BY <1>1, EvaluationStarts, Zenon
<1>3. Len(vals') = 0 /\ Len(todo') = 1
      BY <1>2, Zenon
<1>4. Len(vals') + Len(todo') = 1
      BY <1>3
<1> QED
    BY <1>2, <1>4, Zenon

(* A call that has constraints has a number of them.                       *)
LEMMA ConCountType ==
  ASSUME Types, Refusal(call) = none, HasCon(call)
  PROVE  ConCount(call) \in Nat
<1>1. Method(call) \in {"conmax", "nlopt"}
      BY DEF HasCon, Method
<1>2. call \in Calls
      BY DEF Types
<1> QED
    BY <1>1, <1>2, NumbersAssumption, Zenon

(* While the routine runs nothing has been signalled, and what failed      *)
(* failed in it.                                                           *)
LEMMA EvaluateKeeps ==
  ASSUME Inv, Evaluate
  PROVE  Inv'
<1>1. PICK grad \in BOOLEAN, which \in Int :
        /\ StartEval(which, grad, "run")
        /\ job' = [job EXCEPT !.which = which, !.back = "run", !.evals = @ + 1]
  <2> DEFINE W == IF HasCon(call)
                  THEN 0..(ConCount(call) - (IF HasFun(call) THEN 0 ELSE 1))
                  ELSE {0}
             G == IF Method(call) = "conmax" THEN BOOLEAN ELSE {FALSE}
  <2>1. pc = "run" /\ Types /\ Refusal(call) = none
        BY DEF Evaluate, Inv, Fresh
  <2>2. W \subseteq Int
    <3>1. CASE HasCon(call)
          BY <2>1, <3>1, ConCountType
    <3>2. CASE ~HasCon(call)
          BY <3>2
    <3> QED
        BY <3>1, <3>2
  <2>3. G \subseteq BOOLEAN
        OBVIOUS
  <2>4. \E grad \in G, which \in W :
          /\ StartEval(which, grad, "run")
          /\ job' = [job EXCEPT !.which = which, !.back = "run", !.evals = @ + 1]
        BY DEF Evaluate
  <2> HIDE DEF W, G
  <2> QED
      BY <2>2, <2>3, <2>4
<1>2. PICK p \in [DOMAIN param -> Moves] : param' = p
      BY DEF Evaluate
<1>3. pc = "run" /\ UNCHANGED <<call, error, live, out>>
      BY DEF Evaluate
<1>4. param \in Seq(Int) /\ job \in Job /\ vals \in Seq(Int)
      BY DEF Inv, Types
<1>5. /\ pc' = "eval" /\ vals' \in Seq(Int) /\ todo' \in Seq(Int \X Int)
      /\ todo' # << >>
      BY <1>1, <1>4, EvaluationStarts
<1>6. param' \in Seq(Int)
  <2>1. DOMAIN param = 1 .. Len(param) /\ Len(param) \in Nat
        BY <1>4, LenProperties
  <2>3. Moves \subseteq Int
        OBVIOUS
  <2>2. p \in [1 .. Len(param) -> Int]
        BY <1>2, <2>1, <2>3
  <2> QED
      BY <1>2, <2>1, <2>2, SeqDef
<1>7. /\ job' \in Job /\ job'.back = "run" /\ job'.first = job.first
      /\ job'.late = job.late /\ job'.sig = job.sig /\ job'.cons = job.cons
  <2>1. "run" \in Backs /\ job.evals + 1 \in Nat
        BY <1>4 DEF Job, Backs
  <2> QED
      BY <1>1, <1>4, <2>1 DEF Job
<1>8. Types'
      BY <1>3, <1>5, <1>6, <1>7 DEF Inv, Types, Stages
<1>9. Fresh' /\ Evaluating' /\ Owned'
  <2>1. Fresh'
        BY <1>3, <1>5 DEF Inv, Fresh
  <2>2. Evaluating'
        BY <1>5, <1>7 DEF Evaluating, none
  <2> QED
      BY <1>3, <1>5, <2>1, <2>2 DEF Inv, Owned
<1>10. ErrorIsFirst' /\ SignalOrFailure'
       BY <1>3, <1>5, <1>7 DEF Inv, ErrorIsFirst, SignalOrFailure, At
<1>11. Deactivated'
       BY <1>5, <1>7 DEF Deactivated, At, ErrorDeactivates
<1>12. FirstFailureReported' /\ LeaksOnlyLate'
       BY <1>5 DEF FirstFailureReported, LeaksOnlyLate
<1> QED
    BY <1>8, <1>9, <1>10, <1>11, <1>12 DEF Inv

(* While functions are called there is an error exactly if one failed.     *)
LEMMA FirstIsError ==
  ASSUME Inv, pc \notin {"finish", "done"}
  PROVE  /\ error # no_error => job.first = error /\ error # none
         /\ error = no_error => job.first = none /\ ~job.late
<1>1. job.first \in Firsts
      BY DEF Inv, Types, Job
<1>2. no_error \notin Firsts /\ none # no_error
      BY DEF Firsts, no_error, none
<1>3. /\ job.first # none => error = job.first
      /\ error # no_error => job.first # none
      /\ job.late => job.first # none
      BY DEF Inv, ErrorIsFirst
<1> QED
    BY <1>1, <1>2, <1>3

(* A function is called: its first failure is kept, and is late when the   *)
(* routine has returned.                                                   *)
LEMMA EvalKeeps ==
  ASSUME Inv, eval_param
  PROVE  Inv'
<1>1. PICK a \in Answers :
        /\ error' = call_param(a).error
        /\ vals' = IF job.back = "run" THEN << >> ELSE Append(vals, call_param(a).v)
        /\ job' = [job EXCEPT
             !.first = IF @ = none /\ error = no_error
                          /\ call_param(a).error # no_error
                       THEN call_param(a).error ELSE @,
             !.late  = @ \/ /\ error = no_error /\ call_param(a).error # no_error
                            /\ job.back \in {"finish", "cons"},
             !.contyp = IF ~(Len(todo) = 1) THEN @
                        ELSE IF call_param(a).error # no_error THEN 0
                        ELSE contyp(job.which)]
        /\ pc' = IF Len(todo) = 1 THEN job.back ELSE pc
      BY DEF eval_param
<1>2. /\ pc = "eval" /\ todo' = Tail(todo)
      /\ UNCHANGED <<call, param, live, out>>
      BY DEF eval_param
<1> DEFINE e == call_param(a).error
           v == call_param(a).v
<1>3. /\ job \in Job /\ todo \in Seq(Int \X Int) /\ vals \in Seq(Int)
      /\ error \in Errors /\ Types
      BY DEF Inv, Types
<1>4. /\ v \in Int /\ e \in Errors
      /\ error # no_error => e = error
      /\ error = no_error => e \in {no_error} \cup (Firsts \ {none})
      BY <1>3, AnswerCounts
<1>5. /\ todo # << >> /\ job.back \in Backs \ {none}
      BY <1>2, <1>3 DEF Inv, Evaluating, Job
<1>6. /\ todo' \in Seq(Int \X Int) /\ Len(todo') = Len(todo) - 1
      /\ Len(todo) \in Nat \ {0}
      /\ todo' = << >> <=> Len(todo) = 1
  <2>1. /\ todo' \in Seq(Int \X Int) /\ Len(todo') = Len(todo) - 1
        BY <1>2, <1>3, <1>5, HeadTailProperties
  <2>2. Len(todo) \in Nat \ {0}
        BY <1>3, <1>5, LenProperties, EmptySeq
  <2>3. todo' = << >> <=> Len(todo') = 0
        BY <2>1, EmptySeq
  <2> QED
      BY <2>1, <2>2, <2>3
<1> HIDE DEF e, v
<1>7. /\ job' = [job EXCEPT
             !.first = IF job.first = none /\ error = no_error /\ e # no_error
                       THEN e ELSE job.first,
             !.late  = job.late \/ /\ error = no_error /\ e # no_error
                                   /\ job.back \in {"finish", "cons"},
             !.contyp = IF ~(Len(todo) = 1) THEN job.contyp
                        ELSE IF e # no_error THEN 0
                        ELSE contyp(job.which)]
      /\ error' = e
      /\ vals' = IF job.back = "run" THEN << >> ELSE Append(vals, v)
      BY <1>1 DEF e, v
<1>8. /\ error # no_error => job.first = error /\ error # none
      /\ error = no_error => job.first = none /\ ~job.late
      BY <1>2, FirstIsError
<1>9. contyp(job.which) \in Int /\ 0 \in Int
      BY DEF contyp
<1>10. /\ job' \in Job /\ job'.back = job.back /\ job'.evals = job.evals
       /\ job'.sig = job.sig /\ job'.cons = job.cons
       /\ job'.late <=> job.late \/ /\ error = no_error /\ e # no_error
                                    /\ job.back \in {"finish", "cons"}
       /\ Len(todo) = 1 /\ e # no_error => job'.contyp = 0
  <2>1. job.first = none /\ error = no_error /\ e # no_error => e \in Firsts
        BY <1>4
  <2> QED
      BY <1>3, <1>7, <1>9, <2>1 DEF Job
<1>11. job'.first = IF e # no_error THEN e ELSE none
  <2>1. job'.first = IF job.first = none /\ error = no_error /\ e # no_error
                     THEN e ELSE job.first
        BY <1>3, <1>7 DEF Job
  <2> QED
      BY <1>4, <1>8, <2>1
<1>12. e # none
       BY <1>4, <1>8 DEF Firsts, none, no_error
<1>13. vals' \in Seq(Int) /\ (job.back # "run" => Len(vals') = Len(vals) + 1)
       BY <1>3, <1>4, <1>7, AppendProperties
<1>14. pc' = IF Len(todo) = 1 THEN job.back ELSE "eval"
       BY <1>1, <1>2
<1>15. Types'
       BY <1>2, <1>4, <1>5, <1>6, <1>7, <1>10, <1>13, <1>14
          DEF Inv, Types, Stages, Backs
<1>16. Fresh'
  <2>1. pc' \notin {"entry", "done"}
        BY <1>5, <1>14 DEF Backs
  <2> QED
      BY <1>2, <2>1 DEF Inv, Fresh
<1>17. Evaluating'
  <2>1. pc' = "eval" <=> todo' # << >>
        BY <1>5, <1>6, <1>14 DEF Backs, none
  <2>2. job.back # "run" =>
          Len(vals') + Len(todo') = IF job.back = "ends" THEN 2 ELSE 1
    <3>1. SUFFICES ASSUME job.back # "run"
                   PROVE  Len(vals') + Len(todo') = Len(vals) + Len(todo)
          BY <1>2 DEF Inv, Evaluating
    <3>2. Len(vals) \in Nat
          BY <1>3, LenProperties
    <3>3. Len(vals') = Len(vals) + 1
          BY <1>13, <3>1
    <3>4. Len(todo') = Len(todo) - 1 /\ Len(todo) \in Nat
          BY <1>6
    <3> QED
        BY <3>2, <3>3, <3>4
  <2>3. /\ pc' = "ends" => job.back = "ends" /\ Len(todo') = 0
        /\ pc' = "cons" => job.back = "cons" /\ Len(todo') = 0
        BY <1>5, <1>6, <1>14 DEF Backs
  <2>4. Len(vals') \in Nat
        BY <1>13, LenProperties
  <2>5. /\ pc' = "ends" => Len(vals') = 2
        /\ pc' = "cons" => Len(vals') = 1
    <3>1. pc' = "ends" => Len(vals') + 0 = 2
          BY <2>2, <2>3
    <3>2. pc' = "cons" => Len(vals') + 0 = 1
          BY <2>2, <2>3
    <3> QED
        BY <2>4, <3>1, <3>2
  <2> QED
      BY <1>5, <1>10, <2>1, <2>2, <2>5 DEF Evaluating
<1>18. Owned'
  <2>1. pc' # "done" /\ pc # "done"
        BY <1>2, <1>5, <1>14 DEF Backs
  <2> QED
      BY <1>2, <2>1 DEF Inv, Owned
<1>19. ErrorIsFirst'
       BY <1>7, <1>8, <1>10, <1>11, <1>12, <1>4 DEF ErrorIsFirst
<1>20. SignalOrFailure'
  <2>1. job.back \in {"ends", "run"} => job.sig = none /\ ~job.late /\ job.cons = 0
        BY <1>2 DEF Inv, SignalOrFailure, At
  <2>2. job.back \in {"cons", "finish"} => (job.first # none => job.late)
        BY <1>2 DEF Inv, SignalOrFailure, At
  <2>3. job.first # none /\ ~job.late => job.sig = none
        BY DEF Inv, SignalOrFailure
  <2>4. job.back \in {"ends", "run"} =>
          job'.sig = none /\ ~job'.late /\ job'.cons = 0
        BY <1>10, <2>1
  <2>5. job.back \in {"cons", "finish"} => (job'.first # none => job'.late)
        BY <1>4, <1>8, <1>10, <1>11, <2>2
  <2>6. job'.first # none /\ ~job'.late => job'.sig = none
        BY <1>5, <1>10, <2>4, <2>5 DEF Backs, none
  <2> QED
      BY <1>5, <1>10, <1>14, <2>4, <2>5, <2>6 DEF SignalOrFailure, At, Backs
<1>21. Deactivated'
  <2>1. job.back = "ends" => job'.evals = 0
        BY <1>2, <1>10 DEF Inv, Deactivated, At
  <2>2. pc' = "run" /\ job'.first # none => job'.contyp = 0
        BY <1>10, <1>11, <1>14
  <2> QED
      BY <1>5, <1>10, <1>14, <2>1, <2>2 DEF Deactivated, At, ErrorDeactivates, Backs
<1>22. FirstFailureReported' /\ LeaksOnlyLate'
  <2>1. pc' # "done"
        BY <1>5, <1>14 DEF Backs
  <2> QED
      BY <2>1 DEF FirstFailureReported, LeaksOnlyLate
<1> QED
    BY <1>15, <1>16, <1>17, <1>18, <1>19, <1>20, <1>21, <1>22 DEF Inv

(* What a routine leaves are parameters.                                   *)
LEMMA LeftType ==
  ASSUME Types, NEW p \in Left
  PROVE  p \in Seq(Int)
<1>1. /\ param \in Seq(Int) /\ DOMAIN param = 1 .. Len(param)
      /\ Len(param) \in Nat
      BY LenProperties DEF Types
<1>2. nf \in Int
      BY DEF nf
<1>3. [i \in 1 .. Len(param) |-> nf] \in Seq(Int)
      BY <1>1, <1>2, IsASeq
<1> QED
    BY <1>1, <1>3 DEF Left

(* A signal is made only while nothing has failed.  Where a routine has    *)
(* returned, nothing is evaluated, or the objective once more.             *)
LEMMA RoutineEnds ==
  ASSUME Inv, pc = "run", pc' \in {"finish", "cons", "eval"},
         UNCHANGED <<call, error, out>>, param' \in Seq(Int),
         live' \subseteq live,
         job' \in Job, job'.first = job.first, job'.late = job.late,
         job'.evals = job.evals, job'.cons = job.cons,
         error # no_error => job'.sig = none,
         IF pc' = "eval"
         THEN /\ error = no_error /\ job'.back = "finish"
              /\ vals' \in Seq(Int) /\ todo' \in Seq(Int \X Int)
              /\ todo' # << >> /\ Len(vals') + Len(todo') = 1
         ELSE UNCHANGED <<todo, vals>>,
         pc' = "cons" => error = no_error /\ job.cons = 0
  PROVE  Inv'
<1>1. /\ error # no_error => job.first = error /\ error # none
      /\ error = no_error => job.first = none /\ ~job.late
      BY FirstIsError
<1>2. todo = << >> /\ ~job.late
      BY DEF Inv, Evaluating, SignalOrFailure, At
<1>3. Types'
      BY DEF Inv, Types, Stages
<1>4. Fresh' /\ Owned'
      BY DEF Inv, Fresh, Owned
<1>5. Evaluating'
  <2>1. CASE pc' = "eval"
        BY <2>1 DEF Evaluating, none
  <2>2. CASE pc' # "eval"
    <3>1. ~(pc' = "cons" /\ job'.cons > 0)
          OBVIOUS
    <3> QED
        BY <1>2, <2>2, <3>1, Zenon DEF Evaluating
  <2> QED
      BY <2>1, <2>2
<1>6. ErrorIsFirst'
      BY <1>1, <1>2 DEF ErrorIsFirst
<1>7. SignalOrFailure'
      BY <1>1, <1>2 DEF SignalOrFailure, At
<1>8. Deactivated'
      BY DEF Deactivated, At, ErrorDeactivates
<1>9. FirstFailureReported' /\ LeaksOnlyLate'
      BY DEF FirstFailureReported, LeaksOnlyLate
<1> QED
    BY <1>3, <1>4, <1>5, <1>6, <1>7, <1>8, <1>9 DEF Inv

(* conmax_ returns.                                                        *)
LEMMA SolveminKeeps ==
  ASSUME Inv, solvemin
  PROVE  Inv'
<1>1. PICK iter \in Int, ok \in BOOLEAN, p \in Left, s \in Signals :
        /\ param' = p
        /\ \/ error = no_error /\ StartEval(0, FALSE, "finish")
           \/ pc' = "finish" /\ UNCHANGED <<todo, vals>>
        /\ job' = [job EXCEPT !.iter = iter, !.ok = ok, !.which = 0,
                      !.sig = IF error = no_error THEN s ELSE none,
                      !.back = "finish"]
  <2>1. PICK iter \in -1..Iterations(call), ok \in BOOLEAN, p \in Left,
             s \in {"iter", "feas", "nan", none} :
          /\ param' = p
          /\ \/ error = no_error /\ StartEval(0, FALSE, "finish")
             \/ pc' = "finish" /\ UNCHANGED <<todo, vals>>
          /\ job' = [job EXCEPT !.iter = iter, !.ok = ok, !.which = 0,
                        !.sig = IF error = no_error THEN s ELSE none,
                        !.back = "finish"]
        BY ZenonT(40) DEF solvemin
  <2>2. s \in Signals
        BY <2>1 DEF Signals
  <2>3. iter \in Int
        BY <2>1
  <2> QED
      BY <2>1, <2>2, <2>3
<1>2. /\ pc = "run" /\ live' = live \ Scratch /\ UNCHANGED <<call, error, out>>
      BY DEF solvemin
<1>3. param' \in Seq(Int) /\ param \in Seq(Int) /\ job \in Job
      BY <1>1, LeftType DEF Inv, Types
<1>4. /\ job' \in Job /\ job'.first = job.first /\ job'.late = job.late
      /\ job'.evals = job.evals /\ job'.cons = job.cons
      /\ error # no_error => job'.sig = none
      /\ job'.back = "finish"
  <2> DEFINE t == IF error = no_error THEN s ELSE none
  <2>1. t \in Signals /\ (error # no_error => t = none)
        BY <1>1 DEF Signals
  <2>2. "finish" \in Backs /\ 0 \in Int
        BY DEF Backs
  <2>3. job' = [job EXCEPT !.iter = iter, !.ok = ok, !.which = 0, !.sig = t,
                   !.back = "finish"]
        BY <1>1
  <2>4. iter \in Int /\ ok \in BOOLEAN
        BY <1>1
  <2> HIDE DEF t
  <2> QED
      BY <1>3, <2>1, <2>2, <2>3, <2>4 DEF Job
<1>5. CASE error = no_error /\ StartEval(0, FALSE, "finish")
  <2>1. /\ pc' = "eval" /\ vals' \in Seq(Int) /\ todo' \in Seq(Int \X Int)
        /\ todo' # << >> /\ Len(vals') + Len(todo') = 1
        BY <1>3, <1>5, OneCallStarts
  <2> QED
      BY <1>2, <1>3, <1>4, <1>5, <2>1, RoutineEnds
<1>6. CASE pc' = "finish" /\ UNCHANGED <<todo, vals>>
      BY <1>2, <1>3, <1>4, <1>6, RoutineEnds
<1> QED
    BY <1>1, <1>5, <1>6

(* The ends of root are its first evaluation.                              *)
LEMMA RootKeeps ==
  ASSUME Inv, root
  PROVE  Inv'
<1> DEFINE f == item_F(call.start, 0)[2]
           g == item_F(call.start, 1)[2]
<1>1. /\ pc = "entry" /\ Refusal(call) = none /\ Method(call) = "muller"
      /\ param' = <<min_i(f, g)>>
      /\ todo' = <<<<0, 0>>, <<1, max_i(f, g) - min_i(f, g)>>>>
      /\ vals' = << >> /\ pc' = "eval"
      /\ job' = [job EXCEPT !.arg = 1, !.back = "ends"]
      /\ UNCHANGED <<call, error, live, out>>
      BY DEF root
<1>2. job = Job0 /\ error = no_error /\ live = {} /\ out.kind = "none"
      BY <1>1 DEF Inv, Fresh
<1>3. f \in Int /\ g \in Int
  <2>1. call \in Calls
        BY DEF Inv, Types
  <2>2. \A i \in {0, 1} : item_F(call.start, i)[2] \in Int
        BY <1>1, <2>1, NumbersAssumption, Zenon
  <2> QED
      BY <2>2, Zenon
<1> HIDE DEF f, g
<1>4. min_i(f, g) \in Int /\ max_i(f, g) - min_i(f, g) \in Int
      BY <1>3 DEF min_i, max_i
<1>5. /\ param' \in Seq(Int) /\ vals' \in Seq(Int) /\ todo' \in Seq(Int \X Int)
      /\ todo' # << >> /\ Len(vals') + Len(todo') = 2
      BY <1>1, <1>4
<1>6. /\ job' \in Job /\ job'.back = "ends" /\ job'.first = job.first
      /\ job'.late = job.late /\ job'.sig = job.sig /\ job'.cons = job.cons
      /\ job'.evals = job.evals
  <2>1. job \in Job /\ "ends" \in Backs
        BY DEF Inv, Types, Backs
  <2> QED
      BY <1>1, <2>1 DEF Job
<1>7. /\ job'.first = none /\ ~job'.late /\ job'.sig = none /\ job'.cons = 0
      /\ job'.evals = 0
      BY <1>2, <1>6 DEF Job0
<1>8. Types'
      BY <1>1, <1>5, <1>6 DEF Inv, Types, Stages
<1>9. Fresh' /\ Owned'
      BY <1>1, <1>2 DEF Fresh, Owned
<1>10. Evaluating'
       BY <1>1, <1>5, <1>6 DEF Evaluating, none
<1>11. ErrorIsFirst' /\ SignalOrFailure' /\ Deactivated'
       BY <1>1, <1>2, <1>6, <1>7
          DEF ErrorIsFirst, SignalOrFailure, At, Deactivated, ErrorDeactivates
<1>12. FirstFailureReported' /\ LeaksOnlyLate'
       BY <1>1 DEF FirstFailureReported, LeaksOnlyLate
<1> QED
    BY <1>8, <1>9, <1>10, <1>11, <1>12 DEF Inv

(* The sign is turned between the evaluation of the ends and the search.   *)
LEMMA RootSignKeeps ==
  ASSUME Inv, root_sign
  PROVE  Inv'
<1> DEFINE turn == vals[1] < -Tolerance(call) /\ vals[2] > Tolerance(call)
           s == IF turn THEN -1 ELSE 1
           z == IF turn THEN <<-vals[1], -vals[2]>> ELSE vals
<1>1. /\ pc = "ends" /\ pc' = "run"
      /\ job' = [job EXCEPT !.sign = s, !.ends = z]
      /\ UNCHANGED <<call, param, todo, vals, error, live, out>>
      BY DEF root_sign
<1>2. vals \in Seq(Int) /\ Len(vals) = 2
      BY <1>1 DEF Inv, Types, Evaluating
<1>3. vals[1] \in Int /\ vals[2] \in Int
      BY <1>2, ElementOfSeq
<1>4. s \in {-1, 1} /\ z \in Seq(Int)
  <2>1. <<-vals[1], -vals[2]>> \in Seq(Int)
        BY <1>3
  <2> QED
      BY <1>2, <2>1
<1> HIDE DEF s, z
<1>5. /\ job' \in Job /\ job'.back = job.back /\ job'.first = job.first
      /\ job'.late = job.late /\ job'.sig = job.sig /\ job'.cons = job.cons
      /\ job'.evals = job.evals
  <2>1. job \in Job
        BY DEF Inv, Types
  <2> QED
      BY <1>1, <1>4, <2>1 DEF Job
<1>6. Types'
      BY <1>1, <1>5 DEF Inv, Types, Stages
<1>7. Fresh' /\ Owned' /\ Evaluating'
      BY <1>1 DEF Inv, Fresh, Owned, Evaluating
<1>8. ErrorIsFirst' /\ SignalOrFailure'
      BY <1>1, <1>5 DEF Inv, ErrorIsFirst, SignalOrFailure, At
<1>9. Deactivated'
      BY <1>1, <1>5 DEF Inv, Deactivated, At, ErrorDeactivates
<1>10. FirstFailureReported' /\ LeaksOnlyLate'
       BY <1>1 DEF FirstFailureReported, LeaksOnlyLate
<1> QED
    BY <1>6, <1>7, <1>8, <1>9, <1>10 DEF Inv

(* muller_ returns.                                                        *)
LEMMA RootEndKeeps ==
  ASSUME Inv, root_end
  PROVE  Inv'
<1>1. PICK iter \in Int, ok \in BOOLEAN, p \in Left, s \in Signals :
        /\ param' = p
        /\ job' = [job EXCEPT !.iter = iter, !.ok = ok, !.sig = s]
        /\ error # no_error => s = none
  <2>1. PICK iter \in 0..Iterations(call), ok \in BOOLEAN, p \in Left,
             t \in {"iter", "feas", "nan", none} :
          /\ param' = p
          /\ job' = [job EXCEPT !.iter = iter, !.ok = ok,
                        !.sig = IF error # no_error THEN none
                                ELSE IF t # none /\ ~Bracketed THEN "sign"
                                ELSE t]
        BY DEF root_end
  <2> DEFINE s == IF error # no_error THEN none
                  ELSE IF t # none /\ ~Bracketed THEN "sign" ELSE t
  <2>2. s \in Signals /\ (error # no_error => s = none)
        BY <2>1 DEF Signals
  <2>3. iter \in Int
        BY <2>1
  <2> QED
      BY <2>1, <2>2, <2>3
<1>2. /\ pc = "run" /\ pc' = "finish"
      /\ UNCHANGED <<call, todo, vals, error, live, out>>
      BY DEF root_end
<1>3. param' \in Seq(Int) /\ job \in Job
      BY <1>1, LeftType DEF Inv, Types
<1>4. /\ job' \in Job /\ job'.first = job.first /\ job'.late = job.late
      /\ job'.evals = job.evals /\ job'.cons = job.cons
      /\ error # no_error => job'.sig = none
      BY <1>1, <1>3 DEF Job
<1> QED
    BY <1>2, <1>3, <1>4, RoutineEnds

(* line starts at base.                                                    *)
LEMMA LineKeeps ==
  ASSUME Inv, line
  PROVE  Inv'
<1> DEFINE a == IF convert_f(call.start) < convert_f(call.base) THEN -1 ELSE 1
<1>1. /\ pc = "entry" /\ Refusal(call) = none
      /\ param' = <<0>> /\ pc' = "run"
      /\ job' = [job EXCEPT !.arg = a]
      /\ UNCHANGED <<call, todo, vals, error, live, out>>
      BY DEF line
<1>2. /\ job = Job0 /\ error = no_error /\ live = {} /\ out.kind = "none"
      /\ todo = << >>
      BY <1>1 DEF Inv, Fresh
<1>3. a \in {-1, 0, 1}
      OBVIOUS
<1> HIDE DEF a
<1>4. param' \in Seq(Int)
      BY <1>1
<1>5. /\ job' \in Job /\ job'.back = job.back /\ job'.first = job.first
      /\ job'.late = job.late /\ job'.sig = job.sig /\ job'.cons = job.cons
      /\ job'.evals = job.evals
  <2>1. job \in Job
        BY DEF Inv, Types
  <2> QED
      BY <1>1, <1>3, <2>1 DEF Job
<1>6. /\ job'.first = none /\ ~job'.late /\ job'.sig = none /\ job'.cons = 0
      BY <1>2, <1>5 DEF Job0
<1>7. Types'
      BY <1>1, <1>4, <1>5 DEF Inv, Types, Stages
<1>8. Fresh' /\ Owned' /\ Evaluating'
      BY <1>1, <1>2 DEF Fresh, Owned, Evaluating
<1>9. ErrorIsFirst' /\ SignalOrFailure' /\ Deactivated'
      BY <1>1, <1>2, <1>6
         DEF ErrorIsFirst, SignalOrFailure, At, Deactivated, ErrorDeactivates
<1>10. FirstFailureReported' /\ LeaksOnlyLate'
       BY <1>1 DEF FirstFailureReported, LeaksOnlyLate
<1> QED
    BY <1>7, <1>8, <1>9, <1>10 DEF Inv

(* searsl_ returns.                                                        *)
LEMMA LineEndKeeps ==
  ASSUME Inv, line_end
  PROVE  Inv'
<1>1. PICK iter \in Int, p \in Left, s \in Signals :
        /\ param' = p
        /\ job' = [job EXCEPT !.iter = iter, !.sig = s]
        /\ error # no_error => s = none
  <2>1. PICK iter \in 0..Iterations(call), p \in Left :
          /\ param' = p
          /\ job' = [job EXCEPT !.iter = iter,
                        !.sig = IF error # no_error              THEN none
                                ELSE IF iter >= Iterations(call) THEN "iter"
                                ELSE IF p[1] = nf                THEN "nan"
                                ELSE none]
        BY DEF line_end
  <2> DEFINE s == IF error # no_error              THEN none
                  ELSE IF iter >= Iterations(call) THEN "iter"
                  ELSE IF p[1] = nf                THEN "nan"
                  ELSE none
  <2>2. s \in Signals /\ (error # no_error => s = none)
        BY DEF Signals
  <2>3. iter \in Int
        BY <2>1
  <2> QED
      BY <2>1, <2>2, <2>3
<1>2. /\ pc = "run" /\ pc' = "finish"
      /\ UNCHANGED <<call, todo, vals, error, live, out>>
      BY DEF line_end
<1>3. param' \in Seq(Int) /\ job \in Job
      BY <1>1, LeftType DEF Inv, Types
<1>4. /\ job' \in Job /\ job'.first = job.first /\ job'.late = job.late
      /\ job'.evals = job.evals /\ job'.cons = job.cons
      /\ error # no_error => job'.sig = none
      BY <1>1, <1>3 DEF Job
<1> QED
    BY <1>2, <1>3, <1>4, RoutineEnds

(* NLopt returns: the constraints are evaluated once more, the first one   *)
(* first, unless something failed.                                         *)
LEMMA NloptminKeeps ==
  ASSUME Inv, nloptmin
  PROVE  Inv'
<1>1. PICK p \in Left, s \in Signals :
        /\ param' = p
        /\ job' = [job EXCEPT !.sig = s]
        /\ error # no_error => s = none
  <2>1. PICK result \in Results, p \in Left :
          /\ param' = p
          /\ job' = [job EXCEPT !.sig = IF error # no_error THEN none
                                        ELSE Signal(result, p)]
        BY DEF nloptmin
  <2> DEFINE s == IF error # no_error THEN none ELSE Signal(result, p)
  <2>2. Signal(result, p) \in Signals /\ none \in Signals
        BY <2>1 DEF Results, Signal, Signals
  <2>3. s \in Signals /\ (error # no_error => s = none)
        BY <2>2
  <2> QED
      BY <2>1, <2>3
<1>2. /\ pc = "run" /\ live' = live \ Scratch
      /\ pc' = IF error # no_error THEN "finish" ELSE "cons"
      /\ UNCHANGED <<call, todo, vals, error, out>>
      BY DEF nloptmin
<1>3. param' \in Seq(Int) /\ job \in Job /\ job.cons = 0
      BY <1>1, <1>2, LeftType DEF Inv, Types, SignalOrFailure, At
<1>4. /\ job' \in Job /\ job'.first = job.first /\ job'.late = job.late
      /\ job'.evals = job.evals /\ job'.cons = job.cons
      /\ error # no_error => job'.sig = none
      BY <1>1, <1>3 DEF Job
<1> QED
    BY <1>2, <1>3, <1>4, RoutineEnds

(* What fails while the constraints are evaluated again fails late.        *)
LEMMA ConsKeeps ==
  ASSUME Inv, nloptmin_cons
  PROVE  Inv'
<1> DEFINE done == job.cons
           worst == IF done > 0 THEN max_i(job.con_err, vals[1]) ELSE 0
           more == HasCon(call) /\ done < ConCount(call)
           over == job.sig = none /\ HasCon(call) /\ worst > Tolerance(call)
           s == IF over THEN "feas" ELSE job.sig
<1>1. pc = "cons" /\ UNCHANGED <<call, param, error, live, out>>
      BY DEF nloptmin_cons
<1>2. \/ /\ StartEval(done + 1, FALSE, "cons")
         /\ job' = [job EXCEPT !.cons = done + 1, !.con_err = worst,
                               !.which = done + 1, !.back = "cons"]
      \/ /\ pc' = "finish"
         /\ job' = [job EXCEPT !.con_err = worst, !.sig = s]
         /\ UNCHANGED <<todo, vals>>
      BY DEF nloptmin_cons
<1>3. job \in Job /\ vals \in Seq(Int) /\ param \in Seq(Int) /\ todo = << >>
      BY <1>1 DEF Inv, Types, Evaluating
<1>4. done \in Nat /\ job.con_err \in Int /\ job.sig \in Signals
      BY <1>3 DEF Job
<1>5. done > 0 => vals[1] \in Int
  <2>1. done > 0 => Len(vals) = 1
        BY <1>1 DEF Inv, Evaluating
  <2> QED
      BY <1>3, <2>1, ElementOfSeq
<1>6. worst \in Int
      BY <1>4, <1>5 DEF max_i
<1> HIDE DEF worst
<1>7. s \in Signals
      BY <1>4 DEF Signals
<1> HIDE DEF s
<1>8. job.first # none => job.late
      BY <1>1 DEF Inv, SignalOrFailure, At
<1>9. /\ error # no_error => job.first = error /\ error # none
      /\ error = no_error => job.first = none /\ ~job.late
      BY <1>1, FirstIsError
<1>10. CASE /\ StartEval(done + 1, FALSE, "cons")
            /\ job' = [job EXCEPT !.cons = done + 1, !.con_err = worst,
                                  !.which = done + 1, !.back = "cons"]
  <2>1. /\ pc' = "eval" /\ vals' \in Seq(Int) /\ todo' \in Seq(Int \X Int)
        /\ todo' # << >> /\ Len(vals') + Len(todo') = 1
        BY <1>3, <1>10, OneCallStarts
  <2>2. /\ job' \in Job /\ job'.back = "cons" /\ job'.first = job.first
        /\ job'.late = job.late /\ job'.sig = job.sig /\ job'.evals = job.evals
    <3>1. done + 1 \in Nat /\ done + 1 \in Int /\ "cons" \in Backs
          BY <1>4 DEF Backs
    <3> QED
        BY <1>3, <1>6, <1>10, <3>1 DEF Job
  <2> HIDE DEF done
  <2>3. Types'
        BY <1>1, <2>1, <2>2 DEF Inv, Types, Stages
  <2>4. Fresh' /\ Owned' /\ Evaluating'
        BY <1>1, <2>1, <2>2 DEF Inv, Fresh, Owned, Evaluating, none
  <2>5. ErrorIsFirst' /\ SignalOrFailure'
        BY <1>1, <1>8, <1>9, <2>1, <2>2 DEF Inv, ErrorIsFirst, SignalOrFailure, At
  <2>6. Deactivated' /\ FirstFailureReported' /\ LeaksOnlyLate'
        BY <2>1, <2>2 DEF Deactivated, At, ErrorDeactivates,
                          FirstFailureReported, LeaksOnlyLate
  <2> QED
      BY <2>3, <2>4, <2>5, <2>6 DEF Inv
<1>11. CASE /\ pc' = "finish"
            /\ job' = [job EXCEPT !.con_err = worst, !.sig = s]
            /\ UNCHANGED <<todo, vals>>
  <2>1. /\ job' \in Job /\ job'.back = job.back /\ job'.first = job.first
        /\ job'.late = job.late /\ job'.evals = job.evals
        BY <1>3, <1>6, <1>7, <1>11 DEF Job
  <2>2. Types'
        BY <1>1, <1>11, <2>1 DEF Inv, Types, Stages
  <2>3. Fresh' /\ Owned' /\ Evaluating'
        BY <1>1, <1>11 DEF Inv, Fresh, Owned, Evaluating
  <2>4. ErrorIsFirst' /\ SignalOrFailure'
        BY <1>1, <1>8, <1>9, <1>11, <2>1
           DEF Inv, ErrorIsFirst, SignalOrFailure, At
  <2>5. Deactivated' /\ FirstFailureReported' /\ LeaksOnlyLate'
        BY <1>11 DEF Deactivated, At, ErrorDeactivates,
                     FirstFailureReported, LeaksOnlyLate
  <2> QED
      BY <2>2, <2>3, <2>4, <2>5 DEF Inv
<1> QED
    BY <1>2, <1>10, <1>11

(* The first failure wins over any value; everything is freed, and what is *)
(* made although there is an error is lost.                                *)
LEMMA FinishKeeps ==
  ASSUME Inv, Finish
  PROVE  Inv'
<1> DEFINE raise == job.sig # none /\ ~Flag(call, "quiet")
           skip  == raise \/ (error # no_error /\ ~job.late)
           made  == IF skip THEN {}
                    ELSE IF Flag(call, "full") /\ job.sig # none THEN {"x", "last"}
                    ELSE {"x"}
           e     == IF raise THEN job.sig ELSE error
<1>1. /\ pc = "finish" /\ pc' = "done"
      /\ UNCHANGED <<call, job, param, todo, vals, error>>
      BY DEF Finish
<1>2. IF e # no_error
      THEN /\ out' = Raised(e)
           /\ live' = (live \ (Arrays \cup {"start"})) \cup made
      ELSE /\ live' = live \ (Arrays \cup {"start"})
           /\ out'.kind = "value"
      BY DEF Finish
<1>3. /\ job.sig \in Signals /\ job.first \in Firsts /\ error \in Errors
      /\ live \subseteq Arrays \cup {"start"} /\ todo = << >>
      BY <1>1 DEF Inv, Types, Job, Owned, Evaluating
<1>4. no_error \notin Signals /\ no_error \notin Firsts
      BY DEF no_error, none, Signals, Firsts
<1>5. /\ job.first # none => error = job.first
      /\ job.late => job.first # none
      /\ job.first # none /\ ~job.late => job.sig = none
      BY DEF Inv, ErrorIsFirst, SignalOrFailure
<1>6. /\ Raised(e).kind = "error" /\ Raised(e).sig = e
      BY DEF Raised, NoOut
<1>7. /\ raise => e = job.sig /\ job.sig # none
      /\ ~raise => e = error
      OBVIOUS
<1>8. /\ made \subseteq {"x", "last"}
      /\ made # {} => ~raise /\ (error = no_error \/ job.late)
      OBVIOUS
<1> HIDE DEF raise, made, e
<1>9. out'.kind \in {"error", "value"}
      BY <1>2, <1>6
<1>10. Types'
  <2>1. out'.kind \in {"none", "error", "value"}
        BY <1>9
  <2> QED
      BY <1>1, <2>1 DEF Inv, Types, Stages
<1>11. Fresh' /\ Evaluating' /\ Owned'
       BY <1>1, <1>3, <1>9 DEF Fresh, Evaluating, Owned
<1>12. ErrorIsFirst' /\ SignalOrFailure' /\ Deactivated'
       BY <1>1, <1>5
          DEF ErrorIsFirst, SignalOrFailure, At, Deactivated, ErrorDeactivates
<1>13. FirstFailureReported'
  <2>1. SUFFICES ASSUME job.first # none
                 PROVE  /\ out'.kind = "error"
                        /\ ~job.late => out'.sig = job.first
                        /\ out'.sig \in {job.first, job.sig}
        BY <1>1 DEF FirstFailureReported
  <2>2. e # no_error /\ e \in {job.first, job.sig}
        BY <1>3, <1>4, <1>5, <1>7, <2>1
  <2>3. ~job.late => e = job.first
        BY <1>5, <1>7, <2>1
  <2> QED
      BY <1>2, <1>6, <2>2, <2>3
<1>14. LeaksOnlyLate'
  <2>1. live \ (Arrays \cup {"start"}) = {}
        BY <1>3
  <2>2. live' = {} \/ (live' = made /\ e # no_error)
        BY <1>2, <2>1
  <2>3. live' \subseteq {"x", "last"}
        BY <1>8, <2>2
  <2>4. live' # {} => job.late
        BY <1>7, <1>8, <2>2
  <2> QED
      BY <1>1, <2>3, <2>4 DEF LeaksOnlyLate
<1> QED
    BY <1>10, <1>11, <1>12, <1>13, <1>14 DEF Inv

(* Nothing happens once a call is done.                                    *)
LEMMA NothingKeeps ==
  ASSUME Inv, UNCHANGED vars
  PROVE  Inv'
<1>1. Types' /\ Fresh' /\ Evaluating' /\ Owned'
      BY DEF Inv, vars, Types, Fresh, Evaluating, Owned
<1>2. ErrorIsFirst' /\ SignalOrFailure' /\ Deactivated'
      BY DEF Inv, vars, ErrorIsFirst, SignalOrFailure, At, Deactivated,
             ErrorDeactivates
<1>3. FirstFailureReported' /\ LeaksOnlyLate'
      BY DEF Inv, vars, FirstFailureReported, LeaksOnlyLate
<1> QED
    BY <1>1, <1>2, <1>3 DEF Inv

(* Every step.                                                             *)
LEMMA InvNext == Inv /\ [Next]_vars => Inv'
<1> SUFFICES ASSUME Inv, [Next]_vars PROVE Inv'
    OBVIOUS
<1>1. CASE Refuse
      BY <1>1, RefuseKeeps
<1>2. CASE Allocate
      BY <1>2, AllocateKeeps
<1>3. CASE Evaluate
      BY <1>3, EvaluateKeeps
<1>4. CASE eval_param
      BY <1>4, EvalKeeps
<1>5. CASE solvemin
      BY <1>5, SolveminKeeps
<1>6. CASE root
      BY <1>6, RootKeeps
<1>7. CASE root_sign
      BY <1>7, RootSignKeeps
<1>8. CASE root_end
      BY <1>8, RootEndKeeps
<1>9. CASE line
      BY <1>9, LineKeeps
<1>10. CASE line_end
       BY <1>10, LineEndKeeps
<1>11. CASE nloptmin
       BY <1>11, NloptminKeeps
<1>12. CASE nloptmin_cons
       BY <1>12, ConsKeeps
<1>13. CASE Finish
       BY <1>13, FinishKeeps
<1>14. CASE Done \/ UNCHANGED vars
       BY <1>14, NothingKeeps DEF Done
<1> QED
    BY <1>1, <1>2, <1>3, <1>4, <1>5, <1>6, <1>7, <1>8, <1>9, <1>10, <1>11,
       <1>12, <1>13, <1>14, Zenon DEF Next

-----------------------------------------------------------------------------
(* What the results mean: a second invariant, for the parts of a result    *)
(* that no failure touches.                                                *)

(* Where a call is tells which routine it is in.                           *)
Ways ==
  /\ At({"ends"}) => Method(call) = "muller"
  /\ At({"cons"}) => Method(call) = "nlopt"
  /\ pc = "eval" /\ job.back = "finish" => Method(call) = "conmax"

(* All constraints of NLopt are evaluated before a call without an error   *)
(* finishes.                                                               *)
Met == Method(call) = "nlopt" /\ HasCon(call) =>
         /\ job.cons = ConCount(call)
         /\ job.sig = none => job.con_err <= Tolerance(call)
Constraints ==
  /\ At({"cons"}) /\ HasCon(call) => job.cons <= ConCount(call)
  /\ pc = "finish" /\ error = no_error => Met

(* The values at the ends decide between the signals of root.              *)
Apart == IF vals[1] > Tolerance(call) THEN vals[2] < -Tolerance(call)
         ELSE vals[1] < -Tolerance(call) /\ vals[2] > Tolerance(call)
Ends ==
  Method(call) = "muller" =>
    /\ pc = "run" /\ job.evals = 0 => (Apart <=> Bracketed)
    /\ pc = "eval" /\ job.back = "run" => job.evals > 0
    /\ pc \in {"finish", "done"} /\ job.sig # none =>
          (job.sig = "sign" <=> ~Bracketed)
    /\ pc = "done" /\ out.sig = "sign" => job.sig = "sign"

(* The parameter of line is a distance, and its direction that of start.   *)
Towards == IF convert_f(call.start) < convert_f(call.base) THEN -1 ELSE 1
Direction ==
  Method(call) = "searsl" =>
    /\ At({"run"}) => job.arg = Towards /\ Len(param) = 1
    /\ pc = "eval" => param[1] \in Nat

Kept == Ways /\ Constraints /\ Ends /\ Direction /\ FeasibleOrSignal

(* A call that is not done has no result.                                  *)
LEMMA Undone ==
  ASSUME Inv', pc' # "done"
  PROVE  FeasibleOrSignal'
BY DEF Inv, Fresh, FeasibleOrSignal

(* Nothing is claimed of a call that has just begun.                       *)
LEMMA KeptInit == Init => Kept
<1> SUFFICES ASSUME Init PROVE Kept
    OBVIOUS
<1>1. pc = "entry" /\ out.kind = "none"
      BY DEF Init, NoOut
<1>2. Ways /\ Constraints /\ FeasibleOrSignal
      BY <1>1 DEF Ways, Constraints, At, FeasibleOrSignal
<1>3. Ends /\ Direction
      BY <1>1 DEF Ends, Direction, At
<1> QED
    BY <1>2, <1>3 DEF Kept

(* No refusal is a signal of root.                                         *)
LEMMA RefuseKept ==
  ASSUME Inv, Refuse
  PROVE  Kept'
<1>1. /\ pc = "entry" /\ pc' = "done" /\ out'.kind = "error"
      /\ out'.sig = Refusal(call) /\ call' = call /\ job' = job
      BY DEF Refuse, Raised, NoOut
<1>2. job.sig = none
      BY <1>1 DEF Inv, Fresh, Job0
<1>3. Method(call) = "muller" => Refusal(call) # "sign"
      BY DEF Refusal, root_refuses, none
<1>4. Ways' /\ Constraints' /\ FeasibleOrSignal' /\ Direction'
      BY <1>1 DEF Ways, Constraints, At, FeasibleOrSignal, Direction
<1>5. Ends'
      BY <1>1, <1>2, <1>3 DEF Ends
<1> QED
    BY <1>4, <1>5 DEF Kept

(* A call whose start has a NaN skips the routine, not the constraints.    *)
LEMMA AllocateKept ==
  ASSUME Inv, Inv', Allocate
  PROVE  Kept'
<1>1. /\ pc = "entry" /\ Refusal(call) = none /\ call' = call
      /\ Method(call) \in {"conmax", "nlopt"}
      BY DEF Allocate
<1>2. PICK nan \in BOOLEAN :
        /\ nan => Method(call) = "nlopt"
        /\ pc' = IF error' # no_error THEN "finish"
                 ELSE IF nan THEN "cons" ELSE "run"
  <2> DEFINE q == Flat(Floats(call.start))
             nan == Method(call) = "nlopt" /\ \E i \in DOMAIN q : q[i] = nf
  <2>1. pc' = IF error' # no_error THEN "finish"
              ELSE IF nan THEN "cons" ELSE "run"
        BY DEF Allocate
  <2>2. nan \in BOOLEAN /\ (nan => Method(call) = "nlopt")
        OBVIOUS
  <2> QED
      BY <2>1, <2>2
<1>3. job'.cons = 0
  <2>1. job \in Job /\ job.cons = 0
        BY <1>1 DEF Inv, Types, Fresh, Job0
  <2> QED
      BY <2>1 DEF Allocate, Job
<1>4. HasCon(call) => ConCount(call) \in Nat
      BY <1>1, ConCountType DEF Inv
<1>5. Ways' /\ Ends' /\ Direction'
      BY <1>1, <1>2 DEF Ways, Ends, Direction, At
<1>6. Constraints'
  <2>1. pc' = "finish" => error' # no_error
        BY <1>2
  <2>2. pc' # "eval"
        BY <1>2
  <2>3. HasCon(call') => job'.cons <= ConCount(call')
        BY <1>1, <1>3, <1>4
  <2> QED
      BY <2>1, <2>2, <2>3 DEF Constraints, At
<1>7. FeasibleOrSignal'
      BY <1>2, Undone
<1> QED
    BY <1>5, <1>6, <1>7 DEF Kept

(* The routine of line tries distances.                                    *)
LEMMA EvaluateKept ==
  ASSUME Inv, Inv', Kept, Evaluate
  PROVE  Kept'
<1>1. pc = "run" /\ pc' = "eval" /\ call' = call
      BY DEF Evaluate, StartEval
<1>2. /\ job'.back = "run" /\ job'.arg = job.arg /\ job'.evals = job.evals + 1
      /\ job.evals \in Nat
  <2>1. job \in Job
        BY DEF Inv, Types
  <2>2. \E which : job' = [job EXCEPT !.which = which, !.back = "run",
                                     !.evals = @ + 1]
        BY DEF Evaluate
  <2> QED
      BY <2>1, <2>2 DEF Job
<1>3. Ways' /\ Constraints'
      BY <1>1, <1>2 DEF Ways, Constraints, At
<1>4. Ends'
      BY <1>1, <1>2 DEF Ends
<1>5. Direction'
  <2>1. SUFFICES ASSUME Method(call) = "searsl"
                 PROVE  /\ job'.arg = Towards' /\ Len(param') = 1
                        /\ param'[1] \in Nat
        BY <1>1 DEF Direction
  <2>2. job.arg = Towards /\ Len(param) = 1
        BY <1>1, <2>1 DEF Kept, Direction, At
  <2>3. Towards' = Towards
        BY <1>1 DEF Towards
  <2>4. param \in Seq(Int) /\ param' \in Seq(Int)
        BY DEF Inv, Types
  <2>5. DOMAIN param = {1}
        BY <2>2, <2>4
  <2>6. param' \in [{1} -> Moves]
        BY <2>5 DEF Evaluate
  <2>7. param'[1] \in Nat
        BY <2>6
  <2>8. Len(param') = 1
        BY <2>4, <2>6
  <2> QED
      BY <1>2, <2>2, <2>3, <2>7, <2>8
<1> QED
    BY <1>1, <1>3, <1>4, <1>5, Undone DEF Kept

(* A call changes none of it.                                              *)
LEMMA EvalKept ==
  ASSUME Inv, Inv', Kept, eval_param
  PROVE  Kept'
<1>1. /\ pc = "eval" /\ (pc' = "eval" \/ pc' = job.back)
      /\ UNCHANGED <<call, param>>
      BY DEF eval_param
<1>2. job.back \in {"ends", "run", "cons", "finish"}
      BY <1>1 DEF Inv, Types, Job, Backs, Evaluating
<1>3. /\ job'.back = job.back /\ job'.cons = job.cons /\ job'.sig = job.sig
      /\ job'.evals = job.evals /\ job'.arg = job.arg
  <2>1. job \in Job
        BY DEF Inv, Types
  <2>2. PICK a \in Answers :
          job' = [job EXCEPT
             !.first = IF @ = none /\ error = no_error
                          /\ call_param(a).error # no_error
                       THEN call_param(a).error ELSE @,
             !.late  = @ \/ /\ error = no_error /\ call_param(a).error # no_error
                            /\ job.back \in {"finish", "cons"},
             !.contyp = IF ~(Len(todo) = 1) THEN @
                        ELSE IF call_param(a).error # no_error THEN 0
                        ELSE contyp(job.which)]
        BY DEF eval_param
  <2> QED
      BY <2>1, <2>2 DEF Job
<1>4. Ways'
      BY <1>1, <1>2, <1>3 DEF Kept, Ways, At
<1>5. Constraints'
  <2>1. pc' = "finish" => Method(call') = "conmax"
        BY <1>1 DEF Kept, Ways
  <2>2. At({"cons"})' => At({"cons"})
        BY <1>1, <1>2, <1>3 DEF At
  <2>3. pc' = "finish" => Met'
        BY <2>1 DEF Met
  <2> QED
      BY <1>1, <1>3, <2>2, <2>3 DEF Kept, Constraints
<1>6. Ends'
  <2>1. SUFFICES ASSUME Method(call) = "muller" PROVE Ends'
        BY <1>1 DEF Ends
  <2>2. pc' \notin {"finish", "done"}
        BY <1>1, <1>2, <2>1 DEF Kept, Ways
  <2>3. job.back = "run" => job.evals > 0
        BY <1>1, <2>1 DEF Kept, Ends
  <2>4. pc' = "run" => job'.evals # 0
        BY <1>1, <1>3, <2>3
  <2> QED
      BY <1>3, <2>2, <2>3, <2>4 DEF Ends
<1>7. Direction'
  <2>1. Towards' = Towards
        BY <1>1 DEF Towards
  <2>2. At({"run"})' => At({"run"})
        BY <1>1, <1>2, <1>3 DEF At
  <2> QED
      BY <1>1, <1>3, <2>1, <2>2 DEF Kept, Direction
<1>8. pc' # "done"
      BY <1>1, <1>2
<1> QED
    BY <1>4, <1>5, <1>6, <1>7, <1>8, Undone DEF Kept

(* The routine that returned is CONMAX.                                    *)
LEMMA SolveminKept ==
  ASSUME Inv, Inv', solvemin
  PROVE  Kept'
<1>1. /\ Method(call) = "conmax" /\ call' = call
      /\ pc' = "finish" \/ (pc' = "eval" /\ job'.back = "finish")
  <2>1. job \in Job
        BY DEF Inv, Types
  <2>2. job'.back = "finish"
        BY <2>1 DEF solvemin, Job
  <2> QED
      BY <2>2 DEF solvemin, StartEval
<1>2. Ways' /\ Ends' /\ Direction'
      BY <1>1 DEF Ways, Ends, Direction, At
<1>3. Met'
      BY <1>1 DEF Met
<1>4. Constraints'
      BY <1>1, <1>3 DEF Constraints, At
<1> QED
    BY <1>1, <1>2, <1>4, Undone DEF Kept

(* The ends of root are evaluated first.                                   *)
LEMMA RootKept ==
  ASSUME Inv, Inv', root
  PROVE  Kept'
<1>1. /\ Method(call) = "muller" /\ call' = call
      /\ pc' = "eval" /\ job'.back = "ends"
  <2>1. job \in Job
        BY DEF Inv, Types
  <2> QED
      BY <2>1 DEF root, Job
<1>2. Ways' /\ Ends' /\ Direction' /\ Constraints'
      BY <1>1 DEF Ways, Ends, Direction, Constraints, At
<1> QED
    BY <1>1, <1>2, Undone DEF Kept

(* A tolerance is not negative.                                            *)
LEMMA ToleranceType ==
  ASSUME Types, Refusal(call) = none
  PROVE  Tolerance(call) \in Int /\ Tolerance(call) >= 0
<1>1. call \in Calls
      BY DEF Types
<1>2. Tolerance(call) \in Int
      BY <1>1, NumbersAssumption, Zenon
<1>3. Tolerance(call) >= 0
      BY DEF Tolerance
<1> QED
    BY <1>2, <1>3

(* The function searched falls from end to end when it changes its sign    *)
(* between them.                                                           *)
LEMMA RootSignKept ==
  ASSUME Inv, Inv', Kept, root_sign
  PROVE  Kept'
<1> DEFINE t == Tolerance(call)
           turn == vals[1] < -t /\ vals[2] > t
           z == IF turn THEN <<-vals[1], -vals[2]>> ELSE vals
<1>1. /\ pc = "ends" /\ pc' = "run" /\ UNCHANGED <<call, vals>>
      BY DEF root_sign
<1>2. Method(call) = "muller" /\ Refusal(call) = none
      BY <1>1 DEF Kept, Ways, At, Inv, Fresh
<1>3. job'.ends = z
  <2>1. job \in Job
        BY DEF Inv, Types
  <2> QED
      BY <2>1 DEF root_sign, Job
<1>4. vals \in Seq(Int) /\ Len(vals) = 2
      BY <1>1 DEF Inv, Types, Evaluating
<1>5. vals[1] \in Int /\ vals[2] \in Int
      BY <1>4, ElementOfSeq
<1>6. t \in Int /\ t >= 0
      BY <1>2, ToleranceType DEF Inv
<1>7. Apart' <=> IF vals[1] > t THEN vals[2] < -t
                 ELSE vals[1] < -t /\ vals[2] > t
      BY <1>1 DEF Apart
<1>8. Bracketed' <=> z[1] > t /\ z[2] < -t
      BY <1>1, <1>3 DEF Bracketed
<1> HIDE DEF t
<1>9. Apart' <=> Bracketed'
  <2>1. CASE turn
    <3>1. z[1] = -vals[1] /\ z[2] = -vals[2]
          BY <2>1
    <3> HIDE DEF z
    <3>2. Bracketed'
          BY <1>5, <1>6, <1>8, <2>1, <3>1
    <3>3. Apart'
          BY <1>5, <1>6, <1>7, <2>1
    <3> QED
        BY <3>2, <3>3
  <2>2. CASE ~turn
    <3>1. z = vals
          BY <2>2
    <3> HIDE DEF z
    <3> QED
        BY <1>5, <1>6, <1>7, <1>8, <2>2, <3>1
  <2> QED
      BY <2>1, <2>2
<1>10. Ends'
       BY <1>1, <1>9 DEF Ends
<1>11. Ways' /\ Direction' /\ Constraints'
       BY <1>1, <1>2 DEF Ways, Direction, Constraints, At
<1> QED
    BY <1>1, <1>10, <1>11, Undone DEF Kept

(* A signal of root is sign exactly if its ends do not bracket a root.     *)
LEMMA RootEndKept ==
  ASSUME Inv, Inv', root_end
  PROVE  Kept'
<1>1. /\ Method(call) = "muller" /\ call' = call /\ pc' = "finish"
      BY DEF root_end
<1>2. PICK iter \in 0..Iterations(call), ok \in BOOLEAN,
           s \in {"iter", "feas", "nan", none} :
        job' = [job EXCEPT !.iter = iter, !.ok = ok,
                   !.sig = IF error # no_error THEN none
                           ELSE IF s # none /\ ~Bracketed THEN "sign"
                           ELSE s]
      BY DEF root_end
<1>3. /\ job'.ends = job.ends
      /\ job'.sig = IF error # no_error THEN none
                    ELSE IF s # none /\ ~Bracketed THEN "sign" ELSE s
  <2>1. job \in Job
        BY DEF Inv, Types
  <2> QED
      BY <1>2, <2>1 DEF Job
<1>4. Bracketed' <=> Bracketed
      BY <1>1, <1>3 DEF Bracketed
<1>5. job'.sig # none => (job'.sig = "sign" <=> ~Bracketed)
      BY <1>2, <1>3 DEF none
<1>6. Ends'
      BY <1>1, <1>4, <1>5 DEF Ends
<1>7. Met'
      BY <1>1 DEF Met
<1>8. Ways' /\ Direction' /\ Constraints'
      BY <1>1, <1>7 DEF Ways, Direction, Constraints, At
<1> QED
    BY <1>1, <1>6, <1>8, Undone DEF Kept

(* line starts at the distance 0.                                          *)
LEMMA LineKept ==
  ASSUME Inv, Inv', line
  PROVE  Kept'
<1>1. /\ Method(call) = "searsl" /\ call' = call /\ pc' = "run"
      /\ param' = <<0>>
      BY DEF line
<1>2. job'.arg = Towards
  <2>1. job \in Job
        BY DEF Inv, Types
  <2> QED
      BY <2>1 DEF line, Job, Towards
<1>3. Towards' = Towards
      BY <1>1 DEF Towards
<1>4. Direction'
      BY <1>1, <1>2, <1>3 DEF Direction
<1>5. Ways' /\ Ends' /\ Constraints'
      BY <1>1 DEF Ways, Ends, Constraints, At
<1> QED
    BY <1>1, <1>4, <1>5, Undone DEF Kept

(* searsl_ has no constraints and no ends.                                 *)
LEMMA LineEndKept ==
  ASSUME Inv, Inv', line_end
  PROVE  Kept'
<1>1. /\ Method(call) = "searsl" /\ call' = call /\ pc' = "finish"
      BY DEF line_end
<1>2. Met'
      BY <1>1 DEF Met
<1>3. Ways' /\ Ends' /\ Direction' /\ Constraints'
      BY <1>1, <1>2 DEF Ways, Ends, Direction, Constraints, At
<1> QED
    BY <1>1, <1>3, Undone DEF Kept

(* NLopt returned: no constraint has been evaluated again, and all will be *)
(* unless there is an error.                                               *)
LEMMA NloptminKept ==
  ASSUME Inv, Inv', nloptmin
  PROVE  Kept'
<1>1. /\ pc = "run" /\ Method(call) = "nlopt" /\ UNCHANGED <<call, error>>
      /\ pc' = IF error # no_error THEN "finish" ELSE "cons"
      BY DEF nloptmin
<1>2. job'.cons = 0
  <2>1. job \in Job /\ job.cons = 0
        BY <1>1 DEF Inv, Types, SignalOrFailure, At
  <2>2. \E s : job' = [job EXCEPT !.sig = s]
        BY DEF nloptmin
  <2> QED
      BY <2>1, <2>2 DEF Job
<1>3. HasCon(call) => ConCount(call) \in Nat
      BY <1>1, ConCountType DEF Inv, Fresh
<1>4. HasCon(call') => job'.cons <= ConCount(call')
      BY <1>1, <1>2, <1>3
<1>5. Constraints'
      BY <1>1, <1>4 DEF Constraints, At
<1>6. Ways' /\ Ends' /\ Direction'
      BY <1>1 DEF Ways, Ends, Direction, At
<1> QED
    BY <1>1, <1>5, <1>6, Undone DEF Kept

(* The call finishes when every constraint has been evaluated, and signals *)
(* when the worst one is above the tolerance.                              *)
LEMMA ConsKept ==
  ASSUME Inv, Inv', Kept, nloptmin_cons
  PROVE  Kept'
<1> DEFINE worst == IF job.cons > 0 THEN max_i(job.con_err, vals[1]) ELSE 0
           more == HasCon(call) /\ job.cons < ConCount(call)
           s == IF job.sig = none /\ HasCon(call) /\ worst > Tolerance(call)
                THEN "feas" ELSE job.sig
<1>1. /\ pc = "cons" /\ Method(call) = "nlopt" /\ call' = call
      /\ HasCon(call) => job.cons <= ConCount(call) /\ ConCount(call) \in Nat
  <2>1. pc = "cons" /\ call' = call
        BY DEF nloptmin_cons
  <2>2. Method(call) = "nlopt" /\ (HasCon(call) => job.cons <= ConCount(call))
        BY <2>1 DEF Kept, Ways, Constraints, At
  <2>3. HasCon(call) => ConCount(call) \in Nat
        BY <2>1, ConCountType DEF Inv, Fresh
  <2> QED
      BY <2>1, <2>2, <2>3
<1>2. job \in Job /\ job.cons \in Nat
      BY DEF Inv, Types, Job
<1>3. CASE more
  <2>1. /\ StartEval(job.cons + 1, FALSE, "cons")
        /\ job' = [job EXCEPT !.cons = job.cons + 1, !.con_err = worst,
                              !.which = job.cons + 1, !.back = "cons"]
        BY <1>3 DEF nloptmin_cons
  <2>2. pc' = "eval" /\ job'.back = "cons" /\ job'.cons = job.cons + 1
    <3> HIDE DEF worst
    <3> QED
        BY <1>2, <2>1 DEF StartEval, Job
  <2>3. job'.cons <= ConCount(call')
        BY <1>1, <1>2, <1>3, <2>2
  <2>4. Ways' /\ Ends' /\ Direction' /\ Constraints'
        BY <1>1, <2>2, <2>3 DEF Ways, Ends, Direction, Constraints, At
  <2> QED
      BY <2>2, <2>4, Undone DEF Kept
<1>4. CASE ~more
  <2>1. pc' = "finish" /\ job' = [job EXCEPT !.con_err = worst, !.sig = s]
        BY <1>4 DEF nloptmin_cons
  <2>2. job'.con_err = worst /\ job'.sig = s /\ job'.cons = job.cons
    <3> HIDE DEF worst, s
    <3> QED
        BY <1>2, <2>1 DEF Job
  <2>3. HasCon(call) => job.cons = ConCount(call)
        BY <1>1, <1>2, <1>4
  <2>4. HasCon(call) /\ s = none => ~(worst > Tolerance(call))
    <3> HIDE DEF worst
    <3> QED
        BY DEF none
  <2>5. worst \in Int
    <3>1. job.con_err \in Int
          BY <1>2 DEF Job
    <3>2. job.cons > 0 => vals \in Seq(Int) /\ Len(vals) = 1
          BY <1>1 DEF Inv, Types, Evaluating
    <3>3. job.cons > 0 => vals[1] \in Int
          BY <3>2, ElementOfSeq
    <3> QED
        BY <3>1, <3>3 DEF max_i
  <2>6. Tolerance(call) \in Int
        BY <1>1, ToleranceType DEF Inv, Fresh
  <2> HIDE DEF worst, s
  <2>7. Met'
    <3>1. HasCon(call) /\ s = none => worst <= Tolerance(call)
          BY <2>4, <2>5, <2>6
    <3> QED
        BY <1>1, <2>2, <2>3, <3>1 DEF Met
  <2>8. Ways' /\ Ends' /\ Direction' /\ Constraints'
        BY <1>1, <2>1, <2>7 DEF Ways, Ends, Direction, Constraints, At
  <2> QED
      BY <2>1, <2>8, Undone DEF Kept
<1> QED
    BY <1>3, <1>4

(* A value is given only without an error.                                 *)
LEMMA FinishKept ==
  ASSUME Inv, Kept, Finish
  PROVE  Kept'
<1> DEFINE raise == job.sig # none /\ ~Flag(call, "quiet")
           e     == IF raise THEN job.sig ELSE error
<1>1. pc = "finish" /\ pc' = "done" /\ UNCHANGED <<call, job>>
      BY DEF Finish
<1>2. IF e # no_error THEN out' = Raised(e)
      ELSE out'.kind = "value" /\ out'.sig = job.sig
      BY DEF Finish
<1>3. e \in {job.sig, error}
      OBVIOUS
<1>4. e = no_error => error = no_error
  <2>1. job.sig # no_error
        BY DEF Inv, Types, Job, Signals, no_error, none
  <2> QED
      BY <2>1
<1> HIDE DEF e
<1>5. Raised(e).kind = "error" /\ Raised(e).sig = e
      BY DEF Raised, NoOut
<1>6. error # "sign"
      BY DEF Inv, Types, Errors, no_error
<1>7. out'.sig = "sign" => job.sig = "sign"
      BY <1>2, <1>3, <1>5, <1>6
<1>8. Ends'
  <2>1. Bracketed' <=> Bracketed
        BY <1>1 DEF Bracketed
  <2> QED
      BY <1>1, <1>7, <2>1 DEF Kept, Ends
<1>9. FeasibleOrSignal'
  <2>1. out'.kind = "value" => out'.sig = job.sig /\ error = no_error
        BY <1>2, <1>4, <1>5
  <2>2. error = no_error => Met
        BY <1>1 DEF Kept, Constraints
  <2> QED
      BY <1>1, <2>1, <2>2 DEF Met, FeasibleOrSignal
<1>10. Ways' /\ Direction' /\ Constraints'
       BY <1>1 DEF Ways, Direction, Constraints, At
<1> QED
    BY <1>8, <1>9, <1>10 DEF Kept

(* Nothing happens once a call is done.                                    *)
LEMMA NothingKept ==
  ASSUME Kept, UNCHANGED vars
  PROVE  Kept'
<1>1. Ways' /\ Constraints'
      BY DEF Kept, vars, Ways, Constraints, Met, At
<1>2. Ends' /\ Direction'
      BY DEF Kept, vars, Ends, Apart, Bracketed, Direction, Towards, At
<1>3. FeasibleOrSignal'
      BY DEF Kept, vars, FeasibleOrSignal
<1> QED
    BY <1>1, <1>2, <1>3 DEF Kept

(* Every step.                                                             *)
LEMMA KeptNext == Inv /\ Kept /\ [Next]_vars => Kept'
<1> SUFFICES ASSUME Inv, Kept, [Next]_vars PROVE Kept'
    OBVIOUS
<1>0. Inv'
      BY InvNext
<1>1. CASE Refuse
      BY <1>1, RefuseKept
<1>2. CASE Allocate
      BY <1>0, <1>2, AllocateKept
<1>3. CASE Evaluate
      BY <1>0, <1>3, EvaluateKept
<1>4. CASE eval_param
      BY <1>0, <1>4, EvalKept
<1>5. CASE solvemin
      BY <1>0, <1>5, SolveminKept
<1>6. CASE root
      BY <1>0, <1>6, RootKept
<1>7. CASE root_sign
      BY <1>0, <1>7, RootSignKept
<1>8. CASE root_end
      BY <1>0, <1>8, RootEndKept
<1>9. CASE line
      BY <1>0, <1>9, LineKept
<1>10. CASE line_end
       BY <1>0, <1>10, LineEndKept
<1>11. CASE nloptmin
       BY <1>0, <1>11, NloptminKept
<1>12. CASE nloptmin_cons
       BY <1>0, <1>12, ConsKept
<1>13. CASE Finish
       BY <1>13, FinishKept
<1>14. CASE Done \/ UNCHANGED vars
       BY <1>14, NothingKept DEF Done
<1> QED
    BY <1>1, <1>2, <1>3, <1>4, <1>5, <1>6, <1>7, <1>8, <1>9, <1>10, <1>11,
       <1>12, <1>13, <1>14, Zenon DEF Next

-----------------------------------------------------------------------------
(* The keys of a full result                                               *)

(* t is s with u at its end.                                               *)
Joins(s, u, t, n, m) ==
  /\ Len(s) = n /\ Len(u) = m /\ Len(t) = n + m
  /\ \A i \in 1..n : t[i] = s[i]
  /\ \A i \in 1..m : t[n + i] = u[i]
(* A sequence is what it is joined from.                                   *)
LEMMA Joined ==
  ASSUME NEW S, NEW s \in Seq(S), NEW u \in Seq(S), NEW t \in Seq(S),
         NEW n, NEW m, Joins(s, u, t, n, m)
  PROVE  s \o u = t
<1>1. n \in Nat /\ m \in Nat /\ s \o u \in Seq(S)
      BY LenProperties, ConcatProperties DEF Joins
<1>2. Len(s \o u) = n + m
      BY ConcatProperties DEF Joins
<1>3. \A i \in 1..(n + m) : (s \o u)[i] = IF i <= n THEN s[i] ELSE u[i - n]
      BY <1>1, ConcatProperties DEF Joins
<1>4. \A i \in 1..(n + m) : (s \o u)[i] = t[i]
      BY <1>1, <1>3 DEF Joins
<1> QED
    BY <1>1, <1>2, <1>4, SeqEqual DEF Joins

(* A tuple of one and a tuple of one.                                      *)
LEMMA Join11 ==
  ASSUME NEW a, NEW b
  PROVE  <<a>> \o <<b>> = <<a, b>>
<1> DEFINE S == {a, b}
           s == <<a>>
           u == <<b>>
           t == <<a, b>>
<1>1. s \in Seq(S) /\ u \in Seq(S) /\ t \in Seq(S)
      OBVIOUS
<1>2. Joins(s, u, t, 1, 1)
      BY DEF Joins
<1> HIDE DEF S, s, u, t
<1>3. s \o u = t
      BY <1>1, <1>2, Joined
<1> QED
    BY <1>3 DEF s, u, t

(* A tuple of one and a tuple of two.                                      *)
LEMMA Join12 ==
  ASSUME NEW a, NEW b, NEW c
  PROVE  <<a>> \o <<b, c>> = <<a, b, c>>
<1> DEFINE S == {a, b, c}
           s == <<a>>
           u == <<b, c>>
           t == <<a, b, c>>
<1>1. s \in Seq(S) /\ u \in Seq(S) /\ t \in Seq(S)
      OBVIOUS
<1>2. Joins(s, u, t, 1, 2)
      BY DEF Joins
<1> HIDE DEF S, s, u, t
<1>3. s \o u = t
      BY <1>1, <1>2, Joined
<1> QED
    BY <1>3 DEF s, u, t

(* A tuple of two and a tuple of one.                                      *)
LEMMA Join21 ==
  ASSUME NEW a, NEW b, NEW c
  PROVE  <<a, b>> \o <<c>> = <<a, b, c>>
<1> DEFINE S == {a, b, c}
           s == <<a, b>>
           u == <<c>>
           t == <<a, b, c>>
<1>1. s \in Seq(S) /\ u \in Seq(S) /\ t \in Seq(S)
      OBVIOUS
<1>2. Joins(s, u, t, 2, 1)
      BY DEF Joins
<1> HIDE DEF S, s, u, t
<1>3. s \o u = t
      BY <1>1, <1>2, Joined
<1> QED
    BY <1>3 DEF s, u, t

(* A tuple of two and a tuple of two.                                      *)
LEMMA Join22 ==
  ASSUME NEW a, NEW b, NEW c, NEW d
  PROVE  <<a, b>> \o <<c, d>> = <<a, b, c, d>>
<1> DEFINE S == {a, b, c, d}
           s == <<a, b>>
           u == <<c, d>>
           t == <<a, b, c, d>>
<1>1. s \in Seq(S) /\ u \in Seq(S) /\ t \in Seq(S)
      OBVIOUS
<1>2. Joins(s, u, t, 2, 2)
      BY DEF Joins
<1> HIDE DEF S, s, u, t
<1>3. s \o u = t
      BY <1>1, <1>2, Joined
<1> QED
    BY <1>3 DEF s, u, t

(* A tuple of three and a tuple of one.                                    *)
LEMMA Join31 ==
  ASSUME NEW a, NEW b, NEW c, NEW d
  PROVE  <<a, b, c>> \o <<d>> = <<a, b, c, d>>
<1> DEFINE S == {a, b, c, d}
           s == <<a, b, c>>
           u == <<d>>
           t == <<a, b, c, d>>
<1>1. s \in Seq(S) /\ u \in Seq(S) /\ t \in Seq(S)
      OBVIOUS
<1>2. Joins(s, u, t, 3, 1)
      BY DEF Joins
<1> HIDE DEF S, s, u, t
<1>3. s \o u = t
      BY <1>1, <1>2, Joined
<1> QED
    BY <1>3 DEF s, u, t

(* A tuple of three and a tuple of two.                                    *)
LEMMA Join32 ==
  ASSUME NEW a, NEW b, NEW c, NEW d, NEW e
  PROVE  <<a, b, c>> \o <<d, e>> = <<a, b, c, d, e>>
<1> DEFINE S == {a, b, c, d, e}
           s == <<a, b, c>>
           u == <<d, e>>
           t == <<a, b, c, d, e>>
<1>1. s \in Seq(S) /\ u \in Seq(S) /\ t \in Seq(S)
      OBVIOUS
<1>2. Joins(s, u, t, 3, 2)
      BY DEF Joins
<1> HIDE DEF S, s, u, t
<1>3. s \o u = t
      BY <1>1, <1>2, Joined
<1> QED
    BY <1>3 DEF s, u, t

(* A tuple of four and a tuple of one.                                     *)
LEMMA Join41 ==
  ASSUME NEW a, NEW b, NEW c, NEW d, NEW e
  PROVE  <<a, b, c, d>> \o <<e>> = <<a, b, c, d, e>>
<1> DEFINE S == {a, b, c, d, e}
           s == <<a, b, c, d>>
           u == <<e>>
           t == <<a, b, c, d, e>>
<1>1. s \in Seq(S) /\ u \in Seq(S) /\ t \in Seq(S)
      OBVIOUS
<1>2. Joins(s, u, t, 4, 1)
      BY DEF Joins
<1> HIDE DEF S, s, u, t
<1>3. s \o u = t
      BY <1>1, <1>2, Joined
<1> QED
    BY <1>3 DEF s, u, t

(* A tuple of five and a tuple of one.                                     *)
LEMMA Join51 ==
  ASSUME NEW a, NEW b, NEW c, NEW d, NEW e, NEW f
  PROVE  <<a, b, c, d, e>> \o <<f>> = <<a, b, c, d, e, f>>
<1> DEFINE S == {a, b, c, d, e, f}
           s == <<a, b, c, d, e>>
           u == <<f>>
           t == <<a, b, c, d, e, f>>
<1>1. s \in Seq(S) /\ u \in Seq(S) /\ t \in Seq(S)
      OBVIOUS
<1>2. Joins(s, u, t, 5, 1)
      BY DEF Joins
<1> HIDE DEF S, s, u, t
<1>3. s \o u = t
      BY <1>1, <1>2, Joined
<1> QED
    BY <1>3 DEF s, u, t

(* A tuple of six and a tuple of one.                                      *)
LEMMA Join61 ==
  ASSUME NEW a, NEW b, NEW c, NEW d, NEW e, NEW f, NEW g
  PROVE  <<a, b, c, d, e, f>> \o <<g>> = <<a, b, c, d, e, f, g>>
<1> DEFINE S == {a, b, c, d, e, f, g}
           s == <<a, b, c, d, e, f>>
           u == <<g>>
           t == <<a, b, c, d, e, f, g>>
<1>1. s \in Seq(S) /\ u \in Seq(S) /\ t \in Seq(S)
      OBVIOUS
<1>2. Joins(s, u, t, 6, 1)
      BY DEF Joins
<1> HIDE DEF S, s, u, t
<1>3. s \o u = t
      BY <1>1, <1>2, Joined
<1> QED
    BY <1>3 DEF s, u, t

(* The keys solvemin appends.                                               *)
LEMMA SolveminKeys ==
  ASSUME NEW b \in BOOLEAN, call.fn \in {"solve", "min", "conmin"}
  PROVE  solvemin_keys(b) = FullTable[call.fn][IF b THEN 2 ELSE 1]
<1> DEFINE k2 == <<"x">> \o If(b, <<"last">>)
           k3 == k2 \o If(HasFun(call), <<"f">> \o If(HasCon(call), <<"cons">>))
           k4 == k3 \o If(b /\ HasCon(call), <<"err">>)
           k5 == k4 \o <<"iter">>
           k6 == k5 \o If(b, <<"sig">>)
<1>0. solvemin_keys(b) = k6
      BY DEF solvemin_keys
<1>1. CASE call.fn = "solve" /\ ~b
  <2>1. k2 = <<"x">>
        BY <1>1 DEF If, HasFun, HasCon
  <2> HIDE DEF k2
  <2>2. k3 = <<"x">>
        BY <1>1, <2>1 DEF If, HasFun, HasCon
  <2> HIDE DEF k3
  <2>3. k4 = <<"x">>
        BY <1>1, <2>2 DEF If, HasFun, HasCon
  <2> HIDE DEF k4
  <2>4. k5 = <<"x", "iter">>
        BY <1>1, <2>3, Join11, Zenon DEF If, HasFun, HasCon
  <2> HIDE DEF k5
  <2>5. k6 = <<"x", "iter">>
        BY <1>1, <2>4 DEF If, HasFun, HasCon
  <2> HIDE DEF k6
  <2> QED
      BY <1>0, <1>1, <2>5 DEF FullTable
<1>2. CASE call.fn = "solve" /\ b
  <2>1. k2 = <<"x", "last">>
        BY <1>2, Join11, Zenon DEF If, HasFun, HasCon
  <2> HIDE DEF k2
  <2>2. k3 = <<"x", "last">>
        BY <1>2, <2>1 DEF If, HasFun, HasCon
  <2> HIDE DEF k3
  <2>3. k4 = <<"x", "last", "err">>
        BY <1>2, <2>2, Join21, Zenon DEF If, HasFun, HasCon
  <2> HIDE DEF k4
  <2>4. k5 = <<"x", "last", "err", "iter">>
        BY <1>2, <2>3, Join31, Zenon DEF If, HasFun, HasCon
  <2> HIDE DEF k5
  <2>5. k6 = <<"x", "last", "err", "iter", "sig">>
        BY <1>2, <2>4, Join41, Zenon DEF If, HasFun, HasCon
  <2> HIDE DEF k6
  <2> QED
      BY <1>0, <1>2, <2>5 DEF FullTable
<1>3. CASE call.fn = "min" /\ ~b
  <2>1. k2 = <<"x">>
        BY <1>3 DEF If, HasFun, HasCon
  <2> HIDE DEF k2
  <2>2. <<"f">> \o << >> = <<"f">>
        OBVIOUS
  <2>3. k3 = k2 \o <<"f">>
        BY <1>3, <2>2, Zenon DEF If, HasFun, HasCon
  <2>4. k3 = <<"x", "f">>
        BY <2>3, <2>1, Join11, Zenon
  <2> HIDE DEF k3
  <2>5. k4 = <<"x", "f">>
        BY <1>3, <2>4 DEF If, HasFun, HasCon
  <2> HIDE DEF k4
  <2>6. k5 = <<"x", "f", "iter">>
        BY <1>3, <2>5, Join21, Zenon DEF If, HasFun, HasCon
  <2> HIDE DEF k5
  <2>7. k6 = <<"x", "f", "iter">>
        BY <1>3, <2>6 DEF If, HasFun, HasCon
  <2> HIDE DEF k6
  <2> QED
      BY <1>0, <1>3, <2>7 DEF FullTable
<1>4. CASE call.fn = "min" /\ b
  <2>1. k2 = <<"x", "last">>
        BY <1>4, Join11, Zenon DEF If, HasFun, HasCon
  <2> HIDE DEF k2
  <2>2. <<"f">> \o << >> = <<"f">>
        OBVIOUS
  <2>3. k3 = k2 \o <<"f">>
        BY <1>4, <2>2, Zenon DEF If, HasFun, HasCon
  <2>4. k3 = <<"x", "last", "f">>
        BY <2>3, <2>1, Join21, Zenon
  <2> HIDE DEF k3
  <2>5. k4 = <<"x", "last", "f">>
        BY <1>4, <2>4 DEF If, HasFun, HasCon
  <2> HIDE DEF k4
  <2>6. k5 = <<"x", "last", "f", "iter">>
        BY <1>4, <2>5, Join31, Zenon DEF If, HasFun, HasCon
  <2> HIDE DEF k5
  <2>7. k6 = <<"x", "last", "f", "iter", "sig">>
        BY <1>4, <2>6, Join41, Zenon DEF If, HasFun, HasCon
  <2> HIDE DEF k6
  <2> QED
      BY <1>0, <1>4, <2>7 DEF FullTable
<1>5. CASE call.fn = "conmin" /\ ~b
  <2>1. k2 = <<"x">>
        BY <1>5 DEF If, HasFun, HasCon
  <2> HIDE DEF k2
  <2>2. <<"f">> \o <<"cons">> = <<"f", "cons">>
        BY Join11, Zenon
  <2>3. k3 = k2 \o <<"f", "cons">>
        BY <1>5, <2>2, Zenon DEF If, HasFun, HasCon
  <2>4. k3 = <<"x", "f", "cons">>
        BY <2>3, <2>1, Join12, Zenon
  <2> HIDE DEF k3
  <2>5. k4 = <<"x", "f", "cons">>
        BY <1>5, <2>4 DEF If, HasFun, HasCon
  <2> HIDE DEF k4
  <2>6. k5 = <<"x", "f", "cons", "iter">>
        BY <1>5, <2>5, Join31, Zenon DEF If, HasFun, HasCon
  <2> HIDE DEF k5
  <2>7. k6 = <<"x", "f", "cons", "iter">>
        BY <1>5, <2>6 DEF If, HasFun, HasCon
  <2> HIDE DEF k6
  <2> QED
      BY <1>0, <1>5, <2>7 DEF FullTable
<1>6. CASE call.fn = "conmin" /\ b
  <2>1. k2 = <<"x", "last">>
        BY <1>6, Join11, Zenon DEF If, HasFun, HasCon
  <2> HIDE DEF k2
  <2>2. <<"f">> \o <<"cons">> = <<"f", "cons">>
        BY Join11, Zenon
  <2>3. k3 = k2 \o <<"f", "cons">>
        BY <1>6, <2>2, Zenon DEF If, HasFun, HasCon
  <2>4. k3 = <<"x", "last", "f", "cons">>
        BY <2>3, <2>1, Join22, Zenon
  <2> HIDE DEF k3
  <2>5. k4 = <<"x", "last", "f", "cons", "err">>
        BY <1>6, <2>4, Join41, Zenon DEF If, HasFun, HasCon
  <2> HIDE DEF k4
  <2>6. k5 = <<"x", "last", "f", "cons", "err", "iter">>
        BY <1>6, <2>5, Join51, Zenon DEF If, HasFun, HasCon
  <2> HIDE DEF k5
  <2>7. k6 = <<"x", "last", "f", "cons", "err", "iter", "sig">>
        BY <1>6, <2>6, Join61, Zenon DEF If, HasFun, HasCon
  <2> HIDE DEF k6
  <2> QED
      BY <1>0, <1>6, <2>7 DEF FullTable
<1> QED
    BY <1>1, <1>2, <1>3, <1>4, <1>5, <1>6

(* The keys nloptmin appends.                                               *)
LEMMA NloptminKeys ==
  ASSUME NEW b \in BOOLEAN, call.fn \in {"min", "conmin"}
  PROVE  nloptmin_keys(b) = FullTable[call.fn][IF b THEN 2 ELSE 1]
<1> DEFINE k2 == <<"x">> \o If(b, <<"last">>)
           k3 == k2 \o <<"f">>
           k4 == k3 \o If(HasCon(call), <<"cons">> \o If(b, <<"err">>))
           k5 == k4 \o <<"iter">>
           k6 == k5 \o If(b, <<"sig">>)
<1>0. nloptmin_keys(b) = k6
      BY DEF nloptmin_keys
<1>1. CASE call.fn = "min" /\ ~b
  <2>1. k2 = <<"x">>
        BY <1>1 DEF If, HasCon
  <2> HIDE DEF k2
  <2>2. k3 = <<"x", "f">>
        BY <1>1, <2>1, Join11, Zenon DEF If, HasCon
  <2> HIDE DEF k3
  <2>3. k4 = <<"x", "f">>
        BY <1>1, <2>2 DEF If, HasCon
  <2> HIDE DEF k4
  <2>4. k5 = <<"x", "f", "iter">>
        BY <1>1, <2>3, Join21, Zenon DEF If, HasCon
  <2> HIDE DEF k5
  <2>5. k6 = <<"x", "f", "iter">>
        BY <1>1, <2>4 DEF If, HasCon
  <2> HIDE DEF k6
  <2> QED
      BY <1>0, <1>1, <2>5 DEF FullTable
<1>2. CASE call.fn = "min" /\ b
  <2>1. k2 = <<"x", "last">>
        BY <1>2, Join11, Zenon DEF If, HasCon
  <2> HIDE DEF k2
  <2>2. k3 = <<"x", "last", "f">>
        BY <1>2, <2>1, Join21, Zenon DEF If, HasCon
  <2> HIDE DEF k3
  <2>3. k4 = <<"x", "last", "f">>
        BY <1>2, <2>2 DEF If, HasCon
  <2> HIDE DEF k4
  <2>4. k5 = <<"x", "last", "f", "iter">>
        BY <1>2, <2>3, Join31, Zenon DEF If, HasCon
  <2> HIDE DEF k5
  <2>5. k6 = <<"x", "last", "f", "iter", "sig">>
        BY <1>2, <2>4, Join41, Zenon DEF If, HasCon
  <2> HIDE DEF k6
  <2> QED
      BY <1>0, <1>2, <2>5 DEF FullTable
<1>3. CASE call.fn = "conmin" /\ ~b
  <2>1. k2 = <<"x">>
        BY <1>3 DEF If, HasCon
  <2> HIDE DEF k2
  <2>2. k3 = <<"x", "f">>
        BY <1>3, <2>1, Join11, Zenon DEF If, HasCon
  <2> HIDE DEF k3
  <2>3. <<"cons">> \o << >> = <<"cons">>
        OBVIOUS
  <2>4. k4 = k3 \o <<"cons">>
        BY <1>3, <2>3, Zenon DEF If, HasCon
  <2>5. k4 = <<"x", "f", "cons">>
        BY <2>4, <2>2, Join21, Zenon
  <2> HIDE DEF k4
  <2>6. k5 = <<"x", "f", "cons", "iter">>
        BY <1>3, <2>5, Join31, Zenon DEF If, HasCon
  <2> HIDE DEF k5
  <2>7. k6 = <<"x", "f", "cons", "iter">>
        BY <1>3, <2>6 DEF If, HasCon
  <2> HIDE DEF k6
  <2> QED
      BY <1>0, <1>3, <2>7 DEF FullTable
<1>4. CASE call.fn = "conmin" /\ b
  <2>1. k2 = <<"x", "last">>
        BY <1>4, Join11, Zenon DEF If, HasCon
  <2> HIDE DEF k2
  <2>2. k3 = <<"x", "last", "f">>
        BY <1>4, <2>1, Join21, Zenon DEF If, HasCon
  <2> HIDE DEF k3
  <2>3. <<"cons">> \o <<"err">> = <<"cons", "err">>
        BY Join11, Zenon
  <2>4. k4 = k3 \o <<"cons", "err">>
        BY <1>4, <2>3, Zenon DEF If, HasCon
  <2>5. k4 = <<"x", "last", "f", "cons", "err">>
        BY <2>4, <2>2, Join32, Zenon
  <2> HIDE DEF k4
  <2>6. k5 = <<"x", "last", "f", "cons", "err", "iter">>
        BY <1>4, <2>5, Join51, Zenon DEF If, HasCon
  <2> HIDE DEF k5
  <2>7. k6 = <<"x", "last", "f", "cons", "err", "iter", "sig">>
        BY <1>4, <2>6, Join61, Zenon DEF If, HasCon
  <2> HIDE DEF k6
  <2> QED
      BY <1>0, <1>4, <2>7 DEF FullTable
<1> QED
    BY <1>1, <1>2, <1>3, <1>4

(* The keys root appends.                                                   *)
LEMMA RootKeys ==
  ASSUME NEW b \in BOOLEAN, call.fn \in {"root"}
  PROVE  root_keys(b) = FullTable[call.fn][IF b THEN 2 ELSE 1]
<1> DEFINE k2 == <<"x">> \o If(b, <<"last", "err">>)
           k3 == k2 \o <<"iter">>
           k4 == k3 \o If(b, <<"sig">>)
<1>0. root_keys(b) = k4
      BY DEF root_keys
<1>1. CASE ~b
  <2>1. k2 = <<"x">>
        BY <1>1 DEF If
  <2> HIDE DEF k2
  <2>2. k3 = <<"x", "iter">>
        BY <1>1, <2>1, Join11, Zenon DEF If
  <2> HIDE DEF k3
  <2>3. k4 = <<"x", "iter">>
        BY <1>1, <2>2 DEF If
  <2> HIDE DEF k4
  <2> QED
      BY <1>0, <1>1, <2>3 DEF FullTable
<1>2. CASE b
  <2>1. k2 = <<"x", "last", "err">>
        BY <1>2, Join12, Zenon DEF If
  <2> HIDE DEF k2
  <2>2. k3 = <<"x", "last", "err", "iter">>
        BY <1>2, <2>1, Join31, Zenon DEF If
  <2> HIDE DEF k3
  <2>3. k4 = <<"x", "last", "err", "iter", "sig">>
        BY <1>2, <2>2, Join41, Zenon DEF If
  <2> HIDE DEF k4
  <2> QED
      BY <1>0, <1>2, <2>3 DEF FullTable
<1> QED
    BY <1>1, <1>2

(* The keys line appends.                                                   *)
LEMMA LineKeys ==
  ASSUME NEW b \in BOOLEAN, call.fn \in {"line"}
  PROVE  line_keys(b) = FullTable[call.fn][IF b THEN 2 ELSE 1]
<1> DEFINE k2 == <<"x">> \o If(b, <<"last">>)
           k3 == k2 \o <<"f", "iter">>
           k4 == k3 \o If(b, <<"sig">>)
<1>0. line_keys(b) = k4
      BY DEF line_keys
<1>1. CASE ~b
  <2>1. k2 = <<"x">>
        BY <1>1 DEF If
  <2> HIDE DEF k2
  <2>2. k3 = <<"x", "f", "iter">>
        BY <1>1, <2>1, Join12, Zenon DEF If
  <2> HIDE DEF k3
  <2>3. k4 = <<"x", "f", "iter">>
        BY <1>1, <2>2 DEF If
  <2> HIDE DEF k4
  <2> QED
      BY <1>0, <1>1, <2>3 DEF FullTable
<1>2. CASE b
  <2>1. k2 = <<"x", "last">>
        BY <1>2, Join11, Zenon DEF If
  <2> HIDE DEF k2
  <2>2. k3 = <<"x", "last", "f", "iter">>
        BY <1>2, <2>1, Join22, Zenon DEF If
  <2> HIDE DEF k3
  <2>3. k4 = <<"x", "last", "f", "iter", "sig">>
        BY <1>2, <2>2, Join41, Zenon DEF If
  <2> HIDE DEF k4
  <2> QED
      BY <1>0, <1>2, <2>3 DEF FullTable
<1> QED
    BY <1>1, <1>2

(* The keys of a full result are those the comments list.                  *)
LEMMA KeysMatch ==
  ASSUME call \in Calls
  PROVE  FullKeys = FullTable[call.fn][IF job.sig = none THEN 1 ELSE 2]
<1> DEFINE b == job.sig # none
           row == FullTable[call.fn][IF b THEN 2 ELSE 1]
<1>0. b \in BOOLEAN /\ call.fn \in {"solve", "min", "conmin", "root", "line"}
      BY FunctionsAssumption
<1>1. FullKeys = CASE Method(call) = "conmax" -> solvemin_keys(b)
                   [] Method(call) = "nlopt"  -> nloptmin_keys(b)
                   [] Method(call) = "muller" -> root_keys(b)
                   [] Method(call) = "searsl" -> line_keys(b)
      BY DEF FullKeys
<1>2. row = FullTable[call.fn][IF job.sig = none THEN 1 ELSE 2]
  <2>1. (IF b THEN 2 ELSE 1) = IF job.sig = none THEN 1 ELSE 2
        OBVIOUS
  <2> QED
      BY <2>1
<1> HIDE DEF b, row
<1>3. CASE call.fn = "root"
  <2>1. Method(call) = "muller"
        BY <1>3 DEF Method, Nlopt, Flag
  <2>2. root_keys(b) = row
        BY <1>0, <1>3, RootKeys DEF row
  <2> QED
      BY <1>1, <1>2, <2>1, <2>2
<1>4. CASE call.fn = "line"
  <2>1. Method(call) = "searsl"
        BY <1>4 DEF Method, Nlopt, Flag
  <2>2. line_keys(b) = row
        BY <1>0, <1>4, LineKeys DEF row
  <2> QED
      BY <1>1, <1>2, <2>1, <2>2
<1>5. CASE call.fn \in {"solve", "min", "conmin"} /\ ~Nlopt(call)
  <2>1. Method(call) = "conmax"
        BY <1>5 DEF Method, Nlopt, Flag
  <2>2. solvemin_keys(b) = row
        BY <1>0, <1>5, SolveminKeys DEF row
  <2> QED
      BY <1>1, <1>2, <2>1, <2>2
<1>6. CASE call.fn \in {"solve", "min", "conmin"} /\ Nlopt(call)
  <2>1. Method(call) = "nlopt" /\ call.fn \in {"min", "conmin"}
        BY <1>6 DEF Method, Nlopt
  <2>2. nloptmin_keys(b) = row
        BY <1>0, <2>1, NloptminKeys DEF row
  <2> QED
      BY <1>1, <1>2, <2>1, <2>2
<1> QED
    BY <1>0, <1>3, <1>4, <1>5, <1>6

(* Only a call that is refused or that finishes gets a result.             *)
LEMMA KeysInit == Init => FullMatchesTable
BY DEF Init, NoOut, FullMatchesTable

(* FullMatchesTable is inductive: nothing else sets a result.              *)
LEMMA KeysNext == Inv /\ FullMatchesTable /\ [Next]_vars => FullMatchesTable'
<1> SUFFICES ASSUME Inv, FullMatchesTable, [Next]_vars
             PROVE  FullMatchesTable'
    OBVIOUS
<1>0. \A e : Raised(e).keys = << >>
      BY DEF Raised, NoOut
<1>1. CASE Refuse
  <2>1. out'.keys = << >>
        BY <1>0, <1>1 DEF Refuse
  <2> QED
      BY <2>1 DEF FullMatchesTable
<1>2. CASE Finish
  <2>1. call' = call /\ call \in Calls
        BY <1>2 DEF Finish, Inv, Types
  <2>2. \/ out'.keys = << >>
        \/ out'.keys = FullKeys /\ out'.sig = job.sig
        BY <1>0, <1>2 DEF Finish
  <2> QED
      BY <2>1, <2>2, KeysMatch, Zenon DEF FullMatchesTable
<1>3. CASE UNCHANGED <<call, out>>
      BY <1>3 DEF FullMatchesTable
<1> QED
    BY <1>1, <1>2, <1>3
       DEF Next, vars, Allocate, Evaluate, eval_param, solvemin, root,
           root_sign, root_end, line, line_end, nloptmin, nloptmin_cons, Done

-----------------------------------------------------------------------------
(* Theorems                                                                *)

(* The inductive invariant holds of every call.                            *)
THEOREM InvHolds == Spec => []Inv
<1> QED
    BY InvInit, InvNext, PTL DEF Spec

(* A failure of a q function is what its caller gets, whatever the routine *)
(* does after it: call_param, solvemin, nloptmin, root and line.           *)
THEOREM FailuresAreReported == Spec => []FailuresReported
<1>1. Inv => FailuresReported
  <2> SUFFICES ASSUME Inv PROVE FailuresReported
      OBVIOUS
  <2>1. live \subseteq Arrays \cup {"start", "x", "last"}
        BY DEF Inv, Owned, LeaksOnlyLate
  <2>2. job.sign \in {-1, 1} /\ job.arg \in {-1, 0, 1}
        BY DEF Inv, Types, Job
  <2>3. OptTypeOK
        BY <2>1, <2>2 DEF Inv, Types, Fresh, Evaluating, OptTypeOK, Stages
  <2> QED
      BY <2>3 DEF Inv, Deactivated, FailuresReported
<1> QED
    BY <1>1, InvHolds, PTL

(* Whatever allocation or q function fails, everything is freed or given   *)
(* to the caller, but for a value made before a function failed late.      *)
THEOREM NothingLeaks == Spec => []LeaksOnlyLate
<1>1. Inv => LeaksOnlyLate
      BY DEF Inv
<1> QED
    BY <1>1, InvHolds, PTL

(* What conmin.c and nlopt.c return is what was asked for: a minimum of    *)
(* NLopt without a signal was tried against every constraint and met them; *)
(* root looks for the zero between its ends whenever there is one, and     *)
(* blames them only then; line never looks behind its start; and a full    *)
(* result has the keys the comments of conmax.c and nlopt.c list.          *)
THEOREM ResultsHold ==
  Spec => [](/\ FullMatchesTable /\ FeasibleOrSignal /\ RootBracketed
             /\ LineTowardsStart)
<1>1. Init => Inv /\ Kept /\ FullMatchesTable
      BY InvInit, KeptInit, KeysInit
<1>2. Inv /\ Kept /\ FullMatchesTable /\ [Next]_vars
      => Inv' /\ Kept' /\ FullMatchesTable'
      BY InvNext, KeptNext, KeysNext
<1>3. Inv /\ Kept => FeasibleOrSignal /\ RootBracketed /\ LineTowardsStart
  <2> SUFFICES ASSUME Inv, Kept
               PROVE  FeasibleOrSignal /\ RootBracketed /\ LineTowardsStart
      OBVIOUS
  <2>1. RootBracketed
    <3>1. SUFFICES ASSUME call.fn = "root" PROVE RootBracketed
          BY DEF RootBracketed
    <3>2. Method(call) = "muller"
          BY <3>1 DEF Method, Nlopt, Flag
    <3>3. Ends
          BY DEF Kept
    <3>4. /\ pc = "run" /\ job.evals = 0 => (Apart <=> Bracketed)
          /\ pc = "done" /\ job.sig # none => (job.sig = "sign" <=> ~Bracketed)
          /\ pc = "done" /\ out.sig = "sign" => job.sig = "sign"
          BY <3>2, <3>3 DEF Ends
    <3>5. pc = "done" /\ out.sig = "sign" => ~Bracketed
          BY <3>4 DEF none
    <3> QED
        BY <3>4, <3>5 DEF RootBracketed, Apart
  <2>2. LineTowardsStart
    <3> DEFINE b == convert_f(call.base)
               s == convert_f(call.start)
    <3>1. SUFFICES ASSUME call.fn = "line", pc = "eval"
                   PROVE  (Argument(param).v - b) * (s - b) >= 0
          BY DEF LineTowardsStart
    <3>2. Method(call) = "searsl"
          BY <3>1 DEF Method, Nlopt, Flag
    <3>3. job.back = "run"
          BY <3>1, <3>2
             DEF Inv, Types, Job, Backs, Evaluating, Kept, Ways, At
    <3>4. job.arg = (IF s < b THEN -1 ELSE 1) /\ param[1] \in Nat
          BY <3>1, <3>2, <3>3 DEF Kept, Direction, Towards, At
    <3>5. b \in Int /\ s \in Int
      <4>1. call \in Calls /\ Refusal(call) = none
            BY <3>1 DEF Inv, Types, Fresh
      <4> QED
          BY <3>2, <4>1, NumbersAssumption, Zenon
    <3>6. Argument(param).v = b + job.arg * param[1]
          BY <3>1, <3>4 DEF Argument, Atom
    <3> HIDE DEF b, s
    <3>7. CASE s < b
      <4>1. Argument(param).v - b = -param[1]
            BY <3>4, <3>5, <3>6, <3>7
      <4>2. (-param[1]) * (s - b) = param[1] * (b - s)
            BY <3>4, <3>5
      <4>3. param[1] * (b - s) >= 0
            BY <3>4, <3>5, <3>7
      <4> QED
          BY <4>1, <4>2, <4>3
    <3>8. CASE ~(s < b)
      <4>1. Argument(param).v - b = param[1]
            BY <3>4, <3>5, <3>6, <3>8
      <4>2. param[1] * (s - b) >= 0
            BY <3>4, <3>5, <3>8
      <4> QED
          BY <4>1, <4>2
    <3> QED
        BY <3>7, <3>8
  <2> QED
      BY <2>1, <2>2 DEF Kept
<1> QED
    BY <1>1, <1>2, <1>3, PTL DEF Spec

=============================================================================
