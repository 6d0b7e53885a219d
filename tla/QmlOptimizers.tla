--------------------------- MODULE QmlOptimizers ---------------------------
(***************************************************************************)
(* The optimisers of qml/src: the entry points of conmin.c, the calls of   *)
(* CONMAX in conmax.c (solvemin, root, line) and of NLopt in nlopt.c       *)
(* (nloptmin).  The numerical routines are external: while one runs it     *)
(* evaluates the objective and the constraints at points of its choice,    *)
(* and then returns.  Every evaluation calls back a q function, which may  *)
(* answer a number, a NaN or a value of another type, or fail.             *)
(*                                                                         *)
(* The first failure is kept in info.error, and no q function is called    *)
(* after it.  The step h of a gradient is 1, and so is what sqrt(eps)      *)
(* separates: the default tolerance is 0.                                  *)
(***************************************************************************)
EXTENDS QmlValues

CONSTANTS Floats(_),    \* convert_FFF: floats in the nesting of a value
          Flat(_),      \* write_param: the numbers of a value of floats
          Shape(_, _),  \* make_param: a value of that shape from numbers
          Taken(_, _)   \* take_opt: the options taken from a value

CONSTANTS Calls,     \* the calls made: [fn, opts, fun, con, start, base]
          Numbers,   \* the numbers a q function answers
          Moves,     \* the values of a parameter a routine tries
          MaxEvals,  \* evaluations by one routine
          MaxIter    \* the default of the option iter

ASSUME OptimizersAssumption ==
    /\ MaxEvals \in Nat /\ MaxIter \in Nat
    /\ Numbers \subseteq Int /\ Moves \subseteq Nat

VARIABLES call,   \* the call
          pc,     \* entry, eval, ends, run, cons, finish, done
          job,    \* the locals of the C function: see Job
          param,  \* the array of parameters
          todo,   \* the calls left of the evaluation under way
          vals,   \* the values of the calls made by it
          error,  \* info.error: no_error or what went wrong
          live,   \* buffers and q objects allocated and not freed
          out     \* what q gets

vars == <<call, pc, job, param, todo, vals, error, live, out>>

no_error  == "no_error"
none      == "none"      \* no refusal, no failure, no signal
empty_con == Vec(0, <<>>)

NoOut == [kind |-> "none", x |-> NULL, keys |-> <<>>, sig |-> none]
Raised(e) == [NoOut EXCEPT !.kind = "error", !.sig = e]

-----------------------------------------------------------------------------
(* conmin.c: options *)

Table(fn) == CASE fn = "solve"  -> solve_opt
               [] fn = "min"    -> min_opt
               [] fn = "conmin" -> conmin_opt
               [] OTHER         -> rootline_opt

\* The value of the option name, 0 if the function has no such option.
Option(c, name) ==
    LET at == {k \in DOMAIN Table(c.fn) : Table(c.fn)[k][1] = name}
    IN  IF at = {} THEN 0
        ELSE Taken(c.opts, Table(c.fn)).v[CHOOSE k \in at : TRUE]
Flag(c, name) == Option(c, name) # 0

\* qml_minx and qml_conminx: options that only CONMAX has.
MinConflict(c) ==
    \/ Flag(c, "nm") /\ Flag(c, "sbplx")
    \/ Option(c, "tol") >= 0 \/ Option(c, "steps") >= 0
    \/ Flag(c, "slp") \/ Flag(c, "rk")
ConminConflict(c) == Option(c, "steps") >= 0 \/ Flag(c, "slp") \/ Flag(c, "rk")

Nlopt(c) == \/ c.fn = "min" /\ (Flag(c, "nm") \/ Flag(c, "sbplx"))
            \/ c.fn = "conmin" /\ Flag(c, "cobyla")

\* The routine a call ends up in.
Method(c) == CASE c.fn = "root" -> "muller"
               [] c.fn = "line" -> "searsl"
               [] Nlopt(c)      -> "nlopt"
               [] OTHER         -> "conmax"

OptionsRefused(c) ==
    \/ ~Taken(c.opts, Table(c.fn)).ok
    \/ /\ Nlopt(c)
       /\ IF c.fn = "min" THEN MinConflict(c) ELSE ConminConflict(c)

\* The checks before anything is allocated, by function.
solvemin_refuses(c) ==
    IF \/ c.fn # "solve" /\ ~callable(c.fun)
       \/ ~callable(c.con) /\ c.con.t # 0                        THEN "type"
    ELSE IF Flag(c, "slp") /\ (Flag(c, "rk") \/ Option(c, "steps") > 0)
                                                                THEN "opt"
    ELSE IF Floats(c.start) = NULL                              THEN "type"
    ELSE none
nloptmin_refuses(c) ==
    IF ~callable(c.fun) \/ (~callable(c.con) /\ c.con.t # 0) THEN "type"
    ELSE IF Floats(c.start) = NULL                           THEN "type"
    ELSE none
root_refuses(c) ==
    IF ~callable(c.fun) \/ ~has_n(c.start)                    THEN "type"
    ELSE IF Len(c.start.v) # 2                               THEN "length"
    ELSE IF ~item_F(c.start, 0)[1] \/ ~item_F(c.start, 1)[1] THEN "type"
    ELSE none
line_refuses(c) ==
    IF ~callable(c.fun) \/ ~compatible_f(c.base) \/ ~compatible_f(c.start)
    THEN "type" ELSE none

Refusal(c) ==
    IF OptionsRefused(c) THEN "opt"
    ELSE CASE Method(c) = "conmax" -> solvemin_refuses(c)
           [] Method(c) = "nlopt"  -> nloptmin_refuses(c)
           [] Method(c) = "muller" -> root_refuses(c)
           [] Method(c) = "searsl" -> line_refuses(c)

-----------------------------------------------------------------------------
(* The locals *)

Iterations(c) == IF Option(c, "iter") < 0 THEN MaxIter ELSE Option(c, "iter")
Tolerance(c)  == IF Option(c, "tol") >= 0 THEN Option(c, "tol") ELSE 0
HasFun(c)     == c.fn \notin {"solve", "root"}
ConCount(c)   == IF callable(c.con) THEN 1 ELSE Len(c.con.v)
\* con != empty_con: an empty list q passes is not it.
HasCon(c)     == c.fn \in {"solve", "conmin"}

\* There are five functions.
ASSUME FunctionsAssumption ==
    \A c \in Calls : c.fn \in {"solve", "min", "conmin", "root", "line"}

\* The start and the options of a call that is not refused are numbers: only
\* such values pass the conversions.
ASSUME NumbersAssumption ==
    \A c \in Calls : Refusal(c) = none =>
       /\ Tolerance(c) \in Int
       /\ Method(c) \in {"conmax", "nlopt"} =>
             ConCount(c) \in Nat /\ Flat(Floats(c.start)) \in Seq(Int)
       /\ Method(c) = "muller" => \A i \in {0, 1} : item_F(c.start, i)[2] \in Int
       /\ Method(c) = "searsl" =>
             convert_f(c.start) \in Int /\ convert_f(c.base) \in Int

\* arg: how a parameter becomes the argument; sign: con_sign; which: what is
\* evaluated; back: where an evaluation returns to; iter, ok: what a routine
\* returned; ends: the values of root at its two ends; con_err, cons: the
\* constraints of nloptmin evaluated again; first, late: the first failure
\* of a q function, and whether the routine had already returned.
Job0 == [arg |-> 0, sign |-> 1, which |-> 0, back |-> none, evals |-> 0,
         iter |-> 0, ok |-> TRUE, sig |-> none, ends |-> <<0, 0>>, con_err |-> 0,
         cons |-> 0, contyp |-> 0, first |-> none, late |-> FALSE]

Init ==
    /\ call \in Calls
    /\ pc = "entry"
    /\ job = Job0
    /\ param = <<>> /\ todo = <<>> /\ vals = <<>>
    /\ error = no_error
    /\ live = {}
    /\ out = NoOut

Refuse ==
    /\ pc = "entry"
    /\ Refusal(call) # none
    /\ pc' = "done"
    /\ out' = Raised(Refusal(call))
    /\ UNCHANGED <<call, job, param, todo, vals, error, live>>

\* The buffers of solvemin and nloptmin; those of length 0 are NULL.
Buffers(c) ==
    LET n == Len(Flat(Floats(c.start)))
        conmax == {"error", "work", "iwork"}
                  \cup (IF HasFun(c) \/ ConCount(c) > 0 THEN {"vfun"} ELSE {})
        nlopt  == IF n > 0 THEN {"xstep", "lbound", "ubound", "xtol_abs"} ELSE {}
    IN  (IF n > 0 THEN {"param"} ELSE {})
        \cup IF Method(c) = "conmax" THEN conmax
             ELSE nlopt \cup IF ConCount(c) > 0 THEN {"fc_tol"} ELSE {}
\* Mutant: the steps are not freed.
Scratch_KeepsSteps == {"work", "iwork", "vfun", "lbound", "ubound", "xtol_abs",
                       "fc_tol"}
Scratch == {"work", "iwork", "vfun", "xstep", "lbound", "ubound", "xtol_abs",
            "fc_tol"}
Arrays  == Scratch \cup {"param", "error"}

\* solvemin and nloptmin up to the call of the routine: any allocation may
\* fail, and a number of parameters may exceed the limit.  A start with a
\* NaN makes nloptmin skip the routine.
Allocate ==
    /\ pc = "entry"
    /\ Refusal(call) = none
    /\ Method(call) \in {"conmax", "nlopt"}
    /\ LET start == Floats(call.start)
           p     == Flat(start)
           nan   == Method(call) = "nlopt" /\ \E i \in DOMAIN p : p[i] = nf
       IN  /\ param' = p
           /\ \E got \in {Buffers(call)} \cup {Buffers(call) \ {b} :
                                                  b \in Buffers(call)},
                 e \in {no_error, "wsfull", "limit"} :
                 LET failed == e # no_error
                 IN  /\ got # Buffers(call) => failed
                     /\ e = "wsfull" => got # Buffers(call)
                     /\ error' = e
                     /\ live' = (IF failed \/ nan THEN got \ Scratch ELSE got)
                                \cup {"start"}
                     /\ pc' = IF failed THEN "finish"
                              ELSE IF nan THEN "cons" ELSE "run"
           /\ job' = [job EXCEPT !.arg = IF start.t = -KF THEN 1 ELSE 0,
                                 !.sig = IF nan THEN "nan" ELSE none]
    /\ UNCHANGED <<call, todo, vals, out>>

-----------------------------------------------------------------------------
(* Evaluation *)

\* The argument of the q function for the parameters p (call_param).
Argument(p) ==
    IF job.arg # 0
    THEN Atom(KF, (IF call.fn = "line" THEN convert_f(call.base) ELSE 0)
                  + job.arg * p[1])
    ELSE Shape(Floats(call.start), p)[1]

contyp(which) ==
    IF ~HasFun(call) THEN 2
    ELSE IF which = 0 THEN 1
    ELSE IF Flag(call, "lincon") THEN -1 ELSE -2
sign(which) == IF ~HasFun(call) THEN job.sign ELSE IF which = 0 THEN 1 ELSE -1

\* The displacements <<i, d>> of the calls an evaluation makes: the point,
\* and for a gradient one step of each parameter, or one each way.
Points(which, grad) ==
    LET n == Len(param)
        steps == IF contyp(which) = -1
                 THEN [i \in 1..n |-> <<i, 1>>]
                 ELSE [k \in 1..2 * n |->
                          <<(k + 1) \div 2, IF k % 2 = 1 THEN 1 ELSE -1>>]
    IN  <<<<0, 0>>>> \o IF grad THEN steps ELSE <<>>

\* eval_param is entered; when it is done the C function goes on at back.
StartEval(which, grad, back) ==
    /\ todo' = Points(which, grad)
    /\ vals' = <<>>
    /\ pc' = "eval"

\* param while one of its items is displaced.
Displaced(p) == [i \in DOMAIN param |->
                    IF i = p[1] THEN param[i] + p[2] ELSE param[i]]

\* What a q function answers: a number, a NaN, or an error, which is also
\* what a value that is no number and a function of more arguments become.
Answers == [kind : {"number"}, v : Numbers] \cup
           [kind : {"nan", "user", "type", "rank"}, v : {0}]

\* Mutant: functions are called after an error, the last one counts.
call_param_LastError(a) ==
    CASE a.kind = "number"  -> [error |-> error, v |-> sign(job.which) * a.v]
      [] a.kind = "nan"     -> [error |-> error, v |-> wf]
      [] OTHER              -> [error |-> a.kind, v |-> 0]

\* call_param: no call after an error; a NaN counts as infinitely bad.
call_param(a) ==
    IF error # no_error         THEN [error |-> error, v |-> 0]
    ELSE IF a.kind = "number"   THEN [error |-> error,
                                      v |-> sign(job.which) * a.v]
    ELSE IF a.kind = "nan"      THEN [error |-> error, v |-> wf]
    ELSE [error |-> a.kind, v |-> 0]

\* One call of an evaluation, with the end of eval_param after the last one:
\* an error deactivates every constraint.  A routine keeps its values.
eval_param ==
    /\ pc = "eval"
    /\ \E a \in Answers :
          LET r == call_param(a)
              last == Len(todo) = 1
          IN  /\ error' = r.error
              /\ vals' = IF job.back = "run" THEN <<>> ELSE Append(vals, r.v)
              /\ job' = [job EXCEPT
                    !.first = IF @ = none /\ error = no_error /\ r.error # no_error
                              THEN r.error ELSE @,
                    !.late  = @ \/ /\ error = no_error /\ r.error # no_error
                                   /\ job.back \in {"finish", "cons"},
                    !.contyp = IF ~last THEN @
                               ELSE IF r.error # no_error THEN 0
                               ELSE contyp(job.which)]
              /\ pc' = IF last THEN job.back ELSE pc
    /\ todo' = Tail(todo)
    /\ UNCHANGED <<call, param, live, out>>

\* The routine evaluates a function where it likes (fnset_, objective and
\* constraints); only CONMAX asks for gradients.
Evaluate ==
    /\ pc = "run"
    /\ job.evals < MaxEvals
    /\ \E grad \in (IF Method(call) = "conmax" THEN BOOLEAN ELSE {FALSE}),
          which \in IF HasCon(call)
                    THEN 0..(ConCount(call) - (IF HasFun(call) THEN 0 ELSE 1))
                    ELSE {0} :
          /\ StartEval(which, grad, "run")
          /\ job' = [job EXCEPT !.which = which, !.back = "run",
                                !.evals = @ + 1]
    /\ \E p \in [DOMAIN param -> Moves] : param' = p
    /\ UNCHANGED <<call, error, live, out>>

\* The parameters a routine leaves: those of its last evaluation, or NaNs.
Left == {param, [i \in DOMAIN param |-> nf]}

-----------------------------------------------------------------------------
(* conmax.c *)

\* conmax_ returns, iter < 0 if it found no feasible point; then the
\* objective is evaluated once more.
solvemin ==
    /\ pc = "run" /\ Method(call) = "conmax"
    /\ \E iter \in -1..Iterations(call), ok \in BOOLEAN, p \in Left :
          LET sig == IF iter >= Iterations(call)                  THEN "iter"
                     ELSE IF iter < 0 \/ (call.fn = "solve" /\ ~ok) THEN "feas"
                     ELSE IF \E i \in DOMAIN p : p[i] = nf         THEN "nan"
                     ELSE none
              again == sig = "feas" /\ iter < 0 /\ HasFun(call)
                       /\ error = no_error
          IN  /\ param' = p
              /\ IF again THEN StartEval(0, FALSE, "finish")
                 ELSE pc' = "finish" /\ UNCHANGED <<todo, vals>>
              /\ job' = [job EXCEPT !.iter = iter, !.ok = ok, !.which = 0,
                            !.sig = IF error = no_error THEN sig ELSE none,
                            !.back = "finish"]
    /\ live' = live \ Scratch
    /\ UNCHANGED <<call, error, out>>

\* root evaluates both ends, the smaller one first.
root ==
    /\ pc = "entry" /\ Refusal(call) = none /\ Method(call) = "muller"
    /\ LET f == item_F(call.start, 0)[2]
           g == item_F(call.start, 1)[2]
       IN  /\ param' = <<min_i(f, g)>>
           /\ todo' = <<<<0, 0>>, <<1, max_i(f, g) - min_i(f, g)>>>>
    /\ vals' = <<>>
    /\ pc' = "eval"
    /\ job' = [job EXCEPT !.arg = 1, !.back = "ends"]
    /\ UNCHANGED <<call, error, live, out>>

\* The sign of the function is turned so that it falls from end to end.
root_sign ==
    /\ pc = "ends"
    /\ LET t == Tolerance(call)
           turn == vals[1] < -t /\ vals[2] > t
       IN  job' = [job EXCEPT !.sign = IF turn THEN -1 ELSE 1,
                              !.ends = IF turn THEN <<-vals[1], -vals[2]>>
                                       ELSE vals]
    /\ pc' = "run"
    /\ UNCHANGED <<call, param, todo, vals, error, live, out>>

Bracketed == job.ends[1] > Tolerance(call) /\ job.ends[2] < -Tolerance(call)

root_end ==
    /\ pc = "run" /\ Method(call) = "muller"
    /\ \E iter \in 0..Iterations(call), ok \in BOOLEAN, p \in Left :
          LET sig == IF iter >= Iterations(call) THEN "iter"
                     ELSE IF ~ok                 THEN "feas"
                     ELSE IF p[1] = nf           THEN "nan"
                     ELSE none
          IN  /\ param' = p
              /\ job' = [job EXCEPT !.iter = iter, !.ok = ok,
                            !.sig = IF error # no_error THEN none
                                    ELSE IF sig # none /\ ~Bracketed THEN "sign"
                                    ELSE sig]
    /\ pc' = "finish"
    /\ UNCHANGED <<call, todo, vals, error, live, out>>

\* line looks from base in the direction of start: its parameter is the
\* distance.
line ==
    /\ pc = "entry" /\ Refusal(call) = none /\ Method(call) = "searsl"
    /\ job' = [job EXCEPT
                  !.arg = IF convert_f(call.start) < convert_f(call.base)
                          THEN -1 ELSE 1]
    /\ param' = <<0>>
    /\ pc' = "run"
    /\ UNCHANGED <<call, todo, vals, error, live, out>>

line_end ==
    /\ pc = "run" /\ Method(call) = "searsl"
    /\ \E iter \in 0..Iterations(call), p \in Left :
          /\ param' = p
          /\ job' = [job EXCEPT !.iter = iter,
                        !.sig = IF error # no_error              THEN none
                                ELSE IF iter >= Iterations(call) THEN "iter"
                                ELSE IF p[1] = nf                THEN "nan"
                                ELSE none]
    /\ pc' = "finish"
    /\ UNCHANGED <<call, todo, vals, error, live, out>>

-----------------------------------------------------------------------------
(* nlopt.c *)

Results == {"SUCCESS", "MAXEVAL_REACHED", "INVALID_ARGS", "ROUNDOFF_LIMITED",
            "OUT_OF_MEMORY", "FAILURE"}
\* Mutant: the parameters are not looked at.
Signal_NoNans(result, p) ==
    IF result = "SUCCESS" THEN none
    ELSE IF result = "MAXEVAL_REACHED" THEN "iter" ELSE "fail"
Signal(result, p) ==
    CASE result = "SUCCESS"          ->
            IF \E i \in DOMAIN p : p[i] = nf THEN "nan" ELSE none
      [] result = "MAXEVAL_REACHED"  -> "iter"
      [] result = "INVALID_ARGS"     -> "qml_assert"
      [] result = "ROUNDOFF_LIMITED" -> "round"
      [] result = "OUT_OF_MEMORY"    -> "wsfull"
      [] OTHER                       -> "fail"

\* The routine returns.  Without an error the constraints are next.
nloptmin ==
    /\ pc = "run" /\ Method(call) = "nlopt"
    /\ \E result \in Results, p \in Left :
          /\ param' = p
          /\ job' = [job EXCEPT !.sig = IF error # no_error THEN none
                                        ELSE Signal(result, p)]
    /\ live' = live \ Scratch
    /\ pc' = IF error # no_error THEN "finish" ELSE "cons"
    /\ UNCHANGED <<call, todo, vals, error, out>>

\* The constraints evaluated once more, one after the other; the value of
\* the one just evaluated counts before the next.
nloptmin_cons ==
    /\ pc = "cons"
    /\ LET done == job.cons
           worst == IF done > 0 THEN max_i(job.con_err, vals[1]) ELSE 0
       IN  IF HasCon(call) /\ done < ConCount(call)
           THEN /\ StartEval(done + 1, FALSE, "cons")
                /\ job' = [job EXCEPT !.cons = done + 1, !.con_err = worst,
                                      !.which = done + 1, !.back = "cons"]
           ELSE /\ pc' = "finish"
                /\ job' = [job EXCEPT !.con_err = worst,
                     !.sig = IF @ = none /\ HasCon(call) /\ worst > Tolerance(call)
                             THEN "feas" ELSE @]
                /\ UNCHANGED <<todo, vals>>
    /\ UNCHANGED <<call, param, error, live, out>>

-----------------------------------------------------------------------------
(* The result *)

\* The keys of the dictionary for the option full, in the order in which
\* each function appends them.
If(b, s) == IF b THEN s ELSE <<>>

solvemin_keys(sig) ==
    <<"x">> \o If(sig, <<"last">>)
    \o If(HasFun(call), <<"f">> \o If(HasCon(call), <<"cons">>))
    \o If(sig /\ HasCon(call), <<"err">>) \o <<"iter">> \o If(sig, <<"sig">>)
nloptmin_keys(sig) ==
    <<"x">> \o If(sig, <<"last">>) \o <<"f">>
    \o If(HasCon(call), <<"cons">> \o If(sig, <<"err">>))
    \o <<"iter">> \o If(sig, <<"sig">>)
root_keys(sig) ==
    <<"x">> \o If(sig, <<"last", "err">>) \o <<"iter">> \o If(sig, <<"sig">>)
line_keys(sig) ==
    <<"x">> \o If(sig, <<"last">>) \o <<"f", "iter">> \o If(sig, <<"sig">>)

FullKeys ==
    LET sig == job.sig # none
    IN  CASE Method(call) = "conmax" -> solvemin_keys(sig)
          [] Method(call) = "nlopt"  -> nloptmin_keys(sig)
          [] Method(call) = "muller" -> root_keys(sig)
          [] Method(call) = "searsl" -> line_keys(sig)

\* x itself, NaN in its shape after a signal.
Value ==
    LET p == [i \in DOMAIN param |-> IF job.sig # none THEN nf ELSE param[i]]
    IN  IF Method(call) \in {"muller", "searsl"}
        THEN IF job.sig # none THEN Atom(KF, nf) ELSE Argument(p)
        ELSE Shape(Floats(call.start), p)[1]

\* A signal is an error unless the option quiet is set, and takes the place
\* of an error that came after the routine returned; with an error, q gets
\* that, and a value already made is forgotten.
Finish ==
    /\ pc = "finish"
    /\ LET raise == job.sig # none /\ ~Flag(call, "quiet")
           skip  == raise \/ (error # no_error /\ ~job.late)
           made  == IF skip THEN {}
                    ELSE IF Flag(call, "full") /\ job.sig # none THEN {"x", "last"}
                    ELSE {"x"}
           e     == IF raise THEN job.sig ELSE error
       IN  IF e # no_error
           THEN /\ out' = Raised(e)
                /\ live' = (live \ (Arrays \cup {"start"})) \cup made
           ELSE /\ live' = live \ (Arrays \cup {"start"})
                /\ out' = [kind |-> "value", x |-> Value, sig |-> job.sig,
                           keys |-> IF Flag(call, "full") THEN FullKeys
                                    ELSE <<>>]
    /\ pc' = "done"
    /\ UNCHANGED <<call, job, param, todo, vals, error>>

Done == pc = "done" /\ UNCHANGED vars

Next == \/ Refuse \/ Allocate \/ Evaluate \/ eval_param
        \/ solvemin \/ root \/ root_sign \/ root_end \/ line \/ line_end
        \/ nloptmin \/ nloptmin_cons \/ Finish \/ Done

Spec == Init /\ [][Next]_vars

-----------------------------------------------------------------------------
(* Properties *)

\* The state of a call has its types, and only an evaluation has calls left.
OptTypeOK ==
    /\ call \in Calls
    /\ pc \in {"entry", "eval", "ends", "run", "cons", "finish", "done"}
    /\ pc = "eval" <=> todo # <<>>
    /\ job.sign \in {-1, 1} /\ job.arg \in {-1, 0, 1}
    /\ live \subseteq Arrays \cup {"start", "x", "last"}
    /\ out.kind \in {"none", "error", "value"}
    /\ pc = "done" <=> out.kind # "none"

\* The first failure of a q function is what the caller gets, whatever the
\* routine does after it and whatever it returns (call_param, solvemin,
\* nloptmin, root, line).  Only a failure after the routine returned can give
\* way, and then to the signal; it is never answered with a value.
FirstFailureReported ==
    pc = "done" /\ job.first # none =>
       /\ out.kind = "error"
       /\ IF ~job.late THEN out.sig = job.first
          ELSE out.sig \in {job.first, job.sig}

\* Every buffer and every q object is freed or returned on every path, but
\* for the value made when a q function fails after the routine returned.
LeaksOnlyLate ==
    pc = "done" => /\ live \subseteq {"x", "last"}
                   /\ live # {} => job.late

\* Once a q function failed, CONMAX sees only deactivated constraints.
ErrorDeactivates == pc = "run" /\ job.first # none /\ job.evals > 0
                    => job.contyp = 0

\* The keys of a full result, by function and signal, are those of the tables
\* in the comments at conmax.c:156, 266 and 344 and nlopt.c:211.
FullTable ==
    [solve  |-> <<<<"x", "iter">>, <<"x", "last", "err", "iter", "sig">>>>,
     min    |-> <<<<"x", "f", "iter">>, <<"x", "last", "f", "iter", "sig">>>>,
     conmin |-> <<<<"x", "f", "cons", "iter">>,
                  <<"x", "last", "f", "cons", "err", "iter", "sig">>>>,
     root   |-> <<<<"x", "iter">>, <<"x", "last", "err", "iter", "sig">>>>,
     line   |-> <<<<"x", "f", "iter">>, <<"x", "last", "f", "iter", "sig">>>>]
FullMatchesTable ==
    out.keys # <<>> =>
       out.keys = FullTable[call.fn][IF out.sig = none THEN 1 ELSE 2]

\* The function muller searches falls through zero whenever the signs at the
\* two ends allow it, and only a search from ends that do not reports sign.
RootBracketed ==
    call.fn = "root" =>
       LET t == Tolerance(call)
           apart == IF vals[1] > t THEN vals[2] < -t
                    ELSE vals[1] < -t /\ vals[2] > t
       IN  /\ pc = "run" /\ job.evals = 0 => (apart <=> Bracketed)
           /\ pc = "done" /\ out.sig = "sign" => ~Bracketed
           /\ pc = "done" /\ job.sig # none /\ ~Bracketed => job.sig = "sign"

\* Every call line makes is on the side of base on which start is.
LineTowardsStart ==
    call.fn = "line" /\ pc = "eval" =>
       (Argument(param).v - convert_f(call.base))
       * (convert_f(call.start) - convert_f(call.base)) >= 0

\* A result of the NLopt functions without a signal satisfies the constraints
\* at the point returned: all of them were evaluated there.
FeasibleOrSignal ==
    out.kind = "value" /\ Method(call) = "nlopt" /\ HasCon(call) =>
       /\ job.cons = ConCount(call)
       /\ out.sig = none => job.con_err <= Tolerance(call)

\* A failure of a q function ends the work of the optimiser and reaches its
\* caller.
FailuresReported == OptTypeOK /\ FirstFailureReported /\ ErrorDeactivates
=============================================================================
