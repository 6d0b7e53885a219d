----------------------------- MODULE MatrixProofs -----------------------------
(***************************************************************************)
(* Proofs about QmlMatrices.tla, for any calls, any sizes of the schedule  *)
(* and of the largest buffer, and any outcome of LAPACK: whichever         *)
(* allocations fail, a matrix function frees what it allocated, reports    *)
(* the first thing that is wrong, and gives LAPACK buffers that are large  *)
(* enough; and the loop of tests ends with a run in which nothing failed.  *)
(*                                                                         *)
(* Every step of a function has a lemma: a sound heap goes to a sound one. *)
(* The steps of a function are joined in a lemma of its own (MdetEnds to   *)
(* MlsqxEnds), and the functions in that of a run (EndsKeepsLoop).  What   *)
(* fits into the buffers has lemmas and functions of its own, in the same  *)
(* order (FitRequire to NextOverruns).                                     *)
(***************************************************************************)
EXTENDS QmlMatrices, FiniteSets, SequenceTheorems, NaturalsInduction,
        WellFoundedInduction, TLAPS

\* The variables of a heap.
Fields == {"err", "live", "fail", "i", "over", "info", "lwork", "liwork", "m",
           "n", "b_m", "b_n", "ldb", "nm", "min", "a", "b", "r",
           "triangular", "column"}

\* Those that are passed as dimensions.
Ints == {"lwork", "liwork", "m", "n", "b_m", "b_n", "ldb", "nm", "min"}

\* An allocation has failed.
Failed(h) == \E j \in 1..(h.i - 1) : alloc_fail[j] = 1

\* The heap h has no buffers but those of P, has made less than n calls of
\* alloc, and the error, if there is one, is in E or wsfull after an allocation
\* that failed.
Sound(h, P, E, n) ==
    /\ DOMAIN h = Fields
    /\ DOMAIN h.live \subseteq P
    /\ h.i \in 1..n
    /\ h.fail = alloc_fail
    /\ h.err = none => ~Failed(h)
    /\ h.err # none => \/ h.err \in E
                       \/ h.err = "wsfull" /\ Failed(h)

With(P, p) == P \cup {p}

\* g differs from h in the variables X only, and in what has been overrun.
Same(h, g, X) == \A x \in Fields \ X : x # "over" => g[x] = h[x]

\* Buffers other than p have the same size.
Kept(h, g, p) == \A q : q # p => Size(g, q) = Size(h, q)

\* The variables X are those of the C function.
Data(X) == X \cap {"err", "live", "fail", "i"} = {}

\* If no error is to be reported in g none is in h, and only the variables X
\* have changed.
Step(h, g, X) == g.err = none => h.err = none /\ Same(h, g, X)

\* Then, or p is a new buffer of s items, and nothing else has changed.
Got(h, g, p, s) ==
    /\ Step(h, g, {"live", "i"})
    /\ g.err = none => Kept(h, g, p) /\ Size(g, p) = s

\* A buffer of n times m is small enough, or limit is in E.
Limited(n, m, E) == /\ n \in Nat /\ m \in Nat
                    /\ n >= wi \/ n * m > max_size => "limit" \in E

\* The loop of tests runs the call.
Running == /\ alloc_fail \in [0..(alloc_max - 1) -> {0, 1}]
           /\ alloc_fail[0] = 0 /\ alloc_i = 1

\* An error may be recorded that is one of E, unless there is one already:
\* then that one stays.
LEMMA ErrSound ==
  ASSUME NEW h, NEW P, NEW E, NEW n, NEW e, Sound(h, P, E, n), e # none,
         h.err = none => e \in E,
         NEW g, g = Err(h, e)
  PROVE  /\ Sound(g, P, E, n) /\ Same(h, g, {"err"}) /\ g.err # none
         /\ h.err # none => g.err = h.err
<1>0. DOMAIN h = Fields
  BY DEF Sound
<1>1. /\ DOMAIN g = Fields
      /\ g.live = h.live /\ g.fail = h.fail /\ g.i = h.i
      /\ g.err = IF h.err = none THEN e ELSE h.err
  BY <1>0 DEF Err, Fields
<1>2. Same(h, g, {"err"})
  BY <1>0 DEF Err, Fields, Same
<1>3. Failed(g) <=> Failed(h)
  BY <1>1 DEF Failed
<1> QED
  BY <1>1, <1>2, <1>3 DEF Sound

\* A check that fails records its error, and one that holds changes nothing.
LEMMA RequireSound ==
  ASSUME NEW h, NEW P, NEW E, NEW n, NEW e, NEW ok,
         ok \in BOOLEAN, Sound(h, P, E, n), e # none, h.err = none /\ ~ok => e \in E,
         NEW g, g = Require(h, ok, e)
  PROVE  /\ Sound(g, P, E, n) /\ Step(h, g, {})
         /\ g.err = none => ok /\ g = h
<1>1. CASE ok
  BY <1>1 DEF Require, Same, Step
<1>2. CASE ~ok
  BY <1>2, ErrSound DEF Require, Step
<1> QED
  BY <1>1, <1>2

\* The variables of the C function do not matter to the heap.
LEMMA SetSound ==
  ASSUME NEW h, NEW P, NEW E, NEW n, NEW X, Sound(h, P, E, n),
         Data(X), NEW g, DOMAIN g = Fields, Same(h, g, X)
  PROVE  Sound(g, P, E, n) /\ Step(h, g, X) /\ g.live = h.live
<1>1. /\ g.live = h.live /\ g.fail = h.fail /\ g.i = h.i
      /\ g.err = h.err
  BY DEF Fields, Same, Data
<1>2. Failed(g) <=> Failed(h)
  BY <1>1 DEF Failed
<1> QED
  BY <1>1, <1>2 DEF Sound, Step

\* malloc either gives p its s items or fails as the schedule says.
LEMMA AllocSound ==
  ASSUME NEW h, NEW P, NEW E, NEW n \in Nat, NEW p, NEW s, Sound(h, P, E, n),
         n < alloc_max, p \notin P, Running,
         NEW g, g = alloc(h, p, s)
  PROVE  /\ DOMAIN g = Fields
         /\ DOMAIN g.live \subseteq With(P, p)
         /\ g.i \in 1..(n + 1)
         /\ Same(h, g, {"live", "i"})
         /\ Kept(h, g, p)
         /\ Failed(h) => Failed(g)
         /\ \/ Live(g, p) /\ Size(g, p) = s /\ (Failed(g) => Failed(h))
            \/ ~Live(g, p) /\ Failed(g)
<1> DEFINE with == [q \in DOMAIN h.live \cup {p} |->
                      IF q = p THEN s ELSE h.live[q]]
           f == alloc_fail[h.i]
           l == IF f = 1 THEN h.live ELSE with
<1>0. DOMAIN h = Fields /\ h.i \in 1..n /\ h.fail = alloc_fail
      /\ DOMAIN h.live \subseteq P
  BY DEF Sound
<1>1. f \in {0, 1} /\ alloc_fail[0] = 0
  BY <1>0, CallsAssumption DEF Running
<1>2. g = [h EXCEPT !.i = h.i + 1, !.live = l]
  BY <1>0, <1>1, CallsAssumption DEF alloc
<1>3. /\ DOMAIN g = Fields /\ g.i = h.i + 1 /\ g.live = l
      /\ Same(h, g, {"live", "i"})
  BY <1>0, <1>2 DEF Fields, Same
<1>4. Failed(g) <=> Failed(h) \/ f = 1
  BY <1>0, <1>3 DEF Failed
<1>5. CASE f = 1
  <2>1. g.live = h.live
    BY <1>3, <1>5
  <2>2. Kept(h, g, p) /\ ~Live(g, p)
    BY <2>1, <1>0 DEF Kept, Size, Live
  <2> QED
    BY <2>1, <2>2, <1>0, <1>3, <1>4, <1>5 DEF With
<1>6. CASE f = 0
  <2>1. g.live = with
    BY <1>3, <1>6
  <2>2. /\ DOMAIN g.live = DOMAIN h.live \cup {p} /\ g.live[p] = s
        /\ \A q \in DOMAIN h.live : q # p => g.live[q] = h.live[q]
    BY <2>1
  <2>3. Kept(h, g, p) /\ Live(g, p) /\ Size(g, p) = s
    BY <2>2, <1>0 DEF Kept, Size, Live
  <2> QED
    BY <2>2, <2>3, <1>0, <1>3, <1>4, <1>6 DEF With
<1> QED
  BY <1>1, <1>5, <1>6

\* A heap is one with more buffers and more calls of alloc to come.
LEMMA SoundMore ==
  ASSUME NEW h, NEW P, NEW E, NEW n \in Nat, NEW p, Sound(h, P, E, n)
  PROVE  Sound(h, With(P, p), E, n + 1)
BY DEF Sound, With

\* alloc and the check of what it returns: wsfull, or p has s items.
LEMMA AllocSize ==
  ASSUME NEW h, NEW P, NEW E, NEW n \in Nat, NEW p, NEW s, Sound(h, P, E, n),
         n < alloc_max, p \notin P, Running,
         NEW g, g = Require(alloc(h, p, s), Live(alloc(h, p, s), p), "wsfull")
  PROVE  Sound(g, With(P, p), E, n + 1) /\ Got(h, g, p, s)
<1> DEFINE a == alloc(h, p, s)
<1>1. /\ DOMAIN a = Fields
      /\ DOMAIN a.live \subseteq With(P, p)
      /\ a.i \in 1..(n + 1)
      /\ Same(h, a, {"live", "i"})
      /\ Kept(h, a, p)
      /\ Failed(h) => Failed(a)
      /\ \/ Live(a, p) /\ Size(a, p) = s /\ (Failed(a) => Failed(h))
         \/ ~Live(a, p) /\ Failed(a)
  BY AllocSound
<1>2. g = Require(a, Live(a, p), "wsfull")
  OBVIOUS
<1> HIDE DEF a
<1>3. a.err = h.err /\ a.fail = h.fail 
  BY <1>1 DEF Same, Fields
<1>4. CASE Live(a, p)
  <2>1. g = a
    BY <1>2, <1>4 DEF Require
  <2>2. Sound(a, With(P, p), E, n + 1)
    BY <1>1, <1>3, <1>4 DEF Sound
  <2> QED
    BY <1>1, <1>3, <1>4, <2>1, <2>2 DEF Step, Got
<1>5. CASE ~Live(a, p)
  <2>1. g = Err(a, "wsfull")
    BY <1>2, <1>5 DEF Require
  <2>2. /\ DOMAIN g = Fields /\ g.live = a.live /\ g.i = a.i
        /\ g.fail = a.fail
        /\ g.err = IF a.err = none THEN "wsfull" ELSE a.err
    BY <1>1, <2>1 DEF Err, Fields
  <2>3. Failed(g)
    BY <1>1, <1>5, <2>2 DEF Failed
  <2>4. g.err # none
    BY <2>2 DEF none
  <2>5. Sound(g, With(P, p), E, n + 1)
    BY <1>1, <1>3, <2>2, <2>3, <2>4 DEF Sound
  <2> QED
    BY <2>4, <2>5 DEF Step, Got
<1> QED
  BY <1>4, <1>5

\* alloc_TT gives p its n times m items, unless that is too much or malloc
\* fails, and then an error is recorded.
LEMMA AllocTTSound ==
  ASSUME NEW h, NEW P, NEW E, NEW k \in Nat, NEW p, NEW n, NEW m,
         Sound(h, P, E, k), k < alloc_max, p \notin P, Running,
         h.err = none => Limited(n, m, E),
         NEW g, g = alloc_TT(h, p, n, m)
  PROVE  Sound(g, With(P, p), E, k + 1) /\ Got(h, g, p, n * m)
<1>0. h.err = none => n \in Nat /\ m \in Nat
  BY DEF Limited
<1>1. CASE n = 0 \/ m = 0
  <2>1. g = h
    BY <1>1 DEF alloc_TT
  <2>2. Size(h, p) = 0
    BY DEF Size, Live, Sound
  <2>3. Sound(h, With(P, p), E, k + 1)
    BY SoundMore
  <2>4. h.err = none => n * m = 0
    BY <1>0, <1>1
  <2> QED
    BY <2>1, <2>2, <2>3, <2>4 DEF Step, Same, Kept, Got
<1>2. CASE ~(n = 0 \/ m = 0) /\ (n >= wi \/ n * m > max_size)
  <2>1. g = Err(h, "limit")
    BY <1>2 DEF alloc_TT
  <2>2. Sound(h, With(P, p), E, k + 1)
    BY SoundMore
  <2>3. "limit" # none
    BY DEF none
  <2>4. h.err = none => "limit" \in E
    BY <1>2 DEF Limited
  <2>5. Sound(g, With(P, p), E, k + 1) /\ g.err # none
    BY <2>1, <2>2, <2>3, <2>4, ErrSound
  <2> QED
    BY <2>5 DEF Step, Got
<1>3. CASE ~(n = 0 \/ m = 0) /\ ~(n >= wi \/ n * m > max_size)
  <2> DEFINE s == n * m
  <2>1. g = Require(alloc(h, p, s), Live(alloc(h, p, s), p), "wsfull")
    BY <1>3 DEF alloc_TT
  <2> HIDE DEF s
  <2>2. Sound(g, With(P, p), E, k + 1) /\ Got(h, g, p, s)
    BY <2>1, AllocSize
  <2> QED
    BY <2>2 DEF s
<1> QED
  BY <1>1, <1>2, <1>3

\* alloc_T does, and sets the dimension to 0 only when an error is recorded.
LEMMA AllocTSound ==
  ASSUME NEW h, NEW P, NEW E, NEW n \in Nat, NEW p, NEW d \in Ints, NEW m,
         Sound(h, P, E, n), n < alloc_max, p \notin P, Running,
         h.err = none => Limited(h[d], m, E),
         NEW g, g = alloc_T(h, p, d, m)
  PROVE  Sound(g, With(P, p), E, n + 1) /\ Got(h, g, p, h[d] * m)
<1> DEFINE a == h[d]
           s == a * m
           r == alloc_TT(h, p, a, m)
<1>0. h.err = none => a \in Nat /\ m \in Nat
  BY DEF Limited
<1>1. Sound(r, With(P, p), E, n + 1) /\ Got(h, r, p, a * m)
  <2>1. h.err = none => Limited(a, m, E)
    OBVIOUS
  <2> HIDE DEF a
  <2> QED
    BY <2>1, AllocTTSound
<1>2. g = IF m # 0 /\ ~Live(r, p) THEN [r EXCEPT ![d] = 0] ELSE r
  BY DEF alloc_T
<1> HIDE DEF r
<1>3. CASE m # 0 /\ ~Live(r, p)
  <2>1. g = [r EXCEPT ![d] = 0]
    BY <1>2, <1>3
  <2>2. d \in Fields /\ {d} \cap {"err", "live", "fail", "i"} = {}
    BY DEF Ints, Fields
  <2>3. DOMAIN r = Fields
    BY <1>1 DEF Sound
  <2> DEFINE X == {d}
  <2>4. DOMAIN g = Fields /\ Same(r, g, X) /\ g[d] = 0
    BY <2>1, <2>2, <2>3 DEF Same
  <2>5. Sound(g, With(P, p), E, n + 1) /\ g.live = r.live /\ Step(r, g, X)
    <3>1. Data(X)
      BY <2>2 DEF Data
    <3> HIDE DEF X
    <3> QED
      BY <1>1, <2>4, <3>1, SetSound
  <2>6. SUFFICES ASSUME g.err = none
                 PROVE  /\ h.err = none /\ Same(h, g, {"live", "i"})
                        /\ Kept(h, g, p) /\ Size(g, p) = a * m
    BY <2>5 DEF Step, Got
  <2>7. r.err = none
    BY <2>5, <2>6 DEF Step
  <2>8. /\ h.err = none /\ Same(h, r, {"live", "i"})
        /\ Kept(h, r, p) /\ Size(r, p) = a * m
    BY <1>1, <2>7 DEF Got, Step
  <2>9. a = 0
    BY <1>0, <1>3, <2>8 DEF Size
  <2>10. Same(h, g, {"live", "i"})
    BY <2>4, <2>8, <2>9 DEF Same
  <2>11. \A q : Size(g, q) = Size(r, q)
    BY <2>5 DEF Size, Live
  <2> QED
    BY <2>8, <2>10, <2>11 DEF Kept
<1>4. CASE ~(m # 0 /\ ~Live(r, p))
  BY <1>1, <1>2, <1>4
<1> QED
  BY <1>3, <1>4

\* A second dimension is set to 0 with the first only after an error.
LEMMA ShrinkSound ==
  ASSUME NEW h, NEW P, NEW E, NEW n, NEW d \in Ints, NEW e \in Ints,
         Sound(h, P, E, n),
         h.err = none => h[d] # 0 \/ h[e] = 0,
         NEW g, g = Shrink(h, d, e)
  PROVE  Sound(g, P, E, n) /\ Step(h, g, {})
<1>1. CASE h[d] = 0
  <2>1. g = [h EXCEPT ![e] = 0]
    BY <1>1 DEF Shrink
  <2>2. e \in Fields /\ {e} \cap {"err", "live", "fail", "i"} = {}
    BY DEF Ints, Fields
  <2>3. DOMAIN h = Fields
    BY DEF Sound
  <2> DEFINE X == {e}
  <2>4. DOMAIN g = Fields /\ Same(h, g, X) /\ g[e] = 0
    BY <2>1, <2>2, <2>3 DEF Same
  <2>5. Sound(g, P, E, n) /\ Step(h, g, X)
    <3>1. Data(X)
      BY <2>2 DEF Data
    <3> HIDE DEF X
    <3> QED
      BY <2>4, <3>1, SetSound
  <2> QED
    BY <1>1, <2>4, <2>5 DEF Step, Same
<1>2. CASE h[d] # 0
  BY <1>2 DEF Shrink, Step, Same
<1> QED
  BY <1>1, <1>2

\* What is overrun does not matter to the heap.
LEMMA UsesSame ==
  ASSUME NEW h, NEW needs, DOMAIN h = Fields, NEW g, g = Uses(h, needs)
  PROVE  DOMAIN g = Fields /\ Same(h, g, {}) /\ g.live = h.live
BY DEF Uses, Fields, Same

\* A routine of LAPACK that gets valid dimensions when there is no error leaves
\* the heap sound and returns info.
LEMMA LapackSound ==
  ASSUME NEW h, NEW P, NEW E, NEW n, NEW valid, NEW needs,
         NEW info, info \in Nat, valid \in BOOLEAN, Sound(h, P, E, n),
         h.err = none => valid,
         NEW g, g = Lapack(h, valid, needs, info)
  PROVE  /\ Sound(g, P, E, n) /\ Step(h, g, {"info"})
         /\ g.err = none => g.info = info
<1> DEFINE ran == IF valid THEN Uses(h, needs) ELSE h
           v == IF valid THEN info ELSE -1
           f == [ran EXCEPT !.info = v]
           X == {"info"}
<1>1. g = check_info(f, v)
  BY DEF Lapack
<1>2. DOMAIN h = Fields
  BY DEF Sound
<1>3. DOMAIN ran = Fields /\ Same(h, ran, {})
  BY <1>2, UsesSame DEF Same
<1> HIDE DEF ran
<1>4. DOMAIN f = Fields /\ f.info = v /\ Same(h, f, {"info"})
  BY <1>3 DEF Fields, Same
<1> HIDE DEF f
<1>5. Data(X)
  BY DEF Data
<1>6. Sound(f, P, E, n) /\ Step(h, f, X)
  <2> HIDE DEF X
  <2> QED
    BY <1>4, <1>5, SetSound DEF X
<1>7. CASE valid
  <2>1. v = info /\ g = f
    BY <1>1, <1>7 DEF check_info
  <2> QED
    BY <2>1, <1>4, <1>6
<1>8. CASE ~valid
  <2>1. g = Err(f, "qml_assert")
    BY <1>1, <1>8 DEF check_info
  <2>2. f.err # none
    BY <1>4, <1>8 DEF Same, Fields
  <2>3. "qml_assert" # none
    BY DEF none
  <2>4. Sound(g, P, E, n) /\ g.err # none
    BY <1>6, <2>1, <2>2, <2>3, ErrSound
  <2> QED
    BY <2>4 DEF Step
<1> QED
  BY <1>7, <1>8

\* Nor does what make_matrix reads.
LEMMA ReadsSame ==
  ASSUME NEW h, NEW needs, DOMAIN h = Fields, NEW g, g = Reads(h, needs)
  PROVE  DOMAIN g = Fields /\ Same(h, g, {}) /\ g.live = h.live
BY UsesSame DEF Reads, Same

\* A call has ended as it should: it has given back all it allocated, and its
\* result is an error of E, wsfull after an allocation that failed, or an
\* answer, which no error e forbids.
Ends(r, E, e) ==
    /\ DOMAIN r.h.live = {} /\ r.h.i \in 1..alloc_max
    /\ r.k # NULL
    /\ r.k.t # -128 => e = none /\ ~Failed(r.h)
    /\ r.k.t = -128 => /\ r.k.s # none
                       /\ r.k.s \in E \/ (r.k.s = "wsfull" /\ Failed(r.h))

\* A function that frees all its buffers ends with its value, or with the error
\* recorded: an error of its arguments has been recorded.
LEMMA DoneEnds ==
  ASSUME NEW h, NEW P, NEW E, NEW n \in Nat, NEW e, NEW F, NEW k,
         Sound(h, P, E, n), n < alloc_max, P \subseteq F,
         k.t \in {-KF, 0, KF}, h.err = none => e = none,
         NEW f, DOMAIN f = Fields, Same(h, f, {}),
         NEW r, r = Done(Free(f, F), k)
  PROVE  Ends(r, E, e)
<1> DEFINE none_left == [q \in DOMAIN f.live \ F |-> f.live[q]]
           g == [f EXCEPT !.live = none_left]
<1>0. /\ DOMAIN h = Fields /\ DOMAIN h.live \subseteq P
      /\ f.live = h.live /\ f.i = h.i /\ f.err = h.err
  BY DEF Sound, Same, Fields
<1>1. r.h = g /\ r.k = check_err(g, k)
  BY DEF Done, Free
<1>2. /\ DOMAIN g = Fields /\ g.live = none_left
      /\ g.i = h.i /\ g.err = h.err
  BY <1>0 DEF Fields
<1> HIDE DEF g, none_left
<1>3. DOMAIN g.live = {}
  BY <1>0, <1>2 DEF none_left
<1>4. Failed(g) <=> Failed(h)
  BY <1>2 DEF Failed
<1>5. g.i \in 1..alloc_max
  BY <1>2, CallsAssumption DEF Sound
<1>6. CASE h.err = none
  <2>1. r.k = k
    BY <1>1, <1>2, <1>6 DEF check_err
  <2>2. k # NULL /\ k.t # -128
    BY DEF NULL, KF
  <2> QED
    BY <1>1, <1>3, <1>4, <1>5, <1>6, <2>1, <2>2 DEF Ends, Sound
<1>7. CASE h.err # none
  <2>1. r.k = Krr(h.err)
    BY <1>1, <1>2, <1>7 DEF check_err
  <2>2. r.k # NULL /\ r.k.t = -128 /\ r.k.s = h.err
    BY <2>1 DEF NULL, Krr
  <2> QED
    BY <1>1, <1>3, <1>4, <1>5, <1>7, <2>2 DEF Ends, Sound
<1> QED
  BY <1>6, <1>7

\* The rows of a matrix are vectors of floats.
LEMMA RowsAreFloats ==
  ASSUME NEW x, IsValue(x), convert_FF(x) # NULL
  PROVE  /\ Rows(x) \in Seq(Floats1)
         /\ Height(x) \in Nat /\ DOMAIN Rows(x) = 1..Height(x)
         /\ Rows(x) # <<>> <=> Height(x) > 0
         /\ \A j \in 1..Height(x) : Rows(x)[j].v \in Seq(Int)
         /\ \A j \in 1..Height(x) : Len(Rows(x)[j].v) \in Nat
<1>1. Rows(x) \in Seq(Floats1)
  BY DEF IsValue, Rows
<1> DEFINE s == Rows(x)
<1> HIDE DEF s
<1>2. s \in Seq(Floats1)
  BY <1>1 DEF s
<1>3. Len(s) \in Nat /\ DOMAIN s = 1..Len(s) /\ (s # <<>> <=> Len(s) > 0)
  BY <1>2, LenProperties, EmptySeq
<1>4. \A j \in 1..Len(s) : s[j] \in Floats1
  BY <1>2, ElementOfSeq
<1>5. \A j \in 1..Len(s) : s[j].v \in Seq(Int)
  BY <1>4 DEF Floats1
<1>6. \A j \in 1..Len(s) : Len(s[j].v) \in Nat
  BY <1>5, LenProperties
<1> QED
  BY <1>2, <1>3, <1>5, <1>6 DEF s, Height

\* x is a list of vectors, and not the empty one.
Listed(x) == convert_FF(x) # NULL /\ Rows(x) # <<>>

\* take_square_matrix takes a square matrix into a, or records what is wrong
\* with it.
LEMMA TakeSquare ==
  ASSUME NEW h, NEW E, NEW x, Sound(h, {}, E, 1), IsValue(x), Running,
         SquareError(x) # none => SquareError(x) \in E,
         Listed(x) => Limited(Height(x), Height(x), E),
         NEW g, g = take_square_matrix(h, x)
  PROVE  /\ Sound(g, With({}, "a"), E, 2)
         /\ g.err = none =>
              /\ SquareError(x) = none
              /\ g.n = Height(x) /\ g.n \in Nat \ {0}
              /\ g.triangular = triangular(convert_FF(x), g.n)
<1> DEFINE k == convert_FF(x)
           ok == k # NULL /\ k.v # <<>>
           c1 == Require(h, ok, "type")
           len == IF ok THEN Len(k.v) ELSE 0
           c2 == [c1 EXCEPT !.n = len]
           c3 == alloc_FF(c2, "a", "n", "n")
           short == \E j \in 0..(c3.n - 1) : Len(Row(k, j)) # c3.n
           c4 == SquareRows(c3, k)
           c5 == Uses(c4, [a |-> c4.n * c4.n])
<1>1. g = [c5 EXCEPT !.a = [o \in 0..(c4.n * c4.n - 1) |->
                              Row(k, o % c4.n)[(o \div c4.n) + 1]],
                     !.triangular = triangular(k, c4.n)]
  BY DEF take_square_matrix, FillSquare
<1>2. Sound(c1, {}, E, 1) /\ Step(h, c1, {}) /\ (c1.err = none => ok)
  <2>1. ok <=> Listed(x)
    BY DEF Listed, Rows
  <2>2. ~ok => SquareError(x) = "type"
    BY DEF SquareError, Rows
  <2>3. "type" # none
    BY DEF none
  <2> HIDE DEF ok
  <2>4. ok \in BOOLEAN
    BY DEF ok
  <2> QED
    BY <2>2, <2>3, <2>4, RequireSound
<1> HIDE DEF c1
<1>3. /\ DOMAIN c1 = Fields /\ DOMAIN c2 = Fields
      /\ Same(c1, c2, {"n"}) /\ c2.n = len
  BY <1>2 DEF Sound, Same, Fields
<1> HIDE DEF c2
<1>4. Sound(c2, {}, E, 1) /\ Step(c1, c2, {"n"})
  <2>1. Data({"n"})
    BY DEF Data
  <2> QED
    BY <1>2, <1>3, <2>1, SetSound
<1>5. c2.err = none => ok /\ c2.n = Height(x) /\ Limited(c2.n, c2.n, E)
  BY <1>2, <1>3, <1>4 DEF Step, Listed, Rows, Height
<1>6. Sound(c3, With({}, "a"), E, 2) /\ Got(c2, c3, "a", c2.n * c2.n)
  <2>1. c2["n"] = c2.n /\ c3 = alloc_T(c2, "a", "n", c2.n)
    BY DEF alloc_FF
  <2>2. "n" \in Ints /\ 1 < alloc_max /\ "a" \notin {} /\ 1 + 1 = 2
    BY CallsAssumption DEF Ints
  <2>3. c2.err = none => Limited(c2["n"], c2.n, E)
    BY <1>5, <2>1
  <2> HIDE DEF c3
  <2> QED
    BY <1>4, <2>1, <2>2, <2>3, AllocTSound
<1> HIDE DEF c3

<1>7. c3.err = none =>
         ok /\ c3.n = Height(x)
  <2>1. c3.err = none => c2.err = none /\ c3.n = c2.n
    BY <1>6 DEF Got, Step, Same, Fields
  <2> QED
    BY <1>5, <2>1
<1>8. c3.err = none => /\ c3.n \in Nat \ {0}
                       /\ short <=> ~HasRows(x, Height(x))
  <2>1. SUFFICES ASSUME c3.err = none
                 PROVE  /\ c3.n \in Nat \ {0}
                        /\ short <=> ~HasRows(x, Height(x))
    OBVIOUS
  <2>2. /\ c3.n \in Nat \ {0} /\ DOMAIN Rows(x) = 1..Height(x)
        /\ \A j \in 1..Height(x) : Len(Rows(x)[j].v) \in Nat
    BY <1>7, <2>1, RowsAreFloats DEF Rows
  <2>3. short <=> \E j \in 0..(c3.n - 1) : Len(Rows(x)[j + 1].v) # Height(x)
    BY <1>7, <2>1 DEF Row, Rows
  <2>4. (\E j \in 0..(c3.n - 1) : Len(Rows(x)[j + 1].v) # Height(x))
        <=> \E i \in 1..c3.n : Len(Rows(x)[i].v) # Height(x)
    <3>1. ASSUME NEW i \in 1..c3.n
          PROVE  i - 1 \in 0..(c3.n - 1) /\ (i - 1) + 1 = i
      BY <2>2
    <3>2. ASSUME NEW j \in 0..(c3.n - 1)
          PROVE  j + 1 \in 1..c3.n
      BY <2>2
    <3> QED
      BY <3>1, <3>2
  <2> QED
    BY <1>7, <2>1, <2>2, <2>3, <2>4 DEF HasRows
<1>9. /\ Sound(c4, With({}, "a"), E, 2)
      /\ c4.err = none => SquareError(x) = none /\ c4 = c3
  <2> HIDE DEF c4
  <2>1. CASE short
    <3> DEFINE f == Err(c3, "length")
    <3>1. c4 = [f EXCEPT !.n = 0]
      BY <2>1 DEF SquareRows, c4
    <3>2. "length" # none
      BY DEF none
    <3>3. c3.err = none => "length" \in E
      BY <1>7, <1>8, <2>1, <3>2 DEF SquareError, Rows
    <3> HIDE DEF f
    <3>4. Sound(f, With({}, "a"), E, 2) /\ f.err # none
      BY <1>6, <3>2, <3>3, ErrSound DEF f
    <3>5. DOMAIN f = Fields
      BY <3>4 DEF Sound
    <3>6. DOMAIN c4 = Fields /\ Same(f, c4, {"n"})
      BY <3>1, <3>5 DEF Same, Fields
    <3> HIDE DEF c4
    <3>7. Sound(c4, With({}, "a"), E, 2) /\ Step(f, c4, {"n"})
      <4>1. Data({"n"})
        BY DEF Data
      <4> QED
        BY <3>4, <3>6, <4>1, SetSound
    <3> QED
      BY <3>4, <3>7 DEF Step
  <2>2. CASE ~short
    <3>1. c4 = c3
      BY <2>2 DEF SquareRows, c4
    <3>2. c3.err = none => SquareError(x) = none
      BY <1>7, <1>8, <2>2 DEF SquareError, Rows
    <3> QED
      BY <1>6, <3>1, <3>2
  <2> QED
    BY <2>1, <2>2
<1> HIDE DEF c4
<1>10. /\ DOMAIN g = Fields /\ Same(c4, g, {"a", "triangular"})
       /\ g.triangular = triangular(k, c4.n)
  <2>1. DOMAIN c4 = Fields
    BY <1>9 DEF Sound
  <2>2. DOMAIN c5 = Fields /\ Same(c4, c5, {})
    BY <2>1, UsesSame
  <2> HIDE DEF c5
  <2> QED
    BY <1>1, <2>2 DEF Same, Fields
<1>11. Sound(g, With({}, "a"), E, 2) /\ Step(c4, g, {"a", "triangular"})
  <2>1. Data({"a", "triangular"})
    BY DEF Data
  <2> QED
    BY <1>9, <1>10, <2>1, SetSound
<1> QED
  <2>1. SUFFICES ASSUME g.err = none
                 PROVE  /\ SquareError(x) = none
                        /\ g.n = Height(x) /\ g.n \in Nat \ {0}
                        /\ g.triangular = triangular(convert_FF(x), g.n)
    BY <1>11
  <2>2. c4.err = none /\ g.n = c4.n
    BY <1>11, <2>1 DEF Step, Same, Fields
  <2> QED
    BY <1>7, <1>8, <1>9, <1>10, <2>2

\* Where a matrix is put: its dimensions, in different variables, and its
\* buffer; d is the least leading dimension.
Place(v, d) ==
    /\ v.m \in {"m", "b_m"} /\ v.n \in {"n", "b_n"} /\ v.a \in {"a", "b"}
    /\ v.ldr \in {v.m, "ldb"}
    /\ d \in Nat /\ (v.ldr = v.m => d = 0)

Parts(v) == {"live", "i", "column", "nm", v.m, v.n, v.ldr, v.a}

\* h holds a matrix of rows by cols, or a vector, where v says.
Holds(h, v, d, rows, cols) ==
    h[v.m] = rows /\ h[v.n] = cols /\ h[v.ldr] = max_i(d, rows)

\* The matrix taken last was a vector, or was not.
IsColumn(h) == h.column = TRUE
NoColumn(h) == h.column = FALSE

\* The heap h is ready to take a matrix where v says, and g has taken it.
Ready(h, P, E, n, v, d) ==
    /\ Place(v, d) /\ Sound(h, P, E, n) /\ n < alloc_max
    /\ v.a \notin P /\ h[v.ldr] = d
Took(h, g, P, E, n, v) ==
    Sound(g, With(P, v.a), E, n + 1) /\ Step(h, g, Parts(v))

\* The larger of two numbers (max_i).
LEMMA MaxNat ==
  ASSUME NEW a \in Nat, NEW b \in Nat
  PROVE  max_i(a, b) \in Nat /\ max_i(a, b) >= a /\ max_i(a, b) >= b
         /\ max_i(a, b) \in {a, b}
BY DEF max_i

\* take_matrix takes a vector as a column, with room for ldr items.
LEMMA TakeColumnSound ==
  ASSUME NEW h, NEW P, NEW E, NEW n \in Nat, NEW v, NEW d, NEW c \in Seq(Int),
         Ready(h, P, E, n, v, d), Running,
         h.err = none => Limited(max_i(d, Len(c)), 1, E),
         NEW g, g = TakeColumn(h, c, v)
  PROVE  /\ Took(h, g, P, E, n, v)
         /\ g.err = none => Holds(g, v, d, Len(c), 1) /\ IsColumn(g)
<1> USE DEF Ready, Took
<1> DEFINE l == max_i(d, Len(c))
           X == {v.m, v.n, v.ldr}
           h1 == [h EXCEPT ![v.ldr] = max_i(h[v.ldr], Len(c)), ![v.m] = Len(c),
                           ![v.n] = 1]
           h2 == alloc_F(h1, v.a, v.ldr)
           h3 == Shrink(h2, v.ldr, v.m)
           needs == [p \in {v.a} |-> h3[v.m]]
           h4 == Uses(h3, needs)
           data == [o \in 0..(h3[v.ldr] - 1) |->
                       IF o < Len(c) THEN c[o + 1] ELSE Unknown]
<1>1. g = [h4 EXCEPT !.column = TRUE, ![v.a] = data]
  BY DEF TakeColumn, FillColumn
<1>2. Len(c) \in Nat /\ l \in Nat /\ l >= Len(c) /\ d \in Nat
  BY LenProperties, MaxNat DEF Place
<1>3. /\ v.m \in Fields /\ v.n \in Fields /\ v.ldr \in Fields /\ v.a \in Fields
      /\ v.n # v.m /\ v.n # v.ldr
      /\ v.m \in Ints /\ v.ldr \in Ints
      /\ v.a \notin {"err", "live", "fail", "i", "column"}
      /\ {v.m, v.n, v.ldr} \cap {"err", "live", "fail", "i"} = {}
      /\ v.a \notin X /\ "column" \notin X
  BY DEF Place, Fields, Ints
<1>4. v.ldr = v.m => l = Len(c)
  BY <1>2 DEF Place, max_i
<1>5. DOMAIN h1 = Fields /\ Same(h, h1, X)
      /\ h1[v.m] = Len(c) /\ h1[v.n] = 1 /\ h1[v.ldr] = l
  <2>1. DOMAIN h = Fields
    BY DEF Sound
  <2> HIDE DEF l
  <2>2. h1 = [h EXCEPT ![v.ldr] = l, ![v.m] = Len(c), ![v.n] = 1]
    BY DEF l
  <2> QED
    BY <1>3, <1>4, <2>1, <2>2 DEF Same
<1> HIDE DEF h1, X
<1>6. Sound(h1, P, E, n) /\ Step(h, h1, X) /\ h1.live = h.live
  <2>1. Data(X)
    BY <1>3 DEF X, Data
  <2> QED
    BY <1>5, <2>1, SetSound
<1>7. Sound(h2, With(P, v.a), E, n + 1) /\ Got(h1, h2, v.a, l * 1)
  <2>1. h2 = alloc_T(h1, v.a, v.ldr, 1)
    BY DEF alloc_F
  <2>2. h1.err = none => Limited(h1[v.ldr], 1, E)
    BY <1>5, <1>6 DEF Step
  <2> HIDE DEF h2, l
  <2> QED
    BY <1>3, <1>5, <1>6, <2>1, <2>2, AllocTSound
<1> HIDE DEF h2
<1>8. h2.err = none => h2[v.ldr] = l /\ h2[v.m] = Len(c) /\ h2[v.n] = 1
  BY <1>3, <1>5, <1>7 DEF Got, Step, Same, Place
<1>9. Sound(h3, With(P, v.a), E, n + 1) /\ Step(h2, h3, {})
  <2>1. h2.err = none => h2[v.ldr] # 0 \/ h2[v.m] = 0
    BY <1>2, <1>8
  <2> HIDE DEF h3
  <2> QED
    BY <1>3, <1>7, <2>1, ShrinkSound DEF h3
<1> HIDE DEF h3, data, needs
<1> DEFINE Y == {"column", v.a}
<1>10. DOMAIN g = Fields /\ Same(h3, g, Y) /\ g.column = TRUE
  <2>1. DOMAIN h4 = Fields /\ Same(h3, h4, {})
    BY <1>9, UsesSame DEF Sound
  <2> HIDE DEF h4
  <2> QED
    BY <1>1, <1>3, <2>1 DEF Same, Fields
<1> HIDE DEF h4
<1>11. Sound(g, With(P, v.a), E, n + 1) /\ Step(h3, g, Y)
  <2>1. Data(Y)
    BY <1>3 DEF Data
  <2> HIDE DEF Y
  <2> QED
    BY <1>9, <1>10, <2>1, SetSound
<1>12. SUFFICES ASSUME g.err = none
                PROVE  /\ h.err = none /\ Same(h, g, Parts(v))
                       /\ Holds(g, v, d, Len(c), 1) /\ IsColumn(g)
  BY <1>11 DEF Step
<1>13. h3.err = none /\ h2.err = none /\ h1.err = none /\ h.err = none
  BY <1>6, <1>7, <1>9, <1>11, <1>12 DEF Step, Got
<1>14. Same(h, g, Parts(v))
  BY <1>5, <1>7, <1>9, <1>10, <1>13 DEF Same, Parts, X, Got, Step
<1>15. g[v.m] = Len(c) /\ g[v.n] = 1 /\ g[v.ldr] = l
  <2>1. "over" \notin {v.m, v.n, v.ldr}
    BY DEF Place
  <2> QED
    BY <1>3, <1>8, <1>9, <1>10, <1>13, <2>1 DEF Same, Step, X
<1> QED
  BY <1>10, <1>13, <1>14, <1>15 DEF Holds, IsColumn

\* A matrix has a row and a column, and rows of the same length.
LEMMA MatrixShape ==
  ASSUME NEW x, IsValue(x), MatrixError(x) = none
  PROVE  /\ convert_FF(x) # NULL
         /\ Height(x) \in Nat \ {0} /\ Width(x) \in Nat \ {0}
         /\ \A j \in 1..Height(x) : Len(Rows(x)[j].v) = Width(x)
<1>1. IsMatrix(x) /\ HasRows(x, Width(x))
  BY DEF MatrixError, none
<1>2. convert_FF(x) # NULL /\ Rows(x) # <<>> /\ Rows(x)[1].v # <<>>
  BY <1>1 DEF IsMatrix, Rows
<1>3. /\ Height(x) \in Nat \ {0} /\ DOMAIN Rows(x) = 1..Height(x)
      /\ Rows(x)[1].v \in Seq(Int)
  BY <1>2, RowsAreFloats
<1>4. Width(x) \in Nat \ {0}
  BY <1>2, <1>3, LenProperties, EmptySeq DEF Width
<1> QED
  BY <1>1, <1>2, <1>3, <1>4 DEF HasRows

\* The columns a matrix is given room for.
Room(x, column) ==
    IF column = "square" THEN max_i(Height(x), Width(x)) ELSE Width(x)

\* take_matrix takes a matrix into a buffer of ldr rows, with room for a square
\* one if it is to be one, or records what is wrong with it.
LEMMA TakeMatrixSound ==
  ASSUME NEW h, NEW P, NEW E, NEW n \in Nat, NEW v, NEW d, NEW x,
         NEW column, Ready(h, P, E, n, v, d), Running, IsValue(x),
         h.err = none /\ MatrixError(x) # none => MatrixError(x) \in E,
         h.err = none /\ MatrixError(x) = none =>
            Limited(Room(x, column), max_i(d, Height(x)), E),
         NEW g, g = TakeMatrix(h, convert_FF(x), v, column)
  PROVE  /\ Took(h, g, P, E, n, v)
         /\ g.err = none =>
              /\ MatrixError(x) = none /\ NoColumn(g)
              /\ Holds(g, v, d, Height(x), Width(x))
<1> USE DEF Ready, Took
<1> DEFINE k == convert_FF(x)
           ok == k # NULL /\ k.v # <<>> /\ Row(k, 0) # <<>>
           even == \A j \in DOMAIN k.v : Len(k.v[j].v) = Len(Row(k, 0))
           both == ok => even
           rows == IF ok /\ even THEN Len(k.v) ELSE 0
           cols == IF ok /\ even THEN Len(Row(k, 0)) ELSE 0
           nm == IF column = "square" THEN max_i(rows, cols) ELSE cols
           X == {v.m, v.n, v.ldr, "nm"}
           h1 == Require(h, ok, "type")
           h2 == Require(h1, both, "length")
           l == max_i(d, rows)
           h3 == MatrixRows(h, k, v, column)
           h4 == alloc_FF(h3, v.a, "nm", v.ldr)
           h5 == Shrink(h4, "nm", v.m)
           h6 == Shrink(h5, "nm", v.n)
           needs == [p \in {v.a} |-> h6[v.n] * h6[v.ldr]]
           h7 == Uses(h6, needs)
           data == [o \in 0..(h6.nm * h6[v.ldr] - 1) |->
                      IF o % h6[v.ldr] < h6[v.m] /\ o \div h6[v.ldr] < h6[v.n]
                      THEN Row(k, o % h6[v.ldr])[(o \div h6[v.ldr]) + 1]
                      ELSE Unknown]
<1>1. g = [h7 EXCEPT !.column = FALSE, ![v.a] = data]
  BY DEF TakeMatrix, FillMatrix
<1>2. h3 = [h2 EXCEPT ![v.m] = rows, ![v.n] = cols, ![v.ldr] = l, !.nm = nm]
  BY DEF MatrixRows
<1>3. /\ v.m \in Fields /\ v.n \in Fields /\ v.ldr \in Fields /\ v.a \in Fields
      /\ v.n # v.m /\ v.n # v.ldr /\ v.m # "nm" /\ v.n # "nm" /\ v.ldr # "nm"
      /\ v.m \in Ints /\ v.ldr \in Ints /\ v.n \in Ints
      /\ v.a \notin {"err", "live", "fail", "i", "column", "nm"}
      /\ {v.m, v.n, v.ldr} \cap {"err", "live", "fail", "i"} = {}
      /\ v.a \notin X /\ "column" \notin X
  BY DEF Place, Fields, Ints
<1>4. /\ ok <=> IsMatrix(x)
      /\ even <=> HasRows(x, Width(x))
  BY DEF IsMatrix, HasRows, Rows, Width, Row
<1>5. ok /\ even <=> MatrixError(x) = none
  BY <1>4 DEF MatrixError, none
<1>6. ~ok => MatrixError(x) = "type"
  BY <1>4 DEF MatrixError
<1>7. ok /\ ~even => MatrixError(x) = "length"
  BY <1>4 DEF MatrixError
<1>8. ok /\ even => /\ rows = Height(x) /\ cols = Width(x)
                    /\ nm = Room(x, column)
  BY DEF Height, Rows, Width, Row, Room
<1>9. /\ "type" # none /\ "length" # none
      /\ ok \in BOOLEAN /\ both \in BOOLEAN
  BY DEF none
<1> HIDE DEF ok, even, k
<1>10. /\ Sound(h1, P, E, n) /\ Step(h, h1, {})
       /\ h1.err = none => ok /\ h1 = h
  BY <1>6, <1>9, RequireSound
<1>11. /\ Sound(h2, P, E, n) /\ Step(h1, h2, {})
       /\ h2.err = none => (ok => even) /\ h2 = h1
  <2>1. h1.err = none /\ ~both => "length" \in E
    BY <1>7, <1>9, <1>10
  <2>2. "length" # none /\ both \in BOOLEAN
    BY <1>9
  <2> HIDE DEF h1, both
  <2>3. /\ Sound(h2, P, E, n) /\ Step(h1, h2, {})
        /\ h2.err = none => both /\ h2 = h1
    BY <1>10, <2>1, <2>2, RequireSound
  <2> QED
    BY <2>3 DEF both
<1>12. h2.err = none => /\ ok /\ even /\ h2 = h /\ h.err = none
                        /\ MatrixError(x) = none
                        /\ rows = Height(x) /\ cols = Width(x)
                        /\ nm = Room(x, column) /\ l = max_i(d, Height(x))
  BY <1>5, <1>8, <1>10, <1>11
<1>13. v.ldr = v.m => l = rows
  <2>1. rows \in Nat
    <3>1. CASE ok /\ even
      BY <1>5, <1>8, <3>1, MatrixShape
    <3> QED
      BY <3>1
  <2> QED
    BY <2>1 DEF Place, max_i
<1> HIDE DEF h1, h2, rows, cols, nm, l
<1>14. DOMAIN h3 = Fields /\ Same(h2, h3, X)
       /\ h3[v.m] = rows /\ h3[v.n] = cols /\ h3[v.ldr] = l /\ h3.nm = nm
  <2>1. DOMAIN h2 = Fields
    BY <1>11 DEF Sound
  <2> QED
    BY <1>2, <1>3, <1>13, <2>1 DEF Same, Fields
<1> HIDE DEF h3, X
<1>15. Sound(h3, P, E, n) /\ Step(h2, h3, X) /\ h3.live = h2.live
  <2>1. Data(X)
    BY <1>3 DEF X, Data
  <2> QED
    BY <1>11, <1>14, <2>1, SetSound
<1>16. Sound(h4, With(P, v.a), E, n + 1) /\ Got(h3, h4, v.a, nm * l)
  <2>1. h4 = alloc_T(h3, v.a, "nm", l) /\ h3["nm"] = nm
    BY <1>14 DEF alloc_FF
  <2>2. h3.err = none => Limited(nm, l, E)
    BY <1>12, <1>15 DEF Step
  <2>3. "nm" \in Ints
    BY DEF Ints
  <2> HIDE DEF h4
  <2> QED
    BY <1>15, <2>1, <2>2, <2>3, AllocTSound
<1> HIDE DEF h4
<1>17. h4.err = none => h4[v.m] = rows /\ h4[v.n] = cols /\ h4[v.ldr] = l
                        /\ h4.nm = nm /\ h3.err = none
  BY <1>3, <1>14, <1>16 DEF Got, Step, Same, Fields, Place
<1>18. h4.err = none => nm # 0
  <2>1. h4.err = none => h2.err = none
    BY <1>15, <1>17 DEF Step
  <2>2. MatrixError(x) = none => Room(x, column) # 0
    BY MatrixShape DEF Room, max_i
  <2> QED
    BY <1>12, <2>1, <2>2
<1>19. Sound(h5, With(P, v.a), E, n + 1) /\ Step(h4, h5, {})
  <2>1. h4.err = none => h4["nm"] # 0
    BY <1>17, <1>18
  <2>2. "nm" \in Ints
    BY DEF Ints
  <2> HIDE DEF h5
  <2> QED
    BY <1>3, <1>16, <2>1, <2>2, ShrinkSound, ZenonT(40) DEF h5
<1> HIDE DEF h5
<1>20. Sound(h6, With(P, v.a), E, n + 1) /\ Step(h5, h6, {})
  <2>1. h5.err = none => h5["nm"] # 0
    BY <1>17, <1>18, <1>19 DEF Step, Same, Fields
  <2>2. "nm" \in Ints
    BY DEF Ints
  <2> HIDE DEF h6
  <2> QED
    BY <1>3, <1>19, <2>1, <2>2, ShrinkSound, ZenonT(40) DEF h6
<1> HIDE DEF h6, data, needs
<1> DEFINE Y == {"column", v.a}
<1>21. DOMAIN g = Fields /\ Same(h6, g, Y) /\ g.column = FALSE
  <2>1. DOMAIN h7 = Fields /\ Same(h6, h7, {})
    BY <1>20, UsesSame DEF Sound
  <2> HIDE DEF h7
  <2> QED
    BY <1>1, <1>3, <2>1 DEF Same, Fields
<1> HIDE DEF h7
<1>22. Sound(g, With(P, v.a), E, n + 1) /\ Step(h6, g, Y)
  <2>1. Data(Y)
    BY <1>3 DEF Data
  <2> HIDE DEF Y
  <2> QED
    BY <1>20, <1>21, <2>1, SetSound
<1>23. SUFFICES ASSUME g.err = none
                PROVE  /\ h.err = none /\ Same(h, g, Parts(v))
                       /\ MatrixError(x) = none
                       /\ Holds(g, v, d, Height(x), Width(x)) /\ NoColumn(g)
  BY <1>22 DEF Step
<1>24. /\ h6.err = none /\ h5.err = none /\ h4.err = none /\ h3.err = none
       /\ h2.err = none
  BY <1>15, <1>16, <1>19, <1>20, <1>22, <1>23 DEF Step, Got
<1>25. /\ MatrixError(x) = none /\ h2 = h /\ h.err = none
       /\ rows = Height(x) /\ cols = Width(x) /\ nm = Room(x, column)
       /\ l = max_i(d, Height(x))
  BY <1>12, <1>24
<1>26. Same(h, g, Parts(v))
  BY <1>14, <1>16, <1>19, <1>20, <1>21, <1>24, <1>25
     DEF Same, Parts, X, Got, Step
<1>27. g[v.m] = rows /\ g[v.n] = cols /\ g[v.ldr] = l
  <2>1. "over" \notin {v.m, v.n, v.ldr}
    BY DEF Place
  <2> QED
    BY <1>3, <1>17, <1>19, <1>20, <1>21, <1>24, <2>1 DEF Same, Step, X
<1> QED
  BY <1>21, <1>25, <1>26, <1>27 DEF Holds, NoColumn

\* take_matrix for an argument that must be a matrix,
LEMMA TakePlain ==
  ASSUME NEW h, NEW P, NEW E, NEW n \in Nat, NEW v, NEW d, NEW x, NEW column,
         column # "ask",
         Place(v, d), Sound(h, P, E, n), n < alloc_max, v.a \notin P, Running,
         IsValue(x),
         h.err = none /\ MatrixError(x) # none => MatrixError(x) \in E,
         MatrixError(x) = none =>
            Limited(Room(x, column), max_i(d, Height(x)), E),
         NEW g, g = take_matrix(h, x, v, d, column)
  PROVE  /\ Took(h, g, P, E, n, v)
         /\ g.err = none =>
              /\ MatrixError(x) = none /\ NoColumn(g)
              /\ Holds(g, v, d, Height(x), Width(x))
<1> DEFINE f == [h EXCEPT ![v.ldr] = d]
           X == {v.ldr}
<1>1. g = TakeMatrix(f, convert_FF(x), v, column)
  BY DEF take_matrix
<1>2. DOMAIN f = Fields /\ Same(h, f, X) /\ f[v.ldr] = d /\ Data(X)
  <2>1. DOMAIN h = Fields
    BY DEF Sound
  <2> QED
    BY <2>1 DEF Place, Fields, Same, Data
<1> HIDE DEF f, X
<1>4. Sound(f, P, E, n) /\ Step(h, f, X) /\ f.live = h.live
  BY <1>2, SetSound
<1>5. f.err = h.err
  BY <1>2 DEF Same, Fields, X, Place
<1>6. /\ Took(f, g, P, E, n, v)
      /\ g.err = none =>
           /\ MatrixError(x) = none /\ NoColumn(g)
           /\ Holds(g, v, d, Height(x), Width(x))
  <2>1. f.err = none /\ MatrixError(x) # none => MatrixError(x) \in E
    BY <1>5
  <2>2. Ready(f, P, E, n, v, d)
    BY <1>2, <1>4 DEF Ready
  <2> QED
    BY <1>1, <2>1, <2>2, TakeMatrixSound
<1>7. Took(f, g, P, E, n, v) => Took(h, g, P, E, n, v)
  BY <1>2, <1>4 DEF Took, Step, Same, Parts, X
<1> QED
  BY <1>6, <1>7

\* A right side, of at least d rows, is small enough, or limit is in E.
SideLimited(y, d, E) ==
    IF convert_F(y) # NULL THEN Limited(max_i(d, SideLen(y)), 1, E)
    ELSE MatrixError(y) = none => Limited(Width(y), max_i(d, Height(y)), E)

\* and for a right side, which may be a vector.
LEMMA TakeSide ==
  ASSUME NEW h, NEW P, NEW E, NEW n \in Nat, NEW v, NEW d, NEW y,
         Place(v, d), Sound(h, P, E, n), n < alloc_max, v.a \notin P, Running,
         IsValue(y),
         h.err = none /\ SideError(y) # none => SideError(y) \in E,
         h.err = none => SideLimited(y, d, E),
         NEW g, g = take_matrix(h, y, v, d, "ask")
  PROVE  /\ Took(h, g, P, E, n, v)
         /\ g.err = none =>
              /\ SideError(y) = none
              /\ Holds(g, v, d, SideLen(y), SideWidth(y))
              /\ IF convert_F(y) # NULL THEN IsColumn(g) ELSE NoColumn(g)
<1> DEFINE f == [h EXCEPT ![v.ldr] = d]
           X == {v.ldr}
<1>2. DOMAIN f = Fields /\ Same(h, f, X) /\ f[v.ldr] = d /\ Data(X)
  <2>1. DOMAIN h = Fields
    BY DEF Sound
  <2> QED
    BY <2>1 DEF Place, Fields, Same, Data
<1>1. g = IF convert_F(y) # NULL THEN TakeColumn(f, convert_F(y).v, v)
          ELSE TakeMatrix(f, convert_FF(y), v, "ask")
  BY DEF take_matrix
<1> HIDE DEF f, X
<1>4. Sound(f, P, E, n) /\ Step(h, f, X) /\ f.live = h.live
  BY <1>2, SetSound
<1>5. f.err = h.err
  BY <1>2 DEF Same, Fields, X, Place
<1>6. SUFFICES /\ Took(f, g, P, E, n, v)
               /\ g.err = none =>
                   /\ SideError(y) = none
                   /\ Holds(g, v, d, SideLen(y), SideWidth(y))
                   /\ IF convert_F(y) # NULL THEN IsColumn(g) ELSE NoColumn(g)
  BY <1>2, <1>4 DEF Took, Step, Same, Parts, X
<1>9. Ready(f, P, E, n, v, d)
  BY <1>2, <1>4 DEF Ready
<1>7. CASE convert_F(y) # NULL
  <2> DEFINE c == convert_F(y).v
  <2>1. c \in Seq(Int)
    BY <1>7 DEF IsValue
  <2>2. SideLen(y) = Len(c) /\ SideWidth(y) = 1 /\ SideError(y) = none
    BY <1>7 DEF SideLen, SideWidth, SideError
  <2>3. f.err = none => Limited(max_i(d, Len(c)), 1, E)
    BY <1>5, <1>7, <2>2 DEF SideLimited
  <2>4. g = TakeColumn(f, c, v)
    BY <1>1, <1>7
  <2> HIDE DEF c
  <2>5. /\ Took(f, g, P, E, n, v)
        /\ g.err = none => Holds(g, v, d, Len(c), 1) /\ IsColumn(g)
    BY <1>9, <2>1, <2>3, <2>4, TakeColumnSound
  <2> QED
    BY <1>7, <2>2, <2>5
<1>8. CASE convert_F(y) = NULL
  <2>1. /\ SideLen(y) = Height(y) /\ SideWidth(y) = Width(y)
        /\ SideError(y) = MatrixError(y)
    BY <1>8 DEF SideLen, SideWidth, SideError
  <2>2. f.err = none /\ MatrixError(y) # none => MatrixError(y) \in E
    BY <1>5, <2>1
  <2>3. Room(y, "ask") = Width(y)
    BY DEF Room
  <2>4. f.err = none /\ MatrixError(y) = none =>
           Limited(Room(y, "ask"), max_i(d, Height(y)), E)
    BY <1>5, <1>8, <2>3 DEF SideLimited
  <2>5. g = TakeMatrix(f, convert_FF(y), v, "ask")
    BY <1>1, <1>8
  <2>6. /\ Took(f, g, P, E, n, v)
        /\ g.err = none =>
             /\ MatrixError(y) = none /\ NoColumn(g)
             /\ Holds(g, v, d, Height(y), Width(y))
    BY <1>9, <2>2, <2>4, <2>5, TakeMatrixSound
  <2> QED
    BY <1>8, <2>1, <2>3, <2>6
<1> QED
  BY <1>7, <1>8

\* The buffer w is the workspace that a query has asked for.
Works(h, g) ==
    g.err = none =>
       /\ h.err = none /\ Same(h, g, {"live", "i", "lwork", "info"})
       /\ g.lwork \in Nat \ {0}

\* A workspace is as large as LAPACK asks for, or an error is recorded.
LEMMA WorkSound ==
  ASSUME NEW h, NEW P, NEW E, NEW n \in Nat, NEW valid,
         NEW work, work \in Nat \ {0}, valid \in BOOLEAN,
         Sound(h, P, E, n), n < alloc_max, "w" \notin P, Running,
         h.err = none => valid, work >= wi => "limit" \in E,
         NEW g, g = alloc_W(Query(h, valid), work)
  PROVE  Sound(g, With(P, "w"), E, n + 1) /\ Works(h, g)
<1> DEFINE q == Query(h, valid)
           l == take_maxwork(q.info, work)
           f == [q EXCEPT !.lwork = l]
<1>1. /\ Sound(q, P, E, n) /\ Step(h, q, {"info"})
      /\ q.err = none => q.info = 0
  <2> DEFINE needs == <<>>
  <2>1. q = Lapack(h, valid, needs, 0) /\ 0 \in Nat
    BY DEF Query
  <2> HIDE DEF q, needs
  <2> QED
    BY <2>1, LapackSound
<1>2. g = alloc_T(f, "w", "lwork", 1)
  BY DEF alloc_W, alloc_F
<1> HIDE DEF q
<1>3. DOMAIN f = Fields /\ Same(q, f, {"lwork"}) /\ f.lwork = l
  <2>1. DOMAIN q = Fields
    BY <1>1 DEF Sound
  <2> QED
    BY <2>1 DEF Same, Fields
<1>4. q.err = none => /\ l \in Nat \ {0}
                      /\ l >= wi => "limit" \in E
  BY <1>1 DEF take_maxwork, wi
<1> HIDE DEF f, l
<1>5. Sound(f, P, E, n) /\ Step(q, f, {"lwork"}) /\ f.live = q.live
  <2>1. Data({"lwork"})
    BY DEF Data
  <2> QED
    BY <1>1, <1>3, <2>1, SetSound
<1>6. Sound(g, With(P, "w"), E, n + 1) /\ Got(f, g, "w", f["lwork"] * 1)
  <2>1. f.err = none => Limited(f["lwork"], 1, E)
    <3>1. f.err = none => q.err = none
      BY <1>5 DEF Step
    <3> QED
      BY <1>3, <1>4, <3>1, CallsAssumption DEF Limited, wi
  <2>2. "lwork" \in Ints
    BY DEF Ints
  <2> QED
    BY <1>2, <1>5, <2>1, <2>2, AllocTSound
<1>7. SUFFICES ASSUME g.err = none
               PROVE  /\ h.err = none
                      /\ Same(h, g, {"live", "i", "lwork", "info"})
                      /\ g.lwork \in Nat \ {0}
  BY <1>6 DEF Works
<1>8. f.err = none /\ q.err = none /\ h.err = none
  BY <1>1, <1>5, <1>6, <1>7 DEF Step, Got
<1>9. Same(h, g, {"live", "i", "lwork", "info"})
  BY <1>1, <1>3, <1>6, <1>7, <1>8 DEF Step, Got, Same
<1>10. g.lwork = l
  <2>1. Same(f, g, {"live", "i"})
    BY <1>6, <1>7 DEF Step, Got
  <2>2. g.lwork = f.lwork
    BY <2>1 DEF Same, Fields
  <2> QED
    BY <1>3, <2>2
<1> QED
  BY <1>4, <1>8, <1>9, <1>10

\* A vector of fewer than wi items is small enough.
LEMMA LimitedVector ==
  ASSUME NEW n \in Nat, NEW E, n >= wi => "limit" \in E
  PROVE  Limited(n, 1, E)
BY CallsAssumption DEF Limited, wi

\* A dimension of a buffer that is small enough is small enough itself.
LEMMA LimitedSquare ==
  ASSUME NEW n, NEW m, NEW E, Limited(n, m, E)
  PROVE  Limited(n, 1, E)
BY CallsAssumption DEF Limited, wi

\* The heap a call starts with.
LEMMA StartSound ==
  ASSUME Running, NEW E
  PROVE  Sound(Heap0, {}, E, 1) /\ Heap0.err = none
<1>1. DOMAIN Heap0 = Fields
  BY DEF Heap0, Fields
<1>2. /\ Heap0.i = 1 /\ Heap0.err = none /\ Heap0.fail = alloc_fail
      /\ Heap0.live = <<>>
  BY DEF Heap0, Running
<1> QED
  BY <1>1, <1>2 DEF Sound, Failed

-----------------------------------------------------------------------------
(* The functions of one square matrix *)

\* The argument x of a function of a square matrix, what LAPACK does, and the
\* errors that may be reported.
SquareCall(x, o, E) ==
    /\ Running /\ IsValue(x) /\ IsOutcome(o)
    /\ SquareError(x) # none => SquareError(x) \in E
    /\ Listed(x) => Limited(Height(x), Height(x), E)
    /\ o.work >= wi => "limit" \in E

\* The square matrix is in a, unless an error is to be reported.
HasSquare(h, x, E) ==
    h.err = none =>
       /\ SquareError(x) = none /\ h.n = Height(x) /\ h.n \in Nat \ {0}
       /\ Limited(h.n, h.n, E) /\ Limited(h.n, 1, E)

\* After take_square_matrix a function has its matrix, or an error.
LEMMA SquareTaken ==
  ASSUME NEW x, NEW o, NEW E, SquareCall(x, o, E),
         NEW h, h = take_square_matrix(Heap0, x)
  PROVE  Sound(h, With({}, "a"), E, 2) /\ HasSquare(h, x, E)
<1>1. Sound(Heap0, {}, E, 1)
  BY StartSound DEF SquareCall
<1>2. /\ Sound(h, With({}, "a"), E, 2)
      /\ h.err = none => /\ SquareError(x) = none
                         /\ h.n = Height(x) /\ h.n \in Nat \ {0}
  BY <1>1, TakeSquare DEF SquareCall
<1>3. SquareError(x) = none => Listed(x)
  BY DEF SquareError, Listed, none
<1>4. h.err = none => Limited(h.n, h.n, E)
  BY <1>2, <1>3 DEF SquareCall
<1> QED
  BY <1>2, <1>4, LimitedSquare DEF HasSquare

\* An allocation of n items leaves the matrix as it is.
LEMMA SquareAlloc ==
  ASSUME NEW x, NEW E, NEW h, NEW P, NEW n \in Nat, NEW p, Running,
         Sound(h, P, E, n), HasSquare(h, x, E), n < alloc_max, p \notin P,
         NEW g, g = alloc_F(h, p, "n")
  PROVE  /\ Sound(g, With(P, p), E, n + 1) /\ HasSquare(g, x, E)
         /\ Step(h, g, {"live", "i"})
<1>1. Sound(g, With(P, p), E, n + 1) /\ Got(h, g, p, h["n"] * 1)
  <2>1. h.err = none => Limited(h["n"], 1, E)
    BY DEF HasSquare
  <2>2. "n" \in Ints /\ g = alloc_T(h, p, "n", 1)
    BY DEF Ints, alloc_F
  <2> QED
    BY <2>1, <2>2, AllocTSound
<1>2. g.err = none => g.n = h.n /\ h.err = none
  BY <1>1 DEF Got, Step, Same, Fields
<1> QED
  BY <1>1, <1>2 DEF HasSquare, Got

\* A routine of LAPACK leaves the dimensions as they are.
LEMMA SquareLapack ==
  ASSUME NEW x, NEW E, NEW h, NEW P, NEW n, NEW valid, NEW needs,
         NEW info, info \in Nat, valid \in BOOLEAN,
         Sound(h, P, E, n), HasSquare(h, x, E),
         h.err = none => valid,
         NEW g, g = Lapack(h, valid, needs, info)
  PROVE  Sound(g, P, E, n) /\ HasSquare(g, x, E) /\ Step(h, g, {"info"})
<1>1. Sound(g, P, E, n) /\ Step(h, g, {"info"})
  BY LapackSound
<1>2. g.err = none => g.n = h.n /\ h.err = none
  BY <1>1 DEF Step, Same, Fields
<1> QED
  BY <1>1, <1>2 DEF HasSquare

\* The pivots are allocated and getrf runs on a and ipiv.
LEMMA LuSound ==
  ASSUME NEW x, NEW o, NEW E, SquareCall(x, o, E), NEW h,
         Sound(h, With({}, "a"), E, 2), HasSquare(h, x, E),
         NEW g, g = getrf(alloc_F(h, "ipiv", "n"), o.info)
  PROVE  /\ Sound(g, With(With({}, "a"), "ipiv"), E, 3) /\ HasSquare(g, x, E)
         /\ g.err = none => h.err = none
<1> DEFINE f == alloc_F(h, "ipiv", "n")
           needs == [a |-> f.n * f.n, ipiv |-> f.n]
           valid == f.n >= 1
<1>1. g = Lapack(f, valid, needs, o.info)
  BY DEF getrf
<1>2. /\ Sound(f, With(With({}, "a"), "ipiv"), E, 3) /\ HasSquare(f, x, E)
      /\ Step(h, f, {"live", "i"})
  <2>1. "ipiv" \notin With({}, "a") /\ 2 < alloc_max
    BY CallsAssumption DEF With
  <2> QED
    BY <2>1, SquareAlloc DEF SquareCall
<1> HIDE DEF f
<1>3. f.err = none => valid
  BY <1>2 DEF HasSquare
<1>4. valid \in BOOLEAN /\ o.info \in Nat
  BY DEF SquareCall, IsOutcome
<1> HIDE DEF needs, valid
<1>5. /\ Sound(g, With(With({}, "a"), "ipiv"), E, 3) /\ HasSquare(g, x, E)
      /\ Step(f, g, {"info"})
  <2> DEFINE P == With(With({}, "a"), "ipiv")
  <2>1. Sound(f, P, E, 3) /\ HasSquare(f, x, E)
    BY <1>2
  <2> HIDE DEF P
  <2>2. Sound(g, P, E, 3) /\ HasSquare(g, x, E) /\ Step(f, g, {"info"})
    BY <1>1, <1>3, <1>4, <2>1, SquareLapack
  <2> QED
    BY <2>2 DEF P
<1> QED
  BY <1>2, <1>5 DEF Step

\* qml_mdet frees what it allocated and reports what is wrong, as do the
\* functions below.
LEMMA MdetEnds ==
  ASSUME NEW x, NEW o, NEW E, SquareCall(x, o, E)
  PROVE  Ends(qml_mdet(x, o), E, SquareError(x))
<1> DEFINE h == take_square_matrix(Heap0, x)
           g == mdet_lu(h, o)
           sign == IF g.triangular # 0 THEN g ELSE Uses(g, [ipiv |-> g.n])
           read == Uses(sign, [a |-> g.n * g.n])
           k == Atom(KF, Unknown)
<1>1. Sound(h, With({}, "a"), E, 2) /\ HasSquare(h, x, E)
  BY SquareTaken
<1>2. qml_mdet(x, o) = Done(Free(read, {"ipiv", "a"}), k)
  BY DEF qml_mdet, mdet_end
<1> HIDE DEF h
<1>3. Sound(g, With(With({}, "a"), "ipiv"), E, 3) /\ HasSquare(g, x, E)
  <2>1. CASE h.triangular # 0
    <3>1. g = h
      BY <2>1 DEF mdet_lu
    <3> QED
      BY <1>1, <3>1, SoundMore
  <2>2. CASE h.triangular = 0
    <3>1. g = getrf(alloc_F(h, "ipiv", "n"), o.info)
      BY <2>2 DEF mdet_lu
    <3> HIDE DEF g
    <3> QED
      BY <1>1, <3>1, LuSound
  <2> QED
    BY <2>1, <2>2
<1> HIDE DEF g, k
<1>4. k.t \in {-KF, 0, KF}
  BY DEF k, Atom
<1>5. With(With({}, "a"), "ipiv") \subseteq {"ipiv", "a"} /\ 3 < alloc_max
  BY CallsAssumption DEF With
<1>6. g.err = none => SquareError(x) = none
  BY <1>3 DEF HasSquare
<1>7. DOMAIN read = Fields /\ Same(g, read, {})
  <2>1. DOMAIN sign = Fields /\ Same(g, sign, {})
    BY <1>3, UsesSame DEF Sound, Same
  <2> HIDE DEF sign
  <2>2. DOMAIN read = Fields /\ Same(sign, read, {})
    BY <2>1, UsesSame
  <2> QED
    BY <2>1, <2>2 DEF Same
<1> HIDE DEF read
<1> QED
  BY <1>2, <1>3, <1>4, <1>5, <1>6, <1>7, DoneEnds

\* The results of make_matrix are lists of vectors, or vectors.
LEMMA MakeMatrixType ==
  ASSUME NEW a, NEW ldr, NEW m, NEW n, NEW form
  PROVE  make_matrix(a, ldr, m, n, form).t \in {-KF, 0, KF}
<1>1. ASSUME NEW s PROVE Vec(KF, s).t = KF /\ Vec(0, s).t = 0
  BY DEF Vec
<1>2. CASE form = "column"
  <2>1. \E s : make_matrix(a, ldr, m, n, form) = Vec(KF, s)
    BY <1>2 DEF make_matrix
  <2> QED
    BY <1>1, <2>1
<1>3. CASE form # "column"
  <2>1. \E s : make_matrix(a, ldr, m, n, form) = Vec(0, s)
    BY <1>3 DEF make_matrix
  <2> QED
    BY <1>1, <2>1
<1> QED
  BY <1>2, <1>3

\* A workspace leaves the matrix as it is.
LEMMA SquareWork ==
  ASSUME NEW x, NEW E, NEW h, NEW P, NEW n \in Nat, NEW o, SquareCall(x, o, E),
         Sound(h, P, E, n), HasSquare(h, x, E), n < alloc_max, "w" \notin P,
         NEW g, g = alloc_W(Query(h, h.n >= 1), o.work)
  PROVE  /\ Sound(g, With(P, "w"), E, n + 1) /\ HasSquare(g, x, E)
         /\ g.err = none => h.err = none /\ g.lwork \in Nat \ {0}
<1> DEFINE valid == h.n >= 1
<1>1. Sound(g, With(P, "w"), E, n + 1) /\ Works(h, g)
  <2>1. g = alloc_W(Query(h, valid), o.work)
    OBVIOUS
  <2>2. valid \in BOOLEAN /\ (h.err = none => valid)
    BY DEF HasSquare
  <2>3. /\ o.work \in Nat \ {0} /\ (o.work >= wi => "limit" \in E)
        /\ Running
    BY DEF SquareCall, IsOutcome
  <2> HIDE DEF valid
  <2> QED
    BY <2>1, <2>2, <2>3, WorkSound
<1>2. g.err = none => g.n = h.n /\ h.err = none
  BY <1>1 DEF Works, Same, Fields
<1> QED
  BY <1>1, <1>2 DEF Works, HasSquare

\* qml_minv, which asks for a workspace if there is an inverse.
LEMMA MinvEnds ==
  ASSUME NEW x, NEW o, NEW E, SquareCall(x, o, E)
  PROVE  Ends(qml_minv(x, o), E, SquareError(x))
<1> DEFINE h == take_square_matrix(Heap0, x)
           f == minv_lu(h, o)
           g == minv_work(f, o)
           read == Reads(g, [a |-> g.n * g.n])
           k == make_matrix(Null(g.info, Buf(g, "a")), g.n, g.n, g.n, "matrix")
           P == With(With({}, "a"), "ipiv")
<1>1. Sound(h, With({}, "a"), E, 2) /\ HasSquare(h, x, E)
  BY SquareTaken
<1>2. qml_minv(x, o) = Done(Free(read, {"w", "ipiv", "a"}), k)
  BY DEF qml_minv, minv_end
<1> HIDE DEF h
<1>3. Sound(f, P, E, 3) /\ HasSquare(f, x, E)
  BY <1>1, LuSound DEF minv_lu
<1> HIDE DEF f
<1>4. Sound(g, With(P, "w"), E, 4) /\ HasSquare(g, x, E)
  <2>1. CASE f.info # 0
    <3>1. g = f
      BY <2>1 DEF minv_work
    <3> HIDE DEF P, g
    <3> QED
      BY <1>3, <3>1, SoundMore
  <2>2. CASE f.info = 0
    <3> DEFINE w == alloc_W(Query(f, f.n >= 1), o.work)
               needs == [a |-> w.n * w.n, ipiv |-> w.n, w |-> w.lwork]
               valid == w.n >= 1 /\ w.lwork >= 1
    <3>1. g = Lapack(w, valid, needs, 0)
      BY <2>2 DEF minv_work, getri
    <3>2. /\ Sound(w, With(P, "w"), E, 4) /\ HasSquare(w, x, E)
          /\ w.err = none => w.lwork \in Nat \ {0}
      <4>1. "w" \notin P /\ 3 < alloc_max
        BY CallsAssumption DEF With
      <4> HIDE DEF P
      <4> QED
        BY <1>3, <4>1, SquareWork
    <3> HIDE DEF w
    <3>3. w.err = none => valid
      BY <3>2 DEF HasSquare
    <3>4. valid \in BOOLEAN /\ 0 \in Nat
      OBVIOUS
    <3> HIDE DEF needs, valid, P, g
    <3> QED
      BY <3>1, <3>2, <3>3, <3>4, SquareLapack
  <2> QED
    BY <2>1, <2>2
<1> HIDE DEF g
<1>5. k.t \in {-KF, 0, KF}
  BY MakeMatrixType
<1>6. With(P, "w") \subseteq {"w", "ipiv", "a"} /\ 4 < alloc_max
  BY CallsAssumption DEF With
<1>7. g.err = none => SquareError(x) = none
  BY <1>4 DEF HasSquare
<1>8. DOMAIN read = Fields /\ Same(g, read, {})
  BY <1>4, ReadsSame DEF Sound
<1> HIDE DEF k, P, read
<1> QED
  BY <1>2, <1>4, <1>5, <1>6, <1>7, <1>8, DoneEnds

\* A second matrix of the size of the first is allocated next to it.
LEMMA MatrixAlloc ==
  ASSUME NEW x, NEW E, NEW h, NEW P, NEW n \in Nat, NEW p, Running,
         Sound(h, P, E, n), HasSquare(h, x, E), n < alloc_max,
         p \notin P,
         NEW g, g = alloc_FF(h, p, "n", "n")
  PROVE  /\ Sound(g, With(P, p), E, n + 1) /\ HasSquare(g, x, E)
         /\ Step(h, g, {"live", "i"})
<1> DEFINE m == h.n
<1>1. Sound(g, With(P, p), E, n + 1) /\ Got(h, g, p, h["n"] * m)
  <2>1. h.err = none => Limited(h["n"], m, E)
    BY DEF HasSquare
  <2>2. "n" \in Ints /\ g = alloc_T(h, p, "n", m)
    BY DEF Ints, alloc_FF
  <2> HIDE DEF m
  <2> QED
    BY <2>1, <2>2, AllocTSound
<1>2. g.err = none => g.n = h.n /\ h.err = none
  BY <1>1 DEF Got, Step, Same, Fields
<1> QED
  BY <1>1, <1>2 DEF HasSquare, Got

\* qml_mevu, with one buffer for each part of eigenvalues and vectors.
LEMMA MevuEnds ==
  ASSUME NEW x, NEW o, NEW E, SquareCall(x, o, E)
  PROVE  Ends(qml_mevu(x, o), E, SquareError(x))
<1> DEFINE h == take_square_matrix(Heap0, x)
           f0 == mevu_work(h, o)
           f1 == alloc_F(f0, "lr", "n")
           f2 == alloc_F(f1, "li", "n")
           f3 == mevu_parts(f0)
           needs == [a |-> f3.n * f3.n, lr |-> f3.n, li |-> f3.n,
                     ev |-> f3.n * f3.n, w |-> f3.lwork]
           valid == f3.n >= 1 /\ f3.lwork >= 1
           g == mevu_geev(f3, o)
           read == Reads(g, [lr |-> g.n, li |-> g.n, ev |-> g.n * g.n])
           ev == eigenvalues(g, o)
           vectors == IF ev.t = 0 THEN Eigenvectors(g.n, o.li)
                      ELSE make_matrix(Null(g.info, Buf(g, "ev")), g.n, g.n,
                                       g.n, "transposed")
           k == Vec(0, <<ev, vectors>>)
           P == With(With({}, "a"), "w")
           Q == With(P, "lr")
           R == With(Q, "li")
           S == With(R, "ev")
<1>0. /\ 2 < alloc_max /\ 3 < alloc_max /\ 4 < alloc_max /\ 5 < alloc_max
      /\ 6 < alloc_max
      /\ "w" \notin With({}, "a") /\ "lr" \notin P /\ "li" \notin Q /\ "ev" \notin R
      /\ S \subseteq {"w", "a", "ev", "li", "lr"}
  BY CallsAssumption DEF With
<1>1. Sound(h, With({}, "a"), E, 2) /\ HasSquare(h, x, E)
  BY SquareTaken
<1>2. qml_mevu(x, o) = Done(Free(read, {"w", "a", "ev", "li", "lr"}), k)
  BY DEF qml_mevu, mevu_result, mevu_end
<1> HIDE DEF h
<1>3. Running /\ o.info \in Nat
  BY DEF SquareCall, IsOutcome
<1>4. /\ Sound(f0, P, E, 3) /\ HasSquare(f0, x, E)
      /\ f0.err = none => f0.lwork \in Nat \ {0}
  BY <1>0, <1>1, SquareWork DEF mevu_work
<1>5. f3 = alloc_FF(f2, "ev", "n", "n") /\ g = Lapack(f3, valid, needs, o.info)
  BY DEF mevu_parts, mevu_geev
<1> HIDE DEF f0, P, Q, R, S, g, f3
<1>6. /\ Sound(f1, Q, E, 4) /\ HasSquare(f1, x, E)
      /\ Step(f0, f1, {"live", "i"})
  BY <1>0, <1>3, <1>4, SquareAlloc DEF Q
<1> HIDE DEF f1
<1>7. /\ Sound(f2, R, E, 5) /\ HasSquare(f2, x, E)
      /\ Step(f1, f2, {"live", "i"})
  BY <1>0, <1>3, <1>6, SquareAlloc DEF R
<1> HIDE DEF f2
<1>8. /\ Sound(f3, S, E, 6) /\ HasSquare(f3, x, E)
      /\ Step(f2, f3, {"live", "i"})
  BY <1>0, <1>3, <1>5, <1>7, MatrixAlloc DEF S
<1>9. f3.err = none => valid
  <2>1. SUFFICES ASSUME f3.err = none PROVE valid
    OBVIOUS
  <2>2. f2.err = none /\ f1.err = none /\ f0.err = none
    BY <1>6, <1>7, <1>8, <2>1 DEF Step
  <2>3. f3.lwork = f2.lwork /\ f2.lwork = f1.lwork /\ f1.lwork = f0.lwork
    BY <1>6, <1>7, <1>8, <2>1, <2>2 DEF Step, Same, Fields
  <2> QED
    BY <1>4, <1>8, <2>1, <2>2, <2>3 DEF HasSquare
<1>10. valid \in BOOLEAN
  OBVIOUS
<1> HIDE DEF needs, valid
<1>11. Sound(g, S, E, 6) /\ HasSquare(g, x, E)
  BY <1>3, <1>5, <1>8, <1>9, <1>10, SquareLapack
<1>12. k.t \in {-KF, 0, KF}
  BY DEF Vec
<1>13. g.err = none => SquareError(x) = none
  BY <1>11 DEF HasSquare
<1>14. DOMAIN read = Fields /\ Same(g, read, {})
  BY <1>11, ReadsSame DEF Sound
<1> HIDE DEF k, read
<1> QED
  BY <1>0, <1>2, <1>11, <1>12, <1>13, <1>14, DoneEnds

\* qml_mchol, which works on the matrix itself.
LEMMA McholEnds ==
  ASSUME NEW x, NEW o, NEW E, SquareCall(x, o, E)
  PROVE  Ends(qml_mchol(x, o), E, SquareError(x))
<1> DEFINE h == take_square_matrix(Heap0, x)
           needs == [a |-> h.n * h.n]
           valid == h.n >= 1
           g == potrf(h, o)
           read == Reads(g, [a |-> g.n * g.n])
           k == make_matrix(Null(g.info, Buf(g, "a")), g.n, g.n, g.n, "upper")
           P == With({}, "a")
<1>1. Sound(h, P, E, 2) /\ HasSquare(h, x, E)
  BY SquareTaken
<1>2. /\ qml_mchol(x, o) = Done(Free(read, {"a"}), k)
      /\ g = Lapack(h, valid, needs, o.info)
  BY DEF qml_mchol, mchol_end, potrf
<1> HIDE DEF h, g
<1>3. /\ valid \in BOOLEAN /\ o.info \in Nat
      /\ h.err = none => valid
  BY <1>1 DEF SquareCall, IsOutcome, HasSquare
<1>4. P \subseteq {"a"} /\ 2 < alloc_max
  BY CallsAssumption DEF With
<1> HIDE DEF needs, valid, P
<1>5. Sound(g, P, E, 2) /\ HasSquare(g, x, E)
  BY <1>1, <1>2, <1>3, SquareLapack
<1>6. k.t \in {-KF, 0, KF}
  BY MakeMatrixType
<1>7. g.err = none => SquareError(x) = none
  BY <1>5 DEF HasSquare
<1>8. DOMAIN read = Fields /\ Same(g, read, {})
  BY <1>5, ReadsSame DEF Sound
<1> HIDE DEF k, read
<1> QED
  BY <1>2, <1>4, <1>5, <1>6, <1>7, <1>8, DoneEnds

-----------------------------------------------------------------------------
(* A square matrix and a right side *)

\* A right side has a column, and as many items as it is long.
LEMMA SideShape ==
  ASSUME NEW y, IsValue(y), SideError(y) = none
  PROVE  /\ SideLen(y) \in Nat /\ SideWidth(y) \in Nat \ {0}
         /\ max_i(0, SideLen(y)) = SideLen(y)
<1>1. CASE convert_F(y) # NULL
  <2> DEFINE c == convert_F(y).v
  <2>1. c \in Seq(Int) /\ SideLen(y) = Len(c) /\ SideWidth(y) = 1
    BY <1>1 DEF IsValue, SideLen, SideWidth
  <2> HIDE DEF c
  <2>2. Len(c) \in Nat
    BY <2>1, LenProperties
  <2> QED
    BY <2>1, <2>2 DEF max_i
<1>2. CASE convert_F(y) = NULL
  <2>1. MatrixError(y) = none /\ SideLen(y) = Height(y) /\ SideWidth(y) = Width(y)
    BY <1>2 DEF SideError, SideLen, SideWidth
  <2> QED
    BY <2>1, MatrixShape DEF max_i
<1> QED
  BY <1>1, <1>2

\* The right side y is in b, unless an error is to be reported.
HasSide(h, y) ==
    h.err = none =>
       /\ SideError(y) = none /\ h.b_m = SideLen(y) /\ h.b_n = SideWidth(y)
       /\ h.b_m \in Nat /\ h.b_n \in Nat \ {0}

\* take_matrix of a right side leaves the square matrix as it was.
LEMMA SideTaken ==
  ASSUME NEW y, NEW h, NEW P, NEW E, NEW n \in Nat, Running, IsValue(y),
         Sound(h, P, E, n), n < alloc_max, "b" \notin P,
         h.err = none /\ SideError(y) # none => SideError(y) \in E,
         SideLimited(y, 0, E),
         NEW g, g = take_matrix(h, y, B, 0, "ask")
  PROVE  /\ Sound(g, With(P, "b"), E, n + 1) /\ HasSide(g, y)
         /\ g.err = none => /\ h.err = none /\ g.m = h.m /\ g.n = h.n
                            /\ g.triangular = h.triangular
<1>1. /\ B.m = "b_m" /\ B.n = "b_n" /\ B.ldr = "b_m" /\ B.a = "b"
  BY DEF B
<1>2. Place(B, 0) /\ B.a \notin P
  BY <1>1 DEF Place
<1> DEFINE v == B
<1> HIDE DEF v
<1>3. /\ Took(h, g, P, E, n, v)
      /\ g.err = none =>
           /\ SideError(y) = none
           /\ Holds(g, v, 0, SideLen(y), SideWidth(y))
  <2>1. Place(v, 0) /\ v.a \notin P /\ g = take_matrix(h, y, v, 0, "ask")
    BY <1>2 DEF v
  <2> QED
    BY <2>1, TakeSide
<1>4. Sound(g, With(P, "b"), E, n + 1) /\ Step(h, g, Parts(B))
  BY <1>1, <1>3 DEF Took, v
<1>5. g.err = none => /\ h.err = none /\ g.m = h.m /\ g.n = h.n
                      /\ g.triangular = h.triangular
  BY <1>1, <1>4 DEF Step, Same, Fields, Parts
<1>6. ASSUME g.err = none
      PROVE  /\ SideError(y) = none
             /\ g.b_m = SideLen(y) /\ g.b_n = SideWidth(y)
             /\ g.b_m \in Nat /\ g.b_n \in Nat \ {0}
  <2>1. SideError(y) = none /\ g.b_m = SideLen(y) /\ g.b_n = SideWidth(y)
    BY <1>1, <1>3, <1>6 DEF Holds, v
  <2> QED
    BY <2>1, SideShape
<1> QED
  BY <1>4, <1>5, <1>6 DEF HasSide

\* take_square_matrix and the definition of Triangular agree.
LEMMA TriangularMeans ==
  ASSUME NEW x, IsValue(x), SquareError(x) = none
  PROVE  triangular(convert_FF(x), Height(x)) # 0 <=> Triangular(x)
<1> DEFINE n == Height(x)
           k == convert_FF(x)
           up == \A j, i \in 1..n : i < j => At(x, j, i) = 0
           low == \A j, i \in 1..n : i > j => At(x, j, i) = 0
           up0 == \A j, i \in 0..(n - 1) : i < j => Row(k, j)[i + 1] = 0
           low0 == \A j, i \in 0..(n - 1) : i > j => Row(k, j)[i + 1] = 0
<1>1. n \in Nat
  BY RowsAreFloats DEF SquareError, none
<1>2. \A j, i : Row(k, j)[i + 1] = At(x, j + 1, i + 1)
  BY DEF Row, At, Rows
<1>3. /\ \A j \in 0..(n - 1) : j + 1 \in 1..n
      /\ \A j \in 1..n : j - 1 \in 0..(n - 1) /\ (j - 1) + 1 = j
  BY <1>1
<1> HIDE DEF n, k
<1>4. up0 <=> up
  <2>1. ASSUME up0, NEW j \in 1..n, NEW i \in 1..n, i < j
        PROVE  At(x, j, i) = 0
    <3>1. Row(k, j - 1)[(i - 1) + 1] = 0
      <4>1. i - 1 < j - 1
        BY <1>1, <2>1
      <4> QED
        BY <1>3, <2>1, <4>1
    <3> QED
      BY <1>2, <1>3, <3>1
  <2>2. ASSUME up, NEW j \in 0..(n - 1), NEW i \in 0..(n - 1), i < j
        PROVE  Row(k, j)[i + 1] = 0
    <3>1. i + 1 < j + 1
      BY <1>1, <2>2
    <3>2. At(x, j + 1, i + 1) = 0
      BY <1>3, <2>2, <3>1
    <3> QED
      BY <1>2, <3>2
  <2> QED
    BY <2>1, <2>2
<1>5. low0 <=> low
  <2>1. ASSUME low0, NEW j \in 1..n, NEW i \in 1..n, i > j
        PROVE  At(x, j, i) = 0
    <3>1. Row(k, j - 1)[(i - 1) + 1] = 0
      <4>1. i - 1 > j - 1
        BY <1>1, <2>1
      <4> QED
        BY <1>3, <2>1, <4>1
    <3> QED
      BY <1>2, <1>3, <3>1
  <2>2. ASSUME low, NEW j \in 0..(n - 1), NEW i \in 0..(n - 1), i > j
        PROVE  Row(k, j)[i + 1] = 0
    <3>1. i + 1 > j + 1
      BY <1>1, <2>2
    <3>2. At(x, j + 1, i + 1) = 0
      BY <1>3, <2>2, <3>1
    <3> QED
      BY <1>2, <3>2
  <2> QED
    BY <2>1, <2>2
<1>6. triangular(k, n) # 0 <=> up0 \/ low0
  BY DEF triangular
<1>7. Triangular(x) <=> up \/ low
  BY DEF Triangular, n
<1> QED
  BY <1>4, <1>5, <1>6, <1>7 DEF n, k

\* The arguments x and y of a function of a square matrix and a right side.
SideCall(x, y, o, e, E) ==
    /\ Running /\ IsValue(x) /\ IsValue(y) /\ IsOutcome(o)
    /\ e # none => e \in E
    /\ Listed(x) => Limited(Height(x), Height(x), E)
    /\ SideLimited(y, 0, E)
    /\ o.work >= wi => "limit" \in E

\* What ms should report.
MsError(x, y) ==
    Then(SquareError(x),
         IF Triangular(x) THEN Then(SideError(y), Unequal(Height(x), y))
         ELSE "domain")

\* qml_ms, which checks that the matrix is triangular before it takes the
\* other argument.
LEMMA MsEnds ==
  ASSUME NEW x, NEW y, NEW o, NEW E, SideCall(x, y, o, MsError(x, y), E)
  PROVE  Ends(qml_ms(x, y), E, MsError(x, y))
<1> DEFINE h == take_square_matrix(Heap0, x)
           f1 == ms_domain(h)
           f2 == take_matrix(f1, y, B, 0, "ask")
           f3 == ms_length(f2)
           f4 == ms_zero(f3)
           needs == [a |-> f4.n * f4.n, b |-> f4.b_m * f4.b_n]
           run == f4.info = 0 /\ f4.n = f4.b_m
           f5 == IF run THEN Uses(f4, needs) ELSE f4
           g == ms_blas(f4)
           read == Reads(g, [b |-> g.b_m * ReadColumns(g)])
           k == make_matrix(Null(g.info, g.b), g.b_m, g.b_m, g.b_n, Form(g))
           P == With({}, "a")
           Q == With(P, "b")
<1>0. /\ 2 < alloc_max /\ 3 < alloc_max /\ "b" \notin P /\ Q \subseteq {"a", "b"}
  BY CallsAssumption DEF With
<1>1. SquareCall(x, o, E)
  BY DEF SideCall, SquareCall, MsError, Then
<1>2. Sound(h, P, E, 2) /\ HasSquare(h, x, E)
      /\ (h.err = none => h.triangular = triangular(convert_FF(x), Height(x)))
  <2>1. Sound(Heap0, {}, E, 1)
    BY StartSound DEF SideCall
  <2>2. h.err = none => /\ h.n = Height(x)
                        /\ h.triangular = triangular(convert_FF(x), h.n)
    BY <1>1, <2>1, TakeSquare DEF SquareCall
  <2> QED
    BY <1>1, <2>2, SquareTaken
<1>3. /\ qml_ms(x, y) = Done(Free(read, {"a", "b"}), k)
      /\ \E b : g = [f5 EXCEPT !.b = b]
  BY DEF qml_ms, ms_end, ms_blas
<1>4. h.err = none => (h.triangular # 0 <=> Triangular(x))
  BY <1>2, TriangularMeans DEF HasSquare, SideCall
<1>5. Running /\ IsValue(y) /\ SideLimited(y, 0, E) /\ o.info \in Nat
  BY DEF SideCall, IsOutcome
<1> HIDE DEF h, P, Q, g, k, read
<1>6. /\ Sound(f1, P, E, 2) /\ (f1.err = none => f1 = h /\ Triangular(x))
  <2> DEFINE ok == h.triangular # 0
  <2>1. /\ ok \in BOOLEAN /\ "domain" # none
        /\ h.err = none /\ ~ok => "domain" \in E
    BY <1>2, <1>4 DEF SideCall, MsError, Then, HasSquare, none
  <2>2. f1 = Require(h, ok, "domain")
    BY DEF ms_domain
  <2> HIDE DEF ok, f1
  <2>3. Sound(f1, P, E, 2) /\ (f1.err = none => ok /\ f1 = h)
    BY <1>2, <2>1, <2>2, RequireSound
  <2> QED
    BY <1>4, <2>3 DEF ok
<1> HIDE DEF f1
<1>7. HasSquare(f1, x, E)
  BY <1>2, <1>6 DEF HasSquare
<1>8. /\ Sound(f2, Q, E, 3) /\ HasSide(f2, y)
      /\ f2.err = none => f1.err = none /\ f2.n = f1.n
  <2>1. f1.err = none /\ SideError(y) # none => SideError(y) \in E
    BY <1>6, <1>7 DEF SideCall, MsError, Then, HasSquare
  <2> HIDE DEF f2
  <2> QED
    BY <1>0, <1>5, <1>6, <2>1, SideTaken DEF f2, Q
<1> HIDE DEF f2
<1>9. HasSquare(f2, x, E)
  BY <1>7, <1>8 DEF HasSquare
<1>10. Sound(f3, Q, E, 3) /\ (f3.err = none => f3 = f2 /\ f2.n = f2.b_m)
  <2> DEFINE ok == f2.n = f2.b_m
  <2>1. /\ ok \in BOOLEAN /\ "length" # none
        /\ f2.err = none /\ ~ok => "length" \in E
    BY <1>6, <1>8, <1>9
       DEF SideCall, MsError, Then, HasSquare, HasSide, none, Unequal, LengthError
  <2>2. f3 = Require(f2, ok, "length")
    BY DEF ms_length
  <2> HIDE DEF ok, f3
  <2>3. Sound(f3, Q, E, 3) /\ (f3.err = none => ok /\ f3 = f2)
    BY <1>8, <2>1, <2>2, RequireSound
  <2> QED
    BY <2>3 DEF ok
<1> HIDE DEF f3
<1>11. f3.err = none => MsError(x, y) = none
  BY <1>6, <1>8, <1>9, <1>10
     DEF MsError, Then, HasSquare, HasSide, Unequal, LengthError
<1>12. Sound(f4, Q, E, 3) /\ Step(f3, f4, {"info"})
  <2>1. DOMAIN f3 = Fields
    BY <1>10 DEF Sound
  <2>2. DOMAIN f4 = Fields /\ Same(f3, f4, {"info"})
    BY <2>1 DEF ms_zero, Fields, Same
  <2>3. Data({"info"})
    BY DEF Data
  <2> HIDE DEF f4
  <2> QED
    BY <1>10, <2>2, <2>3, SetSound
<1> HIDE DEF f4, needs
<1>15. DOMAIN f5 = Fields /\ Same(f4, f5, {})
  BY <1>12, UsesSame DEF Sound, Same
<1> HIDE DEF f5
<1>16. Sound(g, Q, E, 3) /\ Step(f4, g, {"b"})
  <2>1. DOMAIN g = Fields /\ Same(f4, g, {"b"})
    BY <1>3, <1>15 DEF Fields, Same
  <2>2. Data({"b"})
    BY DEF Data
  <2> QED
    BY <1>12, <2>1, <2>2, SetSound
<1>17. g.err = none => MsError(x, y) = none
  BY <1>11, <1>12, <1>16 DEF Step
<1>18. k.t \in {-KF, 0, KF}
  BY MakeMatrixType DEF k
<1>21. DOMAIN read = Fields /\ Same(g, read, {})
  BY <1>16, ReadsSame DEF Sound, read
<1> HIDE DEF k
<1>19. qml_ms(x, y) = Done(Free(read, {"a", "b"}), k)
  BY <1>3
<1>20. Q \subseteq {"a", "b"}
  BY <1>0
<1> HIDE DEF Q
<1> DEFINE F == {"a", "b"}
<1> HIDE DEF F
<1> QED
  <2>1. Q \subseteq F /\ qml_ms(x, y) = Done(Free(read, F), k)
    BY <1>19, <1>20 DEF F
  <2> QED
    BY <1>0, <1>16, <1>17, <1>18, <1>21, <2>1, DoneEnds

-----------------------------------------------------------------------------
(* A matrix that need not be square *)

\* The argument x of a function of a matrix, and the errors it may report.
MatrixCall(x, column, E) ==
    /\ Running /\ IsValue(x) /\ column # "ask"
    /\ MatrixError(x) # none => MatrixError(x) \in E
    /\ MatrixError(x) = none =>
          /\ Limited(Room(x, column), Height(x), E)
          /\ Limited(Height(x), 1, E) /\ Limited(Width(x), 1, E)

\* The matrix is in a, unless an error is to be reported.
HasMatrix(h, x, column, E) ==
    h.err = none =>
       /\ MatrixError(x) = none /\ h.m = Height(x) /\ h.n = Width(x)
       /\ h.m \in Nat \ {0} /\ h.n \in Nat \ {0}
       /\ Limited(h.m, 1, E) /\ Limited(h.n, 1, E)

\* The matrix is taken first.
LEMMA MatrixTaken ==
  ASSUME NEW x, NEW column, NEW E, MatrixCall(x, column, E),
         NEW h, h = take_matrix(Heap0, x, A, 0, column)
  PROVE  /\ Sound(h, With({}, "a"), E, 2) /\ HasMatrix(h, x, column, E)
         /\ h.err = none => h.lwork = 0
<1>1. Running /\ IsValue(x) /\ column # "ask" /\ 1 < alloc_max
  BY CallsAssumption DEF MatrixCall
<1>2. Sound(Heap0, {}, E, 1) /\ Heap0.err = none
  BY <1>1, StartSound
<1>3. /\ Place(A, 0) /\ A.m = "m" /\ A.n = "n" /\ A.ldr = "m" /\ A.a = "a"
      /\ "a" \notin {}
  BY DEF Place, A
<1>4. MatrixError(x) = none =>
         /\ Height(x) \in Nat \ {0} /\ Width(x) \in Nat \ {0}
         /\ max_i(0, Height(x)) = Height(x)
  BY <1>1, MatrixShape DEF max_i
<1> DEFINE H == Heap0
           v == A
<1> HIDE DEF H, v
<1>5. /\ H.err = none /\ MatrixError(x) # none => MatrixError(x) \in E
      /\ MatrixError(x) = none =>
            Limited(Room(x, column), max_i(0, Height(x)), E)
  BY <1>4 DEF MatrixCall
<1>6. /\ Place(v, 0) /\ Sound(H, {}, E, 1) /\ v.a \notin {} /\ v.a = "a"
      /\ h = take_matrix(H, x, v, 0, column) /\ 1 \in Nat /\ 0 \in Nat
  BY <1>2, <1>3 DEF H, v
<1>7. /\ Took(H, h, {}, E, 1, v)
      /\ h.err = none =>
              /\ MatrixError(x) = none /\ NoColumn(h)
              /\ Holds(h, v, 0, Height(x), Width(x))
  BY <1>1, <1>5, <1>6, TakePlain
<1>8. Sound(h, With({}, "a"), E, 2)
  <2>1. Sound(h, With({}, v.a), E, 1 + 1)
    BY <1>7 DEF Took
  <2> QED
    BY <1>6, <2>1
<1>9. h.err = none =>
         MatrixError(x) = none /\ h.m = Height(x) /\ h.n = Width(x)
  BY <1>3, <1>4, <1>7 DEF Holds, v
<1>10. h.err = none => h.lwork = 0
  <2>1. h.err = none => Same(H, h, Parts(v)) /\ H.lwork = 0
    BY <1>7 DEF Took, Step, H, Heap0
  <2> QED
    BY <1>3, <2>1 DEF Same, Fields, Parts, v
<1> QED
  BY <1>4, <1>8, <1>9, <1>10 DEF HasMatrix, MatrixCall

\* The arguments of mm.
MmError(x, y) == Then(MatrixError(x), Then(SideError(y), Unequal(Width(x), y)))
MmCall(x, y, E) ==
    /\ MatrixCall(x, "no", E) /\ IsValue(y)
    /\ MmError(x, y) # none => MmError(x, y) \in E
    /\ SideLimited(y, 0, E)
    /\ MatrixError(x) = none /\ SideError(y) = none =>
          Limited(SideWidth(y), Height(x), E)

\* mm ends as it should.
LEMMA MmEnds ==
  ASSUME NEW x, NEW y, NEW E, MmCall(x, y, E)
  PROVE  Ends(qml_mm(x, y), E, MmError(x, y))
<1> DEFINE h == take_matrix(Heap0, x, A, 0, "no")
           f1 == take_matrix(h, y, B, 0, "ask")
           f2 == mm_length(f1)
           f3 == alloc_FF(f2, "r", "b_n", "m")
           needs ==
               IF f3.b_n = 1    THEN [a |-> f3.m * f3.n, b |-> f3.n, r |-> f3.m]
               ELSE IF f3.m = 1 THEN [a |-> f3.b_m, b |-> f3.b_m * f3.b_n,
                                      r |-> f3.b_n]
               ELSE IF f3.b_m < f3.n THEN <<>>
               ELSE [a |-> f3.m * f3.n, b |-> f3.b_m * f3.b_n,
                     r |-> f3.m * f3.b_n]
           run == f3.m # 0 /\ f3.b_m # 0 /\ f3.b_n # 0
           f4 == IF run THEN Uses(f3, needs) ELSE f3
           g == mm_blas(f3)
           read == Uses(g, [r |-> g.m * g.b_n])
           k == make_matrix(g.r, g.m, g.m, g.b_n, Form(g))
           P == With({}, "a")
           Q == With(P, "b")
           R == With(Q, "r")
           F == {"b", "a", "r"}
<1>0. /\ 2 < alloc_max /\ 3 < alloc_max /\ 4 < alloc_max
      /\ "b" \notin P /\ "r" \notin Q /\ R \subseteq F
  BY CallsAssumption DEF With
<1>1. MatrixCall(x, "no", E) /\ Running /\ IsValue(y) /\ SideLimited(y, 0, E)
  BY DEF MmCall, MatrixCall
<1>2. Sound(h, P, E, 2) /\ HasMatrix(h, x, "no", E)
  BY <1>1, MatrixTaken
<1>3. qml_mm(x, y) = Done(Free(read, F), k)
  BY DEF qml_mm, mm_end
<1>4. \E r : g = [f4 EXCEPT !.r = r]
  BY DEF mm_blas
<1> HIDE DEF h, P, Q, R, F, g, k, read
<1>5. /\ Sound(f1, Q, E, 3) /\ HasSide(f1, y)
      /\ f1.err = none => h.err = none /\ f1.m = h.m /\ f1.n = h.n
  <2>1. h.err = none /\ SideError(y) # none => SideError(y) \in E
    BY <1>2 DEF MmCall, MmError, Then, HasMatrix
  <2> HIDE DEF f1
  <2> QED
    BY <1>0, <1>1, <1>2, <2>1, SideTaken DEF f1, Q
<1> HIDE DEF f1
<1>6. HasMatrix(f1, x, "no", E)
  BY <1>2, <1>5 DEF HasMatrix
<1>7. Sound(f2, Q, E, 3) /\ (f2.err = none => f2 = f1 /\ f1.n = f1.b_m)
  <2> DEFINE ok == f1.n = f1.b_m
  <2>1. /\ ok \in BOOLEAN /\ "length" # none
        /\ f1.err = none /\ ~ok => "length" \in E
    BY <1>5, <1>6
       DEF MmCall, MmError, Then, HasMatrix, HasSide, none, Unequal, LengthError
  <2>2. f2 = Require(f1, ok, "length")
    BY DEF mm_length
  <2> HIDE DEF ok, f2
  <2>3. Sound(f2, Q, E, 3) /\ (f2.err = none => ok /\ f2 = f1)
    BY <1>5, <2>1, <2>2, RequireSound
  <2> QED
    BY <2>3 DEF ok
<1> HIDE DEF f2
<1>8. f2.err = none =>
         /\ MmError(x, y) = none /\ Limited(f2.b_n, f2.m, E)
         /\ f2.m = f1.m /\ f2.n = f1.n /\ f2.b_n = f1.b_n /\ f2.b_m = f1.b_m
  BY <1>5, <1>6, <1>7
     DEF MmCall, MmError, Then, HasMatrix, HasSide, Unequal, LengthError
<1>9. Sound(f3, R, E, 4) /\ Got(f2, f3, "r", f2.b_n * f2.m)
  <2>1. f3 = alloc_T(f2, "r", "b_n", f2.m) /\ "b_n" \in Ints
    BY DEF alloc_FF, Ints
  <2> HIDE DEF f3
  <2> QED
    BY <1>0, <1>1, <1>7, <1>8, <2>1, AllocTSound DEF R
<1> HIDE DEF f3, needs
<1>12. DOMAIN f4 = Fields /\ Same(f3, f4, {})
  BY <1>9, UsesSame DEF Sound, Same
<1> HIDE DEF f4
<1>13. Sound(g, R, E, 4) /\ Step(f3, g, {"r"})
  <2>1. DOMAIN g = Fields /\ Same(f3, g, {"r"})
    BY <1>4, <1>12 DEF Fields, Same
  <2>2. Data({"r"})
    BY DEF Data
  <2> QED
    BY <1>9, <2>1, <2>2, SetSound
<1>14. g.err = none => MmError(x, y) = none
  BY <1>8, <1>9, <1>13 DEF Got, Step
<1>15. k.t \in {-KF, 0, KF}
  BY MakeMatrixType DEF k
<1>16. DOMAIN read = Fields /\ Same(g, read, {})
  BY <1>13, UsesSame DEF Sound, read
<1> QED
  BY <1>0, <1>3, <1>13, <1>14, <1>15, <1>16, DoneEnds

-----------------------------------------------------------------------------
(* Several allocations, and the systems of equations *)

\* Two or three allocations, one after the other, leave the dimensions as they
\* are.
Grown(h, g) == Step(h, g, {"live", "i"})

LEMMA GotGrown ==
  ASSUME NEW h, NEW g, NEW p, NEW s, Got(h, g, p, s)
  PROVE  Grown(h, g)
BY DEF Got, Grown

LEMMA GrownTwice ==
  ASSUME NEW h, NEW f, NEW g, Grown(h, f), Grown(f, g)
  PROVE  Grown(h, g)
<1> DEFINE X == {"live", "i"}
<1>1. Step(h, f, X) /\ Step(f, g, X)
  BY DEF Grown
<1> HIDE DEF X
<1>2. Step(h, g, X)
  BY <1>1 DEF Step, Same
<1> QED
  BY <1>2 DEF X, Grown

LEMMA GrownThrice ==
  ASSUME NEW h, NEW f, NEW k, NEW g, Grown(h, f), Grown(f, k), Grown(k, g)
  PROVE  Grown(h, g)
BY GrownTwice

\* A system of equations is in a and b, unless an error is to be reported.
HasSystem(h, x, y, E) ==
    h.err = none =>
       /\ SystemError(x, y) = none /\ h.b_m = h.n
       /\ h.n \in Nat \ {0} /\ h.b_n \in Nat \ {0}
       /\ Limited(h.n, 1, E) /\ Limited(h.n, h.n, E) /\ Limited(h.n, h.b_n, E)
       /\ Limited(h.n, 4, E) /\ Limited(h.b_n, 1, E)

\* The arguments of mls.
SystemCall(x, y, o, E) ==
    /\ SideCall(x, y, o, SystemError(x, y), E)
    /\ SquareError(x) = none => Limited(Height(x), 4, E)
    /\ SideError(y) = none => Limited(SideWidth(y), 1, E)
    /\ SystemError(x, y) = none => Limited(Height(x), SideWidth(y), E)

\* The system is taken first.
LEMMA SystemTaken ==
  ASSUME NEW x, NEW y, NEW o, NEW E, SystemCall(x, y, o, E),
         NEW f, f = take_matrix(take_square_matrix(Heap0, x), y, B, 0, "ask"),
         NEW g, g = alloc_F(mls_length(f), "ipiv", "n")
  PROVE  /\ Sound(g, With(With(With({}, "a"), "b"), "ipiv"), E, 4)
         /\ HasSystem(g, x, y, E)
<1> DEFINE h == take_square_matrix(Heap0, x)
           f1 == mls_length(f)
           P == With({}, "a")
           Q == With(P, "b")
<1>0. /\ 2 < alloc_max /\ 3 < alloc_max
      /\ "b" \notin P /\ "ipiv" \notin Q
  BY CallsAssumption DEF With
<1>1. SquareCall(x, o, E) /\ Running /\ IsValue(y) /\ SideLimited(y, 0, E)
  BY DEF SystemCall, SideCall, SquareCall, SystemError, Then
<1>2. Sound(h, P, E, 2) /\ HasSquare(h, x, E)
  BY <1>1, SquareTaken
<1> HIDE DEF h, P, Q
<1>3. /\ Sound(f, Q, E, 3) /\ HasSide(f, y)
      /\ f.err = none => h.err = none /\ f.n = h.n
  <2>1. h.err = none /\ SideError(y) # none => SideError(y) \in E
    BY <1>2 DEF SystemCall, SideCall, SystemError, Then, HasSquare
  <2>2. f = take_matrix(h, y, B, 0, "ask")
    BY DEF h
  <2> QED
    BY <1>0, <1>1, <1>2, <2>1, <2>2, SideTaken DEF Q
<1>4. HasSquare(f, x, E)
  BY <1>2, <1>3 DEF HasSquare
<1>5. Sound(f1, Q, E, 3) /\ (f1.err = none => f1 = f /\ f.n = f.b_m)
  <2> DEFINE ok == f.n = f.b_m
  <2>1. /\ ok \in BOOLEAN /\ "length" # none
        /\ f.err = none /\ ~ok => "length" \in E
    BY <1>3, <1>4 DEF SystemCall, SideCall, SystemError, Then, HasSquare,
                      HasSide, none, Unequal, LengthError
  <2>2. f1 = Require(f, ok, "length")
    BY DEF mls_length
  <2> HIDE DEF ok, f1
  <2>3. Sound(f1, Q, E, 3) /\ (f1.err = none => ok /\ f1 = f)
    BY <1>3, <2>1, <2>2, RequireSound
  <2> QED
    BY <2>3 DEF ok
<1>6. f1.err = none => /\ SystemError(x, y) = none /\ f1.n = Height(x)
                       /\ f1.b_n = SideWidth(y) /\ f1.b_m = f1.n
  BY <1>3, <1>4, <1>5
     DEF SystemError, Then, HasSquare, HasSide, Unequal, LengthError
<1>7. HasSquare(f1, x, E) /\ HasSide(f1, y)
  BY <1>3, <1>4, <1>5 DEF HasSquare, HasSide
<1> HIDE DEF f1
<1>8. /\ Sound(g, With(Q, "ipiv"), E, 4) /\ HasSquare(g, x, E)
      /\ Step(f1, g, {"live", "i"})
  BY <1>0, <1>1, <1>5, <1>7, SquareAlloc DEF f1
<1>9. g.err = none => /\ f1.err = none /\ g.n = f1.n /\ g.b_n = f1.b_n
                      /\ g.b_m = f1.b_m
  BY <1>8 DEF Step, Same, Fields
<1>10. Sound(g, With(With(With({}, "a"), "b"), "ipiv"), E, 4)
  BY <1>8 DEF P, Q
<1>11. HasSystem(g, x, y, E)
  <2> SUFFICES ASSUME g.err = none PROVE HasSystem(g, x, y, E)
    BY DEF HasSystem
  <2>1. /\ f1.err = none /\ SystemError(x, y) = none /\ g.n = Height(x)
        /\ g.b_n = SideWidth(y) /\ g.b_m = g.n
        /\ SquareError(x) = none /\ SideError(y) = none
    BY <1>6, <1>7, <1>9 DEF HasSquare, HasSide
  <2>2. g.n \in Nat \ {0} /\ Limited(g.n, g.n, E) /\ Limited(g.n, 1, E)
    BY <1>8 DEF HasSquare
  <2>3. g.b_n \in Nat \ {0}
    BY <1>7, <1>9, <2>1 DEF HasSide
  <2>4. Limited(g.n, g.b_n, E) /\ Limited(g.n, 4, E) /\ Limited(g.b_n, 1, E)
    BY <2>1 DEF SystemCall
  <2> QED
    BY <2>1, <2>2, <2>3, <2>4 DEF HasSystem
<1> QED
  BY <1>10, <1>11

\* Another allocation leaves the system as it is.
LEMMA SystemAlloc ==
  ASSUME NEW x, NEW y, NEW E, NEW h, NEW P, NEW n \in Nat, NEW p,
         NEW d \in Ints, NEW m, Running,
         Sound(h, P, E, n), HasSystem(h, x, y, E), n < alloc_max, p \notin P,
         h.err = none => Limited(h[d], m, E),
         NEW g, g = alloc_T(h, p, d, m)
  PROVE  /\ Sound(g, With(P, p), E, n + 1) /\ HasSystem(g, x, y, E)
         /\ Grown(h, g)
<1>1. Sound(g, With(P, p), E, n + 1) /\ Got(h, g, p, h[d] * m)
  BY AllocTSound
<1>2. g.err = none =>
         h.err = none /\ g.n = h.n /\ g.b_n = h.b_n /\ g.b_m = h.b_m
  BY <1>1 DEF Got, Step, Same, Fields
<1> QED
  BY <1>1, <1>2, GotGrown DEF HasSystem

\* The buffers x and af.
LEMMA SystemsSound ==
  ASSUME NEW x, NEW y, NEW E, NEW h, NEW P, NEW n \in Nat, Running,
         Sound(h, P, E, n), HasSystem(h, x, y, E), n + 1 < alloc_max,
         "x" \notin P, "af" \notin With(P, "x"),
         NEW g, g = mls_systems(h)
  PROVE  /\ Sound(g, With(With(P, "x"), "af"), E, n + 2) /\ HasSystem(g, x, y, E)
         /\ Grown(h, g)
<1> DEFINE f == alloc_T(h, "x", "n", h.b_n)
           P1 == With(P, "x")
<1>1. g = alloc_T(f, "af", "n", f.n)
  BY DEF mls_systems, alloc_FF
<1>2. h.err = none => Limited(h.n, h.b_n, E)
  BY DEF HasSystem
<1>3. "n" \in Ints /\ n < alloc_max /\ n + 1 \in Nat
  BY CallsAssumption DEF Ints
<1> HIDE DEF f, P1
<1>4. /\ Sound(f, P1, E, n + 1) /\ HasSystem(f, x, y, E)
      /\ Grown(h, f)
  BY <1>2, <1>3, SystemAlloc DEF f, P1
<1>5. f.err = none => Limited(f.n, f.n, E)
  BY <1>4 DEF HasSystem
<1>6. "af" \notin P1
  BY DEF P1
<1>7. /\ Sound(g, With(P1, "af"), E, n + 1 + 1) /\ HasSystem(g, x, y, E)
      /\ Grown(f, g)
  BY <1>1, <1>3, <1>4, <1>5, <1>6, SystemAlloc
<1>8. Grown(h, g)
  BY <1>4, <1>7, GrownTwice
<1>9. n + 1 + 1 = n + 2
  OBVIOUS
<1> QED
  BY <1>7, <1>8, <1>9 DEF P1

\* The buffers r, c and w.
LEMMA ScalesSound ==
  ASSUME NEW x, NEW y, NEW E, NEW h, NEW P, NEW n \in Nat, Running,
         Sound(h, P, E, n), HasSystem(h, x, y, E), n + 2 < alloc_max,
         "r" \notin P, "c" \notin With(P, "r"), "w" \notin With(With(P, "r"), "c"),
         NEW g, g = mls_scales(h)
  PROVE  /\ Sound(g, With(With(With(P, "r"), "c"), "w"), E, n + 3)
         /\ HasSystem(g, x, y, E) /\ Grown(h, g)
<1> DEFINE f == alloc_T(h, "r", "n", 1)
           k == alloc_T(f, "c", "n", 1)
           P1 == With(P, "r")
           P2 == With(P1, "c")
<1>1. g = alloc_T(k, "w", "n", 4)
  BY DEF mls_scales, alloc_F
<1>2. "n" \in Ints /\ n < alloc_max /\ n + 1 \in Nat /\ n + 1 < alloc_max
      /\ n + 1 + 1 \in Nat /\ n + 1 + 1 < alloc_max
  BY CallsAssumption DEF Ints
<1>3. /\ h.err = none => Limited(h.n, 1, E)
      /\ "c" \notin P1 /\ "w" \notin P2
  BY DEF HasSystem
<1> HIDE DEF f, k, P1, P2
<1>4. /\ Sound(f, P1, E, n + 1) /\ HasSystem(f, x, y, E)
      /\ Grown(h, f)
  BY <1>2, <1>3, SystemAlloc DEF f, P1
<1>5. f.err = none => Limited(f.n, 1, E)
  BY <1>4 DEF HasSystem
<1>6. /\ Sound(k, P2, E, n + 1 + 1) /\ HasSystem(k, x, y, E)
      /\ Grown(f, k)
  BY <1>2, <1>3, <1>4, <1>5, SystemAlloc DEF k, P2
<1>7. k.err = none => Limited(k.n, 4, E)
  BY <1>6 DEF HasSystem
<1>8. /\ Sound(g, With(P2, "w"), E, n + 1 + 1 + 1) /\ HasSystem(g, x, y, E)
      /\ Grown(k, g)
  BY <1>1, <1>2, <1>3, <1>6, <1>7, SystemAlloc
<1>9. Grown(h, g)
  BY <1>4, <1>6, <1>8, GrownThrice
<1>10. n + 1 + 1 + 1 = n + 3
  OBVIOUS
<1> QED
  BY <1>8, <1>9, <1>10 DEF P1, P2

\* The buffers ferr, berr and iw.
LEMMA ErrorsSound ==
  ASSUME NEW x, NEW y, NEW E, NEW h, NEW P, NEW n \in Nat, Running,
         Sound(h, P, E, n), HasSystem(h, x, y, E), n + 2 < alloc_max,
         "ferr" \notin P, "berr" \notin With(P, "ferr"),
         "iw" \notin With(With(P, "ferr"), "berr"),
         NEW g, g = mls_errors(h)
  PROVE  /\ Sound(g, With(With(With(P, "ferr"), "berr"), "iw"), E, n + 3)
         /\ HasSystem(g, x, y, E) /\ Grown(h, g)
<1> DEFINE f == alloc_T(h, "ferr", "b_n", 1)
           k == alloc_T(f, "berr", "b_n", 1)
           P1 == With(P, "ferr")
           P2 == With(P1, "berr")
<1>1. g = alloc_T(k, "iw", "n", 1)
  BY DEF mls_errors, alloc_F
<1>2. "n" \in Ints /\ n < alloc_max /\ n + 1 \in Nat /\ n + 1 < alloc_max
      /\ n + 1 + 1 \in Nat /\ n + 1 + 1 < alloc_max /\ "b_n" \in Ints
  BY CallsAssumption DEF Ints
<1>3. /\ h.err = none => Limited(h.b_n, 1, E)
      /\ "berr" \notin P1 /\ "iw" \notin P2
  BY DEF HasSystem
<1> HIDE DEF f, k, P1, P2
<1>4. /\ Sound(f, P1, E, n + 1) /\ HasSystem(f, x, y, E)
      /\ Grown(h, f)
  BY <1>2, <1>3, SystemAlloc DEF f, P1
<1>5. f.err = none => Limited(f.b_n, 1, E)
  BY <1>4 DEF HasSystem
<1>6. /\ Sound(k, P2, E, n + 1 + 1) /\ HasSystem(k, x, y, E)
      /\ Grown(f, k)
  BY <1>2, <1>3, <1>4, <1>5, SystemAlloc DEF k, P2
<1>7. k.err = none => Limited(k.n, 1, E)
  BY <1>6 DEF HasSystem
<1>8. /\ Sound(g, With(P2, "iw"), E, n + 1 + 1 + 1) /\ HasSystem(g, x, y, E)
      /\ Grown(k, g)
  BY <1>1, <1>2, <1>3, <1>6, <1>7, SystemAlloc
<1>9. Grown(h, g)
  BY <1>4, <1>6, <1>8, GrownThrice
<1>10. n + 1 + 1 + 1 = n + 3
  OBVIOUS
<1> QED
  BY <1>8, <1>9, <1>10 DEF P1, P2

\* mls ends as it should, with equilibration and without.
LEMMA MlsEnds ==
  ASSUME NEW x, NEW y, NEW equi, equi \in BOOLEAN, NEW o, NEW E,
         SystemCall(x, y, o, E)
  PROVE  Ends(mls(x, y, equi, o), E, SystemError(x, y))
<1> DEFINE f == take_matrix(take_square_matrix(Heap0, x), y, B, 0, "ask")
           h == alloc_F(mls_length(f), "ipiv", "n")
           g == mls_solve(h, equi, o)
           p == IF equi THEN "x" ELSE "b"
           solution == Null(g.info, Buf(g, p))
           read == Reads(g, [q \in {p} |-> g.b_m * ReadColumns(g)])
           k == make_matrix(solution, g.b_m, g.b_m, g.b_n, Form(g))
           P == With(With(With({}, "a"), "b"), "ipiv")
           F == {"iw", "berr", "ferr", "w", "c", "r", "af", "b", "ipiv", "a", "x"}
<1>1. Sound(h, P, E, 4) /\ HasSystem(h, x, y, E)
  BY SystemTaken
<1>2. mls(x, y, equi, o) = Done(Free(read, F), k)
  BY DEF mls, mls_end
<1>3. k.t \in {-KF, 0, KF}
  BY MakeMatrixType
<1>4. Running /\ o.info \in Nat
  BY DEF SystemCall, SideCall, IsOutcome
<1> HIDE DEF f, h, k, P, p
<1>5. CASE ~equi
  <2> DEFINE needs == [a |-> h.n * h.n, ipiv |-> h.n, b |-> h.b_m * h.b_n]
             valid == h.n >= 1 /\ h.b_m >= h.n
  <2>1. g = Lapack(h, valid, needs, o.info)
    BY <1>5 DEF mls_solve, gesv
  <2>2. valid \in BOOLEAN /\ (h.err = none => valid)
    BY <1>1 DEF HasSystem
  <2>3. P \subseteq F /\ 4 < alloc_max
    BY CallsAssumption DEF P, With
  <2> HIDE DEF g, read, needs, valid, F
  <2>4. Sound(g, P, E, 4) /\ Step(h, g, {"info"})
    BY <1>1, <1>4, <2>1, <2>2, LapackSound
  <2>5. g.err = none => SystemError(x, y) = none
    BY <1>1, <2>4 DEF Step, HasSystem
  <2>6. DOMAIN read = Fields /\ Same(g, read, {})
    BY <2>4, ReadsSame DEF Sound, read
  <2> QED
    BY <1>2, <1>3, <2>3, <2>4, <2>5, <2>6, DoneEnds
<1>6. CASE equi
  <2> DEFINE f1 == mls_systems(h)
             f2 == mls_scales(f1)
             f3 == mls_errors(f2)
             Q == With(With(P, "x"), "af")
             R == With(With(With(Q, "r"), "c"), "w")
             S == With(With(With(R, "ferr"), "berr"), "iw")
             needs == [a |-> f3.n * f3.n, af |-> f3.n * f3.n, ipiv |-> f3.n,
                       r |-> f3.n, c |-> f3.n, b |-> f3.b_m * f3.b_n,
                       x |-> f3.b_m * f3.b_n, w |-> 4 * f3.n, iw |-> f3.n,
                       ferr |-> f3.b_n, berr |-> f3.b_n]
             valid == f3.n >= 1 /\ f3.b_m >= f3.n
  <2>1. g = Lapack(f3, valid, needs, o.info)
    BY <1>6 DEF mls_solve, gesvx
  <2>2. /\ 4 + 1 < alloc_max /\ 6 + 2 < alloc_max /\ 9 + 2 < alloc_max
        /\ 12 < alloc_max
    BY CallsAssumption
  <2>3. /\ "x" \notin P /\ "af" \notin With(P, "x")
    BY DEF P, With
  <2>4. /\ "r" \notin Q /\ "c" \notin With(Q, "r")
        /\ "w" \notin With(With(Q, "r"), "c")
    BY DEF P, With
  <2>5. /\ "ferr" \notin R /\ "berr" \notin With(R, "ferr")
        /\ "iw" \notin With(With(R, "ferr"), "berr")
    BY DEF P, With
  <2>6. S \subseteq F
    BY DEF P, With
  <2> HIDE DEF g, read, f1, f2, f3, Q, R, S, F
  <2>7. /\ Sound(f1, Q, E, 4 + 2) /\ HasSystem(f1, x, y, E)
        /\ Grown(h, f1)
    BY <1>1, <1>4, <2>2, <2>3, SystemsSound DEF f1, Q
  <2>8. Sound(f1, Q, E, 6)
    BY <2>7
  <2>9. /\ Sound(f2, R, E, 6 + 3) /\ HasSystem(f2, x, y, E)
        /\ Grown(f1, f2)
    BY <1>4, <2>2, <2>4, <2>7, <2>8, ScalesSound DEF f2, R
  <2>10. Sound(f2, R, E, 9)
    BY <2>9
  <2>11. /\ Sound(f3, S, E, 9 + 3) /\ HasSystem(f3, x, y, E)
         /\ Grown(f2, f3)
    BY <1>4, <2>2, <2>5, <2>9, <2>10, ErrorsSound DEF f3, S
  <2>12. Sound(f3, S, E, 12)
    BY <2>11
  <2>13. f3.err = none => valid
    BY <2>11 DEF HasSystem
  <2>14. valid \in BOOLEAN
    OBVIOUS
  <2> HIDE DEF needs, valid
  <2>15. Sound(g, S, E, 12) /\ Step(f3, g, {"info"})
    BY <1>4, <2>1, <2>12, <2>13, <2>14, LapackSound
  <2>16. g.err = none => SystemError(x, y) = none
    BY <2>11, <2>15 DEF Step, HasSystem
  <2>17. DOMAIN read = Fields /\ Same(g, read, {})
    BY <2>15, ReadsSame DEF Sound, read
  <2> QED
    BY <1>2, <1>3, <2>2, <2>6, <2>15, <2>16, <2>17, DoneEnds
<1> QED
  BY <1>5, <1>6

-----------------------------------------------------------------------------
(* The factorisations of a matrix *)

\* The arguments of mqr, mlup and msvd.
FactorCall(x, column, o, E) ==
    /\ MatrixCall(x, column, E) /\ IsOutcome(o)
    /\ o.work >= wi => "limit" \in E
    /\ MatrixError(x) = none =>
          /\ Limited(Height(x), Height(x), E) /\ Limited(Width(x), Width(x), E)
          /\ Limited(min_i(Height(x), Width(x)), 8, E)

\* The matrix is in a and its least dimension in min, unless an error is to
\* be reported.
HasFactor(h, x, column, E) ==
    h.err = none =>
       /\ MatrixError(x) = none /\ h.m = Height(x) /\ h.n = Width(x)
       /\ h.m \in Nat \ {0} /\ h.n \in Nat \ {0}
       /\ h.min = min_i(h.m, h.n) /\ h.min \in Nat \ {0}
       /\ Limited(h.m, h.m, E) /\ Limited(h.n, h.n, E) /\ Limited(h.min, 8, E)
       /\ Limited(h.n, 1, E) /\ Limited(h.min, 1, E)

\* The functions that factor a matrix take it and the smaller dimension first.
LEMMA FactorTaken ==
  ASSUME NEW x, NEW column, NEW o, NEW E, FactorCall(x, column, o, E),
         NEW h, h = take_matrix(Heap0, x, A, 0, column),
         NEW g, g = SetMin(h)
  PROVE  /\ Sound(g, With({}, "a"), E, 2) /\ HasFactor(g, x, column, E)
         /\ g.err = none => g.lwork = 0
<1> DEFINE P == With({}, "a")
<1>1. MatrixCall(x, column, E)
  BY DEF FactorCall
<1>2. /\ Sound(h, P, E, 2) /\ HasMatrix(h, x, column, E)
      /\ h.err = none => h.lwork = 0
  BY <1>1, MatrixTaken
<1> HIDE DEF P
<1>3. DOMAIN g = Fields /\ Same(h, g, {"min"}) /\ g.min = min_i(h.m, h.n)
  <2>1. DOMAIN h = Fields
    BY <1>2 DEF Sound
  <2> QED
    BY <2>1 DEF SetMin, Same, Fields
<1>4. Sound(g, P, E, 2) /\ Step(h, g, {"min"}) /\ g.live = h.live
  <2>1. Data({"min"})
    BY DEF Data
  <2> QED
    BY <1>2, <1>3, <2>1, SetSound
<1>5. g.err = none => /\ h.err = none /\ g.m = h.m /\ g.n = h.n
                      /\ g.lwork = h.lwork
  BY <1>3, <1>4 DEF Step, Same, Fields
<1>6. g.err = none => g.min \in Nat \ {0} /\ (g.min = g.m \/ g.min = g.n)
  BY <1>2, <1>3, <1>5 DEF HasMatrix, min_i
<1>7. HasFactor(g, x, column, E)
  BY <1>2, <1>3, <1>5, <1>6 DEF HasFactor, HasMatrix, FactorCall
<1> QED
  BY <1>2, <1>4, <1>5, <1>7 DEF P

\* Another allocation leaves the matrix as it is, with the dimensions set to 0
\* when there is nothing to count.
LEMMA FactorAlloc ==
  ASSUME NEW x, NEW column, NEW E, NEW h, NEW P, NEW n \in Nat, NEW p,
         NEW d \in Ints, NEW e \in Ints, NEW m, Running,
         Sound(h, P, E, n), HasFactor(h, x, column, E), n < alloc_max,
         p \notin P,
         h.err = none => Limited(h[d], m, E) /\ h[d] # 0,
         NEW f, f = alloc_T(h, p, d, m),
         NEW g, g = f \/ g = Shrink(f, d, e)
  PROVE  /\ Sound(g, With(P, p), E, n + 1) /\ HasFactor(g, x, column, E)
         /\ Grown(h, g)
<1> DEFINE Q == With(P, p)
           X == {"live", "i"}
           s == h[d] * m
<1>1. Sound(f, Q, E, n + 1) /\ Got(h, f, p, s)
  BY AllocTSound
<1> HIDE DEF Q, s
<1>2. f.err = none => f[d] # 0
  BY <1>1 DEF Got, Step, Same, Ints, Fields
<1>3. Sound(g, Q, E, n + 1) /\ Step(f, g, {})
  <2>1. CASE g = f
    BY <1>1, <2>1 DEF Step, Same
  <2>2. CASE g = Shrink(f, d, e)
    BY <1>1, <1>2, <2>2, ShrinkSound
  <2> QED
    BY <2>1, <2>2
<1>4. Step(h, g, X)
  BY <1>1, <1>3 DEF Got, Step, Same
<1>5. g.err = none => h.err = none /\ g.m = h.m /\ g.n = h.n /\ g.min = h.min
  BY <1>4 DEF Step, Same, Fields
<1>6. HasFactor(g, x, column, E)
  BY <1>5 DEF HasFactor
<1> QED
  BY <1>3, <1>4, <1>6 DEF Q, Grown

\* mlup ends as it should.
LEMMA MlupEnds ==
  ASSUME NEW x, NEW o, NEW E, FactorCall(x, "no", o, E)
  PROVE  Ends(qml_mlup(x, o), E, MatrixError(x))
<1> DEFINE h == SetMin(take_matrix(Heap0, x, A, 0, "no"))
           f == alloc_T(h, "ipiv", "min", 1)
           f1 == mlup_ipiv(h)
           g == mlup_lu(f1, o)
           needs == [a |-> f1.m * f1.n, ipiv |-> min_i(f1.m, f1.n)]
           valid == f1.m >= 1
           exchanged == [i \in 1..g.min |-> IF o.piv THEN g.m ELSE i]
           k == Vec(0, <<make_matrix(Buf(g, "a"), g.m, g.m, g.min, "lower"),
                      make_matrix(Buf(g, "a"), g.m, g.min, g.n, "upper"),
                      Vec(KJ, Swapped(g.m, g.min, exchanged))>>)
           left == Uses(g, [a |-> g.m * g.min])
           read == Uses(left, [a |-> g.m * g.n, ipiv |-> g.min])
           P == With({}, "a")
           Q == With(P, "ipiv")
           F == {"ipiv", "a"}
<1>0. "ipiv" \notin P /\ Q \subseteq F /\ 2 < alloc_max /\ 3 < alloc_max
  BY CallsAssumption DEF With
<1>1. Sound(h, P, E, 2) /\ HasFactor(h, x, "no", E)
  BY FactorTaken
<1>2. qml_mlup(x, o) = Done(Free(read, F), k)
  BY DEF qml_mlup, mlup_end
<1>3. g = Lapack(f1, valid, needs, o.info)
  BY DEF mlup_lu
<1>4. Running /\ o.info \in Nat
  BY DEF FactorCall, MatrixCall, IsOutcome
<1>5. f1 = Shrink(f, "min", "n")
  BY DEF mlup_ipiv, alloc_F
<1>6. k.t = 0
  BY DEF Vec
<1> HIDE DEF h, f, f1, g, read, left, k, P, Q, F
<1>7. Sound(f1, Q, E, 3) /\ HasFactor(f1, x, "no", E)
  <2>1. h.err = none => Limited(h["min"], 1, E) /\ h["min"] # 0
    BY <1>1 DEF HasFactor
  <2>2. "min" \in Ints /\ "n" \in Ints
    BY DEF Ints
  <2>3. /\ Sound(f1, With(P, "ipiv"), E, 2 + 1) /\ HasFactor(f1, x, "no", E)
    BY <1>0, <1>1, <1>4, <1>5, <2>1, <2>2, FactorAlloc DEF f
  <2> QED
    BY <2>3 DEF Q
<1>8. f1.err = none => valid
  BY <1>7 DEF HasFactor
<1>9. valid \in BOOLEAN
  OBVIOUS
<1> HIDE DEF valid, needs
<1>10. Sound(g, Q, E, 3) /\ Step(f1, g, {"info"})
  BY <1>3, <1>4, <1>7, <1>8, <1>9, LapackSound
<1>11. g.err = none => MatrixError(x) = none
  BY <1>7, <1>10 DEF Step, HasFactor
<1>12. DOMAIN left = Fields /\ Same(g, left, {})
  BY <1>10, UsesSame DEF Sound, left
<1>13. DOMAIN read = Fields /\ Same(g, read, {})
  BY <1>12, UsesSame DEF Same, read
<1> QED
  BY <1>0, <1>2, <1>6, <1>10, <1>11, <1>13, DoneEnds

\* A workspace leaves the matrix as it is.
LEMMA FactorWork ==
  ASSUME NEW x, NEW column, NEW o, NEW E, NEW h, NEW P, NEW n \in Nat,
         NEW valid, valid \in BOOLEAN, FactorCall(x, column, o, E),
         Sound(h, P, E, n), HasFactor(h, x, column, E), n < alloc_max,
         "w" \notin P, h.err = none => valid,
         NEW g, g = alloc_W(Query(h, valid), o.work)
  PROVE  /\ Sound(g, With(P, "w"), E, n + 1) /\ HasFactor(g, x, column, E)
         /\ Works(h, g)
<1> DEFINE work == o.work
<1>1. Running /\ work \in Nat \ {0} /\ (work >= wi => "limit" \in E)
  BY DEF FactorCall, MatrixCall, IsOutcome
<1>2. g = alloc_W(Query(h, valid), work)
  OBVIOUS
<1> HIDE DEF work
<1>3. Sound(g, With(P, "w"), E, n + 1) /\ Works(h, g)
  BY <1>1, <1>2, WorkSound
<1>4. g.err = none =>
         h.err = none /\ g.m = h.m /\ g.n = h.n /\ g.min = h.min
  BY <1>3 DEF Works, Same, Fields
<1> QED
  BY <1>3, <1>4 DEF HasFactor

\* The buffers s, u and vt of msvd.
LEMMA PartsSound ==
  ASSUME NEW x, NEW E, NEW h, NEW P, NEW n \in Nat, Running,
         Sound(h, P, E, n), HasFactor(h, x, "no", E), n + 2 < alloc_max,
         "s" \notin P, "u" \notin With(P, "s"), "vt" \notin With(With(P, "s"), "u"),
         NEW g, g = msvd_parts(h)
  PROVE  /\ Sound(g, With(With(With(P, "s"), "u"), "vt"), E, n + 3)
         /\ HasFactor(g, x, "no", E) /\ Grown(h, g)
<1> DEFINE f == alloc_T(h, "s", "min", 1)
           k == alloc_T(f, "u", "m", f.m)
           P1 == With(P, "s")
           P2 == With(P1, "u")
<1>1. /\ g = alloc_T(k, "vt", "n", k.n) /\ k = alloc_T(f, "u", "m", f.m)
  BY DEF msvd_parts, alloc_F, alloc_FF
<1>2. "n" \in Ints /\ n < alloc_max /\ n + 1 \in Nat /\ n + 1 < alloc_max
      /\ n + 1 + 1 \in Nat /\ n + 1 + 1 < alloc_max /\ "m" \in Ints /\ "min" \in Ints
  BY CallsAssumption DEF Ints
<1>3. /\ h.err = none => Limited(h["min"], 1, E) /\ h["min"] # 0
      /\ "u" \notin P1 /\ "vt" \notin P2
  BY DEF HasFactor
<1> HIDE DEF f, k, P1, P2
<1>4. /\ Sound(f, P1, E, n + 1) /\ HasFactor(f, x, "no", E)
      /\ Grown(h, f)
  BY <1>2, <1>3, FactorAlloc DEF f, P1
<1>5. f.err = none => Limited(f["m"], f.m, E) /\ f["m"] # 0
  BY <1>4 DEF HasFactor
<1>6. /\ Sound(k, P2, E, n + 1 + 1) /\ HasFactor(k, x, "no", E)
      /\ Grown(f, k)
  BY <1>1, <1>2, <1>3, <1>4, <1>5, FactorAlloc DEF P2
<1>7. k.err = none => Limited(k["n"], k.n, E) /\ k["n"] # 0
  BY <1>6 DEF HasFactor
<1>8. /\ Sound(g, With(P2, "vt"), E, n + 1 + 1 + 1) /\ HasFactor(g, x, "no", E)
      /\ Grown(k, g)
  BY <1>1, <1>2, <1>3, <1>6, <1>7, FactorAlloc, SMTT(40)
<1>9. Grown(h, g)
  BY <1>4, <1>6, <1>8, GrownThrice
<1>10. n + 1 + 1 + 1 = n + 3
  OBVIOUS
<1> QED
  BY <1>8, <1>9, <1>10 DEF P1, P2

\* msvd ends as it should.
LEMMA MsvdEnds ==
  ASSUME NEW x, NEW o, NEW E, FactorCall(x, "no", o, E)
  PROVE  Ends(qml_msvd(x, o), E, MatrixError(x))
<1> DEFINE h == SetMin(take_matrix(Heap0, x, A, 0, "no"))
           f1 == msvd_work(h, o)
           f2 == msvd_parts(f1)
           f == alloc_T(f2, "iw", "min", 8)
           f3 == msvd_iw(f2)
           g == gesdd(f3, o)
           needs == [a |-> f3.m * f3.n, s |-> min_i(f3.m, f3.n),
                     u |-> f3.m * f3.m, vt |-> f3.n * f3.n,
                     iw |-> 8 * min_i(f3.m, f3.n), w |-> f3.lwork]
           valid == f3.m >= 1 /\ f3.n >= 1 /\ f3.lwork >= 1
           asked == h.m >= 1
           k == Vec(0, <<make_matrix(Null(g.info, Buf(g, "u")), g.m, g.m, g.m, "matrix"),
                  diagonal(g.m, g.n, IF g.info # 0 THEN nf ELSE Unknown),
                  make_matrix(Null(g.info, Buf(g, "vt")), g.n, g.n, g.n,
                              "transposed")>>)
           read == msvd_reads(g)
           P == With({}, "a")
           Q == With(P, "w")
           R == With(With(With(Q, "s"), "u"), "vt")
           S == With(R, "iw")
           F == {"w", "iw", "a", "vt", "u", "s"}
<1>0. /\ "w" \notin P /\ "s" \notin Q /\ "u" \notin With(Q, "s")
      /\ "vt" \notin With(With(Q, "s"), "u") /\ "iw" \notin R /\ S \subseteq F
  BY DEF With
<1>1. /\ 2 < alloc_max /\ 3 + 2 < alloc_max /\ 6 < alloc_max /\ 7 < alloc_max
  BY CallsAssumption
<1>2. Sound(h, P, E, 2) /\ HasFactor(h, x, "no", E)
  BY FactorTaken
<1>3. qml_msvd(x, o) = Done(Free(read, F), k)
  BY DEF qml_msvd, msvd_end
<1>4. /\ g = Lapack(f3, valid, needs, o.info)
      /\ f1 = alloc_W(Query(h, asked), o.work)
  BY DEF gesdd, msvd_work
<1>5. Running /\ o.info \in Nat
  BY DEF FactorCall, MatrixCall, IsOutcome
<1>6. f3 = Shrink(f, "min", "m")
  BY DEF msvd_iw
<1>7. k.t = 0
  BY DEF Vec
<1>8. asked \in BOOLEAN /\ (h.err = none => asked)
  BY <1>2 DEF HasFactor
<1> HIDE DEF h, f1, f2, f, f3, g, read, k, P, Q, R, S, F, asked
<1>9. Sound(f1, Q, E, 3) /\ HasFactor(f1, x, "no", E) /\ Works(h, f1)
  <2>1. /\ Sound(f1, With(P, "w"), E, 2 + 1) /\ HasFactor(f1, x, "no", E)
        /\ Works(h, f1)
    BY <1>0, <1>1, <1>2, <1>4, <1>8, FactorWork
  <2> QED
    BY <2>1 DEF Q
<1>10. Sound(f2, R, E, 6) /\ HasFactor(f2, x, "no", E) /\ Grown(f1, f2)
  <2>1. Sound(f2, R, E, 3 + 3) /\ HasFactor(f2, x, "no", E) /\ Grown(f1, f2)
    BY <1>0, <1>1, <1>5, <1>9, PartsSound DEF f2, R
  <2> QED
    BY <2>1
<1>11. Sound(f3, S, E, 7) /\ HasFactor(f3, x, "no", E)
       /\ Grown(f2, f3)
  <2>1. f2.err = none => Limited(f2["min"], 8, E) /\ f2["min"] # 0
    BY <1>10 DEF HasFactor
  <2>2. "min" \in Ints /\ "m" \in Ints
    BY DEF Ints
  <2>3. /\ Sound(f3, With(R, "iw"), E, 6 + 1) /\ HasFactor(f3, x, "no", E)
        /\ Grown(f2, f3)
    BY <1>0, <1>1, <1>5, <1>6, <1>10, <2>1, <2>2, FactorAlloc DEF f
  <2> QED
    BY <2>3 DEF S
<1>12. f3.err = none => valid
  <2> SUFFICES ASSUME f3.err = none PROVE valid
    OBVIOUS
  <2>1. f2.err = none /\ f1.err = none
    BY <1>10, <1>11 DEF Grown, Step
  <2>2. f3.lwork = f2.lwork /\ f2.lwork = f1.lwork
    BY <1>10, <1>11, <2>1 DEF Grown, Step, Same, Fields
  <2>3. f1.lwork \in Nat \ {0}
    BY <1>9, <2>1 DEF Works
  <2>4. f3.m \in Nat \ {0} /\ f3.n \in Nat \ {0}
    BY <1>11 DEF HasFactor
  <2> QED
    BY <2>2, <2>3, <2>4
<1>13. valid \in BOOLEAN
  OBVIOUS
<1> HIDE DEF valid, needs
<1>14. Sound(g, S, E, 7) /\ Step(f3, g, {"info"})
  BY <1>4, <1>5, <1>11, <1>12, <1>13, LapackSound
<1>15. g.err = none => MatrixError(x) = none
  BY <1>11, <1>14 DEF Step, HasFactor
<1>16. DOMAIN read = Fields /\ Same(g, read, {})
  BY <1>14, ReadsSame DEF Sound, read, msvd_reads
<1> QED
  BY <1>0, <1>1, <1>3, <1>7, <1>14, <1>15, <1>16, DoneEnds

\* The two workspace queries of mqr leave in lwork the larger of the two.
LEMMA MqrQuery ==
  ASSUME NEW x, NEW o, NEW E, NEW h, NEW P, NEW n, FactorCall(x, "square", o, E),
         Sound(h, P, E, n), HasFactor(h, x, "square", E),
         h.err = none => h.lwork \in {0, take_maxwork(0, o.work)},
         NEW g, g = mqr_query(h, o)
  PROVE  /\ Sound(g, P, E, n) /\ HasFactor(g, x, "square", E)
         /\ g.err = none => g.lwork = take_maxwork(0, o.work)
<1> DEFINE asked == h.m >= 1
           needs == <<>>
           q == Query(h, asked)
           l == max_i(q.lwork, take_maxwork(q.info, o.work))
<1>1. /\ asked \in BOOLEAN /\ 0 \in Nat
      /\ h.err = none => asked
  BY DEF HasFactor
<1>2. q = Lapack(h, asked, needs, 0)
  BY DEF Query
<1>3. g = [q EXCEPT !.lwork = l]
  BY DEF mqr_query, mqr_larger
<1> HIDE DEF asked, needs, q
<1>4. /\ Sound(q, P, E, n) /\ Step(h, q, {"info"})
      /\ q.err = none => q.info = 0
  BY <1>1, <1>2, LapackSound
<1>5. DOMAIN g = Fields /\ Same(q, g, {"lwork"}) /\ g.lwork = l
  <2>1. DOMAIN q = Fields
    BY <1>4 DEF Sound
  <2> QED
    BY <1>3, <2>1 DEF Same, Fields
<1>6. Sound(g, P, E, n) /\ Step(q, g, {"lwork"}) /\ g.live = q.live
  <2>1. Data({"lwork"})
    BY DEF Data
  <2> QED
    BY <1>4, <1>5, <2>1, SetSound
<1>7. g.err = none => h.err = none /\ q.err = none /\ q.info = 0 /\ q.lwork = h.lwork
  BY <1>4, <1>6 DEF Step, Same, Fields
<1>8. g.err = none => g.lwork = take_maxwork(0, o.work)
  <2>1. take_maxwork(0, o.work) \in Nat
    BY DEF take_maxwork, wi, FactorCall, IsOutcome
  <2> QED
    BY <1>5, <1>7, <2>1 DEF max_i
<1>9. g.err = none => g.m = h.m /\ g.n = h.n /\ g.min = h.min
  BY <1>4, <1>6, <1>7 DEF Step, Same, Fields
<1> QED
  BY <1>6, <1>7, <1>8, <1>9 DEF HasFactor

\* A routine of LAPACK leaves the matrix as it is.
LEMMA FactorLapack ==
  ASSUME NEW x, NEW column, NEW E, NEW h, NEW P, NEW n, NEW valid, NEW needs,
         NEW info, info \in Nat, valid \in BOOLEAN,
         Sound(h, P, E, n), HasFactor(h, x, column, E),
         h.err = none => valid,
         NEW g, g = Lapack(h, valid, needs, info)
  PROVE  /\ Sound(g, P, E, n) /\ HasFactor(g, x, column, E) /\ Step(h, g, {"info"})
<1>1. Sound(g, P, E, n) /\ Step(h, g, {"info"})
  BY LapackSound
<1>2. g.err = none => h.err = none /\ g.m = h.m /\ g.n = h.n /\ g.min = h.min
  BY <1>1 DEF Step, Same, Fields
<1> QED
  BY <1>1, <1>2 DEF HasFactor

\* The buffers of mqr: the workspace, tau and ipiv if there are pivots.
LEMMA MqrParts ==
  ASSUME NEW x, NEW pivot, pivot \in BOOLEAN, NEW o, NEW E,
         FactorCall(x, "square", o, E),
         NEW f, f = SetMin(take_matrix(Heap0, x, A, 0, "square")),
         NEW k, k = mqr_tau(mqr_work(f, o)),
         NEW g, g = mqr_ipiv(k, pivot)
  PROVE  /\ Sound(g, With(With(With(With({}, "a"), "w"), "tau"), "ipiv"), E, 5)
         /\ HasFactor(g, x, "square", E)
         /\ g.err = none => g.lwork \in Nat \ {0}
<1> DEFINE f1 == mqr_query(f, o)
           f2 == mqr_query(f1, o)
           f3 == mqr_work(f, o)
           t == alloc_T(f3, "tau", "min", 1)
           u == alloc_T(k, "ipiv", "n", 1)
           P == With({}, "a")
           Q == With(P, "w")
           R == With(Q, "tau")
           l == take_maxwork(0, o.work)
<1>0. /\ 2 < alloc_max /\ 3 < alloc_max /\ 4 < alloc_max /\ 5 < alloc_max
      /\ "w" \notin P /\ "tau" \notin Q /\ "ipiv" \notin R
      /\ "lwork" \in Ints /\ "min" \in Ints /\ "n" \in Ints
  BY CallsAssumption DEF With, Ints
<1>1. Running
  BY DEF FactorCall, MatrixCall
<1>2. l \in Nat \ {0} /\ Limited(l, 1, E)
  <2>1. max_size \in Nat /\ max_size >= wi /\ wi \in Nat \ {0}
    BY CallsAssumption DEF wi
  <2>2. o.work \in Nat \ {0} /\ (o.work >= wi => "limit" \in E)
    BY DEF FactorCall, IsOutcome
  <2>3. l \in Nat \ {0} /\ (l >= wi => "limit" \in E)
    BY <2>1, <2>2 DEF take_maxwork
  <2> HIDE DEF l
  <2> QED
    BY <2>1, <2>3 DEF Limited
<1>3. /\ Sound(f, P, E, 2) /\ HasFactor(f, x, "square", E)
      /\ f.err = none => f.lwork = 0
  BY FactorTaken
<1>4. /\ f3 = alloc_T(f2, "w", "lwork", 1)
      /\ k = Shrink(t, "min", "n")
      /\ g = (IF pivot THEN Shrink(u, "n", "min") ELSE k)
  BY DEF mqr_work, mqr_tau, mqr_ipiv, alloc_F
<1> HIDE DEF P, Q, R, f1, f2, f3, t, u
<1>5. /\ Sound(f1, P, E, 2) /\ HasFactor(f1, x, "square", E)
      /\ f1.err = none => f1.lwork = l
  BY <1>3, MqrQuery DEF f1
<1>6. /\ Sound(f2, P, E, 2) /\ HasFactor(f2, x, "square", E)
      /\ f2.err = none => f2.lwork = l
  BY <1>5, MqrQuery DEF f2
<1> HIDE DEF l
<1>7. /\ Sound(f3, Q, E, 3) /\ HasFactor(f3, x, "square", E)
      /\ Grown(f2, f3)
  <2>1. f2.err = none => Limited(f2["lwork"], 1, E) /\ f2["lwork"] # 0
    BY <1>2, <1>6
  <2>2. /\ Sound(f3, With(P, "w"), E, 2 + 1) /\ HasFactor(f3, x, "square", E)
        /\ Grown(f2, f3)
    BY <1>0, <1>1, <1>4, <1>6, <2>1, FactorAlloc
  <2> QED
    BY <2>2 DEF Q
<1>8. /\ Sound(k, R, E, 4) /\ HasFactor(k, x, "square", E)
      /\ Grown(f3, k)
  <2>1. f3.err = none => Limited(f3["min"], 1, E) /\ f3["min"] # 0
    BY <1>7 DEF HasFactor
  <2>2. t = alloc_T(f3, "tau", "min", 1)
    BY DEF t
  <2>3. /\ Sound(k, With(Q, "tau"), E, 3 + 1) /\ HasFactor(k, x, "square", E)
        /\ Grown(f3, k)
    BY <1>0, <1>1, <1>4, <1>7, <2>1, <2>2, FactorAlloc
  <2> QED
    BY <2>3 DEF R
<1>9. k.err = none => k.lwork = l
  <2>1. k.err = none => f3.err = none /\ f2.err = none
    BY <1>7, <1>8 DEF Grown, Step
  <2>2. k.err = none => k.lwork = f3.lwork /\ f3.lwork = f2.lwork
    BY <1>7, <1>8, <2>1 DEF Grown, Step, Same, Fields
  <2> QED
    BY <1>6, <2>1, <2>2
<1>10. CASE pivot
  <2>1. k.err = none => Limited(k["n"], 1, E) /\ k["n"] # 0
    BY <1>8 DEF HasFactor
  <2>2. g = Shrink(u, "n", "min") /\ u = alloc_T(k, "ipiv", "n", 1)
    BY <1>4, <1>10 DEF u
  <2>3. /\ Sound(g, With(R, "ipiv"), E, 4 + 1) /\ HasFactor(g, x, "square", E)
        /\ Grown(k, g)
    BY <1>0, <1>1, <1>8, <2>1, <2>2, FactorAlloc
  <2>4. g.err = none => k.err = none /\ g.lwork = k.lwork
    BY <2>3 DEF Grown, Step, Same, Fields
  <2> QED
    BY <1>2, <1>9, <2>3, <2>4 DEF R, Q, P
<1>11. CASE ~pivot
  <2>1. g = k
    BY <1>4, <1>11
  <2>2. Sound(g, With(R, "ipiv"), E, 4 + 1)
    BY <1>8, <2>1, SoundMore
  <2> QED
    BY <1>2, <1>8, <1>9, <2>1, <2>2 DEF R, Q, P
<1> QED
  BY <1>10, <1>11

\* mqr ends as it should, with pivots and without.
LEMMA MqrEnds ==
  ASSUME NEW x, NEW pivot, pivot \in BOOLEAN, NEW o, NEW E,
         FactorCall(x, "square", o, E)
  PROVE  Ends(mqr(x, pivot, o), E, MatrixError(x))
<1> DEFINE f == SetMin(take_matrix(Heap0, x, A, 0, "square"))
           k == mqr_tau(mqr_work(f, o))
           h == mqr_ipiv(k, pivot)
           f1 == geqrf(h, pivot)
           g == orgqr(f1)
           q == make_matrix(Buf(g, "a"), g.m, g.m, g.m, "matrix")
           r == make_matrix(Buf(g, "a"), g.m, g.m, g.n, "upper")
           result == Vec(0, IF pivot THEN <<q, r, permutation(g.n, o)>> ELSE <<q, r>>)
           upper == Uses(g, [a |-> g.m * g.n, ipiv |-> IF pivot THEN g.n ELSE 0])
           read == Uses(upper, [a |-> g.m * g.m])
           P == With(With(With(With({}, "a"), "w"), "tau"), "ipiv")
           F == {"ipiv", "w", "tau", "a"}
           needs == [a |-> h.m * h.n, tau |-> min_i(h.m, h.n), w |-> h.lwork,
                     ipiv |-> IF pivot THEN h.n ELSE 0]
           valid == h.m >= 1 /\ h.lwork >= 1
           needs1 == [a |-> f1.m * f1.m, tau |-> f1.min, w |-> f1.lwork]
           valid1 == f1.m >= 1 /\ f1.lwork >= 1
<1>0. P \subseteq F /\ 5 < alloc_max
  BY CallsAssumption DEF With
<1>1. /\ Sound(h, P, E, 5) /\ HasFactor(h, x, "square", E)
      /\ h.err = none => h.lwork \in Nat \ {0}
  BY MqrParts
<1>2. mqr(x, pivot, o) = Done(Free(read, F), result)
  BY DEF mqr, mqr_end
<1>3. result.t = 0
  BY DEF Vec
<1>4. /\ g = Lapack(f1, valid1, needs1, 0)
      /\ ~(~pivot /\ h.lwork = 0) => f1 = Lapack(h, valid, needs, 0)
      /\ (~pivot /\ h.lwork = 0) => f1 = check_info(h, h.info)
  BY DEF orgqr, geqrf
<1>5. h.err = none => valid
  BY <1>1 DEF HasFactor
<1>6. valid \in BOOLEAN /\ 0 \in Nat /\ valid1 \in BOOLEAN
  OBVIOUS
<1> HIDE DEF f, k, h, f1, g, q, r, result, upper, read, P, F, valid, needs
<1>7. /\ Sound(f1, P, E, 5) /\ HasFactor(f1, x, "square", E)
      /\ f1.err = none => Step(h, f1, {"info"})
  <2>1. CASE ~(~pivot /\ h.lwork = 0)
    <3>1. f1 = Lapack(h, valid, needs, 0)
      BY <1>4, <2>1
    <3> QED
      BY <1>1, <1>5, <1>6, <3>1, FactorLapack
  <2>2. CASE ~pivot /\ h.lwork = 0
    <3>1. f1 = check_info(h, h.info) /\ h.err # none
      BY <1>1, <1>4, <2>2
    <3> DEFINE e == IF h.info = -7 THEN "wsfull" ELSE "qml_assert"
    <3>2. f1 = h \/ f1 = Err(h, e)
      BY <3>1 DEF check_info
    <3>3. e # none
      BY DEF none
    <3> HIDE DEF e
    <3>4. Sound(f1, P, E, 5) /\ f1.err # none
      <4>1. CASE f1 = h
        BY <1>1, <3>1, <4>1
      <4>2. CASE f1 = Err(h, e)
        BY <1>1, <3>1, <3>3, <4>2, ErrSound
      <4> QED
        BY <3>2, <4>1, <4>2
    <3> QED
      BY <3>4 DEF HasFactor
  <2> QED
    BY <2>1, <2>2
<1>8. f1.err = none => valid1
  <2>1. f1.err = none => h.err = none /\ f1.lwork = h.lwork
    BY <1>7 DEF Step, Same, Fields
  <2> QED
    BY <1>1, <1>7, <2>1 DEF HasFactor
<1> HIDE DEF valid1, needs1
<1>9. Sound(g, P, E, 5) /\ HasFactor(g, x, "square", E)
  <2>1. Sound(f1, P, E, 5) /\ HasFactor(f1, x, "square", E)
    BY <1>7
  <2>2. g = Lapack(f1, valid1, needs1, 0) /\ 0 \in Nat /\ valid1 \in BOOLEAN
    BY <1>4, <1>6
  <2> QED
    BY <1>8, <2>1, <2>2, FactorLapack
<1>10. g.err = none => MatrixError(x) = none
  BY <1>9 DEF HasFactor
<1>11. DOMAIN upper = Fields /\ Same(g, upper, {})
  BY <1>9, UsesSame DEF Sound, upper
<1>12. DOMAIN read = Fields /\ Same(g, read, {})
  BY <1>11, UsesSame DEF Same, read
<1> QED
  BY <1>0, <1>2, <1>3, <1>9, <1>10, <1>12, DoneEnds

-----------------------------------------------------------------------------
(* Least squares *)

\* An allocation changes one dimension at most.
LEMMA AllocKeeps ==
  ASSUME NEW h, DOMAIN h = Fields, NEW d \in Ints, NEW e \in Ints, e # d,
         NEW p, NEW m, NEW g, g = alloc_T(h, p, d, m)
  PROVE  DOMAIN g = Fields /\ g[e] = h[e]
<1> DEFINE f == alloc_TT(h, p, h[d], m)
           k == alloc(h, p, h[d] * m)
<1>1. e \in Fields /\ e \notin {"err", "live", "i"} /\ d \in Fields
  BY DEF Ints, Fields
<1>2. DOMAIN k = Fields /\ k[e] = h[e]
  BY <1>1 DEF alloc, Fields
<1>3. f \in {h, k, Err(h, "limit"), Err(k, "wsfull")}
  BY DEF alloc_TT, Require
<1> HIDE DEF k
<1>4. DOMAIN f = Fields /\ f[e] = h[e]
  BY <1>1, <1>2, <1>3 DEF Err, Fields
<1>5. g = f \/ g = [f EXCEPT ![d] = 0]
  BY DEF alloc_T
<1> HIDE DEF f
<1> QED
  BY <1>1, <1>4, <1>5

\* The width of a matrix is a number, even where it is not one.
LEMMA WidthIsNat ==
  ASSUME NEW x, IsValue(x), Running, NEW h, h = take_matrix(Heap0, x, A, 0, "no")
  PROVE  h.n \in Nat
<1> DEFINE k == convert_FF(x)
           ok == k # NULL /\ k.v # <<>> /\ Row(k, 0) # <<>>
           even == \A j \in DOMAIN k.v : Len(k.v[j].v) = Len(Row(k, 0))
           both == ok => even
           rows == IF ok /\ even THEN Len(k.v) ELSE 0
           cols == IF ok /\ even THEN Len(Row(k, 0)) ELSE 0
           f == [Heap0 EXCEPT !["m"] = 0]
           h1 == Require(Require(f, ok, "type"), both, "length")
           h3 == MatrixRows(f, k, A, "no")
           h4 == alloc_T(h3, "a", "nm", h3.m)
           h5 == Shrink(h4, "nm", "m")
           h6 == Shrink(h5, "nm", "n")
<1>1. h = FillMatrix(h6, k, A)
  BY DEF take_matrix, TakeMatrix, A, alloc_FF
<1>2. cols \in Nat
  <2>1. CASE ok
    <3>1. k # NULL /\ Rows(x) = k.v /\ k.v # <<>>
      BY <2>1 DEF Rows
    <3>2. Height(x) \in Nat /\ Height(x) > 0
          /\ \A j \in 1..Height(x) : Len(Rows(x)[j].v) \in Nat
      BY <3>1, RowsAreFloats
    <3>3. 1 \in 1..Height(x) /\ Row(k, 0) = Rows(x)[1].v
      BY <3>1, <3>2 DEF Row
    <3> QED
      BY <3>2, <3>3
  <2> QED
    BY <2>1
<1>3. h3 = [h1 EXCEPT !.m = rows, !.n = cols, !.m = max_i(f.m, rows), !.nm = cols]
  BY DEF MatrixRows, A
<1>4. DOMAIN h1 = Fields
  BY DEF Require, Err, Heap0, Fields
<1> HIDE DEF h1, cols, rows
<1>5. DOMAIN h3 = Fields /\ h3.n = cols
  BY <1>3, <1>4 DEF Fields
<1> HIDE DEF h3
<1>6. DOMAIN h4 = Fields /\ h4.n = cols
  <2>1. "nm" \in Ints /\ "n" \in Ints /\ "n" # "nm"
    BY DEF Ints
  <2>2. DOMAIN h4 = Fields /\ h4["n"] = h3["n"]
    BY <1>5, <2>1, AllocKeeps
  <2> QED
    BY <1>5, <2>2
<1> HIDE DEF h4
<1>7. DOMAIN h5 = Fields /\ h5.n = cols
  BY <1>6 DEF Shrink, Fields
<1> HIDE DEF h5
<1>8. DOMAIN h6 = Fields /\ h6.n \in Nat
  BY <1>2, <1>7 DEF Shrink, Fields
<1> HIDE DEF h6
<1> DEFINE needs == [p \in {"a"} |-> h6.n * h6.m]
           u == Uses(h6, needs)
           data == [o \in 0..(h6.nm * h6.m - 1) |->
                       IF o % h6.m < h6.m /\ o \div h6.m < h6.n
                       THEN Row(k, o % h6.m)[(o \div h6.m) + 1] ELSE Unknown]
<1>9. h = [u EXCEPT !.column = FALSE, !["a"] = data]
  BY <1>1 DEF FillMatrix, A
<1> HIDE DEF needs, data
<1>10. DOMAIN u = Fields /\ u.n = h6.n
  BY <1>8, UsesSame DEF Same, Fields
<1> HIDE DEF u
<1> QED
  BY <1>8, <1>9, <1>10 DEF Fields

\* The arguments of mlsq.
LeastCall(x, y, o, E) ==
    /\ MatrixCall(x, "no", E) /\ IsValue(y) /\ IsOutcome(o)
    /\ LeastError(x, y) # none => LeastError(x, y) \in E
    /\ MatrixError(x) = none => SideLimited(y, Width(x), E)
    /\ o.work >= wi => "limit" \in E

\* The buffers a and b of a least squares problem, unless an error is to be
\* reported.
HasLeast(h, x, y, E) ==
    h.err = none =>
       /\ LeastError(x, y) = none
       /\ h.m \in Nat \ {0} /\ h.n \in Nat \ {0} /\ h.b_n \in Nat \ {0}
       /\ h.ldb = max_i(h.n, h.m)
       /\ Limited(h.n, 1, E) /\ Limited(h.m, 1, E)

\* mlsq takes a matrix and a right side that has room for the solution.
LEMMA LeastTaken ==
  ASSUME NEW x, NEW y, NEW o, NEW E, LeastCall(x, y, o, E),
         NEW h, h = take_matrix(Heap0, x, A, 0, "no"),
         NEW f, f = mlsq_right(h, y),
         NEW g, g = mlsq_length(f)
  PROVE  Sound(g, With(With({}, "a"), "b"), E, 3) /\ HasLeast(g, x, y, E)
<1> DEFINE P == With({}, "a")
           Q == With(P, "b")
           v == Right
           d == h.n
<1>0. 2 < alloc_max /\ "b" \notin P
  BY CallsAssumption DEF With
<1>1. Running /\ IsValue(x) /\ IsValue(y) /\ MatrixCall(x, "no", E)
  BY DEF LeastCall, MatrixCall
<1>2. Sound(h, P, E, 2) /\ HasMatrix(h, x, "no", E)
  BY <1>1, MatrixTaken
<1>3. d \in Nat
  BY <1>1, WidthIsNat
<1>4. /\ f = take_matrix(h, y, v, d, "ask")
      /\ v.m = "b_m" /\ v.n = "b_n" /\ v.ldr = "ldb" /\ v.a = "b"
      /\ Place(v, d)
  BY <1>3 DEF mlsq_right, Right, B, Place
<1> HIDE DEF P, Q, v, d
<1>5. /\ Took(h, f, P, E, 2, v)
      /\ f.err = none =>
              /\ SideError(y) = none
              /\ Holds(f, v, d, SideLen(y), SideWidth(y))
  <2>1. h.err = none /\ SideError(y) # none => SideError(y) \in E
    BY <1>2 DEF LeastCall, LeastError, Then, HasMatrix
  <2>2. h.err = none => SideLimited(y, d, E)
    BY <1>2 DEF LeastCall, HasMatrix, d
  <2>3. v.a \notin P /\ 2 \in Nat
    BY <1>0, <1>4
  <2> QED
    BY <1>0, <1>1, <1>2, <1>4, <2>1, <2>2, <2>3, TakeSide
<1>6. Sound(f, Q, E, 3)
  <2>1. Sound(f, With(P, v.a), E, 2 + 1)
    BY <1>5 DEF Took
  <2> QED
    BY <1>4, <2>1 DEF Q
<1>7. f.err = none => h.err = none /\ f.m = h.m /\ f.n = h.n
  <2>1. "m" \notin Parts(v) /\ "n" \notin Parts(v) /\ "m" \in Fields /\ "n" \in Fields
    BY <1>4 DEF Parts, Fields
  <2>2. f.err = none => h.err = none /\ Same(h, f, Parts(v))
    BY <1>5 DEF Took, Step
  <2> QED
    BY <1>4, <2>1, <2>2 DEF Same
<1>8. f.err = none => /\ f.b_m = SideLen(y) /\ f.b_n = SideWidth(y)
                      /\ f.ldb = max_i(f.n, f.b_m)
                      /\ f.b_n \in Nat \ {0} /\ f.b_m \in Nat
  BY <1>1, <1>4, <1>5, <1>7, SideShape DEF Holds, d
<1>9. Sound(g, Q, E, 3) /\ (g.err = none => g = f /\ f.m = f.b_m)
  <2> DEFINE ok == f.m = f.b_m
  <2>1. /\ ok \in BOOLEAN /\ "length" # none
        /\ f.err = none /\ ~ok => "length" \in E
    BY <1>2, <1>5, <1>7, <1>8
       DEF LeastCall, LeastError, Then, HasMatrix, none, Unequal, LengthError
  <2>2. g = Require(f, ok, "length")
    BY DEF mlsq_length
  <2> HIDE DEF ok
  <2>3. Sound(g, Q, E, 3) /\ (g.err = none => ok /\ g = f)
    BY <1>6, <2>1, <2>2, RequireSound
  <2> QED
    BY <2>3 DEF ok
<1>10. HasLeast(g, x, y, E)
  <2> SUFFICES ASSUME g.err = none PROVE HasLeast(g, x, y, E)
    BY DEF HasLeast
  <2>1. g = f /\ f.err = none /\ h.err = none /\ f.m = f.b_m
    BY <1>7, <1>9
  <2>2. /\ MatrixError(x) = none /\ f.m = Height(x) /\ f.n = Width(x)
        /\ f.m \in Nat \ {0} /\ f.n \in Nat \ {0}
        /\ Limited(f.m, 1, E) /\ Limited(f.n, 1, E)
    BY <1>2, <1>7, <2>1 DEF HasMatrix, Room
  <2>3. LeastError(x, y) = none
    BY <1>5, <1>8, <2>1, <2>2 DEF LeastError, Then, Unequal, LengthError
  <2>4. f.ldb = max_i(f.n, f.m)
    BY <1>8, <2>1
  <2> QED
    BY <1>8, <2>1, <2>2, <2>3, <2>4 DEF HasLeast
<1> QED
  BY <1>9, <1>10 DEF Q, P

\* The workspace of gelsd, and the number of singular values.
LEMMA SizesSound ==
  ASSUME NEW x, NEW y, NEW o, NEW E, LeastCall(x, y, o, E), NEW h, NEW P,
         Sound(h, P, E, 4), HasLeast(h, x, y, E), "s" \notin P, "iw" \notin With(P, "s"),
         NEW f, f = mlsq_svs(mlsq_sizes(h, o)),
         NEW g, g = alloc_F(f, "iw", "liwork")
  PROVE  /\ Sound(g, With(With(P, "s"), "iw"), E, 6)
         /\ Step(h, g, {"live", "i", "min", "liwork"})
<1> DEFINE h1 == mlsq_sizes(h, o)
           h2 == alloc_T(h1, "s", "min", 1)
           l == take_maxwork(0, o.work)
           X == {"min", "liwork"}
           Q == With(P, "s")
<1>0. /\ 4 < alloc_max /\ 5 < alloc_max /\ "iw" \notin Q /\ "iw" # "s"
      /\ "min" \in Ints /\ "n" \in Ints /\ "liwork" \in Ints
  BY CallsAssumption DEF Ints
<1>1. Running
  BY DEF LeastCall, MatrixCall
<1>2. l \in Nat \ {0} /\ Limited(l, 1, E)
  <2>1. max_size \in Nat /\ max_size >= wi /\ wi \in Nat \ {0}
    BY CallsAssumption DEF wi
  <2>2. o.work \in Nat \ {0} /\ (o.work >= wi => "limit" \in E)
    BY DEF LeastCall, IsOutcome
  <2>3. l \in Nat \ {0} /\ (l >= wi => "limit" \in E)
    BY <2>1, <2>2 DEF take_maxwork
  <2> HIDE DEF l
  <2> QED
    BY <2>1, <2>3 DEF Limited
<1>3. /\ f = Shrink(h2, "min", "n") /\ g = alloc_T(f, "iw", "liwork", 1)
      /\ h1 = [h EXCEPT !.min = min_i(h.m, h.n), !.liwork = l]
  BY DEF mlsq_svs, mlsq_sizes, alloc_F
<1> HIDE DEF h1, h2, l, Q
<1>4. /\ DOMAIN h1 = Fields /\ Same(h, h1, X) /\ Data(X)
      /\ h1.min = min_i(h.m, h.n) /\ h1.liwork = l
  <2>1. DOMAIN h = Fields
    BY DEF Sound
  <2> QED
    BY <1>3, <2>1 DEF Same, Fields, Data
<1> HIDE DEF X
<1>5. Sound(h1, P, E, 4) /\ Step(h, h1, X) /\ h1.live = h.live
  BY <1>4, SetSound
<1>6. h1.err = none => h.err = none /\ h1.min \in Nat \ {0} /\ Limited(h1.min, 1, E)
  BY <1>4, <1>5 DEF Step, HasLeast, min_i
<1>7. Sound(h2, Q, E, 5) /\ Got(h1, h2, "s", h1["min"] * 1)
  <2>1. h1.err = none => Limited(h1["min"], 1, E)
    BY <1>6
  <2>2. Sound(h2, With(P, "s"), E, 4 + 1) /\ Got(h1, h2, "s", h1["min"] * 1)
    BY <1>0, <1>1, <1>5, <2>1, AllocTSound DEF h2
  <2> QED
    BY <2>2 DEF Q
<1>8. Sound(f, Q, E, 5) /\ Step(h2, f, {})
  <2>1. h2.err = none => h2["min"] # 0
    BY <1>6, <1>7 DEF Got, Step, Same, Fields
  <2> QED
    BY <1>0, <1>3, <1>7, <2>1, ShrinkSound, ZenonT(40)
<1>9. f.err = none => /\ h2.err = none /\ h1.err = none /\ h.err = none
                      /\ f["liwork"] = l /\ f.min = h1.min
  <2>1. f.err = none => h2.err = none /\ h1.err = none /\ h.err = none
    BY <1>5, <1>7, <1>8 DEF Got, Step
  <2>2. f.err = none => f["liwork"] = l /\ f.min = h1.min
    BY <1>4, <1>7, <1>8, <2>1 DEF Got, Step, Same, Fields
  <2> QED
    BY <2>1, <2>2
<1>10. Sound(g, With(Q, "iw"), E, 6) /\ Got(f, g, "iw", f["liwork"] * 1)
  <2>1. f.err = none => Limited(f["liwork"], 1, E)
    BY <1>2, <1>9
  <2>2. /\ Sound(g, With(Q, "iw"), E, 5 + 1)
        /\ Got(f, g, "iw", f["liwork"] * 1)
    BY <1>0, <1>1, <1>3, <1>8, <2>1, AllocTSound
  <2> QED
    BY <2>2
<1>11. g.err = none => f.err = none /\ g.liwork = l /\ g.min = h1.min
  BY <1>9, <1>10 DEF Got, Step, Same, Fields
<1>12. Step(h, g, {"live", "i", "min", "liwork"})
  BY <1>4, <1>7, <1>8, <1>9, <1>10, <1>11 DEF Got, Step, Same, X
<1> QED
  BY <1>10, <1>12 DEF Q

\* mlsq ends as it should, with singular values and without.
LEMMA MlsqEnds ==
  ASSUME NEW x, NEW y, NEW svd, svd \in BOOLEAN, NEW o, NEW E,
         LeastCall(x, y, o, E)
  PROVE  Ends(mlsq(x, y, svd, o), E, LeastError(x, y))
<1> DEFINE h == mlsq_length(mlsq_right(take_matrix(Heap0, x, A, 0, "no"), y))
           asked == mlsq_valid(h)
           f == mlsq_work(h, o)
           g == mlsq_solve(f, svd, o)
           k == make_matrix(Null(g.info, Buf(g, "b")), g.ldb, g.n, g.b_n, Form(g))
           read == Reads(g, [b |-> g.ldb * ReadColumns(g)])
           P == With(With({}, "a"), "b")
           Q == With(P, "w")
           F == {"iw", "s", "w", "a", "b"}
<1>0. /\ 3 < alloc_max /\ 4 < alloc_max /\ 6 < alloc_max
      /\ "w" \notin P /\ Q \subseteq F /\ "s" \notin Q /\ "iw" \notin With(Q, "s")
      /\ With(With(Q, "s"), "iw") \subseteq F
  BY CallsAssumption DEF With
<1>1. Sound(h, P, E, 3) /\ HasLeast(h, x, y, E)
  BY LeastTaken
<1>2. mlsq(x, y, svd, o) = Done(Free(read, F), k)
  BY DEF mlsq, mlsq_end
<1>3. k.t \in {-KF, 0, KF}
  BY MakeMatrixType
<1>4. Running /\ o.info \in Nat
  BY DEF LeastCall, MatrixCall, IsOutcome
<1>5. f = alloc_W(Query(h, asked), o.work)
  BY DEF mlsq_work
<1>6. asked \in BOOLEAN /\ (h.err = none => asked)
  BY <1>1 DEF HasLeast, mlsq_valid, max_i
<1> HIDE DEF h, asked, f, g, k, read, P, Q, F
<1>7. Sound(f, Q, E, 4) /\ Works(h, f)
  <2> DEFINE work == o.work
  <2>1. work \in Nat \ {0} /\ (work >= wi => "limit" \in E) /\ 3 \in Nat
        /\ f = alloc_W(Query(h, asked), work)
    BY <1>5 DEF LeastCall, IsOutcome
  <2> HIDE DEF work
  <2>2. Sound(f, With(P, "w"), E, 3 + 1) /\ Works(h, f)
    BY <1>0, <1>1, <1>4, <1>6, <2>1, WorkSound
  <2> QED
    BY <2>2 DEF Q
<1>8. f.err = none => h.err = none
  BY <1>7 DEF Works
<1>9. HasLeast(f, x, y, E)
  <2>1. f.err = none =>
           f.m = h.m /\ f.n = h.n /\ f.b_n = h.b_n /\ f.ldb = h.ldb
    BY <1>7 DEF Works, Same, Fields
  <2> QED
    BY <1>1, <1>8, <2>1 DEF HasLeast
<1>10. f.err = none => f.lwork \in Nat \ {0}
  BY <1>7 DEF Works
<1>11. CASE ~(svd /\ f.info = 0)
  <2> DEFINE needs == [a |-> f.m * f.n, b |-> f.ldb * f.b_n, w |-> f.lwork]
             valid == mlsq_valid(f) /\ f.lwork >= 1
  <2>1. g = Lapack(f, valid, needs, o.info)
    BY <1>11 DEF g, mlsq_solve, gels
  <2>2. f.err = none => valid
    BY <1>9, <1>10 DEF HasLeast, mlsq_valid, max_i
  <2>3. valid \in BOOLEAN
    BY DEF mlsq_valid
  <2> HIDE DEF needs, valid
  <2>4. Sound(g, Q, E, 4) /\ Step(f, g, {"info"})
    BY <1>4, <1>7, <2>1, <2>2, <2>3, LapackSound
  <2>5. g.err = none => LeastError(x, y) = none
    BY <1>9, <2>4 DEF Step, HasLeast
  <2>6. DOMAIN read = Fields /\ Same(g, read, {})
    BY <2>4, ReadsSame DEF Sound, read
  <2> QED
    BY <1>0, <1>2, <1>3, <2>4, <2>5, <2>6, DoneEnds
<1>12. CASE svd /\ f.info = 0
  <2> DEFINE s == mlsq_svs(mlsq_sizes(f, o))
             u == alloc_F(s, "iw", "liwork")
             needs == [a |-> u.m * u.n, b |-> u.ldb * u.b_n,
                       s |-> min_i(u.m, u.n), iw |-> u.liwork, w |-> u.lwork]
             valid == TRUE
             R == With(With(Q, "s"), "iw")
             X == {"live", "i", "min", "liwork"}
  <2>1. g = IF u.err # none THEN u ELSE Lapack(u, valid, needs, o.info)
    BY <1>12 DEF g, mlsq_solve, gelsd
  <2>2. Sound(u, R, E, 6) /\ Step(f, u, X)
    BY <1>0, <1>7, <1>9, SizesSound
  <2>3. u.err = none => f.err = none
    BY <2>2 DEF Step
  <2>4. u.err = none => valid
    OBVIOUS
  <2>5. valid \in BOOLEAN
    OBVIOUS
  <2>6. R \subseteq F
    BY <1>0
  <2> HIDE DEF needs, valid, u, s, R, X
  <2>7. Sound(g, R, E, 6) /\ (g.err = none => u.err = none)
    <3>1. CASE u.err # none
      BY <2>1, <2>2, <3>1
    <3>2. CASE u.err = none
      <4>1. g = Lapack(u, valid, needs, o.info)
        BY <2>1, <3>2
      <4>2. Sound(g, R, E, 6) /\ Step(u, g, {"info"})
        BY <1>4, <2>2, <2>4, <2>5, <4>1, LapackSound
      <4> QED
        BY <3>2, <4>2
    <3> QED
      BY <3>1, <3>2
  <2>8. g.err = none => LeastError(x, y) = none
    BY <1>9, <2>3, <2>7 DEF HasLeast
  <2>9. DOMAIN read = Fields /\ Same(g, read, {})
    BY <2>7, ReadsSame DEF Sound, read
  <2> QED
    BY <1>0, <1>2, <1>3, <2>6, <2>7, <2>8, <2>9, DoneEnds
<1> QED
  BY <1>11, <1>12

\* mlsx and mlsqx check their options first.
LEMMA MlsxEnds ==
  ASSUME NEW opts, NEW x, NEW y, NEW o, NEW E, NEW e,
         e = Then(OptError(opts, ls_opt), SystemError(x, y)),
         Running, OptError(opts, ls_opt) # none => "opt" \in E,
         OptError(opts, ls_opt) = none => SystemCall(x, y, o, E)
  PROVE  Ends(qml_mlsx(opts, x, y, o), E, e)
<1> DEFINE t == Taken(opts, ls_opt)
           equi == t.v[1] = 1
<1>1. CASE t.ok
  <2>1. OptError(opts, ls_opt) = none /\ e = SystemError(x, y)
    BY <1>1 DEF OptError, Then
  <2>2. equi \in BOOLEAN
    OBVIOUS
  <2>3. qml_mlsx(opts, x, y, o) = mls(x, y, equi, o)
    BY <1>1 DEF qml_mlsx
  <2> HIDE DEF equi
  <2> QED
    BY <2>1, <2>2, <2>3, MlsEnds
<1>2. CASE ~t.ok
  <2>1. OptError(opts, ls_opt) = "opt" /\ "opt" # none
    BY <1>2 DEF OptError, none
  <2>2. qml_mlsx(opts, x, y, o) = Done(Heap0, Krr("opt"))
    BY <1>2 DEF qml_mlsx
  <2>3. Sound(Heap0, {}, E, 1) /\ Heap0.err = none
    BY StartSound
  <2> QED
    BY <2>1, <2>2, <2>3, CallsAssumption DEF Ends, Done, check_err, Krr, Sound, NULL
<1> QED
  BY <1>1, <1>2

\* qml_mlsqx, which reads its options before anything is allocated.
LEMMA MlsqxEnds ==
  ASSUME NEW opts, NEW x, NEW y, NEW o, NEW E, NEW e,
         e = Then(OptError(opts, lsq_opt), LeastError(x, y)),
         Running, OptError(opts, lsq_opt) # none => "opt" \in E,
         OptError(opts, lsq_opt) = none => LeastCall(x, y, o, E)
  PROVE  Ends(qml_mlsqx(opts, x, y, o), E, e)
<1> DEFINE t == Taken(opts, lsq_opt)
           svd == t.v[1] = 1
<1>1. CASE t.ok
  <2>1. OptError(opts, lsq_opt) = none /\ e = LeastError(x, y)
    BY <1>1 DEF OptError, Then
  <2>2. svd \in BOOLEAN
    OBVIOUS
  <2>3. qml_mlsqx(opts, x, y, o) = mlsq(x, y, svd, o)
    BY <1>1 DEF qml_mlsqx
  <2> HIDE DEF svd
  <2> QED
    BY <2>1, <2>2, <2>3, MlsqEnds
<1>2. CASE ~t.ok
  <2>1. OptError(opts, lsq_opt) = "opt" /\ "opt" # none
    BY <1>2 DEF OptError, none
  <2>2. qml_mlsqx(opts, x, y, o) = Done(Heap0, Krr("opt"))
    BY <1>2 DEF qml_mlsqx
  <2>3. Sound(Heap0, {}, E, 1) /\ Heap0.err = none
    BY StartSound
  <2> QED
    BY <2>1, <2>2, <2>3, CallsAssumption DEF Ends, Done, check_err, Krr, Sound, NULL
<1> QED
  BY <1>1, <1>2

-----------------------------------------------------------------------------
(* Polynomials *)

\* The argument x of poly, and the errors it may report.
PolyCall(x, o, E) ==
    /\ Running /\ IsOutcome(o)
    /\ "type" \in E /\ "length" \in E /\ "roots" \in E /\ "limit" \in E
    /\ Nested(x) # NULL /\ Nested(x).t # -KF =>
          Nested(x).v = <<>> \/ Len(Nested(x).v) \in Nat \ {0}

\* Where add_size does not say how many items there are, a buffer of n times
\* as many is too large.
LEMMA CompanionFits ==
  ASSUME NEW n, n \in Nat \ {0}, NEW u, u \in {1, 2}, n < wi,
         n * add_size(0, n, u) <= max_size
  PROVE  add_size(0, n, u) = n * u
<1>1. max_size < wi * ((wi \div 2) + 1) /\ max_size \in Nat
  BY CallsAssumption DEF wi
<1>0. n * u \in Int /\ 0 + n * u = n * u
  OBVIOUS
<1>2. CASE u = 1
  <2>1. n <= (wi - 0) \div 1
    BY <1>2 DEF wi
  <2> QED
    BY <1>0, <1>2, <2>1 DEF add_size
<1>3. CASE u = 2
  <2>1. CASE n <= (wi - 0) \div 2
    BY <1>0, <1>3, <2>1 DEF add_size
  <2>2. CASE ~(n <= (wi - 0) \div 2)
    <3>1. add_size(0, n, u) = wi
      BY <1>3, <2>2 DEF add_size
    <3>2. n * wi <= max_size
      BY <3>1
    <3> QED
      BY <1>1, <2>2, <3>2 DEF wi
  <2> QED
    BY <2>1, <2>2
<1> QED
  BY <1>2, <1>3

\* A number of roots is to be found, unless an error is to be reported.
HasPoly(h) == h.err = none => h.n \in Nat \ {0}

\* Another allocation leaves the number of roots as it is.
LEMMA PolyAlloc ==
  ASSUME NEW E, NEW h, NEW P, NEW n \in Nat, NEW p, NEW m, Running,
         "limit" \in E, Sound(h, P, E, n), HasPoly(h), n < alloc_max,
         p \notin P, h.err = none => m \in Nat \ {0},
         NEW g, g = alloc_T(h, p, "n", m)
  PROVE  /\ Sound(g, With(P, p), E, n + 1) /\ HasPoly(g)
         /\ Step(h, g, {"live", "i"})
<1>1. "n" \in Ints /\ (h.err = none => Limited(h["n"], m, E))
  BY DEF Ints, HasPoly, Limited
<1>2. Sound(g, With(P, p), E, n + 1) /\ Got(h, g, p, h["n"] * m)
  BY <1>1, AllocTSound
<1>3. g.err = none => h.err = none /\ g.n = h.n
  BY <1>2 DEF Got, Step, Same, Fields
<1> QED
  BY <1>2, <1>3 DEF HasPoly, Got

\* The buffers w, rwork and cm of poly.
LEMMA PolyParts ==
  ASSUME NEW x, NEW o, NEW E, PolyCall(x, o, E), NEW k, NEW h,
         Sound(h, {}, E, 1), HasPoly(h),
         NEW f, f = poly_work(h, k, o),
         NEW f1, f1 = poly_rwork(f, k),
         NEW g, g = poly_cm(f1, k)
  PROVE  /\ Sound(g, With(With(With({}, "w"), "rwork"), "cm"), E, 4) /\ HasPoly(g)
         /\ g.err = none => g.lwork \in Nat \ {0}
<1> DEFINE work == add_size(0, take_maxwork(0, o.work), one(k))
           valid == TRUE
           u == one(k)
           P == With({}, "w")
           Q == With(P, "rwork")
           R == With(Q, "cm")
           s == add_size(0, f1.n, u)
<1>0. /\ 1 < alloc_max /\ 2 < alloc_max /\ 3 < alloc_max
      /\ "w" \notin {} /\ "rwork" \notin P /\ "cm" \notin Q
  BY CallsAssumption DEF With
<1>1. Running /\ "limit" \in E
  BY DEF PolyCall
<1>2. u \in {1, 2}
  BY DEF one
<1>3. work \in Nat \ {0}
  <2>1. take_maxwork(0, o.work) \in Nat \ {0}
    BY DEF take_maxwork, wi, PolyCall, IsOutcome
  <2> HIDE DEF u
  <2> QED
    BY <1>2, <2>1 DEF add_size, wi, u
<1>4. f = alloc_W(Query(h, valid), work)
  BY DEF poly_work
<1>5. valid \in BOOLEAN /\ (h.err = none => valid) /\ 1 \in Nat
      /\ (work >= wi => "limit" \in E)
  BY <1>1
<1>6. /\ k.t = 0 => f1 = alloc_T(f, "rwork", "n", 2)
      /\ k.t # 0 => f1 = f
      /\ g = alloc_T(f1, "cm", "n", s)
  BY DEF poly_rwork, poly_cm
<1> HIDE DEF work, valid, u, P, Q, R, s
<1>7. Sound(f, P, E, 2) /\ Works(h, f)
  <2> DEFINE N == {}
  <2>1. Sound(h, N, E, 1) /\ "w" \notin N
    OBVIOUS
  <2> HIDE DEF N
  <2>2. Sound(f, With(N, "w"), E, 1 + 1) /\ Works(h, f)
    BY <1>0, <1>1, <1>3, <1>4, <1>5, <2>1, WorkSound
  <2> QED
    BY <2>2 DEF P, N
<1>8. HasPoly(f)
  BY <1>7 DEF Works, Same, Fields, HasPoly
<1>9. f.err = none => f.lwork \in Nat \ {0}
  BY <1>7 DEF Works
<1>10. /\ Sound(f1, Q, E, 3) /\ HasPoly(f1)
       /\ f1.err = none => f.err = none /\ f1.lwork = f.lwork
  <2>1. CASE k.t = 0
    <3>1. f1 = alloc_T(f, "rwork", "n", 2) /\ 2 \in Nat \ {0}
      BY <1>6, <2>1
    <3>2. /\ Sound(f1, With(P, "rwork"), E, 2 + 1) /\ HasPoly(f1)
          /\ Step(f, f1, {"live", "i"})
      BY <1>0, <1>1, <1>7, <1>8, <3>1, PolyAlloc
    <3> QED
      BY <3>2 DEF Q, Step, Same, Fields
  <2>2. CASE k.t # 0
    <3>1. f1 = f
      BY <1>6, <2>2
    <3>2. Sound(f1, With(P, "rwork"), E, 2 + 1)
      BY <1>7, <3>1, SoundMore
    <3> QED
      BY <1>8, <3>1, <3>2 DEF Q
  <2> QED
    BY <2>1, <2>2
<1>11. f1.err = none => s \in Nat \ {0}
  <2>1. f1.err = none => f1.n \in Nat \ {0}
    BY <1>10 DEF HasPoly
  <2> QED
    BY <1>2, <2>1 DEF s, add_size, wi
<1>12. Sound(g, R, E, 4) /\ HasPoly(g) /\ Step(f1, g, {"live", "i"})
  <2>1. /\ Sound(g, With(Q, "cm"), E, 3 + 1) /\ HasPoly(g)
        /\ Step(f1, g, {"live", "i"})
    BY <1>0, <1>1, <1>6, <1>10, <1>11, PolyAlloc
  <2> QED
    BY <2>1 DEF R
<1>13. g.err = none => f1.err = none /\ g.lwork = f1.lwork
  BY <1>12 DEF Step, Same, Fields
<1> QED
  BY <1>9, <1>10, <1>12, <1>13 DEF R, Q, P

\* poly ends with its roots or with an error that it may report.
LEMMA PolyEnds ==
  ASSUME NEW x, NEW o, NEW E, PolyCall(x, o, E)
  PROVE  Ends(qml_poly(x, o), E, none)
<1> DEFINE k == Nested(x)
           h == poly_start(k)
           f == poly_work(h, k, o)
           f1 == poly_rwork(f, k)
           f2 == poly_cm(f1, k)
           f3 == alloc_T(f2, "l", "n", 2)
           fc == companion(f3, k)
           f4 == poly_geev(fc, k, o)
           found == poly_found(f4)
           g == poly_roots(h, k, o)
           result == make_complex_vector([i \in 1..g.n |-> Unknown],
                                         [i \in 1..g.n |-> o.li[i]], g.n)
           read == Uses(g, [l |-> 2 * g.n])
           S == With(With(With(With({}, "w"), "rwork"), "cm"), "l")
           F == {"w", "cm", "rwork", "l"}
           needs == [cm |-> fc.n * (fc.n * one(k)), l |-> 2 * fc.n,
                     w |-> fc.lwork * one(k),
                     rwork |-> IF k.t = 0 THEN 2 * fc.n ELSE 0]
           valid == fc.n >= 1 /\ fc.lwork >= 1
<1>0. /\ 1 < alloc_max /\ 4 < alloc_max /\ 5 < alloc_max
      /\ "l" \notin With(With(With({}, "w"), "rwork"), "cm")
      /\ S \subseteq F /\ {} \subseteq F
  BY CallsAssumption DEF With
<1>1. Running /\ "limit" \in E /\ "roots" \in E /\ o.info \in Nat
  BY DEF PolyCall, IsOutcome
<1>2. Sound(Heap0, {}, E, 1) /\ Heap0.err = none
  BY <1>1, StartSound
<1>3. CASE poly_error(k) # none
  <2>1. poly_error(k) \in {"type", "length"}
    BY <1>3 DEF poly_error
  <2>2. qml_poly(x, o) = Done(Heap0, Krr(poly_error(k)))
    BY <1>3 DEF qml_poly
  <2>3. "type" # none /\ "length" # none /\ "type" \in E /\ "length" \in E
    BY DEF none, PolyCall
  <2> HIDE DEF k
  <2> QED
    BY <1>2, <2>1, <2>2, <2>3, CallsAssumption
       DEF Ends, Done, check_err, Krr, Sound, NULL
<1>4. CASE poly_error(k) = none
  <2>1. qml_poly(x, o) = Done(Free(read, F), result)
    BY <1>4 DEF qml_poly, poly_end
  <2>2. Len(k.v) \in Nat \ {0}
    <3>1. k # NULL /\ k.t # -KF /\ k.v # <<>>
      BY <1>4 DEF poly_error, none
    <3> QED
      BY <3>1 DEF PolyCall
  <2>3. result.t \in {-KF, 0, KF}
    BY DEF make_complex_vector, Vec
  <2>4. g = (IF h.n = 0 THEN h ELSE found)
    BY DEF poly_roots
  <2>5. f4 = Lapack(fc, valid, needs, o.info)
    BY DEF poly_geev
  <2> HIDE DEF g, read, result, F, S
  <2>6. Sound(h, {}, E, 1) /\ h.n \in Nat
    <3> DEFINE ok == Coef(k, 1) # <<0, 0>>
               r == Require(Heap0, ok, "roots")
               H == Heap0
               l == Len(k.v) - 1
               N == {}
    <3>1. ok \in BOOLEAN /\ "roots" # none /\ l \in Nat
      BY <2>2 DEF none
    <3>2. h = [r EXCEPT !.n = l]
      BY DEF poly_start
    <3>3. Sound(H, N, E, 1) /\ H.err = none /\ r = Require(H, ok, "roots")
      BY <1>2
    <3> HIDE DEF ok, r, H, l, N, h
    <3>4. Sound(r, N, E, 1)
      BY <1>1, <3>1, <3>3, RequireSound
    <3>5. DOMAIN h = Fields /\ Same(r, h, {"n"}) /\ h.n = l
      <4>1. DOMAIN r = Fields
        BY <3>4 DEF Sound
      <4> QED
        BY <3>2, <4>1 DEF Same, Fields
    <3>6. Data({"n"})
      BY DEF Data
    <3> QED
      BY <3>1, <3>4, <3>5, <3>6, SetSound DEF N
  <2>7. CASE h.n = 0
    <3>1. g = h
      BY <2>4, <2>7
    <3>2. Sound(g, {}, E, 1) /\ {} \subseteq F
      BY <2>6, <3>1
    <3> DEFINE N == {}
    <3>3. Sound(g, N, E, 1) /\ N \subseteq F
      BY <3>2
    <3> HIDE DEF N
    <3>4. DOMAIN read = Fields /\ Same(g, read, {})
      BY <3>3, UsesSame DEF Sound, read
    <3> QED
      BY <1>0, <2>1, <2>3, <3>3, <3>4, DoneEnds
  <2>8. CASE h.n # 0
    <3>1. g = found
      BY <2>4, <2>8
    <3>2. HasPoly(h)
      BY <2>6, <2>8 DEF HasPoly
    <3> HIDE DEF h, f3, fc, f4, k
    <3>3. /\ Sound(f2, With(With(With({}, "w"), "rwork"), "cm"), E, 4)
          /\ HasPoly(f2)
          /\ f2.err = none => f2.lwork \in Nat \ {0}
      BY <2>6, <3>2, PolyParts
    <3> DEFINE R == With(With(With({}, "w"), "rwork"), "cm")
    <3>4. Sound(f2, R, E, 4) /\ "l" \notin R /\ S = With(R, "l") /\ 2 \in Nat \ {0}
      BY <1>0, <3>3 DEF S
    <3>5. f3 = alloc_T(f2, "l", "n", 2)
      BY DEF f3
    <3> HIDE DEF f2, R
    <3>6. /\ Sound(f3, With(R, "l"), E, 4 + 1) /\ HasPoly(f3)
          /\ Step(f2, f3, {"live", "i"})
      BY <1>0, <1>1, <3>3, <3>4, <3>5, PolyAlloc
    <3>7. Sound(fc, S, E, 5) /\ Step(f3, fc, {})
      <4>1. Sound(f3, S, E, 5)
        BY <3>4, <3>6
      <4>2. DOMAIN fc = Fields /\ Same(f3, fc, {})
        BY <4>1, UsesSame DEF Sound, fc, companion
      <4> DEFINE N == {}
      <4>3. Same(f3, fc, N) /\ Data(N)
        BY <4>2 DEF Data
      <4> HIDE DEF N
      <4>4. Sound(fc, S, E, 5) /\ Step(f3, fc, N)
        BY <4>1, <4>2, <4>3, SetSound
      <4> QED
        BY <4>4 DEF N
    <3>8. fc.err = none => valid
      <4>1. fc.err = none => f3.err = none /\ fc.n = f3.n /\ fc.lwork = f3.lwork
        BY <3>7 DEF Step, Same, Fields
      <4>2. f3.err = none => f2.err = none /\ f3.lwork = f2.lwork
        BY <3>6 DEF Step, Same, Fields
      <4> QED
        BY <3>3, <3>6, <4>1, <4>2 DEF HasPoly
    <3>9. valid \in BOOLEAN
      OBVIOUS
    <3>10. f4 = Lapack(fc, valid, needs, o.info)
      BY <2>5
    <3> HIDE DEF valid, needs
    <3>11. Sound(f4, S, E, 5) /\ Step(fc, f4, {"info"})
      BY <1>1, <3>7, <3>8, <3>9, <3>10, LapackSound
    <3>12. Sound(g, S, E, 5)
      <4>1. CASE f4.info = 0
        BY <3>1, <3>11, <4>1 DEF poly_found
      <4>2. CASE f4.info # 0
        <5> DEFINE r == Err(f4, "roots")
        <5>1. g = [r EXCEPT !.n = 0] /\ "roots" # none
          BY <3>1, <4>2 DEF poly_found, none
        <5> HIDE DEF r
        <5>2. Sound(r, S, E, 5)
          BY <1>1, <3>11, <5>1, ErrSound DEF r
        <5>3. DOMAIN g = Fields /\ Same(r, g, {"n"})
          <6>1. DOMAIN r = Fields
            BY <5>2 DEF Sound
          <6> QED
            BY <5>1, <6>1 DEF Same, Fields
        <5>4. Data({"n"})
          BY DEF Data
        <5> QED
          BY <5>2, <5>3, <5>4, SetSound
      <4> QED
        BY <4>1, <4>2
    <3>13. DOMAIN read = Fields /\ Same(g, read, {})
      BY <3>12, UsesSame DEF Sound, read
    <3> QED
      BY <1>0, <2>1, <2>3, <3>12, <3>13, DoneEnds
  <2> QED
    BY <2>6, <2>7, <2>8
<1> QED
  BY <1>3, <1>4

-----------------------------------------------------------------------------
(* The calls of a session *)

\* The errors that a call may report, wsfull apart.
Reports(c) ==
    {ErrorOf(c)} \cup (IF c.o.work >= wi \/ TooLarge(c) THEN {"limit"} ELSE {})

\* A dimension of an argument, or the width of a vector.
IsDim(c, p) == p \in Nat /\ p \in Dims(c.x) \cup Dims(c.y) \cup Dims(c.z)
IsWidth(c, p) == IsDim(c, p) \/ p = 1

\* A buffer of a dimension times a constant is small enough, or limit may be
\* reported.
LEMMA DimSmall ==
  ASSUME NEW c, NEW p, NEW q, IsDim(c, p), q \in {1, 4, 8}
  PROVE  Limited(p, q, Reports(c))
<1>1. p \in Nat /\ q \in Nat
  BY DEF IsDim
<1>2. p >= wi \/ p * q > max_size => TooLarge(c)
  BY DEF IsDim, TooLarge
<1> QED
  BY <1>1, <1>2 DEF Limited, Reports

\* Two dimensions of arguments make a buffer small enough, or the call is one
\* for which limit may be reported.
LEMMA DimsSmall ==
  ASSUME NEW c, NEW p, NEW q, IsWidth(c, p), IsWidth(c, q)
  PROVE  Limited(p, q, Reports(c))
<1>0. max_size \in Nat /\ max_size >= wi /\ 1 < wi
  BY CallsAssumption DEF wi
<1>1. p \in Nat /\ q \in Nat
  BY DEF IsWidth, IsDim
<1>2. p >= wi \/ p * q > max_size => TooLarge(c)
  <2>1. CASE IsDim(c, p) /\ IsDim(c, q)
    BY <2>1 DEF IsDim, TooLarge
  <2>2. CASE IsDim(c, p) /\ q = 1
    BY <2>2 DEF IsDim, TooLarge
  <2>3. CASE p = 1 /\ IsDim(c, q)
    <3>1. p = 1 /\ IsDim(c, q)
      BY <2>3
    <3>2. ~(p >= wi)
      BY <1>0, <3>1 DEF wi
    <3>3. q * 1 > max_size => TooLarge(c)
      BY <3>1 DEF IsDim, TooLarge
    <3>4. p * q = q * 1
      BY <1>1, <3>1
    <3> DEFINE r == p * q
    <3>5. r > max_size => TooLarge(c)
      BY <3>3, <3>4
    <3> HIDE DEF r
    <3>6. p >= wi \/ r > max_size => TooLarge(c)
      BY <3>2, <3>5
    <3> QED
      BY <3>6 DEF r
  <2>4. CASE p = 1 /\ q = 1
    <3>1. p = 1 /\ q = 1 /\ p * q = 1
      BY <2>4
    <3>2. ~(p >= wi) /\ max_size > 1
      BY <1>0, <3>1 DEF wi
    <3> DEFINE r == p * q
    <3>3. r = 1
      BY <3>1
    <3> HIDE DEF r
    <3>4. ~(p >= wi \/ r > max_size)
      BY <1>0, <3>2, <3>3
    <3> QED
      BY <3>4 DEF r
  <2> QED
    BY <2>1, <2>2, <2>3, <2>4 DEF IsWidth
<1> QED
  BY <1>1, <1>2 DEF Limited, Reports

\* An argument of the call c.
IsArgument(c, x) == x = c.x \/ x = c.y \/ x = c.z

\* The dimensions of an argument are those TooLarge is about.
LEMMA ArgumentDims ==
  ASSUME NEW c \in Calls, NEW x, IsArgument(c, x)
  PROVE  /\ IsValue(x)
         /\ Listed(x) => IsDim(c, Height(x))
         /\ MatrixError(x) = none => IsDim(c, Height(x)) /\ IsDim(c, Width(x))
         /\ SideError(x) = none => IsDim(c, SideLen(x)) /\ IsWidth(c, SideWidth(x))
<1>1. IsValue(x)
  BY CallsAssumption DEF IsArgument
<1>2. \A p \in Nat : p \in Dims(x) => IsDim(c, p)
  BY DEF IsArgument, IsDim
<1>3. Listed(x) => IsDim(c, Height(x))
  <2>1. Listed(x) => Height(x) \in Nat /\ Height(x) \in Dims(x)
    BY <1>1, RowsAreFloats DEF Listed, Dims
  <2> QED
    BY <1>2, <2>1
<1>4. MatrixError(x) = none => IsDim(c, Height(x)) /\ IsDim(c, Width(x))
  <2> SUFFICES ASSUME MatrixError(x) = none
               PROVE  IsDim(c, Height(x)) /\ IsDim(c, Width(x))
    OBVIOUS
  <2>1. /\ convert_FF(x) # NULL
        /\ Height(x) \in Nat \ {0} /\ Width(x) \in Nat \ {0}
    BY <1>1, MatrixShape
  <2>2. DOMAIN Rows(x) = 1..Height(x)
    BY <1>1, <2>1, RowsAreFloats
  <2>3. 1 \in DOMAIN Rows(x) /\ Width(x) = Len(Rows(x)[1].v)
    BY <2>1, <2>2 DEF Width
  <2>4. Height(x) \in Dims(x) /\ Width(x) \in Dims(x)
    BY <2>1, <2>3 DEF Dims
  <2> QED
    BY <1>2, <2>1, <2>4
<1>5. SideError(x) = none => IsDim(c, SideLen(x)) /\ IsWidth(c, SideWidth(x))
  <2>1. CASE convert_F(x) # NULL
    <3>1. SideWidth(x) = 1 /\ SideLen(x) \in Dims(x)
      BY <2>1 DEF SideWidth, SideLen, Dims
    <3>2. SideError(x) = none => SideLen(x) \in Nat
      BY <1>1, SideShape
    <3> QED
      BY <1>2, <3>1, <3>2 DEF IsWidth
  <2>2. CASE convert_F(x) = NULL
    BY <1>4, <2>2 DEF SideError, SideLen, SideWidth, IsWidth
  <2> QED
    BY <2>1, <2>2
<1> QED
  BY <1>1, <1>3, <1>4, <1>5

\* The larger or the smaller of two dimensions is one.
LEMMA DimOfTwo ==
  ASSUME NEW c, NEW p, NEW q, IsDim(c, p), IsDim(c, q)
  PROVE  IsDim(c, max_i(p, q)) /\ IsDim(c, min_i(p, q))
BY DEF max_i, min_i

\* So a square matrix of an argument is small enough, or limit may be reported,
LEMMA SquareArgument ==
  ASSUME NEW c \in Calls, NEW x, IsArgument(c, x)
  PROVE  Listed(x) => Limited(Height(x), Height(x), Reports(c))
BY ArgumentDims, DimsSmall DEF IsWidth

\* and so is a right side.
LEMMA SideArgument ==
  ASSUME NEW c \in Calls, NEW y, IsArgument(c, y), NEW d,
         d = 0 \/ IsDim(c, d)
  PROVE  SideLimited(y, d, Reports(c))
<1>1. IsValue(y)
  BY ArgumentDims
<1>2. CASE convert_F(y) # NULL
  <2>1. SideError(y) = none
    BY <1>2 DEF SideError
  <2>2. IsDim(c, SideLen(y)) /\ SideLen(y) \in Nat
    BY <1>1, <2>1, ArgumentDims, SideShape
  <2>3. IsDim(c, max_i(d, SideLen(y)))
    <3>1. CASE d = 0
      BY <2>2, <3>1 DEF max_i
    <3>2. CASE IsDim(c, d)
      BY <2>2, <3>2, DimOfTwo
    <3> QED
      BY <3>1, <3>2
  <2>4. Limited(max_i(d, SideLen(y)), 1, Reports(c))
    BY <2>3, DimSmall
  <2> QED
    BY <1>2, <2>4 DEF SideLimited
<1>3. CASE convert_F(y) = NULL
  <2>1. SUFFICES ASSUME MatrixError(y) = none
                 PROVE  Limited(Width(y), max_i(d, Height(y)), Reports(c))
    BY <1>3 DEF SideLimited
  <2>2. IsDim(c, Height(y)) /\ IsDim(c, Width(y)) /\ Height(y) \in Nat
    BY <1>1, <2>1, ArgumentDims, MatrixShape
  <2>3. IsDim(c, max_i(d, Height(y)))
    <3>1. CASE d = 0
      BY <2>2, <3>1 DEF max_i
    <3>2. CASE IsDim(c, d)
      BY <2>2, <3>2, DimOfTwo
    <3> QED
      BY <3>1, <3>2
  <2> QED
    BY <2>2, <2>3, DimsSmall DEF IsWidth
<1> QED
  BY <1>2, <1>3

\* What every call of a session has in common.
LEMMA CallFacts ==
  ASSUME NEW c \in Calls
  PROVE  /\ IsOutcome(c.o)
         /\ c.o.work >= wi => "limit" \in Reports(c)
         /\ ErrorOf(c) \in Reports(c)
         /\ IsArgument(c, c.x) /\ IsArgument(c, c.y) /\ IsArgument(c, c.z)
         /\ IsValue(c.x) /\ IsValue(c.y) /\ IsValue(c.z)
BY CallsAssumption DEF Reports, IsArgument

\* The calls of a session meet what the lemmas about the functions ask for: a
\* square matrix,
LEMMA SquareCalls ==
  ASSUME NEW c \in Calls, Running, ErrorOf(c) = SquareError(c.x)
  PROVE  SquareCall(c.x, c.o, Reports(c))
BY CallFacts, SquareArgument DEF SquareCall

\* a matrix,
LEMMA MatrixArgument ==
  ASSUME NEW c \in Calls, Running, NEW x, IsArgument(c, x), NEW column, column # "ask",
         MatrixError(x) # none => MatrixError(x) \in Reports(c)
  PROVE  MatrixCall(x, column, Reports(c))
<1>1. IsValue(x)
  BY ArgumentDims
<1>2. ASSUME MatrixError(x) = none
      PROVE  /\ Limited(Room(x, column), Height(x), Reports(c))
             /\ Limited(Height(x), 1, Reports(c)) /\ Limited(Width(x), 1, Reports(c))
  <2>1. IsDim(c, Height(x)) /\ IsDim(c, Width(x))
    BY <1>2, ArgumentDims
  <2>2. IsDim(c, Room(x, column))
    BY <2>1, DimOfTwo DEF Room
  <2>3. Limited(Room(x, column), Height(x), Reports(c))
    BY <2>1, <2>2, DimsSmall DEF IsWidth
  <2> QED
    BY <2>1, <2>3, DimSmall
<1> QED
  BY <1>1, <1>2 DEF MatrixCall

\* a matrix to be factored,
LEMMA FactorCalls ==
  ASSUME NEW c \in Calls, Running, ErrorOf(c) = MatrixError(c.x),
         NEW column, column # "ask"
  PROVE  FactorCall(c.x, column, c.o, Reports(c))
<1>1. MatrixCall(c.x, column, Reports(c))
  BY CallFacts, MatrixArgument
<1>2. ASSUME MatrixError(c.x) = none
      PROVE  /\ Limited(Height(c.x), Height(c.x), Reports(c))
             /\ Limited(Width(c.x), Width(c.x), Reports(c))
             /\ Limited(min_i(Height(c.x), Width(c.x)), 8, Reports(c))
  <2>1. IsDim(c, Height(c.x)) /\ IsDim(c, Width(c.x))
    BY <1>2, ArgumentDims, CallFacts
  <2>2. IsDim(c, min_i(Height(c.x), Width(c.x)))
    BY <2>1, DimOfTwo
  <2> QED
    BY <2>1, <2>2, DimSmall, DimsSmall DEF IsWidth
<1> QED
  BY <1>1, <1>2, CallFacts DEF FactorCall

\* two to be multiplied,
LEMMA MmCalls ==
  ASSUME NEW c \in Calls, Running, ErrorOf(c) = MmError(c.x, c.y)
  PROVE  MmCall(c.x, c.y, Reports(c))
<1>1. MatrixError(c.x) # none => MatrixError(c.x) \in Reports(c)
  BY CallFacts DEF MmError, Then
<1>2. MatrixCall(c.x, "no", Reports(c))
  BY <1>1, CallFacts, MatrixArgument
<1>3. SideLimited(c.y, 0, Reports(c))
  BY CallFacts, SideArgument
<1>4. MatrixError(c.x) = none /\ SideError(c.y) = none =>
         Limited(SideWidth(c.y), Height(c.x), Reports(c))
  BY ArgumentDims, CallFacts, DimsSmall DEF IsWidth
<1> QED
  BY <1>2, <1>3, <1>4, CallFacts DEF MmCall

\* a square one and a right side,
LEMMA SideCalls ==
  ASSUME NEW c \in Calls, Running, NEW x, NEW y, NEW e,
         IsArgument(c, x), IsArgument(c, y),
         e # none => e \in Reports(c)
  PROVE  SideCall(x, y, c.o, e, Reports(c))
<1>1. SideLimited(y, 0, Reports(c))
  BY SideArgument
<1>2. Listed(x) => Limited(Height(x), Height(x), Reports(c))
  BY SquareArgument
<1> QED
  BY <1>1, <1>2, CallFacts, ArgumentDims DEF SideCall

\* a system to be solved,
LEMMA SystemCalls ==
  ASSUME NEW c \in Calls, Running, NEW x, NEW y,
         IsArgument(c, x), IsArgument(c, y),
         SystemError(x, y) # none => SystemError(x, y) \in Reports(c)
  PROVE  SystemCall(x, y, c.o, Reports(c))
<1>1. SideCall(x, y, c.o, SystemError(x, y), Reports(c))
  BY SideCalls
<1>2. SquareError(x) = none => Listed(x)
  BY DEF SquareError, Listed, none
<1>3. Listed(x) => IsDim(c, Height(x))
  BY ArgumentDims
<1>4. SideError(y) = none => IsWidth(c, SideWidth(y))
  BY ArgumentDims
<1>5. SquareError(x) = none => Limited(Height(x), 4, Reports(c))
  BY <1>2, <1>3, DimSmall
<1>6. SideError(y) = none => Limited(SideWidth(y), 1, Reports(c))
  BY <1>4, DimsSmall DEF IsWidth
<1>7. SystemError(x, y) = none => Limited(Height(x), SideWidth(y), Reports(c))
  BY <1>2, <1>3, <1>4, DimsSmall DEF IsWidth, SystemError, Then
<1> QED
  BY <1>1, <1>5, <1>6, <1>7 DEF SystemCall

\* and one with more or fewer equations than unknowns.
LEMMA LeastCalls ==
  ASSUME NEW c \in Calls, Running, NEW x, NEW y,
         IsArgument(c, x), IsArgument(c, y),
         LeastError(x, y) # none => LeastError(x, y) \in Reports(c)
  PROVE  LeastCall(x, y, c.o, Reports(c))
<1>1. MatrixError(x) # none => MatrixError(x) \in Reports(c)
  BY DEF LeastError, Then
<1>2. MatrixCall(x, "no", Reports(c))
  BY <1>1, MatrixArgument
<1>3. MatrixError(x) = none => SideLimited(y, Width(x), Reports(c))
  BY ArgumentDims, SideArgument
<1> QED
  BY <1>2, <1>3, CallFacts, ArgumentDims DEF LeastCall

-----------------------------------------------------------------------------
(* The loop of tests *)

\* The run that out records ended as it should: with an answer, which is
\* forbidden if an allocation has failed, or with an error of its own.
RunExplained ==
    /\ call.fn \in MatrixFns =>
          IF out.k.t # -128 THEN ErrorOf(call) = none /\ ~out.failed
          ELSE \/ ErrorOf(call) # none /\ out.k.s = ErrorOf(call)
               \/ out.failed /\ out.k.s = "wsfull"
               \/ out.k.s = "limit" /\ (call.o.work >= wi \/ TooLarge(call))
    /\ out.k.t = -128 => out.k.s \notin {"qml_assert", "abort"}

\* The failures that out records are those of the schedule.
FailuresRecorded ==
    /\ out.failed \in BOOLEAN
    /\ out.failed <=> \E i \in 1..(alloc_i - 1) : alloc_fail[i] = 1

\* The state of the loop: nothing is allocated between two runs, what the
\* last run reported is explained, and the schedule is as that run left it.
LoopInv ==
    /\ MatTypeOK
    /\ out.live = {}
    /\ out.k # NULL => RunExplained
    /\ loop = "test" /\ alloc_fail[0] = 1 => alloc_i = 1
    /\ loop = "test" /\ alloc_fail[0] = 0 => out.k # NULL /\ FailuresRecorded
    /\ loop = "end" => out.k # NULL /\ ~out.failed

\* The loop of tests is entered with nothing allocated.
LEMMA InitLoop ==
  ASSUME Init PROVE LoopInv
<1>1. alloc_max \in Nat /\ alloc_max > 12
  BY CallsAssumption
<1>2. MatTypeOK
  BY <1>1 DEF Init, MatTypeOK
<1>3. alloc_fail[0] = 1
  BY <1>1 DEF Init
<1> QED
  BY <1>2, <1>3 DEF Init, LoopInv, NoRun

\* A call whose result is explained leads to a state that is.
LEMMA CallKeepsLoop ==
  ASSUME LoopInv, NEW fn, NEW r, Call(fn, r),
         DOMAIN r.h.live = {}, r.h.i \in 1..alloc_max,
         r.k # NULL,
         r.k.t = -128 => r.k.s \notin {"qml_assert", "abort"},
         call.fn \in MatrixFns =>
            IF r.k.t # -128 THEN ErrorOf(call) = none /\ ~Failed(r.h)
            ELSE \/ ErrorOf(call) # none /\ r.k.s = ErrorOf(call)
                 \/ Failed(r.h) /\ r.k.s = "wsfull"
                 \/ r.k.s = "limit" /\ (call.o.work >= wi \/ TooLarge(call))
  PROVE  LoopInv'
<1>1. /\ loop = "run" /\ loop' = "test" /\ alloc_i' = r.h.i
      /\ alloc_fail' = alloc_fail /\ call' = call
      /\ out' = [k |-> r.k, live |-> DOMAIN r.h.live, over |-> r.h.over,
                 failed |-> Failed(r.h)]
  BY DEF Call, Failed
<1>2. /\ out'.k = r.k /\ out'.live = {}
      /\ out'.failed = Failed(r.h)
  BY <1>1
<1>3. MatTypeOK'
  BY <1>1 DEF LoopInv, MatTypeOK
<1>4. alloc_fail[0] = 0
  BY <1>1 DEF LoopInv, MatTypeOK
<1>5. out'.failed \in BOOLEAN
      /\ (out'.failed <=> \E i \in 1..(alloc_i' - 1) : alloc_fail'[i] = 1)
  BY <1>1, <1>2 DEF Failed
<1>6. /\ ErrorOf(call)' = ErrorOf(call) /\ TooLarge(call)' = TooLarge(call)
      /\ call'.fn = call.fn /\ call'.o = call.o
  BY <1>1
<1>7. RunExplained'
  <2> HIDE DEF MatrixFns
  <2>1. call.fn \in MatrixFns =>
          IF out'.k.t # -128 THEN ErrorOf(call) = none /\ ~out'.failed
          ELSE \/ ErrorOf(call) # none /\ out'.k.s = ErrorOf(call)
               \/ out'.failed /\ out'.k.s = "wsfull"
               \/ out'.k.s = "limit" /\ (call.o.work >= wi \/ TooLarge(call))
    BY <1>2
  <2>2. out'.k.t = -128 => out'.k.s \notin {"qml_assert", "abort"}
    BY <1>2
  <2> QED
    BY <1>6, <2>1, <2>2 DEF RunExplained
<1> QED
  BY <1>1, <1>2, <1>3, <1>4, <1>5, <1>7 DEF LoopInv, FailuresRecorded

\* While a call runs the schedule is at its start.
LEMMA LoopRuns ==
  ASSUME LoopInv, loop = "run"
  PROVE  Running /\ call \in Calls
BY DEF LoopInv, MatTypeOK, Running

\* What an argument can be wrong with.
LEMMA ErrorKinds ==
  ASSUME NEW c, c.fn \in MatrixFns
  PROVE  ErrorOf(c) \in {none, "type", "length", "domain", "opt"}
<1>1. \A x : SquareError(x) \in {none, "type", "length"}
  BY DEF SquareError
<1>2. \A x : MatrixError(x) \in {none, "type", "length"}
  BY DEF MatrixError
<1>3. \A x : SideError(x) \in {none, "type", "length"}
  BY <1>2 DEF SideError
<1>4. \A n, y : Unequal(n, y) \in {none, "length"}
  BY DEF Unequal, LengthError
<1>5. \A x, y : SystemError(x, y) \in {none, "type", "length"}
  BY <1>1, <1>3, <1>4 DEF SystemError, Then
<1>6. \A x, y : LeastError(x, y) \in {none, "type", "length"}
  BY <1>2, <1>3, <1>4 DEF LeastError, Then
<1>7. \A x, t : OptError(x, t) \in {none, "opt"}
  BY DEF OptError
<1>8. CASE c.fn \in {"mdet", "minv", "mevu", "mchol"}
  <2>1. ErrorOf(c) = SquareError(c.x)
    BY <1>8 DEF ErrorOf
  <2> QED
    BY <1>1, <2>1
<1>9. CASE c.fn \in {"mqr", "mqrp", "mlup", "msvd"}
  <2>1. ErrorOf(c) = MatrixError(c.x)
    BY <1>9 DEF ErrorOf
  <2> QED
    BY <1>2, <2>1
<1>10. CASE c.fn = "mm"
  <2>1. ErrorOf(c) = MmError(c.x, c.y)
    BY <1>10 DEF ErrorOf, MmError
  <2> QED
    BY <1>2, <1>3, <1>4, <2>1 DEF MmError, Then
<1>11. CASE c.fn = "ms"
  <2>1. ErrorOf(c) = MsError(c.x, c.y)
    BY <1>11 DEF ErrorOf, MsError
  <2> QED
    BY <1>1, <1>3, <1>4, <2>1 DEF MsError, Then
<1>12. CASE c.fn = "mls"
  BY <1>5, <1>12 DEF ErrorOf
<1>13. CASE c.fn = "mlsq"
  BY <1>6, <1>13 DEF ErrorOf
<1>14. CASE c.fn = "mlsx"
  <2>1. ErrorOf(c) = Then(OptError(c.x, ls_opt), SystemError(c.y, c.z))
    BY <1>14 DEF ErrorOf
  <2> QED
    BY <1>5, <1>7, <2>1 DEF Then
<1>15. CASE c.fn = "mlsqx"
  <2>1. ErrorOf(c) = Then(OptError(c.x, lsq_opt), LeastError(c.y, c.z))
    BY <1>15 DEF ErrorOf
  <2> QED
    BY <1>6, <1>7, <2>1 DEF Then
<1> QED
  BY <1>8, <1>9, <1>10, <1>11, <1>12, <1>13, <1>14, <1>15 DEF MatrixFns

\* A call that ends as it should keeps the loop as it should be.
LEMMA EndsKeepsLoop ==
  ASSUME LoopInv, NEW fn, fn \in MatrixFns, NEW r, Call(fn, r),
         Ends(r, Reports(call), ErrorOf(call))
  PROVE  LoopInv'
<1>1. call.fn \in MatrixFns
  BY DEF Call
<1>2. ErrorOf(call) \in {none, "type", "length", "domain", "opt"}
  BY <1>1, ErrorKinds
<1>3. /\ DOMAIN r.h.live = {} /\ r.h.i \in 1..alloc_max
      /\ r.k # NULL
  BY DEF Ends
<1>4. r.k.t # -128 => ErrorOf(call) = none /\ ~Failed(r.h)
  BY DEF Ends
<1>5. r.k.t = -128 =>
         \/ ErrorOf(call) # none /\ r.k.s = ErrorOf(call)
         \/ Failed(r.h) /\ r.k.s = "wsfull"
         \/ r.k.s = "limit" /\ (call.o.work >= wi \/ TooLarge(call))
  BY DEF Ends, Reports
<1>6. r.k.t = -128 => r.k.s \notin {"qml_assert", "abort"}
  BY <1>2, <1>5 DEF none
<1> QED
  BY <1>3, <1>4, <1>5, <1>6, CallKeepsLoop

\* Every set of numbers that is not empty has a least one.
LEMMA Least ==
  ASSUME NEW S, S \subseteq Nat, S # {}
  PROVE  \E n \in S : \A m \in S : n <= m
<1>1. PICK n \in S : \A m \in S : ~(<<m, n>> \in OpToRel(<, Nat))
      BY NatLessThanWellFounded, WFMin
<1>2. \A m \in S : n <= m
  <2>1. SUFFICES ASSUME NEW m \in S, ~(n <= m)
                 PROVE  FALSE
        OBVIOUS
  <2>2. m \in Nat /\ n \in Nat /\ m < n
        BY <2>1
  <2>3. <<m, n>> \in {ss \in Nat \X Nat : ss[1] < ss[2]}
        BY <2>2
  <2>4. <<m, n>> \in OpToRel(<, Nat)
        BY <2>3 DEF OpToRel
  <2> QED
      BY <1>1, <2>4
<1> QED
    BY <1>2

\* A set of numbers below n that is not empty has a largest one.
LEMMA Largest ==
  ASSUME NEW n \in Nat, NEW S, S \subseteq 0..n, S # {}
  PROVE  \E m \in S : \A k \in S : k <= m
<1> DEFINE T == {n - k : k \in S}
<1>1. \A k \in S : k \in Nat /\ k <= n /\ n - k \in Nat
  OBVIOUS
<1>a. T \subseteq Nat
  BY <1>1
<1>b. T # {}
  <2>1. PICK k : k \in S
    OBVIOUS
  <2> QED
    BY <2>1
<1> HIDE DEF T
<1>2. PICK l \in T : \A k \in T : l <= k
  BY <1>a, <1>b, Least
<1>3. PICK m \in S : l = n - m
  BY DEF T
<1>4. ASSUME NEW k \in S PROVE k <= m
  <2>1. n - k \in T /\ k \in 0..n /\ m \in 0..n
    BY DEF T
  <2>2. l <= n - k
    BY <1>2, <2>1
  <2> QED
    BY <1>3, <2>1, <2>2
<1> QED
  BY <1>4

\* debug_alloc goes to the next schedule, or ends the loop after a run in
\* which no allocation failed.
LEMMA DebugAllocKeepsLoop ==
  ASSUME LoopInv, qml_debug_alloc PROVE LoopInv'
<1> DEFINE ones == {i \in 0..(alloc_i - 1) : alloc_fail[i] = 1}
           stop == CHOOSE i \in ones : \A j \in ones : j <= i
<1>1. /\ loop = "test" /\ alloc_i' = 1 /\ call' = call /\ out' = out
      /\ loop' = (IF ones = {} THEN "end" ELSE "run")
      /\ alloc_fail' = [i \in DOMAIN alloc_fail |->
               IF ones = {} \/ i > stop THEN 1 ELSE
               IF i = stop THEN 0 ELSE alloc_fail[i]]
  BY DEF qml_debug_alloc
<1>2. /\ alloc_fail \in [0..(alloc_max - 1) -> {0, 1}] /\ alloc_i \in 1..alloc_max
      /\ call \in Calls /\ 0 \in 0..(alloc_max - 1) /\ alloc_max \in Nat
      /\ 1 \in 1..alloc_max /\ 0 \in 0..(alloc_i - 1)
  BY CallsAssumption DEF LoopInv, MatTypeOK
<1>3. ones \subseteq 0..(alloc_i - 1) /\ \A i \in ones : alloc_fail[i] = 1
  OBVIOUS
<1>4. ones = {} => alloc_fail[0] = 0 /\ ~(\E i \in 1..(alloc_i - 1) : alloc_fail[i] = 1)
  <2>1. alloc_fail[0] \in {0, 1}
    BY <1>2
  <2> QED
    BY <1>2, <2>1
<1>5. ones # {} => stop \in ones /\ \A j \in ones : j <= stop
  <2>1. ASSUME ones # {} PROVE \E m \in ones : \A k \in ones : k <= m
    <3>1. alloc_i - 1 \in Nat
      BY <1>2
    <3> HIDE DEF ones
    <3> QED
      BY <1>3, <2>1, <3>1, Largest
  <2> QED
    BY <2>1
<1>6. 0 \in ones <=> alloc_fail[0] = 1
  BY <1>2
<1> HIDE DEF ones, stop
<1>7. alloc_fail' \in [0..(alloc_max - 1) -> {0, 1}]
  <2>1. DOMAIN alloc_fail = 0..(alloc_max - 1)
    BY <1>2
  <2> DEFINE s(i) == IF ones = {} \/ i > stop THEN 1 ELSE
                     IF i = stop THEN 0 ELSE alloc_fail[i]
  <2>2. \A i \in 0..(alloc_max - 1) : s(i) \in {0, 1}
    BY <1>2
  <2>3. alloc_fail' = [i \in 0..(alloc_max - 1) |-> s(i)]
    BY <1>1, <2>1
  <2> HIDE DEF s
  <2> QED
    BY <2>2, <2>3
<1>8. CASE ones = {}
  <2>1. loop' = "end" /\ alloc_fail[0] = 0
    BY <1>1, <1>4, <1>8
  <2>2. alloc_fail'[0] = 1
    BY <1>1, <1>2, <1>8
  <2>3. out.k # NULL /\ ~out.failed
    BY <1>1, <1>4, <1>8, <2>1 DEF LoopInv, FailuresRecorded
  <2>4. out.k # NULL => RunExplained'
    BY <1>1 DEF LoopInv, RunExplained
  <2>5. MatTypeOK'
    BY <1>1, <1>2, <1>7, <2>1, <2>2 DEF MatTypeOK
  <2> QED
    BY <1>1, <2>1, <2>3, <2>4, <2>5 DEF LoopInv
<1>9. CASE ones # {}
  <2>1. loop' = "run"
    BY <1>1, <1>9
  <2>2. stop \in 0..(alloc_i - 1)
    BY <1>3, <1>5, <1>9
  <2>3. alloc_fail'[0] = 0
    <3>1. CASE alloc_fail[0] = 1
      <4>1. alloc_i = 1
        BY <1>1, <3>1 DEF LoopInv
      <4>2. stop = 0
        BY <2>2, <4>1
      <4> QED
        BY <1>1, <1>2, <1>9, <4>2
    <3>2. CASE alloc_fail[0] = 0
      <4>1. stop # 0 /\ ~(0 > stop)
        BY <1>5, <1>6, <1>9, <2>2, <3>2
      <4> QED
        BY <1>1, <1>2, <1>9, <3>2, <4>1
    <3> QED
      BY <1>2, <3>1, <3>2
  <2>4. out.k # NULL => RunExplained'
    BY <1>1 DEF LoopInv, RunExplained
  <2>5. MatTypeOK'
    BY <1>1, <1>2, <1>7, <2>1, <2>3 DEF MatTypeOK
  <2> QED
    BY <1>1, <2>1, <2>4, <2>5 DEF LoopInv
<1> QED
  BY <1>8, <1>9

\* A function that allocates nothing keeps the loop as it should be.
LEMMA PureKeepsLoop ==
  ASSUME LoopInv, Pure PROVE LoopInv'
<1>1. PICK k \in Answers(call) : Call(call.fn, [h |-> Heap0, k |-> k])
  BY DEF Pure
<1> DEFINE r == [h |-> Heap0, k |-> k]
<1>2. r.h = Heap0 /\ r.k = k /\ Call(call.fn, r) /\ call.fn \notin MatrixFns
  BY <1>1 DEF Pure
<1>3. Running /\ call \in Calls
  BY <1>2, LoopRuns DEF Call
<1>4. k # NULL /\ (k.t = -128 => k.s \notin {"qml_assert", "abort"})
  BY <1>1, <1>3, CallsAssumption
<1>5. Sound(Heap0, {}, {}, 1)
  BY <1>3, StartSound
<1>6. DOMAIN r.h.live = {} /\ r.h.i \in 1..alloc_max
  BY <1>2, <1>5, CallsAssumption DEF Sound
<1> HIDE DEF r
<1> QED
  BY <1>2, <1>4, <1>6, CallKeepsLoop

\* poly keeps the loop as it should be.
LEMMA PolyKeepsLoop ==
  ASSUME LoopInv, Call("poly", qml_poly(call.x, call.o)) PROVE LoopInv'
<1> DEFINE r == qml_poly(call.x, call.o)
           E == {"type", "length", "roots", "limit"}
<1>1. Running /\ call \in Calls /\ call.fn = "poly"
  BY LoopRuns DEF Call
<1>2. PolyCall(call.x, call.o, E)
  BY <1>1, CallsAssumption DEF PolyCall
<1>3. Ends(r, E, none)
  BY <1>2, PolyEnds
<1>4. call.fn \notin MatrixFns
  BY <1>1 DEF MatrixFns
<1>5. r.k.t = -128 => r.k.s \notin {"qml_assert", "abort"}
  BY <1>3 DEF Ends
<1> HIDE DEF r, E
<1>6. /\ DOMAIN r.h.live = {} /\ r.h.i \in 1..alloc_max
      /\ r.k # NULL
  BY <1>3 DEF Ends
<1>7. Call("poly", r)
  BY DEF r
<1> QED
  BY <1>4, <1>5, <1>6, <1>7, CallKeepsLoop

\* Every matrix function keeps the loop as it should be.
LEMMA MatricesKeepLoop ==
  ASSUME LoopInv, Matrices PROVE LoopInv'
<1>0. loop = "run"
  BY DEF Matrices, Call
<1>1. Running /\ call \in Calls
  BY <1>0, LoopRuns
<1>2. /\ ErrorOf(call) \in Reports(call)
      /\ IsArgument(call, call.x) /\ IsArgument(call, call.y)
      /\ IsArgument(call, call.z)
  BY <1>1, CallFacts
<1>3. CASE Call("mdet", qml_mdet(call.x, call.o))
  <2> DEFINE r == qml_mdet(call.x, call.o)
  <2>1. ErrorOf(call) = SquareError(call.x) /\ "mdet" \in MatrixFns
    BY <1>3 DEF ErrorOf, Call, MatrixFns
  <2>2. Ends(r, Reports(call), ErrorOf(call))
    BY <1>1, <2>1, SquareCalls, MdetEnds
  <2>3. Call("mdet", r)
    BY <1>3
  <2> HIDE DEF r
  <2> QED
    BY <2>1, <2>2, <2>3, EndsKeepsLoop
<1>4. CASE Call("minv", qml_minv(call.x, call.o))
  <2> DEFINE r == qml_minv(call.x, call.o)
  <2>1. ErrorOf(call) = SquareError(call.x) /\ "minv" \in MatrixFns
    BY <1>4 DEF ErrorOf, Call, MatrixFns
  <2>2. Ends(r, Reports(call), ErrorOf(call))
    BY <1>1, <2>1, SquareCalls, MinvEnds
  <2>3. Call("minv", r)
    BY <1>4
  <2> HIDE DEF r
  <2> QED
    BY <2>1, <2>2, <2>3, EndsKeepsLoop
<1>5. CASE Call("mevu", qml_mevu(call.x, call.o))
  <2> DEFINE r == qml_mevu(call.x, call.o)
  <2>1. ErrorOf(call) = SquareError(call.x) /\ "mevu" \in MatrixFns
    BY <1>5 DEF ErrorOf, Call, MatrixFns
  <2>2. Ends(r, Reports(call), ErrorOf(call))
    BY <1>1, <2>1, SquareCalls, MevuEnds
  <2>3. Call("mevu", r)
    BY <1>5
  <2> HIDE DEF r
  <2> QED
    BY <2>1, <2>2, <2>3, EndsKeepsLoop
<1>6. CASE Call("mchol", qml_mchol(call.x, call.o))
  <2> DEFINE r == qml_mchol(call.x, call.o)
  <2>1. ErrorOf(call) = SquareError(call.x) /\ "mchol" \in MatrixFns
    BY <1>6 DEF ErrorOf, Call, MatrixFns
  <2>2. Ends(r, Reports(call), ErrorOf(call))
    BY <1>1, <2>1, SquareCalls, McholEnds
  <2>3. Call("mchol", r)
    BY <1>6
  <2> HIDE DEF r
  <2> QED
    BY <2>1, <2>2, <2>3, EndsKeepsLoop
<1>7. CASE Call("mqr", mqr(call.x, FALSE, call.o))
  <2> DEFINE pivot == FALSE
  <2>0. pivot \in BOOLEAN
    OBVIOUS
  <2> HIDE DEF pivot
  <2> DEFINE r == mqr(call.x, pivot, call.o)
  <2>1. ErrorOf(call) = MatrixError(call.x) /\ "mqr" \in MatrixFns
    BY <1>7 DEF ErrorOf, Call, MatrixFns
  <2>2. FactorCall(call.x, "square", call.o, Reports(call))
    BY <1>1, <2>1, FactorCalls
  <2>3. Ends(r, Reports(call), ErrorOf(call))
    BY <2>0, <2>1, <2>2, MqrEnds
  <2>4. Call("mqr", r)
    BY <1>7 DEF pivot
  <2> HIDE DEF r
  <2> QED
    BY <2>1, <2>3, <2>4, EndsKeepsLoop
<1>8. CASE Call("mqrp", mqr(call.x, TRUE, call.o))
  <2> DEFINE pivot == TRUE
  <2>0. pivot \in BOOLEAN
    OBVIOUS
  <2> HIDE DEF pivot
  <2> DEFINE r == mqr(call.x, pivot, call.o)
  <2>1. ErrorOf(call) = MatrixError(call.x) /\ "mqrp" \in MatrixFns
    BY <1>8 DEF ErrorOf, Call, MatrixFns
  <2>2. FactorCall(call.x, "square", call.o, Reports(call))
    BY <1>1, <2>1, FactorCalls
  <2>3. Ends(r, Reports(call), ErrorOf(call))
    BY <2>0, <2>1, <2>2, MqrEnds
  <2>4. Call("mqrp", r)
    BY <1>8 DEF pivot
  <2> HIDE DEF r
  <2> QED
    BY <2>1, <2>3, <2>4, EndsKeepsLoop
<1>9. CASE Call("mlup", qml_mlup(call.x, call.o))
  <2> DEFINE r == qml_mlup(call.x, call.o)
  <2>1. ErrorOf(call) = MatrixError(call.x) /\ "mlup" \in MatrixFns
    BY <1>9 DEF ErrorOf, Call, MatrixFns
  <2>2. FactorCall(call.x, "no", call.o, Reports(call))
    BY <1>1, <2>1, FactorCalls
  <2>3. Ends(r, Reports(call), ErrorOf(call))
    BY <2>1, <2>2, MlupEnds
  <2>4. Call("mlup", r)
    BY <1>9
  <2> HIDE DEF r
  <2> QED
    BY <2>1, <2>3, <2>4, EndsKeepsLoop
<1>10. CASE Call("msvd", qml_msvd(call.x, call.o))
  <2> DEFINE r == qml_msvd(call.x, call.o)
  <2>1. ErrorOf(call) = MatrixError(call.x) /\ "msvd" \in MatrixFns
    BY <1>10 DEF ErrorOf, Call, MatrixFns
  <2>2. FactorCall(call.x, "no", call.o, Reports(call))
    BY <1>1, <2>1, FactorCalls
  <2>3. Ends(r, Reports(call), ErrorOf(call))
    BY <2>1, <2>2, MsvdEnds
  <2>4. Call("msvd", r)
    BY <1>10
  <2> HIDE DEF r
  <2> QED
    BY <2>1, <2>3, <2>4, EndsKeepsLoop
<1>11. CASE Call("mm", qml_mm(call.x, call.y))
  <2> DEFINE r == qml_mm(call.x, call.y)
  <2>1. ErrorOf(call) = MmError(call.x, call.y) /\ "mm" \in MatrixFns
    BY <1>11 DEF ErrorOf, Call, MatrixFns, MmError
  <2>2. MmCall(call.x, call.y, Reports(call))
    BY <1>1, <2>1, MmCalls
  <2>3. Ends(r, Reports(call), ErrorOf(call))
    BY <1>1, <2>1, <2>2, MmEnds
  <2>4. Call("mm", r)
    BY <1>11
  <2> HIDE DEF r
  <2> QED
    BY <2>1, <2>3, <2>4, EndsKeepsLoop
<1>12. CASE Call("ms", qml_ms(call.x, call.y))
  <2> DEFINE r == qml_ms(call.x, call.y)
  <2>1. ErrorOf(call) = MsError(call.x, call.y) /\ "ms" \in MatrixFns
    BY <1>12 DEF ErrorOf, Call, MatrixFns, MsError
  <2>2. SideCall(call.x, call.y, call.o, MsError(call.x, call.y), Reports(call))
    BY <1>1, <1>2, <2>1, SideCalls
  <2>3. Ends(r, Reports(call), ErrorOf(call))
    BY <1>1, <2>1, <2>2, MsEnds
  <2>4. Call("ms", r)
    BY <1>12
  <2> HIDE DEF r
  <2> QED
    BY <2>1, <2>3, <2>4, EndsKeepsLoop
<1>13. CASE Call("mls", mls(call.x, call.y, FALSE, call.o))
  <2> DEFINE flag == FALSE
  <2>0. flag \in BOOLEAN
    OBVIOUS
  <2> HIDE DEF flag
  <2> DEFINE r == mls(call.x, call.y, flag, call.o)
  <2>1. ErrorOf(call) = SystemError(call.x, call.y) /\ "mls" \in MatrixFns
    BY <1>13 DEF ErrorOf, Call, MatrixFns
  <2>2. SystemCall(call.x, call.y, call.o, Reports(call))
    BY <1>1, <1>2, <2>1, SystemCalls
  <2>3. Ends(r, Reports(call), ErrorOf(call))
    BY <2>0, <1>1, <2>1, <2>2, MlsEnds
  <2>4. Call("mls", r)
    BY <1>13 DEF flag
  <2> HIDE DEF r
  <2> QED
    BY <2>1, <2>3, <2>4, EndsKeepsLoop
<1>14. CASE Call("mlsq", mlsq(call.x, call.y, FALSE, call.o))
  <2> DEFINE flag == FALSE
  <2>0. flag \in BOOLEAN
    OBVIOUS
  <2> HIDE DEF flag
  <2> DEFINE r == mlsq(call.x, call.y, flag, call.o)
  <2>1. ErrorOf(call) = LeastError(call.x, call.y) /\ "mlsq" \in MatrixFns
    BY <1>14 DEF ErrorOf, Call, MatrixFns
  <2>2. LeastCall(call.x, call.y, call.o, Reports(call))
    BY <1>1, <1>2, <2>1, LeastCalls
  <2>3. Ends(r, Reports(call), ErrorOf(call))
    BY <2>0, <1>1, <2>1, <2>2, MlsqEnds
  <2>4. Call("mlsq", r)
    BY <1>14 DEF flag
  <2> HIDE DEF r
  <2> QED
    BY <2>1, <2>3, <2>4, EndsKeepsLoop
<1>15. CASE Call("mlsx", qml_mlsx(call.x, call.y, call.z, call.o))
  <2> DEFINE r == qml_mlsx(call.x, call.y, call.z, call.o)
  <2>1. /\ ErrorOf(call) = Then(OptError(call.x, ls_opt), SystemError(call.y, call.z))
        /\ "mlsx" \in MatrixFns
    BY <1>15 DEF ErrorOf, Call, MatrixFns
  <2>2. OptError(call.x, ls_opt) # none => "opt" \in Reports(call)
    BY <1>2, <2>1 DEF Then, OptError
  <2>3. OptError(call.x, ls_opt) = none =>
           SystemCall(call.y, call.z, call.o, Reports(call))
    <3>1. ASSUME OptError(call.x, ls_opt) = none
          PROVE  ErrorOf(call) = SystemError(call.y, call.z)
      BY <2>1, <3>1 DEF Then
    <3> QED
      BY <1>1, <1>2, <3>1, SystemCalls
  <2>4. Ends(r, Reports(call), ErrorOf(call))
    BY <1>1, <2>1, <2>2, <2>3, MlsxEnds
  <2>5. Call("mlsx", r)
    BY <1>15
  <2> HIDE DEF r
  <2> QED
    BY <2>1, <2>4, <2>5, EndsKeepsLoop
<1>16. CASE Call("mlsqx", qml_mlsqx(call.x, call.y, call.z, call.o))
  <2> DEFINE r == qml_mlsqx(call.x, call.y, call.z, call.o)
  <2>1. /\ ErrorOf(call) = Then(OptError(call.x, lsq_opt), LeastError(call.y, call.z))
        /\ "mlsqx" \in MatrixFns
    BY <1>16 DEF ErrorOf, Call, MatrixFns
  <2>2. OptError(call.x, lsq_opt) # none => "opt" \in Reports(call)
    BY <1>2, <2>1 DEF Then, OptError
  <2>3. OptError(call.x, lsq_opt) = none =>
           LeastCall(call.y, call.z, call.o, Reports(call))
    <3>1. ASSUME OptError(call.x, lsq_opt) = none
          PROVE  ErrorOf(call) = LeastError(call.y, call.z)
      BY <2>1, <3>1 DEF Then
    <3> QED
      BY <1>1, <1>2, <3>1, LeastCalls
  <2>4. Ends(r, Reports(call), ErrorOf(call))
    BY <1>1, <2>1, <2>2, <2>3, MlsqxEnds
  <2>5. Call("mlsqx", r)
    BY <1>16
  <2> HIDE DEF r
  <2> QED
    BY <2>1, <2>4, <2>5, EndsKeepsLoop
<1> QED
  BY <1>3, <1>4, <1>5, <1>6, <1>7, <1>8, <1>9, <1>10, <1>11, <1>12, <1>13, <1>14,
     <1>15, <1>16,
     PolyKeepsLoop DEF Matrices

\* Nothing else changes the loop.
LEMMA StutterKeepsLoop ==
  ASSUME LoopInv, UNCHANGED vars PROVE LoopInv'
BY DEF vars, LoopInv, MatTypeOK, RunExplained, FailuresRecorded

\* The loop of tests is as it should be in every state of a session.
LEMMA LoopKept ==
  Spec => []LoopInv
<1>1. Init => LoopInv
  BY InitLoop
<1>2. LoopInv /\ [Next]_vars => LoopInv'
  BY DebugAllocKeepsLoop, MatricesKeepLoop, PureKeepsLoop, StutterKeepsLoop
     DEF Next, Ended
<1> QED
  BY <1>1, <1>2, PTL DEF Spec

\* Whatever allocations fail, in calls of any size, every function of
\* lapack.c gives back what it has allocated, and debug_alloc ends the loop of
\* tests only after a run in which no allocation failed.
THEOREM AllocationsAreReturned ==
  Spec => []AllocationsReturned
<1>1. LoopInv => AllocationsReturned
  BY DEF LoopInv, AllocationsReturned, NoLeak, LastRunSucceeds
<1> QED
  BY <1>1, LoopKept, PTL

\* What a function of lapack.c reports is what is wrong with its arguments,
\* or that an allocation failed or would be too large.
THEOREM ErrorsAreExplained ==
  Spec => []ErrorsExplained
<1>1. LoopInv => ErrorsExplained
  BY DEF LoopInv, ErrorsExplained, Ran, Answered, RunExplained
<1> QED
  BY <1>1, LoopKept, PTL

-----------------------------------------------------------------------------
(* Buffers that are large enough *)

\* The heap h has no buffers but those of P, counts its items, and nothing has
\* been overrun, whether an error is recorded or not.
Fits(h, P) ==
    /\ DOMAIN h = Fields /\ DOMAIN h.live \subseteq P /\ h.over = {}
    /\ \A d \in Ints : h[d] \in Nat
    /\ \A p : Size(h, p) \in Nat

\* g differs from h in the variables X only.
Alike(h, g, X) == \A x \in Fields \ X : g[x] = h[x]

\* The buffers that needs names are as large as it says.
Enough(h, needs) ==
    \A p \in DOMAIN needs : needs[p] \in Nat /\ Size(h, p) >= needs[p]

\* From h to g the other buffers have kept their size, and p has s items, or
\* the dimension d is 0.
Gets(h, g, p, d, s) ==
    /\ Alike(h, g, {"err", "live", "i", d}) /\ Kept(h, g, p)
    /\ g[d] = 0 \/ (g[d] = h[d] /\ Size(g, p) = s)

\* An error that is recorded moves nothing.
LEMMA FitRequire ==
  ASSUME NEW h, NEW P, NEW ok, NEW e, Fits(h, P),
         NEW g, g = Require(h, ok, e) \/ g = Err(h, e)
  PROVE  Fits(g, P) /\ Alike(h, g, {"err"}) /\ g.live = h.live
<1>1. DOMAIN h = Fields
  BY DEF Fits
<1>2. /\ DOMAIN g = Fields /\ Alike(h, g, {"err"})
      /\ g.live = h.live /\ g.over = h.over
  BY <1>1 DEF Require, Err, Alike, Fields
<1>3. \A p : Size(g, p) = Size(h, p)
  BY <1>2 DEF Size, Live
<1>4. \A d \in Ints : g[d] = h[d]
  BY <1>2 DEF Alike, Fields, Ints
<1> QED
  BY <1>2, <1>3, <1>4 DEF Fits

\* Neither does a variable that is set to a number, or one that is no number.
LEMMA FitSet ==
  ASSUME NEW h, NEW P, NEW X, Fits(h, P),
         X \cap {"live", "over"} = {},
         NEW g, DOMAIN g = Fields, Alike(h, g, X),
         \A d \in Ints \cap X : g[d] \in Nat
  PROVE  Fits(g, P) /\ g.live = h.live /\ \A p : Size(g, p) = Size(h, p)
<1>1. g.live = h.live /\ g.over = h.over
  BY DEF Alike, Fields
<1>2. \A p : Size(g, p) = Size(h, p)
  BY <1>1 DEF Size, Live
<1>3. \A d \in Ints : g[d] \in Nat
  <2> TAKE d \in Ints
  <2>1. CASE d \in X
    BY <2>1
  <2>2. CASE d \notin X
    <3>1. d \in Fields
      BY DEF Ints, Fields
    <3> QED
      BY <2>2, <3>1 DEF Alike, Fits
  <2> QED
    BY <2>1, <2>2
<1> QED
  BY <1>1, <1>2, <1>3 DEF Fits

\* What uses no more than there is overruns nothing.
LEMMA FitUses ==
  ASSUME NEW h, NEW P, NEW needs, Fits(h, P), Enough(h, needs),
         NEW g, g = Uses(h, needs)
  PROVE  Fits(g, P) /\ Alike(h, g, {}) /\ g.live = h.live
<1> DEFINE short == {p \in DOMAIN needs : Size(h, p) < needs[p]}
<1>1. DOMAIN h = Fields /\ h.over = {}
  BY DEF Fits
<1>2. short = {}
  BY DEF Fits, Enough
<1>3. g = [h EXCEPT !.over = h.over \cup short]
  BY DEF Uses
<1> HIDE DEF short
<1>4. g = [h EXCEPT !.over = {}]
  BY <1>1, <1>2, <1>3
<1>5. /\ DOMAIN g = Fields /\ Alike(h, g, {})
      /\ g.live = h.live /\ g.over = {}
  BY <1>1, <1>4 DEF Alike, Fields
<1>6. \A p : Size(g, p) = Size(h, p)
  BY <1>5 DEF Size, Live
<1>7. \A d \in Ints : g[d] = h[d]
  BY <1>5 DEF Alike, Fields, Ints
<1> QED
  BY <1>5, <1>6, <1>7 DEF Fits

\* Nor does make_matrix, when what it reads is there.
LEMMA FitReads ==
  ASSUME NEW h, NEW P, NEW needs, Fits(h, P), h.info = 0 => Enough(h, needs),
         NEW g, g = Reads(h, needs)
  PROVE  Fits(g, P) /\ Alike(h, g, {}) /\ g.live = h.live
<1>1. CASE h.info = 0
  BY <1>1, FitUses DEF Reads
<1>2. CASE h.info # 0
  BY <1>2 DEF Reads, Alike
<1> QED
  BY <1>1, <1>2

\* A routine of LAPACK that is given enough overruns nothing; info is 0 only
\* if its dimensions were valid.
LEMMA FitLapack ==
  ASSUME NEW h, NEW P, NEW valid, NEW needs, NEW o, Fits(h, P),
         valid \in BOOLEAN, valid => Enough(h, needs),
         NEW g, g = Lapack(h, valid, needs, o)
  PROVE  /\ Fits(g, P) /\ Alike(h, g, {"err", "info"}) /\ g.live = h.live
         /\ g.info = IF valid THEN o ELSE -1
<1> DEFINE ran == IF valid THEN Uses(h, needs) ELSE h
           v == IF valid THEN o ELSE -1
           f == [ran EXCEPT !.info = v]
           X == {"info"}
<1>1. g = check_info(f, v)
  BY DEF Lapack
<1>2. Fits(ran, P) /\ Alike(h, ran, {}) /\ ran.live = h.live
  <2>1. CASE valid
    BY <2>1, FitUses
  <2>2. CASE ~valid
    BY <2>2 DEF Alike
  <2> QED
    BY <2>1, <2>2
<1> HIDE DEF ran
<1>3. DOMAIN f = Fields /\ Alike(ran, f, X) /\ f.info = v
  BY <1>2 DEF Fits, Alike, Fields
<1> HIDE DEF f
<1>4. Fits(f, P) /\ f.live = ran.live
  <2>1. X \cap {"live", "over"} = {} /\ \A d \in Ints \cap X : f[d] \in Nat
    BY DEF Ints
  <2> HIDE DEF X
  <2> QED
    BY <1>2, <1>3, <2>1, FitSet
<1>5. /\ Fits(g, P) /\ Alike(f, g, {"err"}) /\ g.live = f.live
  <2>1. CASE v < 0
    BY <1>1, <1>4, <2>1, FitRequire DEF check_info
  <2>2. CASE ~(v < 0)
    BY <1>1, <1>4, <2>2 DEF check_info, Alike
  <2> QED
    BY <2>1, <2>2
<1>6. g.info = v
  BY <1>3, <1>5 DEF Alike, Fields
<1> QED
  BY <1>2, <1>3, <1>4, <1>5, <1>6 DEF Alike

\* An allocation gives p its items, or sets the dimension to 0.
LEMMA FitAlloc ==
  ASSUME NEW h, NEW P, NEW p, NEW d \in Ints, NEW m \in Nat, Fits(h, P),
         p \notin P, NEW g, g = alloc_T(h, p, d, m)
  PROVE  Fits(g, With(P, p)) /\ Gets(h, g, p, d, h[d] * m)
<1> DEFINE a == h[d]
           s == a * m
           with == [q \in DOMAIN h.live \cup {p} |->
                      IF q = p THEN s ELSE h.live[q]]
           r == alloc_TT(h, p, a, m)
<1>0. /\ DOMAIN h = Fields /\ DOMAIN h.live \subseteq P /\ a \in Nat /\ s \in Nat
      /\ ~Live(h, p) /\ Size(h, p) = 0 /\ d \in Fields /\ d # "live" /\ d # "over"
  BY DEF Fits, Live, Size, Ints, Fields
<1>1. g = IF m # 0 /\ ~Live(r, p) THEN [r EXCEPT ![d] = 0] ELSE r
  BY DEF alloc_T
<1>2. /\ DOMAIN r = Fields /\ Alike(h, r, {"err", "live", "i"})
      /\ r.live = h.live \/ r.live = with
  <2>1. CASE a = 0 \/ m = 0
    BY <1>0, <2>1 DEF alloc_TT, Alike
  <2>2. CASE ~(a = 0 \/ m = 0) /\ (a >= wi \/ s > max_size)
    <3>1. r = Err(h, "limit")
      BY <2>2 DEF alloc_TT
    <3> QED
      BY <1>0, <3>1 DEF Err, Alike, Fields
  <2>3. CASE ~(a = 0 \/ m = 0) /\ ~(a >= wi \/ s > max_size)
    <3> DEFINE c == alloc(h, p, s)
    <3>1. r = Require(c, Live(c, p), "wsfull")
      BY <2>3 DEF alloc_TT
    <3>2. /\ DOMAIN c = Fields /\ Alike(h, c, {"err", "live", "i"})
          /\ c.live = h.live \/ c.live = with
      <4> HIDE DEF s
      <4>1. CASE h.i >= alloc_max
        <5>1. c = [h EXCEPT !.err = "abort"]
          BY <4>1 DEF alloc
        <5> QED
          BY <1>0, <5>1 DEF Alike, Fields
      <4>2. CASE ~(h.i >= alloc_max)
        <5> DEFINE j == IF h.fail[0] = 0 THEN h.i + 1 ELSE h.i
                   l == IF h.fail[0] = 0 /\ h.fail[h.i] = 1 THEN h.live ELSE with
        <5>1. c = [h EXCEPT !.i = j, !.live = l]
          BY <4>2 DEF alloc
        <5>2. DOMAIN c = Fields /\ Alike(h, c, {"live", "i"}) /\ c.live = l
          <6> HIDE DEF j, l
          <6> QED
            BY <1>0, <5>1 DEF Alike, Fields
        <5> QED
          BY <5>2 DEF Alike
      <4> QED
        BY <4>1, <4>2
    <3> HIDE DEF c
    <3>3. DOMAIN r = Fields /\ Alike(c, r, {"err"}) /\ r.live = c.live
      BY <3>1, <3>2 DEF Require, Err, Alike, Fields
    <3> QED
      BY <3>2, <3>3 DEF Alike
  <2> QED
    BY <2>1, <2>2, <2>3
<1>3. /\ DOMAIN g = Fields /\ Alike(h, g, {"err", "live", "i", d})
      /\ g.live = r.live /\ g.over = {}
      /\ g[d] = IF m # 0 /\ ~Live(r, p) THEN 0 ELSE r[d]
  <2>1. h.over = {} /\ r.over = {}
    BY <1>2 DEF Fits, Alike, Fields
  <2> HIDE DEF r
  <2>2. CASE m # 0 /\ ~Live(r, p)
    <3>1. g = [r EXCEPT ![d] = 0]
      BY <1>1, <2>2
    <3> QED
      BY <1>0, <1>2, <2>1, <2>2, <3>1 DEF Alike
  <2>3. CASE ~(m # 0 /\ ~Live(r, p))
    BY <1>1, <1>2, <2>1, <2>3 DEF Alike
  <2> QED
    BY <2>2, <2>3
<1>4. r[d] = a
  BY <1>2 DEF Alike, Ints, Fields
<1> HIDE DEF r
<1>5. CASE r.live = with
  <2>1. /\ DOMAIN g.live = DOMAIN h.live \cup {p} /\ g.live[p] = s
        /\ \A q \in DOMAIN h.live : q # p => g.live[q] = h.live[q]
    BY <1>3, <1>5
  <2>2. Kept(h, g, p) /\ Size(g, p) = s /\ Live(r, p)
    BY <1>3, <2>1 DEF Kept, Size, Live
  <2>3. g[d] = a
    BY <1>3, <1>4, <2>2
  <2> QED
    <3> HIDE DEF s, with
    <3>1. \A q : Size(g, q) \in Nat
      BY <1>0, <2>2 DEF Kept, Fits
    <3>2. \A e \in Ints : g[e] \in Nat
      BY <1>0, <1>3, <2>3 DEF Alike, Ints, Fields, Fits
    <3>3. DOMAIN g.live \subseteq With(P, p)
      BY <1>0, <2>1 DEF With
    <3>4. Fits(g, With(P, p))
      BY <1>3, <3>1, <3>2, <3>3 DEF Fits
    <3>5. Gets(h, g, p, d, s)
      BY <1>3, <2>2, <2>3 DEF Gets
    <3> QED
      BY <3>4, <3>5 DEF s
<1>6. CASE r.live = h.live
  <2>1. Kept(h, g, p) /\ Size(g, p) = 0 /\ ~Live(r, p)
    BY <1>0, <1>3, <1>6 DEF Kept, Size, Live
  <2>2. g[d] = 0 \/ (g[d] = a /\ Size(g, p) = s)
    BY <1>0, <1>3, <1>4, <2>1
  <2> QED
    <3> HIDE DEF s, with
    <3>1. \A q : Size(g, q) \in Nat
      BY <1>0, <2>1 DEF Kept, Fits
    <3>2. \A e \in Ints : g[e] \in Nat
      BY <1>0, <1>3, <2>2 DEF Alike, Ints, Fields, Fits
    <3>3. DOMAIN g.live \subseteq With(P, p)
      BY <1>0, <1>3, <1>6 DEF With
    <3>4. Fits(g, With(P, p))
      BY <1>3, <3>1, <3>2, <3>3 DEF Fits
    <3>5. Gets(h, g, p, d, s)
      BY <1>3, <2>1, <2>2 DEF Gets
    <3> QED
      BY <3>4, <3>5 DEF s
<1> QED
  BY <1>2, <1>5, <1>6

\* A second dimension is 0 if the first is.
LEMMA FitShrink ==
  ASSUME NEW h, NEW P, NEW d \in Ints, NEW e \in Ints, Fits(h, P),
         NEW g, g = Shrink(h, d, e)
  PROVE  /\ Fits(g, P) /\ Alike(h, g, {e}) /\ \A p : Size(g, p) = Size(h, p)
         /\ g[e] = IF h[d] = 0 THEN 0 ELSE h[e]
<1> DEFINE X == {e}
<1>1. CASE h[d] = 0
  <2>1. g = [h EXCEPT ![e] = 0]
    BY <1>1 DEF Shrink
  <2>2. e \in Fields /\ X \cap {"live", "over"} = {}
    BY DEF Ints, Fields
  <2>3. DOMAIN g = Fields /\ Alike(h, g, X) /\ g[e] = 0
    BY <2>1, <2>2 DEF Alike, Fits
  <2>4. \A c \in Ints \cap X : g[c] \in Nat
    BY <2>3
  <2>5. Fits(g, P) /\ \A p : Size(g, p) = Size(h, p)
    <3> HIDE DEF X
    <3> QED
      BY <2>2, <2>3, <2>4, FitSet
  <2> QED
    BY <1>1, <2>3, <2>5
<1>2. CASE h[d] # 0
  BY <1>2 DEF Shrink, Alike
<1> QED
  BY <1>1, <1>2

\* A square matrix in a, for which there is room.
SquareFits(h) == h.n * h.n <= Size(h, "a")

\* take_square_matrix leaves a square matrix in a, which has the rows of x if
\* it has any.
LEMMA FitSquare ==
  ASSUME NEW h, NEW x, Fits(h, {}), IsValue(x),
         NEW g, g = take_square_matrix(h, x)
  PROVE  /\ Fits(g, With({}, "a")) /\ SquareFits(g)
         /\ g.n # 0 => g.n = Height(x)
<1> DEFINE k == convert_FF(x)
           ok == k # NULL /\ k.v # <<>>
           c1 == Require(h, ok, "type")
           len == IF ok THEN Len(k.v) ELSE 0
           c2 == [c1 EXCEPT !.n = len]
           c3 == alloc_FF(c2, "a", "n", "n")
           c4 == SquareRows(c3, k)
           c5 == Uses(c4, [a |-> c4.n * c4.n])
           P == With({}, "a")
           X == {"n"}
           Y == {"a", "triangular"}
<1>0. g = [c5 EXCEPT !.a = [o \in 0..(c4.n * c4.n - 1) |->
                              Row(k, o % c4.n)[(o \div c4.n) + 1]],
                     !.triangular = triangular(k, c4.n)]
  BY DEF take_square_matrix, FillSquare
<1>1. len \in Nat /\ (len # 0 => len = Height(x))
  BY LenProperties DEF IsValue, Rows, Height
<1> HIDE DEF len
<1>2. Fits(c1, {})
  BY FitRequire
<1> HIDE DEF c1
<1>3. DOMAIN c2 = Fields /\ Alike(c1, c2, X) /\ c2.n = len
  BY <1>2 DEF Fits, Alike, Fields
<1> HIDE DEF c2
<1>4. Fits(c2, {})
  <2>1. X \cap {"live", "over"} = {} /\ \A d \in Ints \cap X : c2[d] \in Nat
    BY <1>1, <1>3
  <2> HIDE DEF X
  <2> QED
    BY <1>2, <1>3, <2>1, FitSet
<1>5. /\ Fits(c3, P) /\ c3.n * c3.n <= Size(c3, "a")
      /\ c3.n = 0 \/ c3.n = len
  <2>1. c3 = alloc_T(c2, "a", "n", c2.n) /\ "n" \in Ints /\ c2.n \in Nat
        /\ c2["n"] = c2.n
    BY <1>1, <1>3 DEF alloc_FF, Ints
  <2>2. "a" \notin {}
    OBVIOUS
  <2>3. Fits(c3, With({}, "a")) /\ Gets(c2, c3, "a", "n", c2["n"] * c2.n)
    <3> HIDE DEF c3
    <3> QED
      BY <1>4, <2>1, <2>2, FitAlloc
  <2> HIDE DEF c3
  <2> QED
    BY <1>1, <1>3, <2>3 DEF Gets, Fits
<1> HIDE DEF c3
<1>6. Fits(c4, P) /\ SquareFits(c4) /\ (c4.n = 0 \/ c4.n = len)
  <2> DEFINE f == Err(c3, "length")
  <2>1. Fits(f, P) /\ Alike(c3, f, {"err"}) /\ f.live = c3.live
    BY <1>5, FitRequire
  <2> HIDE DEF f
  <2>2. CASE c4 = [f EXCEPT !.n = 0]
    <3>1. DOMAIN c4 = Fields /\ Alike(f, c4, X) /\ c4.n = 0
      BY <2>1, <2>2 DEF Fits, Alike, Fields
    <3>2. X \cap {"live", "over"} = {} /\ \A d \in Ints \cap X : c4[d] \in Nat
      BY <3>1
    <3>3. Fits(c4, P)
      <4> HIDE DEF X, c4
      <4> QED
        BY <2>1, <3>1, <3>2, FitSet
    <3> QED
      BY <3>1, <3>3 DEF SquareFits, Fits
  <2>3. CASE c4 = c3
    BY <1>5, <2>3 DEF SquareFits
  <2> QED
    BY <2>2, <2>3 DEF SquareRows, f
<1> HIDE DEF c4
<1>7. Fits(c5, P) /\ Alike(c4, c5, {}) /\ c5.live = c4.live
  <2>1. Enough(c4, [a |-> c4.n * c4.n])
    BY <1>6 DEF SquareFits, Fits, Enough, Ints
  <2> QED
    BY <1>6, <2>1, FitUses
<1> HIDE DEF c5, k
<1>9. DOMAIN g = Fields /\ Alike(c5, g, Y)
  BY <1>7, <1>0 DEF Fits, Alike, Fields
<1>10. Fits(g, P) /\ \A p : Size(g, p) = Size(c5, p)
  <2>1. Y \cap {"live", "over"} = {} /\ \A d \in Ints \cap Y : g[d] \in Nat
    BY DEF Ints
  <2> HIDE DEF Y
  <2> QED
    BY <1>7, <1>9, <2>1, FitSet
<1>11. g.n = c4.n /\ Size(g, "a") = Size(c4, "a")
  BY <1>7, <1>9, <1>10 DEF Alike, Fields, Size, Live
<1> QED
  BY <1>1, <1>6, <1>10, <1>11 DEF SquareFits, P

\* Where a matrix is put, in different variables, d being the least leading
\* dimension; and what changes then.
Placed(v, d) ==
    /\ v.m \in {"m", "b_m"} /\ v.n \in {"n", "b_n"} /\ v.a \in {"a", "b"}
    /\ v.ldr \in {v.m, "ldb"}
    /\ d \in Nat /\ (v.ldr = v.m => d = 0)
Places(v) == {"err", "live", "i", "column", "nm", v.m, v.n, v.ldr, v.a}

\* There is room for the columns of the matrix, of ldr items, and the rows of
\* the matrix are no more.
Filled(h, v) == h[v.m] <= h[v.ldr] /\ h[v.n] * h[v.ldr] <= Size(h, v.a)

\* The dimensions are those of an argument, unless there are no rows.
Sized(h, v, rows, cols) == h[v.m] # 0 => h[v.m] = rows /\ h[v.n] = cols

\* There is a place for the matrix in h, and g has it there.
Vacant(h, P, v, d) ==
    Fits(h, P) /\ Placed(v, d) /\ v.a \notin P /\ h[v.ldr] = d
Stored(h, g, P, v, rows, cols, column) ==
    /\ Fits(g, With(P, v.a)) /\ Filled(g, v) /\ Sized(g, v, rows, cols)
    /\ Alike(h, g, Places(v)) /\ Kept(h, g, v.a)
    /\ g.column = TRUE => g[v.n] = 1
    /\ column = "square" => g[v.m] * g[v.ldr] <= Size(g, v.a)

\* A vector is taken as a column.
LEMMA FitColumn ==
  ASSUME NEW h, NEW P, NEW v, NEW d, NEW c, Vacant(h, P, v, d), Len(c) \in Nat,
         NEW g, g = TakeColumn(h, c, v)
  PROVE  Stored(h, g, P, v, Len(c), 1, "ask")
<1>0. Fits(h, P) /\ Placed(v, d) /\ v.a \notin P /\ h[v.ldr] = d
  BY DEF Vacant
<1> DEFINE l == max_i(d, Len(c))
           X == {v.m, v.n, v.ldr}
           h1 == [h EXCEPT ![v.ldr] = max_i(h[v.ldr], Len(c)), ![v.m] = Len(c),
                           ![v.n] = 1]
           h2 == alloc_F(h1, v.a, v.ldr)
           h3 == Shrink(h2, v.ldr, v.m)
           needs == [p \in {v.a} |-> h3[v.m]]
           h4 == Uses(h3, needs)
           data == [o \in 0..(h3[v.ldr] - 1) |->
                       IF o < Len(c) THEN c[o + 1] ELSE Unknown]
           Y == {"column", v.a}
           Q == With(P, v.a)
<1>1. g = [h4 EXCEPT !.column = TRUE, ![v.a] = data]
  BY DEF TakeColumn, FillColumn
<1>2. /\ l \in Nat /\ l >= Len(c) /\ d \in Nat /\ (v.ldr = v.m => l = Len(c))
      /\ DOMAIN h = Fields
  BY <1>0, MaxNat DEF Placed, max_i, Fits
<1>3. /\ v.m \in Fields /\ v.n \in Fields /\ v.ldr \in Fields /\ v.a \in Fields
      /\ v.n # v.m /\ v.n # v.ldr /\ v.m \in Ints /\ v.ldr \in Ints /\ v.n \in Ints
      /\ v.a \notin {"err", "live", "fail", "i", "over", "column"} \cup Ints
      /\ X \cap {"live", "over"} = {} /\ Y \cap ({"live", "over"} \cup Ints) = {}
  BY <1>0 DEF Placed, Fields, Ints
<1>4. /\ DOMAIN h1 = Fields /\ Alike(h, h1, X)
      /\ h1[v.m] = Len(c) /\ h1[v.n] = 1 /\ h1[v.ldr] = l
  BY <1>0, <1>2, <1>3 DEF Alike
<1> HIDE DEF h1, l, data
<1>5. Fits(h1, P) /\ \A p : Size(h1, p) = Size(h, p)
  <2>1. \A e \in Ints \cap X : h1[e] \in Nat
    BY <1>2, <1>4
  <2> HIDE DEF X
  <2> QED
    BY <1>0, <1>3, <1>4, <2>1, FitSet
<1>6. /\ Fits(h2, Q)
      /\ Alike(h1, h2, {"err", "live", "i", v.ldr}) /\ Kept(h1, h2, v.a)
      /\ h2[v.ldr] = 0 \/ (h2[v.ldr] = l /\ Size(h2, v.a) = l)
  <2> DEFINE e == v.ldr
             p == v.a
  <2>1. h2 = alloc_T(h1, p, e, 1) /\ 1 \in Nat /\ e \in Ints /\ p \notin P
    BY <1>0, <1>3 DEF alloc_F
  <2> HIDE DEF e, p
  <2>2. Fits(h2, With(P, p)) /\ Gets(h1, h2, p, e, h1[e] * 1)
    BY <1>5, <2>1, FitAlloc
  <2>3. h1[e] = l
    BY <1>4 DEF e
  <2>4. /\ Alike(h1, h2, {"err", "live", "i", e}) /\ Kept(h1, h2, p)
        /\ h2[e] = 0 \/ (h2[e] = l /\ Size(h2, p) = l)
    BY <1>2, <2>2, <2>3 DEF Gets
  <2> QED
    BY <2>2, <2>4 DEF e, p, Q
<1> HIDE DEF h2
<1>7. /\ Fits(h3, Q) /\ Alike(h2, h3, {v.m}) /\ \A p : Size(h3, p) = Size(h2, p)
      /\ h3[v.m] = IF h2[v.ldr] = 0 THEN 0 ELSE h2[v.m]
  <2> DEFINE e == v.ldr
             f == v.m
  <2>1. h3 = Shrink(h2, e, f) /\ e \in Ints /\ f \in Ints
    BY <1>3
  <2>3. Fits(h2, Q)
    BY <1>6
  <2> HIDE DEF e, f, h3, Q
  <2>2. Fits(h3, Q) /\ Alike(h2, h3, {f})
    BY <2>1, <2>3, FitShrink
  <2>4. \A p : Size(h3, p) = Size(h2, p)
    BY <2>1, <2>2 DEF Alike, Size, Live, Ints, Fields
  <2>5. h3[f] = IF h2[e] = 0 THEN 0 ELSE h2[f]
    BY <2>1, <2>3 DEF Shrink, Fits, Ints, Fields
  <2> QED
    BY <2>2, <2>4, <2>5 DEF e, f
<1> HIDE DEF h3
<1>8. /\ h3[v.n] = 1
      /\ h3[v.m] = 0 \/ h3[v.m] = Len(c)
      /\ h3[v.ldr] = 0 \/ h3[v.ldr] = l
      /\ h3[v.ldr] = 0 => h3[v.m] = 0
      /\ h3[v.ldr] # 0 => Size(h3, v.a) = l
  <2>1. /\ v.n \notin {"err", "live", "i", v.ldr, v.m}
        /\ v.m # v.ldr => v.m \notin {"err", "live", "i", v.ldr} /\ v.ldr # v.m
    BY <1>3 DEF Ints
  <2>2. h2[v.n] = 1 /\ (v.m # v.ldr => h2[v.m] = Len(c))
    BY <1>3, <1>4, <1>6, <2>1 DEF Alike
  <2>3. h3[v.n] = 1 /\ (v.m # v.ldr => h3[v.ldr] = h2[v.ldr])
    BY <1>3, <1>7, <2>1, <2>2 DEF Alike
  <2>4. Size(h3, v.a) = Size(h2, v.a)
    BY <1>7
  <2>5. CASE v.m = v.ldr
    BY <1>2, <1>6, <1>7, <2>3, <2>4, <2>5
  <2>6. CASE v.m # v.ldr
    BY <1>2, <1>6, <1>7, <2>2, <2>3, <2>4, <2>6
  <2> QED
    BY <2>5, <2>6
<1>9. h3[v.m] <= h3[v.ldr] /\ h3[v.m] <= Size(h3, v.a) /\ h3[v.ldr] <= Size(h3, v.a)
      /\ h3[v.m] \in Nat /\ h3[v.ldr] \in Nat
  BY <1>2, <1>7, <1>8 DEF Fits
<1>10. Fits(h4, Q) /\ Alike(h3, h4, {}) /\ h4.live = h3.live
  <2>1. Enough(h3, needs)
    BY <1>7, <1>9 DEF Enough, Fits
  <2> HIDE DEF needs
  <2> QED
    BY <1>7, <2>1, FitUses
<1> HIDE DEF h4, needs
<1>11. DOMAIN g = Fields /\ Alike(h4, g, Y) /\ g.column = TRUE
  BY <1>1, <1>3, <1>10 DEF Fits, Alike, Fields
<1>12. Fits(g, Q) /\ \A p : Size(g, p) = Size(h4, p)
  <2>1. \A e \in Ints \cap Y : g[e] \in Nat
    BY <1>3
  <2> HIDE DEF Y
  <2> QED
    BY <1>3, <1>10, <1>11, <2>1, FitSet
<1>13. g[v.m] = h3[v.m] /\ g[v.n] = 1 /\ g[v.ldr] = h3[v.ldr]
  BY <1>3, <1>8, <1>10, <1>11 DEF Alike, Ints
<1>14. \A p : Size(g, p) = Size(h3, p)
  BY <1>10, <1>12 DEF Size, Live
<1>15. Filled(g, v) /\ Sized(g, v, Len(c), 1)
  BY <1>8, <1>9, <1>13, <1>14 DEF Filled, Sized
<1>16. Alike(h, g, Places(v))
  BY <1>4, <1>6, <1>7, <1>10, <1>11 DEF Alike, Places
<1>17. Kept(h, g, v.a)
  BY <1>5, <1>6, <1>7, <1>14 DEF Kept
<1> QED
  BY <1>11, <1>12, <1>13, <1>15, <1>16, <1>17 DEF Q, Stored

\* The product of two numbers grows with them.
LEMMA MoreItems ==
  ASSUME NEW a \in Nat, NEW b \in Nat, NEW c \in Nat, a <= b
  PROVE  a * c <= b * c
OBVIOUS

\* A matrix is taken with room for its columns, and for its rows again.
LEMMA FitMatrix ==
  ASSUME NEW h, NEW P, NEW v, NEW d, NEW x, NEW column, Vacant(h, P, v, d),
         IsValue(x), NEW g, g = TakeMatrix(h, convert_FF(x), v, column)
  PROVE  Stored(h, g, P, v, Height(x), Width(x), column)
<1>0. Fits(h, P) /\ Placed(v, d) /\ v.a \notin P /\ h[v.ldr] = d
  BY DEF Vacant
<1> DEFINE k == convert_FF(x)
           ok == k # NULL /\ k.v # <<>> /\ Row(k, 0) # <<>>
           even == \A j \in DOMAIN k.v : Len(k.v[j].v) = Len(Row(k, 0))
           rows == IF ok /\ even THEN Len(k.v) ELSE 0
           cols == IF ok /\ even THEN Len(Row(k, 0)) ELSE 0
           l == max_i(h[v.ldr], rows)
           nm == IF column = "square" THEN max_i(rows, cols) ELSE cols
           e1 == Require(h, ok, "type")
           e2 == Require(e1, ok => even, "length")
           h1 == [e2 EXCEPT ![v.m] = rows, ![v.n] = cols, ![v.ldr] = l,
                            !.nm = nm]
           h2 == alloc_FF(h1, v.a, "nm", v.ldr)
           h3 == Shrink(h2, "nm", v.m)
           h4 == Shrink(h3, "nm", v.n)
           needs == [p \in {v.a} |-> h4[v.n] * h4[v.ldr]]
           h5 == Uses(h4, needs)
           data == [o \in 0..(h4.nm * h4[v.ldr] - 1) |->
                      IF o % h4[v.ldr] < h4[v.m] /\ o \div h4[v.ldr] < h4[v.n]
                      THEN Row(k, o % h4[v.ldr])[(o \div h4[v.ldr]) + 1]
                      ELSE Unknown]
           X == {v.m, v.n, v.ldr, "nm"}
           Y == {"column", v.a}
           Q == With(P, v.a)
<1>1. g = [h5 EXCEPT !.column = FALSE, ![v.a] = data]
  <2>1. h1 = MatrixRows(h, k, v, column)
    BY DEF MatrixRows
  <2> HIDE DEF h1
  <2> QED
    BY <2>1 DEF TakeMatrix, FillMatrix
<1>2. /\ rows \in Nat /\ cols \in Nat
      /\ rows # 0 => rows = Height(x) /\ cols = Width(x)
  <2>1. CASE ok /\ even
    <3>1. k.v \in Seq(Floats1) /\ Len(k.v) \in Nat /\ Len(k.v) > 0
      BY <2>1, LenProperties, EmptySeq DEF IsValue
    <3>2. k.v[1] \in Floats1
      BY <3>1, ElementOfSeq
    <3>3. Len(k.v[1].v) \in Nat
      BY <3>2, LenProperties DEF Floats1
    <3>4. rows = Len(k.v) /\ cols = Len(k.v[1].v)
      BY <2>1 DEF Row
    <3> QED
      BY <3>1, <3>3, <3>4 DEF Height, Width, Rows
  <2>2. CASE ~(ok /\ even)
    BY <2>2
  <2> QED
    BY <2>1, <2>2
<1>3. /\ l \in Nat /\ l >= rows /\ nm \in Nat /\ nm >= cols
      /\ column = "square" => nm >= rows
      /\ v.ldr = v.m => l = rows
  BY <1>0, <1>2, MaxNat DEF Placed, max_i, Fits, Ints
<1>4. Fits(e2, P) /\ Alike(h, e2, {"err"}) /\ e2.live = h.live
  <2>1. Fits(e1, P) /\ Alike(h, e1, {"err"}) /\ e1.live = h.live
    BY <1>0, FitRequire
  <2> HIDE DEF e1, even
  <2>2. Fits(e2, P) /\ Alike(e1, e2, {"err"}) /\ e2.live = e1.live
    BY <2>1, FitRequire
  <2> QED
    BY <2>1, <2>2 DEF Alike
<1> HIDE DEF rows, cols, nm, l, e2, data
<1>5. /\ v.m \in Fields /\ v.n \in Fields /\ v.ldr \in Fields /\ v.a \in Fields
      /\ v.n # v.m /\ v.n # v.ldr /\ v.m \in Ints /\ v.ldr \in Ints /\ v.n \in Ints
      /\ v.m # "nm" /\ v.n # "nm" /\ v.ldr # "nm" /\ "nm" \in Ints /\ "nm" \in Fields
      /\ v.a \notin {"err", "live", "fail", "i", "over", "column"} \cup Ints
      /\ X \cap {"live", "over"} = {} /\ Y \cap ({"live", "over"} \cup Ints) = {}
  BY <1>0 DEF Placed, Fields, Ints
<1>6. /\ DOMAIN h1 = Fields /\ Alike(e2, h1, X)
      /\ h1[v.m] = rows /\ h1[v.n] = cols /\ h1[v.ldr] = l /\ h1.nm = nm
  <2>1. DOMAIN e2 = Fields
    BY <1>4 DEF Fits
  <2> QED
    BY <1>3, <1>5, <2>1 DEF Alike
<1> HIDE DEF h1
<1>7. Fits(h1, P) /\ \A p : Size(h1, p) = Size(h, p)
  <2>1. \A e \in Ints \cap X : h1[e] \in Nat
    BY <1>2, <1>3, <1>6
  <2>2. Fits(h1, P) /\ h1.live = e2.live
    <3> HIDE DEF X
    <3> QED
      BY <1>4, <1>5, <1>6, <2>1, FitSet
  <2> QED
    BY <1>4, <2>2 DEF Size, Live
<1>8. /\ Fits(h2, Q)
      /\ Alike(h1, h2, {"err", "live", "i", "nm"}) /\ Kept(h1, h2, v.a)
      /\ h2.nm = 0 \/ (h2.nm = nm /\ Size(h2, v.a) = nm * l)
  <2> DEFINE e == h1[v.ldr]
             p == v.a
  <2>1. h2 = alloc_T(h1, p, "nm", e) /\ e \in Nat /\ "nm" \in Ints /\ p \notin P
    BY <1>0, <1>3, <1>5, <1>6 DEF alloc_FF
  <2> HIDE DEF e, p
  <2>2. Fits(h2, With(P, p)) /\ Gets(h1, h2, p, "nm", h1["nm"] * e)
    BY <1>7, <2>1, FitAlloc
  <2> QED
    BY <1>6, <2>2 DEF Gets, e, p
<1> HIDE DEF h2
<1>9. /\ Fits(h3, Q) /\ Alike(h2, h3, {v.m}) /\ \A p : Size(h3, p) = Size(h2, p)
      /\ h3[v.m] = IF h2.nm = 0 THEN 0 ELSE h2[v.m]
  <2> DEFINE e == v.m
  <2>1. h3 = Shrink(h2, "nm", e) /\ e \in Ints /\ "nm" \in Ints
    BY <1>5
  <2>3. Fits(h2, Q)
    BY <1>8
  <2> HIDE DEF e, h3, Q
  <2>2. Fits(h3, Q) /\ Alike(h2, h3, {e})
    BY <2>1, <2>3, FitShrink
  <2>4. \A p : Size(h3, p) = Size(h2, p)
    BY <2>1, <2>2 DEF Alike, Size, Live, Ints, Fields
  <2>5. h3[e] = IF h2["nm"] = 0 THEN 0 ELSE h2[e]
    BY <2>1, <2>3 DEF Shrink, Fits, Ints, Fields
  <2> QED
    BY <2>2, <2>4, <2>5 DEF e
<1> HIDE DEF h3
<1>10. /\ Fits(h4, Q) /\ Alike(h3, h4, {v.n}) /\ \A p : Size(h4, p) = Size(h3, p)
       /\ h4[v.n] = IF h3.nm = 0 THEN 0 ELSE h3[v.n]
  <2> DEFINE e == v.n
  <2>1. h4 = Shrink(h3, "nm", e) /\ e \in Ints /\ "nm" \in Ints
    BY <1>5
  <2>3. Fits(h3, Q)
    BY <1>9
  <2> HIDE DEF e, h4, Q
  <2>2. Fits(h4, Q) /\ Alike(h3, h4, {e})
    BY <2>1, <2>3, FitShrink
  <2>4. \A p : Size(h4, p) = Size(h3, p)
    BY <2>1, <2>2 DEF Alike, Size, Live, Ints, Fields
  <2>5. h4[e] = IF h3["nm"] = 0 THEN 0 ELSE h3[e]
    BY <2>1, <2>3 DEF Shrink, Fits, Ints, Fields
  <2> QED
    BY <2>2, <2>4, <2>5 DEF e
<1> HIDE DEF h4
<1>11. /\ h4.nm = h2.nm /\ h3.nm = h2.nm
       /\ h4[v.m] = IF h2.nm = 0 THEN 0 ELSE rows
       /\ h4[v.n] = IF h2.nm = 0 THEN 0 ELSE cols
       /\ v.ldr # v.m => h4[v.ldr] = l
       /\ Size(h4, v.a) = Size(h2, v.a)
  <2>1. /\ v.m \notin {"err", "live", "i", "nm"} /\ v.n \notin {"err", "live", "i", "nm"}
        /\ v.ldr \notin {"err", "live", "i", "nm"} /\ v.n # v.m /\ v.n # v.ldr
    BY <1>5 DEF Ints
  <2>2. h2[v.m] = rows /\ h2[v.n] = cols /\ h2[v.ldr] = l
    BY <1>5, <1>6, <1>8, <2>1 DEF Alike
  <2>3. h3.nm = h2.nm /\ h3[v.n] = cols /\ (v.ldr # v.m => h3[v.ldr] = l)
    BY <1>5, <1>9, <2>1, <2>2 DEF Alike
  <2>4. h4.nm = h3.nm /\ h4[v.m] = h3[v.m] /\ (v.ldr # v.m => h4[v.ldr] = l)
    BY <1>5, <1>10, <2>1, <2>3 DEF Alike
  <2> QED
    BY <1>9, <1>10, <2>2, <2>3, <2>4
<1>12. /\ h4[v.m] <= h4[v.ldr] /\ h4[v.n] * h4[v.ldr] <= Size(h4, v.a)
       /\ column = "square" => h4[v.m] * h4[v.ldr] <= Size(h4, v.a)
       /\ h4[v.n] * h4[v.ldr] \in Nat
  <2>1. CASE h2.nm = 0
    <3>1. h4[v.m] = 0 /\ h4[v.n] = 0 /\ h4[v.ldr] \in Nat /\ Size(h4, v.a) \in Nat
      BY <1>5, <1>10, <1>11, <2>1 DEF Fits
    <3> QED
      BY <3>1
  <2>2. CASE h2.nm # 0
    <3>1. /\ h4[v.m] = rows /\ h4[v.n] = cols /\ h4[v.ldr] = l
          /\ Size(h4, v.a) = nm * l
      BY <1>3, <1>8, <1>11, <2>2
    <3>2. cols * l <= nm * l /\ (column = "square" => rows * l <= nm * l)
      BY <1>2, <1>3, MoreItems
    <3> QED
      BY <1>2, <1>3, <3>1, <3>2
  <2> QED
    BY <2>1, <2>2
<1>13. Fits(h5, Q) /\ Alike(h4, h5, {}) /\ h5.live = h4.live
  <2>1. Enough(h4, needs)
    BY <1>10, <1>12 DEF Enough, Fits
  <2> HIDE DEF needs
  <2> QED
    BY <1>10, <2>1, FitUses
<1> HIDE DEF h5, needs
<1>14. DOMAIN g = Fields /\ Alike(h5, g, Y) /\ g.column = FALSE
  BY <1>1, <1>5, <1>13 DEF Fits, Alike, Fields
<1>15. Fits(g, Q) /\ \A p : Size(g, p) = Size(h5, p)
  <2>1. \A e \in Ints \cap Y : g[e] \in Nat
    BY <1>5
  <2> HIDE DEF Y
  <2> QED
    BY <1>5, <1>13, <1>14, <2>1, FitSet
<1>16. g[v.m] = h4[v.m] /\ g[v.n] = h4[v.n] /\ g[v.ldr] = h4[v.ldr]
  BY <1>5, <1>13, <1>14 DEF Alike
<1>17. \A p : Size(g, p) = Size(h4, p)
  BY <1>13, <1>15 DEF Size, Live
<1>18. /\ Filled(g, v) /\ Sized(g, v, Height(x), Width(x))
       /\ column = "square" => g[v.m] * g[v.ldr] <= Size(g, v.a)
  BY <1>2, <1>11, <1>12, <1>16, <1>17 DEF Filled, Sized
<1>19. Alike(h, g, Places(v))
  BY <1>4, <1>6, <1>8, <1>9, <1>10, <1>13, <1>14 DEF Alike, Places
<1>20. Kept(h, g, v.a)
  BY <1>7, <1>8, <1>9, <1>17, <1>10 DEF Kept
<1> QED
  BY <1>14, <1>15, <1>18, <1>19, <1>20 DEF Q, Stored

\* take_matrix leaves a matrix or a column for which there is room.
LEMMA FitTake ==
  ASSUME NEW h, NEW P, NEW v, NEW d, NEW x, NEW column, Fits(h, P), Placed(v, d),
         v.a \notin P, IsValue(x), NEW g, g = take_matrix(h, x, v, d, column)
  PROVE  /\ column # "ask" => Stored(h, g, P, v, Height(x), Width(x), column)
         /\ column = "ask" => Stored(h, g, P, v, SideLen(x), SideWidth(x), column)
<1> DEFINE f == [h EXCEPT ![v.ldr] = d]
           X == {v.ldr}
           takes == column = "ask" /\ convert_F(x) # NULL
           c == convert_F(x).v
<1>1. g = IF takes THEN TakeColumn(f, c, v) ELSE TakeMatrix(f, convert_FF(x), v, column)
  BY DEF take_matrix
<1>2. v.ldr \in Fields /\ v.ldr \notin {"live", "over"} /\ d \in Nat
  BY DEF Placed, Fields
<1>3. DOMAIN f = Fields /\ Alike(h, f, X) /\ f[v.ldr] = d
  BY <1>2 DEF Fits, Alike
<1> HIDE DEF f
<1>4. Fits(f, P) /\ \A p : Size(f, p) = Size(h, p)
  <2>1. X \cap {"live", "over"} = {} /\ \A e \in Ints \cap X : f[e] \in Nat
    BY <1>2, <1>3
  <2> HIDE DEF X
  <2> QED
    BY <1>3, <2>1, FitSet
<1>5. Vacant(f, P, v, d)
  BY <1>3, <1>4 DEF Vacant
<1>6. ASSUME NEW rows, NEW cols, Stored(f, g, P, v, rows, cols, column)
      PROVE  Stored(h, g, P, v, rows, cols, column)
  <2>1. Alike(h, g, Places(v))
    BY <1>3, <1>6 DEF Alike, Places, Stored
  <2>2. Kept(h, g, v.a)
    BY <1>4, <1>6 DEF Kept, Stored
  <2> QED
    BY <1>6, <2>1, <2>2 DEF Stored
<1>7. CASE takes
  <2>1. Len(c) \in Nat
    BY <1>7, LenProperties DEF IsValue
  <2>2. SideLen(x) = Len(c) /\ SideWidth(x) = 1 /\ column = "ask"
    BY <1>7 DEF SideLen, SideWidth
  <2>3. g = TakeColumn(f, c, v)
    BY <1>1, <1>7
  <2> HIDE DEF c
  <2>4. Stored(f, g, P, v, Len(c), 1, "ask")
    BY <1>5, <2>1, <2>3, FitColumn
  <2> QED
    BY <1>6, <2>2, <2>4
<1>8. CASE ~takes
  <2>1. column = "ask" => SideLen(x) = Height(x) /\ SideWidth(x) = Width(x)
    BY <1>8 DEF SideLen, SideWidth
  <2>2. g = TakeMatrix(f, convert_FF(x), v, column)
    BY <1>1, <1>8
  <2>3. Stored(f, g, P, v, Height(x), Width(x), column)
    BY <1>5, <2>2, FitMatrix
  <2> QED
    BY <1>6, <2>1, <2>3
<1> QED
  BY <1>7, <1>8

\* A function starts with no buffers.
LEMMA FitStart == Fits(Heap0, {})
<1>1. DOMAIN Heap0 = Fields /\ Heap0.over = {} /\ DOMAIN Heap0.live = {}
  BY DEF Heap0, Fields
<1>2. \A d \in Ints : Heap0[d] \in Nat
  BY DEF Heap0, Ints
<1>3. \A p : Size(Heap0, p) \in Nat
  BY <1>1 DEF Size, Live
<1> QED
  BY <1>1, <1>2, <1>3 DEF Fits

\* The matrix of a function is in a,
FirstThere(g, x, column) ==
    /\ Fits(g, With({}, "a")) /\ g.n * g.m <= Size(g, "a")
    /\ column = "square" => g.m * g.m <= Size(g, "a")
    /\ g.m # 0 => g.m = Height(x) /\ g.n = Width(x)

LEMMA FitFirst ==
  ASSUME NEW x, NEW column, column # "ask", IsValue(x),
         NEW g, g = take_matrix(Heap0, x, A, 0, column)
  PROVE  FirstThere(g, x, column)
<1> DEFINE v == A
           P == {}
           h == Heap0
           d == 0
<1>1. /\ v.m = "m" /\ v.n = "n" /\ v.ldr = "m" /\ v.a = "a"
      /\ Placed(v, d) /\ v.a \notin P
  BY DEF A, Placed
<1>2. Fits(h, P) /\ g = take_matrix(h, x, v, d, column)
  BY FitStart
<1> HIDE DEF v, P, h, d
<1>3. Stored(h, g, P, v, Height(x), Width(x), column)
  BY <1>1, <1>2, FitTake
<1>4. /\ Fits(g, With(P, "a")) /\ g["n"] * g["m"] <= Size(g, "a")
      /\ column = "square" => g["m"] * g["m"] <= Size(g, "a")
      /\ g["m"] # 0 => g["m"] = Height(x) /\ g["n"] = Width(x)
  BY <1>1, <1>3 DEF Filled, Sized, Stored
<1> QED
  BY <1>4 DEF P, FirstThere

\* and its right side, if it has one, in b.
SideThere(h, g, P, y) ==
    /\ Fits(g, With(P, "b")) /\ g.b_n * g.b_m <= Size(g, "b")
    /\ Alike(h, g, {"err", "live", "i", "column", "nm", "b_m", "b_n", "b"})
    /\ Kept(h, g, "b") /\ (g.column = TRUE => g.b_n = 1)
    /\ g.b_m # 0 => g.b_m = SideLen(y) /\ g.b_n = SideWidth(y)

LEMMA FitSide ==
  ASSUME NEW h, NEW P, NEW y, Fits(h, P), "b" \notin P, IsValue(y),
         NEW g, g = take_matrix(h, y, B, 0, "ask")
  PROVE  SideThere(h, g, P, y)
<1> DEFINE v == B
           d == 0
           column == "ask"
<1>1. /\ v.m = "b_m" /\ v.n = "b_n" /\ v.ldr = "b_m" /\ v.a = "b"
      /\ Placed(v, d) /\ v.a \notin P
  BY DEF B, Placed
<1>2. g = take_matrix(h, y, v, d, column) /\ column = "ask"
  OBVIOUS
<1> HIDE DEF v, d, column
<1>3. Stored(h, g, P, v, SideLen(y), SideWidth(y), column)
  BY <1>1, <1>2, FitTake
<1>4. /\ Fits(g, With(P, "b")) /\ Alike(h, g, Places(v)) /\ Kept(h, g, "b")
      /\ g["b_n"] * g["b_m"] <= Size(g, "b")
      /\ g["b_m"] # 0 => g["b_m"] = SideLen(y) /\ g["b_n"] = SideWidth(y)
      /\ g.column = TRUE => g["b_n"] = 1
  BY <1>1, <1>3 DEF Filled, Sized, Stored
<1>5. Places(v) = {"err", "live", "i", "column", "nm", "b_m", "b_n", "b"}
  BY <1>1 DEF Places
<1> QED
  BY <1>4, <1>5 DEF SideThere

\* The right side of mlsq has ldb rows.
RightThere(h, g, P) ==
    /\ Fits(g, With(P, "b")) /\ g.b_n * g.ldb <= Size(g, "b")
    /\ Alike(h, g, {"err", "live", "i", "column", "nm", "b_m", "b_n", "ldb", "b"})
    /\ Kept(h, g, "b") /\ (g.column = TRUE => g.b_n = 1)

LEMMA FitRight ==
  ASSUME NEW h, NEW P, NEW y, Fits(h, P), "b" \notin P, IsValue(y),
         NEW g, g = mlsq_right(h, y)
  PROVE  RightThere(h, g, P)
<1> DEFINE v == Right
           d == h.n
           column == "ask"
<1>1. /\ v.m = "b_m" /\ v.n = "b_n" /\ v.ldr = "ldb" /\ v.a = "b"
      /\ Placed(v, d) /\ v.a \notin P
  BY DEF Right, B, Placed, Fits, Ints
<1>2. g = take_matrix(h, y, v, d, column) /\ column = "ask"
  BY DEF mlsq_right
<1> HIDE DEF v, d, column
<1>3. Stored(h, g, P, v, SideLen(y), SideWidth(y), column)
  BY <1>1, <1>2, FitTake
<1>4. /\ Fits(g, With(P, "b")) /\ Alike(h, g, Places(v)) /\ Kept(h, g, "b")
      /\ g["b_n"] * g["ldb"] <= Size(g, "b") /\ g["b_m"] <= g["ldb"]
      /\ g.column = TRUE => g["b_n"] = 1
  BY <1>1, <1>3 DEF Filled, Stored
<1>5. Places(v) = {"err", "live", "i", "column", "nm", "b_m", "b_n", "ldb", "b"}
  BY <1>1 DEF Places
<1> QED
  BY <1>4, <1>5 DEF RightThere

\* An allocation leaves a dimension as it is, with room for it, or makes it 0.
LEMMA FitGets ==
  ASSUME NEW h, NEW P, NEW p, NEW d \in Ints, NEW m \in Nat, Fits(h, P),
         p \notin P, NEW g, g = alloc_T(h, p, d, m)
  PROVE  /\ Fits(g, With(P, p)) /\ Alike(h, g, {"err", "live", "i", d})
         /\ Kept(h, g, p) /\ g[d] \in {0, h[d]} /\ g[d] * m <= Size(g, p)
<1>1. Fits(g, With(P, p)) /\ Gets(h, g, p, d, h[d] * m)
  BY FitAlloc
<1>2. Size(g, p) \in Nat /\ h[d] \in Nat
  BY <1>1 DEF Fits
<1> QED
  BY <1>1, <1>2 DEF Gets

\* A workspace has lwork items.
LEMMA FitWork ==
  ASSUME NEW h, NEW P, NEW valid, NEW work \in Nat, Fits(h, P), valid \in BOOLEAN,
         "w" \notin P, NEW g, g = alloc_W(Query(h, valid), work)
  PROVE  /\ Fits(g, With(P, "w")) /\ Kept(h, g, "w") /\ g.lwork <= Size(g, "w")
         /\ Alike(h, g, {"err", "live", "i", "lwork", "info"})
<1> DEFINE q == Query(h, valid)
           l == take_maxwork(q.info, work)
           f == [q EXCEPT !.lwork = l]
           X == {"lwork"}
<1>1. Fits(q, P) /\ Alike(h, q, {"err", "info"}) /\ q.live = h.live
  <2> DEFINE needs == <<>>
  <2>1. q = Lapack(h, valid, needs, 0) /\ Enough(h, needs)
    BY DEF Query, Enough
  <2> HIDE DEF q, needs
  <2> QED
    BY <2>1, FitLapack
<1>2. g = alloc_T(f, "w", "lwork", 1)
  BY DEF alloc_W, alloc_F
<1> HIDE DEF q
<1>3. l \in Nat
  BY DEF take_maxwork, wi
<1> HIDE DEF l
<1>4. DOMAIN f = Fields /\ Alike(q, f, X) /\ f.lwork = l
  BY <1>1 DEF Fits, Alike, Fields
<1> HIDE DEF f
<1>5. Fits(f, P) /\ \A p : Size(f, p) = Size(q, p)
  <2>1. X \cap {"live", "over"} = {} /\ \A e \in Ints \cap X : f[e] \in Nat
    BY <1>3, <1>4
  <2> HIDE DEF X
  <2> QED
    BY <1>1, <1>4, <2>1, FitSet
<1>6. /\ Fits(g, With(P, "w")) /\ Alike(f, g, {"err", "live", "i", "lwork"})
      /\ Kept(f, g, "w") /\ g["lwork"] * 1 <= Size(g, "w")
  <2>1. "lwork" \in Ints /\ 1 \in Nat
    BY DEF Ints
  <2> QED
    BY <1>2, <1>5, <2>1, FitGets
<1>7. g.lwork \in Nat
  BY <1>6 DEF Fits, Ints
<1>8. \A p : Size(f, p) = Size(h, p)
  BY <1>1, <1>5 DEF Size, Live
<1> QED
  BY <1>1, <1>4, <1>6, <1>7, <1>8 DEF Alike, Kept

\* A function frees its buffers, and what has been overrun stays so.
LEMMA DoneOver ==
  ASSUME NEW h, DOMAIN h = Fields, NEW F, NEW k, NEW r, r = Done(Free(h, F), k)
  PROVE  r.h.over = h.over
BY DEF Done, Free, Fields

LEMMA FitDone ==
  ASSUME NEW h, NEW P, Fits(h, P), NEW F, NEW k, NEW r, r = Done(Free(h, F), k)
  PROVE  r.h.over = {}
BY DoneOver DEF Fits

\* The dimensions of arguments.
Lengths == {"m", "n", "b_m", "b_n", "ldb", "min"}

\* From h to g dimensions have become 0 or stayed, and the buffers of P have
\* the size they had, so that what fitted into them still does.
Less(h, g, P) ==
    /\ \A d \in Lengths : g[d] = h[d] \/ g[d] = 0
    /\ \A p \in P : Size(g, p) = Size(h, p)
    /\ "w" \in P => g.lwork = h.lwork
    /\ g.column = h.column

LEMMA LessTrans ==
  ASSUME NEW f, NEW g, NEW h, NEW P, NEW p, Less(f, g, P), Less(g, h, With(P, p))
  PROVE  Less(f, h, P)
<1>1. P \subseteq With(P, p)
  BY DEF With
<1>2. \A d \in Lengths : h[d] = f[d] \/ h[d] = 0
  BY DEF Less
<1> QED
  BY <1>1, <1>2 DEF Less

LEMMA LessTwice ==
  ASSUME NEW f, NEW g, NEW h, NEW P, Less(f, g, P), Less(g, h, P)
  PROVE  Less(f, h, P)
BY DEF Less

\* What changes no dimension and no buffer.
LEMMA LessSame ==
  ASSUME NEW h, NEW g, NEW P, NEW X, Alike(h, g, X), g.live = h.live,
         X \cap (Lengths \cup {"lwork", "column"}) = {}
  PROVE  Less(h, g, P)
<1>1. \A d \in Lengths : g[d] = h[d]
  BY DEF Alike, Lengths, Fields
<1>2. \A p : Size(g, p) = Size(h, p)
  BY DEF Size, Live
<1>3. g.lwork = h.lwork /\ g.column = h.column
  BY DEF Alike, Fields
<1> QED
  BY <1>1, <1>2, <1>3 DEF Less

LEMMA LessRequire ==
  ASSUME NEW h, NEW P, NEW ok, NEW e, Fits(h, P), NEW g, g = Require(h, ok, e)
  PROVE  Fits(g, P) /\ Less(h, g, P) /\ Alike(h, g, {"err"}) /\ g.live = h.live
<1> DEFINE X == {"err"}
<1>1. Fits(g, P) /\ Alike(h, g, X) /\ g.live = h.live
  BY FitRequire
<1>2. X \cap (Lengths \cup {"lwork", "column"}) = {}
  BY DEF Lengths
<1> HIDE DEF X
<1>3. Less(h, g, P)
  BY <1>1, <1>2, LessSame
<1> QED
  BY <1>1, <1>3 DEF X

LEMMA LessLapack ==
  ASSUME NEW h, NEW P, NEW valid, NEW needs, NEW o, Fits(h, P),
         valid \in BOOLEAN, valid => Enough(h, needs),
         NEW g, g = Lapack(h, valid, needs, o)
  PROVE  Fits(g, P) /\ Less(h, g, P) /\ g.info = IF valid THEN o ELSE -1
<1> DEFINE X == {"err", "info"}
<1>1. /\ Fits(g, P) /\ Alike(h, g, X) /\ g.live = h.live
      /\ g.info = IF valid THEN o ELSE -1
  BY FitLapack
<1>2. X \cap (Lengths \cup {"lwork", "column"}) = {}
  BY DEF Lengths
<1> HIDE DEF X
<1>3. Less(h, g, P)
  BY <1>1, <1>2, LessSame
<1> QED
  BY <1>1, <1>3

LEMMA LessUses ==
  ASSUME NEW h, NEW P, NEW needs, Fits(h, P), Enough(h, needs),
         NEW g, g = Uses(h, needs)
  PROVE  Fits(g, P) /\ Less(h, g, P) /\ g.info = h.info
<1> DEFINE X == {}
<1>1. Fits(g, P) /\ Alike(h, g, X) /\ g.live = h.live
  BY FitUses
<1>2. X \cap (Lengths \cup {"lwork", "column"}) = {}
  OBVIOUS
<1>3. g.info = h.info
  BY <1>1 DEF Alike, Fields
<1> HIDE DEF X
<1>4. Less(h, g, P)
  BY <1>1, <1>2, LessSame
<1> QED
  BY <1>1, <1>3, <1>4

\* An allocation for the dimension d.
LEMMA LessAlloc ==
  ASSUME NEW h, NEW P, NEW p, NEW d \in Lengths, NEW m \in Nat, Fits(h, P),
         p \notin P, NEW g, g = alloc_T(h, p, d, m)
  PROVE  /\ Fits(g, With(P, p)) /\ Less(h, g, P) /\ g[d] * m <= Size(g, p)
         /\ Alike(h, g, {"err", "live", "i", d})
<1>1. d \in Ints
  BY DEF Lengths, Ints
<1>2. /\ Fits(g, With(P, p)) /\ Alike(h, g, {"err", "live", "i", d})
      /\ Kept(h, g, p) /\ g[d] \in {0, h[d]} /\ g[d] * m <= Size(g, p)
  BY <1>1, FitGets
<1>3. \A e \in Lengths : g[e] = h[e] \/ g[e] = 0
  BY <1>2 DEF Alike, Lengths, Fields
<1>4. \A q \in P : Size(g, q) = Size(h, q)
  BY <1>2 DEF Kept
<1>5. g.lwork = h.lwork /\ g.column = h.column
  BY <1>2 DEF Alike, Lengths, Fields
<1> QED
  BY <1>2, <1>3, <1>4, <1>5 DEF Less

\* A dimension that is set to 0 with another one.
LEMMA LessShrink ==
  ASSUME NEW h, NEW P, NEW d \in Lengths, NEW e \in Lengths, Fits(h, P),
         NEW g, g = Shrink(h, d, e)
  PROVE  /\ Fits(g, P) /\ Less(h, g, P) /\ Alike(h, g, {e})
         /\ g[e] = IF h[d] = 0 THEN 0 ELSE h[e]
<1>1. d \in Ints /\ e \in Ints
  BY DEF Lengths, Ints
<1>2. /\ Fits(g, P) /\ Alike(h, g, {e}) /\ \A p : Size(g, p) = Size(h, p)
      /\ g[e] = IF h[d] = 0 THEN 0 ELSE h[e]
  BY <1>1, FitShrink
<1>3. \A x \in Lengths : g[x] = h[x] \/ g[x] = 0
  BY <1>2 DEF Alike, Lengths, Fields
<1>4. g.lwork = h.lwork /\ g.column = h.column
  BY <1>2 DEF Alike, Lengths, Fields
<1> QED
  BY <1>2, <1>3, <1>4 DEF Less

\* A workspace, if there is none yet.
LEMMA LessWork ==
  ASSUME NEW h, NEW P, NEW valid, NEW work \in Nat, Fits(h, P), valid \in BOOLEAN,
         "w" \notin P, NEW g, g = alloc_W(Query(h, valid), work)
  PROVE  Fits(g, With(P, "w")) /\ Less(h, g, P) /\ g.lwork <= Size(g, "w")
<1>1. /\ Fits(g, With(P, "w")) /\ Kept(h, g, "w") /\ g.lwork <= Size(g, "w")
      /\ Alike(h, g, {"err", "live", "i", "lwork", "info"})
  BY FitWork
<1>2. \A e \in Lengths : g[e] = h[e]
  BY <1>1 DEF Alike, Lengths, Fields
<1>3. g.column = h.column
  BY <1>1 DEF Alike, Fields
<1>4. \A q \in P : Size(g, q) = Size(h, q)
  BY <1>1 DEF Kept
<1> QED
  BY <1>1, <1>2, <1>3, <1>4 DEF Less

\* The functions on square matrices.
FitCall(x, o) == IsValue(x) /\ o.info \in Nat /\ o.work \in Nat

\* A square matrix that is taken,
HasRoom(h, P) == Fits(h, P) /\ h.n \in Nat /\ h.n * h.n <= Size(h, "a")

LEMMA SquareStarts ==
  ASSUME NEW x, NEW o, FitCall(x, o), NEW g, g = take_square_matrix(Heap0, x)
  PROVE  HasRoom(g, With({}, "a"))
<1>1. Fits(g, With({}, "a")) /\ SquareFits(g)
  BY FitStart, FitSquare DEF FitCall
<1>2. g.n \in Nat
  BY <1>1 DEF Fits, Ints
<1> QED
  BY <1>1, <1>2 DEF HasRoom, SquareFits

\* and still has room in what follows.
LEMMA RoomLess ==
  ASSUME NEW h, NEW g, NEW P, NEW Q, HasRoom(h, P), "a" \in P, Less(h, g, P),
         Fits(g, Q)
  PROVE  HasRoom(g, Q)
<1>1. g.n \in Nat /\ Size(g, "a") \in Nat /\ Size(g, "a") = Size(h, "a")
  BY DEF Less, Fits, Ints
<1>2. g.n = h.n \/ g.n = 0
  BY DEF Less, Lengths
<1> QED
  BY <1>1, <1>2 DEF HasRoom

LEMMA McholFits ==
  ASSUME NEW x, NEW o, FitCall(x, o), NEW r, r = qml_mchol(x, o)
  PROVE  r.h.over = {}
<1> DEFINE h == take_square_matrix(Heap0, x)
           P == With({}, "a")
           valid == h.n >= 1
           needs == [a |-> h.n * h.n]
           g == Lapack(h, valid, needs, o.info)
           needs2 == [a |-> g.n * g.n]
           e == Reads(g, needs2)
<1>0. /\ g = potrf(h, o)
      /\ r = Done(Free(e, {"a"}),
                  make_matrix(Null(g.info, Buf(g, "a")), g.n, g.n, g.n, "upper"))
  BY DEF potrf, mchol_end, qml_mchol
<1>1. HasRoom(h, P) /\ "a" \in P
  BY SquareStarts DEF With
<1> HIDE DEF h, P
<1>2. valid \in BOOLEAN /\ Enough(h, needs) /\ Fits(h, P)
  BY <1>1 DEF HasRoom, Enough, Fits
<1> HIDE DEF valid, needs
<1>3. Fits(g, P) /\ Less(h, g, P)
  BY <1>2, LessLapack
<1> HIDE DEF g
<1>4. HasRoom(g, P)
  BY <1>1, <1>3, RoomLess
<1>5. Enough(g, needs2)
  BY <1>4 DEF HasRoom, Enough, Fits
<1> HIDE DEF needs2
<1>6. Fits(e, P)
  BY <1>3, <1>5, FitReads
<1> HIDE DEF e
<1> QED
  BY <1>0, <1>6, FitDone

\* The pivots of an LU decomposition.
LEMMA LuFits ==
  ASSUME NEW h, NEW P, NEW info, HasRoom(h, P), "a" \in P, "ipiv" \notin P,
         NEW g, g = getrf(alloc_F(h, "ipiv", "n"), info)
  PROVE  /\ HasRoom(g, With(P, "ipiv")) /\ g.n <= Size(g, "ipiv")
         /\ g.info # 0 \/ g.info = info
<1> DEFINE f == alloc_T(h, "ipiv", "n", 1)
           Q == With(P, "ipiv")
           valid == f.n >= 1
           needs == [a |-> f.n * f.n, ipiv |-> f.n]
<1>0. g = Lapack(f, valid, needs, info)
  BY DEF getrf, alloc_F
<1>1. Fits(h, P) /\ "n" \in Lengths /\ 1 \in Nat /\ "a" \in Q /\ "ipiv" \in Q
  BY DEF HasRoom, Lengths, With
<1>2. Fits(f, Q) /\ Less(h, f, P) /\ f["n"] * 1 <= Size(f, "ipiv")
  BY <1>1, LessAlloc
<1> HIDE DEF f, Q
<1>3. HasRoom(f, Q)
  BY <1>2, RoomLess
<1>4. f.n \in Nat /\ f.n <= Size(f, "ipiv")
  BY <1>2, <1>3 DEF HasRoom
<1>5. valid \in BOOLEAN /\ Enough(f, needs)
  BY <1>3, <1>4 DEF HasRoom, Enough, Fits
<1> HIDE DEF valid, needs
<1>6. Fits(g, Q) /\ Less(f, g, Q) /\ g.info = IF valid THEN info ELSE -1
  BY <1>0, <1>2, <1>5, LessLapack
<1>7. HasRoom(g, Q)
  BY <1>1, <1>3, <1>6, RoomLess
<1>8. g.n <= Size(g, "ipiv")
  BY <1>1, <1>4, <1>6, <1>7 DEF Less, Lengths, HasRoom, Fits
<1> QED
  BY <1>6, <1>7, <1>8 DEF Q

LEMMA MdetFits ==
  ASSUME NEW x, NEW o, FitCall(x, o), NEW r, r = qml_mdet(x, o)
  PROVE  r.h.over = {}
<1> DEFINE h == take_square_matrix(Heap0, x)
           P == With({}, "a")
           Q == With(P, "ipiv")
           g == mdet_lu(h, o)
           needs == [ipiv |-> g.n]
           f == IF g.triangular # 0 THEN g ELSE Uses(g, needs)
           needs2 == [a |-> g.n * g.n]
           e == Uses(f, needs2)
<1>0. r = Done(Free(e, {"ipiv", "a"}), Atom(KF, Unknown))
  BY DEF mdet_end, qml_mdet
<1>1. HasRoom(h, P) /\ "a" \in P /\ "ipiv" \notin P
  BY SquareStarts DEF With
<1> HIDE DEF h
<1>2. PICK R : HasRoom(g, R) /\ "a" \in R /\ (g.triangular = 0 => g.n <= Size(g, "ipiv"))
  <2>1. CASE h.triangular # 0
    BY <1>1, <2>1 DEF mdet_lu
  <2>2. CASE h.triangular = 0
    <3> DEFINE info == o.info
    <3>1. g = getrf(alloc_F(h, "ipiv", "n"), info)
      BY <2>2 DEF mdet_lu
    <3> HIDE DEF g, P, info
    <3>2. HasRoom(g, Q) /\ g.n <= Size(g, "ipiv")
      BY <1>1, <3>1, LuFits
    <3> QED
      BY <1>1, <3>2 DEF With
  <2> QED
    BY <2>1, <2>2
<1> HIDE DEF g
<1>3. Fits(f, R) /\ Less(g, f, R)
  <2>1. CASE g.triangular # 0
    BY <1>2, <2>1 DEF HasRoom, Less
  <2>2. CASE g.triangular = 0
    <3>1. Enough(g, needs) /\ Fits(g, R)
      BY <1>2, <2>2 DEF HasRoom, Enough, Fits
    <3> HIDE DEF needs
    <3>2. f = Uses(g, needs)
      BY <2>2
    <3> HIDE DEF f
    <3> QED
      BY <3>1, <3>2, LessUses
  <2> QED
    BY <2>1, <2>2
<1> HIDE DEF f
<1>4. Enough(f, needs2)
  BY <1>2, <1>3 DEF HasRoom, Enough, Less, Fits
<1> HIDE DEF needs2
<1>5. Fits(e, R)
  BY <1>3, <1>4, FitUses
<1> HIDE DEF e
<1> QED
  BY <1>0, <1>5, FitDone

LEMMA MinvFits ==
  ASSUME NEW x, NEW o, FitCall(x, o), NEW r, r = qml_minv(x, o)
  PROVE  r.h.over = {}
<1> DEFINE h == take_square_matrix(Heap0, x)
           P == With({}, "a")
           Q == With(P, "ipiv")
           R == With(Q, "w")
           info == o.info
           work == o.work
           lu == getrf(alloc_F(h, "ipiv", "n"), info)
           asks == lu.n >= 1
           f == alloc_W(Query(lu, asks), work)
           valid == f.n >= 1 /\ f.lwork >= 1
           needs == [a |-> f.n * f.n, ipiv |-> f.n, w |-> f.lwork]
           g == IF lu.info # 0 THEN lu ELSE Lapack(f, valid, needs, 0)
           needs2 == [a |-> g.n * g.n]
           e == Reads(g, needs2)
<1>0. /\ r = Done(Free(e, {"w", "ipiv", "a"}),
                  make_matrix(Null(g.info, Buf(g, "a")), g.n, g.n, g.n, "matrix"))
  BY DEF minv_end, qml_minv, minv_work, minv_lu, getri
<1>1. HasRoom(h, P) /\ "a" \in P /\ "ipiv" \notin P
  BY SquareStarts DEF With
<1>2. "a" \in Q /\ "ipiv" \in Q /\ "w" \notin Q /\ Q \subseteq R /\ "w" \in R
  BY DEF With
<1> HIDE DEF h, info
<1>3. HasRoom(lu, Q) /\ lu.n <= Size(lu, "ipiv")
  <2> HIDE DEF lu, P
  <2>1. lu = getrf(alloc_F(h, "ipiv", "n"), info)
    BY DEF lu
  <2> QED
    BY <1>1, <2>1, LuFits
<1> HIDE DEF lu, P
<1>4. PICK S : HasRoom(g, S)
  <2>1. CASE lu.info # 0
    BY <1>3, <2>1
  <2>2. CASE lu.info = 0
    <3>1. work \in Nat /\ asks \in BOOLEAN /\ Fits(lu, Q)
      BY <1>3 DEF HasRoom, FitCall
    <3> HIDE DEF asks, work, Q
    <3>2. Fits(f, With(Q, "w")) /\ Less(lu, f, Q) /\ f.lwork <= Size(f, "w")
      BY <1>2, <3>1, LessWork
    <3>3. Fits(f, R)
      BY <3>2
    <3> HIDE DEF f, R
    <3>4. HasRoom(f, R)
      BY <1>2, <1>3, <3>2, <3>3, RoomLess
    <3>5. f.n <= Size(f, "ipiv") /\ f.lwork \in Nat
      BY <1>2, <1>3, <3>2, <3>4 DEF Less, Lengths, HasRoom, Fits, Ints
    <3>6. valid \in BOOLEAN /\ Enough(f, needs)
      BY <3>2, <3>4, <3>5 DEF HasRoom, Enough, Fits
    <3> HIDE DEF valid, needs
    <3>7. g = Lapack(f, valid, needs, 0)
      BY <2>2
    <3> HIDE DEF g
    <3>8. Fits(g, R) /\ Less(f, g, R)
      BY <3>3, <3>6, <3>7, LessLapack
    <3>9. HasRoom(g, R)
      BY <1>2, <3>4, <3>8, RoomLess
    <3> QED
      BY <3>9
  <2> QED
    BY <2>1, <2>2
<1> HIDE DEF g
<1>5. Enough(g, needs2) /\ Fits(g, S)
  BY <1>4 DEF HasRoom, Enough, Fits
<1> HIDE DEF needs2
<1>6. Fits(e, S)
  BY <1>5, FitReads
<1> HIDE DEF e
<1> QED
  BY <1>0, <1>6, FitDone

LEMMA MevuFits ==
  ASSUME NEW x, NEW o, FitCall(x, o), NEW r, r = qml_mevu(x, o)
  PROVE  r.h.over = {}
<1> DEFINE h == take_square_matrix(Heap0, x)
           P == With({}, "a")
           PW == With(P, "w")
           PL == With(PW, "lr")
           PI == With(PL, "li")
           Q == With(PI, "ev")
           asks == h.n >= 1
           work == o.work
           h1 == alloc_W(Query(h, asks), work)
           h2 == alloc_T(h1, "lr", "n", 1)
           h3 == alloc_T(h2, "li", "n", 1)
           m == h3.n
           f == alloc_T(h3, "ev", "n", m)
           valid == f.n >= 1 /\ f.lwork >= 1
           needs == [a |-> f.n * f.n, lr |-> f.n, li |-> f.n, ev |-> f.n * f.n,
                     w |-> f.lwork]
           g == Lapack(f, valid, needs, o.info)
           needs2 == [lr |-> g.n, li |-> g.n, ev |-> g.n * g.n]
           e == Reads(g, needs2)
           F == {"w", "a", "ev", "li", "lr"}
<1>0. PICK k : r = Done(Free(e, F), k)
  <2> DEFINE ev == eigenvalues(g, o)
  <2>1. r = mevu_end(g, ev, o)
    BY DEF qml_mevu, mevu_result, mevu_geev, mevu_parts, mevu_work, alloc_F, alloc_FF
  <2> HIDE DEF g, ev
  <2> QED
    BY <2>1 DEF mevu_end
<1>1. HasRoom(h, P)
  BY SquareStarts
<1>2. /\ "a" \in P /\ "w" \notin P /\ "lr" \notin PW /\ "li" \notin PL /\ "ev" \notin PI
      /\ {"a", "w"} \subseteq PW /\ {"a", "w", "lr"} \subseteq PL
      /\ {"a", "w", "lr", "li"} \subseteq PI
      /\ {"a", "w", "lr", "li", "ev"} \subseteq Q
  BY DEF With
<1>3. "n" \in Lengths /\ 1 \in Nat /\ work \in Nat /\ asks \in BOOLEAN
  BY DEF Lengths, FitCall
<1> HIDE DEF h, asks, work
<1>4. Fits(h1, PW) /\ Less(h, h1, P) /\ h1.lwork <= Size(h1, "w")
  <2> HIDE DEF P
  <2> QED
    BY <1>1, <1>2, <1>3, LessWork DEF HasRoom
<1> HIDE DEF h1, PW, P
<1>5. Fits(h2, PL) /\ Less(h1, h2, PW) /\ h2["n"] * 1 <= Size(h2, "lr")
  BY <1>2, <1>3, <1>4, LessAlloc
<1> HIDE DEF h2, PL
<1>6. Fits(h3, PI) /\ Less(h2, h3, PL) /\ h3["n"] * 1 <= Size(h3, "li")
  BY <1>2, <1>3, <1>5, LessAlloc
<1> HIDE DEF h3, PI
<1>7. m \in Nat /\ m = h3.n
  BY <1>6 DEF Fits, Ints
<1> HIDE DEF m
<1>8. Fits(f, Q) /\ Less(h3, f, PI) /\ f["n"] * m <= Size(f, "ev")
  BY <1>2, <1>3, <1>6, <1>7, LessAlloc
<1> HIDE DEF f, Q
<1>9. HasRoom(h1, PW) /\ HasRoom(h2, PL) /\ HasRoom(h3, PI)
  <2>1. HasRoom(h1, PW)
    BY <1>1, <1>2, <1>4, RoomLess
  <2>2. HasRoom(h2, PL)
    BY <1>2, <1>5, <2>1, RoomLess
  <2> QED
    BY <1>2, <1>6, <2>1, <2>2, RoomLess
<1>10. HasRoom(f, Q)
  BY <1>2, <1>8, <1>9, RoomLess
<1>11. /\ f.n = h3.n \/ f.n = 0
       /\ h3.n = h2.n \/ h3.n = 0
       /\ Size(f, "lr") = Size(h2, "lr") /\ Size(f, "li") = Size(h3, "li")
       /\ Size(f, "w") = Size(h1, "w") /\ f.lwork = h1.lwork
  BY <1>2, <1>5, <1>6, <1>8 DEF Less, Lengths
<1>12. /\ f.n \in Nat /\ f.n <= Size(f, "lr") /\ f.n <= Size(f, "li")
       /\ f.n * f.n <= Size(f, "ev") /\ f.lwork <= Size(f, "w") /\ f.lwork \in Nat
       /\ \A p : Size(f, p) \in Nat
  <2>1. /\ h2.n \in Nat /\ h3.n \in Nat /\ f.n \in Nat
        /\ h2.n <= Size(h2, "lr") /\ h3.n <= Size(h3, "li")
    BY <1>5, <1>6, <1>9, <1>10 DEF HasRoom
  <2>2. \A p : Size(f, p) \in Nat
    BY <1>8 DEF Fits
  <2>3. f.lwork <= Size(f, "w") /\ f.lwork \in Nat
    BY <1>4, <1>8, <1>11 DEF Fits, Ints
  <2>4. CASE f.n = 0
    BY <2>2, <2>3, <2>4
  <2>5. CASE f.n # 0
    <3>1. f.n = h3.n /\ f.n = h2.n /\ f.n = m
      BY <1>7, <1>11, <2>5
    <3> QED
      BY <1>8, <1>11, <2>1, <2>2, <2>3, <3>1
  <2> QED
    BY <2>4, <2>5
<1>13. valid \in BOOLEAN /\ Enough(f, needs)
  BY <1>10, <1>12 DEF HasRoom, Enough
<1> HIDE DEF valid, needs
<1>14. Fits(g, Q) /\ Less(f, g, Q)
  BY <1>8, <1>13, LessLapack
<1> HIDE DEF g
<1>15. /\ g.n \in Nat /\ (g.n = f.n \/ g.n = 0)
       /\ Size(g, "lr") = Size(f, "lr") /\ Size(g, "li") = Size(f, "li")
       /\ Size(g, "ev") = Size(f, "ev")
  BY <1>2, <1>14 DEF Less, Lengths, Fits, Ints
<1>16. Enough(g, needs2)
  BY <1>12, <1>15 DEF Enough
<1> HIDE DEF needs2
<1>17. Fits(e, Q)
  BY <1>14, <1>16, FitReads
<1> HIDE DEF e
<1> QED
  BY <1>0, <1>17, FitDone

\* The vector r is as long as b has columns, or one item.
LEMMA ColumnsRead ==
  ASSUME NEW h, h.column = TRUE => h.b_n = 1
  PROVE  ReadColumns(h) = h.b_n
BY DEF ReadColumns

\* A triangular matrix and its right side.
LEMMA MsFits ==
  ASSUME NEW x, NEW y, IsValue(x), IsValue(y), NEW r, r = qml_ms(x, y)
  PROVE  r.h.over = {}
<1> DEFINE h == take_square_matrix(Heap0, x)
           P == With({}, "a")
           Q == With(P, "b")
           okd == h.triangular # 0
           h1 == Require(h, okd, "domain")
           h2 == take_matrix(h1, y, B, 0, "ask")
           okl == h2.n = h2.b_m
           h3 == Require(h2, okl, "length")
           info == IF \E i \in 0..(h3.n - 1) : h3.a[i + i * h3.n] = 0 THEN 1 ELSE 0
           h4 == [h3 EXCEPT !.info = info]
           run == h4.info = 0 /\ h4.n = h4.b_m
           needs == [a |-> h4.n * h4.n, b |-> h4.b_m * h4.b_n]
           data == IF ~run \/ h4.err # none THEN Buf(h4, "b")
                   ELSE IF h4.b_n = 1 THEN dtrsv(h4.triangular > 0, h4.n, h4.a, h4.b)
                   ELSE dtrsm(h4.triangular > 0, h4.n, h4.b_n, h4.a, h4.b)
           f == IF run THEN Uses(h4, needs) ELSE h4
           g == [f EXCEPT !.b = data]
           needs2 == [b |-> g.b_m * ReadColumns(g)]
           e == Reads(g, needs2)
           X == {"info"}
           Y == {"b"}
<1>0. PICK k : r = Done(Free(e, {"a", "b"}), k)
  <2>1. g = ms_blas(h4)
    BY DEF ms_blas
  <2>2. r = ms_end(g)
    BY <2>1 DEF qml_ms, ms_domain, ms_length, ms_zero
  <2> HIDE DEF g
  <2> QED
    BY <2>2 DEF ms_end
<1>1. HasRoom(h, P) /\ "a" \in P /\ "b" \notin P
  <2>1. Fits(h, P) /\ SquareFits(h)
    BY FitStart, FitSquare
  <2>2. h.n \in Nat
    BY <2>1 DEF Fits, Ints
  <2> QED
    BY <2>1, <2>2 DEF HasRoom, SquareFits, With
<1> HIDE DEF h, okd
<1>2. Fits(h1, P) /\ Less(h, h1, P) /\ HasRoom(h1, P)
  <2>1. Fits(h, P)
    BY <1>1 DEF HasRoom
  <2>2. Fits(h1, P) /\ Less(h, h1, P)
    BY <2>1, LessRequire
  <2> HIDE DEF h1, P
  <2> QED
    BY <1>1, <2>2, RoomLess
<1> HIDE DEF h1
<1>3. /\ Fits(h2, Q) /\ h2.b_n * h2.b_m <= Size(h2, "b")
      /\ Alike(h1, h2, {"err", "live", "i", "column", "nm", "b_m", "b_n", "b"})
      /\ Kept(h1, h2, "b") /\ (h2.column = TRUE => h2.b_n = 1)
  <2>1. SideThere(h1, h2, P, y)
    <3> HIDE DEF P
    <3> QED
      BY <1>1, <1>2, FitSide
  <2> HIDE DEF h2
  <2> QED
    BY <2>1 DEF SideThere
<1> HIDE DEF h2
<1>4. HasRoom(h2, Q)
  <2>1. h2.n = h1.n /\ Size(h2, "a") = Size(h1, "a")
    BY <1>3 DEF Alike, Fields, Kept
  <2> QED
    BY <1>2, <1>3, <2>1 DEF HasRoom
<1> HIDE DEF okl, Q, P
<1>5. Fits(h3, Q) /\ Alike(h2, h3, {"err"}) /\ h3.live = h2.live
  BY <1>3, LessRequire
<1> HIDE DEF h3, info
<1>6. DOMAIN h4 = Fields /\ Alike(h3, h4, X)
  BY <1>5 DEF Fits, Alike, Fields
<1> HIDE DEF h4
<1>7. Fits(h4, Q) /\ h4.live = h3.live
  <2>1. X \cap {"live", "over"} = {} /\ \A d \in Ints \cap X : h4[d] \in Nat
    BY DEF Ints
  <2> HIDE DEF X
  <2> QED
    BY <1>5, <1>6, <2>1, FitSet
<1>8. /\ h4.n = h2.n /\ h4.b_m = h2.b_m /\ h4.b_n = h2.b_n /\ h4.column = h2.column
      /\ \A p : Size(h4, p) = Size(h2, p)
  BY <1>5, <1>6, <1>7 DEF Alike, Fields, Size, Live
<1>9. /\ h4.n \in Nat /\ h4.b_m \in Nat /\ h4.b_n \in Nat
      /\ h4.n * h4.n <= Size(h4, "a") /\ h4.b_m * h4.b_n <= Size(h4, "b")
      /\ \A p : Size(h4, p) \in Nat
  BY <1>3, <1>4, <1>7, <1>8 DEF Fits, Ints, HasRoom
<1>10. Enough(h4, needs)
  BY <1>9 DEF Enough
<1> HIDE DEF needs, run
<1>11. Fits(f, Q) /\ Alike(h4, f, {}) /\ f.live = h4.live
  <2>1. CASE run
    BY <1>7, <1>10, <2>1, FitUses
  <2>2. CASE ~run
    BY <1>7, <2>2 DEF Alike
  <2> QED
    BY <2>1, <2>2
<1> HIDE DEF f, data
<1>12. DOMAIN g = Fields /\ Alike(f, g, Y)
  BY <1>11 DEF Fits, Alike, Fields
<1> HIDE DEF g
<1>13. Fits(g, Q) /\ g.live = f.live
  <2>1. Y \cap {"live", "over"} = {} /\ \A d \in Ints \cap Y : g[d] \in Nat
    BY DEF Ints
  <2> HIDE DEF Y
  <2> QED
    BY <1>11, <1>12, <2>1, FitSet
<1>14. /\ g.b_m = h4.b_m /\ g.b_n = h4.b_n /\ g.column = h4.column
       /\ Size(g, "b") = Size(h4, "b")
  BY <1>11, <1>12, <1>13 DEF Alike, Fields, Size, Live
<1>15. ReadColumns(g) = g.b_n
  BY <1>3, <1>8, <1>14, ColumnsRead
<1>16. Enough(g, needs2)
  BY <1>9, <1>14, <1>15 DEF Enough
<1> HIDE DEF needs2
<1>17. Fits(e, Q)
  BY <1>13, <1>16, FitReads
<1> HIDE DEF e
<1> QED
  BY <1>0, <1>17, FitDone

\* What may be overrun is in O.
Within(h, O) ==
    /\ DOMAIN h = Fields /\ h.over \subseteq O
    /\ \A p : Size(h, p) \in Nat
EnoughBut(h, needs, O) ==
    \A p \in DOMAIN needs \ O : needs[p] \in Nat /\ Size(h, p) >= needs[p]

LEMMA FitsWithin ==
  ASSUME NEW h, NEW P, NEW O, Fits(h, P)
  PROVE  Within(h, O)
BY DEF Fits, Within

LEMMA UsesWithin ==
  ASSUME NEW h, NEW O, NEW needs, Within(h, O), EnoughBut(h, needs, O),
         NEW g, g = Uses(h, needs)
  PROVE  Within(g, O) /\ Alike(h, g, {"over"})
<1> DEFINE short == {p \in DOMAIN needs : Size(h, p) < needs[p]}
<1>1. DOMAIN h = Fields
  BY DEF Within
<1>2. short \subseteq O
  BY DEF Within, EnoughBut
<1>3. g = [h EXCEPT !.over = h.over \cup short]
  BY DEF Uses
<1> HIDE DEF short
<1>4. DOMAIN g = Fields /\ g.over = h.over \cup short /\ Alike(h, g, {"over"})
  BY <1>1, <1>3 DEF Fields, Alike
<1>5. g.live = h.live
  BY <1>4 DEF Alike, Fields
<1>6. \A p : Size(g, p) = Size(h, p)
  BY <1>5 DEF Size, Live
<1> QED
  BY <1>2, <1>4, <1>6 DEF Within

LEMMA ReadsWithin ==
  ASSUME NEW h, NEW O, NEW needs, Within(h, O), h.info = 0 => EnoughBut(h, needs, O),
         NEW g, g = Reads(h, needs)
  PROVE  Within(g, O) /\ Alike(h, g, {"over"})
<1>1. CASE h.info = 0
  BY <1>1, UsesWithin DEF Reads
<1>2. CASE h.info # 0
  BY <1>2 DEF Reads, Alike
<1> QED
  BY <1>1, <1>2

LEMMA DoneWithin ==
  ASSUME NEW h, NEW O, Within(h, O), NEW F, NEW k, NEW r, r = Done(Free(h, F), k)
  PROVE  r.h.over \subseteq O
<1>1. DOMAIN h = Fields
  BY DEF Within
<1>2. r.h.over = h.over
  BY <1>1, DoneOver
<1> QED
  BY <1>2 DEF Within

\* A matrix and its right side, x is Height(x) by Width(x) unless it is empty.
MmOver(x, y, p) ==
    \/ p = "b" /\ Width(x) > SideLen(y) /\ SideWidth(y) = 1
    \/ p = "a" /\ SideLen(y) > Width(x) /\ Height(x) = 1

\* The product of two matrices whose lengths differ reads beyond a vector.
LEMMA MmFits ==
  ASSUME NEW x, NEW y, IsValue(x), IsValue(y), NEW r, r = qml_mm(x, y)
  PROVE  \A p \in r.h.over : MmOver(x, y, p)
<1> DEFINE h == take_matrix(Heap0, x, A, 0, "no")
           P == With({}, "a")
           Q == With(P, "b")
           R == With(Q, "r")
           h1 == take_matrix(h, y, B, 0, "ask")
           okl == h1.n = h1.b_m
           h2 == Require(h1, okl, "length")
           m == h2.m
           f == alloc_T(h2, "r", "b_n", m)
           run == f.m # 0 /\ f.b_m # 0 /\ f.b_n # 0
           column == f.b_n = 1
           row == f.m = 1
           short == f.b_m < f.n
           needs == IF f.b_n = 1    THEN [a |-> f.m * f.n, b |-> f.n, r |-> f.m]
                    ELSE IF f.m = 1 THEN [a |-> f.b_m, b |-> f.b_m * f.b_n, r |-> f.b_n]
                    ELSE IF f.b_m < f.n THEN <<>>
                    ELSE [a |-> f.m * f.n, b |-> f.b_m * f.b_n, r |-> f.m * f.b_n]
           data == IF ~run \/ f.err # none THEN Buf(f, "r")
                   ELSE IF f.b_n = 1 THEN dgemv_N(f.m, f.n, f.a, f.b)
                   ELSE IF f.m = 1   THEN dgemv_T(f.b_m, f.b_n, f.b, f.a)
                   ELSE dgemm(f.m, f.b_n, f.n, f.a, f.b)
           u == IF run THEN Uses(f, needs) ELSE f
           g == [u EXCEPT !.r = data]
           needs2 == [r |-> g.m * g.b_n]
           e == Uses(g, needs2)
           O == {p \in {"a", "b"} : MmOver(x, y, p)}
           X == {"r"}
<1>0. PICK k : r = Done(Free(e, {"b", "a", "r"}), k)
  <2>1. g = mm_blas(f)
    BY DEF mm_blas
  <2>2. r = mm_end(g)
    BY <2>1 DEF qml_mm, mm_length, alloc_FF
  <2> HIDE DEF g
  <2> QED
    BY <2>2 DEF mm_end
<1>1. /\ Fits(h, P) /\ h.n * h.m <= Size(h, "a")
      /\ h.m # 0 => h.m = Height(x) /\ h.n = Width(x)
  <2>1. FirstThere(h, x, "no")
    BY FitFirst
  <2> HIDE DEF h
  <2> QED
    BY <2>1 DEF FirstThere
<1> HIDE DEF h
<1>2. "b" \notin P /\ "a" \in P /\ "r" \notin Q /\ {"a", "b"} \subseteq Q
  BY DEF With
<1>3. /\ Fits(h1, Q) /\ h1.b_n * h1.b_m <= Size(h1, "b")
      /\ Alike(h, h1, {"err", "live", "i", "column", "nm", "b_m", "b_n", "b"})
      /\ Kept(h, h1, "b")
      /\ h1.b_m # 0 => h1.b_m = SideLen(y) /\ h1.b_n = SideWidth(y)
  <2>1. SideThere(h, h1, P, y)
    <3> HIDE DEF P
    <3> QED
      BY <1>1, <1>2, FitSide
  <2> HIDE DEF h1
  <2> QED
    BY <2>1 DEF SideThere
<1> HIDE DEF h1, okl, P
<1>4. Fits(h2, Q) /\ Less(h1, h2, Q) /\ Alike(h1, h2, {"err"}) /\ h2.live = h1.live
  BY <1>3, LessRequire
<1> HIDE DEF h2
<1>5. m \in Nat /\ m = h2.m /\ "b_n" \in Lengths
  BY <1>4 DEF Fits, Ints, Lengths
<1> HIDE DEF m
<1>6. /\ Fits(f, R) /\ Less(h2, f, Q) /\ f["b_n"] * m <= Size(f, "r")
      /\ Alike(h2, f, {"err", "live", "i", "b_n"})
  BY <1>2, <1>4, <1>5, LessAlloc
<1> HIDE DEF f
<1>7. /\ f.m = h.m /\ f.n = h.n /\ f.b_m = h1.b_m /\ (f.b_n = h1.b_n \/ f.b_n = 0)
      /\ f.m = m
      /\ Size(f, "a") = Size(h, "a") /\ Size(f, "b") = Size(h1, "b")
  <2>1. h1.m = h.m /\ h1.n = h.n /\ Size(h1, "a") = Size(h, "a")
    BY <1>3 DEF Alike, Fields, Kept
  <2>2. h2.m = h1.m /\ h2.n = h1.n /\ h2.b_m = h1.b_m /\ h2.b_n = h1.b_n
        /\ \A p : Size(h2, p) = Size(h1, p)
    BY <1>4 DEF Alike, Fields, Size, Live
  <2>3. f.m = h2.m /\ f.n = h2.n /\ f.b_m = h2.b_m /\ (f.b_n = h2.b_n \/ f.b_n = 0)
    BY <1>5, <1>6 DEF Alike, Fields, Less
  <2>4. Size(f, "a") = Size(h2, "a") /\ Size(f, "b") = Size(h2, "b")
    BY <1>2, <1>6 DEF Less
  <2> QED
    BY <1>5, <2>1, <2>2, <2>3, <2>4
<1>8. /\ f.m \in Nat /\ f.n \in Nat /\ f.b_m \in Nat /\ f.b_n \in Nat
      /\ \A p : Size(f, p) \in Nat
  BY <1>6 DEF Fits, Ints
<1>9. f.m * f.n <= Size(f, "a") /\ f.b_n * f.m <= Size(f, "r")
      /\ f.b_m * f.b_n <= Size(f, "b")
  <2>1. f.m * f.n <= Size(f, "a") /\ f.b_n * f.m <= Size(f, "r")
    BY <1>1, <1>6, <1>7, <1>8
  <2>2. CASE f.b_n = 0
    BY <1>8, <2>2, <2>1
  <2>3. CASE f.b_n # 0
    BY <1>3, <1>7, <1>8, <2>3, <2>1
  <2> QED
    BY <2>2, <2>3
<1>10. run => /\ f.m = Height(x) /\ f.n = Width(x)
              /\ f.b_m = SideLen(y) /\ f.b_n = SideWidth(y)
  BY <1>1, <1>3, <1>7
<1>11. run => EnoughBut(f, needs, O)
  <2> HAVE run
  <2>1. /\ "b" \notin O => (f.b_n = 1 => f.n <= f.b_m)
        /\ "a" \notin O => (f.m = 1 => f.b_m <= f.n)
    BY <1>8, <1>10 DEF MmOver
  <2> HIDE DEF O
  <2>2. CASE f.b_n = 1
    <3>1. needs = [a |-> f.m * f.n, b |-> f.n, r |-> f.m]
      BY <2>2
    <3>2. f.m <= Size(f, "r") /\ f.b_m <= Size(f, "b") /\ f.m * f.n \in Nat
      BY <1>8, <1>9, <2>2
    <3> HIDE DEF needs
    <3> QED
      BY <1>8, <1>9, <2>1, <2>2, <3>1, <3>2 DEF EnoughBut
  <2>3. CASE f.b_n # 1 /\ f.m = 1
    <3>1. needs = [a |-> f.b_m, b |-> f.b_m * f.b_n, r |-> f.b_n]
      BY <2>3
    <3>2. f.b_n <= Size(f, "r") /\ f.n <= Size(f, "a") /\ f.b_m * f.b_n \in Nat
      BY <1>8, <1>9, <2>3
    <3> HIDE DEF needs
    <3> QED
      BY <1>8, <1>9, <2>1, <2>3, <3>1, <3>2 DEF EnoughBut
  <2>4. CASE f.b_n # 1 /\ f.m # 1 /\ f.b_m < f.n
    BY <2>4 DEF EnoughBut
  <2>5. CASE f.b_n # 1 /\ f.m # 1 /\ ~(f.b_m < f.n)
    <3>1. needs = [a |-> f.m * f.n, b |-> f.b_m * f.b_n, r |-> f.m * f.b_n]
      BY <2>5
    <3>2. /\ f.m * f.b_n <= Size(f, "r") /\ f.m * f.b_n \in Nat
          /\ f.m * f.n \in Nat /\ f.b_m * f.b_n \in Nat
      BY <1>8, <1>9
    <3> HIDE DEF needs
    <3> QED
      BY <1>8, <1>9, <3>1, <3>2 DEF EnoughBut
  <2> QED
    BY <2>2, <2>3, <2>4, <2>5
<1> HIDE DEF run, needs, O
<1>12. Within(u, O) /\ Alike(f, u, {"over"})
  <2>1. Within(f, O)
    BY <1>6, FitsWithin
  <2>2. CASE run
    BY <1>11, <2>1, <2>2, UsesWithin
  <2>3. CASE ~run
    BY <2>1, <2>3 DEF Alike
  <2> QED
    BY <2>2, <2>3
<1> HIDE DEF u, data
<1>13. DOMAIN g = Fields /\ Alike(u, g, X)
  BY <1>12 DEF Within, Alike, Fields
<1> HIDE DEF g
<1>14. /\ g.m = f.m /\ g.b_n = f.b_n /\ g.over = u.over
       /\ \A p : Size(g, p) = Size(u, p)
       /\ Size(g, "r") = Size(f, "r")
  BY <1>12, <1>13 DEF Alike, Fields, Size, Live
<1>15. Within(g, O) /\ EnoughBut(g, needs2, O)
  <2>1. g.m * g.b_n \in Nat /\ g.m * g.b_n <= Size(g, "r")
    BY <1>8, <1>9, <1>14
  <2> QED
    BY <1>12, <1>13, <1>14, <2>1 DEF Within, EnoughBut
<1> HIDE DEF needs2
<1>16. Within(e, O)
  BY <1>15, UsesWithin
<1> HIDE DEF e
<1>17. r.h.over \subseteq O
  BY <1>0, <1>16, DoneWithin
<1> QED
  BY <1>17 DEF O

\* The smaller of two dimensions.
LEMMA MinNat ==
  ASSUME NEW a \in Nat, NEW b \in Nat
  PROVE  min_i(a, b) \in Nat /\ min_i(a, b) <= a /\ min_i(a, b) <= b
         /\ min_i(a, b) \in {a, b}
BY DEF min_i

LEMMA FitMin ==
  ASSUME NEW h, NEW x, NEW column, FirstThere(h, x, column),
         NEW g, g = SetMin(h)
  PROVE  /\ FirstThere(g, x, column)
         /\ g.m \in Nat /\ g.n \in Nat /\ g.min \in Nat
         /\ g.min = min_i(g.m, g.n) /\ g.min <= g.m /\ g.min <= g.n
<1> DEFINE X == {"min"}
           l == min_i(h.m, h.n)
           P == With({}, "a")
<1>1. Fits(h, P) /\ h.m \in Nat /\ h.n \in Nat
  BY DEF FirstThere, Fits, Ints
<1>2. l \in Nat /\ l <= h.m /\ l <= h.n
  BY <1>1, MinNat
<1> HIDE DEF l, P
<1>3. DOMAIN g = Fields /\ Alike(h, g, X) /\ g.min = l
  BY <1>1 DEF SetMin, Fits, Alike, Fields, l
<1>4. Fits(g, P) /\ \A p : Size(g, p) = Size(h, p)
  <2>1. X \cap {"live", "over"} = {} /\ \A d \in Ints \cap X : g[d] \in Nat
    BY <1>2, <1>3
  <2> HIDE DEF X
  <2> QED
    BY <1>1, <1>3, <2>1, FitSet
<1>5. g.m = h.m /\ g.n = h.n
  BY <1>3 DEF Alike, Fields
<1>6. FirstThere(g, x, column)
  BY <1>4, <1>5 DEF FirstThere, P
<1> QED
  BY <1>1, <1>2, <1>3, <1>5, <1>6 DEF l

\* The pivots are as many as the smaller dimension.
LEMMA MlupFits ==
  ASSUME NEW x, NEW o, FitCall(x, o), NEW r, r = qml_mlup(x, o)
  PROVE  r.h.over = {}
<1> DEFINE h == take_matrix(Heap0, x, A, 0, "no")
           P == With({}, "a")
           Q == With(P, "ipiv")
           h1 == SetMin(h)
           h2 == alloc_T(h1, "ipiv", "min", 1)
           f == Shrink(h2, "min", "n")
           valid == f.m >= 1
           needs == [a |-> f.m * f.n, ipiv |-> min_i(f.m, f.n)]
           info == o.info
           g == Lapack(f, valid, needs, info)
           needs2 == [a |-> g.m * g.min]
           u == Uses(g, needs2)
           needs3 == [a |-> g.m * g.n, ipiv |-> g.min]
           e == Uses(u, needs3)
           F == {"ipiv", "a"}
<1>0. PICK k : r = Done(Free(e, F), k)
  <2>1. r = mlup_end(g, o)
    BY DEF qml_mlup, mlup_lu, mlup_ipiv, alloc_F
  <2> HIDE DEF g
  <2> QED
    BY <2>1 DEF mlup_end
<1>1. FirstThere(h, x, "no")
  BY FitFirst DEF FitCall
<1> HIDE DEF h
<1>2. /\ FirstThere(h1, x, "no") /\ h1.m \in Nat /\ h1.n \in Nat /\ h1.min \in Nat
      /\ h1.min = min_i(h1.m, h1.n) /\ h1.min <= h1.m /\ h1.min <= h1.n
  BY <1>1, FitMin
<1>3. Fits(h1, P) /\ h1.n * h1.m <= Size(h1, "a")
  BY <1>2 DEF FirstThere
<1>4. /\ "ipiv" \notin P /\ "a" \in P /\ {"a", "ipiv"} \subseteq Q
      /\ "min" \in Lengths /\ "n" \in Lengths /\ 1 \in Nat
  BY DEF With, Lengths
<1> HIDE DEF h1, P
<1>5. /\ Fits(h2, Q) /\ Less(h1, h2, P) /\ h2["min"] * 1 <= Size(h2, "ipiv")
      /\ Alike(h1, h2, {"err", "live", "i", "min"})
  BY <1>3, <1>4, LessAlloc
<1> HIDE DEF h2, Q
<1>6. /\ Fits(f, Q) /\ Less(h2, f, Q) /\ Alike(h2, f, {"n"})
      /\ f["n"] = IF h2["min"] = 0 THEN 0 ELSE h2["n"]
  BY <1>4, <1>5, LessShrink
<1> HIDE DEF f
<1>7. /\ f.m = h1.m /\ (f.min = h1.min \/ f.min = 0) /\ f.min = h2.min
      /\ f.n = IF f.min = 0 THEN 0 ELSE h1.n
      /\ Size(f, "a") = Size(h1, "a") /\ Size(f, "ipiv") = Size(h2, "ipiv")
  <2>1. /\ h2.m = h1.m /\ h2.n = h1.n /\ (h2.min = h1.min \/ h2.min = 0)
        /\ Size(h2, "a") = Size(h1, "a")
    BY <1>4, <1>5 DEF Alike, Fields, Less
  <2>2. /\ f.m = h2.m /\ f.min = h2.min /\ f.n = IF h2.min = 0 THEN 0 ELSE h2.n
        /\ Size(f, "a") = Size(h2, "a") /\ Size(f, "ipiv") = Size(h2, "ipiv")
    BY <1>4, <1>6 DEF Alike, Fields, Less
  <2> QED
    BY <2>1, <2>2
<1>8. /\ f.m \in Nat /\ f.n \in Nat /\ f.min \in Nat /\ f.min <= Size(f, "ipiv")
      /\ \A p : Size(f, p) \in Nat
  <2>1. f.m \in Nat /\ f.n \in Nat /\ f.min \in Nat /\ \A p : Size(f, p) \in Nat
    BY <1>6 DEF Fits, Ints
  <2> QED
    BY <2>1, <1>5, <1>7
<1>9. /\ f.m * f.n <= Size(f, "a") /\ f.m * f.n \in Nat /\ f.min <= f.n
      /\ min_i(f.m, f.n) \in Nat /\ min_i(f.m, f.n) <= Size(f, "ipiv")
  <2>1. CASE f.min = 0
    <3>1. f.n = 0
      BY <1>7, <2>1
    <3> QED
      BY <1>8, <2>1, <3>1 DEF min_i
  <2>2. CASE f.min # 0
    <3>1. f.n = h1.n /\ f.m = h1.m /\ f.min = h1.min
      BY <1>7, <2>2
    <3> QED
      BY <1>2, <1>3, <1>7, <1>8, <3>1
  <2> QED
    BY <2>1, <2>2
<1>10. f.m * f.min <= Size(f, "a") /\ f.m * f.min \in Nat
  <2>1. f.min * f.m <= f.n * f.m
    BY <1>8, <1>9, MoreItems
  <2> QED
    BY <1>8, <1>9, <2>1
<1>11. valid \in BOOLEAN /\ Enough(f, needs)
  BY <1>8, <1>9 DEF Enough
<1> HIDE DEF valid, needs, info
<1>12. Fits(g, Q) /\ Alike(f, g, {"err", "info"}) /\ g.live = f.live
  BY <1>6, <1>11, FitLapack
<1> HIDE DEF g
<1>13. /\ g.m = f.m /\ g.n = f.n /\ g.min = f.min
       /\ \A p : Size(g, p) = Size(f, p)
  BY <1>12 DEF Alike, Fields, Size, Live
<1>14. Enough(g, needs2)
  BY <1>10, <1>13 DEF Enough
<1> HIDE DEF needs2
<1>15. Fits(u, Q) /\ Alike(g, u, {}) /\ u.live = g.live
  BY <1>12, <1>14, FitUses
<1> HIDE DEF u
<1>16. Enough(u, needs3)
  <2>1. \A p : Size(u, p) = Size(g, p)
    BY <1>15 DEF Size, Live
  <2> QED
    BY <1>8, <1>9, <1>13, <2>1 DEF Enough
<1> HIDE DEF needs3
<1>17. Fits(e, Q)
  BY <1>15, <1>16, FitUses
<1> HIDE DEF e
<1> QED
  BY <1>0, <1>17, FitDone

\* The singular values are as many as the smaller dimension, of a matrix that
\* has kept both.
LEMMA MsvdFits ==
  ASSUME NEW x, NEW o, FitCall(x, o), NEW r, r = qml_msvd(x, o)
  PROVE  r.h.over = {}
<1> DEFINE h == take_matrix(Heap0, x, A, 0, "no")
           P == With({}, "a")
           PW == With(P, "w")
           PS == With(PW, "s")
           PU == With(PS, "u")
           PV == With(PU, "vt")
           Q == With(PV, "iw")
           h1 == SetMin(h)
           asks == h1.m >= 1
           work == o.work
           h2 == alloc_W(Query(h1, asks), work)
           h3 == alloc_T(h2, "s", "min", 1)
           m == h3.m
           h4 == alloc_T(h3, "u", "m", m)
           n == h4.n
           h5 == alloc_T(h4, "vt", "n", n)
           h6 == alloc_T(h5, "iw", "min", 8)
           f == Shrink(h6, "min", "m")
           valid == f.m >= 1 /\ f.n >= 1 /\ f.lwork >= 1
           needs == [a |-> f.m * f.n, s |-> min_i(f.m, f.n), u |-> f.m * f.m,
                     vt |-> f.n * f.n, iw |-> 8 * min_i(f.m, f.n), w |-> f.lwork]
           info == o.info
           g == Lapack(f, valid, needs, info)
           needs2 == [u |-> g.m * g.m, s |-> min_i(g.m, g.n), vt |-> g.n * g.n]
           e == Reads(g, needs2)
           F == {"w", "iw", "a", "vt", "u", "s"}
<1>0. PICK k : r = Done(Free(e, F), k)
  <2>1. r = msvd_end(g)
    BY DEF qml_msvd, msvd_work, msvd_parts, msvd_iw, gesdd, alloc_F, alloc_FF
  <2> HIDE DEF g
  <2> QED
    BY <2>1 DEF msvd_end, msvd_reads
<1>1. FirstThere(h, x, "no")
  BY FitFirst DEF FitCall
<1> HIDE DEF h
<1>2. /\ FirstThere(h1, x, "no") /\ h1.m \in Nat /\ h1.n \in Nat /\ h1.min \in Nat
      /\ h1.min = min_i(h1.m, h1.n) /\ h1.min <= h1.m /\ h1.min <= h1.n
  BY <1>1, FitMin
<1>3. Fits(h1, P) /\ h1.n * h1.m <= Size(h1, "a")
  BY <1>2 DEF FirstThere
<1>4. /\ "w" \notin P /\ "s" \notin PW /\ "u" \notin PS /\ "vt" \notin PU
      /\ "iw" \notin PV
      /\ "a" \in P /\ {"a", "w"} \subseteq PW /\ {"a", "w", "s"} \subseteq PS
      /\ {"a", "w", "s", "u"} \subseteq PU /\ {"a", "w", "s", "u", "vt"} \subseteq PV
      /\ {"a", "w", "s", "u", "vt", "iw"} \subseteq Q
  BY DEF With
<1>5. /\ "min" \in Lengths /\ "n" \in Lengths /\ "m" \in Lengths
      /\ 1 \in Nat /\ 8 \in Nat /\ work \in Nat /\ asks \in BOOLEAN
  BY DEF Lengths, FitCall
<1> HIDE DEF h1, asks, work
<1>6. Fits(h2, PW) /\ Less(h1, h2, P) /\ h2.lwork <= Size(h2, "w")
  <2> HIDE DEF P
  <2> QED
    BY <1>3, <1>4, <1>5, LessWork
<1> HIDE DEF h2, P, PW
<1>7. Fits(h3, PS) /\ Less(h2, h3, PW) /\ h3["min"] * 1 <= Size(h3, "s")
  BY <1>4, <1>5, <1>6, LessAlloc
<1> HIDE DEF h3, PS
<1>8. m \in Nat /\ m = h3.m
  BY <1>7 DEF Fits, Ints
<1> HIDE DEF m
<1>9. Fits(h4, PU) /\ Less(h3, h4, PS) /\ h4["m"] * m <= Size(h4, "u")
  BY <1>4, <1>5, <1>7, <1>8, LessAlloc
<1> HIDE DEF h4, PU
<1>10. n \in Nat /\ n = h4.n
  BY <1>9 DEF Fits, Ints
<1> HIDE DEF n
<1>11. Fits(h5, PV) /\ Less(h4, h5, PU) /\ h5["n"] * n <= Size(h5, "vt")
  BY <1>4, <1>5, <1>9, <1>10, LessAlloc
<1> HIDE DEF h5, PV
<1>12. Fits(h6, Q) /\ Less(h5, h6, PV) /\ h6["min"] * 8 <= Size(h6, "iw")
  BY <1>4, <1>5, <1>11, LessAlloc
<1> HIDE DEF h6, Q
<1>13. /\ Fits(f, Q) /\ Less(h6, f, Q)
       /\ f["m"] = IF h6["min"] = 0 THEN 0 ELSE h6["m"]
  <2>1. f = Shrink(h6, "min", "m")
    OBVIOUS
  <2> HIDE DEF f
  <2>2. /\ Fits(f, Q) /\ Less(h6, f, Q) /\ Alike(h6, f, {"m"})
        /\ f["m"] = IF h6["min"] = 0 THEN 0 ELSE h6["m"]
    BY <1>5, <1>12, <2>1, LessShrink
  <2> QED
    BY <2>2
<1> HIDE DEF f
<1>14. f.m \in Nat /\ f.n \in Nat /\ f.lwork \in Nat /\ \A p : Size(f, p) \in Nat
  BY <1>13 DEF Fits, Ints
<1>15. /\ f.lwork <= Size(f, "w")
       /\ Size(f, "a") = Size(h1, "a") /\ Size(f, "s") = Size(h3, "s")
       /\ Size(f, "u") = Size(h4, "u") /\ Size(f, "vt") = Size(h5, "vt")
       /\ Size(f, "iw") = Size(h6, "iw")
  BY <1>4, <1>6, <1>7, <1>9, <1>11, <1>12, <1>13 DEF Less
<1>16. f.m # 0 /\ f.n # 0 =>
          /\ f.m = h1.m /\ f.n = h1.n /\ h6.min = h1.min /\ h3.min = h1.min
          /\ h4.m = h1.m /\ m = h1.m /\ h5.n = h1.n /\ n = h1.n
  <2>1. /\ h2.m = h1.m \/ h2.m = 0
        /\ h2.n = h1.n \/ h2.n = 0
        /\ h2.min = h1.min \/ h2.min = 0
        /\ h3.m = h2.m \/ h3.m = 0
        /\ h3.n = h2.n \/ h3.n = 0
        /\ h3.min = h2.min \/ h3.min = 0
    BY <1>6, <1>7 DEF Less, Lengths
  <2>2. /\ h4.m = h3.m \/ h4.m = 0
        /\ h4.n = h3.n \/ h4.n = 0
        /\ h4.min = h3.min \/ h4.min = 0
        /\ h5.m = h4.m \/ h5.m = 0
        /\ h5.n = h4.n \/ h5.n = 0
        /\ h5.min = h4.min \/ h5.min = 0
    BY <1>9, <1>11 DEF Less, Lengths
  <2>3. /\ h6.m = h5.m \/ h6.m = 0
        /\ h6.n = h5.n \/ h6.n = 0
        /\ h6.min = h5.min \/ h6.min = 0
        /\ f.n = h6.n \/ f.n = 0
        /\ f.m = IF h6.min = 0 THEN 0 ELSE h6.m
    BY <1>12, <1>13 DEF Less, Lengths
  <2> QED
    BY <1>8, <1>10, <2>1, <2>2, <2>3
<1>17. f.m # 0 /\ f.n # 0 =>
          /\ f.m * f.n <= Size(f, "a") /\ f.m * f.n \in Nat
          /\ f.m * f.m <= Size(f, "u") /\ f.m * f.m \in Nat
          /\ f.n * f.n <= Size(f, "vt") /\ f.n * f.n \in Nat
          /\ min_i(f.m, f.n) <= Size(f, "s") /\ min_i(f.m, f.n) \in Nat
          /\ 8 * min_i(f.m, f.n) <= Size(f, "iw") /\ 8 * min_i(f.m, f.n) \in Nat
  <2> HAVE f.m # 0 /\ f.n # 0
  <2>1. f.m * f.n <= Size(f, "a") /\ f.m * f.n \in Nat
    BY <1>2, <1>3, <1>14, <1>15, <1>16
  <2>2. f.m * f.m <= Size(f, "u") /\ f.m * f.m \in Nat
    BY <1>9, <1>14, <1>15, <1>16
  <2>3. f.n * f.n <= Size(f, "vt") /\ f.n * f.n \in Nat
    BY <1>11, <1>14, <1>15, <1>16
  <2>4. min_i(f.m, f.n) = h1.min
    BY <1>2, <1>16
  <2>5. /\ h1.min <= Size(f, "s") /\ 8 * h1.min <= Size(f, "iw")
    BY <1>2, <1>7, <1>12, <1>15, <1>16
  <2> QED
    BY <1>2, <2>1, <2>2, <2>3, <2>4, <2>5
<1>18. valid \in BOOLEAN /\ (valid => Enough(f, needs))
  <2>1. valid => f.m # 0 /\ f.n # 0
    BY <1>14
  <2> QED
    BY <1>14, <1>15, <1>17, <2>1 DEF Enough
<1>19. valid => f.m # 0 /\ f.n # 0
  BY <1>14
<1> HIDE DEF valid, needs, info
<1>20. /\ Fits(g, Q) /\ Alike(f, g, {"err", "info"}) /\ g.live = f.live
       /\ g.info = IF valid THEN info ELSE -1
  BY <1>13, <1>18, FitLapack
<1> HIDE DEF g
<1>21. g.m = f.m /\ g.n = f.n /\ \A p : Size(g, p) = Size(f, p)
  BY <1>20 DEF Alike, Fields, Size, Live
<1>22. g.info = 0 => Enough(g, needs2)
  <2>1. g.info = 0 => f.m # 0 /\ f.n # 0
    BY <1>19, <1>20
  <2> QED
    BY <1>17, <1>21, <2>1 DEF Enough
<1> HIDE DEF needs2
<1>23. Fits(e, Q)
  BY <1>20, <1>22, FitReads
<1> HIDE DEF e
<1> QED
  BY <1>0, <1>23, FitDone

\* A query for a workspace that two routines share.
LEMMA FitQuery ==
  ASSUME NEW h, NEW P, NEW o, o.work \in Nat, Fits(h, P),
         NEW g, g = mqr_query(h, o)
  PROVE  /\ Fits(g, P) /\ Alike(h, g, {"err", "info", "lwork"})
         /\ g.live = h.live
<1> DEFINE valid == h.m >= 1
           q == Query(h, valid)
           l == max_i(q.lwork, take_maxwork(q.info, o.work))
           X == {"lwork"}
           needs == <<>>
<1>0. g = [q EXCEPT !.lwork = l]
  BY DEF mqr_query, mqr_larger
<1>1. valid \in BOOLEAN /\ q = Lapack(h, valid, needs, 0) /\ Enough(h, needs)
  BY DEF Query, Enough, Fits, Ints
<1> HIDE DEF valid, needs, q
<1>2. Fits(q, P) /\ Alike(h, q, {"err", "info"}) /\ q.live = h.live
  BY <1>1, FitLapack
<1>3. l \in Nat
  <2>1. q.lwork \in Nat /\ take_maxwork(q.info, o.work) \in Nat
    BY <1>2 DEF Fits, Ints, take_maxwork, wi
  <2> QED
    BY <2>1 DEF max_i
<1> HIDE DEF l
<1>4. DOMAIN g = Fields /\ Alike(q, g, X) /\ g.lwork = l
  BY <1>0, <1>2 DEF Fits, Alike, Fields
<1>5. Fits(g, P) /\ g.live = q.live
  <2>1. X \cap {"live", "over"} = {} /\ \A d \in Ints \cap X : g[d] \in Nat
    BY <1>3, <1>4
  <2> HIDE DEF X
  <2> QED
    BY <1>2, <1>4, <2>1, FitSet
<1> QED
  BY <1>2, <1>4, <1>5 DEF Alike

LEMMA LessQueries ==
  ASSUME NEW h, NEW P, NEW o, o.work \in Nat, Fits(h, P), "w" \notin P,
         NEW g, g = mqr_work(h, o)
  PROVE  Fits(g, With(P, "w")) /\ Less(h, g, P) /\ g.lwork <= Size(g, "w")
<1> DEFINE h1 == mqr_query(h, o)
           h2 == mqr_query(h1, o)
<1>0. g = alloc_T(h2, "w", "lwork", 1)
  BY DEF mqr_work, alloc_F
<1>1. /\ Fits(h1, P) /\ Alike(h, h1, {"err", "info", "lwork"})
      /\ h1.live = h.live
  BY FitQuery
<1> HIDE DEF h1
<1>2. /\ Fits(h2, P) /\ Alike(h1, h2, {"err", "info", "lwork"})
      /\ h2.live = h1.live
  BY <1>1, FitQuery
<1> HIDE DEF h2
<1>3. /\ Fits(g, With(P, "w")) /\ Alike(h2, g, {"err", "live", "i", "lwork"})
      /\ Kept(h2, g, "w") /\ g["lwork"] * 1 <= Size(g, "w")
  <2> DEFINE d == "lwork"
             p == "w"
             each == 1
  <2>1. d \in Ints /\ each \in Nat /\ Fits(h2, P) /\ p \notin P
    BY <1>2 DEF Ints
  <2>2. g = alloc_T(h2, p, d, each)
    BY <1>0
  <2> HIDE DEF d, p, each
  <2>3. /\ Fits(g, With(P, p)) /\ Alike(h2, g, {"err", "live", "i", d})
        /\ Kept(h2, g, p) /\ g[d] * each <= Size(g, p)
    BY <2>1, <2>2, FitGets
  <2> QED
    BY <2>3 DEF d, p, each
<1>4. g.lwork \in Nat
  BY <1>3 DEF Fits, Ints
<1>5. Alike(h, g, {"err", "info", "live", "i", "lwork"})
  BY <1>1, <1>2, <1>3 DEF Alike
<1>6. \A e \in Lengths : g[e] = h[e]
  BY <1>5 DEF Alike, Lengths, Fields
<1>7. g.column = h.column
  BY <1>5 DEF Alike, Fields
<1>8. \A q \in P : Size(g, q) = Size(h, q)
  BY <1>1, <1>2, <1>3 DEF Kept, Size, Live
<1> QED
  BY <1>3, <1>4, <1>6, <1>7, <1>8 DEF Less

\* The pivots of mqrp are as many as the columns.
LEMMA FitPivots ==
  ASSUME NEW h, NEW P, NEW pivot \in BOOLEAN, Fits(h, P), "ipiv" \notin P,
         NEW g, g = mqr_ipiv(h, pivot)
  PROVE  /\ Fits(g, With(P, "ipiv")) /\ Less(h, g, P) /\ g.m = h.m
         /\ pivot => g.n <= Size(g, "ipiv")
<1>1. CASE ~pivot
  <2>1. g = h
    BY <1>1 DEF mqr_ipiv
  <2>2. Less(h, g, P)
    BY <2>1 DEF Less
  <2>3. Fits(g, With(P, "ipiv"))
    BY <2>1 DEF Fits, With
  <2> QED
    BY <1>1, <2>1, <2>2, <2>3
<1>2. CASE pivot
  <2> DEFINE f == alloc_T(h, "ipiv", "n", 1)
             Q == With(P, "ipiv")
  <2>0. g = Shrink(f, "n", "min")
    BY <1>2 DEF mqr_ipiv, alloc_F
  <2>1. "n" \in Lengths /\ "min" \in Lengths /\ 1 \in Nat
    BY DEF Lengths
  <2>2. /\ Fits(f, With(P, "ipiv")) /\ Less(h, f, P)
        /\ f["n"] * 1 <= Size(f, "ipiv")
        /\ Alike(h, f, {"err", "live", "i", "n"})
    BY <2>1, LessAlloc
  <2>3. Fits(f, Q) /\ P \subseteq Q /\ "ipiv" \in Q
    BY <2>2 DEF With
  <2> HIDE DEF f, Q
  <2>4. Fits(g, Q) /\ Less(f, g, Q) /\ Alike(f, g, {"min"})
    BY <2>0, <2>1, <2>3, LessShrink
  <2>5. /\ g.m = h.m /\ g.n = f.n /\ Size(g, "ipiv") = Size(f, "ipiv")
        /\ f.n \in Nat
    BY <2>2, <2>3, <2>4 DEF Alike, Fields, Less, Fits, Ints
  <2>6. Less(f, g, P)
    BY <2>3, <2>4 DEF Less, With, Q
  <2>7. Less(h, g, P)
    BY <2>2, <2>6, LessTwice
  <2> QED
    BY <2>2, <2>4, <2>5, <2>7 DEF Q
<1> QED
  BY <1>1, <1>2

\* There is room for q, which is square.
LEMMA MqrFits ==
  ASSUME NEW x, NEW pivot \in BOOLEAN, NEW o, FitCall(x, o),
         NEW r, r = mqr(x, pivot, o)
  PROVE  r.h.over = {}
<1> DEFINE h == take_matrix(Heap0, x, A, 0, "square")
           P == With({}, "a")
           PW == With(P, "w")
           PT == With(PW, "tau")
           Q == With(PT, "ipiv")
           h1 == SetMin(h)
           h2 == mqr_work(h1, o)
           h3 == alloc_T(h2, "tau", "min", 1)
           h4 == Shrink(h3, "min", "n")
           f == mqr_ipiv(h4, pivot)
           valid == f.m >= 1 /\ f.lwork >= 1
           needs == [a |-> f.m * f.n, tau |-> min_i(f.m, f.n), w |-> f.lwork,
                     ipiv |-> IF pivot THEN f.n ELSE 0]
           g == IF ~pivot /\ f.lwork = 0 THEN check_info(f, f.info)
                ELSE Lapack(f, valid, needs, 0)
           valid2 == g.m >= 1 /\ g.lwork >= 1
           needs2 == [a |-> g.m * g.m, tau |-> g.min, w |-> g.lwork]
           g2 == Lapack(g, valid2, needs2, 0)
           needs3 == [a |-> g2.m * g2.n, ipiv |-> IF pivot THEN g2.n ELSE 0]
           u == Uses(g2, needs3)
           needs4 == [a |-> g2.m * g2.m]
           e == Uses(u, needs4)
           F == {"ipiv", "w", "tau", "a"}
<1>0. PICK k : r = Done(Free(e, F), k)
  <2>0. g = geqrf(f, pivot)
    BY DEF geqrf
  <2> HIDE DEF g
  <2>1. g2 = orgqr(g)
    BY DEF orgqr
  <2>2. r = mqr_end(g2, pivot, o)
    BY <2>0, <2>1 DEF mqr, mqr_tau, alloc_F
  <2> HIDE DEF g2
  <2> QED
    BY <2>2 DEF mqr_end
<1>1. FirstThere(h, x, "square")
  BY FitFirst DEF FitCall
<1> HIDE DEF h
<1>2. /\ FirstThere(h1, x, "square") /\ h1.m \in Nat /\ h1.n \in Nat
      /\ h1.min \in Nat /\ h1.min = min_i(h1.m, h1.n)
      /\ h1.min <= h1.m /\ h1.min <= h1.n
  BY <1>1, FitMin
<1>3. /\ Fits(h1, P) /\ h1.n * h1.m <= Size(h1, "a")
      /\ h1.m * h1.m <= Size(h1, "a")
  BY <1>2 DEF FirstThere
<1>4. /\ "w" \notin P /\ "tau" \notin PW /\ "ipiv" \notin PT
      /\ "a" \in P /\ {"a", "w"} \subseteq PW /\ {"a", "w", "tau"} \subseteq PT
      /\ {"a", "w", "tau", "ipiv"} \subseteq Q
      /\ "min" \in Lengths /\ "n" \in Lengths /\ 1 \in Nat /\ o.work \in Nat
  BY DEF With, Lengths, FitCall
<1> HIDE DEF h1
<1>5. Fits(h2, PW) /\ Less(h1, h2, P) /\ h2.lwork <= Size(h2, "w")
  <2> HIDE DEF P
  <2> QED
    BY <1>3, <1>4, LessQueries
<1> HIDE DEF h2, P, PW
<1>6. /\ Fits(h3, PT) /\ Less(h2, h3, PW) /\ h3["min"] * 1 <= Size(h3, "tau")
      /\ Alike(h2, h3, {"err", "live", "i", "min"})
  BY <1>4, <1>5, LessAlloc
<1> HIDE DEF h3, PT
<1>7. /\ Fits(h4, PT) /\ Less(h3, h4, PT) /\ Alike(h3, h4, {"n"})
      /\ h4["n"] = IF h3["min"] = 0 THEN 0 ELSE h3["n"]
  <2>1. h4 = Shrink(h3, "min", "n")
    OBVIOUS
  <2> HIDE DEF h4
  <2>2. Fits(h3, PT) /\ "min" \in Lengths /\ "n" \in Lengths
    BY <1>4, <1>6
  <2> QED
    BY <2>1, <2>2, LessShrink
<1> HIDE DEF h4
<1>8. /\ Fits(f, Q) /\ Less(h4, f, PT) /\ f.m = h4.m
      /\ pivot => f.n <= Size(f, "ipiv")
  BY <1>4, <1>7, FitPivots
<1> HIDE DEF f, Q
<1>9. /\ f.m \in Nat /\ f.n \in Nat /\ f.min \in Nat /\ f.lwork \in Nat
      /\ \A p : Size(f, p) \in Nat
  BY <1>8 DEF Fits, Ints
<1>10. /\ f.lwork <= Size(f, "w") /\ Size(f, "a") = Size(h1, "a")
       /\ Size(f, "tau") = Size(h3, "tau")
  BY <1>4, <1>5, <1>6, <1>7, <1>8 DEF Less
<1>11. /\ f.m = h1.m \/ f.m = 0
       /\ f.n = h1.n \/ f.n = 0
       /\ f.min = h3.min \/ f.min = 0
       /\ f.n # 0 => h3.min = h1.min /\ f.n = h1.n
  <2>1. /\ h2.m = h1.m \/ h2.m = 0
        /\ h2.n = h1.n \/ h2.n = 0
        /\ h2.min = h1.min \/ h2.min = 0
        /\ h3.m = h2.m /\ h3.n = h2.n
        /\ h3.min = h2.min \/ h3.min = 0
    BY <1>5, <1>6 DEF Less, Lengths, Alike, Fields
  <2>2. /\ h4.m = h3.m /\ h4.min = h3.min
        /\ h4.n = IF h3.min = 0 THEN 0 ELSE h3.n
        /\ f.m = h4.m
        /\ f.n = h4.n \/ f.n = 0
        /\ f.min = h4.min \/ f.min = 0
    BY <1>7, <1>8 DEF Less, Lengths, Alike, Fields
  <2> QED
    BY <2>1, <2>2
<1>12. /\ f.m * f.n <= Size(f, "a") /\ f.m * f.n \in Nat
       /\ f.m * f.m <= Size(f, "a") /\ f.m * f.m \in Nat
       /\ f.min <= Size(f, "tau")
       /\ min_i(f.m, f.n) \in Nat /\ min_i(f.m, f.n) <= Size(f, "tau")
  <2>1. f.m * f.m <= Size(f, "a") /\ f.m * f.m \in Nat
    <3>1. CASE f.m = 0
      BY <1>9, <3>1
    <3>2. CASE f.m # 0
      BY <1>2, <1>3, <1>9, <1>10, <1>11, <3>2
    <3> QED
      BY <3>1, <3>2
  <2>2. f.m * f.n <= Size(f, "a") /\ f.m * f.n \in Nat
    <3>1. CASE f.m = 0 \/ f.n = 0
      BY <1>9, <3>1
    <3>2. CASE f.m # 0 /\ f.n # 0
      BY <1>2, <1>3, <1>9, <1>10, <1>11, <3>2
    <3> QED
      BY <3>1, <3>2
  <2>3. h3.min \in Nat /\ h3.min <= Size(f, "tau")
    BY <1>6, <1>10 DEF Fits, Ints
  <2>4. min_i(f.m, f.n) \in Nat /\ min_i(f.m, f.n) <= Size(f, "tau")
    <3>1. CASE f.m = 0 \/ f.n = 0
      BY <1>9, <3>1 DEF min_i
    <3>2. CASE f.m # 0 /\ f.n # 0
      <4>1. min_i(f.m, f.n) = h3.min
        BY <1>2, <1>11, <3>2
      <4> QED
        BY <2>3, <4>1
    <3> QED
      BY <3>1, <3>2
  <2> QED
    BY <1>9, <1>11, <2>1, <2>2, <2>3, <2>4
<1>13. valid \in BOOLEAN /\ Enough(f, needs)
  BY <1>8, <1>9, <1>10, <1>12 DEF Enough
<1> HIDE DEF valid, needs
<1>14. Fits(g, Q) /\ Alike(f, g, {"err", "info"}) /\ g.live = f.live
  <2>1. CASE ~pivot /\ f.lwork = 0
    <3>1. g = Err(f, "wsfull") \/ g = Err(f, "qml_assert") \/ g = f
      BY <2>1 DEF check_info
    <3> HIDE DEF g
    <3>2. Fits(g, Q) /\ Alike(f, g, {"err"}) /\ g.live = f.live
      <4>1. CASE g = f
        BY <1>8, <4>1 DEF Alike
      <4>2. CASE g = Err(f, "wsfull")
        BY <1>8, <4>2, FitRequire
      <4>3. CASE g = Err(f, "qml_assert")
        BY <1>8, <4>3, FitRequire
      <4> QED
        BY <3>1, <4>1, <4>2, <4>3
    <3> QED
      BY <3>2 DEF Alike
  <2>2. CASE ~(~pivot /\ f.lwork = 0)
    <3>1. g = Lapack(f, valid, needs, 0)
      BY <2>2
    <3> HIDE DEF g
    <3> QED
      BY <1>8, <1>13, <3>1, FitLapack
  <2> QED
    BY <2>1, <2>2
<1> HIDE DEF g
<1>15. /\ g.m = f.m /\ g.n = f.n /\ g.min = f.min /\ g.lwork = f.lwork
       /\ \A p : Size(g, p) = Size(f, p)
  BY <1>14 DEF Alike, Fields, Size, Live
<1>16. valid2 \in BOOLEAN /\ Enough(g, needs2)
  BY <1>9, <1>10, <1>12, <1>15 DEF Enough
<1> HIDE DEF valid2, needs2
<1>17. Fits(g2, Q) /\ Alike(g, g2, {"err", "info"}) /\ g2.live = g.live
  BY <1>14, <1>16, FitLapack
<1> HIDE DEF g2
<1>18. /\ g2.m = f.m /\ g2.n = f.n /\ \A p : Size(g2, p) = Size(f, p)
  BY <1>15, <1>17 DEF Alike, Fields, Size, Live
<1>19. Enough(g2, needs3) /\ Enough(g2, needs4)
  BY <1>8, <1>9, <1>12, <1>18 DEF Enough
<1> HIDE DEF needs3, needs4
<1>20. Fits(u, Q) /\ Alike(g2, u, {}) /\ u.live = g2.live
  BY <1>17, <1>19, FitUses
<1> HIDE DEF u
<1>21. Enough(u, needs4)
  BY <1>19, <1>20 DEF Enough, Size, Live
<1>22. Fits(e, Q)
  BY <1>20, <1>21, FitUses
<1> HIDE DEF e
<1> QED
  BY <1>0, <1>22, FitDone

\* A product that fits still does when a factor has become 0.
LEMMA LessItems ==
  ASSUME NEW a \in Nat, NEW b \in Nat, NEW s \in Nat, a * b <= s,
         NEW c \in Nat, NEW d \in Nat, c = a \/ c = 0, d = b \/ d = 0
  PROVE  c * d <= s /\ c * d \in Nat
<1>1. CASE c = 0 \/ d = 0
  BY <1>1
<1>2. CASE c = a /\ d = b
  BY <1>2
<1> QED
  BY <1>1, <1>2

\* The matrix and the right side of a system of least squares.
RightRoom(h, P) ==
    /\ Fits(h, P) /\ h.n * h.m <= Size(h, "a") /\ h.b_n * h.ldb <= Size(h, "b")
    /\ ReadColumns(h) \in Nat /\ ReadColumns(h) * h.ldb <= Size(h, "b")

LEMMA RightStarts ==
  ASSUME NEW x, NEW y, IsValue(x), IsValue(y),
         NEW g, g = mlsq_right(take_matrix(Heap0, x, A, 0, "no"), y)
  PROVE  RightRoom(g, With(With({}, "a"), "b"))
<1> DEFINE h == take_matrix(Heap0, x, A, 0, "no")
           P == With({}, "a")
<1>1. FirstThere(h, x, "no")
  BY FitFirst
<1> HIDE DEF h
<1>2. Fits(h, P) /\ h.n * h.m <= Size(h, "a") /\ "b" \notin P
  BY <1>1 DEF FirstThere, With
<1>3. RightThere(h, g, P)
  <2>1. g = mlsq_right(h, y)
    BY DEF h
  <2> HIDE DEF P
  <2> QED
    BY <1>2, <2>1, FitRight
<1>4. /\ Fits(g, With(P, "b")) /\ g.b_n * g.ldb <= Size(g, "b")
      /\ g.m = h.m /\ g.n = h.n /\ Size(g, "a") = Size(h, "a")
      /\ g.column = TRUE => g.b_n = 1
  BY <1>3 DEF RightThere, Alike, Fields, Kept
<1>5. ReadColumns(g) = g.b_n
  BY <1>4, ColumnsRead
<1>6. g.b_n \in Nat
  BY <1>4 DEF Fits, Ints
<1> QED
  BY <1>2, <1>4, <1>5, <1>6 DEF RightRoom, P

LEMMA RightLess ==
  ASSUME NEW h, NEW g, NEW P, NEW Q, RightRoom(h, P), "a" \in P, "b" \in P,
         Less(h, g, P), Fits(g, Q)
  PROVE  RightRoom(g, Q)
<1>1. /\ h.n \in Nat /\ h.m \in Nat /\ h.b_n \in Nat /\ h.ldb \in Nat
      /\ g.n \in Nat /\ g.m \in Nat /\ g.b_n \in Nat /\ g.ldb \in Nat
      /\ Size(g, "a") \in Nat /\ Size(g, "b") \in Nat
  BY DEF RightRoom, Fits, Ints
<1>2. /\ g.n = h.n \/ g.n = 0
      /\ g.m = h.m \/ g.m = 0
      /\ g.b_n = h.b_n \/ g.b_n = 0
      /\ g.ldb = h.ldb \/ g.ldb = 0
      /\ Size(g, "a") = Size(h, "a") /\ Size(g, "b") = Size(h, "b")
      /\ g.column = h.column
  BY DEF Less, Lengths
<1>3. g.n * g.m <= Size(g, "a") /\ g.b_n * g.ldb <= Size(g, "b")
  BY <1>1, <1>2, LessItems DEF RightRoom
<1>4. /\ ReadColumns(g) \in Nat
      /\ ReadColumns(g) = ReadColumns(h) \/ ReadColumns(g) = 0
  BY <1>1, <1>2 DEF ReadColumns
<1>5. ReadColumns(g) * g.ldb <= Size(g, "b")
  BY <1>1, <1>2, <1>4, LessItems DEF RightRoom
<1> QED
  BY <1>3, <1>4, <1>5 DEF RightRoom

\* gels works on the two matrices and on a workspace.
LEMMA GelsFits ==
  ASSUME NEW h, NEW P, NEW o, RightRoom(h, P), {"a", "b", "w"} \subseteq P,
         h.lwork <= Size(h, "w"), NEW g, g = gels(h, o)
  PROVE  RightRoom(g, P)
<1> DEFINE valid == mlsq_valid(h) /\ h.lwork >= 1
           needs == [a |-> h.m * h.n, b |-> h.ldb * h.b_n, w |-> h.lwork]
           info == o.info
<1>0. g = Lapack(h, valid, needs, info)
  BY DEF gels
<1>1. /\ h.n \in Nat /\ h.m \in Nat /\ h.b_n \in Nat /\ h.ldb \in Nat
      /\ h.lwork \in Nat /\ \A p : Size(h, p) \in Nat
  BY DEF RightRoom, Fits, Ints
<1>2. valid \in BOOLEAN /\ Enough(h, needs) /\ Fits(h, P)
  <2>1. h.m * h.n \in Nat /\ h.ldb * h.b_n \in Nat
    BY <1>1
  <2>2. h.m * h.n <= Size(h, "a") /\ h.ldb * h.b_n <= Size(h, "b")
    BY <1>1 DEF RightRoom
  <2> QED
    BY <1>1, <2>1, <2>2 DEF mlsq_valid, Enough, RightRoom
<1> HIDE DEF valid, needs, info
<1>3. Fits(g, P) /\ Less(h, g, P)
  BY <1>0, <1>2, LessLapack
<1> QED
  BY <1>3, RightLess

\* gelsd has singular values and a workspace of integers besides.
LEMMA GelsdFits ==
  ASSUME NEW h, NEW P, NEW o, o.work \in Nat, RightRoom(h, P),
         {"a", "b", "w"} \subseteq P, "s" \notin P, "iw" \notin With(P, "s"),
         h.lwork <= Size(h, "w"),
         NEW g, g = gelsd(alloc_F(mlsq_svs(mlsq_sizes(h, o)), "iw", "liwork"), o)
  PROVE  \E Q : RightRoom(g, Q)
<1> DEFINE PS == With(P, "s")
           Q == With(PS, "iw")
           l == min_i(h.m, h.n)
           li == take_maxwork(0, o.work)
           h1 == [h EXCEPT !.min = l, !.liwork = li]
           h2 == alloc_T(h1, "s", "min", 1)
           h3 == Shrink(h2, "min", "n")
           f == alloc_T(h3, "iw", "liwork", 1)
           needs == [a |-> f.m * f.n, b |-> f.ldb * f.b_n, s |-> min_i(f.m, f.n),
                     iw |-> f.liwork, w |-> f.lwork]
           info == o.info
           X == {"min", "liwork"}
<1>0. g = IF f.err # none THEN f ELSE Lapack(f, TRUE, needs, info)
  <2>1. f = alloc_F(mlsq_svs(mlsq_sizes(h, o)), "iw", "liwork")
    BY DEF alloc_F, mlsq_svs, mlsq_sizes
  <2> HIDE DEF f
  <2> QED
    BY <2>1 DEF gelsd
<1>1. /\ Fits(h, P) /\ DOMAIN h = Fields /\ h.n \in Nat /\ h.m \in Nat
      /\ h.ldb \in Nat /\ h.b_n \in Nat
  BY DEF RightRoom, Fits, Ints
<1>2. l \in Nat /\ l <= h.m /\ l <= h.n /\ li \in Nat
  BY <1>1, MinNat DEF take_maxwork, wi
<1>3. /\ "min" \in Lengths /\ "n" \in Lengths /\ "liwork" \in Ints /\ 1 \in Nat
      /\ {"a", "b", "w", "s"} \subseteq PS /\ {"a", "b", "w", "s", "iw"} \subseteq Q
      /\ {"min", "n"} \subseteq Ints
  BY DEF Lengths, Ints, With
<1> HIDE DEF l, li
<1>4. DOMAIN h1 = Fields /\ Alike(h, h1, X) /\ h1.min = l /\ h1.liwork = li
  BY <1>1 DEF Alike, Fields
<1> HIDE DEF h1
<1>5. Fits(h1, P) /\ h1.live = h.live /\ \A p : Size(h1, p) = Size(h, p)
  <2>1. X \cap {"live", "over"} = {} /\ \A d \in Ints \cap X : h1[d] \in Nat
    BY <1>2, <1>4
  <2> HIDE DEF X
  <2> QED
    BY <1>1, <1>4, <2>1, FitSet
<1>6. /\ Fits(h2, PS) /\ Less(h1, h2, P) /\ h2["min"] * 1 <= Size(h2, "s")
      /\ Alike(h1, h2, {"err", "live", "i", "min"})
  <2> DEFINE d == "min"
             p == "s"
             each == 1
  <2>1. d \in Lengths /\ each \in Nat /\ p \notin P /\ h2 = alloc_T(h1, p, d, each)
    BY <1>3
  <2> HIDE DEF h2, d, p, each
  <2>2. /\ Fits(h2, With(P, p)) /\ Less(h1, h2, P) /\ h2[d] * each <= Size(h2, p)
        /\ Alike(h1, h2, {"err", "live", "i", d})
    BY <1>5, <2>1, LessAlloc
  <2> QED
    BY <2>2 DEF d, p, each
<1> HIDE DEF h2, PS
<1>7. /\ Fits(h3, PS) /\ Less(h2, h3, PS) /\ Alike(h2, h3, {"n"})
      /\ h3["n"] = IF h2["min"] = 0 THEN 0 ELSE h2["n"]
  <2>1. h3 = Shrink(h2, "min", "n")
    OBVIOUS
  <2> HIDE DEF h3
  <2>2. Fits(h2, PS) /\ "min" \in Lengths /\ "n" \in Lengths
    BY <1>3, <1>6
  <2> QED
    BY <2>1, <2>2, LessShrink
<1> HIDE DEF h3
<1>8. /\ Fits(f, Q) /\ Alike(h3, f, {"err", "live", "i", "liwork"})
      /\ Kept(h3, f, "iw") /\ f["liwork"] * 1 <= Size(f, "iw")
  <2> DEFINE d == "liwork"
             p == "iw"
             each == 1
  <2>1. d \in Ints /\ each \in Nat /\ p \notin PS /\ f = alloc_T(h3, p, d, each)
    BY <1>3 DEF PS
  <2> HIDE DEF f, d, p, each
  <2>2. /\ Fits(f, With(PS, p)) /\ Kept(h3, f, p) /\ f[d] * each <= Size(f, p)
        /\ Alike(h3, f, {"err", "live", "i", d})
    BY <1>7, <2>1, FitGets
  <2> QED
    BY <2>2 DEF d, p, each
<1> HIDE DEF f, Q
<1>9. /\ f.m = h.m /\ f.ldb = h.ldb /\ f.b_n = h.b_n /\ f.column = h.column
      /\ f.lwork = h.lwork /\ (f.n = h.n \/ f.n = 0)
      /\ f.n # 0 => h2.min = l
      /\ Size(f, "a") = Size(h, "a") /\ Size(f, "b") = Size(h, "b")
      /\ Size(f, "w") = Size(h, "w") /\ Size(f, "s") = Size(h2, "s")
  <2>1. /\ h1.m = h.m /\ h1.n = h.n /\ h1.ldb = h.ldb /\ h1.b_n = h.b_n
        /\ h1.column = h.column /\ h1.lwork = h.lwork
    BY <1>4 DEF Alike, Fields
  <2>2. /\ h2.m = h1.m /\ h2.n = h1.n /\ h2.ldb = h1.ldb /\ h2.b_n = h1.b_n
        /\ h2.column = h1.column /\ h2.lwork = h1.lwork
        /\ h2.min = l \/ h2.min = 0
        /\ Size(h2, "a") = Size(h1, "a") /\ Size(h2, "b") = Size(h1, "b")
        /\ Size(h2, "w") = Size(h1, "w")
    BY <1>4, <1>6 DEF Alike, Fields, Less, Lengths
  <2>3. /\ h3.m = h2.m /\ h3.ldb = h2.ldb /\ h3.b_n = h2.b_n
        /\ h3.column = h2.column /\ h3.lwork = h2.lwork
        /\ h3.n = IF h2.min = 0 THEN 0 ELSE h2.n
        /\ Size(h3, "a") = Size(h2, "a") /\ Size(h3, "b") = Size(h2, "b")
        /\ Size(h3, "w") = Size(h2, "w") /\ Size(h3, "s") = Size(h2, "s")
    BY <1>3, <1>7 DEF Alike, Fields, Less
  <2>4. /\ f.m = h3.m /\ f.ldb = h3.ldb /\ f.b_n = h3.b_n
        /\ f.column = h3.column /\ f.lwork = h3.lwork /\ f.n = h3.n
        /\ Size(f, "a") = Size(h3, "a") /\ Size(f, "b") = Size(h3, "b")
        /\ Size(f, "w") = Size(h3, "w") /\ Size(f, "s") = Size(h3, "s")
    BY <1>8 DEF Alike, Fields, Kept
  <2> QED
    BY <1>5, <2>1, <2>2, <2>3, <2>4
<1>10. /\ f.n \in Nat /\ f.liwork \in Nat /\ f.liwork <= Size(f, "iw")
       /\ \A p : Size(f, p) \in Nat
  BY <1>8 DEF Fits, Ints
<1>11. RightRoom(f, Q)
  <2>1. f.n * f.m <= Size(f, "a")
    BY <1>1, <1>9, <1>10, LessItems DEF RightRoom
  <2>2. ReadColumns(f) = ReadColumns(h)
    BY <1>9 DEF ReadColumns
  <2> QED
    BY <1>8, <1>9, <2>1, <2>2 DEF RightRoom
<1>12. h2.min \in Nat /\ h2.min <= Size(f, "s")
  BY <1>6, <1>9 DEF Fits, Ints
<1>13. min_i(f.m, f.n) \in Nat /\ min_i(f.m, f.n) <= Size(f, "s")
  <2>1. CASE f.n = 0
    BY <1>1, <1>9, <1>10, <2>1 DEF min_i
  <2>2. CASE f.n # 0
    BY <1>9, <1>12, <2>2 DEF l
  <2> QED
    BY <2>1, <2>2
<1>14. Enough(f, needs)
  <2>1. /\ f.m * f.n \in Nat /\ f.ldb * f.b_n \in Nat /\ f.lwork \in Nat
        /\ f.m * f.n <= Size(f, "a") /\ f.ldb * f.b_n <= Size(f, "b")
    BY <1>1, <1>8, <1>9, <1>10, <1>11 DEF RightRoom, Fits, Ints
  <2> QED
    BY <1>9, <1>10, <1>13, <2>1 DEF Enough
<1> HIDE DEF needs, info
<1>15. CASE f.err # none
  BY <1>0, <1>11, <1>15
<1>16. CASE f.err = none
  <2>1. g = Lapack(f, TRUE, needs, info)
    BY <1>0, <1>16
  <2> DEFINE valid == TRUE
  <2>2. valid \in BOOLEAN /\ g = Lapack(f, valid, needs, info)
    BY <2>1
  <2> HIDE DEF valid
  <2>3. Fits(g, Q) /\ Less(f, g, Q)
    BY <1>8, <1>14, <2>2, LessLapack
  <2>4. RightRoom(g, Q)
    BY <1>3, <1>11, <2>3, RightLess
  <2> QED
    BY <2>4
<1> QED
  BY <1>15, <1>16

\* A system of least squares leaves room for its solution in the right side.
LEMMA MlsqFits ==
  ASSUME NEW x, NEW y, NEW svd, NEW o, FitCall(x, o), IsValue(y),
         NEW r, r = mlsq(x, y, svd, o)
  PROVE  r.h.over = {}
<1> DEFINE h == mlsq_right(take_matrix(Heap0, x, A, 0, "no"), y)
           P == With(With({}, "a"), "b")
           Q == With(P, "w")
           okl == h.m = h.b_m
           h1 == Require(h, okl, "length")
           asks == mlsq_valid(h1)
           work == o.work
           f == alloc_W(Query(h1, asks), work)
           g == mlsq_solve(f, svd, o)
           needs == [b |-> g.ldb * ReadColumns(g)]
           e == Reads(g, needs)
           F == {"iw", "s", "w", "a", "b"}
<1>0. PICK k : r = Done(Free(e, F), k)
  <2>1. r = mlsq_end(g)
    BY DEF mlsq, mlsq_length, mlsq_work
  <2> HIDE DEF g
  <2> QED
    BY <2>1 DEF mlsq_end
<1>1. RightRoom(h, P)
  BY RightStarts DEF FitCall
<1>2. /\ {"a", "b"} \subseteq P /\ "w" \notin P /\ {"a", "b", "w"} \subseteq Q
      /\ "a" \in P /\ "b" \in P
      /\ "s" \notin Q /\ "iw" \notin With(Q, "s") /\ work \in Nat
  BY DEF With, FitCall
<1> HIDE DEF h, okl
<1>3. Fits(h1, P) /\ Less(h, h1, P)
  <2> HIDE DEF P
  <2> QED
    BY <1>1, LessRequire DEF RightRoom
<1> HIDE DEF h1, P
<1>4. RightRoom(h1, P)
  BY <1>1, <1>2, <1>3, RightLess
<1>5. asks \in BOOLEAN
  BY DEF mlsq_valid
<1> HIDE DEF asks, work
<1>6. Fits(f, Q) /\ Less(h1, f, P) /\ f.lwork <= Size(f, "w")
  <2>1. Fits(f, With(P, "w")) /\ Less(h1, f, P) /\ f.lwork <= Size(f, "w")
    BY <1>2, <1>3, <1>5, LessWork
  <2> QED
    BY <2>1
<1> HIDE DEF f, Q
<1>7. RightRoom(f, Q)
  BY <1>2, <1>4, <1>6, RightLess
<1>8. PICK S : RightRoom(g, S)
  <2>1. CASE svd /\ f.info = 0
    <3>1. g = gelsd(alloc_F(mlsq_svs(mlsq_sizes(f, o)), "iw", "liwork"), o)
      BY <2>1 DEF mlsq_solve
    <3>2. o.work \in Nat
      BY DEF FitCall
    <3> HIDE DEF g
    <3> QED
      BY <1>2, <1>6, <1>7, <3>1, <3>2, GelsdFits
  <2>2. CASE ~(svd /\ f.info = 0)
    <3>1. g = gels(f, o)
      BY <2>2 DEF mlsq_solve
    <3> HIDE DEF g
    <3>2. RightRoom(g, Q)
      BY <1>2, <1>6, <1>7, <3>1, GelsFits
    <3> QED
      BY <3>2
  <2> QED
    BY <2>1, <2>2
<1> HIDE DEF g
<1>9. Fits(g, S) /\ Enough(g, needs)
  <2>1. /\ g.ldb \in Nat /\ ReadColumns(g) \in Nat
        /\ ReadColumns(g) * g.ldb <= Size(g, "b") /\ Size(g, "b") \in Nat
    BY <1>8 DEF RightRoom, Fits, Ints
  <2>2. g.ldb * ReadColumns(g) \in Nat /\ g.ldb * ReadColumns(g) <= Size(g, "b")
    BY <2>1
  <2> QED
    BY <1>8, <2>2 DEF RightRoom, Enough
<1> HIDE DEF needs
<1>10. Fits(e, S)
  BY <1>9, FitReads
<1> HIDE DEF e
<1> QED
  BY <1>0, <1>10, FitDone

\* A routine of LAPACK overruns nothing but what is in O.
LEMMA LapackWithin ==
  ASSUME NEW h, NEW O, NEW valid, NEW needs, NEW o, Within(h, O),
         valid \in BOOLEAN, valid => EnoughBut(h, needs, O),
         NEW g, g = Lapack(h, valid, needs, o)
  PROVE  /\ Within(g, O) /\ Alike(h, g, {"over", "err", "info"})
         /\ g.info = IF valid THEN o ELSE -1
<1> DEFINE ran == IF valid THEN Uses(h, needs) ELSE h
           v == IF valid THEN o ELSE -1
           f == [ran EXCEPT !.info = v]
<1>1. g = check_info(f, v)
  BY DEF Lapack
<1>2. Within(ran, O) /\ Alike(h, ran, {"over"})
  <2>1. CASE valid
    BY <2>1, UsesWithin
  <2>2. CASE ~valid
    BY <2>2 DEF Alike
  <2> QED
    BY <2>1, <2>2
<1> HIDE DEF ran, v
<1>3. DOMAIN f = Fields /\ Alike(ran, f, {"info"}) /\ f.info = v
  BY <1>2 DEF Within, Alike, Fields
<1> HIDE DEF f
<1>4. DOMAIN g = Fields /\ Alike(f, g, {"err"})
  BY <1>1, <1>3 DEF check_info, Err, Alike, Fields
<1>5. /\ g.over = ran.over /\ g.live = ran.live /\ g.info = v
  BY <1>3, <1>4 DEF Alike, Fields
<1>6. \A p : Size(g, p) = Size(ran, p)
  BY <1>5 DEF Size, Live
<1> QED
  BY <1>2, <1>3, <1>4, <1>5, <1>6 DEF Within, Alike, v

\* A square matrix and the right side of its system.
SystemRoom(h, P) ==
    /\ Fits(h, P) /\ h.n * h.n <= Size(h, "a") /\ h.b_n * h.b_m <= Size(h, "b")
    /\ ReadColumns(h) \in Nat /\ ReadColumns(h) * h.b_m <= Size(h, "b")

LEMMA SystemStarts ==
  ASSUME NEW x, NEW y, IsValue(x), IsValue(y),
         NEW g, g = take_matrix(take_square_matrix(Heap0, x), y, B, 0, "ask")
  PROVE  /\ SystemRoom(g, With(With({}, "a"), "b"))
         /\ g.n # 0 => g.n = Height(x)
         /\ g.b_m # 0 => g.b_m = SideLen(y)
         /\ g.column = TRUE => g.b_n = 1
<1> DEFINE h == take_square_matrix(Heap0, x)
           P == With({}, "a")
<1>1. Fits(h, P) /\ SquareFits(h) /\ (h.n # 0 => h.n = Height(x))
  BY FitStart, FitSquare
<1> HIDE DEF h
<1>2. "b" \notin P
  BY DEF With
<1>3. SideThere(h, g, P, y)
  <2>1. g = take_matrix(h, y, B, 0, "ask")
    BY DEF h
  <2> HIDE DEF P
  <2> QED
    BY <1>1, <1>2, <2>1, FitSide
<1>4. /\ Fits(g, With(P, "b")) /\ g.b_n * g.b_m <= Size(g, "b")
      /\ g.n = h.n /\ Size(g, "a") = Size(h, "a")
      /\ g.column = TRUE => g.b_n = 1
      /\ g.b_m # 0 => g.b_m = SideLen(y)
  BY <1>3 DEF SideThere, Alike, Fields, Kept
<1>5. ReadColumns(g) = g.b_n
  BY <1>4, ColumnsRead
<1>6. g.b_n \in Nat
  BY <1>4 DEF Fits, Ints
<1>7. g.n * g.n <= Size(g, "a")
  BY <1>1, <1>4 DEF SquareFits
<1> QED
  BY <1>1, <1>4, <1>5, <1>6, <1>7 DEF SystemRoom, P

LEMMA SystemLess ==
  ASSUME NEW h, NEW g, NEW P, NEW Q, SystemRoom(h, P), "a" \in P, "b" \in P,
         Less(h, g, P), Fits(g, Q)
  PROVE  SystemRoom(g, Q)
<1>1. /\ h.n \in Nat /\ h.b_n \in Nat /\ h.b_m \in Nat
      /\ g.n \in Nat /\ g.b_n \in Nat /\ g.b_m \in Nat
      /\ Size(g, "a") \in Nat /\ Size(g, "b") \in Nat
  BY DEF SystemRoom, Fits, Ints
<1>2. /\ g.n = h.n \/ g.n = 0
      /\ g.b_n = h.b_n \/ g.b_n = 0
      /\ g.b_m = h.b_m \/ g.b_m = 0
      /\ Size(g, "a") = Size(h, "a") /\ Size(g, "b") = Size(h, "b")
      /\ g.column = h.column
  BY DEF Less, Lengths
<1>3. g.n * g.n <= Size(g, "a") /\ g.b_n * g.b_m <= Size(g, "b")
  BY <1>1, <1>2, LessItems DEF SystemRoom
<1>4. /\ ReadColumns(g) \in Nat
      /\ ReadColumns(g) = ReadColumns(h) \/ ReadColumns(g) = 0
  BY <1>1, <1>2 DEF ReadColumns
<1>5. ReadColumns(g) * g.b_m <= Size(g, "b")
  BY <1>1, <1>2, <1>4, LessItems DEF SystemRoom
<1> QED
  BY <1>3, <1>4, <1>5 DEF SystemRoom

\* The pivots of a system.
LEMMA SystemPivots ==
  ASSUME NEW h, NEW P, SystemRoom(h, P), "a" \in P, "b" \in P, "ipiv" \notin P,
         NEW g, g = alloc_F(mls_length(h), "ipiv", "n")
  PROVE  /\ SystemRoom(g, With(P, "ipiv")) /\ Less(h, g, P)
         /\ g.n <= Size(g, "ipiv") /\ g.b_n = h.b_n
<1> DEFINE okl == h.n = h.b_m
           f == Require(h, okl, "length")
           d == "n"
           p == "ipiv"
           each == 1
<1>0. g = alloc_T(f, p, d, each) /\ p \notin P /\ d \in Lengths /\ each \in Nat
  BY DEF mls_length, alloc_F, Lengths
<1>1. Fits(h, P)
  BY DEF SystemRoom
<1> HIDE DEF okl
<1>2. Fits(f, P) /\ Less(h, f, P) /\ Alike(h, f, {"err"})
  BY <1>1, LessRequire
<1> HIDE DEF f, d, p, each
<1>3. /\ Fits(g, With(P, p)) /\ Less(f, g, P) /\ g[d] * each <= Size(g, p)
      /\ Alike(f, g, {"err", "live", "i", d})
  BY <1>0, <1>2, LessAlloc
<1>7. g.b_n = h.b_n
  BY <1>2, <1>3 DEF Alike, Fields, d
<1>4. Less(h, g, P)
  BY <1>2, <1>3, LessTwice
<1>5. SystemRoom(g, With(P, p))
  BY <1>3, <1>4, SystemLess
<1>6. g.n \in Nat
  BY <1>5 DEF SystemRoom, Fits, Ints
<1> QED
  BY <1>3, <1>4, <1>5, <1>6, <1>7 DEF p, d, each

\* Without equilibration the solution takes the place of the right side.
LEMMA MlsFits ==
  ASSUME NEW x, NEW y, NEW o, FitCall(x, o), IsValue(y),
         NEW r, r = mls(x, y, FALSE, o)
  PROVE  r.h.over = {}
<1> DEFINE h == take_matrix(take_square_matrix(Heap0, x), y, B, 0, "ask")
           P == With(With({}, "a"), "b")
           Q == With(P, "ipiv")
           f == alloc_F(mls_length(h), "ipiv", "n")
           valid == f.n >= 1 /\ f.b_m >= f.n
           needs == [a |-> f.n * f.n, ipiv |-> f.n, b |-> f.b_m * f.b_n]
           info == o.info
           g == Lapack(f, valid, needs, info)
           needs2 == [b |-> g.b_m * ReadColumns(g)]
           e == Reads(g, needs2)
           F == {"iw", "berr", "ferr", "w", "c", "r", "af", "b", "ipiv", "a", "x"}
<1>0. PICK k : r = Done(Free(e, F), k)
  <2>1. r = mls_end(g, FALSE)
    BY DEF mls, mls_solve, gesv
  <2>2. [q \in {"b"} |-> g.b_m * ReadColumns(g)] = needs2
    OBVIOUS
  <2> HIDE DEF g, needs2
  <2> QED
    BY <2>1, <2>2 DEF mls_end
<1>1. SystemRoom(h, P)
  BY SystemStarts DEF FitCall
<1>2. "a" \in P /\ "b" \in P /\ "ipiv" \notin P /\ {"a", "b", "ipiv"} \subseteq Q
  BY DEF With
<1> HIDE DEF h
<1>3. SystemRoom(f, Q) /\ f.n <= Size(f, "ipiv")
  <2> HIDE DEF f, P
  <2>1. f = alloc_F(mls_length(h), "ipiv", "n")
    BY DEF f
  <2> QED
    BY <1>1, <1>2, <2>1, SystemPivots
<1> HIDE DEF f, Q
<1>4. /\ f.n \in Nat /\ f.b_m \in Nat /\ f.b_n \in Nat /\ Fits(f, Q)
      /\ \A p : Size(f, p) \in Nat
  BY <1>3 DEF SystemRoom, Fits, Ints
<1>5. valid \in BOOLEAN /\ Enough(f, needs)
  <2>1. /\ f.n * f.n \in Nat /\ f.b_m * f.b_n \in Nat
        /\ f.n * f.n <= Size(f, "a") /\ f.b_m * f.b_n <= Size(f, "b")
    BY <1>3, <1>4 DEF SystemRoom
  <2> QED
    BY <1>3, <1>4, <2>1 DEF Enough
<1> HIDE DEF valid, needs, info
<1>6. Fits(g, Q) /\ Less(f, g, Q)
  BY <1>4, <1>5, LessLapack
<1> HIDE DEF g
<1>7. SystemRoom(g, Q)
  BY <1>2, <1>3, <1>6, SystemLess
<1>8. Enough(g, needs2)
  <2>1. /\ g.b_m \in Nat /\ ReadColumns(g) \in Nat
        /\ ReadColumns(g) * g.b_m <= Size(g, "b") /\ Size(g, "b") \in Nat
    BY <1>7 DEF SystemRoom, Fits, Ints
  <2>2. g.b_m * ReadColumns(g) \in Nat /\ g.b_m * ReadColumns(g) <= Size(g, "b")
    BY <2>1
  <2> QED
    BY <2>2 DEF Enough
<1> HIDE DEF needs2
<1>9. Fits(e, Q)
  BY <1>6, <1>8, FitReads
<1> HIDE DEF e
<1> QED
  BY <1>0, <1>9, FitDone

\* An allocation for the dimension d, which no other dimension notices.
Part(h, g, P, Q, p, d, m) ==
    /\ Fits(g, Q) /\ Less(h, g, P) /\ g[d] * m <= Size(g, p)
    /\ \A e \in Lengths \ {d} : g[e] = h[e]

LEMMA LessPart ==
  ASSUME NEW h, NEW P, NEW Q, NEW p, NEW d \in Lengths, NEW m \in Nat, Fits(h, P),
         p \notin P, Q = With(P, p), NEW g, g = alloc_T(h, p, d, m)
  PROVE  Part(h, g, P, Q, p, d, m)
<1>1. /\ Fits(g, With(P, p)) /\ Less(h, g, P) /\ g[d] * m <= Size(g, p)
      /\ Alike(h, g, {"err", "live", "i", d})
  BY LessAlloc
<1>2. \A e \in Lengths \ {d} : g[e] = h[e]
  BY <1>1 DEF Alike, Lengths, Fields
<1> QED
  BY <1>1, <1>2 DEF Part

\* What gesvx is given, where a dimension is not 0.
Equilibrated(h, g) ==
    /\ g.n # 0 => /\ g.n = h.n /\ g.n * h.b_n <= Size(g, "x")
                  /\ g.n * g.n <= Size(g, "af") /\ g.n * 4 <= Size(g, "w")
                  /\ g.n <= Size(g, "r") /\ g.n <= Size(g, "c")
                  /\ g.n <= Size(g, "iw")
    /\ g.b_n # 0 => /\ g.b_n = h.b_n /\ g.b_n <= Size(g, "ferr")
                    /\ g.b_n <= Size(g, "berr")

LEMMA EquiParts ==
  ASSUME NEW h, NEW P, P = With(With(With({}, "a"), "b"), "ipiv"), Fits(h, P),
         NEW g, g = mls_errors(mls_scales(mls_systems(h)))
  PROVE  (\E Q : Fits(g, Q)) /\ Less(h, g, P) /\ Equilibrated(h, g)
<1> DEFINE P0 == P
           P1 == With(P0, "x")
           P2 == With(P1, "af")
           P3 == With(P2, "r")
           P4 == With(P3, "c")
           P5 == With(P4, "w")
           P6 == With(P5, "ferr")
           P7 == With(P6, "berr")
           P8 == With(P7, "iw")
           h0 == h
           m1 == h.b_n
           h1 == alloc_T(h0, "x", "n", m1)
           m2 == h1.n
           h2 == alloc_T(h1, "af", "n", m2)
           h3 == alloc_T(h2, "r", "n", 1)
           h4 == alloc_T(h3, "c", "n", 1)
           h5 == alloc_T(h4, "w", "n", 4)
           h6 == alloc_T(h5, "ferr", "b_n", 1)
           h7 == alloc_T(h6, "berr", "b_n", 1)
           h8 == alloc_T(h7, "iw", "n", 1)
<1>0. g = h8
  BY DEF mls_errors, mls_scales, mls_systems, alloc_F, alloc_FF
<1>1. /\ "n" \in Lengths /\ "b_n" \in Lengths /\ 1 \in Nat /\ 4 \in Nat
  BY DEF Lengths
<1>2. /\ "x" \notin P0 /\ "af" \notin P1 /\ "r" \notin P2 /\ "c" \notin P3
      /\ "w" \notin P4 /\ "ferr" \notin P5 /\ "berr" \notin P6 /\ "iw" \notin P7
  BY DEF With
<1>3. /\ P0 \subseteq P1 /\ P1 \subseteq P2 /\ P2 \subseteq P3 /\ P3 \subseteq P4
      /\ P4 \subseteq P5 /\ P5 \subseteq P6 /\ P6 \subseteq P7
      /\ "x" \in P1 /\ "af" \in P2 /\ "r" \in P3 /\ "c" \in P4 /\ "w" \in P5
      /\ "ferr" \in P6 /\ "berr" \in P7
  BY DEF With
<1>4. Fits(h0, P0) /\ m1 \in Nat /\ m1 = h.b_n
  BY DEF Fits, Ints
<1> HIDE DEF h0, P0, m1
<1>5. /\ Fits(h1, P1) /\ Less(h0, h1, P0)
      /\ h1["n"] * m1 <= Size(h1, "x")
      /\ \A e \in Lengths \ {"n"} : h1[e] = h0[e]
  <2> DEFINE d == "n"
             p == "x"
             m == m1
  <2>1. d \in Lengths /\ p \notin P0 /\ m \in Nat /\ Fits(h0, P0)
    BY <1>1, <1>2, <1>4
  <2>2. P1 = With(P0, p) /\ h1 = alloc_T(h0, p, d, m)
    OBVIOUS
  <2> HIDE DEF h1, P1, d, p, m
  <2>3. Part(h0, h1, P0, P1, p, d, m)
    BY <2>1, <2>2, LessPart
  <2> QED
    BY <2>3 DEF Part, d, p, m
<1> HIDE DEF h1, P1
<1>6. m2 \in Nat /\ m2 = h1.n
  BY <1>5 DEF Fits, Ints
<1> HIDE DEF m2
<1>7. /\ Fits(h2, P2) /\ Less(h1, h2, P1)
      /\ h2["n"] * m2 <= Size(h2, "af")
      /\ \A e \in Lengths \ {"n"} : h2[e] = h1[e]
  <2> DEFINE d == "n"
             p == "af"
             m == m2
  <2>1. d \in Lengths /\ p \notin P1 /\ m \in Nat /\ Fits(h1, P1)
    BY <1>1, <1>2, <1>6, <1>5
  <2>2. P2 = With(P1, p) /\ h2 = alloc_T(h1, p, d, m)
    OBVIOUS
  <2> HIDE DEF h2, P2, d, p, m
  <2>3. Part(h1, h2, P1, P2, p, d, m)
    BY <2>1, <2>2, LessPart
  <2> QED
    BY <2>3 DEF Part, d, p, m
<1> HIDE DEF h2, P2
<1>8. /\ Fits(h3, P3) /\ Less(h2, h3, P2)
      /\ h3["n"] * 1 <= Size(h3, "r")
      /\ \A e \in Lengths \ {"n"} : h3[e] = h2[e]
  <2> DEFINE d == "n"
             p == "r"
             m == 1
  <2>1. d \in Lengths /\ p \notin P2 /\ m \in Nat /\ Fits(h2, P2)
    BY <1>1, <1>2, <1>7
  <2>2. P3 = With(P2, p) /\ h3 = alloc_T(h2, p, d, m)
    OBVIOUS
  <2> HIDE DEF h3, P3, d, p, m
  <2>3. Part(h2, h3, P2, P3, p, d, m)
    BY <2>1, <2>2, LessPart
  <2> QED
    BY <2>3 DEF Part, d, p, m
<1> HIDE DEF h3, P3
<1>9. /\ Fits(h4, P4) /\ Less(h3, h4, P3)
      /\ h4["n"] * 1 <= Size(h4, "c")
      /\ \A e \in Lengths \ {"n"} : h4[e] = h3[e]
  <2> DEFINE d == "n"
             p == "c"
             m == 1
  <2>1. d \in Lengths /\ p \notin P3 /\ m \in Nat /\ Fits(h3, P3)
    BY <1>1, <1>2, <1>8
  <2>2. P4 = With(P3, p) /\ h4 = alloc_T(h3, p, d, m)
    OBVIOUS
  <2> HIDE DEF h4, P4, d, p, m
  <2>3. Part(h3, h4, P3, P4, p, d, m)
    BY <2>1, <2>2, LessPart
  <2> QED
    BY <2>3 DEF Part, d, p, m
<1> HIDE DEF h4, P4
<1>10. /\ Fits(h5, P5) /\ Less(h4, h5, P4)
       /\ h5["n"] * 4 <= Size(h5, "w")
       /\ \A e \in Lengths \ {"n"} : h5[e] = h4[e]
  <2> DEFINE d == "n"
             p == "w"
             m == 4
  <2>1. d \in Lengths /\ p \notin P4 /\ m \in Nat /\ Fits(h4, P4)
    BY <1>1, <1>2, <1>9
  <2>2. P5 = With(P4, p) /\ h5 = alloc_T(h4, p, d, m)
    OBVIOUS
  <2> HIDE DEF h5, P5, d, p, m
  <2>3. Part(h4, h5, P4, P5, p, d, m)
    BY <2>1, <2>2, LessPart
  <2> QED
    BY <2>3 DEF Part, d, p, m
<1> HIDE DEF h5, P5
<1>11. /\ Fits(h6, P6) /\ Less(h5, h6, P5)
       /\ h6["b_n"] * 1 <= Size(h6, "ferr")
       /\ \A e \in Lengths \ {"b_n"} : h6[e] = h5[e]
  <2> DEFINE d == "b_n"
             p == "ferr"
             m == 1
  <2>1. d \in Lengths /\ p \notin P5 /\ m \in Nat /\ Fits(h5, P5)
    BY <1>1, <1>2, <1>10
  <2>2. P6 = With(P5, p) /\ h6 = alloc_T(h5, p, d, m)
    OBVIOUS
  <2> HIDE DEF h6, P6, d, p, m
  <2>3. Part(h5, h6, P5, P6, p, d, m)
    BY <2>1, <2>2, LessPart
  <2> QED
    BY <2>3 DEF Part, d, p, m
<1> HIDE DEF h6, P6
<1>12. /\ Fits(h7, P7) /\ Less(h6, h7, P6)
       /\ h7["b_n"] * 1 <= Size(h7, "berr")
       /\ \A e \in Lengths \ {"b_n"} : h7[e] = h6[e]
  <2> DEFINE d == "b_n"
             p == "berr"
             m == 1
  <2>1. d \in Lengths /\ p \notin P6 /\ m \in Nat /\ Fits(h6, P6)
    BY <1>1, <1>2, <1>11
  <2>2. P7 = With(P6, p) /\ h7 = alloc_T(h6, p, d, m)
    OBVIOUS
  <2> HIDE DEF h7, P7, d, p, m
  <2>3. Part(h6, h7, P6, P7, p, d, m)
    BY <2>1, <2>2, LessPart
  <2> QED
    BY <2>3 DEF Part, d, p, m
<1> HIDE DEF h7, P7
<1>13. /\ Fits(h8, P8) /\ Less(h7, h8, P7)
       /\ h8["n"] * 1 <= Size(h8, "iw")
       /\ \A e \in Lengths \ {"n"} : h8[e] = h7[e]
  <2> DEFINE d == "n"
             p == "iw"
             m == 1
  <2>1. d \in Lengths /\ p \notin P7 /\ m \in Nat /\ Fits(h7, P7)
    BY <1>1, <1>2, <1>12
  <2>2. P8 = With(P7, p) /\ h8 = alloc_T(h7, p, d, m)
    OBVIOUS
  <2> HIDE DEF h8, P8, d, p, m
  <2>3. Part(h7, h8, P7, P8, p, d, m)
    BY <2>1, <2>2, LessPart
  <2> QED
    BY <2>3 DEF Part, d, p, m
<1> HIDE DEF h8, P8
<1>14. /\ h1.b_n = h.b_n /\ h2.b_n = h.b_n /\ h3.b_n = h.b_n /\ h4.b_n = h.b_n
       /\ h5.b_n = h.b_n
       /\ h6.n = h5.n /\ h7.n = h5.n /\ h8.b_n = h7.b_n
       /\ h1.n = h.n \/ h1.n = 0
       /\ h2.n = h1.n \/ h2.n = 0
       /\ h3.n = h2.n \/ h3.n = 0
       /\ h4.n = h3.n \/ h4.n = 0
       /\ h5.n = h4.n \/ h5.n = 0
       /\ h8.n = h7.n \/ h8.n = 0
       /\ h6.b_n = h5.b_n \/ h6.b_n = 0
       /\ h7.b_n = h6.b_n \/ h7.b_n = 0
  BY <1>5, <1>7, <1>8, <1>9, <1>10, <1>11, <1>12, <1>13 DEF Less, Lengths, h0
<1>15. /\ Size(h8, "x") = Size(h1, "x") /\ Size(h8, "af") = Size(h2, "af")
       /\ Size(h8, "r") = Size(h3, "r") /\ Size(h8, "c") = Size(h4, "c")
       /\ Size(h8, "w") = Size(h5, "w") /\ Size(h8, "ferr") = Size(h6, "ferr")
       /\ Size(h8, "berr") = Size(h7, "berr")
  BY <1>3, <1>7, <1>8, <1>9, <1>10, <1>11, <1>12, <1>13 DEF Less
<1>16. Less(h, h8, P)
  <2>1. /\ Less(h1, h2, P0) /\ Less(h2, h3, P0) /\ Less(h3, h4, P0)
        /\ Less(h4, h5, P0) /\ Less(h5, h6, P0) /\ Less(h6, h7, P0)
        /\ Less(h7, h8, P0)
    <3>1. ASSUME NEW u, NEW v, NEW S, P0 \subseteq S, "w" \notin P0, Less(u, v, S)
          PROVE  Less(u, v, P0)
      BY <3>1 DEF Less
    <3>2. "w" \notin P0
      BY DEF P0, With
    <3> QED
      BY <1>3, <1>7, <1>8, <1>9, <1>10, <1>11, <1>12, <1>13, <3>1, <3>2
  <2>2. Less(h0, h2, P0)
    BY <1>5, <2>1, LessTwice
  <2>3. Less(h0, h3, P0)
    BY <2>1, <2>2, LessTwice
  <2>4. Less(h0, h4, P0)
    BY <2>1, <2>3, LessTwice
  <2>5. Less(h0, h5, P0)
    BY <2>1, <2>4, LessTwice
  <2>6. Less(h0, h6, P0)
    BY <2>1, <2>5, LessTwice
  <2>7. Less(h0, h7, P0)
    BY <2>1, <2>6, LessTwice
  <2>8. Less(h0, h8, P0)
    BY <2>1, <2>7, LessTwice
  <2> QED
    BY <2>8 DEF h0, P0
<1>17. /\ h2.n \in Nat /\ h3.n \in Nat /\ h4.n \in Nat /\ h5.n \in Nat
       /\ h8.n \in Nat /\ h6.b_n \in Nat /\ h7.b_n \in Nat
  BY <1>7, <1>8, <1>9, <1>10, <1>11, <1>12, <1>13 DEF Fits, Ints
<1>18. /\ h3.n <= Size(h8, "r") /\ h4.n <= Size(h8, "c")
       /\ h5.n * 4 <= Size(h8, "w") /\ h6.b_n <= Size(h8, "ferr")
       /\ h7.b_n <= Size(h8, "berr") /\ h8.n <= Size(h8, "iw")
  <2>1. h3["n"] * 1 <= Size(h3, "r") /\ h4["n"] * 1 <= Size(h4, "c")
    BY <1>8, <1>9
  <2>2. h5["n"] * 4 <= Size(h5, "w") /\ h6["b_n"] * 1 <= Size(h6, "ferr")
    BY <1>10, <1>11
  <2>3. h7["b_n"] * 1 <= Size(h7, "berr") /\ h8["n"] * 1 <= Size(h8, "iw")
    BY <1>12, <1>13
  <2> QED
    BY <1>15, <1>17, <2>1, <2>2, <2>3
<1>19. ASSUME h8.n # 0
       PROVE  /\ h8.n = h.n /\ h8.n * h.b_n <= Size(h8, "x")
              /\ h8.n * h8.n <= Size(h8, "af") /\ h8.n * 4 <= Size(h8, "w")
              /\ h8.n <= Size(h8, "r") /\ h8.n <= Size(h8, "c")
              /\ h8.n <= Size(h8, "iw")
  <2>1. /\ h8.n = h.n /\ h8.n = h1.n /\ h8.n = h2.n /\ h8.n = h3.n /\ h8.n = h4.n
        /\ h8.n = h5.n
    BY <1>14, <1>19
  <2>2. h8.n * h.b_n <= Size(h8, "x") /\ h8.n * h8.n <= Size(h8, "af")
    BY <1>4, <1>5, <1>6, <1>7, <1>15, <2>1
  <2>3. /\ h8.n * 4 <= Size(h8, "w") /\ h8.n <= Size(h8, "r") /\ h8.n <= Size(h8, "c")
        /\ h8.n <= Size(h8, "iw")
    BY <1>18, <2>1
  <2> QED
    BY <2>1, <2>2, <2>3
<1>20. ASSUME h8.b_n # 0
       PROVE  /\ h8.b_n = h.b_n /\ h8.b_n <= Size(h8, "ferr")
              /\ h8.b_n <= Size(h8, "berr")
  <2>1. h8.b_n = h.b_n /\ h8.b_n = h6.b_n /\ h8.b_n = h7.b_n
    BY <1>14, <1>20
  <2> QED
    BY <1>18, <2>1
<1>21. Equilibrated(h, h8)
  BY <1>19, <1>20 DEF Equilibrated
<1> QED
  BY <1>0, <1>13, <1>16, <1>21

\* With equilibration it has a buffer of its own, which is too small when the
\* right side has more rows than the matrix.
LEMMA MlsxFits ==
  ASSUME NEW x, NEW y, NEW o, FitCall(x, o), IsValue(y),
         NEW r, r = mls(x, y, TRUE, o)
  PROVE  \A p \in r.h.over : p = "x" /\ SideLen(y) > Height(x)
<1> DEFINE h == take_matrix(take_square_matrix(Heap0, x), y, B, 0, "ask")
           P == With(With({}, "a"), "b")
           Q == With(P, "ipiv")
           h1 == alloc_F(mls_length(h), "ipiv", "n")
           f == mls_errors(mls_scales(mls_systems(h1)))
           valid == f.n >= 1 /\ f.b_m >= f.n
           needs == [a |-> f.n * f.n, af |-> f.n * f.n, ipiv |-> f.n,
                     r |-> f.n, c |-> f.n, b |-> f.b_m * f.b_n,
                     x |-> f.b_m * f.b_n, w |-> 4 * f.n, iw |-> f.n,
                     ferr |-> f.b_n, berr |-> f.b_n]
           info == o.info
           g == Lapack(f, valid, needs, info)
           needs2 == [x |-> g.b_m * ReadColumns(g)]
           e == Reads(g, needs2)
           F == {"iw", "berr", "ferr", "w", "c", "r", "af", "b", "ipiv", "a", "x"}
           O == {p \in {"x"} : SideLen(y) > Height(x)}
<1>0. PICK k : r = Done(Free(e, F), k)
  <2>1. r = mls_end(g, TRUE)
    BY DEF mls, mls_solve, gesvx
  <2>2. [q \in {"x"} |-> g.b_m * ReadColumns(g)] = needs2
    OBVIOUS
  <2> HIDE DEF g, needs2
  <2> QED
    BY <2>1, <2>2 DEF mls_end
<1>1. /\ SystemRoom(h, P)
      /\ h.n # 0 => h.n = Height(x)
      /\ h.b_m # 0 => h.b_m = SideLen(y)
      /\ h.column = TRUE => h.b_n = 1
  BY SystemStarts DEF FitCall
<1>2. "a" \in P /\ "b" \in P /\ "ipiv" \notin P /\ {"a", "b", "ipiv"} \subseteq Q
  BY DEF With
<1> HIDE DEF h
<1>3. /\ SystemRoom(h1, Q) /\ Less(h, h1, P) /\ h1.n <= Size(h1, "ipiv")
      /\ h1.b_n = h.b_n
  <2> HIDE DEF h1, P
  <2>1. h1 = alloc_F(mls_length(h), "ipiv", "n")
    BY DEF h1
  <2> QED
    BY <1>1, <1>2, <2>1, SystemPivots
<1> HIDE DEF h1
<1>4. PICK S : Fits(f, S) /\ Less(h1, f, Q) /\ Equilibrated(h1, f)
  <2>1. Q = With(With(With({}, "a"), "b"), "ipiv") /\ Fits(h1, Q)
    BY <1>3 DEF SystemRoom
  <2> HIDE DEF Q, P
  <2> QED
    BY <2>1, EquiParts
<1> HIDE DEF f, Q, P
<1>5. SystemRoom(f, S)
  BY <1>2, <1>3, <1>4, SystemLess
<1>6. /\ f.n \in Nat /\ f.b_m \in Nat /\ f.b_n \in Nat /\ h1.b_n \in Nat
      /\ h1.n \in Nat
      /\ \A p : Size(f, p) \in Nat
  BY <1>3, <1>5 DEF SystemRoom, Fits, Ints
<1>7. /\ f.b_n = h1.b_n \/ f.b_n = 0
      /\ h1.n = h.n \/ h1.n = 0
      /\ h1.b_m = h.b_m \/ h1.b_m = 0
      /\ f.b_m = h1.b_m \/ f.b_m = 0
      /\ f.n = h1.n \/ f.n = 0
      /\ f.column = h1.column /\ h1.column = h.column
      /\ Size(f, "ipiv") = Size(h1, "ipiv")
  BY <1>2, <1>3, <1>4 DEF Less, Lengths
<1>8. valid \in BOOLEAN /\ (valid => f.n # 0 /\ f.b_m # 0 /\ f.b_m >= f.n)
  BY <1>6
<1>9. valid /\ "x" \notin O => f.b_m = f.n
  <2> HAVE valid /\ "x" \notin O
  <2>1. f.n = Height(x) /\ f.b_m = SideLen(y)
    BY <1>1, <1>7, <1>8
  <2> QED
    BY <1>6, <1>8, <2>1
<1> HIDE DEF O
<1>10. ASSUME valid, "x" \notin O, NEW j \in Nat, j = h1.b_n \/ j = 0
       PROVE  f.b_m * j \in Nat /\ f.b_m * j <= Size(f, "x")
  <2>1. f.n * h1.b_n <= Size(f, "x") /\ f.b_m = f.n
    BY <1>4, <1>8, <1>9, <1>10 DEF Equilibrated
  <2> QED
    BY <1>6, <1>10, <2>1, LessItems
<1>11. ReadColumns(f) \in Nat /\ (ReadColumns(f) = h1.b_n \/ ReadColumns(f) = 0)
  BY <1>1, <1>3, <1>6, <1>7 DEF ReadColumns
<1>12. valid => EnoughBut(f, needs, O)
  <2> HAVE valid
  <2>1. /\ f.n * f.n <= Size(f, "a") /\ f.n * f.n \in Nat
        /\ f.b_m * f.b_n <= Size(f, "b") /\ f.b_m * f.b_n \in Nat
    BY <1>5, <1>6 DEF SystemRoom
  <2>2. /\ f.n * f.n <= Size(f, "af") /\ f.n <= Size(f, "r")
        /\ f.n <= Size(f, "c") /\ f.n <= Size(f, "iw")
        /\ 4 * f.n <= Size(f, "w") /\ 4 * f.n \in Nat
    BY <1>4, <1>6, <1>8 DEF Equilibrated
  <2>3. f.b_n <= Size(f, "ferr") /\ f.b_n <= Size(f, "berr")
    BY <1>4, <1>6 DEF Equilibrated
  <2>4. f.n <= Size(f, "ipiv")
    BY <1>3, <1>6, <1>7
  <2>5. "x" \notin O => f.b_m * f.b_n <= Size(f, "x")
    BY <1>6, <1>7, <1>10
  <2> QED
    BY <1>6, <2>1, <2>2, <2>3, <2>4, <2>5 DEF EnoughBut
<1> HIDE DEF needs, info
<1>13. /\ Within(g, O) /\ Alike(f, g, {"over", "err", "info"})
       /\ g.info = IF valid THEN info ELSE -1
  <2>1. Within(f, O)
    BY <1>4, FitsWithin
  <2> HIDE DEF valid
  <2> QED
    BY <1>8, <1>12, <2>1, LapackWithin
<1>14. g.info = 0 => valid
  BY <1>13
<1> HIDE DEF g, valid
<1>15. /\ g.b_m = f.b_m /\ ReadColumns(g) = ReadColumns(f)
       /\ Size(g, "x") = Size(f, "x")
  BY <1>13 DEF Alike, Fields, ReadColumns, Size, Live
<1>16. g.info = 0 => EnoughBut(g, needs2, O)
  BY <1>10, <1>11, <1>14, <1>15 DEF EnoughBut
<1> HIDE DEF needs2
<1>17. Within(e, O)
  BY <1>13, <1>16, ReadsWithin
<1> HIDE DEF e, F
<1>18. r.h.over \subseteq O
  BY <1>0, <1>17, DoneWithin
<1> QED
  BY <1>18 DEF O

\* Where a dimension is left after an allocation, the buffer was not too large.
LEMMA AllocBound ==
  ASSUME NEW h, DOMAIN h = Fields, NEW d \in Ints, h[d] \in Nat \ {0},
         NEW m \in Nat \ {0}, NEW p, ~Live(h, p), NEW g, g = alloc_T(h, p, d, m),
         g[d] # 0
  PROVE  h[d] < wi /\ h[d] * m <= max_size
<1> DEFINE f == alloc_TT(h, p, h[d], m)
<1>1. CASE h[d] >= wi \/ h[d] * m > max_size
  <2>1. f = Err(h, "limit")
    BY <1>1 DEF alloc_TT
  <2>2. DOMAIN f = Fields /\ f.live = h.live
    BY <2>1 DEF Err, Fields
  <2>3. ~Live(f, p)
    BY <2>2 DEF Live
  <2>4. g = [f EXCEPT ![d] = 0]
    BY <2>3 DEF alloc_T
  <2>5. d \in DOMAIN f
    BY <2>2 DEF Ints, Fields
  <2> HIDE DEF f
  <2> QED
    BY <2>4, <2>5
<1>2. max_size \in Nat /\ wi \in Nat
  BY CallsAssumption DEF wi
<1> QED
  BY <1>1, <1>2

\* A number of items, as far as an I holds it.
LEMMA AddNat ==
  ASSUME NEW n \in Nat, NEW u \in {1, 2}
  PROVE  add_size(0, n, u) \in Nat /\ (n # 0 => add_size(0, n, u) # 0)
BY DEF add_size, wi

\* The polynomial k: a companion matrix for n roots, and 2 n items for them.
PolyRoom(h, n, u) ==
    /\ h.n \in Nat
    /\ h.n # 0 => h.n = n /\ n * (n * u) <= Size(h, "cm") /\ 2 * n <= Size(h, "l")

\* The buffers of poly; those for complex numbers are in rwork too.
LEMMA PolyBuffers ==
  ASSUME NEW h, NEW k, NEW o, o.work \in Nat, Fits(h, {}), h.n # 0,
         NEW g, g = alloc_T(poly_cm(poly_rwork(poly_work(h, k, o), k), k), "l", "n", 2)
  PROVE  /\ \E Q : Fits(g, Q)
         /\ PolyRoom(g, h.n, one(k)) /\ g.lwork <= Size(g, "w")
         /\ g.n # 0 /\ k.t = 0 => 2 * g.n <= Size(g, "rwork")
<1> DEFINE P0 == {}
           P1 == With(P0, "w")
           P2 == With(P1, "rwork")
           P3 == With(P2, "cm")
           P4 == With(P3, "l")
           u == one(k)
           items == add_size(0, take_maxwork(0, o.work), u)
           asks == TRUE
           h1 == alloc_W(Query(h, asks), items)
           h2 == IF k.t = 0 THEN alloc_T(h1, "rwork", "n", 2) ELSE h1
           c == add_size(0, h2.n, u)
           h3 == alloc_T(h2, "cm", "n", c)
           h4 == alloc_T(h3, "l", "n", 2)
<1>0. g = h4
  BY DEF poly_cm, poly_rwork, poly_work
<1>1. /\ "n" \in Lengths /\ "n" \in Ints /\ 2 \in Nat /\ "w" \notin P0
      /\ "rwork" \notin P1 /\ "cm" \notin P2 /\ "l" \notin P3
      /\ {"w"} \subseteq P1 /\ {"w", "rwork"} \subseteq P2
      /\ {"w", "rwork", "cm"} \subseteq P3
  BY DEF Lengths, Ints, With
<1>2. u \in {1, 2} /\ items \in Nat /\ asks \in BOOLEAN
  <2>1. u \in {1, 2}
    BY DEF one
  <2>2. take_maxwork(0, o.work) \in Nat
    BY DEF take_maxwork, wi
  <2> HIDE DEF u
  <2> QED
    BY <2>1, <2>2, AddNat
<1> HIDE DEF u, items, asks
<1>3. Fits(h1, P1) /\ Less(h, h1, P0) /\ h1.lwork <= Size(h1, "w")
  <2> HIDE DEF P0
  <2>1. Fits(h, P0)
    BY DEF P0
  <2> QED
    BY <1>1, <1>2, <2>1, LessWork
<1> HIDE DEF h1, P0, P1
<1>4. /\ Fits(h2, P2) /\ Less(h1, h2, P1)
      /\ k.t = 0 => h2.n * 2 <= Size(h2, "rwork")
  <2>1. CASE k.t = 0
    <3> DEFINE d == "n"
               p == "rwork"
               m == 2
    <3>1. d \in Lengths /\ p \notin P1 /\ m \in Nat /\ P2 = With(P1, p)
          /\ h2 = alloc_T(h1, p, d, m)
      BY <1>1, <2>1
    <3> HIDE DEF h2, P2, d, p, m
    <3>2. Part(h1, h2, P1, P2, p, d, m)
      BY <1>3, <3>1, LessPart
    <3> QED
      BY <3>2 DEF Part, d, p, m
  <2>2. CASE k.t # 0
    <3>1. h2 = h1
      BY <2>2
    <3>2. Less(h1, h2, P1)
      BY <3>1 DEF Less
    <3>3. Fits(h2, P2)
      BY <1>3, <3>1 DEF Fits, With
    <3> QED
      BY <2>2, <3>2, <3>3
  <2> QED
    BY <2>1, <2>2
<1> HIDE DEF h2, P2
<1>5. h2.n \in Nat /\ DOMAIN h2 = Fields /\ ~Live(h2, "cm")
  BY <1>1, <1>4 DEF Fits, Ints, Live
<1>6. c \in Nat /\ (h2.n # 0 => c # 0) /\ c = add_size(0, h2.n, u)
  BY <1>2, <1>5, AddNat
<1> HIDE DEF c
<1>7. Fits(h3, P3) /\ Less(h2, h3, P2) /\ h3.n * c <= Size(h3, "cm")
  <2> DEFINE d == "n"
             p == "cm"
  <2>1. d \in Lengths /\ p \notin P2 /\ P3 = With(P2, p) /\ h3 = alloc_T(h2, p, d, c)
    BY <1>1
  <2> HIDE DEF h3, P3, d, p
  <2>2. Part(h2, h3, P2, P3, p, d, c)
    BY <1>4, <1>6, <2>1, LessPart
  <2> QED
    BY <2>2 DEF Part, d, p
<1>8. h2.n # 0 /\ h3.n # 0 => h2.n < wi /\ h2.n * c <= max_size
  <2> HAVE h2.n # 0 /\ h3.n # 0
  <2> DEFINE d == "n"
             p == "cm"
  <2>1. d \in Ints /\ h3 = alloc_T(h2, p, d, c) /\ ~Live(h2, p) /\ h3[d] # 0
        /\ h2[d] \in Nat \ {0} /\ c \in Nat \ {0}
    BY <1>1, <1>5, <1>6
  <2> HIDE DEF h3, d, p
  <2>2. h2[d] < wi /\ h2[d] * c <= max_size
    BY <1>5, <2>1, AllocBound
  <2> QED
    BY <2>2 DEF d
<1> HIDE DEF h3, P3
<1>9. Fits(h4, P4) /\ Less(h3, h4, P3) /\ h4.n * 2 <= Size(h4, "l")
  <2> DEFINE d == "n"
             p == "l"
             m == 2
  <2>1. d \in Lengths /\ p \notin P3 /\ m \in Nat /\ P4 = With(P3, p)
        /\ h4 = alloc_T(h3, p, d, m)
    BY <1>1
  <2> HIDE DEF h4, P4, d, p, m
  <2>2. Part(h3, h4, P3, P4, p, d, m)
    BY <1>7, <2>1, LessPart
  <2> QED
    BY <2>2 DEF Part, d, p, m
<1> HIDE DEF h4, P4
<1>10. /\ h1.n = h.n \/ h1.n = 0
       /\ h2.n = h1.n \/ h2.n = 0
       /\ h3.n = h2.n \/ h3.n = 0
       /\ h4.n = h3.n \/ h4.n = 0
       /\ Size(h4, "cm") = Size(h3, "cm") /\ Size(h4, "rwork") = Size(h2, "rwork")
       /\ Size(h4, "w") = Size(h1, "w") /\ h4.lwork = h1.lwork
  BY <1>1, <1>3, <1>4, <1>7, <1>9 DEF Less, Lengths
<1>11. h4.n \in Nat
  BY <1>9 DEF Fits, Ints
<1>12. ASSUME h4.n # 0
       PROVE  /\ h4.n = h.n /\ h.n * (h.n * u) <= Size(h4, "cm")
              /\ 2 * h.n <= Size(h4, "l")
              /\ k.t = 0 => 2 * h4.n <= Size(h4, "rwork")
  <2>1. h4.n = h.n /\ h3.n = h.n /\ h2.n = h.n /\ h.n \in Nat \ {0}
    BY <1>10, <1>11, <1>12
  <2>2. c = h.n * u
    <3> DEFINE n == h.n
    <3>1. n \in Nat \ {0} /\ n < wi /\ n * add_size(0, n, u) <= max_size
      BY <1>6, <1>8, <2>1
    <3> HIDE DEF n
    <3>2. add_size(0, n, u) = n * u
      BY <1>2, <3>1, CompanionFits
    <3> QED
      BY <1>6, <2>1, <3>2 DEF n
  <2>3. h.n * c <= Size(h4, "cm")
    BY <1>7, <1>10, <2>1
  <2>4. 2 * h.n <= Size(h4, "l")
    BY <1>9, <2>1
  <2>5. k.t = 0 => 2 * h4.n <= Size(h4, "rwork")
    BY <1>4, <1>10, <2>1
  <2> QED
    BY <2>1, <2>2, <2>3, <2>4, <2>5
<1>13. PolyRoom(h4, h.n, u)
  BY <1>11, <1>12 DEF PolyRoom
<1> QED
  BY <1>0, <1>3, <1>9, <1>10, <1>12, <1>13 DEF u

\* zgeev is told of twice the items w has.
LEMMA PolyFits ==
  ASSUME NEW x, NEW o, o.work \in Nat,
         Nested(x) # NULL /\ Nested(x).t # -KF =>
             Nested(x).v = <<>> \/ Len(Nested(x).v) \in Nat \ {0},
         NEW r, r = qml_poly(x, o)
  PROVE  \A p \in r.h.over : p = "w" /\ Nested(x).t = 0
<1> DEFINE k == Nested(x)
           u == one(k)
           O == {p \in {"w"} : k.t = 0}
           F == {"w", "cm", "rwork", "l"}
           ok == Coef(k, 1) # <<0, 0>>
           b == Require(Heap0, ok, "roots")
           len == Len(k.v) - 1
           h == [b EXCEPT !.n = len]
           f == alloc_T(poly_cm(poly_rwork(poly_work(h, k, o), k), k), "l", "n", 2)
           needs == [cm |-> f.n * (f.n * u)]
           f2 == Uses(f, needs)
           valid == f2.n >= 1 /\ f2.lwork >= 1
           needs2 == [cm |-> f2.n * (f2.n * u), l |-> 2 * f2.n, w |-> f2.lwork * u,
                      rwork |-> IF k.t = 0 THEN 2 * f2.n ELSE 0]
           info == o.info
           f3 == Lapack(f2, valid, needs2, info)
           f4 == Err(f3, "roots")
           f5 == IF f3.info # 0 THEN [f4 EXCEPT !.n = 0] ELSE f3
           g == IF h.n = 0 THEN h ELSE f5
           needs3 == [l |-> 2 * g.n]
           e == Uses(g, needs3)
<1>1. CASE poly_error(k) # none
  <2>1. r = Done(Heap0, Krr(poly_error(k)))
    BY <1>1 DEF qml_poly
  <2> HIDE DEF k
  <2>2. r.h.over = {}
    BY <2>1 DEF Done, Heap0
  <2> QED
    BY <2>2
<1>2. CASE poly_error(k) = none
  <2>1. PICK c : r = Done(Free(e, F), c)
    <3>1. f3 = poly_geev(companion(f, k), k, o)
      BY DEF poly_geev, companion
    <3>2. f5 = poly_found(f3)
      BY DEF poly_found
    <3>3. h = poly_start(k)
      BY DEF poly_start
    <3> HIDE DEF f3, f5, h
    <3>4. g = poly_roots(poly_start(k), k, o)
      BY <3>1, <3>2, <3>3 DEF poly_roots
    <3> HIDE DEF g
    <3>5. r = poly_end(g, o)
      BY <1>2, <3>4 DEF qml_poly
    <3> QED
      BY <3>5 DEF poly_end
  <2>2. len \in Nat
    <3>1. k # NULL /\ k.t # -KF /\ k.v # <<>>
      BY <1>2 DEF poly_error, none
    <3> QED
      BY <3>1
  <2> HIDE DEF len, ok
  <2>3. Fits(b, {})
    BY FitStart, FitRequire
  <2> HIDE DEF b
  <2>4. Fits(h, {}) /\ h.n = len
    <3> DEFINE X == {"n"}
    <3>1. DOMAIN h = Fields /\ Alike(b, h, X) /\ h.n = len
      BY <2>3 DEF Fits, Alike, Fields
    <3>2. X \cap {"live", "over"} = {} /\ \A d \in Ints \cap X : h[d] \in Nat
      BY <2>2, <3>1
    <3> HIDE DEF h, X
    <3> QED
      BY <2>3, <3>1, <3>2, FitSet
  <2> HIDE DEF h, k
  <2>5. CASE h.n = 0
    <3>1. g = h
      BY <2>5
    <3> HIDE DEF g
    <3>2. Enough(g, needs3)
      BY <2>4, <2>5, <3>1 DEF Enough, Fits
    <3> HIDE DEF needs3
    <3>3. Fits(e, {})
      BY <2>4, <3>1, <3>2, FitUses
    <3> HIDE DEF e
    <3>4. r.h.over = {}
      BY <2>1, <3>3, FitDone
    <3> QED
      BY <3>4
  <2>6. CASE h.n # 0
    <3> DEFINE n == h.n
    <3>1. /\ \E Q : Fits(f, Q)
          /\ PolyRoom(f, n, u) /\ f.lwork <= Size(f, "w")
          /\ f.n # 0 /\ k.t = 0 => 2 * f.n <= Size(f, "rwork")
      <4>1. f = alloc_T(poly_cm(poly_rwork(poly_work(h, k, o), k), k), "l", "n", 2)
        OBVIOUS
      <4> HIDE DEF f
      <4> QED
        BY <2>4, <2>6, <4>1, PolyBuffers
    <3>2. PICK Q : Fits(f, Q)
      BY <3>1
    <3>3. n \in Nat
      BY <2>2, <2>4
    <3> HIDE DEF f, n
    <3>4. /\ f.n \in Nat /\ f.lwork \in Nat /\ \A p : Size(f, p) \in Nat
          /\ u \in {1, 2} /\ (k.t # 0 => u = 1)
      BY <3>2 DEF Fits, Ints, one
    <3> HIDE DEF u
    <3>5. f.n * (f.n * u) \in Nat /\ f.n * (f.n * u) <= Size(f, "cm")
          /\ 2 * f.n <= Size(f, "l")
      <4>1. CASE f.n = 0
        BY <3>4, <4>1
      <4>2. CASE f.n # 0
        <5>1. f.n = n /\ n * (n * u) <= Size(f, "cm") /\ 2 * n <= Size(f, "l")
          BY <3>1, <4>2 DEF PolyRoom
        <5>2. f.n * (f.n * u) \in Nat
          BY <3>4
        <5> QED
          BY <5>1, <5>2
      <4> QED
        BY <4>1, <4>2
    <3>6. Enough(f, needs)
      BY <3>4, <3>5 DEF Enough
    <3> HIDE DEF needs
    <3>7. Fits(f2, Q) /\ Alike(f, f2, {}) /\ f2.live = f.live
      BY <3>2, <3>6, FitUses
    <3> HIDE DEF f2
    <3>8. /\ f2.n = f.n /\ f2.lwork = f.lwork
          /\ \A p : Size(f2, p) = Size(f, p)
      BY <3>7 DEF Alike, Fields, Size, Live
    <3>9. valid \in BOOLEAN /\ EnoughBut(f2, needs2, O)
      <4>1. "w" \notin O => f2.lwork * u <= Size(f2, "w") /\ f2.lwork * u \in Nat
        BY <3>1, <3>4, <3>8
      <4>2. k.t = 0 => 2 * f2.n <= Size(f2, "rwork")
        <5>1. CASE f.n = 0
          BY <3>4, <3>8, <5>1
        <5>2. CASE f.n # 0
          BY <3>1, <3>8, <5>2
        <5> QED
          BY <5>1, <5>2
      <4>3. /\ f2.n * (f2.n * u) \in Nat /\ f2.n * (f2.n * u) <= Size(f2, "cm")
            /\ 2 * f2.n <= Size(f2, "l") /\ 2 * f2.n \in Nat /\ f2.n \in Nat
            /\ \A p : Size(f2, p) \in Nat
        BY <3>4, <3>5, <3>8
      <4>4. valid \in BOOLEAN
        OBVIOUS
      <4> HIDE DEF O
      <4>5. EnoughBut(f2, needs2, O)
        BY <4>1, <4>2, <4>3 DEF EnoughBut
      <4> QED
        BY <4>4, <4>5
    <3> HIDE DEF valid, needs2, O, info
    <3>10. Within(f3, O) /\ Alike(f2, f3, {"over", "err", "info"})
      <4>1. Within(f2, O)
        BY <3>7, FitsWithin
      <4> QED
        BY <3>9, <4>1, LapackWithin
    <3> HIDE DEF f3
    <3>11. /\ f3.n = f.n /\ Size(f3, "l") = Size(f, "l")
      BY <3>8, <3>10 DEF Alike, Fields, Size, Live
    <3>12. /\ Within(f5, O) /\ (f5.n = f3.n \/ f5.n = 0)
           /\ Size(f5, "l") = Size(f3, "l")
      <4>1. DOMAIN f4 = Fields /\ f4.over = f3.over /\ f4.live = f3.live
        BY <3>10 DEF Within, Err, Fields
      <4> HIDE DEF f4
      <4>2. CASE f3.info # 0
        <5>1. f5 = [f4 EXCEPT !.n = 0]
          BY <4>2
        <5>2. DOMAIN f5 = Fields /\ f5.over = f3.over /\ f5.live = f3.live /\ f5.n = 0
          BY <4>1, <5>1 DEF Fields
        <5>3. \A p : Size(f5, p) = Size(f3, p)
          BY <5>2 DEF Size, Live
        <5> QED
          BY <3>10, <5>2, <5>3 DEF Within
      <4>3. CASE f3.info = 0
        BY <3>10, <4>3
      <4> QED
        BY <4>2, <4>3
    <3> HIDE DEF f5
    <3>13. g = f5
      BY <2>6
    <3> HIDE DEF g
    <3>14. EnoughBut(g, needs3, O)
      <4>1. 2 * g.n \in Nat /\ 2 * g.n <= Size(g, "l")
        <5>1. CASE g.n = 0
          BY <3>12, <3>13, <5>1 DEF Within
        <5>2. CASE g.n # 0
          BY <3>4, <3>5, <3>11, <3>12, <3>13, <5>2
        <5> QED
          BY <5>1, <5>2
      <4> QED
        BY <4>1 DEF EnoughBut
    <3> HIDE DEF needs3
    <3>15. Within(e, O)
      BY <3>12, <3>13, <3>14, UsesWithin
    <3> HIDE DEF e, F
    <3>16. r.h.over \subseteq O
      BY <2>1, <3>15, DoneWithin
    <3> QED
      BY <3>16 DEF O, k
  <2> QED
    BY <2>5, <2>6
<1> QED
  BY <1>1, <1>2

\* The calls of a session have arguments and outcomes.
LEMMA FitCalls ==
  ASSUME NEW c \in Calls
  PROVE  /\ IsValue(c.x) /\ IsValue(c.y) /\ IsValue(c.z) /\ c.o.work \in Nat
         /\ FitCall(c.x, c.o) /\ FitCall(c.y, c.o)
BY CallsAssumption DEF IsOutcome, FitCall

\* What the last run has overrun is one of the three exceptions.
Overruns == \A p \in out.over : Overrun(call, p)

LEMMA CallOverruns ==
  ASSUME NEW fn, NEW r, Call(fn, r),
         call.fn = fn => \A p \in r.h.over : Overrun(call, p)
  PROVE  Overruns'
<1>1. out'.over = r.h.over /\ call' = call /\ call.fn = fn
  BY DEF Call
<1> QED
  BY <1>1 DEF Overruns, Overrun

\* The options of mlsx and mlsqx may be wrong; nothing is allocated then.
LEMMA OptionsFit ==
  ASSUME NEW k, NEW r, r = Done(Heap0, k)
  PROVE  r.h.over = {}
BY DEF Done, Heap0

\* A call overruns no buffer but those of the exceptions.
LEMMA MatricesOverrun ==
  ASSUME call \in Calls, Matrices PROVE Overruns'
<1> DEFINE x == call.x
           y == call.y
           z == call.z
           o == call.o
<1>1. /\ IsValue(x) /\ IsValue(y) /\ IsValue(z) /\ o.work \in Nat
      /\ FitCall(x, o) /\ FitCall(y, o)
  BY FitCalls
<1>2. ASSUME NEW fn, NEW r, Call(fn, r), r.h.over = {} PROVE Overruns'
  BY <1>2, CallOverruns
<1>3. CASE Call("mm", qml_mm(x, y))
  <2> DEFINE r == qml_mm(x, y)
  <2>1. \A p \in r.h.over : MmOver(x, y, p)
    <3> HIDE DEF x, y
    <3> QED
      BY <1>1, MmFits
  <2> HIDE DEF r
  <2>2. call.fn = "mm" => \A p \in r.h.over : Overrun(call, p)
    BY <2>1 DEF MmOver, Overrun
  <2>3. Call("mm", r)
    BY <1>3 DEF r
  <2> QED
    BY <2>2, <2>3, CallOverruns
<1>4. CASE Call("poly", qml_poly(x, o))
  <2> DEFINE r == qml_poly(x, o)
  <2>1. \A p \in r.h.over : call.fn = "poly" => p = "w" /\ Nested(x).t = 0
    <3>1. CASE call.fn # "poly"
      BY <3>1
    <3>2. CASE call.fn = "poly"
      <4>1. Nested(x) # NULL /\ Nested(x).t # -KF =>
               Nested(x).v = <<>> \/ Len(Nested(x).v) \in Nat \ {0}
        BY <3>2, CallsAssumption
      <4> HIDE DEF x, o
      <4> QED
        BY <1>1, <4>1, PolyFits
    <3> QED
      BY <3>1, <3>2
  <2> HIDE DEF r
  <2>2. call.fn = "poly" => \A p \in r.h.over : Overrun(call, p)
    BY <2>1 DEF Overrun
  <2>3. Call("poly", r)
    BY <1>4 DEF r
  <2> QED
    BY <2>2, <2>3, CallOverruns
<1>5. CASE Call("mlsx", qml_mlsx(x, y, z, o))
  <2> DEFINE r == qml_mlsx(x, y, z, o)
             t == Taken(x, ls_opt)
             equi == t.v[1] = 1
             s == mls(y, z, equi, o)
  <2>0. r = IF t.ok THEN s ELSE Done(Heap0, Krr("opt"))
    BY DEF qml_mlsx
  <2>1. \A p \in r.h.over : p = "x" /\ SideLen(z) > Height(y)
    <3> HIDE DEF x, y, z, o, t
    <3>1. CASE ~t.ok
      <4>1. r = Done(Heap0, Krr("opt"))
        BY <2>0, <3>1
      <4> HIDE DEF r
      <4> QED
        BY <4>1, OptionsFit
    <3>2. CASE t.ok /\ equi
      <4>1. r = mls(y, z, TRUE, o)
        BY <2>0, <3>2
      <4> HIDE DEF r, equi
      <4> QED
        BY <1>1, <4>1, MlsxFits
    <3>3. CASE t.ok /\ ~equi
      <4>1. r = mls(y, z, FALSE, o)
        BY <2>0, <3>3
      <4> HIDE DEF r, equi
      <4>2. r.h.over = {}
        BY <1>1, <4>1, MlsFits
      <4> QED
        BY <4>2
    <3> QED
      BY <3>1, <3>2, <3>3
  <2> HIDE DEF r
  <2>2. call.fn = "mlsx" => \A p \in r.h.over : Overrun(call, p)
    BY <2>1 DEF Overrun
  <2>3. Call("mlsx", r)
    BY <1>5 DEF r
  <2> QED
    BY <2>2, <2>3, CallOverruns
<1>6. CASE Call("mlsqx", qml_mlsqx(x, y, z, o))
  <2> DEFINE r == qml_mlsqx(x, y, z, o)
             t == Taken(x, lsq_opt)
             svd == t.v[1] = 1
             s == mlsq(y, z, svd, o)
  <2>0. r = IF t.ok THEN s ELSE Done(Heap0, Krr("opt"))
    BY DEF qml_mlsqx
  <2>1. r.h.over = {}
    <3> HIDE DEF x, y, z, o, t, svd
    <3>1. CASE ~t.ok
      <4>1. r = Done(Heap0, Krr("opt"))
        BY <2>0, <3>1
      <4> HIDE DEF r
      <4> QED
        BY <4>1, OptionsFit
    <3>2. CASE t.ok
      <4>1. r = s
        BY <2>0, <3>2
      <4> HIDE DEF r
      <4> QED
        BY <1>1, <4>1, MlsqFits
    <3> QED
      BY <3>1, <3>2
  <2> HIDE DEF r
  <2>2. Call("mlsqx", r)
    BY <1>6 DEF r
  <2> QED
    BY <1>2, <2>1, <2>2
<1> HIDE DEF x, y, z, o
<1>7. CASE Call("mdet", qml_mdet(x, o))
  BY <1>1, <1>2, <1>7, MdetFits
<1>8. CASE Call("minv", qml_minv(x, o))
  BY <1>1, <1>2, <1>8, MinvFits
<1>9. CASE Call("ms", qml_ms(x, y))
  BY <1>1, <1>2, <1>9, MsFits
<1>10. CASE Call("mevu", qml_mevu(x, o))
  BY <1>1, <1>2, <1>10, MevuFits
<1>11. CASE Call("mchol", qml_mchol(x, o))
  BY <1>1, <1>2, <1>11, McholFits
<1>12. CASE Call("mqr", mqr(x, FALSE, o))
  BY <1>1, <1>2, <1>12, MqrFits
<1>13. CASE Call("mqrp", mqr(x, TRUE, o))
  BY <1>1, <1>2, <1>13, MqrFits
<1>14. CASE Call("mlup", qml_mlup(x, o))
  BY <1>1, <1>2, <1>14, MlupFits
<1>15. CASE Call("msvd", qml_msvd(x, o))
  BY <1>1, <1>2, <1>15, MsvdFits
<1>16. CASE Call("mls", mls(x, y, FALSE, o))
  BY <1>1, <1>2, <1>16, MlsFits
<1>17. CASE Call("mlsq", mlsq(x, y, FALSE, o))
  BY <1>1, <1>2, <1>17, MlsqFits
<1> QED
  BY <1>3, <1>4, <1>5, <1>6, <1>7, <1>8, <1>9, <1>10, <1>11, <1>12, <1>13, <1>14,
     <1>15, <1>16, <1>17 DEF Matrices, x, y, z, o

\* What has been overrun stays one of the exceptions.
LEMMA NextOverruns ==
  ASSUME LoopInv, Overruns, [Next]_vars PROVE Overruns'
<1>1. call \in Calls
  BY DEF LoopInv, MatTypeOK
<1>2. CASE qml_debug_alloc
  BY <1>2 DEF qml_debug_alloc, Overruns, Overrun
<1>3. CASE Matrices
  BY <1>1, <1>3, MatricesOverrun
<1>4. CASE Pure
  <2>1. PICK k : Call(call.fn, [h |-> Heap0, k |-> k])
    BY <1>4 DEF Pure
  <2> DEFINE r == [h |-> Heap0, k |-> k]
  <2>2. r.h.over = {} /\ Call(call.fn, r)
    BY <2>1 DEF Heap0
  <2> HIDE DEF r
  <2> QED
    BY <2>2, CallOverruns
<1>5. CASE UNCHANGED vars
  BY <1>5 DEF vars, Overruns, Overrun
<1> QED
  BY <1>2, <1>3, <1>4, <1>5 DEF Next, Ended

\* Whatever allocations fail, in calls of any size, LAPACK and the loops of
\* lapack.c are given no buffer smaller than they are told, but for the three
\* exceptions; and no call ends with qml_assert.
THEOREM BuffersFit ==
  Spec => []CallsFit
<1>1. Init => Overruns
  BY DEF Init, NoRun, Overruns
<1>2. LoopInv /\ Overruns /\ [Next]_vars => Overruns'
  BY NextOverruns
<1>3. LoopInv /\ Overruns => CallsFit
  BY DEF LoopInv, Overruns, CallsFit, Ran, Answered, RunExplained
<1> QED
  BY <1>1, <1>2, <1>3, LoopKept, PTL DEF Spec
=============================================================================
