----------------------------- MODULE QmlMatrices -----------------------------
(***************************************************************************)
(* The matrix functions of qml/src/lapack.c and the allocator of alloc.c,  *)
(* in the loop in which the test driver of qml/debug runs a function:      *)
(*                                                                         *)
(*     while[.qml.debug_alloc[]; call]                                     *)
(*                                                                         *)
(* debug_alloc selects the next set of allocations to fail.  A call works  *)
(* on a heap record h: the error to report (err), the buffers it has       *)
(* allocated and not yet freed (live), the schedule (fail, i), the buffers *)
(* that are smaller than a routine was told, or than a loop went through   *)
(* (over), and the variables of the C function.  The functions record an   *)
(* error and go on: LAPACK and make_matrix run all the same.               *)
(*                                                                         *)
(* A buffer is a function from offsets, stored by column as LAPACK has it; *)
(* NULL is <<>>.  What LAPACK computes is external: it returns Unknown.    *)
(***************************************************************************)
EXTENDS QmlValues

CONSTANTS Calls,       \* the calls a session makes: [fn, x, y, z, o]
          alloc_max,   \* entries of the schedule
          max_size,    \* items of the largest buffer
          Nested(_),   \* a value as nested floats, or NULL (convert_FFF)
          Taken(_, _), \* the options a value gives for a table (take_opt)
          Answers(_)   \* of a call that allocates nothing

\* Vectors and matrices of floats are sequences, or sequences of them.
Floats1 == [t : {KF}, v : Seq(Int)]
IsValue(x) == /\ convert_F(x) = NULL \/ convert_F(x).v \in Seq(Int)
              /\ convert_FF(x) = NULL \/ convert_FF(x).v \in Seq(Floats1)

\* LAPACK asks for a workspace, and reports a failure by a positive info.
IsOutcome(o) == o.info \in Nat /\ o.work \in Nat \ {0}

\* A call makes at most 11 allocations.  More than half of wi columns of wi
\* items are more than memory holds.
ASSUME CallsAssumption ==
    /\ alloc_max \in Nat /\ alloc_max > 12
    /\ max_size \in wi..(wi * (wi \div 2 + 1) - 1)
    /\ \A c \in Calls :
          /\ IsValue(c.x) /\ IsValue(c.y) /\ IsValue(c.z) /\ IsOutcome(c.o)
          /\ \A k \in Answers(c) :
                k # NULL /\ (k.t = -128 => k.s \notin {"qml_assert", "abort"})
          /\ c.fn = "poly" /\ Nested(c.x) # NULL /\ Nested(c.x).t # -KF =>
                Nested(c.x).v = <<>> \/ Len(Nested(c.x).v) \in Nat \ {0}

VARIABLES alloc_fail,  \* which allocations fail; entry 0 switches the loop off
          alloc_i,     \* the next allocation
          call,        \* the call under test
          out,         \* how the last run of it ended
          loop         \* "test" before debug_alloc, "run", "end" of the loop

vars == <<alloc_fail, alloc_i, call, out, loop>>

Unknown == 1
\* Bound: whole numbers that are tried as a solution of a system.
Whole == 9
NULLBUF == <<>>

-----------------------------------------------------------------------------
(* alloc.c *)

\* No error to report.
none == "none"

Heap0 == [err |-> none, live |-> <<>>, fail |-> alloc_fail, i |-> alloc_i,
          over |-> {}, info |-> 0, lwork |-> 0, liwork |-> 0, m |-> 0,
          n |-> 0, b_m |-> 0, b_n |-> 0, ldb |-> 0, nm |-> 0, min |-> 0,
          a |-> NULLBUF, b |-> NULLBUF, r |-> NULLBUF, triangular |-> 0,
          column |-> FALSE]

\* Only the first error is reported.
Err(h, e) == [h EXCEPT !.err = IF @ = none THEN e ELSE @]
Require(h, ok, e) == IF ok THEN h ELSE Err(h, e)
Live(h, p) == p \in DOMAIN h.live
Size(h, p) == IF Live(h, p) THEN h.live[p] ELSE 0
Buf(h, p)  == [k \in 0..(Size(h, p) - 1) |-> Unknown]
\* Mutant: nobody frees the workspace.
Free_NotWorkspace(h, P) ==
    [h EXCEPT !.live = [q \in DOMAIN h.live \ (P \ {"w"}) |-> h.live[q]]]
Free(h, P) == [h EXCEPT !.live =
                  [q \in DOMAIN h.live \ P |-> h.live[q]]]

\* The first needs[p] items of each buffer p are read or written.
Uses(h, needs) ==
    [h EXCEPT !.over = @ \cup {p \in DOMAIN needs : Size(h, p) < needs[p]}]

\* malloc under the schedule: only the loop counts and fails.
alloc(h, p, size) ==
    LET active == h.fail[0] = 0
        with   == [q \in DOMAIN h.live \cup {p} |->
                      IF q = p THEN size ELSE h.live[q]]
    IN  IF h.i >= alloc_max THEN [h EXCEPT !.err = "abort"]
        ELSE [h EXCEPT !.i = IF active THEN @ + 1 ELSE @,
                       !.live = IF active /\ h.fail[h.i] = 1 THEN @ ELSE with]

\* Mutant: a failed allocation sets no error.
alloc_TT_Silent(h, p, n, m) ==
    IF n = 0 \/ m = 0 THEN h
    ELSE IF n >= wi \/ n * m > max_size THEN Err(h, "limit")
    ELSE alloc(h, p, n * m)

\* A buffer p of n times m.
alloc_TT(h, p, n, m) ==
    LET got(r) == Require(r, Live(r, p), "wsfull")
    IN  IF n = 0 \/ m = 0 THEN h
        ELSE IF n >= wi \/ n * m > max_size THEN Err(h, "limit")
        ELSE got(alloc(h, p, n * m))

\* The dimension d is passed by reference: it is 0 after a failure.
alloc_T(h, p, d, m) ==
    LET left(r) == IF m # 0 /\ ~Live(r, p) THEN [r EXCEPT ![d] = 0] ELSE r
    IN  left(alloc_TT(h, p, h[d], m))
alloc_F(h, p, d)     == alloc_T(h, p, d, 1)
alloc_FF(h, p, d, e) == alloc_T(h, p, d, h[e])

\* Without d there is nothing for e to count.
Shrink(h, d, e) == IF h[d] = 0 THEN [h EXCEPT ![e] = 0] ELSE h

\* a + m * n, at most wi (alloc.h).
add_size(a, m, n) == IF n = 0 \/ m <= (wi - a) \div n THEN a + m * n ELSE wi

check_err(h, k) == IF h.err # none THEN Krr(h.err) ELSE k

-----------------------------------------------------------------------------
(* lapack.c: matrices in and out *)

check_info(h, info) ==
    IF info < 0 THEN Err(h, IF info = -7 THEN "wsfull" ELSE "qml_assert")
    ELSE h

\* A LAPACK routine: it rejects dimensions that are not valid, and touches no
\* buffer then, or uses those it is given and returns o.
Lapack(h, valid, needs, o) ==
    LET ran  == IF valid THEN Uses(h, needs) ELSE h
        info == IF valid THEN o ELSE -1
    IN  check_info([ran EXCEPT !.info = info], info)

take_maxwork(info, maxwork) ==
    IF info = 0 /\ maxwork >= 0 /\ maxwork < wi THEN maxwork ELSE wi

\* A workspace query and the workspace, lwork being 0 without one: the item on
\* the stack that w is then is all that LAPACK touches when it rejects lwork.
Query(h, valid) == Lapack(h, valid, <<>>, 0)
alloc_W(h, maxwork) ==
    alloc_F([h EXCEPT !.lwork = take_maxwork(h.info, maxwork)], "w", "lwork")

Row(k, j) == k.v[j + 1].v

\* 1 if the matrix of the n rows of k is upper triangular, -1 if it is lower.
triangular(k, n) ==
    LET I == 0..(n - 1)
    IN  IF \A j, i \in I : i < j => Row(k, j)[i + 1] = 0 THEN 1
        ELSE IF \A j, i \in I : i > j => Row(k, j)[i + 1] = 0 THEN -1
        ELSE 0

SquareRows(h, k) == IF \E j \in 0..(h.n - 1) : Len(Row(k, j)) # h.n
                    THEN [Err(h, "length") EXCEPT !.n = 0] ELSE h
FillSquare(h, k) ==
    [Uses(h, [a |-> h.n * h.n])
       EXCEPT !.a = [o \in 0..(h.n * h.n - 1) |->
                        Row(k, o % h.n)[(o \div h.n) + 1]],
              !.triangular = triangular(k, h.n)]

\* Sets n, a and triangular.
take_square_matrix(h, x) ==
    LET k == convert_FF(x)
        ok == k # NULL /\ k.v # <<>>
        count == [Require(h, ok, "type") EXCEPT !.n = IF ok THEN Len(k.v) ELSE 0]
    IN  FillSquare(SquareRows(alloc_FF(count, "a", "n", "n"), k), k)

\* Where take_matrix puts a matrix; ldr may be m itself.
A == [m |-> "m", n |-> "n", ldr |-> "m", a |-> "a"]
B == [m |-> "b_m", n |-> "b_n", ldr |-> "b_m", a |-> "b"]

FillColumn(h, c, v) ==
    [Uses(h, [p \in {v.a} |-> h[v.m]])
       EXCEPT !.column = TRUE,
              ![v.a] = [o \in 0..(h[v.ldr] - 1) |->
                           IF o < Len(c) THEN c[o + 1] ELSE Unknown]]
TakeColumn(h, c, v) ==
    LET size == [h EXCEPT ![v.ldr] = max_i(@, Len(c)), ![v.m] = Len(c),
                          ![v.n] = 1]
    IN  FillColumn(Shrink(alloc_F(size, v.a, v.ldr), v.ldr, v.m), c, v)

\* The dimensions of k, 0 unless its rows have the same length.
MatrixRows(h, k, v, column) ==
    LET ok == k # NULL /\ k.v # <<>> /\ Row(k, 0) # <<>>
        even == \A j \in DOMAIN k.v : Len(k.v[j].v) = Len(Row(k, 0))
        m == IF ok /\ even THEN Len(k.v) ELSE 0
        n == IF ok /\ even THEN Len(Row(k, 0)) ELSE 0
    IN  [Require(Require(h, ok, "type"), ok => even, "length")
            EXCEPT ![v.m] = m, ![v.n] = n, ![v.ldr] = max_i(h[v.ldr], m),
                   !.nm = IF column = "square" THEN max_i(m, n) ELSE n]
FillMatrix(h, k, v) ==
    LET ldr == h[v.ldr]
    IN  [Uses(h, [p \in {v.a} |-> h[v.n] * ldr])
           EXCEPT !.column = FALSE,
                  ![v.a] = [o \in 0..(h.nm * ldr - 1) |->
                      IF o % ldr < h[v.m] /\ o \div ldr < h[v.n]
                      THEN Row(k, o % ldr)[(o \div ldr) + 1] ELSE Unknown]]
TakeMatrix(h, k, v, column) ==
    LET size == alloc_FF(MatrixRows(h, k, v, column), v.a, "nm", v.ldr)
    IN  FillMatrix(Shrink(Shrink(size, "nm", v.m), "nm", v.n), k, v)

\* column: "no" for a matrix only, "square" for room for a square one, "ask"
\* to take a vector too; ldr0 is 0 if ldr is m.
take_matrix(h, x, v, ldr0, column) ==
    LET start == [h EXCEPT ![v.ldr] = ldr0]
    IN  IF column = "ask" /\ convert_F(x) # NULL
        THEN TakeColumn(start, convert_F(x).v, v)
        ELSE TakeMatrix(start, convert_FF(x), v, column)

\* A matrix of m rows and n columns from the buffer a, NaNs if it is NULL.
\* What lies beyond the buffer is Unknown; the caller records that it is read.
make_matrix(a, ldr, m, n, form) ==
    LET at(o) == IF o \in DOMAIN a THEN a[o] ELSE Unknown
        item(j, i) ==
            IF a = NULLBUF THEN nf
            ELSE CASE form = "upper" /\ i < j -> 0
                   [] form = "lower" /\ i = j -> 1
                   [] form = "lower" /\ i > j -> 0
                   [] form = "transposed"     -> at(i + j * ldr)
                   [] OTHER                   -> at(j + i * ldr)
        rows == IF form = "transposed" THEN n ELSE m
        cols == IF form = "transposed" THEN m ELSE n
    IN  IF form = "column" THEN Vec(KF, [j \in 1..m |-> item(j - 1, 0)])
        ELSE Vec(0, [j \in 1..rows |->
                        Vec(KF, [i \in 1..cols |-> item(j - 1, i - 1)])])

Form(h)    == IF h.column THEN "column" ELSE "matrix"
Null(i, a) == IF i # 0 THEN NULLBUF ELSE a

\* The columns make_matrix reads, and what it reads unless LAPACK failed.
ReadColumns(h) == IF h.column THEN 1 ELSE h.b_n
Reads(h, needs) == IF h.info # 0 THEN h ELSE Uses(h, needs)

make_complex(a, b) == IF b = 0 THEN Atom(KF, a) ELSE Vec(KF, <<a, b>>)

\* n numbers with the imaginary parts b: floats unless one is complex.
make_complex_vector(a, b, n) ==
    IF \E i \in 1..n : b[i] # 0
    THEN Vec(0, [i \in 1..n |-> make_complex(a[i], b[i])])
    ELSE Vec(KF, a)

Done(h, k) == [h |-> h, k |-> check_err(h, k)]

-----------------------------------------------------------------------------
(* lapack.c: the functions q calls.  Each returns its heap and its result; *)
(* o chooses what is external: whether LAPACK reports a failure (info),    *)
(* the workspace it asks for (work), pivots (piv), eigenvalues (li).       *)
(* The steps of a function are operators on its heap, named after it.      *)

getrf(h, info) == Lapack(h, h.n >= 1, [a |-> h.n * h.n, ipiv |-> h.n], info)

mdet_lu(h, o) == IF h.triangular # 0 THEN h
                 ELSE getrf(alloc_F(h, "ipiv", "n"), o.info)
mdet_end(h)   ==
    LET sign == IF h.triangular # 0 THEN h ELSE Uses(h, [ipiv |-> h.n])
    IN  Done(Free(Uses(sign, [a |-> h.n * h.n]), {"ipiv", "a"}),
             Atom(KF, Unknown))

qml_mdet(x, o) == mdet_end(mdet_lu(take_square_matrix(Heap0, x), o))

minv_lu(h, o)   == getrf(alloc_F(h, "ipiv", "n"), o.info)
getri(h)        == Lapack(h, h.n >= 1 /\ h.lwork >= 1,
                          [a |-> h.n * h.n, ipiv |-> h.n, w |-> h.lwork], 0)
minv_work(h, o) == IF h.info # 0 THEN h
                   ELSE getri(alloc_W(Query(h, h.n >= 1), o.work))
minv_end(h)     == Done(Free(Reads(h, [a |-> h.n * h.n]), {"w", "ipiv", "a"}),
                        make_matrix(Null(h.info, Buf(h, "a")), h.n, h.n, h.n,
                                    "matrix"))

qml_minv(x, o) ==
    minv_end(minv_work(minv_lu(take_square_matrix(Heap0, x), o), o))

\* Sum of f over 0..n-1.
SumTo(f, n) == FoldLeft(+, 0, [i \in 1..n |-> f[i - 1]])

\* BLAS: r = A b, r = B^T a and R = A B, all on matrices stored by column.
dgemv_N(m, n, a, b) == [i \in 0..(m - 1) |->
    SumTo([k \in 0..(n - 1) |-> a[i + k * m] * b[k]], n)]
dgemv_T(m, n, b, a) == [j \in 0..(n - 1) |->
    SumTo([k \in 0..(m - 1) |-> b[k + j * m] * a[k]], m)]
dgemm(m, n, q, a, b) == [p \in 0..(m * n - 1) |->
    SumTo([k \in 0..(q - 1) |-> a[(p % m) + k * m] * b[k + (p \div m) * q]], q)]

mm_length(h) == Require(h, h.n = h.b_m, "length")
mm_blas(h) ==
    LET run == h.m # 0 /\ h.b_m # 0 /\ h.b_n # 0
        \* dgemm rejects an inner dimension of more than b_m rows
        needs == IF h.b_n = 1    THEN [a |-> h.m * h.n, b |-> h.n, r |-> h.m]
                 ELSE IF h.m = 1 THEN [a |-> h.b_m, b |-> h.b_m * h.b_n, r |-> h.b_n]
                 ELSE IF h.b_m < h.n THEN <<>>
                 ELSE [a |-> h.m * h.n, b |-> h.b_m * h.b_n, r |-> h.m * h.b_n]
        r == IF ~run \/ h.err # none THEN Buf(h, "r")
             ELSE IF h.b_n = 1 THEN dgemv_N(h.m, h.n, h.a, h.b)
             ELSE IF h.m = 1   THEN dgemv_T(h.b_m, h.b_n, h.b, h.a)
             ELSE dgemm(h.m, h.b_n, h.n, h.a, h.b)
    IN  [IF run THEN Uses(h, needs) ELSE h EXCEPT !.r = r]
mm_end(h) == Done(Free(Uses(h, [r |-> h.m * h.b_n]), {"b", "a", "r"}),
                  make_matrix(h.r, h.m, h.m, h.b_n, Form(h)))

qml_mm(x, y) ==
    LET a == take_matrix(Heap0, x, A, 0, "no")
        b == mm_length(take_matrix(a, y, B, 0, "ask"))
    IN  mm_end(mm_blas(alloc_FF(b, "r", "b_n", "m")))

\* p divided by d, Unknown when that is no whole number.
Quotient(p, d) ==
    LET most == IF p < 0 THEN -p ELSE p
        Q == {q \in (-most)..most : q * d = p}
    IN  IF Q = {} THEN Unknown ELSE CHOOSE q \in Q : TRUE

\* Mutant: the diagonal is taken to be of ones (DIAG is "U").
dtrsv_UnitDiagonal(upper, n, a, b) ==
    LET x[i \in 0..(n - 1)] ==
            b[i] - SumTo([k \in 0..(n - 1) |->
                          IF (IF upper THEN k > i ELSE k < i)
                          THEN a[i + k * n] * x[k] ELSE 0], n)
    IN  x

\* BLAS: the column b divided by a triangular matrix.
dtrsv(upper, n, a, b) ==
    LET x[i \in 0..(n - 1)] ==
            Quotient(b[i] - SumTo([k \in 0..(n - 1) |->
                                   IF (IF upper THEN k > i ELSE k < i)
                                   THEN a[i + k * n] * x[k] ELSE 0], n),
                     a[i + i * n])
    IN  x
dtrsm(upper, n, cols, a, b) ==
    LET x == [c \in 0..(cols - 1) |->
                dtrsv(upper, n, a, [i \in 0..(n - 1) |-> b[i + c * n]])]
    IN  [p \in 0..(n * cols - 1) |-> x[p \div n][p % n]]

ms_domain(h) == Require(h, h.triangular # 0, "domain")
ms_length(h) == Require(h, h.n = h.b_m, "length")
ms_zero(h)   ==
    [h EXCEPT !.info =
        IF \E i \in 0..(h.n - 1) : h.a[i + i * h.n] = 0 THEN 1 ELSE 0]
ms_blas(h) ==
    LET run == h.info = 0 /\ h.n = h.b_m
        needs == [a |-> h.n * h.n, b |-> h.b_m * h.b_n]
        b == IF ~run \/ h.err # none THEN Buf(h, "b")
             ELSE IF h.b_n = 1 THEN dtrsv(h.triangular > 0, h.n, h.a, h.b)
             ELSE dtrsm(h.triangular > 0, h.n, h.b_n, h.a, h.b)
    IN  [IF run THEN Uses(h, needs) ELSE h EXCEPT !.b = b]
ms_end(h) == Done(Free(Reads(h, [b |-> h.b_m * ReadColumns(h)]), {"a", "b"}),
                  make_matrix(Null(h.info, h.b), h.b_m, h.b_m, h.b_n, Form(h)))

qml_ms(x, y) ==
    LET a == ms_domain(take_square_matrix(Heap0, x))
    IN  ms_end(ms_blas(ms_zero(ms_length(take_matrix(a, y, B, 0, "ask")))))

\* The columns of the eigenvectors: a pair of columns for two conjugates.
Eigenvectors(n, li) ==
    LET Pair(j, s) == Vec(0, [i \in 1..n |-> make_complex(Unknown, s)])
        Columns[j \in 1..(n + 1)] ==
            IF j > n THEN <<>>
            ELSE IF li[j] # 0 /\ j < n
            THEN <<Pair(j, Unknown), Pair(j, -Unknown)>> \o Columns[j + 2]
            ELSE <<Vec(KF, [i \in 1..n |-> Unknown])>> \o Columns[j + 1]
    IN  Vec(0, Columns[1])

mevu_work(h, o) == alloc_W(Query(h, h.n >= 1), o.work)
mevu_parts(h)   == alloc_FF(alloc_F(alloc_F(h, "lr", "n"), "li", "n"),
                            "ev", "n", "n")
mevu_geev(h, o) == Lapack(h, h.n >= 1 /\ h.lwork >= 1,
                          [a |-> h.n * h.n, lr |-> h.n, li |-> h.n,
                           ev |-> h.n * h.n, w |-> h.lwork], o.info)
eigenvalues(h, o) ==
    IF h.info # 0 THEN make_F_null(h.n)
    ELSE make_complex_vector([i \in 1..h.n |-> Unknown],
                             [i \in 1..h.n |-> o.li[i]], h.n)
mevu_end(h, ev, o) ==
    LET vectors == IF ev.t = 0 THEN Eigenvectors(h.n, o.li)
                   ELSE make_matrix(Null(h.info, Buf(h, "ev")), h.n, h.n, h.n,
                                    "transposed")
        read == Reads(h, [lr |-> h.n, li |-> h.n, ev |-> h.n * h.n])
    IN  Done(Free(read, {"w", "a", "ev", "li", "lr"}), Vec(0, <<ev, vectors>>))
mevu_result(h, o) == mevu_end(h, eigenvalues(h, o), o)

qml_mevu(x, o) ==
    LET work == mevu_work(take_square_matrix(Heap0, x), o)
    IN  mevu_result(mevu_geev(mevu_parts(work), o), o)

potrf(h, o)   == Lapack(h, h.n >= 1, [a |-> h.n * h.n], o.info)
mchol_end(h)  == Done(Free(Reads(h, [a |-> h.n * h.n]), {"a"}),
                      make_matrix(Null(h.info, Buf(h, "a")), h.n, h.n, h.n,
                                  "upper"))

qml_mchol(x, o) == mchol_end(potrf(take_square_matrix(Heap0, x), o))

SetMin(h) == [h EXCEPT !.min = min_i(h.m, h.n)]

mqr_larger(h, o) ==
    [h EXCEPT !.lwork = max_i(@, take_maxwork(h.info, o.work))]
mqr_query(h, o)    == mqr_larger(Query(h, h.m >= 1), o)
mqr_work(h, o)     == alloc_F(mqr_query(mqr_query(h, o), o), "w", "lwork")
mqr_tau(h)         == Shrink(alloc_F(h, "tau", "min"), "min", "n")
mqr_ipiv(h, pivot) == IF pivot THEN Shrink(alloc_F(h, "ipiv", "n"), "n", "min")
                      ELSE h
geqrf(h, pivot) ==
    IF ~pivot /\ h.lwork = 0 THEN check_info(h, h.info)
    ELSE Lapack(h, h.m >= 1 /\ h.lwork >= 1,
                [a |-> h.m * h.n, tau |-> min_i(h.m, h.n), w |-> h.lwork,
                 ipiv |-> IF pivot THEN h.n ELSE 0], 0)
orgqr(h) == Lapack(h, h.m >= 1 /\ h.lwork >= 1,
                   [a |-> h.m * h.m, tau |-> h.min, w |-> h.lwork], 0)
\* The columns in the order they were exchanged, or as they were.
permutation(n, o) == Vec(KJ, [i \in 1..n |-> (IF o.piv THEN n + 1 - i ELSE i) - 1])
mqr_end(h, pivot, o) ==
    LET q == make_matrix(Buf(h, "a"), h.m, h.m, h.m, "matrix")
        r == make_matrix(Buf(h, "a"), h.m, h.m, h.n, "upper")
        read == Uses(Uses(h, [a |-> h.m * h.n, ipiv |-> IF pivot THEN h.n ELSE 0]),
                     [a |-> h.m * h.m])
    IN  Done(Free(read, {"ipiv", "w", "tau", "a"}),
             Vec(0, IF pivot THEN <<q, r, permutation(h.n, o)>> ELSE <<q, r>>))

mqr(x, pivot, o) ==
    LET a == take_matrix(Heap0, x, A, 0, "square")
        parts == mqr_ipiv(mqr_tau(mqr_work(SetMin(a), o)), pivot)
    IN  mqr_end(orgqr(geqrf(parts, pivot)), pivot, o)

\* The rows 0..m-1 after the exchanges of dgetrf, i with ipiv[i].
Swapped(m, min, ipiv) ==
    LET Swap(q, i) == [q EXCEPT ![i] = q[ipiv[i]], ![ipiv[i]] = q[i]]
    IN  FoldLeft(Swap, [i \in 1..m |-> i - 1], [i \in 1..min |-> i])

mlup_ipiv(h)  == Shrink(alloc_F(h, "ipiv", "min"), "min", "n")
mlup_lu(h, o) == Lapack(h, h.m >= 1,
                        [a |-> h.m * h.n, ipiv |-> min_i(h.m, h.n)], o.info)
mlup_end(h, o) ==
    LET exchanged == [i \in 1..h.min |-> IF o.piv THEN h.m ELSE i]
        read == Uses(Uses(h, [a |-> h.m * h.min]), [a |-> h.m * h.n, ipiv |-> h.min])
    IN  Done(Free(read, {"ipiv", "a"}),
             Vec(0, <<make_matrix(Buf(h, "a"), h.m, h.m, h.min, "lower"),
                      make_matrix(Buf(h, "a"), h.m, h.min, h.n, "upper"),
                      Vec(KJ, Swapped(h.m, h.min, exchanged))>>))

qml_mlup(x, o) ==
    LET a == take_matrix(Heap0, x, A, 0, "no")
    IN  mlup_end(mlup_lu(mlup_ipiv(SetMin(a)), o), o)

msvd_work(h, o) == alloc_W(Query(h, h.m >= 1), o.work)
msvd_parts(h)   == alloc_FF(alloc_FF(alloc_F(h, "s", "min"), "u", "m", "m"),
                            "vt", "n", "n")
\* Mutant: LAPACK is called without iw.
msvd_iw_Kept(h) == alloc_T(h, "iw", "min", 8)
msvd_iw(h)      == Shrink(alloc_T(h, "iw", "min", 8), "min", "m")
gesdd(h, o)     == Lapack(h, h.m >= 1 /\ h.n >= 1 /\ h.lwork >= 1,
                          [a |-> h.m * h.n, s |-> min_i(h.m, h.n), u |-> h.m * h.m,
                           vt |-> h.n * h.n, iw |-> 8 * min_i(h.m, h.n),
                           w |-> h.lwork], o.info)
\* The singular values on the diagonal of a matrix of m by n.
diagonal(m, n, d) ==
    Vec(0, [j \in 1..m |-> Vec(KF, [i \in 1..n |-> IF i = j THEN d ELSE 0])])
msvd_reads(h) == Reads(h, [u |-> h.m * h.m, s |-> min_i(h.m, h.n),
                           vt |-> h.n * h.n])
msvd_end(h) ==
    Done(Free(msvd_reads(h), {"w", "iw", "a", "vt", "u", "s"}),
         Vec(0, <<make_matrix(Null(h.info, Buf(h, "u")), h.m, h.m, h.m, "matrix"),
                  diagonal(h.m, h.n, IF h.info # 0 THEN nf ELSE Unknown),
                  make_matrix(Null(h.info, Buf(h, "vt")), h.n, h.n, h.n,
                              "transposed")>>))

qml_msvd(x, o) ==
    LET a == take_matrix(Heap0, x, A, 0, "no")
    IN  msvd_end(gesdd(msvd_iw(msvd_parts(msvd_work(SetMin(a), o))), o))

\* A coefficient of a polynomial as <<real, imaginary>>.
Coef(k, i) == LET v == IF k.t = KF THEN Atom(KF, k.v[i]) ELSE k.v[i]
              IN  IF v.t = KF THEN v.v ELSE <<v.v, 0>>

\* The items of a complex number, or of a float.
one(k) == IF k.t = 0 THEN 2 ELSE 1
poly_start(k) == [Require(Heap0, Coef(k, 1) # <<0, 0>>, "roots")
                     EXCEPT !.n = Len(k.v) - 1]
poly_work(h, k, o) ==
    alloc_W(Query(h, TRUE), add_size(0, take_maxwork(0, o.work), one(k)))
poly_rwork(h, k) == IF k.t = 0 THEN alloc_T(h, "rwork", "n", 2) ELSE h
poly_cm(h, k)    == alloc_T(h, "cm", "n", add_size(0, h.n, one(k)))
\* The companion matrix is filled in before LAPACK is called.
companion(h, k)  == Uses(h, [cm |-> h.n * (h.n * one(k))])
\* lwork counts the floats w holds, and zgeev is told of as many complex items.
poly_geev(h, k, o) ==
    Lapack(h, h.n >= 1 /\ h.lwork >= 1,
           [cm |-> h.n * (h.n * one(k)), l |-> 2 * h.n, w |-> h.lwork * one(k),
            rwork |-> IF k.t = 0 THEN 2 * h.n ELSE 0], o.info)
poly_found(h) == IF h.info # 0 THEN [Err(h, "roots") EXCEPT !.n = 0] ELSE h
poly_roots(h, k, o) ==
    LET parts == alloc_T(poly_cm(poly_rwork(poly_work(h, k, o), k), k), "l", "n", 2)
    IN  IF h.n = 0 THEN h ELSE poly_found(poly_geev(companion(parts, k), k, o))
poly_end(h, o) ==
    Done(Free(Uses(h, [l |-> 2 * h.n]), {"w", "cm", "rwork", "l"}),
         make_complex_vector([i \in 1..h.n |-> Unknown],
                             [i \in 1..h.n |-> o.li[i]], h.n))

\* What is wrong with the coefficients k.
poly_error(k) ==
    LET bad == {i \in DOMAIN k.v : \/ k.v[i].t = 0
                                   \/ k.v[i].t = KF /\ Len(k.v[i].v) # 2}
        first == CHOOSE i \in bad : \A j \in bad : i <= j
    IN  IF k = NULL \/ k.t = -KF THEN "type"
        ELSE IF k.t = 0 /\ bad # {}
        THEN IF k.v[first].t = 0 THEN "type" ELSE "length"
        ELSE IF k.v = <<>> THEN "length" ELSE none

qml_poly(x, o) ==
    LET k == Nested(x)
    IN  IF poly_error(k) # none THEN Done(Heap0, Krr(poly_error(k)))
        ELSE poly_end(poly_roots(poly_start(k), k, o), o)

gesv(h, o) == Lapack(h, h.n >= 1 /\ h.b_m >= h.n,
                     [a |-> h.n * h.n, ipiv |-> h.n, b |-> h.b_m * h.b_n], o.info)
\* With equilibration the solution is in another buffer.
mls_systems(h) == alloc_FF(alloc_FF(h, "x", "n", "b_n"), "af", "n", "n")
mls_scales(h)  == alloc_T(alloc_F(alloc_F(h, "r", "n"), "c", "n"), "w", "n", 4)
mls_errors(h)  == alloc_F(alloc_F(alloc_F(h, "ferr", "b_n"), "berr", "b_n"),
                          "iw", "n")
gesvx(h, o) == Lapack(h, h.n >= 1 /\ h.b_m >= h.n,
                      [a |-> h.n * h.n, af |-> h.n * h.n, ipiv |-> h.n,
                       r |-> h.n, c |-> h.n, b |-> h.b_m * h.b_n,
                       x |-> h.b_m * h.b_n, w |-> 4 * h.n, iw |-> h.n,
                       ferr |-> h.b_n, berr |-> h.b_n], o.info)
mls_length(h) == Require(h, h.n = h.b_m, "length")
mls_solve(h, equi, o) ==
    IF equi THEN gesvx(mls_errors(mls_scales(mls_systems(h))), o) ELSE gesv(h, o)
mls_end(h, equi) ==
    LET p == IF equi THEN "x" ELSE "b"
        solution == Null(h.info, Buf(h, p))
        read == Reads(h, [q \in {p} |-> h.b_m * ReadColumns(h)])
    IN  Done(Free(read, {"iw", "berr", "ferr", "w", "c", "r", "af", "b", "ipiv",
                      "a", "x"}),
             make_matrix(solution, h.b_m, h.b_m, h.b_n, Form(h)))

mls(x, y, equi, o) ==
    LET b == take_matrix(take_square_matrix(Heap0, x), y, B, 0, "ask")
    IN  mls_end(mls_solve(alloc_F(mls_length(b), "ipiv", "n"), equi, o), equi)

\* The right side of mlsq has room for the solution.
Right == [B EXCEPT !.ldr = "ldb"]

mlsq_length(h)  == Require(h, h.m = h.b_m, "length")
mlsq_valid(h)   == h.m >= 1 /\ h.ldb >= max_i(h.m, h.n)
mlsq_work(h, o) == alloc_W(Query(h, mlsq_valid(h)), o.work)
gels(h, o)      == Lapack(h, mlsq_valid(h) /\ h.lwork >= 1,
                          [a |-> h.m * h.n, b |-> h.ldb * h.b_n,
                           w |-> h.lwork], o.info)
mlsq_sizes(h, o) == [h EXCEPT !.min = min_i(h.m, h.n),
                              !.liwork = take_maxwork(0, o.work)]
mlsq_svs(h)     == Shrink(alloc_F(h, "s", "min"), "min", "n")
gelsd(h, o) == IF h.err # none THEN h
               ELSE Lapack(h, TRUE, [a |-> h.m * h.n, b |-> h.ldb * h.b_n,
                                     s |-> min_i(h.m, h.n), iw |-> h.liwork,
                                     w |-> h.lwork], o.info)
mlsq_solve(h, svd, o) ==
    IF svd /\ h.info = 0
    THEN gelsd(alloc_F(mlsq_svs(mlsq_sizes(h, o)), "iw", "liwork"), o)
    ELSE gels(h, o)
mlsq_end(h) == Done(Free(Reads(h, [b |-> h.ldb * ReadColumns(h)]),
                         {"iw", "s", "w", "a", "b"}),
                    make_matrix(Null(h.info, Buf(h, "b")), h.ldb, h.n, h.b_n,
                                Form(h)))
mlsq_right(h, y) == take_matrix(h, y, Right, h.n, "ask")

mlsq(x, y, svd, o) ==
    LET b == mlsq_length(mlsq_right(take_matrix(Heap0, x, A, 0, "no"), y))
    IN  mlsq_end(mlsq_solve(mlsq_work(b, o), svd, o))

ls_opt  == <<<<"equi", 0>>>>
lsq_opt == <<<<"svd", 0>>>>

qml_mlsx(opts, x, y, o) ==
    LET t == Taken(opts, ls_opt)
    IN  IF t.ok THEN mls(x, y, t.v[1] = 1, o) ELSE Done(Heap0, Krr("opt"))
qml_mlsqx(opts, x, y, o) ==
    LET t == Taken(opts, lsq_opt)
    IN  IF t.ok THEN mlsq(x, y, t.v[1] = 1, o) ELSE Done(Heap0, Krr("opt"))

-----------------------------------------------------------------------------
(* The session: a call of one function is run under one schedule after the *)
(* other, until debug_alloc ends the loop.                                 *)

NoRun == [k |-> NULL, live |-> {}, over |-> {}, failed |-> FALSE]

Init ==
    /\ alloc_fail = [i \in 0..(alloc_max - 1) |-> IF i = 0 THEN 1 ELSE 0]
    /\ alloc_i = 1
    /\ call \in Calls
    /\ out = NoRun
    /\ loop = "test"

\* The next schedule: the entries not reached become 1, the last 1 reached 0.
qml_debug_alloc ==
    LET ones == {i \in 0..(alloc_i - 1) : alloc_fail[i] = 1}
        stop == CHOOSE i \in ones : \A j \in ones : j <= i
    IN  /\ loop = "test"
        /\ alloc_fail' = [i \in DOMAIN alloc_fail |->
               IF ones = {} \/ i > stop THEN 1 ELSE
               IF i = stop THEN 0 ELSE alloc_fail[i]]
        /\ alloc_i' = 1
        /\ loop' = IF ones = {} THEN "end" ELSE "run"
        /\ UNCHANGED <<call, out>>

\* The call under test is of fn, and ends as r says.
Call(fn, r) ==
    /\ loop = "run"
    /\ call.fn = fn
    /\ alloc_i' = r.h.i
    /\ out' = [k |-> r.k, live |-> DOMAIN r.h.live, over |-> r.h.over,
               failed |-> \E i \in 1..(r.h.i - 1) : alloc_fail[i] = 1]
    /\ loop' = "test"
    /\ UNCHANGED <<alloc_fail, call>>

MatrixFns == {"mdet", "minv", "mm", "ms", "mevu", "mchol", "mqr", "mqrp",
              "mlup", "msvd", "mls", "mlsx", "mlsq", "mlsqx"}

\* A function that allocates nothing through alloc.
Pure ==
    /\ call.fn \notin MatrixFns \cup {"poly"}
    /\ \E k \in Answers(call) : Call(call.fn, [h |-> Heap0, k |-> k])

Matrices ==
    \/ Call("mdet",  qml_mdet(call.x, call.o))
    \/ Call("minv",  qml_minv(call.x, call.o))
    \/ Call("mm",    qml_mm(call.x, call.y))
    \/ Call("ms",    qml_ms(call.x, call.y))
    \/ Call("mevu",  qml_mevu(call.x, call.o))
    \/ Call("mchol", qml_mchol(call.x, call.o))
    \/ Call("mqr",   mqr(call.x, FALSE, call.o))
    \/ Call("mqrp",  mqr(call.x, TRUE, call.o))
    \/ Call("mlup",  qml_mlup(call.x, call.o))
    \/ Call("msvd",  qml_msvd(call.x, call.o))
    \/ Call("poly",  qml_poly(call.x, call.o))
    \/ Call("mls",   mls(call.x, call.y, FALSE, call.o))
    \/ Call("mlsx",  qml_mlsx(call.x, call.y, call.z, call.o))
    \/ Call("mlsq",  mlsq(call.x, call.y, FALSE, call.o))
    \/ Call("mlsqx", qml_mlsqx(call.x, call.y, call.z, call.o))

Ended == loop = "end" /\ UNCHANGED vars

Next == qml_debug_alloc \/ Matrices \/ Pure \/ Ended

Spec == Init /\ [][Next]_vars

-----------------------------------------------------------------------------
(* What a call should report, from its arguments alone. *)

IsMatrix(x) == /\ convert_FF(x) # NULL
               /\ convert_FF(x).v # <<>>
               /\ convert_FF(x).v[1].v # <<>>
Rows(x) == convert_FF(x).v
At(x, j, i) == Rows(x)[j].v[i]
HasRows(x, n) == \A j \in DOMAIN Rows(x) : Len(Rows(x)[j].v) = n
Width(x)  == Len(Rows(x)[1].v)
Height(x) == Len(Rows(x))

Then(e, f) == IF e # none THEN e ELSE f
MatrixError(x) == IF ~IsMatrix(x) THEN "type"
                  ELSE IF ~HasRows(x, Width(x)) THEN "length" ELSE none
SquareError(x) == IF convert_FF(x) = NULL \/ Rows(x) = <<>> THEN "type"
                  ELSE IF ~HasRows(x, Height(x)) THEN "length" ELSE none
SideError(y)   == IF convert_F(y) # NULL THEN none ELSE MatrixError(y)
SideLen(y)     == IF convert_F(y) # NULL THEN Len(convert_F(y).v) ELSE Height(y)
SideWidth(y)   == IF convert_F(y) # NULL THEN 1 ELSE Width(y)
Triangular(x)  ==
    LET n == Height(x)
    IN  \/ \A j, i \in 1..n : i < j => At(x, j, i) = 0
        \/ \A j, i \in 1..n : i > j => At(x, j, i) = 0
\* The dimensions of an argument, as a vector or as a matrix.
Dims(x) ==
    (IF convert_F(x) = NULL THEN {} ELSE {Len(convert_F(x).v)}) \cup
    (IF convert_FF(x) = NULL THEN {}
     ELSE {Height(x)} \cup {Len(Rows(x)[j].v) : j \in DOMAIN Rows(x)})
\* A dimension no I holds, or two, or one and a constant of lapack.c, whose
\* product is more than a buffer can hold.
TooLarge(c) ==
    LET D == Dims(c.x) \cup Dims(c.y) \cup Dims(c.z)
    IN  \E p \in D : p >= wi \/ \E q \in D \cup {1, 4, 8} : p * q > max_size

LengthError(ok) == IF ok THEN none ELSE "length"

Unequal(n, y) == LengthError(n = SideLen(y))
SystemError(x, y) ==
    Then(SquareError(x), Then(SideError(y), Unequal(Height(x), y)))
LeastError(x, y) ==
    Then(MatrixError(x), Then(SideError(y), Unequal(Height(x), y)))
OptError(opts, optn) == IF Taken(opts, optn).ok THEN none ELSE "opt"

ErrorOf(c) ==
    CASE c.fn \in {"mdet", "minv", "mevu", "mchol"} -> SquareError(c.x)
      [] c.fn \in {"mqr", "mqrp", "mlup", "msvd"} -> MatrixError(c.x)
      [] c.fn = "mm" -> Then(MatrixError(c.x),
                             Then(SideError(c.y), Unequal(Width(c.x), c.y)))
      [] c.fn = "ms" -> Then(SquareError(c.x),
                             IF Triangular(c.x)
                             THEN Then(SideError(c.y), Unequal(Height(c.x), c.y))
                             ELSE "domain")
      [] c.fn = "mls"   -> SystemError(c.x, c.y)
      [] c.fn = "mlsq"  -> LeastError(c.x, c.y)
      [] c.fn = "mlsx"  -> Then(OptError(c.x, ls_opt), SystemError(c.y, c.z))
      [] c.fn = "mlsqx" -> Then(OptError(c.x, lsq_opt), LeastError(c.y, c.z))

Ran      == loop # "run" /\ out.k # NULL
Answered == Ran /\ out.k.t # -128

-----------------------------------------------------------------------------
(* Properties *)

\* The state of the session has its types, and the schedule is switched on
\* exactly while the loop runs.
MatTypeOK ==
    /\ alloc_fail \in [0..(alloc_max - 1) -> {0, 1}]
    /\ alloc_i \in 1..alloc_max
    /\ call \in Calls
    /\ loop \in {"test", "run", "end"}
    /\ loop = "run" => alloc_fail[0] = 0 /\ alloc_i = 1
    /\ loop = "end" => alloc_fail[0] = 1

\* Whatever allocations fail, every path through a matrix function frees all
\* it allocated (free_F, free_I and free_W of lapack.c).
NoLeak == out.live = {}

\* A matrix function reports what is wrong with its arguments, the first
\* error it meets; wsfull and limit replace it only when an allocation failed
\* or a dimension or the workspace LAPACK asks for is too large; otherwise it
\* answers.
ErrorsExplained ==
    Ran /\ call.fn \in MatrixFns =>
       LET e == ErrorOf(call)
       IN  IF Answered THEN e = none /\ ~out.failed
           ELSE \/ e # none /\ out.k.s = e
                \/ out.failed /\ out.k.s = "wsfull"
                \/ out.k.s = "limit" /\ (call.o.work >= wi \/ TooLarge(call))

\* The functions do not stop at an error, and no routine is called with a
\* buffer smaller than it is told, whatever allocations failed before it: the
\* dimensions are 0 by then, and LAPACK rejects them.  There are three
\* exceptions, whatever is allocated, and no others.  zgeev is told of
\* lwork complex items, twice what w holds and the query asked for (lapack.c:662,
\* 704).  With equi mlsx has ldx = b_m and make_matrix reads b_m rows, but the
\* buffer has a_n (743, 757, 774).  mm multiplies before it reports lengths that
\* differ (314, 317).  No call ends with the error qml_assert (check_info).
Overrun(c, p) ==
    \/ c.fn = "poly" /\ p = "w" /\ Nested(c.x).t = 0
    \/ c.fn = "mlsx" /\ p = "x" /\ SideLen(c.z) > Height(c.y)
    \/ c.fn = "mm" /\ p = "b" /\ Width(c.x) > SideLen(c.y) /\ SideWidth(c.y) = 1
    \/ c.fn = "mm" /\ p = "a" /\ SideLen(c.y) > Width(c.x) /\ Height(c.x) = 1
CallsFit == /\ \A p \in out.over : Overrun(call, p)
            /\ ~(Ran /\ ~Answered /\ out.k.s \in {"qml_assert", "abort"})

\* mm answers the product of its arguments, whichever of the three BLAS
\* routines computes it.
MmIsProduct ==
    Answered /\ call.fn = "mm" =>
       LET column == out.k.t = KF
           y(k, j) == IF column THEN convert_F(call.y).v[k] ELSE At(call.y, k, j)
           at(i, j) == SumTo([k \in 0..(Width(call.x) - 1) |->
                                At(call.x, i, k + 1) * y(k + 1, j)],
                             Width(call.x))
       IN  IF column
           THEN out.k.v = [i \in 1..Height(call.x) |-> at(i, 1)]
           ELSE out.k = Vec(0, [i \in 1..Height(call.x) |->
                    Vec(KF, [j \in 1..Width(call.y) |-> at(i, j)])])

\* What ms answers solves the triangular system, column by column: where whole
\* numbers solve it, they are the answer.  With a zero on the diagonal the
\* answer is NaN throughout.
MsSolves ==
    Answered /\ call.fn = "ms" =>
       LET n == Height(call.x)
           column == out.k.t = KF
           cols == IF column THEN 1 ELSE Width(call.y)
           y(i, j) == IF column THEN convert_F(call.y).v[i] ELSE At(call.y, i, j)
           answer(i, j) == IF column THEN out.k.v[i] ELSE out.k.v[i].v[j]
           Solves(s, j) == \A i \in 1..n :
               SumTo([k \in 0..(n - 1) |-> At(call.x, i, k + 1) * s[k + 1]], n)
                  = y(i, j)
       IN  IF \E i \in 1..n : At(call.x, i, i) = 0
           THEN \A i \in 1..n, j \in 1..cols : answer(i, j) = nf
           ELSE \A j \in 1..cols : \A s \in [1..n -> (-Whole)..Whole] :
                   Solves(s, j) => \A i \in 1..n : answer(i, j) = s[i]

Shape(k) == IF k.t = 0 THEN <<Len(k.v), IF k.v = <<>> THEN 0 ELSE Len(k.v[1].v)>>
            ELSE <<Len(k.v)>>

\* A factorisation of an m by n matrix answers factors of the dimensions that
\* multiply to m by n: q m by m and r m by n, l m by min and u min by n, u m by
\* m, s m by n and v n by n; and the permutation of mlup and mqrp is one.
FactorShapes ==
    Answered /\ call.fn \in {"mqr", "mqrp", "mlup", "msvd"} =>
       LET m == Height(call.x)
           n == Width(call.x)
           k == min_i(m, n)
           S(i) == Shape(out.k.v[i])
           permutes(i, l) == {out.k.v[i].v[j] : j \in DOMAIN out.k.v[i].v}
                             = 0..(l - 1) /\ Len(out.k.v[i].v) = l
       IN  CASE call.fn \in {"mqr", "mqrp"} ->
                   /\ S(1) = <<m, m>> /\ S(2) = <<m, n>>
                   /\ call.fn = "mqrp" => permutes(3, n)
             [] call.fn = "mlup" ->
                   /\ S(1) = <<m, k>> /\ S(2) = <<k, n>>
                   /\ permutes(3, m)
             [] OTHER -> S(1) = <<m, m>> /\ S(2) = <<m, n>> /\ S(3) = <<n, n>>

\* The solution of a system has a row for each column of the matrix, and is
\* a vector exactly when the right side is one (make_matrix of mls, mlsq).
SolutionShape ==
    Answered /\ call.fn \in {"mls", "mlsx", "mlsq", "mlsqx"} =>
       LET x == IF call.fn \in {"mlsx", "mlsqx"} THEN call.y ELSE call.x
           y == IF call.fn \in {"mlsx", "mlsqx"} THEN call.z ELSE call.y
       IN  Shape(out.k) = IF convert_F(y) # NULL THEN <<Width(x)>>
                          ELSE <<Width(x), Width(y)>>

Item(x, i) == CASE x.t < 0 -> x
                [] x.t = 0 -> x.v[i]
                [] OTHER   -> Atom(x.t, x.v[i])

\* mevu answers n eigenvalues and n vectors; complex ones come in conjugate
\* pairs, for eigenvalues that are conjugates.
ConjugatePairs ==
    Answered /\ call.fn = "mevu" =>
       LET ev == out.k.v[1]
           vs == out.k.v[2]
           pair(j) == vs.v[j].t = 0
           im(x, i) == IF Item(x, i).t = KF THEN Item(x, i).v[2] ELSE 0
       IN  /\ Len(ev.v) = Height(call.x) /\ Len(vs.v) = Height(call.x)
           /\ ev.t = 0 => \A j \in DOMAIN ev.v :
                 pair(j) <=> ev.v[j].t = KF
           /\ \A j \in DOMAIN vs.v : pair(j) =>
                 \E l \in {j - 1, j + 1} \cap DOMAIN vs.v :
                    \A i \in DOMAIN vs.v[j].v :
                       im(vs.v[j], i) = -im(vs.v[l], i)

\* debug_alloc ends the loop only after a run in which no allocation failed,
\* so every test ends with the result of a call with memory to spare.
LastRunSucceeds == loop = "end" => out.k # NULL /\ ~out.failed

\* Every set of allocations that alloc.c lets fail leaves nothing behind, and
\* the loop of tests goes through them until one run has memory to spare.
AllocationsReturned == MatTypeOK /\ NoLeak /\ LastRunSucceeds

\* What lapack.c computes itself is right through all changes of layout: the
\* product, the solution of a triangular system, the conjugate vectors.  Of
\* what LAPACK computes the dimensions are, and the permutations.
ResultsAreRight ==
    /\ MmIsProduct
    /\ MsSolves
    /\ FactorShapes
    /\ SolutionShape
    /\ ConjugatePairs
=============================================================================
