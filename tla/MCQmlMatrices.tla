--------------------------- MODULE MCQmlMatrices ---------------------------
(* Small calls of every function of QmlMatrices. *)
EXTENDS QmlFunctions

\* The type of a value is compared before the value.
IsRecord(t, v) == Vec(t, v) = [t |-> t, v |-> v]

F(s) == Vec(KF, s)
J(s) == Vec(KJ, s)
M(rows) == Vec(0, [j \in DOMAIN rows |-> F(rows[j])])
f(v) == Atom(KF, v)
j(v) == Atom(KJ, v)

Plain == [info |-> 0, work |-> 2, piv |-> FALSE, li |-> <<0, 0, 0, 0>>]
Outcomes == {Plain,
             [Plain EXCEPT !.info = 1],
             [Plain EXCEPT !.work = wi, !.piv = TRUE],
             [Plain EXCEPT !.piv = TRUE, !.li = <<1, -1, 0, 0>>],
             [Plain EXCEPT !.li = <<0, 1, -1, 0>>]}

C(fn, x, y, z, o) == [fn |-> fn, x |-> x, y |-> y, z |-> z, o |-> o]

Squares == {M(<<<<3, 2>>, <<0, -2>>>>), M(<<<<1, 0>>, <<2, 2>>>>),
            M(<<<<1, 2>>, <<2, 1>>>>), M(<<<<0, 2>>, <<0, 1>>>>), M(<<<<1>>>>),
            Vec(0, <<J(<<1, 2, 1>>), F(<<0, 1, 3>>), J(<<0, 0, 1>>)>>)}
Others  == {M(<<<<1, 2, 3>>, <<4, 5, 6>>>>), M(<<<<1>>, <<2>>>>),
            M(<<<<1, 2>>>>), M(<<<<1, 2>>, <<3>>>>), M(<<<<>>>>),
            Vec(0, <<>>), Vec(0, <<Sym("a")>>), f(1)}
Sides   == {F(<<1, 2>>), J(<<2, 3, 1>>), Vec(0, <<j(1), f(2)>>)}
Wide    == M(<<[i \in 1..wi |-> 1]>>)

AllOneArg ==
    [fn : {"mdet", "minv", "mevu", "mchol", "mqr", "mqrp", "mlup", "msvd"},
     x : Squares \cup Others \cup {Wide}, y : {NULL}, z : {NULL}, o : Outcomes]
\* Eigenvalues of a real matrix of n rows: conjugates are among the first n.
Conjugate(li, n) == \A i \in 1..min_i(n, 4) : li[i] = 1 => i < n

OneArg == {c \in AllOneArg : c.fn = "mevu" /\ SquareError(c.x) = none =>
                                Conjugate(c.o.li, Height(c.x))}
TwoArg ==
    [fn : {"mm", "ms", "mls", "mlsq"}, x : Squares \cup Others,
     y : Squares \cup Others \cup Sides, z : {NULL},
     o : {Plain, [Plain EXCEPT !.work = wi, !.info = 1]}]
Opts == {Sym("equi"), Sym("svd"), Sym(""), Vec(KS, <<>>),
         [t |-> XD, k |-> Vec(KS, <<Sym("svd")>>), v |-> Vec(KB, <<1>>)]}
WithOpts ==
    [fn : {"mlsx", "mlsqx"}, x : Opts,
     y : {M(<<<<1, 2>>, <<2, 1>>>>), M(<<<<1, 2, 3>>, <<4, 5, 6>>>>), f(1)},
     z : {F(<<1, 2>>), F(<<1, 2, 3>>), M(<<<<1, 2>>, <<3, 4>>>>)},
     o : {Plain, [Plain EXCEPT !.info = 1]}]
Pair(a, b) == F(<<a, b>>)
Polys ==
    [fn : {"poly"}, y : {NULL}, z : {NULL}, o : Outcomes,
     x : {F(<<1, 2, 3>>), F(<<0, 1>>), F(<<1>>), F(<<>>), J(<<1, 2, 1, 1>>), f(1),
          Vec(0, <<f(1), Pair(0, 1), f(2)>>), Vec(0, <<Pair(0, 0), f(1)>>),
          Vec(0, <<f(1), F(<<1>>)>>), Vec(0, <<f(1), M(<<<<1, 2>>>>)>>),
          F([i \in 1..(wi + 1) |-> i]), Vec(0, [i \in 1..5 |-> Pair(i, 1)])}]
\* Matrices with too many rows, and with too many items.
Tall  == M([i \in 1..wi |-> <<i>>])
Board == M([i \in 1..5 |-> [k \in 1..6 |-> i + k]])
Large ==
    [fn : {"mdet", "minv", "mevu", "mchol", "mqr", "mqrp", "mlup", "msvd"},
     x : {Tall, Board, M([i \in 1..4 |-> [k \in 1..4 |-> i + k]])},
     y : {NULL}, z : {NULL}, o : {Plain}]
    \cup [fn : {"mm", "ms", "mls", "mlsq"},
          x : {Tall, Board, M(<<<<1>>>>), M(<<<<1, 2>>, <<2, 1>>>>)},
          y : {Tall, Board, Wide, F([i \in 1..wi |-> i]), F(<<1, 2>>)},
          z : {NULL}, o : {Plain}]

Values == {f(2), f(nf), j(nj), j(wj), j(-3), j(9), Atom(KH, nh), Atom(KI, wi),
           Atom(KB, 1), F(<<1, 2>>), J(<<nj, 3>>), Vec(KH, <<nh, wh>>),
           Vec(KE, <<1>>), Vec(0, <<j(wj), Atom(KB, 1)>>), Vec(0, <<>>),
           Sym("a"), Vec(0, <<Sym("a"), f(1)>>), Vec(KC, <<1>>)}
Vectorised ==
    [fn : {"sqrt"}, x : Values \cup {j(v) : v \in nj..wj}, y : {NULL},
     z : {NULL}, o : {Plain}]
    \cup [fn : {"hypot", "stcdf", "igam"}, x : Values, y : Values, z : {NULL},
          o : {Plain}]
    \cup [fn : {"bncdf", "pbetar"}, x : Values, y : {j(2), j(9), f(2), Sym("a")},
          z : {f(2), Sym("a")}, o : {Plain}]
    \cup [fn : {"const"}, x : {j(0), j(1), j(3), j(4), f(1)}, y : {NULL},
          z : {NULL}, o : {Plain}]
Scalars ==
    [fn : {"c2icdf", "ficdf", "gicdf", "smicdf", "kicdf"},
     x : {f(v) : v \in 0..(Steps - 1)}, y : {NULL}, z : {NULL}, o : {Plain}]
    \cup [fn : {"beta"}, x : {f(v) : v \in -5..5}, y : {f(v) : v \in -5..5},
          z : {NULL}, o : {Plain}]
Params ==
    [fn : {"param"}, y : {NULL}, z : {NULL}, o : {Plain},
     x : {f(1), j(2), F(<<1, 2>>), J(<<1, 2>>), M(<<<<1, 2>>, <<3>>, <<>>>>),
          Vec(0, <<f(1), F(<<2, 3>>), Vec(0, <<j(4), M(<<<<5>>, <<6>>>>)>>)>>),
          Vec(0, <<Vec(0, <<j(1), j(2)>>), f(3)>>), Vec(0, <<>>)}]

Dict(k, v) == [t |-> XD, k |-> Vec(KS, k), v |-> Vec(0, v)]
Flat(k, v) == Vec(0, FlattenSeq([i \in DOMAIN k |->
                 IF k[i].s \in {"iter", "tol", "steps"} THEN <<k[i], v[i]>>
                 ELSE <<k[i]>>]))
Given == {<<<<>>, <<>>>>,
          <<<<Sym("iter"), Sym("slp")>>, <<j(5), Atom(KB, 1)>>>>,
          <<<<Sym("full"), Sym("tol")>>, <<j(1), f(2)>>>>,
          <<<<Sym("tol")>>, <<Sym("a")>>>>,
          <<<<Sym("nm")>>, <<j(1)>>>>,
          <<<<Sym("lincon"), Sym("rk"), Sym("steps")>>,
            <<j(1), j(1), j(2)>>>>}
Options == {C("opt", Dict(g[1], g[2]), Flat(g[1], g[2]), NULL, Plain) :
               g \in Given}
           \cup {C("opt", Vec(KS, <<Sym("rk"), Sym("full")>>),
                   Vec(0, <<Sym("rk"), Sym("full")>>), NULL, Plain)}

MCCalls == OneArg \cup TwoArg \cup Large \cup WithOpts \cup Polys \cup Vectorised
           \cup Scalars \cup Params \cup Options
=============================================================================
