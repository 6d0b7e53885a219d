-------------------------- MODULE MCQmlOptimizers --------------------------
(* Calls of every optimiser with the options that steer it. *)
EXTENDS QmlResults

IsValue(t, v) == Vec(t, v) = [t |-> t, v |-> v]

Fn == [t |-> 100]
f(v) == Atom(KF, v)
F(s) == Vec(KF, s)
S(s) == Vec(KS, [i \in DOMAIN s |-> Sym(s[i])])
On(s, v) == Vec(0, <<Sym(s), Atom(KJ, v)>>)

C(fn, opts, fun, con, start, base) ==
    [fn |-> fn, opts |-> opts, fun |-> fun, con |-> con, start |-> start,
     base |-> base]

Starts == {f(1), Vec(0, <<F(<<1>>), f(0)>>), Sym("a")}
Solve  == {C("solve", o, NULL, c, x, NULL) : x \in Starts,
             o \in {empty_con, S(<<"quiet", "full">>), S(<<"slp", "rk">>)},
             c \in {Fn, Vec(0, <<Fn, Fn>>), empty_con, f(1)}}
Minima == {C("min", o, g, empty_con, x, NULL) :
             x \in Starts \cup {f(nf)}, g \in {Fn, f(1)},
             o \in {empty_con, S(<<"quiet", "full">>), S(<<"nm">>),
                    S(<<"sbplx", "full", "quiet">>), S(<<"nm", "sbplx">>),
                    S(<<"cobyla">>)}}
Conmin == {C("conmin", o, Fn, c, x, NULL) : x \in {f(1), F(<<0, 1>>), f(nf)},
             c \in {Fn, Vec(0, <<Fn, Fn>>), empty_con, f(1)},
             o \in {S(<<"lincon", "quiet">>), S(<<"full", "quiet">>),
                    S(<<"cobyla", "full">>), S(<<"cobyla", "quiet", "full">>),
                    S(<<"cobyla", "rk">>)}}
Root   == {C("root", o, Fn, NULL, x, NULL) :
             x \in {F(<<0, 2>>), F(<<2, 0>>), F(<<1>>), f(1)},
             o \in {empty_con, S(<<"quiet", "full">>), On("iter", 1)}}
Line   == {C("line", o, Fn, NULL, f(x), f(y)) : x \in {0, 2, 3}, y \in {1, 2},
             o \in {empty_con, S(<<"quiet", "full">>), On("tol", 1)}}

MCNumbers == {-1, 1}
MCCalls == Solve \cup Minima \cup Conmin \cup Root \cup Line
=============================================================================
