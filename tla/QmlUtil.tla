------------------------------ MODULE QmlUtil ------------------------------
(***************************************************************************)
(* The pure part of qml/src: nested values as floats (util.c) and as       *)
(* parameters of the optimisers (conmin.c), options (opt.c), the wrappers  *)
(* that apply a C function item by item (wrap.h) and the distribution      *)
(* functions built from their complements (cephes.c).                      *)
(***************************************************************************)
EXTENDS QmlValues

\* Floats in the same nesting, a list of float atoms as a vector, or NULL.
RECURSIVE convert_FFF(_)
convert_FFF(x) ==
    IF x.t # 0
    THEN IF x.t \in {-KF, KF} THEN x
         ELSE IF compatible_f(x) THEN Atom(KF, convert_f(x))
         ELSE convert_F(x)
    ELSE IF x.v # <<>> /\ \A i \in DOMAIN x.v : x.v[i].t \in {-KF, KF}
    THEN x
    ELSE LET r == [i \in DOMAIN x.v |-> convert_FFF(x.v[i])]
         IN  IF \E i \in DOMAIN r : r[i] = NULL THEN NULL
             ELSE IF \A i \in DOMAIN r : r[i].t = -KF
             THEN Vec(KF, [i \in DOMAIN r |-> r[i].v])
             ELSE Vec(0, r)

-----------------------------------------------------------------------------
(* conmin.c: a nested list of floats as the flat array of parameters *)

RECURSIVE write_param(_)
write_param(x) ==
    CASE x.t = -KF -> <<x.v>>
      [] x.t = KF  -> x.v
      [] x.t = 0   -> FlattenSeq([i \in DOMAIN x.v |-> write_param(x.v[i])])

\* The value of the shape of x made from the front of param, and the rest.
RECURSIVE make_param(_, _)
make_param(x, param) ==
    CASE x.t = -KF -> <<Atom(KF, param[1]), Tail(param)>>
      [] x.t = KF  ->
            <<make_F(param, Len(x.v)), SubSeq(param, Len(x.v) + 1, Len(param))>>
      [] x.t = 0   ->
            LET Next(r, y) == LET m == make_param(y, r[2])
                              IN  <<Append(r[1], m[1]), m[2]>>
                r == FoldLeft(Next, <<<<>>, param>>, x.v)
            IN  <<Vec(0, r[1]), r[2]>>

-----------------------------------------------------------------------------
(* opt.c: the options one after the other *)

SymbolAt(x, i) == IF x.t = KS THEN x.v[i]
                  ELSE IF x.v[i].t = -KS THEN x.v[i] ELSE NULL

RECURSIVE TakeList(_, _, _, _)
TakeList(x, i, n, r) ==
    IF ~r.ok \/ i > Len(x.v) THEN r
    ELSE LET g == get(x, i, TRUE, SymbolAt(x, i), n, r.v)
         IN  TakeList(x, i + g.used, n, g)

take_opt(x, n) ==
    LET r0 == [ok |-> TRUE, v |-> Defaults(n), used |-> 0]
        Flag(r, s) == IF r.ok THEN get(NULL, 0, TRUE, s, n, r.v) ELSE r
        Pair(r, i) == IF r.ok
                      THEN get(x.v, i - 1, FALSE, SymbolAt(x.k, i), n, r.v)
                      ELSE r
    IN  CASE x.t = 0   -> TakeList(x, 1, n, r0)
          [] x.t = -KS -> Flag(r0, x)
          [] x.t = KS  -> FoldLeft(Flag, r0, x.v)
          [] x.t = XD  -> IF x.k.t \notin {KS, 0} THEN Fail(r0.v)
                          ELSE FoldLeft(Pair, r0,
                                        [i \in DOMAIN x.k.v |-> i])
          [] OTHER     -> r0

-----------------------------------------------------------------------------
(* wrap.h: f is a function on floats, f[u][v] one of two arguments *)

wrap_call_vector(f, x) ==
    LET c == convert_F(x)
    IN  IF c = NULL THEN NULL
        ELSE Vec(KF, [i \in DOMAIN c.v |-> f[c.v[i]]])

wrap_call(f, x) ==
    IF x.t = -KF THEN Atom(KF, f[x.v])
    ELSE LET r == wrap_call_vector(f, x)
         IN  IF r # NULL             THEN r
             ELSE IF compatible_f(x) THEN Atom(KF, f[convert_f(x)])
             ELSE Krr("type")

\* f with its second argument fixed.
Right1(f, u) == [v \in DOMAIN f |-> f[v][u]]

wrap_FF(f, x, y) ==
    IF compatible_f(x) THEN wrap_call(f[convert_f(x)], y)
    ELSE LET cx == convert_F(x)
             cy == convert_F(y)
         IN  IF compatible_f(y)
             THEN IF cx # NULL
                  THEN wrap_call_vector(Right1(f, convert_f(y)), x)
                  ELSE Krr("type")
             ELSE IF cx = NULL \/ cy = NULL THEN Krr("type")
             ELSE IF Len(cx.v) # Len(cy.v)  THEN Krr("length")
             ELSE Vec(KF, [i \in DOMAIN cx.v |-> f[cx.v[i]][cy.v[i]]])

wrap_iF(f, x, y) == IF compatible_i(x)
                    THEN wrap_call(f[convert_i(x)], y)
                    ELSE Krr("type")
wrap_fF(f, x, y) == IF compatible_f(x)
                    THEN wrap_call(f[convert_f(x)], y)
                    ELSE Krr("type")

\* What the build makes of a float that no I can hold is ub.
wrap_iiF(f, x, y, z, ub) ==
    LET cast(v) == IF v \in (-wi)..wi THEN v ELSE ub
    IN  IF compatible_i(x) /\ compatible_i(y)
        THEN wrap_call(f[cast(convert_f(x))][cast(convert_f(y))], z)
        ELSE Krr("type")
wrap_ffF(f, x, y, z) ==
    IF compatible_f(x) /\ compatible_f(y)
    THEN wrap_call(f[convert_f(x)][convert_f(y)], z)
    ELSE Krr("type")

-----------------------------------------------------------------------------
(* cephes.c.  A probability is a number of steps of 1/Steps.  The library  *)
(* is external: cdf is a distribution it knows, compl the complement of    *)
(* it, and inv its inverse of the complement.                              *)

Steps  == 8
cdf    == [v \in 0..Steps |-> IF v = 0 THEN 0 ELSE min_i(v + 1, Steps)]
compl(v) == Steps - cdf[v]
inv(p) == CHOOSE v \in DOMAIN cdf : compl(v) <= p /\
                 \A u \in DOMAIN cdf : compl(u) <= p => v <= u

c2icdf(x, y)    == inv(Steps - y)
ficdf(x, y, z)  == inv(Steps - z)
gcdf(x, y, z)   == cdf[z \div y]
gicdf(x, y, z)  == y * inv(Steps - z)
smcdf(x, y)     == Steps - compl(y)
smicdf(x, y)    == inv(Steps - y)
kcdf(x)         == Steps - compl(x)
\* There is no convergence below 1e-8, less than a step.
kicdf(x)        == IF x >= 1 THEN inv(Steps - x) ELSE nf

-----------------------------------------------------------------------------
(* libm.c: the sign of gamma, x being a number of halves; const.c *)

fmod(x, y) == IF x < 0 THEN -((-x) % y) ELSE x % y

sgamma(x)  == IF x > 0 THEN 1 ELSE IF fmod(x, 4) > -2 THEN -1 ELSE 1
\* Its magnitude is left out.
beta(x, y) == sgamma(x) * sgamma(y) * sgamma(x + y)

qml_const(x) == IF x.t # -KJ THEN Krr("type")
                ELSE CASE x.v = 0 -> Sym("version")
                       [] x.v \in 1..3 -> Atom(KF, x.v)
                       [] OTHER -> Krr("domain")
=============================================================================
