---------------------------- MODULE QmlFunctions ----------------------------
(***************************************************************************)
(* The functions of qml that allocate nothing: those wrap.h applies to     *)
(* floats, those of cephes.c, libm.c and const.c, and what the optimisers  *)
(* do with their arguments.  They run in the loop of QmlMatrices, to which *)
(* PureAnswers gives what they answer.                                     *)
(***************************************************************************)
EXTENDS QmlMatrices, QmlUtil

\* Functions of floats.  Three stand for what is computed from the floats.
Floats  == (nj..wj) \cup {nf, wf, -wf}
sqrt    == [v \in Floats |-> v + 1]
hypot   == [u \in Floats |-> [v \in Floats |-> 2 * u + v]]
incbet  == [t \in Floats |-> [u \in Floats |->
              [v \in Floats |-> 4 * t + 2 * u + v]]]

\* What the build makes of a float that no I can hold is one of these.
Casts == {ni, 0}

\* One float or integer, passed through the C functions themselves.
NumberAnswer(c) ==
    LET x == c.x.v IN
    CASE c.fn = "c2icdf" -> c2icdf(1, cdf[x])
      [] c.fn = "ficdf"  -> ficdf(1, 1, cdf[x])
      [] c.fn = "gicdf"  -> gicdf(1, 2, gcdf(1, 2, 2 * x))
      [] c.fn = "smicdf" -> smicdf(1, smcdf(1, x))
      [] c.fn = "kicdf"  -> kicdf(kcdf(x))
      [] c.fn = "beta"   -> beta(x, c.y.v)

\* param and opt are the arguments of an optimiser: x as parameters and back,
\* and the options x.
PureAnswers(c) ==
    CASE c.fn = "sqrt"   -> {wrap_call(sqrt, c.x)}
      [] c.fn = "hypot"  -> {wrap_FF(hypot, c.x, c.y)}
      [] c.fn = "stcdf"  -> {wrap_iF(hypot, c.x, c.y)}
      [] c.fn = "igam"   -> {wrap_fF(hypot, c.x, c.y)}
      [] c.fn = "bncdf"  -> {wrap_iiF(incbet, c.x, c.y, c.z, ub) : ub \in Casts}
      [] c.fn = "pbetar" -> {wrap_ffF(incbet, c.x, c.y, c.z)}
      [] c.fn = "const"  -> {qml_const(c.x)}
      [] c.fn = "param"  ->
            LET x == convert_FFF(c.x) IN {make_param(x, write_param(x))[1]}
      [] c.fn = "opt"    ->
            LET t == take_opt(c.x, conmin_opt)
            IN  {IF t.ok THEN Vec(KF, t.v) ELSE Krr("opt")}
      [] c.fn \in MatrixFns \cup {"poly"} -> {}
      [] OTHER           -> {Atom(KF, NumberAnswer(c))}

-----------------------------------------------------------------------------
(* Properties *)

\* A wrapped function of two arguments applies to them item by item, an atom
\* to every item, whatever numeric types they have.
WrapsItemwise ==
    Answered /\ call.fn = "hypot" =>
       LET f(x, y) == hypot[convert_f(x)][convert_f(y)]
           lists == {x \in {call.x, call.y} : x.t >= 0}
       IN  IF lists = {} THEN out.k = Atom(KF, f(call.x, call.y))
           ELSE /\ \A x \in lists : Len(x.v) = Len(out.k.v)
                /\ \A i \in DOMAIN out.k.v :
                      out.k.v[i] = f(Item(call.x, i), Item(call.y, i))

\* A wrapped function of integers sees an integer of any width as the I that
\* convert_i makes of it, unless it overflows in the three-argument wrapper.
IntegersConverted ==
    Answered /\ call.fn \in {"stcdf", "bncdf"} =>
       LET u == convert_i(call.x)
           w == convert_i(call.y)
       IN  IF call.fn = "stcdf"
           THEN call.y.t = -KF => out.k.v = hypot[u][call.y.v]
           ELSE u \in (-wi + 1)..(wi - 1) /\ w \in (-wi + 1)..(wi - 1) =>
                   out.k.v = incbet[u][w][call.z.v]

\* A wider integer as an I or a float keeps its order, nulls first: the
\* conversions saturate rather than wrap.
ConversionsMonotone ==
    Ran /\ call.fn = "sqrt" /\ call.x.t = -KJ =>
       \A v \in nj..wj :
          v <= call.x.v => /\ convert_i(Atom(KJ, v)) <= convert_i(call.x)
                           /\ v # nj => convert_f(Atom(KJ, v)) <= out.k.v - 1

\* The inverse distribution functions invert the distribution functions,
\* with the complements the library computes put right.
InverseOfCdf ==
    Ran /\ call.fn \in {"c2icdf", "ficdf", "gicdf", "smicdf", "kicdf"} =>
       out.k.v = IF call.fn = "kicdf" /\ cdf[call.x.v] = 0 THEN nf
                 ELSE IF call.fn = "gicdf" THEN 2 * call.x.v ELSE call.x.v

\* beta has the sign of gamma(x) gamma(y) / gamma(x + y), gamma changing its
\* sign at every pole.
BetaSign ==
    Ran /\ call.fn = "beta" =>
       LET sign[x \in -11..11] == IF x > 0 THEN 1 ELSE -sign[x + 2]
           x == call.x.v
           y == call.y.v
           pole == \E z \in {x, y, x + y} : z <= 0 /\ z % 2 = 0
       IN  ~pole => out.k.v = sign[x] * sign[y] *
                       (IF (x + y) % 2 = 0 THEN 1 ELSE sign[x + y])

\* The value an optimiser passes to a function has the shape of the argument:
\* parameters written to the array come back where they were.
ParamRoundTrip == Ran /\ call.fn = "param" => out.k = convert_FFF(call.x)

\* Options mean the same however they are given: a dictionary, and the list
\* of its keys and values.
OptionFormsAgree ==
    Ran /\ call.fn = "opt" =>
       LET r == take_opt(call.y, conmin_opt)
       IN  out.k = IF r.ok THEN Vec(KF, r.v) ELSE Krr("opt")

\* util.c, opt.c, wrap.h and cephes.c keep the meaning of what q passes.
ConversionsAgree ==
    /\ WrapsItemwise
    /\ IntegersConverted
    /\ ConversionsMonotone
    /\ InverseOfCdf
    /\ BetaSign
    /\ ParamRoundTrip
    /\ OptionFormsAgree
=============================================================================
