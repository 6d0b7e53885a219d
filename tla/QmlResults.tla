----------------------------- MODULE QmlResults -----------------------------
(***************************************************************************)
(* What the optimisers of qml/src return, with the conversions of util.c   *)
(* and conmin.c that QmlOptimizers takes as parameters.                    *)
(***************************************************************************)
EXTENDS QmlOptimizers, QmlUtil

\* A value without a signal is a number, and has the shape of the start; one
\* with a signal is NaN, and comes only when the caller asked for quiet.
RECURSIVE SameShape(_, _)
SameShape(x, y) == /\ x.t = y.t
                   /\ x.t >= 0 => Len(x.v) = Len(y.v)
                   /\ x.t = 0 => \A i \in DOMAIN x.v : SameShape(x.v[i], y.v[i])
ValueOrSignal ==
    out.kind = "value" =>
       LET flat == write_param(out.x)
       IN  /\ call.fn # "root" => SameShape(out.x, convert_FFF(call.start))
           /\ IF out.sig = none THEN \A i \in DOMAIN flat : flat[i] # nf
              ELSE /\ Flag(call, "quiet")
                   /\ \A i \in DOMAIN flat : flat[i] = nf

\* What conmax.c and nlopt.c return, dictionary or value, holds at the point
\* they return.
ResultMeansWhatItSays ==
    /\ FullMatchesTable
    /\ ValueOrSignal
    /\ RootBracketed
    /\ LineTowardsStart
    /\ FeasibleOrSignal
=============================================================================
