----------------------------- MODULE QmlValues -----------------------------
(***************************************************************************)
(* q values as qml/src reads them: the conversion of atoms, vectors and    *)
(* items of lists to floats (util.c) and the tables of options with the    *)
(* step that takes one (conmin.c, opt.c).                                  *)
(*                                                                         *)
(* A q value is a record with its type t: an atom has a value v, a symbol  *)
(* s, a list the sequence v of its items, a dictionary the lists k and v.  *)
(* Integers are narrow (H: 3 bits, I: 4, J: 5) so that the nulls and       *)
(* infinities of each width occur; a float is an integer here.             *)
(***************************************************************************)
EXTENDS Integers, Sequences, SequencesExt

KB == 1   KH == 5   KI == 6   KJ == 7   KE == 8   KF == 9   KC == 10
KS == 11  XT == 98  XD == 99

\* Null and infinity of each integer type; -infinity is minus infinity.
nh == -4    wh == 3
ni == -8    wi == 7
nj == -16   wj == 15
nf == 1000  wf == 500

Atom(t, v) == [t |-> -t, v |-> v]
Vec(t, s)  == [t |-> t, v |-> s]
Sym(s)     == [t |-> -KS, s |-> s]
Krr(e)     == [t |-> -128, s |-> e]
NULL       == [t |-> -200]

has_n(x)    == x.t >= 0 /\ x.t < XT
callable(x) == x.t >= 100
min_i(a, b) == IF a <= b THEN a ELSE b
max_i(a, b) == IF a >= b THEN a ELSE b

-----------------------------------------------------------------------------
(* util.c: atoms *)

compatible_i(x) == x.t \in (-KJ)..(-KH) \cup {-KB}
compatible_f(x) == x.t \in (-KF)..(-KH) \cup {-KB}

\* Mutant: the value is cast.
i_from_Cast(t, v) == IF t = KJ THEN ((v + 8) % 16) - 8 ELSE v

\* A value of a wider or narrower integer type as an I.
i_from(t, v) ==
    CASE t = KJ -> IF v = nj THEN ni
                   ELSE IF v > wi THEN wi ELSE IF v < -wi THEN -wi ELSE v
      [] t = KH -> IF v = nh THEN ni ELSE v
      [] OTHER  -> v

convert_i(x) == IF compatible_i(x) THEN i_from(-x.t, x.v) ELSE ni

\* An integer of type t as a float: nulls and infinities keep their meaning.
f_from(t, v) ==
    LET null == CASE t = KJ -> nj [] t = KI -> ni [] t = KH -> nh
                  [] OTHER -> nf
        inf  == CASE t = KJ -> wj [] t = KI -> wi [] t = KH -> wh
                  [] OTHER -> wf
    IN  CASE v = null -> nf [] v = inf -> wf [] v = -inf -> -wf
          [] OTHER -> v

convert_f(x) == IF compatible_f(x) THEN f_from(-x.t, x.v) ELSE nf

-----------------------------------------------------------------------------
(* util.c: lists *)

\* A vector of floats, or NULL.
convert_F(x) ==
    CASE x.t = KF -> x
      [] x.t \in {KE, KJ, KI, KH, KB} ->
            Vec(KF, [i \in DOMAIN x.v |-> f_from(x.t, x.v[i])])
      [] x.t = 0 /\ (\A i \in DOMAIN x.v : compatible_f(x.v[i])) ->
            Vec(KF, [i \in DOMAIN x.v |-> convert_f(x.v[i])])
      [] OTHER -> NULL

\* A list of vectors of floats, or NULL.
convert_FF(x) ==
    IF x.t # 0 THEN NULL
    ELSE IF \A j \in DOMAIN x.v : x.v[j].t = KF THEN x
    ELSE LET r == [j \in DOMAIN x.v |-> convert_F(x.v[j])]
         IN  IF \E j \in DOMAIN r : r[j] = NULL THEN NULL ELSE Vec(0, r)

\* Item i (from 0) of a list as an integer or a float: <<found, value>>.
item_I(x, i) ==
    CASE x.t \in {KJ, KI, KH, KB} -> <<TRUE, i_from(x.t, x.v[i + 1])>>
      [] x.t = 0 /\ compatible_i(x.v[i + 1]) -> <<TRUE, convert_i(x.v[i + 1])>>
      [] OTHER -> <<FALSE, ni>>

item_F(x, i) ==
    CASE x.t \in {KF, KE, KJ, KI, KH, KB} ->
            <<TRUE, f_from(x.t, x.v[i + 1])>>
      [] x.t = 0 /\ compatible_f(x.v[i + 1]) -> <<TRUE, convert_f(x.v[i + 1])>>
      [] OTHER -> <<FALSE, nf>>

make_F(a, n)   == Vec(KF, [i \in 1..n |-> a[i]])
make_F_null(n) == Vec(KF, [i \in 1..n |-> nf])

new_D == [t |-> XD, k |-> Vec(KS, <<>>), v |-> Vec(0, <<>>)]
append_D(d, k, v) ==
    [d EXCEPT !.k.v = Append(@, Sym(k)), !.v.v = Append(@, v)]

-----------------------------------------------------------------------------
(* opt.c: options given as a list, a symbol, symbols or a dictionary. *)
(* A table is a sequence of <<name, type>>, the type 0 for a flag;    *)
(* taken options are [ok, v, used], used being what get() returns.    *)

solve_opt  == <<<<"iter", -KI>>, <<"tol", -KF>>, <<"steps", -KI>>, <<"slp", 0>>,
                <<"rk", 0>>, <<"full", 0>>, <<"quiet", 0>>>>
min_opt    == <<<<"iter", -KI>>, <<"tol", -KF>>, <<"steps", -KI>>, <<"slp", 0>>,
                <<"rk", 0>>, <<"nm", 0>>, <<"sbplx", 0>>, <<"full", 0>>,
                <<"quiet", 0>>>>
conmin_opt == <<<<"iter", -KI>>, <<"tol", -KF>>, <<"steps", -KI>>, <<"slp", 0>>,
                <<"rk", 0>>, <<"cobyla", 0>>, <<"lincon", 0>>, <<"full", 0>>,
                <<"quiet", 0>>>>
rootline_opt == <<<<"iter", -KI>>, <<"tol", -KF>>, <<"full", 0>>, <<"quiet", 0>>>>

\* The options before any is taken: numbers unset (-1), flags off.
Defaults(n) == [k \in DOMAIN n |-> IF n[k][2] = 0 THEN 0 ELSE -1]

Fail(v) == [ok |-> FALSE, v |-> v, used |-> 0]

get(x, i, flat, s, n, v) ==
    IF s = NULL THEN Fail(v)
    ELSE IF s.s = "" THEN [ok |-> TRUE, v |-> v, used |-> 1]
    ELSE LET found == {k \in DOMAIN n : n[k][1] = s.s}
             k     == CHOOSE k \in found : TRUE
             item  == IF n[k][2] = -KF THEN item_F(x, i) ELSE item_I(x, i)
         IN  IF found = {} THEN Fail(v)
             ELSE IF n[k][2] = 0 /\ flat
             THEN [ok |-> TRUE, v |-> [v EXCEPT ![k] = 1], used |-> 1]
             ELSE IF x = NULL \/ ~has_n(x) \/ i >= Len(x.v) \/ ~item[1]
             THEN Fail(v)
             ELSE [ok |-> TRUE, v |-> [v EXCEPT ![k] = item[2]], used |-> 2]
=============================================================================
