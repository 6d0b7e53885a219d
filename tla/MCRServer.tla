----------------------------- MODULE MCRServer -----------------------------
(* Values, objects and texts of each kind for RServer. *)
EXTENDS RServer

AreRecords(t, c, v) == /\ Value(t, v) = [t |-> t, v |-> v]
                       /\ Object(c, v) = [c |-> c, v |-> v, a |-> <<>>]

A(t, v) == Value(-t, v)
a == <<"a">>
b == <<"b">>

MCNames   == {"a", "b"}
MCHandles == {1, 2}

Columns(n) == List(<<Value(KI, [i \in 1..n |-> i]), Value(KC, [i \in 1..n |-> "c"]),
                     Value(KD, [i \in 1..n |-> i])>>)
Table(n) == Value(XT, <<Value(KS, <<a, b, <<"d">>>>), Columns(n)>>)
Keyed == Value(XD, <<Table(2),
                     Value(XT, <<Value(KS, <<<<"e">>>>),
                                 List(<<List(<<Str(a), Str(<<"x", "y">>)>>)>>)>>)>>)

\* An atom and a list of each type, and composed values.
Types == {KB, KG, KH, KI, KJ, KE, KF, KP, KM, KD, KZ, KN, KU, KV, KT}
MCKValues ==
    {A(t, 0) : t \in Types} \cup {Value(t, <<0, 1>>) : t \in Types \ {KP, KN}}
    \cup {A(KD, 1), A(KZ, 1), A(KD, MaxInt), A(UU, a), Value(UU, <<a, b>>),
          A(KC, "a"), Str(<<>>), Str(<<"a", "b">>), A(KS, a), Value(KS, <<a>>),
          Value(KS, <<a, b>>), List(<<>>), List(<<Str(a), A(KI, 1)>>),
          List(<<List(<<Value(KD, <<1>>)>>), A(KP, 0), Value(UU, <<a>>)>>),
          Table(1), Table(2), Keyed, List(<<Table(1), Str(a)>>),
          Value(XD, <<Value(KS, <<a, b>>), Value(KI, <<1, 2>>)>>),
          Value(XD, <<Value(KS, <<a, b>>), Str(<<"x", "y">>)>>),
          Value(XD, <<Value(KI, <<1, 2>>), List(<<Str(a), A(KZ, 1)>>)>>),
          Value(XD, <<Value(KS, <<a, b>>), Table(2)>>),
          Value(XD, <<List(<<Value(100, <<>>)>>), Value(KI, <<1>>)>>),
          Value(100, <<>>), Value(101, <<>>), Value(20, <<1>>), A(3, 0),
          List(<<Str(a), Value(100, <<>>)>>)}

Dim(r, shape) == setAttrib(r, "dim", Integer(shape))
Iota(n) == [i \in 1..n |-> i]
Matrix  == Dim(Integer(Iota(6)), <<2, 3>>)
L(s)    == Object("list", s)
Named   == setAttrib(Dim(Double(Iota(2)), <<1, 2>>), "dimnames",
                     L(<<R_NilValue, Character(<<a, b>>)>>))
Symbol  == Object("symbol", a)
MCObjects ==
    {R_NilValue, Symbol, Object("environment", <<>>), Object("promise", <<>>),
     Object("complex", <<1>>), Object("...", <<>>), Object("expression", <<>>),
     Object("raw", <<1>>), Object("language", <<Symbol, Double(<<1>>)>>),
     Object("closure", <<Object("pairlist", <<<<"x", Symbol>>, <<"", Matrix>>>>),
                         Object("language", <<Symbol>>)>>),
     Object("logical", <<0, 1>>), Dim(Object("logical", <<0, 1>>), <<2, 1>>),
     Integer(<<>>), Matrix, Named, Character(<<>>), Character(<<a>>),
     Character(<<a, b>>), Dim(Double(Iota(3)), <<3>>),
     Dim(Integer(Iota(12)), <<2, 3, 2>>), Dim(Double(Iota(24)), <<2, 3, 1, 4>>),
     setAttrib(Dim(Double(Iota(8)), <<2, 2, 2>>), "m", Matrix),
     Dim(Integer(<<>>), <<2, 0, 3>>), Dim(Double(<<>>), <<2, 2, 0>>),
     Dim(Double(<<>>), <<2, 0, 2, 0>>), L(<<Integer(<<1>>), Named>>),
     L(<<Matrix, Character(<<a>>)>>), L(<<Character(<<a>>), Object("raw", <<1>>)>>),
     L(<<L(<<Dim(Integer(<<>>), <<1, 1, 0>>)>>)>>),
     setAttrib(Double(<<1>>), "m", Matrix), setAttrib(Double(<<1>>), "s", Symbol),
     setAttrib(L(<<Double(<<1>>)>>), "w", Object("builtin", <<>>))}

\* An expression that sets variables, and one that sets none.
Sets(op, n, r, vs) == [op |-> op, name |-> n, val |-> r, sets |-> vs]
E(op, n, r) == Sets(op, n, r, <<>>)
Both(x, y) == [n \in MCNames |-> IF n = "a" THEN x ELSE y]
Only(n, x) == [m \in {n} |-> x]
MCSources ==
    {<<>>, <<E("error", "a", None)>>, <<E("incomplete", "a", None)>>,
     <<E("fail", "a", None)>>, <<E("get", "a", None)>>, <<E("get", "b", None)>>,
     <<Sets("get", "b", None, Only("b", L(<<Matrix>>)))>>,
     <<Sets("fail", "a", None, Only("b", Matrix))>>,
     <<Sets("get", "a", None, Both(Symbol, L(<<Matrix>>))), E("fail", "a", None)>>,
     <<E("get", "a", None), E("error", "a", None)>>}
    \cup {<<E("value", "a", r)>> : r \in MCObjects}

MCRNames == [t : {KC, -KS}, source : {<<E("get", "a", None)>>}]
            \cup [t : {KC}, source : {<<>>, <<E("value", "a", Matrix)>>,
                                      <<E("get", "a", None), E("error", "b", None)>>}]
            \cup [t : {KI}, source : {<<E("get", "a", None)>>}]
=============================================================================
