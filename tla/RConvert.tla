------------------------------ MODULE RConvert ------------------------------
(***************************************************************************)
(* The conversions of r/src: common.c turns a q value into an R object,    *)
(* rserver.c an R object into a q value.                                   *)
(*                                                                         *)
(* A q value has a type t and a content v: of an atom the value, of a list *)
(* the sequence of its items, of a table or dictionary the pair of its     *)
(* names or keys and its columns or values.  An R object has a class c, a  *)
(* content v and attributes a, a sequence of <<name, object>>.  A text is  *)
(* a sequence of characters; an R double is an integer here.               *)
(*                                                                         *)
(* Beside its value, a conversion has two effects on R's memory: what it   *)
(* pushes to and pops from the stack of protected objects (Protection),    *)
(* and the order in which it reads an object and allocates (Walk).         *)
(***************************************************************************)
EXTENDS Integers, Sequences, SequencesExt

KB == 1   UU == 2   KG == 4   KH == 5   KI == 6   KJ == 7   KE == 8   KF == 9
KC == 10  KS == 11  KP == 12  KM == 13  KD == 14  KZ == 15  KN == 16  KU == 17
KV == 18  KT == 19  XT == 98  XD == 99

Value(t, v) == [t |-> t, v |-> v]
List(s)     == Value(0, s)
Str(s)      == Value(KC, s)

\* What krr leaves where a value should be, and a division by zero.
NULLK == Value(-200, <<>>)
FPE   == Value(-201, <<>>)

Object(c, v)  == [c |-> c, v |-> v, a |-> <<>>]
R_NilValue    == Object("NULL", <<>>)
Character(s)  == Object("character", s)
Integer(s)    == Object("integer", s)
Double(s)     == Object("double", s)

\* The objects of r without attributes of their own: the parts of r.
Parts(r) ==
    (CASE r.c \in {"list", "language", "closure"} -> r.v
       [] r.c = "pairlist" -> [i \in DOMAIN r.v |-> r.v[i][2]]
       [] OTHER -> <<>>) \o [i \in DOMAIN r.a |-> r.a[i][2]]

RECURSIVE Objects(_), Values(_)
Objects(r) == {r} \cup UNION {Objects(Parts(r)[i]) : i \in DOMAIN Parts(r)}
Values(x)  == {x} \cup IF x.t \in {0, XT, XD}
                       THEN UNION {Values(x.v[i]) : i \in DOMAIN x.v} ELSE {}

-----------------------------------------------------------------------------
(* Attributes of R objects *)

HasAttr(r, n) == \E i \in DOMAIN r.a : r.a[i][1] = n
Attr(r, n)    == r.a[CHOOSE i \in DOMAIN r.a : r.a[i][1] = n][2]
setAttrib(r, n, x) ==
    [r EXCEPT !.a = SelectSeq(@, LAMBDA p : p[1] # n) \o <<<<n, x>>>>]
Without(r, n) == [r EXCEPT !.a = SelectSeq(@, LAMBDA p : p[1] # n)]

error_object == Object("error", <<>>)
Erred(r) == \E x \in Objects(r) : x.c = "error"

\* R makes the names texts, as many as there are items: NA for those that
\* are missing, an error if there are too many.
SET_NAMES(r, names) ==
    LET text == IF names.c = "character" THEN names.v
                ELSE [i \in DOMAIN names.v |-> <<ToString(names.v[i])>>]
    IN  IF Len(text) > Len(r.v) THEN error_object
        ELSE setAttrib(r, "names", Character([i \in DOMAIN r.v |->
                IF i <= Len(text) THEN text[i] ELSE <<"NA">>]))

\* The row names are 1, 2, ... as many as the first column has items.
make_data_frame(r) ==
    LET rows == [i \in DOMAIN r.v[1].v |-> <<ToString(i)>>]
    IN  setAttrib(setAttrib(r, "row.names", Character(rows)),
                  "class", Character(<<<<"data.frame">>>>))

setdatetimeclass(r) ==
    setAttrib(r, "class", Character(<<<<"POSIXt">>, <<"POSIXct">>>>))

-----------------------------------------------------------------------------
(* q to R *)

scalar(x) == x.t < 0

\* The items of a list, or the value of an atom, each as f gives it.
Items(x, f(_)) == IF scalar(x) THEN <<f(x.v)>>
                  ELSE [i \in DOMAIN x.v |-> f(x.v[i])]
Same(v) == v

error_broken_kobject(x) == error_object

from_bool_kobject(x)   == Object("logical", Items(x, Same))
from_byte_kobject(x)   == Integer(Items(x, Same))
from_short_kobject(x)  == Integer(Items(x, Same))
from_int_kobject(x)    == Integer(Items(x, Same))
from_long_kobject(x)   == Double(Items(x, Same))
from_float_kobject(x)  == Double(Items(x, Same))
from_double_kobject(x) == Double(Items(x, Same))
from_month_kobject(x)  == from_int_kobject(x)
from_minute_kobject(x) == from_int_kobject(x)
from_second_kobject(x) == from_int_kobject(x)
from_time_kobject(x)   == from_int_kobject(x)

from_string_kobject(x) ==
    Character(<<IF scalar(x) THEN <<x.v>> ELSE x.v>>)
from_string_column_kobject(x) ==
    Character([i \in DOMAIN x.v |-> <<x.v[i]>>])
from_symbol_kobject(x) == Character(Items(x, Same))

\* An int sum that wraps.
MaxInt == 2147483647
Add32(v, d) == IF v > MaxInt - d THEN (v - MaxInt - 1) + (d - MaxInt - 1)
               ELSE v + d

\* q counts days from 2000, R from 1970; R's times are in seconds.
from_date_kobject(x) ==
    setAttrib(Integer(Items(x, LAMBDA v : Add32(v, 10957))),
              "class", Character(<<<<"Date">>>>))
\* Mutant: days from 2000.
from_datetime_kobject_Unshifted(x) ==
    setdatetimeclass(Double(Items(x, LAMBDA v : v * 86400)))
from_datetime_kobject(x) ==
    setdatetimeclass(Double(Items(x, LAMBDA v : (v + 10957) * 86400)))
from_timespan_kobject(x) ==
    Double(Items(x, LAMBDA v : v \div 1000000000))
from_timestamp_kobject(x) ==
    setdatetimeclass(Double(Items(x,
        LAMBDA v : 946684800 + (v \div 1000000000))))

\* q's string of a guid, or of each of a list.
string(x) == IF scalar(x) THEN Str(x.v)
             ELSE List([i \in DOMAIN x.v |-> Str(x.v[i])])

RECURSIVE from_any_kobject(_)

from_guid_kobject(x) == from_any_kobject(string(x))
from_list_of_kobjects(x) ==
    Object("list", [i \in DOMAIN x.v |-> from_any_kobject(x.v[i])])

\* A column of characters has one text per row.
from_columns_kobject(x) ==
    Object("list", [i \in DOMAIN x.v |->
        IF x.v[i].t \in {KC, -KC} THEN from_string_column_kobject(x.v[i])
        ELSE from_any_kobject(x.v[i])])

from_table_kobject(x) ==
    make_data_frame(SET_NAMES(from_columns_kobject(x.v[2]),
                              from_any_kobject(x.v[1])))

\* ktd: the columns of the key table before those of the other.
ktd(x) == LET k == x.v[1] n == x.v[2]
          IN  Value(XT, <<Value(KS, k.v[1].v \o n.v[1].v),
                          List(k.v[2].v \o n.v[2].v)>>)

from_dictionary_kobject(x) ==
    IF x.v[1].t = XT /\ x.v[2].t = XT THEN from_table_kobject(ktd(x))
    ELSE LET names  == from_any_kobject(x.v[1])
             result == from_any_kobject(x.v[2])
         IN  IF Erred(names) \/ Erred(result) THEN error_object
             ELSE SET_NAMES(result, names)

kdbplus_types(t, x) ==
    CASE t = 0  -> from_list_of_kobjects(x)
      [] t = KB -> from_bool_kobject(x)
      [] t = UU -> from_guid_kobject(x)
      [] t = 3  -> error_broken_kobject(x)
      [] t = KG -> from_byte_kobject(x)
      [] t = KH -> from_short_kobject(x)
      [] t = KI -> from_int_kobject(x)
      [] t = KJ -> from_long_kobject(x)
      [] t = KE -> from_float_kobject(x)
      [] t = KF -> from_double_kobject(x)
      [] t = KC -> from_string_kobject(x)
      [] t = KS -> from_symbol_kobject(x)
      [] t = KP -> from_timestamp_kobject(x)
      [] t = KM -> from_month_kobject(x)
      [] t = KD -> from_date_kobject(x)
      [] t = KZ -> from_datetime_kobject(x)
      [] t = KN -> from_timespan_kobject(x)
      [] t = KU -> from_minute_kobject(x)
      [] t = KV -> from_second_kobject(x)
      [] t = KT -> from_time_kobject(x)

from_any_kobject(x) ==
    LET type == IF x.t < 0 THEN -x.t ELSE x.t
    IN  CASE type = XT          -> from_table_kobject(x)
          [] type = XD          -> from_dictionary_kobject(x)
          [] type \in {101, 105} -> from_int_kobject(Value(-KI, 0))
          [] type \in 0..19     -> kdbplus_types(type, x)
          [] OTHER              -> error_broken_kobject(x)

\* Mutant: the conversion of a list pops what its items pushed once more.
Protection_PopsItems(x) ==
    IF x.t = 0 THEN <<1>> \o [i \in DOMAIN x.v |-> -1] \o <<-1>> ELSE <<1, -1>>

\* Pushes (1 each) and pops (-n) of the conversion of x, in their order.
RECURSIVE Protection(_)
Protection(x) ==
    LET type == IF x.t < 0 THEN -x.t ELSE x.t
        items(y) == FlattenSeq([i \in DOMAIN y.v |-> Protection(y.v[i])])
        datetimeclass == <<1, -2>>
        table(y) == Protection(y.v[1]) \o <<1, 1>> \o items(y.v[2]) \o
                    <<-1, 1, -2>> \o <<1, 1, 1, -3>>
    IN  CASE type = 0        -> <<1>> \o items(x) \o <<-1>>
          [] type = UU       -> Protection(string(x))
          [] type = KD       -> <<1, 1, -2>>
          [] type \in {KP, KZ} -> <<1>> \o datetimeclass
          [] type = XT       -> table(x)
          [] type = XD       -> IF x.v[1].t = XT /\ x.v[2].t = XT
                                THEN table(ktd(x))
                                ELSE Protection(x.v[1]) \o <<1>> \o
                                     Protection(x.v[2]) \o <<1, -2>>
          [] OTHER           -> <<1, -1>>

-----------------------------------------------------------------------------
(* R to q *)

\* Mutant: a matrix is read by rows.
Array_ByRows(t, shape, val) ==
    IF Len(shape) # 2 THEN Value(t, val)
    ELSE List([i \in 1..shape[1] |->
            Value(t, SubSeq(val, shape[2] * (i - 1) + 1, shape[2] * i))])

\* R stores an array by its first index; a matrix becomes the list of its
\* rows, a longer array the list of its slices by the last index.
RECURSIVE Array(_, _, _)
Array(t, shape, val) ==
    LET k == Len(shape)
        r == shape[k]
        c == Len(val) \div r
    IN  IF k = 1 THEN Value(t, val)
        ELSE IF k = 2
        THEN List([i \in 1..shape[1] |->
                     Value(t, [j \in 1..shape[2] |->
                                 val[i + shape[1] * (j - 1)]])])
        ELSE IF r = 0 THEN FPE
        ELSE List([i \in 1..r |->
                     Array(t, Front(shape),
                           SubSeq(val, c * (i - 1) + 1, c * i))])

kintv(val)           == Value(KI, val)
kdoublev(val)        == Value(KF, val)
kinta(shape, val)    == Array(KI, shape, val)
kdoublea(shape, val) == Array(KF, shape, val)

error_broken_robject(r) == NULLK

\* The attributes of r as R holds them.
ATTRIB(r) == IF r.a = <<>> THEN R_NilValue ELSE Object("pairlist", r.a)

RECURSIVE from_any_robject(_)

attR(x, r) == IF r.a = <<>> THEN x
              ELSE List(<<from_any_robject(ATTRIB(r)), x>>)

from_null_robject(r)   == attR(Value(-KI, -MaxInt - 1), r)
from_symbol_robject(r) == attR(Value(-KS, r.v), r)

\* Each value and then its name.
from_pairlist_robject(r) ==
    attR(List(FlattenSeq([i \in DOMAIN r.v |->
            <<from_any_robject(r.v[i][2]),
              IF r.v[i][1] = "" THEN from_any_robject(R_NilValue)
              ELSE Value(-KS, <<r.v[i][1]>>)>>])), r)
from_closure_robject(r) ==
    attR(List(<<from_any_robject(r.v[1]), from_any_robject(r.v[2])>>), r)
from_language_robject(r) ==
    attR(List([i \in DOMAIN r.v |-> from_any_robject(r.v[i])]), r)
from_vector_robject(r) ==
    attR(List([i \in DOMAIN r.v |-> from_any_robject(r.v[i])]), r)

\* Objects that q only gets to know the kind of.
from_environment_robject(r) == attR(Str(<<"environment">>), r)
from_promise_robject(r)     == attR(Str(<<"promise">>), r)
from_complex_robject(r)     == attR(Str(<<"complex">>), r)
from_dot_robject(r)         == attR(Str(<<"pairlist">>), r)
from_sxp_robject(r)         == attR(Str(<<"dot">>), r)

\* The dimensions of an array are kept among its attributes only if it has
\* names for them.
Kept(r) == IF HasAttr(r, "dim") /\ ~HasAttr(r, "dimnames")
           THEN Without(r, "dim") ELSE r

from_logical_robject(r) ==
    attR(IF HasAttr(r, "dim") THEN kinta(Attr(r, "dim").v, r.v)
         ELSE kintv(r.v), Kept(r))
from_integer_robject(r) ==
    attR(IF HasAttr(r, "dim") THEN kinta(Attr(r, "dim").v, r.v)
         ELSE kintv(r.v), Kept(r))
from_double_robject(r) ==
    attR(IF HasAttr(r, "dim") THEN kdoublea(Attr(r, "dim").v, r.v)
         ELSE kdoublev(r.v), Kept(r))
from_character_robject(r) ==
    attR(IF Len(r.v) = 1 THEN Str(r.v[1])
         ELSE List([i \in DOMAIN r.v |-> Str(r.v[i])]), r)

from_any_robject(r) ==
    CASE r.c = "NULL"        -> from_null_robject(r)
      [] r.c = "symbol"      -> from_symbol_robject(r)
      [] r.c = "pairlist"    -> from_pairlist_robject(r)
      [] r.c = "closure"     -> from_closure_robject(r)
      [] r.c = "environment" -> from_environment_robject(r)
      [] r.c = "promise"     -> from_promise_robject(r)
      [] r.c = "language"    -> from_language_robject(r)
      [] r.c = "logical"     -> from_logical_robject(r)
      [] r.c = "integer"     -> from_integer_robject(r)
      [] r.c = "double"      -> from_double_robject(r)
      [] r.c = "complex"     -> from_complex_robject(r)
      [] r.c = "character"   -> from_character_robject(r)
      [] r.c = "..."         -> from_dot_robject(r)
      [] r.c = "list"        -> from_vector_robject(r)
      [] r.c = "expression"  -> from_sxp_robject(r)
      [] OTHER               -> error_broken_robject(r)

\* Reads of the object ("read") and allocations of R ("alloc") while it is
\* converted; the copy of an array is protected, reading that is no matter.
RECURSIVE Walk(_)
Walk(r) ==
    LET parts(x) == FlattenSeq([i \in DOMAIN x.v |-> Walk(Parts(x)[i])])
        att(x)   == IF x.a = <<>> THEN <<"read">>
                    ELSE <<"read">> \o Walk(ATTRIB(x))
    IN  IF from_any_robject(r) = NULLK THEN <<"read">>
        ELSE IF r.c \in {"list", "language", "closure", "pairlist"}
        THEN <<"read">> \o parts(r) \o att(r)
        ELSE IF Kept(r) # r
        THEN <<"read", "alloc">> \o
             SelectSeq(att(Kept(r)), LAMBDA e : e = "alloc")
        ELSE <<"read">> \o att(r)
=============================================================================
