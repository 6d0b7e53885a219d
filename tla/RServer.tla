------------------------------ MODULE RServer ------------------------------
(***************************************************************************)
(* R and q in one process and in two.  With side = "q" a q program runs R  *)
(* as a library (rserver.c: ropen, rclose, rcmd, rget, rset); with         *)
(* side = "r" an R program is a client of q processes (qserver.c).         *)
(*                                                                         *)
(* R itself is external: it parses a text into expressions, evaluates one  *)
(* and keeps variables.  An R error (error()) leaves the C code for the    *)
(* R program that called it; in a q process there is none to go to, and    *)
(* the process is lost.  Both sides are single threads.                    *)
(***************************************************************************)
EXTENDS RConvert

CONSTANTS Names,    \* R variables
          KValues,  \* q values: arguments of rset, results of queries
          Sources,  \* R source: sequences of expressions
          RNames,   \* first arguments of rset: [t, source]
          Handles

\* The parser's verdict on a text, of which it reads one expression.
ParseError == {"ok", "incomplete", "error", "eof"}

ASSUME RAssumption ==
    \A s \in Sources : \A i \in DOMAIN s :
       /\ s[i].op \in {"get", "value", "fail", "error", "incomplete"}
       /\ DOMAIN s[i].sets \subseteq Names

VARIABLES side,           \* "q" or "r"
          ROPEN,
          running,        \* whether R is initialised
          globals,        \* R's variables: objects, of class "none" if unset
          conns,          \* handles with a q process at the other end
          kx_connection,
          stack,          \* objects protected between calls
          last            \* the call that ends: [fn, x, r, out, fresh]

vars == <<side, ROPEN, running, globals, conns, kx_connection, stack, last>>
qside == <<ROPEN, running, globals>>
rside == <<conns, kx_connection>>

None   == Object("none", <<>>)
NoVars == [n \in Names |-> None]

\* x and r: the q value and the R object a call converts; out: its result, or
\* how it ended; fresh: whether nothing but the call holds r.
Call(fn, x, r, out, fresh) ==
    [fn |-> fn, x |-> x, r |-> r, out |-> out, fresh |-> fresh]
Plain(fn, out) == Call(fn, NULLK, None, out, FALSE)

Init ==
    /\ side \in {"q", "r"}
    /\ ROPEN = 0 /\ running = FALSE /\ globals = NoVars
    /\ conns = {} /\ kx_connection = 0
    /\ stack = 0
    /\ last = Plain("none", "ok")

\* The program is between two calls; it takes what a call returned.
Up == last.fn = "none"
Return ==
    /\ ~Up /\ last.out # "stopped"
    /\ last' = Plain("none", "ok")
    /\ UNCHANGED <<side, qside, rside, stack>>

\* What a call leaves on the stack of protected objects.
Sum(s) == FoldLeft(+, 0, s)
Leaves(events) == stack' = stack + Sum(events)

-----------------------------------------------------------------------------
(* rserver.c *)

\* Rf_initEmbeddedR starts R without variables, or fails.
ropen ==
    /\ side = "q" /\ Up
    /\ IF ROPEN = 1
       THEN last' = Plain("ropen", "ok") /\ UNCHANGED qside
       ELSE \/ /\ ROPEN' = 1 /\ running' = TRUE /\ globals' = NoVars
               /\ last' = Plain("ropen", "ok")
            \/ last' = Plain("ropen", "error") /\ UNCHANGED qside
    /\ UNCHANGED <<side, rside, stack>>

\* Mutant: the flag stays.
rclose_FlagKept ==
    /\ side = "q" /\ Up
    /\ running' = FALSE
    /\ last' = Plain("rclose", "ok")
    /\ UNCHANGED <<side, ROPEN, globals, rside, stack>>
rclose ==
    /\ side = "q" /\ Up
    /\ ROPEN' = 0 /\ running' = FALSE
    /\ last' = Plain("rclose", "ok")
    /\ UNCHANGED <<side, globals, rside, stack>>

\* rcmd, rget and rset open R if it is not open; they do not look at whether
\* that failed, and then call an R that is not there.
OpenFirst ==
    IF ROPEN = 1 THEN UNCHANGED <<ROPEN, running>>
    ELSE ROPEN' = 1 /\ running' = TRUE
Opened == IF ROPEN = 1 THEN globals ELSE NoVars

OpenFails(fn) ==
    /\ side = "q" /\ Up
    /\ ROPEN = 0
    /\ last' = Plain(fn, "stopped")
    /\ UNCHANGED <<side, qside, rside, stack>>

status(source) ==
    IF source = <<>> THEN "eof"
    ELSE IF source[1].op \in {"error", "incomplete"} THEN source[1].op
    ELSE "ok"

\* The first expression is evaluated: its object, None if it fails, and the
\* variables after.  On its way to either it sets any number of variables.
Evaluated(e, env) ==
    LET after == [n \in Names |-> IF n \in DOMAIN e.sets THEN e.sets[n]
                                  ELSE env[n]]
    IN  <<CASE e.op = "get"   -> after[e.name]
            [] e.op = "value" -> e.val
            [] OTHER          -> None,
          after>>

Holes(x) == {y \in Values(x) : y = NULLK}

\* The object of rget is not protected while it is converted: if R collects
\* garbage then, what is read later is gone.
Late(r) == \E i, j \in DOMAIN Walk(r) :
              i < j /\ Walk(r)[i] = "alloc" /\ Walk(r)[j] = "read"

Converted(r, fresh) ==
    LET x == from_any_robject(r)
    IN  (IF FPE \in Values(x) THEN {"stopped"}
         ELSE IF x = NULLK THEN {"error"}
         ELSE IF Holes(x) # {} THEN {"holes"} ELSE {"value"})
        \cup IF fresh /\ Late(r) THEN {"stopped"} ELSE {}

rexec(type, source) ==
    LET st  == status(source)
        ev  == Evaluated(source[1], Opened)
        fn  == IF type = 1 THEN "rget" ELSE "rcmd"
        fresh == source[1].op = "value"
    IN  /\ side = "q" /\ Up
        /\ OpenFirst
        /\ IF st # "ok"
           THEN /\ last' = Plain(fn, "error") /\ globals' = Opened
                /\ Leaves(<<1, 1, -2>>)
           ELSE /\ globals' = ev[2]
                /\ Leaves(<<1, 1, 1, -3>>)
                /\ IF ev[1] = None THEN last' = Plain(fn, "error")
                   ELSE IF type = 0 THEN last' = Plain(fn, "ok")
                   ELSE \E out \in Converted(ev[1], fresh) :
                           last' = Call(fn, from_any_robject(ev[1]), ev[1],
                                        out, fresh)
        /\ UNCHANGED <<side, rside>>

rcmd(source) == rexec(0, source)
rget(source) == rexec(1, source)

\* Whether getkstring finds a text; without one it reports the error and
\* returns a pointer it never set, which rset goes on to use.
getkstring(x) == x.t \in {KC, -KC, -KS}

\* The variable is the first expression of the text, which has to be a symbol:
\* of anything else rset takes a name where there is none.
rset(x, y) ==
    LET st  == status(x.source)
        sym == /\ getkstring(x) /\ st = "ok"
               /\ x.source[1].op = "get" /\ x.source[1].sets = <<>>
        val == from_any_kobject(y)
    IN  /\ side = "q" /\ Up
        /\ OpenFirst
        /\ \/ /\ sym /\ ~Erred(val)
              /\ globals' = [Opened EXCEPT ![x.source[1].name] = val]
              /\ last' = Call("rset", y, val, "ok", FALSE)
              /\ Leaves(<<1, 1>> \o Protection(y) \o <<1, -3>>)
           \/ /\ sym /\ Erred(val)
              /\ globals' = Opened
              /\ last' = Call("rset", y, val, "stopped", FALSE)
              /\ UNCHANGED stack
           \/ /\ ~getkstring(x) \/ st # "ok"
              /\ globals' = Opened
              /\ last' = Plain("rset", "error")
              /\ Leaves(<<1, 1, -2>>)
           \/ /\ ~getkstring(x) \/ (st = "ok" /\ ~sym)
              /\ globals' = Opened
              /\ last' = Plain("rset", "stopped")
              /\ UNCHANGED stack
        /\ UNCHANGED <<side, rside>>

-----------------------------------------------------------------------------
(* qserver.c *)

\* Errors of R: the R program gets them, and R's stack is as before the call.
kx_r_open_connection(h, params) ==
    /\ side = "r" /\ Up
    /\ \/ /\ params \in {2, 3} /\ h \notin conns
          /\ conns' = conns \cup {h}
          /\ last' = Plain("open", "ok")
       \/ last' = Plain("open", "error") /\ UNCHANGED conns
    /\ UNCHANGED <<side, qside, kx_connection, stack>>

kx_r_close_connection(h) ==
    /\ side = "r" /\ Up
    /\ conns' = conns \ {h}
    /\ last' = Plain("close", "ok")
    /\ Leaves(<<1, -1>>)
    /\ UNCHANGED <<side, qside, kx_connection>>

Guids(x) == \E y \in Values(x) : y.t \in {UU, -UU}

\* The query has the result x, or an error of q; a guid in x takes a second
\* query, and the other end may be gone by then.
kx_r_execute(h, x) ==
    /\ side = "r" /\ Up
    /\ kx_connection' = h
    /\ LET r == from_any_kobject(x)
       IN  \/ /\ h \in conns /\ ~Erred(r)
              /\ last' = Call("execute", x, r, "value", FALSE)
              /\ Leaves(Protection(x))
              /\ UNCHANGED conns
           \/ /\ last' = Plain("execute", "error")
              /\ UNCHANGED <<conns, stack>>
           \/ /\ h \in conns /\ Guids(x)
              /\ last' = Call("execute", x, None, "stopped", FALSE)
              /\ conns' = conns \ {h} /\ UNCHANGED stack
    /\ UNCHANGED <<side, qside>>

\* The q process at the other end of a connection ends, or fails a query.
Drop(h) ==
    /\ side = "r" /\ last.out # "stopped"
    /\ h \in conns
    /\ conns' = conns \ {h}
    /\ UNCHANGED <<side, qside, kx_connection, stack, last>>

Stopped == last.out = "stopped" /\ UNCHANGED vars

Next ==
    \/ ropen \/ rclose
    \/ \E fn \in {"rcmd", "rget", "rset"} : OpenFails(fn)
    \/ \E s \in Sources : rcmd(s) \/ rget(s)
    \/ \E x \in RNames, y \in KValues : rset(x, y)
    \/ \E h \in Handles :
          \/ \E n \in 1..3 : kx_r_open_connection(h, n)
          \/ kx_r_close_connection(h) \/ Drop(h)
          \/ \E x \in KValues : kx_r_execute(h, x)
    \/ Return \/ Stopped

Spec == Init /\ [][Next]_vars

-----------------------------------------------------------------------------
(* Properties *)

\* The variables have their types.
RTypeOK ==
    /\ side \in {"q", "r"} /\ ROPEN \in {0, 1} /\ running \in BOOLEAN
    /\ DOMAIN globals = Names
    /\ conns \subseteq Handles /\ kx_connection \in Handles \cup {0}
    /\ last.out \in {"ok", "error", "value", "holes", "stopped"}

\* However values are nested, a conversion never pops what its caller pushed,
\* and every call leaves R's stack as it found it (setdatetimeclass pops for
\* its callers).
StackBalanced ==
    /\ stack = 0
    /\ \A i \in DOMAIN Protection(last.x) :
          Sum(SubSeq(Protection(last.x), 1, i)) >= 0

\* Every data frame has as many rows in each column as it has row names,
\* whatever the types of the columns (from_table_kobject).
FramesRectangular ==
    \A o \in Objects(last.r) :
       HasAttr(o, "row.names") =>
          /\ Len(Attr(o, "names").v) = Len(o.v)
          /\ \A i \in DOMAIN o.v : Len(o.v[i].v) = Len(Attr(o, "row.names").v)

RECURSIVE At(_, _)
At(x, path) == IF path = <<>> THEN x ELSE At(x.v[Head(path)], Tail(path))

\* The item of R's array with indexes ix is found in the nested lists of q by
\* its third and later indexes, last first, then row and column (kinta).
ArrayMatches ==
    last.out = "value" /\ last.fn = "rget" /\ HasAttr(last.r, "dim") =>
       LET shape == Attr(last.r, "dim").v
           n     == Len(shape)
           x     == IF Kept(last.r).a = <<>> THEN last.x ELSE last.x.v[2]
           stride(i) == FoldLeft(LAMBDA x1, x2 : x1 * x2, 1, SubSeq(shape, 1, i - 1))
           place(ix) == 1 + Sum([i \in 1..n |-> (ix[i] - 1) * stride(i)])
           path(ix)  == IF n = 1 THEN ix
                        ELSE Reverse(SubSeq(ix, 3, n)) \o <<ix[1], ix[2]>>
       IN  \A ix \in [1..n -> 1..4] :
              (\A i \in 1..n : ix[i] <= shape[i]) =>
                 At(x, path(ix)) = last.r.v[place(ix)]

\* Lists of ints, floats, characters and such lists.
Native(x) == \A y \in Values(x) : y.t \in {0, KI, KF, KC}
Trip(x)   == from_any_robject(from_any_kobject(x))

\* A value that is set and got twice consists of lists of ints, floats and
\* characters; such a value is not changed by being set and got: what the
\* types and attributes lose, they lose once (rset, rget).
TripSettles ==
    last.fn = "rset" /\ last.out = "ok" =>
       /\ Native(Trip(Trip(last.x)))
       /\ Native(last.x) => Trip(last.x) = last.x

\* A day is the same instant as a date, a datetime and a timestamp.
EpochsAgree ==
    \A x, y \in KValues :
       /\ x.t = -KD /\ y.t = -KZ /\ x.v = y.v =>
             from_date_kobject(x).v[1] * 86400 = from_datetime_kobject(y).v[1]
       /\ x.t = -KP /\ y.t = -KZ /\ x.v = 0 /\ y.v = 0 =>
             from_timestamp_kobject(x) = from_datetime_kobject(y)

\* What converts to texts, items and columns.
Count(x) == CASE x.t < 0 \/ x.t = KC -> 1
              [] x.t = XT -> Len(x.v[2].v)
              [] OTHER -> Len(x.v)
Tabular(x) == x.v[1].t = XT /\ x.v[2].t = XT
\* q values that R cannot take: of a type without an R type, or a dictionary
\* with more keys than items.
Unconvertible(x) ==
    \E y \in Values(x) :
       \/ y.t \notin (-19)..19 \cup {XT, XD, 101, 105} \/ y.t \in {-3, 3}
       \/ y.t = XD /\ ~Tabular(y) /\ Count(y.v[1]) > Count(y.v[2])

\* Arrays without names of their dimensions, and R objects q cannot take.
Bare(r)    == HasAttr(r, "dim") /\ ~HasAttr(r, "dimnames")
Unknown(r) == r.c \in {"raw", "special", "builtin"}

\* A call that finds R running, with a name where one is needed, is lost only
\* if R cannot take the value; if q is given an array of rank three or more
\* with an empty dimension after the second; if an object nobody holds has an
\* array inside; or if a connection breaks between a query and the question
\* for its guids.
StopsExplained ==
    last.out = "stopped" =>
       CASE last.fn = "rset" -> last.x = NULLK \/ Unconvertible(last.x)
         [] last.fn = "rget" ->
               \/ last.r = None
               \/ \E o \in Objects(last.r) :
                     HasAttr(o, "dim") /\ \E i \in 3..Len(Attr(o, "dim").v) :
                                             Attr(o, "dim").v[i] = 0
               \/ /\ last.fresh /\ ~Bare(last.r)
                  /\ \E o \in Objects(last.r) : Bare(o)
         [] last.fn = "execute" -> Guids(last.x)
         [] OTHER -> last.fn = "rcmd"

\* A result of rget has a hole, a null pointer where q expects a value,
\* exactly if an object that q cannot take is inside one that it can.
HolesExplained ==
    last.fn = "rget" /\ last.out \in {"value", "holes"} =>
       (last.out = "holes" <=> \E o \in Objects(last.r) : Unknown(o))

\* q calls R only while R runs: the flag and the library agree, also after R
\* is closed and opened again (ROPEN).
OpenMeansRunning == ROPEN = 1 <=> running

\* R's memory: the stack is as it was after every conversion and call.
ProtectionKept == RTypeOK /\ StackBalanced

\* Data frames and arrays keep their shape from one program to the other.
ShapesKept == FramesRectangular /\ ArrayMatches

\* Values keep their meaning from one program to the other.
MeaningKept == TripSettles /\ EpochsAgree

\* A call that ends badly, or with a hole, has one of the causes above.
FailuresExplained == StopsExplained /\ HolesExplained /\ OpenMeansRunning
=============================================================================
