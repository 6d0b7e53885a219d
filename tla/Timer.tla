------------------------------- MODULE Timer --------------------------------
(***************************************************************************)
(* timer/index.q: the jobs of .z.ts, which q calls every 100 ms.  q is     *)
(* single threaded: .z.ts calls the callbacks of the due jobs one after    *)
(* the other, and whatever they do to the list of jobs happens while it is *)
(* under way.  This module has the list and the steps of .z.ts; what the   *)
(* callbacks do is said by the module that extends it.                     *)
(*                                                                         *)
(* The list is in the order of the identifiers, since nt appends and never *)
(* uses one again, so it is a set of rows here.                            *)
(*                                                                         *)
(* Time is counted in ticks.  The fourth column of a job is only compared  *)
(* with 0, so it stops at 0 here.                                          *)
(***************************************************************************)
EXTENDS Integers

VARIABLES
  t,       (* the jobs: identifier, callback, interval, rest, once or not  *)
  i,       (* the next identifier                                          *)
  ticking, (* whether .z.ts is under way                                   *)
  due,     (* the jobs whose callbacks it has still to call                *)
  ran,     (* history: identifiers of the jobs called                      *)
  reran,   (* history: identifiers of once jobs called more than once      *)
  rmd,     (* history: identifiers of the jobs removed by rm               *)
  failed   (* history: whether a callback failed                           *)

jobs == <<t, i>>
tick == <<ticking, due>>
calls == <<ran, reran, failed>>
timerVars == <<jobs, tick, calls, rmd>>

Rows(Fns) ==
  [id : Nat, fn : Fns, int : Nat, rest : Nat, once : BOOLEAN]

Ids(rows) == {row.id : row \in rows}
Unique(rows) == \A a, b \in rows : a.id = b.id => a = b

(* No two jobs have the same identifier, and none gets an old one.         *)
TimerTypeOK(Fns) ==
  /\ t \subseteq Rows(Fns) /\ due \subseteq Rows(Fns)
  /\ i \in Nat
  /\ ticking \in BOOLEAN
  /\ Unique(t) /\ Unique(due)
  /\ Ids(t) \cup Ids(due) \cup ran \cup rmd \subseteq 0 .. i - 1
  /\ reran \subseteq ran
  /\ failed \in BOOLEAN
  /\ due # {} => ticking

TimerInit ==
  /\ t = {} /\ i = 0
  /\ ticking = FALSE /\ due = {}
  /\ ran = {} /\ reran = {} /\ rmd = {} /\ failed = FALSE

-----------------------------------------------------------------------------
(* nt, for add and once.                                                   *)
Nt(once, fn, int) ==
  /\ t' = t \cup {[id |-> i, fn |-> fn, int |-> int, rest |-> int,
                    once |-> once]}
  /\ i' = i + 1

Rm(id) ==
  /\ t' = {row \in t : row.id # id}
  /\ rmd' = rmd \cup {id}

-----------------------------------------------------------------------------
Down(row) == [row EXCEPT !.rest = IF @ > 0 THEN @ - 1 ELSE 0]

IsDue(row) == row.rest = 0

(* The start of .z.ts: 100 ms less for each job.  The jobs that are due    *)
(* are taken from a copy of the list.                                      *)
StartTick ==
  /\ ~ticking
  /\ t # {}
  /\ t' = {Down(row) : row \in t}
  /\ due' = {row \in t' : IsDue(row)}
  /\ ticking' = (due' # {})
  /\ UNCHANGED <<i, calls, rmd>>

Calling == ticking /\ due # {}

(* The job whose callback is running: they are called in the list's order. *)
Called == CHOOSE row \in due : \A other \in due : row.id <= other.id

Ran(row) ==
  /\ ran' = ran \cup {row.id}
  /\ reran' = IF row.once /\ row.id \in ran THEN reran \cup {row.id} ELSE reran

(* A callback returns and the next one is called.                          *)
Returned ==
  /\ Calling
  /\ Ran(Called)
  /\ due' = due \ {Called}
  /\ UNCHANGED <<ticking, failed>>

(* A callback fails, and .z.ts with it: the other callbacks are not called *)
(* and nothing is reset, so every job that was due is due at the next tick *)
Threw ==
  /\ Calling
  /\ Ran(Called)
  /\ failed' = TRUE
  /\ due' = {}
  /\ ticking' = FALSE
  /\ UNCHANGED <<jobs, rmd>>

Reset(row) == IF IsDue(row) THEN [row EXCEPT !.rest = row.int] ELSE row

Over_AfterReset(row) == FALSE
Over_WhenOnce(row) == row.once
(* A job that .z.ts drops when the callbacks have returned.                *)
Over(row) == IsDue(row) /\ row.once

(* The end of .z.ts, on the list as the callbacks left it.                 *)
EndTick ==
  /\ ticking
  /\ due = {}
  /\ t' = {Reset(row) : row \in {kept \in t : ~Over(kept)}}
  /\ ticking' = FALSE
  /\ UNCHANGED <<i, due, calls, rmd>>

-----------------------------------------------------------------------------
(* A once job is called once, unless a callback failed ("add a job once",  *)
(* timer/README.md).                                                       *)
OnceRunsOnce == ~failed => reran = {}

(* Between ticks no job is overdue, unless a callback failed.              *)
NoneOverdue ==
  ~ticking /\ ~failed => \A row \in t : row.rest > 0 \/ row.int = 0

(* .z.ts calls each job when it is due and a once job never again, though  *)
(* the callbacks it calls add and remove jobs.                             *)
CalledOnTime == OnceRunsOnce /\ NoneOverdue
=============================================================================
