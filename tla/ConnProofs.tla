----------------------------- MODULE ConnProofs -----------------------------
(***************************************************************************)
(* Proofs about Conn.tla and the part of it that is Timer.tla, for any     *)
(* number of handles, jobs, connections and failing callbacks: jobs are    *)
(* called when they are due, and there is one link for each call of o.     *)
(***************************************************************************)
EXTENDS Conn, WellFoundedInduction, FiniteSetTheorems, TLAPS

USE ConnAssumption

(* What is due is the part of the list whose time has come, as far as the  *)
(* callbacks have left it there.                                           *)
Matching ==
  /\ \A d \in due : d.rest = 0
  /\ \A d \in due, row \in t : d.id = row.id => d = row

(* While no callback fails, a once job that was called is not due again    *)
(* and leaves the list at the end of the tick.                             *)
OnceEach ==
  ~failed =>
    /\ reran = {}
    /\ \A d \in due : d.once => d.id \notin ran
    /\ \A row \in t : row.once /\ row.id \in ran => ticking /\ row.rest = 0

(* The inductive invariant of the timer.                                   *)
TimerInv == TimerTypeOK(Fns) /\ Matching /\ OnceEach /\ NoneOverdue

-----------------------------------------------------------------------------
(* A set of jobs has one that is called first.                             *)
LEMMA CalledIsDue ==
  ASSUME TimerTypeOK(Fns), Calling
  PROVE  Called \in due
<1> DEFINE I == Ids(due)
<1>1. I \subseteq Nat /\ I # {}
      BY DEF TimerTypeOK, Calling, Ids, Rows
<1>2. PICK n \in I : \A m \in I : ~(<<m, n>> \in OpToRel(<, Nat))
      BY <1>1, NatLessThanWellFounded, WFMin
<1>3. \A m \in I : n <= m
  <2>1. SUFFICES ASSUME NEW m \in I, ~(n <= m)
                 PROVE  FALSE
        OBVIOUS
  <2>2. m \in Nat /\ n \in Nat /\ m < n
        BY <1>1, <2>1
  <2>3. <<m, n>> \in {ss \in Nat \X Nat : ss[1] < ss[2]}
        BY <2>2
  <2>4. <<m, n>> \in OpToRel(<, Nat)
        BY <2>3 DEF OpToRel
  <2> QED
      BY <1>2, <2>4
<1>4. PICK row \in due : row.id = n
      BY DEF Ids
<1>5. \A other \in due : other.id \in I
      BY DEF Ids
<1>6. \E first \in due : \A other \in due : first.id <= other.id
      BY <1>3, <1>4, <1>5
<1> QED
    BY <1>6 DEF Called

(* What a tick does to a row.                                              *)
LEMMA DownRow ==
  ASSUME NEW row \in Rows(Fns)
  PROVE  /\ Down(row) \in Rows(Fns)
         /\ Down(row).id = row.id /\ Down(row).fn = row.fn
         /\ Down(row).int = row.int /\ Down(row).once = row.once
         /\ row.rest = 0 => Down(row).rest = 0
BY DEF Rows, Down

(* A row that was called waits again, unless its interval is 0.            *)
LEMMA ResetRow ==
  ASSUME NEW row \in Rows(Fns)
  PROVE  /\ Reset(row) \in Rows(Fns)
         /\ Reset(row).id = row.id /\ Reset(row).fn = row.fn
         /\ Reset(row).int = row.int /\ Reset(row).once = row.once
         /\ Reset(row).rest > 0 \/ row.int = 0
         /\ row.rest > 0 => Reset(row) = row
BY DEF Rows, Reset, IsDue

-----------------------------------------------------------------------------
(* What nt does to the list, or a step that leaves the list alone: the     *)
(* rows stay, and one with a new identifier may be there that is not due.  *)
Grown ==
  /\ t \subseteq t'
  /\ i' \in Nat /\ i <= i'
  /\ \A row \in t' \ t :
       /\ row \in Rows(Fns)
       /\ i <= row.id /\ row.id < i'
       /\ row.rest > 0 \/ row.int = 0
  /\ \A a, b \in t' \ t : a = b

(* nt does so,                                                             *)
LEMMA NtGrows ==
  ASSUME TimerTypeOK(Fns), NEW once \in BOOLEAN, NEW fn \in Fns, NEW int \in Nat,
         Nt(once, fn, int)
  PROVE  Grown
<1> DEFINE new == [id |-> i, fn |-> fn, int |-> int, rest |-> int, once |-> once]
<1>1. i \in Nat /\ i' = i + 1 /\ t' = t \cup {new}
      BY DEF TimerTypeOK, Nt
<1>2. new \in Rows(Fns) /\ new.id = i /\ (new.rest > 0 \/ new.int = 0)
      BY <1>1 DEF Rows
<1> HIDE DEF new
<1> QED
    BY <1>1, <1>2 DEF Grown

(* and so does a step that leaves the list alone.                          *)
LEMMA SameGrows ==
  ASSUME TimerTypeOK(Fns), UNCHANGED jobs
  PROVE  Grown
BY DEF TimerTypeOK, Grown, jobs

(* The identifiers of a list that has grown.                               *)
LEMMA GrownRows ==
  ASSUME TimerTypeOK(Fns), Grown
  PROVE  /\ t' \subseteq Rows(Fns)
         /\ Unique(t)'
         /\ \A row \in t' : row.id \in 0 .. i' - 1
         /\ \A row \in t' : row.id \in 0 .. i - 1 => row \in t
         /\ 0 .. i - 1 \subseteq 0 .. i' - 1
<1>1. /\ t \subseteq Rows(Fns) /\ Unique(t) /\ i \in Nat
      /\ \A row \in t : row.id \in 0 .. i - 1
      BY DEF TimerTypeOK, Ids
<1>2. /\ i' \in Nat /\ i <= i'
      /\ \A row \in t' \ t : row \in Rows(Fns) /\ i <= row.id /\ row.id < i'
      /\ \A a, b \in t' \ t : a = b
      BY DEF Grown
<1>3. \A row \in t' \ t : row.id \in Nat
      BY <1>2 DEF Rows
<1>4. 0 .. i - 1 \subseteq 0 .. i' - 1
  <2>1. i \in Nat /\ i' \in Nat /\ i <= i'
        BY <1>1, <1>2
  <2>2. ASSUME NEW m \in Nat, NEW n \in Nat, m <= n
        PROVE  0 .. m - 1 \subseteq 0 .. n - 1
        BY <2>2
  <2> QED
      BY <2>1, <2>2
<1>5. \A row \in t' \ t : row.id \in 0 .. i' - 1 /\ row.id \notin 0 .. i - 1
      BY <1>1, <1>2, <1>3
<1>6. Unique(t')
      BY <1>1, <1>2, <1>5 DEF Unique
<1> QED
    BY <1>1, <1>2, <1>4, <1>5, <1>6 DEF Unique

(* The invariant of the timer, when the list grows between two callbacks.  *)
LEMMA GrownKeeps ==
  ASSUME TimerInv, Grown, UNCHANGED <<tick, calls, rmd>>
  PROVE  TimerInv'
<1>1. /\ ticking' = ticking /\ due' = due /\ ran' = ran /\ reran' = reran
      /\ failed' = failed /\ rmd' = rmd
      BY DEF tick, calls
<1>2. TimerTypeOK(Fns) /\ Matching /\ OnceEach /\ NoneOverdue
      BY DEF TimerInv
<1>3. /\ t' \subseteq Rows(Fns) /\ Unique(t)'
      /\ \A row \in t' : row.id \in 0 .. i' - 1
      /\ \A row \in t' : row.id \in 0 .. i - 1 => row \in t
      /\ 0 .. i - 1 \subseteq 0 .. i' - 1
      BY <1>2, GrownRows
<1>4. \A d \in due : d.id \in 0 .. i - 1
      BY <1>2 DEF TimerTypeOK, Ids
<1>5. TimerTypeOK(Fns)'
      BY <1>1, <1>2, <1>3 DEF TimerTypeOK, Grown, Ids, Unique
<1>6. Matching'
      BY <1>1, <1>2, <1>3, <1>4 DEF Matching
<1>7. OnceEach'
      BY <1>1, <1>2, <1>3 DEF OnceEach, TimerTypeOK
<1>8. NoneOverdue'
      BY <1>1, <1>2 DEF NoneOverdue, Grown
<1> QED
    BY <1>5, <1>6, <1>7, <1>8 DEF TimerInv

(* The same when a callback returns.                                       *)
LEMMA ReturnedKeeps ==
  ASSUME TimerInv, Grown, Returned, UNCHANGED rmd
  PROVE  TimerInv'
<1> DEFINE c == Called
<1>1. /\ ticking /\ ticking' = ticking /\ due' = due \ {c}
      /\ ran' = ran \cup {c.id}
      /\ reran' = IF c.once /\ c.id \in ran THEN reran \cup {c.id} ELSE reran
      /\ failed' = failed /\ rmd' = rmd
      BY DEF Returned, Ran, Calling
<1>2. TimerTypeOK(Fns) /\ Matching /\ OnceEach /\ NoneOverdue
      BY DEF TimerInv
<1>3. c \in due
      BY <1>2, CalledIsDue DEF Returned
<1> HIDE DEF c
<1>4. /\ t' \subseteq Rows(Fns) /\ Unique(t)'
      /\ \A row \in t' : row.id \in 0 .. i' - 1
      /\ \A row \in t' : row.id \in 0 .. i - 1 => row \in t
      /\ 0 .. i - 1 \subseteq 0 .. i' - 1
      BY <1>2, GrownRows
<1>5. \A d \in due : d.id \in 0 .. i - 1
      BY <1>2 DEF TimerTypeOK, Ids
<1>6. TimerTypeOK(Fns)'
  <2>1. Unique(due)'
        BY <1>1, <1>2 DEF TimerTypeOK, Unique
  <2>2. ran' \subseteq 0 .. i - 1 /\ rmd' \subseteq 0 .. i - 1 /\ reran' \subseteq ran'
        BY <1>1, <1>2, <1>3, <1>5 DEF TimerTypeOK
  <2>3. Ids(t)' \subseteq 0 .. i' - 1 /\ Ids(due)' \subseteq 0 .. i' - 1
        BY <1>1, <1>4, <1>5 DEF Ids
  <2>4. /\ due' \subseteq Rows(Fns) /\ ticking' \in BOOLEAN /\ failed' \in BOOLEAN
        /\ i' \in Nat /\ ticking'
        BY <1>1, <1>2 DEF TimerTypeOK, Grown
  <2> QED
      BY <1>4, <2>1, <2>2, <2>3, <2>4 DEF TimerTypeOK
<1>7. Matching'
      BY <1>1, <1>2, <1>4, <1>5 DEF Matching
<1>8. OnceEach'
  <2>1. SUFFICES ASSUME ~failed
                 PROVE  /\ reran' = {}
                        /\ \A d \in due' : d.once => d.id \notin ran'
                        /\ \A row \in t' : row.once /\ row.id \in ran'
                                             => ticking' /\ row.rest = 0
        BY <1>1 DEF OnceEach
  <2>2. reran' = {}
        BY <1>1, <1>2, <1>3, <2>1 DEF OnceEach
  <2>3. \A d \in due' : d.once => d.id \notin ran'
        BY <1>1, <1>2, <1>3, <2>1 DEF OnceEach, TimerTypeOK, Unique
  <2>4. ASSUME NEW row \in t', row.once, row.id \in ran'
        PROVE  row.rest = 0
    <3>1. row \in t
          BY <1>1, <1>2, <1>3, <1>4, <1>5, <2>4 DEF TimerTypeOK
    <3>2. CASE row.id \in ran
          BY <1>2, <2>1, <2>4, <3>1, <3>2 DEF OnceEach
    <3>3. CASE row.id = c.id
          BY <1>2, <1>3, <3>1, <3>3 DEF Matching
    <3> QED
        BY <1>1, <2>4, <3>2, <3>3
  <2> QED
      BY <1>1, <2>2, <2>3, <2>4
<1>9. NoneOverdue'
      BY <1>1 DEF NoneOverdue
<1> QED
    BY <1>6, <1>7, <1>8, <1>9 DEF TimerInv

(* A callback that fails leaves nothing that the invariant promises.       *)
LEMMA ThrewKeeps ==
  ASSUME TimerInv, Threw
  PROVE  TimerInv'
<1>1. /\ ticking' = FALSE /\ due' = {} /\ failed' = TRUE
      /\ ran' = ran \cup {Called.id}
      /\ reran' = IF Called.once /\ Called.id \in ran
                  THEN reran \cup {Called.id} ELSE reran
      /\ t' = t /\ i' = i /\ rmd' = rmd
      BY DEF Threw, Ran, jobs
<1>2. TimerTypeOK(Fns) /\ Matching
      BY DEF TimerInv
<1>3. Called \in due
      BY <1>2, CalledIsDue DEF Threw
<1>4. Called.id \in 0 .. i - 1
      BY <1>2, <1>3 DEF TimerTypeOK, Ids
<1>5. ran' \subseteq 0 .. i' - 1 /\ reran' \subseteq ran'
      BY <1>1, <1>2, <1>4 DEF TimerTypeOK
<1>6. failed' \in BOOLEAN /\ failed'
      BY <1>1, <1>2 DEF TimerTypeOK
<1>7. TimerTypeOK(Fns)'
      BY <1>1, <1>2, <1>5, <1>6 DEF TimerTypeOK, Ids, Unique
<1> QED
    BY <1>1, <1>6, <1>7 DEF TimerInv, Matching, OnceEach, NoneOverdue

(* Removing a job keeps the invariant of the timer,                        *)
LEMMA RmKeeps ==
  ASSUME TimerInv, NEW id \in 0 .. i - 1, Rm(id), UNCHANGED <<i, tick, calls>>
  PROVE  TimerInv'
<1>1. /\ t' \subseteq t /\ rmd' = rmd \cup {id} /\ i' = i
      /\ ticking' = ticking /\ due' = due
      /\ ran' = ran /\ reran' = reran /\ failed' = failed
      BY DEF Rm, tick, calls
<1>2. TimerTypeOK(Fns) /\ Matching /\ OnceEach /\ NoneOverdue
      BY DEF TimerInv
<1>3. TimerTypeOK(Fns)'
      BY <1>1, <1>2 DEF TimerTypeOK, Ids, Unique
<1> QED
    BY <1>1, <1>2, <1>3 DEF TimerInv, Matching, OnceEach, NoneOverdue

(* The list after the first and after the last step of .z.ts has the jobs  *)
(* it had, or fewer.                                                       *)
LEMMA RowsOfTick ==
  ASSUME TimerTypeOK(Fns), NEW kept, kept \subseteq t,
         NEW step \in [t -> Rows(Fns)],
         \A row \in t : step[row].id = row.id,
         t' = {step[row] : row \in kept}
  PROVE  t' \subseteq Rows(Fns) /\ Unique(t)' /\ Ids(t)' \subseteq 0 .. i - 1
<1>1. t' \subseteq Rows(Fns)
      OBVIOUS
<1>2. \A a, b \in kept : a.id = b.id => a = b
      BY DEF TimerTypeOK, Unique
<1>3. Unique(t)'
      BY <1>2 DEF Unique
<1>4. Ids(t)' \subseteq 0 .. i - 1
      BY DEF TimerTypeOK, Ids
<1> QED
    BY <1>1, <1>3, <1>4

(* so does the start of a tick,                                            *)
LEMMA StartTickKeeps ==
  ASSUME TimerInv, StartTick
  PROVE  TimerInv'
<1>1. /\ ~ticking /\ t' = {Down(row) : row \in t}
      /\ due' = {row \in t' : IsDue(row)} /\ ticking' = (due' # {})
      /\ i' = i /\ ran' = ran /\ reran' = reran /\ failed' = failed /\ rmd' = rmd
      BY DEF StartTick, calls
<1>2. TimerTypeOK(Fns) /\ Matching /\ OnceEach /\ NoneOverdue
      BY DEF TimerInv
<1>3. \A row \in t : Down(row) \in Rows(Fns) /\ Down(row).id = row.id
                       /\ Down(row).once = row.once
      BY <1>2, DownRow DEF TimerTypeOK
<1>4. t' \subseteq Rows(Fns) /\ Unique(t)' /\ Ids(t)' \subseteq 0 .. i - 1
  <2> DEFINE step == [row \in t |-> Down(row)]
  <2>1. step \in [t -> Rows(Fns)] /\ \A row \in t : step[row].id = row.id
        BY <1>3
  <2>2. t' = {step[row] : row \in t}
        BY <1>1
  <2> HIDE DEF step
  <2> QED
      BY <1>2, <2>1, <2>2, RowsOfTick
<1>5. due' \subseteq t' /\ \A d \in due' : d.rest = 0
      BY <1>1 DEF IsDue
<1>6. TimerTypeOK(Fns)'
  <2>1. Unique(due)' /\ Ids(due)' \subseteq Ids(t)' /\ due' \subseteq Rows(Fns)
        BY <1>4, <1>5 DEF Unique, Ids
  <2>2. ticking' \in BOOLEAN /\ (due' # {} => ticking')
        BY <1>1
  <2> QED
      BY <1>1, <1>2, <1>4, <2>1, <2>2 DEF TimerTypeOK
<1>7. Matching'
      BY <1>4, <1>5 DEF Matching, Unique
<1>8. OnceEach'
  <2>1. SUFFICES ASSUME ~failed
                 PROVE  reran = {} /\ \A row \in t' : row.once => row.id \notin ran
        BY <1>1, <1>5 DEF OnceEach
  <2>2. reran = {} /\ \A row \in t : row.once => row.id \notin ran
        BY <1>1, <1>2, <2>1 DEF OnceEach
  <2> QED
      BY <1>1, <1>3, <2>2
<1>9. NoneOverdue'
  <2>1. SUFFICES ASSUME ~ticking', NEW row \in t'
                 PROVE  row.rest > 0
        BY DEF NoneOverdue
  <2>2. row.rest # 0 /\ row.rest \in Nat
        BY <1>1, <1>4, <2>1 DEF IsDue, Rows
  <2> QED
      BY <2>2
<1> QED
    BY <1>6, <1>7, <1>8, <1>9 DEF TimerInv

(* and its end.                                                            *)
LEMMA EndTickKeeps ==
  ASSUME TimerInv, EndTick
  PROVE  TimerInv'
<1> DEFINE kept == {row \in t : ~Over(row)}
<1>1. /\ t' = {Reset(row) : row \in kept} /\ kept \subseteq t
      /\ \A row \in kept : ~(row.rest = 0 /\ row.once)
      /\ due = {} /\ due' = {} /\ ticking' = FALSE
      /\ i' = i /\ ran' = ran /\ reran' = reran /\ failed' = failed /\ rmd' = rmd
      BY DEF EndTick, calls, Over, IsDue
<1> HIDE DEF kept
<1>2. TimerTypeOK(Fns) /\ Matching /\ OnceEach /\ NoneOverdue
      BY DEF TimerInv
<1>3. \A row \in t : /\ Reset(row) \in Rows(Fns) /\ Reset(row).id = row.id
                     /\ Reset(row).once = row.once /\ Reset(row).int = row.int
                     /\ Reset(row).rest > 0 \/ row.int = 0
      BY <1>2, ResetRow DEF TimerTypeOK
<1>4. t' \subseteq Rows(Fns) /\ Unique(t)' /\ Ids(t)' \subseteq 0 .. i - 1
  <2> DEFINE step == [row \in t |-> Reset(row)]
  <2>1. step \in [t -> Rows(Fns)] /\ \A row \in t : step[row].id = row.id
        BY <1>3
  <2>2. t' = {step[row] : row \in kept}
        BY <1>1
  <2> HIDE DEF step
  <2> QED
      BY <1>1, <1>2, <2>1, <2>2, RowsOfTick
<1>5. TimerTypeOK(Fns)'
      BY <1>1, <1>2, <1>4 DEF TimerTypeOK, Unique, Ids
<1>6. OnceEach'
  <2>1. SUFFICES ASSUME ~failed
                 PROVE  reran = {} /\ \A row \in t' : row.once => row.id \notin ran
        BY <1>1 DEF OnceEach
  <2>2. reran = {} /\ \A row \in kept : row.once => row.id \notin ran
        BY <1>1, <1>2, <2>1 DEF OnceEach
  <2> QED
      BY <1>1, <1>3, <2>2
<1>7. NoneOverdue'
      BY <1>1, <1>3 DEF NoneOverdue
<1>8. Matching'
      BY <1>1 DEF Matching
<1> QED
    BY <1>5, <1>6, <1>7, <1>8 DEF TimerInv

-----------------------------------------------------------------------------
(* A callback of the timer that reconnects removes no job.                 *)
RetriesKept == \A d \in due : d.fn.kind = "retry" => d \in t

(* The jobs that reconnect: once jobs that go back to a call of o, and     *)
(* whose delay can be doubled.                                             *)
RetryJobs ==
  \A row \in t :
    row.fn.kind = "retry" =>
      row.once /\ row.int > 0 /\ row.fn.delay > 0 /\ row.fn.from \in Origins

(* A handle with the flag is one that o gave, and a closed one is no one's *)
Flags ==
  \A h \in Handles :
    /\ auto[h] => from[h] \in Origins
    /\ stage[h] = "closed" => from[h] = 0 /\ ~auto[h]

AtMostOne(o) ==
  /\ \A g, h \in OpenFor(o) : g = h
  /\ \A a, b \in RetriesFor(o) : a = b
  /\ OpenFor(o) = {} \/ RetriesFor(o) = {}

Gone(o) == OpenFor(o) = {} /\ RetriesFor(o) = {}

(* OneLink without cardinalities.                                          *)
Links ==
  ~failed => (\A o \in Origins : AtMostOne(o)) /\ (\A o \in shut : Gone(o))

Inv ==
  ConnTypeOK /\ TimerInv /\ RetriesKept /\ RetryJobs /\ Flags /\ Links

(* It holds at the start.                                                  *)
LEMMA InitInv ==
  ASSUME Init
  PROVE  Inv
<1>1. TimerTypeOK(Fns)
      BY DEF Init, TimerInit, TimerTypeOK, Ids, Unique
<1>2. TimerInv
      BY <1>1 DEF Init, TimerInit, TimerInv, Matching, OnceEach, NoneOverdue
<1>3. ConnTypeOK
      BY <1>1 DEF Init, ConnTypeOK, Stages, Origins
<1>4. RetriesKept /\ RetryJobs /\ Flags
      BY DEF Init, TimerInit, RetriesKept, RetryJobs, Flags
<1>5. Links
      BY DEF Init, Links, Origins
<1> QED
    BY <1>2, <1>3, <1>4, <1>5 DEF Inv

-----------------------------------------------------------------------------
(* What a step does to the links of one call of o.                         *)
LEMMA SameOpen ==
  ASSUME NEW o, UNCHANGED handles
  PROVE  OpenFor(o)' = OpenFor(o)
BY DEF handles, OpenFor

(* The retries for an open are unchanged when the timer is.                *)
LEMMA SameRetries ==
  ASSUME NEW o, UNCHANGED timerVars
  PROVE  RetriesFor(o)' = RetriesFor(o)
BY DEF timerVars, jobs, tick, RetriesFor, Ids

(* A list that grows by no retry for o, within a tick or between two.      *)
LEMMA FewerRetries ==
  ASSUME NEW o, ticking' = ticking, due' \subseteq due,
         \A row \in t' \ t : ~(row.fn.kind = "retry" /\ row.fn.from = o)
  PROVE  RetriesFor(o)' \subseteq RetriesFor(o)
BY DEF RetriesFor, Ids

(* The one link of a call of o.                                            *)
LEMMA OneOpen ==
  ASSUME NEW o, AtMostOne(o), NEW h \in OpenFor(o)
  PROVE  OpenFor(o) = {h} /\ RetriesFor(o) = {}
<1>1. \A g \in OpenFor(o) : g = h
      BY DEF AtMostOne
<1>2. RetriesFor(o) = {}
      BY DEF AtMostOne
<1> QED
    BY <1>1, <1>2

(* With a retry, an open has neither a connection nor another retry.       *)
LEMMA OneRetry ==
  ASSUME NEW o, AtMostOne(o), NEW r \in RetriesFor(o)
  PROVE  OpenFor(o) = {} /\ RetriesFor(o) = {r}
<1>1. \A row \in RetriesFor(o) : row = r
      BY DEF AtMostOne
<1>2. OpenFor(o) = {}
      BY DEF AtMostOne
<1> QED
    BY <1>1, <1>2

(* Losing links is no harm.                                                *)
LEMMA LinksShrink ==
  ASSUME Links, shut \subseteq Origins,
         failed' = failed, opens' = opens, shut' = shut,
         \A o \in Origins : /\ OpenFor(o)' \subseteq OpenFor(o)
                            /\ RetriesFor(o)' \subseteq RetriesFor(o)
  PROVE  Links'
<1>1. SUFFICES ASSUME ~failed
               PROVE  (\A o \in Origins : AtMostOne(o)') /\ (\A o \in shut : Gone(o)')
      BY DEF Links, Origins
<1>2. ASSUME NEW o \in Origins
      PROVE  AtMostOne(o)'
  <2>1. AtMostOne(o)
        BY <1>1 DEF Links
  <2>2. OpenFor(o)' \subseteq OpenFor(o) /\ RetriesFor(o)' \subseteq RetriesFor(o)
        OBVIOUS
  <2> QED
      BY <2>1, <2>2 DEF AtMostOne
<1>3. ASSUME NEW o \in shut
      PROVE  Gone(o)'
      BY <1>1 DEF Links, Gone
<1> QED
    BY <1>2, <1>3

(* One link is replaced by another: the call k of o has at most the        *)
(* connection h, or at most the retry r, and the others lose links.        *)
LEMMA LinksMove ==
  ASSUME Links, shut \subseteq Origins,
         failed' = failed, opens' = opens, shut' = shut,
         NEW k \in Origins, ~failed => ~Gone(k),
         NEW h, NEW r,
         ~failed =>
           \/ OpenFor(k)' = {} /\ RetriesFor(k)' \subseteq {r}
           \/ RetriesFor(k)' = {} /\ OpenFor(k)' \subseteq {h},
         \A o \in Origins \ {k} : /\ OpenFor(o)' \subseteq OpenFor(o)
                                  /\ RetriesFor(o)' \subseteq RetriesFor(o)
  PROVE  Links'
<1>1. SUFFICES ASSUME ~failed
               PROVE  (\A o \in Origins : AtMostOne(o)') /\ (\A o \in shut : Gone(o)')
      BY DEF Links, Origins
<1>2. AtMostOne(k)'
      BY <1>1 DEF AtMostOne
<1>3. ASSUME NEW o \in Origins \ {k}
      PROVE  AtMostOne(o)'
  <2>1. AtMostOne(o)
        BY <1>1 DEF Links
  <2>2. OpenFor(o)' \subseteq OpenFor(o) /\ RetriesFor(o)' \subseteq RetriesFor(o)
        OBVIOUS
  <2> QED
      BY <2>1, <2>2 DEF AtMostOne
<1>4. k \notin shut
      BY <1>1 DEF Links
<1>5. ASSUME NEW o \in shut
      PROVE  Gone(o)'
      BY <1>1, <1>4 DEF Links, Gone
<1> QED
    BY <1>2, <1>3, <1>5

-----------------------------------------------------------------------------
(* Steps that leave the timer alone keep its invariant and the retries.    *)
LEMMA TimerAlone ==
  ASSUME Inv, UNCHANGED timerVars
  PROVE  TimerInv' /\ TimerTypeOK(Fns)' /\ RetriesKept'
<1>1. /\ t' = t /\ i' = i /\ ticking' = ticking /\ due' = due /\ ran' = ran
      /\ reran' = reran /\ rmd' = rmd /\ failed' = failed
      BY DEF timerVars, jobs, tick, calls
<1>2. TimerTypeOK(Fns) /\ Matching /\ OnceEach /\ NoneOverdue /\ RetriesKept
      BY DEF Inv, TimerInv
<1>3. TimerTypeOK(Fns)'
      BY <1>1, <1>2 DEF TimerTypeOK, Ids, Unique
<1> QED
    BY <1>1, <1>2, <1>3
    DEF TimerInv, Matching, OnceEach, NoneOverdue, RetriesKept

(* A new call of o, with no link so far, gets a connection.                *)
LEMMA OpenKeeps ==
  ASSUME Inv, NEW h \in Handles, NEW ar \in BOOLEAN, Open(h, ar)
  PROVE  Inv'
<1>1. /\ stage' = [stage EXCEPT ![h] = "open"]
      /\ auto' = [auto EXCEPT ![h] = ar]
      /\ from' = [from EXCEPT ![h] = opens + 1]
      /\ stage[h] = "closed" /\ opens < MaxOpens /\ opens' = opens + 1
      /\ UNCHANGED <<timerVars, up, added, drops, shut, gaveUp>>
      BY DEF Open, O, Lowest
<1>2. /\ ConnTypeOK /\ RetryJobs /\ Flags /\ Links
      BY DEF Inv
<1>3. /\ stage \in [Handles -> Stages] /\ auto \in [Handles -> BOOLEAN]
      /\ from \in [Handles -> 0 .. opens] /\ opens \in Nat
      BY <1>2 DEF ConnTypeOK
<1>4. TimerInv' /\ TimerTypeOK(Fns)' /\ RetriesKept'
      BY <1>1, TimerAlone
<1>5. \A g \in Handles : /\ stage'[g] = IF g = h THEN "open" ELSE stage[g]
                         /\ auto'[g] = IF g = h THEN ar ELSE auto[g]
                         /\ from'[g] = IF g = h THEN opens + 1 ELSE from[g]
      BY <1>1, <1>3
<1>6. ConnTypeOK'
  <2>1. stage' \in [Handles -> Stages]
        BY <1>1, <1>3 DEF Stages
  <2>2. auto' \in [Handles -> BOOLEAN]
        BY <1>1, <1>3
  <2>3. from' \in [Handles -> 0 .. opens']
    <3>1. \A g \in Handles : from'[g] \in 0 .. opens'
          BY <1>1, <1>3, <1>5
    <3>2. from' = [g \in Handles |-> from'[g]]
          BY <1>1, <1>3
    <3> QED
        BY <3>1, <3>2
  <2>4. opens' \in 0 .. MaxOpens
        BY <1>1, <1>3
  <2>5. (shut \cup gaveUp)' \subseteq Origins'
        BY <1>1, <1>2 DEF ConnTypeOK, Origins
  <2> QED
      BY <1>1, <1>2, <1>4, <2>1, <2>2, <2>3, <2>4, <2>5 DEF ConnTypeOK
<1>7. RetryJobs'
      BY <1>1, <1>2, <1>3 DEF RetryJobs, Origins, timerVars, jobs
<1>8. Flags'
  <2>1. Origins \subseteq Origins' /\ opens + 1 \in Origins'
        BY <1>1, <1>3 DEF Origins
  <2> QED
      BY <1>2, <1>5, <2>1 DEF Flags
<1>9. Links'
  <2>1. SUFFICES ASSUME ~failed
                 PROVE  (\A o \in Origins' : AtMostOne(o)') /\ (\A o \in shut : Gone(o)')
        BY <1>1 DEF Links, timerVars, calls
  <2> PICK n : n = opens + 1
      OBVIOUS
  <2>2. OpenFor(n)' \subseteq {h}
    <3>1. \A g \in Handles : from[g] # n
          BY <1>3
    <3> QED
        BY <1>5, <3>1 DEF OpenFor
  <2>3. RetriesFor(n) = {}
    <3>1. n \notin Origins
          BY <1>3 DEF Origins
    <3> QED
        BY <1>2, <3>1 DEF RetriesFor, RetryJobs
  <2>4. ASSUME NEW o \in Origins
        PROVE  OpenFor(o)' = OpenFor(o) /\ RetriesFor(o)' = RetriesFor(o)
    <3>1. o # n /\ o # 0
          BY <1>3 DEF Origins
    <3>2. from[h] = 0
          BY <1>1, <1>2 DEF Flags
    <3> QED
        BY <1>1, <1>5, <3>1, <3>2, SameRetries DEF OpenFor
  <2>5. RetriesFor(n)' = {}
        BY <1>1, <2>3, SameRetries
  <2>6. AtMostOne(n)'
        BY <2>2, <2>5 DEF AtMostOne
  <2>7. \A o \in Origins : AtMostOne(o)'
        BY <1>2, <2>1, <2>4 DEF Links, AtMostOne
  <2>8. \A o \in Origins' : o \in Origins \/ o = n
        BY <1>1, <1>3 DEF Origins
  <2>9. \A o \in shut : Gone(o)'
        BY <1>2, <2>1, <2>4 DEF Links, Gone, ConnTypeOK
  <2> QED
      BY <2>6, <2>7, <2>8, <2>9
<1> QED
    BY <1>4, <1>6, <1>7, <1>8, <1>9 DEF Inv

(* A handle moves from one stage to another, open in both or no one's.     *)
LEMMA StageKeeps ==
  ASSUME Inv, NEW h \in Handles, NEW s \in Stages \ {"closed"},
         stage' = [stage EXCEPT ![h] = s],
         UNCHANGED <<timerVars, up, auto, from, bounds, shut, gaveUp>>
  PROVE  Inv'
<1>1. ConnTypeOK /\ RetryJobs /\ Flags /\ Links
      BY DEF Inv
<1>2. TimerInv' /\ TimerTypeOK(Fns)' /\ RetriesKept'
      BY TimerAlone
<1>3. \A g \in Handles : stage'[g] = IF g = h THEN s ELSE stage[g]
      BY <1>1 DEF ConnTypeOK
<1>4. stage' \in [Handles -> Stages]
      BY <1>1 DEF ConnTypeOK
<1>5. ConnTypeOK'
      BY <1>1, <1>2, <1>4 DEF ConnTypeOK, bounds, Origins
<1>6. RetryJobs'
      BY <1>1 DEF RetryJobs, Origins, timerVars, jobs, bounds
<1>7. Flags'
      BY <1>1, <1>3 DEF Flags, Origins, bounds
<1>8. ASSUME NEW o \in Origins
      PROVE  OpenFor(o)' = OpenFor(o) /\ RetriesFor(o)' = RetriesFor(o)
  <2>1. o # 0
        BY DEF Origins
  <2>2. stage[h] = "closed" => from[h] # o
        BY <1>1, <2>1 DEF Flags
  <2> QED
      BY <1>3, <2>2, SameRetries DEF OpenFor
<1>9. Links'
  <2>1. failed' = failed /\ opens' = opens /\ shut' = shut /\ shut \subseteq Origins
        BY <1>1 DEF timerVars, calls, bounds, ConnTypeOK
  <2> QED
      BY <1>1, <1>8, <2>1, LinksShrink
<1> QED
    BY <1>2, <1>5, <1>6, <1>7, <1>9 DEF Inv

(* The server goes down or comes back.                                     *)
LEMMA ServerKeeps ==
  ASSUME Inv, Server
  PROVE  Inv'
<1>1. /\ UNCHANGED <<timerVars, handles, bounds, shut, gaveUp>> /\ up' = ~up
      BY DEF Server
<1>2. ConnTypeOK /\ RetryJobs /\ Flags /\ Links
      BY DEF Inv
<1>3. TimerInv' /\ TimerTypeOK(Fns)' /\ RetriesKept'
      BY <1>1, TimerAlone
<1>4. ConnTypeOK'
      BY <1>1, <1>2, <1>3 DEF ConnTypeOK, bounds, handles, Origins
<1>5. RetryJobs' /\ Flags'
      BY <1>1, <1>2 DEF RetryJobs, Flags, Origins, timerVars, jobs, bounds, handles
<1>6. Links'
  <2>1. failed' = failed /\ opens' = opens /\ shut' = shut /\ shut \subseteq Origins
        BY <1>1, <1>2 DEF timerVars, calls, bounds, ConnTypeOK
  <2> QED
      BY <1>1, <1>2, <2>1, SameOpen, SameRetries, LinksShrink
<1> QED
    BY <1>3, <1>4, <1>5, <1>6 DEF Inv

-----------------------------------------------------------------------------
(* Steps that close a handle, drop and c.                                  *)
Closing(h) ==
  /\ stage' = [stage EXCEPT ![h] = "closed"]
  /\ auto' = [auto EXCEPT ![h] = FALSE]
  /\ from' = [from EXCEPT ![h] = 0]

(* A handle that is closed is like one never opened.                       *)
LEMMA ClosingHandles ==
  ASSUME ConnTypeOK, Flags, NEW h \in Handles, Closing(h), opens' = opens
  PROVE  /\ stage' \in [Handles -> Stages]
         /\ auto' \in [Handles -> BOOLEAN]
         /\ from' \in [Handles -> 0 .. opens']
         /\ Flags'
         /\ \A o \in Origins : OpenFor(o)' = OpenFor(o) \ {h}
<1>1. /\ stage \in [Handles -> Stages] /\ auto \in [Handles -> BOOLEAN]
      /\ from \in [Handles -> 0 .. opens] /\ opens \in Nat
      BY DEF ConnTypeOK
<1>2. \A g \in Handles : /\ stage'[g] = IF g = h THEN "closed" ELSE stage[g]
                         /\ auto'[g] = IF g = h THEN FALSE ELSE auto[g]
                         /\ from'[g] = IF g = h THEN 0 ELSE from[g]
      BY <1>1 DEF Closing
<1>3. stage' \in [Handles -> Stages]
      BY <1>1 DEF Closing, Stages
<1>4. auto' \in [Handles -> BOOLEAN]
      BY <1>1 DEF Closing
<1>5. from' \in [Handles -> 0 .. opens']
  <2>1. 0 \in 0 .. opens
        BY <1>1
  <2> QED
      BY <1>1, <2>1 DEF Closing
<1>6. Flags'
      BY <1>2 DEF Flags, Origins
<1>7. ASSUME NEW o \in Origins
      PROVE  OpenFor(o)' = OpenFor(o) \ {h}
      BY <1>2 DEF OpenFor
<1> QED
    BY <1>3, <1>4, <1>5, <1>6, <1>7

(* c: the call of o, if any, loses its one link and joins shut.            *)
LEMMA CKeeps ==
  ASSUME Inv, NEW h \in Handles, C(h)
  PROVE  Inv'
<1>1. /\ Closing(h) /\ UNCHANGED timerVars /\ stage[h] # "closed"
      /\ shut' = shut \cup ({from[h]} \ {0})
      /\ UNCHANGED <<up, bounds, gaveUp>>
      BY DEF C, Pc, Closing, timerVars
<1>2. opens' = opens /\ added' = added /\ drops' = drops /\ failed' = failed
      BY <1>1 DEF bounds, timerVars, calls
<1>3. ConnTypeOK /\ RetryJobs /\ Flags /\ Links
      BY DEF Inv
<1>4. TimerInv' /\ TimerTypeOK(Fns)' /\ RetriesKept'
      BY <1>1, TimerAlone
<1>5. /\ stage' \in [Handles -> Stages] /\ auto' \in [Handles -> BOOLEAN]
      /\ from' \in [Handles -> 0 .. opens'] /\ Flags'
      /\ \A o \in Origins : OpenFor(o)' = OpenFor(o) \ {h}
      BY <1>1, <1>2, <1>3, ClosingHandles
<1>6. from[h] \in 0 .. opens /\ opens \in Nat
      BY <1>3 DEF ConnTypeOK
<1>7. shut' \subseteq Origins /\ shut \subseteq Origins
  <2>1. {from[h]} \ {0} \subseteq Origins
        BY <1>6 DEF Origins
  <2> QED
      BY <1>1, <1>3, <2>1 DEF ConnTypeOK
<1>8. ConnTypeOK'
      BY <1>1, <1>2, <1>3, <1>4, <1>5, <1>7 DEF ConnTypeOK, Origins
<1>9. RetryJobs'
      BY <1>1, <1>2, <1>3 DEF RetryJobs, Origins, timerVars, jobs
<1>10. Links'
  <2>1. SUFFICES ASSUME ~failed
                 PROVE  (\A o \in Origins : AtMostOne(o)') /\ (\A o \in shut' : Gone(o)')
        BY <1>2 DEF Links, Origins
  <2>2. \A o \in Origins : RetriesFor(o)' = RetriesFor(o)
        BY <1>1, SameRetries
  <2>3. \A o \in Origins : AtMostOne(o)'
        BY <1>3, <1>5, <2>1, <2>2 DEF Links, AtMostOne
  <2>4. ASSUME NEW o \in shut'
        PROVE  Gone(o)'
    <3>1. o \in Origins
          BY <1>7
    <3>2. CASE o \in shut
          BY <1>3, <1>5, <2>1, <2>2, <3>1, <3>2 DEF Links, Gone
    <3>3. CASE o = from[h]
      <4>1. h \in OpenFor(o)
            BY <1>1, <3>3 DEF OpenFor
      <4>2. OpenFor(o) = {h} /\ RetriesFor(o) = {}
            BY <1>3, <2>1, <3>1, <4>1, OneOpen DEF Links
      <4> QED
          BY <1>5, <2>2, <3>1, <4>2 DEF Gone
    <3> QED
        BY <1>1, <3>2, <3>3
  <2> QED
      BY <2>3, <2>4
<1> QED
    BY <1>4, <1>5, <1>8, <1>9, <1>10 DEF Inv

-----------------------------------------------------------------------------
(* The once job that reconnects.                                           *)
IsRetry(row, o) ==
  /\ row \in Rows(Fns) /\ row.fn.kind = "retry" /\ row.fn.from = o
  /\ row.once /\ row.int > 0 /\ row.fn.delay > 0

(* The job that nt adds for a lost connection is a retry for its open.     *)
LEMMA NtRetry ==
  ASSUME TimerTypeOK(Fns), NEW known \in BOOLEAN, NEW delay \in Nat \ {0},
         NEW o \in Origins, opens \in Nat, NEW int \in Nat \ {0},
         Nt(TRUE, Retry(known, delay, o), int)
  PROVE  Grown /\ \E new : IsRetry(new, o) /\ t' = t \cup {new}
<1> DEFINE fn == Retry(known, delay, o)
<1> DEFINE new == [id |-> i, fn |-> fn, int |-> int, rest |-> int, once |-> TRUE]
<1>1. fn \in Fns /\ fn.kind = "retry" /\ fn.from = o /\ fn.delay = delay
      BY DEF Retry, Fns, Origins
<1>2. i \in Nat /\ t' = t \cup {new}
      BY DEF TimerTypeOK, Nt
<1> HIDE DEF fn
<1>3. IsRetry(new, o)
      BY <1>1, <1>2 DEF IsRetry, Rows
<1>4. Grown
      BY <1>1, NtGrows DEF fn
<1> HIDE DEF new
<1> QED
    BY <1>2, <1>3, <1>4

(* The jobs that reconnect are as RetryJobs says when one more is added.   *)
LEMMA OneMoreRetry ==
  ASSUME RetryJobs, NEW o \in Origins, NEW new, IsRetry(new, o),
         t' = t \cup {new}, opens' = opens
  PROVE  RetryJobs'
BY DEF RetryJobs, IsRetry, Origins

(* .z.pc on a connection that is lost: a retry takes its place, or none.   *)
LEMMA DropKeeps ==
  ASSUME Inv, NEW h \in Handles, Drop(h)
  PROVE  Inv'
<1>1. /\ Closing(h) /\ stage[h] # "closed"
      /\ drops < MaxDrops /\ drops' = drops + 1
      /\ UNCHANGED <<tick, calls, rmd, up, opens, added, shut, gaveUp>>
      BY DEF Drop, Pc, Closing
<1>2. \/ UNCHANGED jobs
      \/ auto[h] /\ Nt(TRUE, Retry(stage[h] = "known", 2 * FirstDelay, from[h]),
                       FirstDelay)
      BY DEF Drop, Pc
<1>3. ConnTypeOK /\ RetryJobs /\ Flags /\ Links /\ TimerInv /\ RetriesKept
      BY DEF Inv
<1>4. failed' = failed /\ ticking' = ticking /\ due' = due
      BY <1>1 DEF calls, tick
<1>5. /\ stage' \in [Handles -> Stages] /\ auto' \in [Handles -> BOOLEAN]
      /\ from' \in [Handles -> 0 .. opens'] /\ Flags'
      /\ \A o \in Origins : OpenFor(o)' = OpenFor(o) \ {h}
      BY <1>1, <1>3, ClosingHandles
<1>6. TimerTypeOK(Fns) /\ shut \subseteq Origins /\ opens \in Nat /\ drops \in Nat
      BY <1>3 DEF ConnTypeOK
<1>7. \/ UNCHANGED jobs
      \/ from[h] \in Origins /\ Grown
         /\ \E new : IsRetry(new, from[h]) /\ t' = t \cup {new}
  <2>1. CASE auto[h] /\ Nt(TRUE, Retry(stage[h] = "known", 2 * FirstDelay, from[h]),
                           FirstDelay)
    <3>1. from[h] \in Origins
          BY <1>3, <2>1 DEF Flags
    <3>2. FirstDelay \in Nat \ {0} /\ 2 * FirstDelay \in Nat \ {0}
          OBVIOUS
    <3> QED
        BY <1>6, <2>1, <3>1, <3>2, NtRetry
  <2> QED
      BY <1>2, <2>1
<1>8. Grown
      BY <1>6, <1>7, SameGrows
<1>9. TimerInv'
      BY <1>1, <1>3, <1>8, GrownKeeps
<1>10. ConnTypeOK'
  <2>1. TimerTypeOK(Fns)'
        BY <1>9 DEF TimerInv
  <2>2. drops' \in 0 .. MaxDrops
        BY <1>1, <1>6
  <2> QED
      BY <1>1, <1>3, <1>5, <2>1, <2>2 DEF ConnTypeOK, Origins
<1>11. RetriesKept'
      BY <1>3, <1>4, <1>8 DEF RetriesKept, Grown
<1>12. RetryJobs'
  <2>1. CASE UNCHANGED jobs
        BY <1>1, <1>3, <2>1 DEF RetryJobs, Origins, jobs
  <2> QED
      BY <1>1, <1>3, <1>7, <2>1, OneMoreRetry
<1>13. Links'
  <2>1. CASE UNCHANGED jobs
    <3>1. \A o \in Origins : RetriesFor(o)' \subseteq RetriesFor(o)
          BY <1>4, <2>1, FewerRetries DEF jobs
    <3> QED
        BY <1>1, <1>3, <1>4, <1>5, <1>6, <3>1, LinksShrink
  <2>2. ASSUME from[h] \in Origins, NEW new, IsRetry(new, from[h]),
               t' = t \cup {new}
        PROVE  Links'
    <3> PICK k \in Origins : k = from[h]
        BY <2>2
    <3>1. h \in OpenFor(k)
          BY <1>1 DEF OpenFor
    <3>2. ~failed => OpenFor(k) = {h} /\ RetriesFor(k) = {}
          BY <1>3, <3>1, OneOpen DEF Links
    <3>3. ~failed => OpenFor(k)' = {} /\ RetriesFor(k)' \subseteq {new}
          BY <1>4, <1>5, <2>2, <3>2 DEF RetriesFor
    <3>4. \A o \in Origins \ {k} : RetriesFor(o)' \subseteq RetriesFor(o)
          BY <1>4, <2>2, FewerRetries DEF IsRetry
    <3>5. ~Gone(k)
          BY <3>1 DEF Gone
    <3> QED
        BY <1>1, <1>3, <1>4, <1>5, <1>6, <3>3, <3>4, <3>5, LinksMove
  <2> QED
      BY <1>7, <2>1, <2>2
<1> QED
    BY <1>5, <1>9, <1>10, <1>11, <1>12, <1>13 DEF Inv

(* The attempt of c is the one link of its call of o, and uses it up.      *)
LEMMA UsedUp ==
  ASSUME Inv, Returned, Called.fn.kind = "retry", NEW c, c = Called
  PROVE  /\ c \in Rows(Fns) /\ c.fn.from \in Origins /\ c.fn.delay > 0
         /\ ~Gone(c.fn.from)
         /\ ~failed => OpenFor(c.fn.from) = {}
         /\ \A row \in RetriesFor(c.fn.from)' : ~failed => row \notin t
<1>1. /\ TimerTypeOK(Fns) /\ Matching /\ RetriesKept /\ RetryJobs /\ Links
      BY DEF Inv, TimerInv
<1>2. c \in due
      BY <1>1, CalledIsDue DEF Returned
<1>3. ticking /\ ticking' = ticking /\ due' = due \ {c}
      BY DEF Returned, Calling
<1>4. c \in t /\ c.rest = 0 /\ c.fn.kind = "retry"
      BY <1>1, <1>2 DEF RetriesKept, Matching
<1>5. c \in Rows(Fns) /\ c.fn.from \in Origins /\ c.fn.delay > 0
      BY <1>1, <1>4 DEF TimerTypeOK, RetryJobs
<1> PICK o \in Origins : o = c.fn.from
    BY <1>5
<1>6. c \in RetriesFor(o)
      BY <1>2, <1>4 DEF RetriesFor, Ids
<1>7. ~failed => OpenFor(o) = {} /\ RetriesFor(o) = {c}
      BY <1>1, <1>6, OneRetry DEF Links
<1>8. c.id \notin Ids(due)'
      BY <1>1, <1>2, <1>3 DEF TimerTypeOK, Unique, Ids
<1>9. ASSUME ~failed, NEW row \in RetriesFor(o)', row \in t
      PROVE  FALSE
  <2>1. /\ row.fn.kind = "retry" /\ row.fn.from = o
        /\ row.rest > 0 \/ row.id \in Ids(due)'
        BY <1>3, <1>9 DEF RetriesFor
  <2>2. Ids(due)' \subseteq Ids(due)
        BY <1>3 DEF Ids
  <2>3. row \in RetriesFor(o)
        BY <1>9, <2>1, <2>2 DEF RetriesFor
  <2>4. row = c
        BY <1>7, <1>9, <2>3
  <2> QED
      BY <1>4, <1>8, <2>1, <2>4
<1>10. ~Gone(o)
      BY <1>6 DEF Gone
<1> QED
    BY <1>5, <1>7, <1>9, <1>10

(* What both outcomes of an attempt share.                                 *)
LEMMA AttemptKeeps ==
  ASSUME Inv, Grown, Returned, UNCHANGED <<rmd, up, bounds, shut>>
  PROVE  /\ TimerInv' /\ TimerTypeOK(Fns)' /\ RetriesKept'
         /\ failed' = failed /\ opens' = opens /\ added' = added /\ drops' = drops
         /\ Origins' = Origins /\ shut \subseteq Origins /\ opens \in Nat
         /\ due' \subseteq due /\ ticking' = ticking
<1>1. TimerInv /\ RetriesKept /\ ConnTypeOK
      BY DEF Inv
<1>2. TimerInv' /\ TimerTypeOK(Fns)'
      BY <1>1, ReturnedKeeps DEF TimerInv
<1>3. /\ failed' = failed /\ opens' = opens /\ added' = added /\ drops' = drops
      /\ due' \subseteq due /\ ticking' = ticking
      BY DEF Returned, bounds
<1>4. RetriesKept'
      BY <1>1, <1>3 DEF RetriesKept, Grown
<1>5. shut \subseteq Origins /\ opens \in Nat /\ Origins' = Origins
      BY <1>1, <1>3 DEF ConnTypeOK, Origins
<1> QED
    BY <1>2, <1>3, <1>4, <1>5

(* The attempt succeeds: a connection takes its place.                     *)
LEMMA SucceedKeeps ==
  ASSUME Inv, Returned, Called.fn.kind = "retry",
         NEW h \in Handles, O(h, TRUE, Called.fn.from),
         UNCHANGED <<jobs, gaveUp, rmd, up, bounds, shut>>
  PROVE  Inv'
<1> PICK c : c = Called
    OBVIOUS
<1>1. /\ ConnTypeOK /\ RetryJobs /\ Flags /\ Links /\ TimerTypeOK(Fns)
      BY DEF Inv, TimerInv
<1>2. /\ c.fn.from \in Origins /\ ~Gone(c.fn.from)
      /\ ~failed => OpenFor(c.fn.from) = {}
      /\ \A row \in RetriesFor(c.fn.from)' : ~failed => row \notin t
      BY UsedUp
<1> PICK k \in Origins : k = c.fn.from
    BY <1>2
<1>3. Grown /\ t' = t
      BY <1>1, SameGrows DEF jobs
<1>4. /\ TimerInv' /\ TimerTypeOK(Fns)' /\ RetriesKept'
      /\ failed' = failed /\ opens' = opens /\ added' = added /\ drops' = drops
      /\ Origins' = Origins /\ shut \subseteq Origins /\ opens \in Nat
      /\ due' \subseteq due /\ ticking' = ticking
      BY <1>3, AttemptKeeps
<1>5. /\ stage' = [stage EXCEPT ![h] = "open"]
      /\ auto' = [auto EXCEPT ![h] = TRUE]
      /\ from' = [from EXCEPT ![h] = k]
      /\ stage[h] = "closed"
      BY DEF O, Lowest
<1>6. /\ stage \in [Handles -> Stages] /\ auto \in [Handles -> BOOLEAN]
      /\ from \in [Handles -> 0 .. opens]
      BY <1>1 DEF ConnTypeOK
<1>7. \A g \in Handles : /\ stage'[g] = IF g = h THEN "open" ELSE stage[g]
                         /\ auto'[g] = IF g = h THEN TRUE ELSE auto[g]
                         /\ from'[g] = IF g = h THEN k ELSE from[g]
      BY <1>5, <1>6
<1>8. ConnTypeOK'
  <2>1. stage' \in [Handles -> Stages]
        BY <1>5, <1>6 DEF Stages
  <2>2. auto' \in [Handles -> BOOLEAN]
        BY <1>5, <1>6
  <2>3. from' \in [Handles -> 0 .. opens']
    <3>1. k \in 0 .. opens
          BY <1>4 DEF Origins
    <3> QED
        BY <1>4, <1>5, <1>6, <3>1
  <2> QED
      BY <1>1, <1>4, <2>1, <2>2, <2>3 DEF ConnTypeOK
<1>9. RetryJobs'
      BY <1>1, <1>3, <1>4 DEF RetryJobs
<1>10. Flags'
      BY <1>1, <1>4, <1>7 DEF Flags
<1>11. Links'
  <2>1. from[h] = 0 /\ 0 \notin Origins
        BY <1>1, <1>5 DEF Flags, Origins
  <2>2. ~failed => RetriesFor(k)' = {} /\ OpenFor(k)' \subseteq {h}
    <3>1. ~failed => RetriesFor(k)' = {}
          BY <1>2, <1>3 DEF RetriesFor
    <3>2. ~failed => OpenFor(k)' \subseteq {h}
          BY <1>2, <1>7 DEF OpenFor
    <3> QED
        BY <3>1, <3>2
  <2>3. \A o \in Origins \ {k} : OpenFor(o)' \subseteq OpenFor(o)
        BY <1>7, <2>1 DEF OpenFor
  <2>4. \A o \in Origins \ {k} : RetriesFor(o)' \subseteq RetriesFor(o)
        BY <1>3, <1>4, FewerRetries
  <2> QED
      BY <1>1, <1>2, <1>4, <2>2, <2>3, <2>4, LinksMove
<1> QED
    BY <1>4, <1>8, <1>9, <1>10, <1>11 DEF Inv

(* The attempt fails: another takes its place, or none.                    *)
LEMMA FailKeeps ==
  ASSUME Inv, Returned, Called.fn.kind = "retry", RetryFails(Called.fn),
         UNCHANGED <<rmd, up, bounds, shut>>
  PROVE  Inv'
<1> PICK c : c = Called
    OBVIOUS
<1>1. /\ ConnTypeOK /\ RetryJobs /\ Flags /\ Links /\ TimerTypeOK(Fns)
      BY DEF Inv, TimerInv
<1>2. /\ c \in Rows(Fns) /\ c.fn.from \in Origins /\ c.fn.delay > 0
      /\ ~Gone(c.fn.from)
      /\ ~failed => OpenFor(c.fn.from) = {}
      /\ \A row \in RetriesFor(c.fn.from)' : ~failed => row \notin t
      BY UsedUp
<1>3. UNCHANGED handles
      BY DEF RetryFails
<1>4. c.fn.known \in BOOLEAN /\ c.fn.delay \in Nat \ {0} /\ 2 * c.fn.delay \in Nat \ {0}
      BY <1>2 DEF Rows, Fns
<1>5. \/ /\ Nt(TRUE, Retry(c.fn.known, 2 * c.fn.delay, c.fn.from), c.fn.delay)
         /\ gaveUp' = gaveUp
      \/ gaveUp' = gaveUp \cup {c.fn.from} /\ UNCHANGED jobs
      BY DEF RetryFails
<1> PICK k \in Origins : k = c.fn.from
    BY <1>2
<1>6. opens \in Nat
      BY <1>1 DEF ConnTypeOK
<1>7. Grown /\ (UNCHANGED jobs \/ \E new : IsRetry(new, k) /\ t' = t \cup {new})
  <2>1. CASE UNCHANGED jobs
        BY <1>1, <2>1, SameGrows
  <2>2. CASE Nt(TRUE, Retry(c.fn.known, 2 * c.fn.delay, c.fn.from), c.fn.delay)
        BY <1>1, <1>4, <1>6, <2>2, NtRetry
  <2> QED
      BY <1>5, <2>1, <2>2
<1>8. /\ TimerInv' /\ TimerTypeOK(Fns)' /\ RetriesKept'
      /\ failed' = failed /\ opens' = opens /\ added' = added /\ drops' = drops
      /\ Origins' = Origins /\ shut \subseteq Origins /\ opens \in Nat
      /\ due' \subseteq due /\ ticking' = ticking
      BY <1>7, AttemptKeeps
<1>9. (shut \cup gaveUp)' \subseteq Origins
      BY <1>1, <1>2, <1>5 DEF ConnTypeOK
<1>10. ConnTypeOK'
      BY <1>1, <1>3, <1>8, <1>9 DEF ConnTypeOK, handles
<1>11. Flags'
      BY <1>1, <1>3, <1>8 DEF Flags, handles
<1>12. RetryJobs'
  <2>1. CASE UNCHANGED jobs
        BY <1>1, <1>8, <2>1 DEF RetryJobs, jobs
  <2> QED
      BY <1>1, <1>7, <1>8, <2>1, OneMoreRetry
<1>13. Links'
  <2>1. \A o \in Origins : OpenFor(o)' = OpenFor(o)
        BY <1>3, SameOpen
  <2>2. \E r : /\ ~failed => RetriesFor(k)' \subseteq {r}
               /\ \A row \in t' \ t : row = r /\ IsRetry(row, k)
    <3>1. CASE t' = t
          BY <1>2, <3>1 DEF RetriesFor
    <3>2. ASSUME NEW new, IsRetry(new, k), t' = t \cup {new}
          PROVE  /\ ~failed => RetriesFor(k)' \subseteq {new}
                 /\ \A row \in t' \ t : row = new /\ IsRetry(row, k)
          BY <1>2, <3>2 DEF RetriesFor
    <3> QED
        BY <1>7, <3>1, <3>2 DEF jobs
  <2> PICK r : /\ ~failed => RetriesFor(k)' \subseteq {r}
               /\ \A row \in t' \ t : row = r /\ IsRetry(row, k)
      BY <2>2
  <2>3. \A o \in Origins \ {k} : RetriesFor(o)' \subseteq RetriesFor(o)
        BY <1>8, FewerRetries DEF IsRetry
  <2> QED
      BY <1>1, <1>2, <1>8, <2>1, <2>3, LinksMove
<1> QED
    BY <1>8, <1>10, <1>11, <1>12, <1>13 DEF Inv

(* A retry is called: it connects, gives up or is set up again.            *)
LEMMA ReconnectKeeps ==
  ASSUME Inv, Reconnect
  PROVE  Inv'
<1>1. /\ Called.fn.kind = "retry" /\ Returned
      /\ UNCHANGED <<rmd, up, bounds, shut>>
      BY DEF Reconnect
<1>2. \/ (\E h \in Handles : O(h, TRUE, Called.fn.from)) /\ UNCHANGED <<jobs, gaveUp>>
      \/ RetryFails(Called.fn)
      BY DEF Reconnect
<1> QED
    BY <1>1, <1>2, SucceedKeeps, FailKeeps

-----------------------------------------------------------------------------
(* Steps of .z.ts and of the rest of the process: the handles stay and no  *)
(* call of o gains a link.                                                 *)
LEMMA RestKeeps ==
  ASSUME Inv, TimerInv', RetriesKept', RetryJobs',
         failed' = failed, added' \in 0 .. MaxJobs,
         UNCHANGED <<up, handles, opens, drops, shut, gaveUp>>,
         \A o \in Origins : RetriesFor(o)' \subseteq RetriesFor(o)
  PROVE  Inv'
<1>1. ConnTypeOK /\ Flags /\ Links
      BY DEF Inv
<1>2. ConnTypeOK'
      BY <1>1 DEF ConnTypeOK, TimerInv, handles, Origins
<1>3. Flags'
      BY <1>1 DEF Flags, handles, Origins
<1>4. Links'
      BY <1>1, SameOpen, LinksShrink DEF ConnTypeOK
<1> QED
    BY <1>2, <1>3, <1>4 DEF Inv

(* Another part of the process adds a job;                                 *)
LEMMA UserAddsKeeps ==
  ASSUME Inv, NEW once \in BOOLEAN, NEW int \in Intervals, UserAdds(once, int)
  PROVE  Inv'
<1>1. /\ added < MaxJobs /\ added' = added + 1 /\ Nt(once, User, int)
      /\ UNCHANGED <<tick, calls, rmd, up, handles, opens, drops, shut, gaveUp>>
      BY DEF UserAdds
<1>2. TimerTypeOK(Fns) /\ TimerInv /\ RetriesKept /\ RetryJobs /\ ConnTypeOK
      BY DEF Inv, TimerInv
<1>3. User \in Fns /\ User.kind # "retry"
      BY DEF User, Fns
<1>4. int \in Nat
      BY DEF ConnAssumption
<1>5. Grown
      BY <1>1, <1>2, <1>3, <1>4, NtGrows
<1>6. \A row \in t' \ t : row.fn.kind # "retry"
      BY <1>1, <1>3 DEF Nt
<1>7. failed' = failed /\ ticking' = ticking /\ due' = due /\ opens' = opens
      BY <1>1 DEF calls, tick
<1>8. TimerInv'
      BY <1>1, <1>2, <1>5, GrownKeeps
<1>9. RetriesKept'
      BY <1>2, <1>5, <1>7 DEF RetriesKept, Grown
<1>10. RetryJobs'
      BY <1>2, <1>6, <1>7 DEF RetryJobs, Origins
<1>11. added' \in 0 .. MaxJobs
      BY <1>1, <1>2 DEF ConnTypeOK
<1>12. \A o \in Origins : RetriesFor(o)' \subseteq RetriesFor(o)
      BY <1>6, <1>7, FewerRetries
<1> QED
    BY <1>1, <1>7, <1>8, <1>9, <1>10, <1>11, <1>12, RestKeeps

(* rm of a job of the process takes no retry from under .z.ts: the         *)
(* identifiers are of one job each.                                        *)
LEMMA UserRemovesKeeps ==
  ASSUME Inv, NEW id \in 0 .. i - 1, UserRemoves(id)
  PROVE  Inv'
<1>1. /\ \E row \in t : row.id = id /\ row.fn = User
      /\ Rm(id)
      /\ UNCHANGED <<i, tick, calls, up, handles, bounds, shut, gaveUp>>
      BY DEF UserRemoves
<1>2. TimerTypeOK(Fns) /\ TimerInv /\ RetriesKept /\ RetryJobs /\ ConnTypeOK
      BY DEF Inv, TimerInv
<1>3. /\ failed' = failed /\ ticking' = ticking /\ due' = due
      /\ opens' = opens /\ added' = added /\ drops' = drops
      BY <1>1 DEF calls, tick, bounds
<1>4. t' = {row \in t : row.id # id}
      BY <1>1 DEF Rm
<1>5. TimerInv'
      BY <1>1, <1>2, RmKeeps
<1>6. RetriesKept'
  <2>1. \A d \in t : d.fn.kind = "retry" => d.id # id
        BY <1>1, <1>2 DEF TimerTypeOK, Unique, User
  <2> QED
      BY <1>2, <1>3, <1>4, <2>1 DEF RetriesKept
<1>7. RetryJobs'
      BY <1>2, <1>3, <1>4 DEF RetryJobs, Origins
<1>8. added' \in 0 .. MaxJobs
      BY <1>2, <1>3 DEF ConnTypeOK
<1>9. \A o \in Origins : RetriesFor(o)' \subseteq RetriesFor(o)
      BY <1>3, <1>4, FewerRetries
<1> QED
    BY <1>1, <1>3, <1>5, <1>6, <1>7, <1>8, <1>9, RestKeeps

(* its job returns                                                         *)
LEMMA UserReturnsKeeps ==
  ASSUME Inv, UserReturns
  PROVE  Inv'
<1>1. Returned /\ UNCHANGED <<jobs, rmd, up, handles, bounds, shut, gaveUp>>
      BY DEF UserReturns
<1>2. TimerTypeOK(Fns) /\ TimerInv /\ RetriesKept /\ RetryJobs /\ ConnTypeOK
      BY DEF Inv, TimerInv
<1>3. /\ failed' = failed /\ ticking' = ticking /\ due' \subseteq due /\ t' = t
      /\ opens' = opens /\ added' = added /\ drops' = drops
      BY <1>1 DEF Returned, jobs, bounds
<1>4. TimerInv'
      BY <1>1, <1>2, SameGrows, ReturnedKeeps
<1>5. RetriesKept' /\ RetryJobs'
      BY <1>2, <1>3 DEF RetriesKept, RetryJobs, Origins
<1>6. added' \in 0 .. MaxJobs
      BY <1>2, <1>3 DEF ConnTypeOK
<1>7. \A o \in Origins : RetriesFor(o)' \subseteq RetriesFor(o)
      BY <1>3, FewerRetries
<1> QED
    BY <1>1, <1>3, <1>4, <1>5, <1>6, <1>7, RestKeeps

(* or fails.                                                               *)
LEMMA UserThrowsKeeps ==
  ASSUME Inv, UserThrows
  PROVE  Inv'
<1>1. Threw /\ UNCHANGED <<up, handles, bounds, shut, gaveUp>>
      BY DEF UserThrows
<1>2. TimerTypeOK(Fns) /\ TimerInv /\ RetryJobs /\ Flags /\ ConnTypeOK
      BY DEF Inv, TimerInv
<1>3. /\ failed' = TRUE /\ due' = {} /\ t' = t
      /\ opens' = opens /\ added' = added /\ drops' = drops
      BY <1>1 DEF Threw, jobs, bounds
<1>4. TimerInv'
      BY <1>1, <1>2, ThrewKeeps
<1>5. ConnTypeOK'
      BY <1>1, <1>2, <1>3, <1>4 DEF ConnTypeOK, TimerInv, handles, Origins
<1>6. RetriesKept' /\ RetryJobs' /\ Flags'
      BY <1>1, <1>2, <1>3 DEF RetriesKept, RetryJobs, Flags, Origins, handles
<1>7. failed'
      BY <1>2, <1>3 DEF TimerTypeOK
<1> QED
    BY <1>4, <1>5, <1>6, <1>7 DEF Inv, Links

(* The steps of .z.ts that are not callbacks.                              *)
LEMMA TickStepKeeps ==
  ASSUME Inv, TickStep
  PROVE  Inv'
<1>1. /\ StartTick \/ EndTick
      /\ UNCHANGED <<up, handles, bounds, shut, gaveUp>>
      BY DEF TickStep
<1>2. TimerTypeOK(Fns) /\ TimerInv /\ RetriesKept /\ RetryJobs /\ ConnTypeOK
      BY DEF Inv, TimerInv
<1>3. failed' = failed /\ opens' = opens /\ added' = added /\ drops' = drops
      BY <1>1 DEF StartTick, EndTick, calls, bounds
<1>4. TimerInv'
      BY <1>1, <1>2, StartTickKeeps, EndTickKeeps
<1>5. added' \in 0 .. MaxJobs
      BY <1>2, <1>3 DEF ConnTypeOK
<1>6. CASE StartTick
  <2>1. /\ ~ticking /\ t' = {Down(row) : row \in t} /\ due' \subseteq t'
        BY <1>6 DEF StartTick
  <2>2. \A row \in t : /\ Down(row).fn = row.fn /\ Down(row).int = row.int
                       /\ Down(row).once = row.once
        BY <1>2, DownRow DEF TimerTypeOK
  <2>3. RetriesKept' /\ RetryJobs'
        BY <1>2, <1>3, <2>1, <2>2 DEF RetriesKept, RetryJobs, Origins
  <2>4. \A o \in Origins : OpenFor(o)' = OpenFor(o)
        BY <1>1, SameOpen
  <2>5. ASSUME NEW o \in Origins
        PROVE  RetriesFor(o)' \subseteq {Down(row) : row \in RetriesFor(o)}
        BY <2>1, <2>2 DEF RetriesFor
  <2>6. Links'
    <3>1. SUFFICES ASSUME ~failed
                   PROVE  (\A o \in Origins : AtMostOne(o)') /\ (\A o \in shut : Gone(o)')
          BY <1>1, <1>3 DEF Links, Origins
    <3>2. Links
          BY DEF Inv
    <3>3. ASSUME NEW o \in Origins
          PROVE  AtMostOne(o)'
          BY <2>4, <2>5, <3>1, <3>2 DEF Links, AtMostOne
    <3>4. ASSUME NEW o \in shut
          PROVE  Gone(o)'
      <4>1. Gone(o) /\ o \in Origins
            BY <1>2, <3>1, <3>2 DEF Links, ConnTypeOK
      <4> QED
          BY <2>4, <2>5, <4>1 DEF Gone
    <3> QED
        BY <3>3, <3>4
  <2>7. Flags
        BY DEF Inv
  <2>8. ConnTypeOK' /\ Flags'
        BY <1>1, <1>2, <1>3, <1>4, <2>7
        DEF ConnTypeOK, Flags, TimerInv, handles, Origins
  <2> QED
      BY <1>4, <2>3, <2>6, <2>8 DEF Inv
<1>7. CASE EndTick
  <2> DEFINE kept == {row \in t : ~Over(row)}
  <2>1. /\ t' = {Reset(row) : row \in kept} /\ kept \subseteq t
        /\ \A row \in kept : ~(row.rest = 0 /\ row.once)
        /\ ticking /\ due = {} /\ due' = {}
        BY <1>7 DEF EndTick, Over, IsDue
  <2> HIDE DEF kept
  <2>2. \A row \in t : /\ Reset(row).fn = row.fn /\ Reset(row).int = row.int
                       /\ Reset(row).once = row.once /\ row.rest \in Nat
                       /\ row.rest > 0 => Reset(row) = row
        BY <1>2, ResetRow DEF TimerTypeOK, Rows
  <2>3. RetriesKept' /\ RetryJobs'
        BY <1>2, <1>3, <2>1, <2>2 DEF RetriesKept, RetryJobs, Origins
  <2>4. ASSUME NEW o \in Origins, NEW row \in RetriesFor(o)'
        PROVE  row \in RetriesFor(o)
    <3>1. row \in t' /\ row.fn.kind = "retry" /\ row.fn.from = o
          BY DEF RetriesFor
    <3>2. PICK old \in kept : row = Reset(old)
          BY <2>1, <3>1
    <3>3. old \in t /\ old.fn = row.fn /\ old.rest \in Nat
          BY <2>1, <2>2, <3>2
    <3>4. old.once
          BY <1>2, <3>1, <3>3 DEF RetryJobs
    <3>5. old.rest > 0
          BY <2>1, <3>2, <3>3, <3>4
    <3>6. row = old
          BY <2>2, <3>2, <3>3, <3>5
    <3> QED
        BY <3>1, <3>3, <3>5, <3>6 DEF RetriesFor
  <2> QED
      BY <1>1, <1>3, <1>4, <1>5, <2>3, <2>4, RestKeeps DEF bounds
<1> QED
    BY <1>1, <1>6, <1>7

-----------------------------------------------------------------------------

(* Every step keeps the invariant.                                         *)
LEMMA InvStep ==
  ASSUME Inv, [Next]_vars
  PROVE  Inv'
<1>1. ASSUME NEW h \in Handles, NEW ar \in BOOLEAN, Open(h, ar)
      PROVE  Inv'
      BY <1>1, OpenKeeps
<1>2. ASSUME NEW h \in Handles, Accept(h) \/ Po(h) \/ Rp(h)
      PROVE  Inv'
  <2>1. \E s \in Stages \ {"closed"} : stage' = [stage EXCEPT ![h] = s]
        BY <1>2 DEF Accept, Po, Rp, Stages
  <2>2. UNCHANGED <<timerVars, up, auto, from, bounds, shut, gaveUp>>
        BY <1>2 DEF Accept, Po, Rp
  <2> QED
      BY <2>1, <2>2, StageKeeps
<1>3. ASSUME NEW h \in Handles, Drop(h) \/ C(h)
      PROVE  Inv'
      BY <1>3, DropKeeps, CKeeps
<1>4. ASSUME NEW once \in BOOLEAN, NEW int \in Intervals, UserAdds(once, int)
      PROVE  Inv'
      BY <1>4, UserAddsKeeps
<1>5. ASSUME NEW id \in 0 .. i - 1, UserRemoves(id)
      PROVE  Inv'
      BY <1>5, UserRemovesKeeps
<1>6. CASE Reconnect \/ UserReturns \/ UserThrows
      BY <1>6, ReconnectKeeps, UserReturnsKeeps, UserThrowsKeeps
<1>7. CASE TickStep
      BY <1>7, TickStepKeeps
<1>8. CASE Server
      BY <1>8, ServerKeeps
<1>9. CASE UNCHANGED vars
  <2>1. UNCHANGED <<timerVars, up, handles, bounds, shut, gaveUp>>
        BY <1>9 DEF vars
  <2>2. RetryJobs /\ ConnTypeOK
        BY DEF Inv
  <2>3. TimerInv' /\ RetriesKept'
        BY <2>1, TimerAlone
  <2>4. RetryJobs'
        BY <2>1, <2>2 DEF RetryJobs, Origins, timerVars, jobs, bounds
  <2>5. failed' = failed /\ added' \in 0 .. MaxJobs
        BY <2>1, <2>2 DEF timerVars, calls, bounds, ConnTypeOK
  <2>6. \A o \in Origins : RetriesFor(o)' \subseteq RetriesFor(o)
        BY <2>1, SameRetries
  <2> QED
      BY <2>1, <2>3, <2>4, <2>5, <2>6, RestKeeps DEF bounds
<1> QED
    BY <1>1, <1>2, <1>3, <1>4, <1>5, <1>6, <1>7, <1>8, <1>9 DEF Next

(* The invariant holds of the connections and the timer under them.        *)
THEOREM InvHolds == Spec => []Inv
<1>1. Inv /\ [Next]_vars => Inv'
      BY InvStep
<1> QED
    BY <1>1, InitInv, PTL DEF Spec

(* .z.ts calls each job when it is due and a once job never again, though  *)
(* the callbacks it calls add and remove jobs, unless a callback failed.   *)
THEOREM JobsCalledOnTime == Spec => []CalledOnTime
<1>1. Inv => CalledOnTime
      BY DEF Inv, TimerInv, OnceEach, CalledOnTime, OnceRunsOnce
<1> QED
    BY <1>1, InvHolds, PTL

(* Unless a callback failed, what a call of o opened is one connection or  *)
(* one reconnection to come, and neither once c has closed it.             *)
THEOREM OneLinkEach == Spec => []OneLink
<1>1. ASSUME Inv
      PROVE  OneLink
  <2>1. ConnTypeOK /\ Links
        BY <1>1 DEF Inv
  <2>2. ASSUME ~failed, NEW o \in Origins
        PROVE  Cardinality(OpenFor(o)) + Cardinality(RetriesFor(o)) <= 1
    <3>1. AtMostOne(o)
          BY <2>1, <2>2 DEF Links
    <3>2. Cardinality({}) = 0 /\ \A x : Cardinality({x}) = 1
          BY FS_EmptySet, FS_Singleton
    <3>3. ASSUME NEW h \in OpenFor(o)
          PROVE  OpenFor(o) = {h} /\ RetriesFor(o) = {}
          BY <3>1, OneOpen
    <3>4. ASSUME NEW r \in RetriesFor(o)
          PROVE  OpenFor(o) = {} /\ RetriesFor(o) = {r}
          BY <3>1, OneRetry
    <3>5. CASE OpenFor(o) # {}
      <4>1. Cardinality(OpenFor(o)) = 1 /\ Cardinality(RetriesFor(o)) = 0
            BY <3>2, <3>3, <3>5
      <4> QED
          BY <4>1
    <3>6. CASE RetriesFor(o) # {}
      <4>1. Cardinality(OpenFor(o)) = 0 /\ Cardinality(RetriesFor(o)) = 1
            BY <3>2, <3>4, <3>6
      <4> QED
          BY <4>1
    <3>7. CASE OpenFor(o) = {} /\ RetriesFor(o) = {}
      <4>1. Cardinality(OpenFor(o)) = 0 /\ Cardinality(RetriesFor(o)) = 0
            BY <3>2, <3>7
      <4> QED
          BY <4>1
    <3> QED
        BY <3>5, <3>6, <3>7
  <2>3. OneConnectionPerOpen
        BY <2>2 DEF OneConnectionPerOpen
  <2>4. ClosedStaysClosed
        BY <2>1 DEF Links, Gone, ClosedStaysClosed
  <2> QED
      BY <2>1, <2>3, <2>4 DEF OneLink
<1> QED
    BY <1>1, InvHolds, PTL
=============================================================================
