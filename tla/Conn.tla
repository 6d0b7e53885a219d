-------------------------------- MODULE Conn --------------------------------
(***************************************************************************)
(* conn/index.q: the list of connections kept by .z.po and .z.pc, and the  *)
(* reconnection of those that were opened with the flag, by once jobs of   *)
(* the timer whose interval doubles.                                       *)
(*                                                                         *)
(* One server, reachable or not.  A handle that o has opened is in the     *)
(* list only when the other side has answered with a call of .conn.po, and *)
(* its address is known only when the answer to that, a call of .conn.rp,  *)
(* is there.  Rows whose handle is null are never looked at again and are  *)
(* left out: the list is the function stage.                               *)
(***************************************************************************)
EXTENDS Timer, FiniteSets

CONSTANTS
  Handles,     (* the file descriptors a connection can get                *)
  FirstDelay,  (* .conn.i, in ticks                                        *)
  MaxDelay,    (* .conn.m, in ticks                                        *)
  Intervals,   (* the intervals of the other jobs of the process           *)
  MaxJobs,     (* bound: the other jobs of the process                     *)
  MaxOpens,    (* bound: calls of o by the process                         *)
  MaxDrops,    (* bound: connections that are lost                         *)
  MaxEvents,   (* bound: other jobs and lost connections, together         *)
  MaxIds       (* bound: identifiers given out while callbacks fail        *)

ASSUME ConnAssumption ==
  /\ Handles \subseteq Nat
  /\ FirstDelay \in Nat \ {0} /\ MaxDelay \in Nat
  /\ Intervals \subseteq Nat
  /\ {MaxJobs, MaxOpens, MaxDrops, MaxEvents, MaxIds} \subseteq Nat

VARIABLES
  up,       (* whether hopen reaches the server                            *)
  stage,    (* closed, open, in the list, in the list with its address     *)
  auto,     (* the reconnect flag of each handle                           *)
  from,     (* history: the call of o each handle goes back to, 0 for none *)
  opens,    (* history: calls of o by the process                          *)
  shut,     (* history: calls of o whose connection was closed with c      *)
  gaveUp,   (* history: calls of o that are not tried again                *)
  added,    (* history: other jobs of the process                          *)
  drops     (* history: connections lost                                   *)

handles == <<stage, auto, from>>
bounds == <<opens, added, drops>>
vars == <<timerVars, up, handles, bounds, shut, gaveUp>>

Stages == {"closed", "open", "listed", "known"}
Origins == 1 .. opens

(* The callbacks: a projection {...}[s;i] with its two arguments, and the  *)
(* other jobs of the process.                                              *)
Retry(known, delay, o) ==
  [kind |-> "retry", known |-> known, delay |-> delay, from |-> o]
User == [kind |-> "user", known |-> FALSE, delay |-> 0, from |-> 0]
Fns == [kind : {"retry", "user"}, known : BOOLEAN, delay : Nat, from : Nat]

ConnTypeOK ==
  /\ TimerTypeOK(Fns)
  /\ up \in BOOLEAN
  /\ stage \in [Handles -> Stages]
  /\ auto \in [Handles -> BOOLEAN]
  /\ from \in [Handles -> 0 .. opens]
  /\ opens \in 0 .. MaxOpens /\ drops \in 0 .. MaxDrops
  /\ added \in 0 .. MaxJobs
  /\ shut \cup gaveUp \subseteq Origins

Init ==
  /\ TimerInit
  /\ up = TRUE
  /\ stage = [h \in Handles |-> "closed"]
  /\ auto = [h \in Handles |-> FALSE]
  /\ from = [h \in Handles |-> 0]
  /\ opens = 0 /\ added = 0 /\ drops = 0
  /\ shut = {} /\ gaveUp = {}

(* q code of the process runs between two events or in a callback; events  *)
(* are served when no callback is running.                                 *)
UserCalling == Calling /\ Called.fn = User
QRuns == ~ticking \/ UserCalling

-----------------------------------------------------------------------------
(* The lowest descriptor that is free.                                     *)
Lowest(h) ==
  /\ stage[h] = "closed"
  /\ \A g \in Handles : stage[g] = "closed" => h <= g

(* o: hopen gave handle h.                                                 *)
O(h, ar, o) ==
  /\ up
  /\ Lowest(h)
  /\ stage' = [stage EXCEPT ![h] = "open"]
  /\ auto' = [auto EXCEPT ![h] = ar]
  /\ from' = [from EXCEPT ![h] = o]

Open(h, ar) ==
  /\ QRuns
  /\ opens < MaxOpens
  /\ opens' = opens + 1
  /\ O(h, ar, opens + 1)
  /\ UNCHANGED <<timerVars, up, added, drops, shut, gaveUp>>

(* .z.po: the other side connected.                                        *)
Accept(h) ==
  /\ ~ticking
  /\ Lowest(h)
  /\ stage' = [stage EXCEPT ![h] = "listed"]
  /\ UNCHANGED <<timerVars, up, auto, from, bounds, shut, gaveUp>>

(* The other side has called po with the handle and the flag.              *)
Po(h) ==
  /\ ~ticking
  /\ stage[h] = "open"
  /\ stage' = [stage EXCEPT ![h] = "listed"]
  /\ UNCHANGED <<timerVars, up, auto, from, bounds, shut, gaveUp>>

(* The other side has called rp with its port.                             *)
Rp(h) ==
  /\ ~ticking
  /\ stage[h] = "listed"
  /\ stage' = [stage EXCEPT ![h] = "known"]
  /\ UNCHANGED <<timerVars, up, auto, from, bounds, shut, gaveUp>>

Pc_RetryingAll(h, ar) ==
  /\ stage' = [stage EXCEPT ![h] = "closed"]
  /\ auto' = [auto EXCEPT ![h] = FALSE]
  /\ from' = [from EXCEPT ![h] = 0]
  /\ IF stage[h] \in {"listed", "known"}
     THEN Nt(TRUE, Retry(stage[h] = "known", 2 * FirstDelay, from[h]),
             FirstDelay)
     ELSE UNCHANGED jobs
(* .z.pc: a handle in the list leaves it and, with the flag ar, a once job *)
(* is set up to reconnect to the address the list has for it, known or not *)
Pc(h, ar) ==
  /\ stage' = [stage EXCEPT ![h] = "closed"]
  /\ auto' = [auto EXCEPT ![h] = FALSE]
  /\ from' = [from EXCEPT ![h] = 0]
  /\ IF ar /\ stage[h] \in {"listed", "known"}
     THEN Nt(TRUE, Retry(stage[h] = "known", 2 * FirstDelay, from[h]),
             FirstDelay)
     ELSE UNCHANGED jobs

(* The connection is lost, and q calls .z.pc.                              *)
Drop(h) ==
  /\ ~ticking
  /\ stage[h] # "closed"
  /\ drops < MaxDrops /\ added + drops < MaxEvents
  /\ drops' = drops + 1
  /\ Pc(h, auto[h])
  /\ UNCHANGED <<tick, calls, rmd, up, opens, added, shut, gaveUp>>

(* c: hclose, the flag off, and .z.pc.                                     *)
C(h) ==
  /\ QRuns
  /\ stage[h] # "closed"
  /\ Pc(h, FALSE)
  /\ shut' = shut \cup ({from[h]} \ {0})
  /\ UNCHANGED <<tick, calls, rmd, up, bounds, gaveUp>>

-----------------------------------------------------------------------------
RetryFails_Dropped(f) == UNCHANGED <<jobs, handles, gaveUp>>
(* The handle is negative: another once job, or no more.                   *)
RetryFails(f) ==
  /\ IF f.delay < MaxDelay
     THEN /\ Nt(TRUE, Retry(f.known, 2 * f.delay, f.from), f.delay)
          /\ UNCHANGED gaveUp
     ELSE /\ gaveUp' = gaveUp \cup {f.from}
          /\ UNCHANGED jobs
  /\ UNCHANGED handles

(* The callback of the once job.  hopen of a null symbol fails, and so it  *)
(* does without a free descriptor.                                         *)
Reconnect ==
  /\ Calling
  /\ Called.fn.kind = "retry"
  /\ LET f == Called.fn
     IN  IF f.known /\ up /\ \E h \in Handles : stage[h] = "closed"
         THEN /\ \E h \in Handles : O(h, TRUE, f.from)
              /\ UNCHANGED <<jobs, gaveUp>>
         ELSE RetryFails(f)
  /\ Returned
  /\ UNCHANGED <<rmd, up, bounds, shut>>

-----------------------------------------------------------------------------
(* The rest of the process: add and once, rm, callbacks that return or     *)
(* fail.                                                                   *)
UserAdds(once, int) ==
  /\ QRuns
  /\ added < MaxJobs /\ added + drops < MaxEvents
  /\ added' = added + 1
  /\ Nt(once, User, int)
  /\ UNCHANGED <<tick, calls, rmd, up, handles, opens, drops, shut, gaveUp>>

UserRemoves(id) ==
  /\ QRuns
  /\ \E row \in t : row.id = id /\ row.fn = User
  /\ Rm(id)
  /\ UNCHANGED <<i, tick, calls, up, handles, bounds, shut, gaveUp>>

UserReturns ==
  /\ UserCalling
  /\ Returned
  /\ UNCHANGED <<jobs, rmd, up, handles, bounds, shut, gaveUp>>

UserThrows ==
  /\ UserCalling
  /\ i < MaxIds
  /\ Threw
  /\ UNCHANGED <<up, handles, bounds, shut, gaveUp>>

TickStep ==
  /\ StartTick \/ EndTick
  /\ UNCHANGED <<up, handles, bounds, shut, gaveUp>>

(* The server stops or comes back; connections do not notice at once.      *)
Server ==
  /\ up' = ~up
  /\ UNCHANGED <<timerVars, handles, bounds, shut, gaveUp>>

Next ==
  \/ \E h \in Handles :
       \/ \E ar \in BOOLEAN : Open(h, ar)
       \/ Accept(h) \/ Po(h) \/ Rp(h) \/ Drop(h) \/ C(h)
  \/ \E once \in BOOLEAN, int \in Intervals : UserAdds(once, int)
  \/ \E id \in 0 .. i - 1 : UserRemoves(id)
  \/ Reconnect \/ UserReturns \/ UserThrows
  \/ TickStep
  \/ Server

Spec == Init /\ [][Next]_vars

(* The timer of q fires, and callbacks end.                                *)
FairSpec == Spec /\ WF_vars(TickStep \/ Reconnect \/ UserReturns)

-----------------------------------------------------------------------------
OpenFor(o) == {h \in Handles : stage[h] # "closed" /\ from[h] = o}

(* The reconnections that are to come: in the list of jobs and, during a   *)
(* tick, not called yet.                                                   *)
RetriesFor(o) ==
  {row \in t :
     /\ row.fn.kind = "retry" /\ row.fn.from = o
     /\ row.rest > 0 \/ ~ticking \/ row.id \in Ids(due)}

(* However often it is lost, what one call of o opened is at any time one  *)
(* connection or one reconnection to come, never two.  A failing callback  *)
(* breaks this, as it makes once jobs run again.                           *)
OneConnectionPerOpen ==
  ~failed =>
    \A o \in Origins :
      Cardinality(OpenFor(o)) + Cardinality(RetriesFor(o)) <= 1

(* A connection closed with c is not opened again.                         *)
ClosedStaysClosed ==
  ~failed => \A o \in shut : OpenFor(o) = {} /\ RetriesFor(o) = {}

(* .z.pc, c and the retries agree on each connection o opened: there is at *)
(* most one of it, counting the retry to come, and none once it is closed. *)
OneLink == ConnTypeOK /\ OneConnectionPerOpen /\ ClosedStaysClosed

(* A callback that fails keeps .z.ts from the jobs behind it in the list.  *)
FailsBefore(id) == UserThrows /\ Called.id < id

(* A reconnection set up is carried out: the connection is open again or   *)
(* the attempts are over, unless callbacks fail again and again.           *)
RetriesEnd ==
  \A o \in 1 .. MaxOpens :
    \/ []<><<UserThrows>>_vars
    \/ RetriesFor(o) # {} ~> OpenFor(o) # {} \/ o \in gaveUp

(* A job with a positive interval is called or removed, unless a job that  *)
(* was added before it fails again and again: one that comes after it may  *)
(* fail at every tick.  (A once job with the interval 0 that a callback    *)
(* adds is dropped at the end of the tick, uncalled.)                      *)
JobsAreCalled ==
  \A id \in 0 .. MaxIds - 1 :
    \/ []<><<FailsBefore(id)>>_vars
    \/ (\E row \in t : row.id = id /\ row.int > 0) ~> id \in ran \cup rmd
=============================================================================
