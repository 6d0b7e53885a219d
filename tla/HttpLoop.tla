------------------------------ MODULE HttpLoop ------------------------------
(***************************************************************************)
(* http/src/http.c: the q main thread posts requests to a loop thread that *)
(* runs them with curl_multi, and calls the callbacks of those that ended. *)
(* Both directions are pipes that carry pointers; a write to a full pipe   *)
(* blocks.  A request is named by its address, which malloc gives out      *)
(* again once rqrm has freed it.                                           *)
(*                                                                         *)
(* curl is modelled from the calls the code makes: a transfer may end in   *)
(* any curl_multi_perform, and there is no timeout, so it may also never   *)
(* end.  Each end queues one message for curl_multi_info_read.             *)
(***************************************************************************)
EXTENDS Integers, Sequences, FiniteSets, Functions

CONSTANTS
  Requests,  (* the addresses malloc can return for a struct RQS           *)
  PipeCap,   (* how many pointers a pipe holds                             *)
  NoRequest  (* a local variable rq outside its scope                      *)

ASSUME HttpAssumption ==
  /\ IsFiniteSet(Requests)
  /\ PipeCap \in Nat \ {0}
  /\ NoRequest \notin Requests

VARIABLES
  alive,    (* the list RQH: requests allocated and not freed              *)
  rqin,     (* the pipe to the loop thread                                 *)
  rqout,    (* the pipe back to the main thread                            *)
  posting,  (* the request postAsync is writing to rqin                    *)
  called,   (* the request whose callback rqcb is running                  *)
  handles,  (* the requests that have an easy handle in the multi handle   *)
  running,  (* those whose transfer has not ended                          *)
  messages, (* the messages curl_multi_info_read has not returned          *)
  lpc,      (* where the loop thread is in rqloop                          *)
  lrq,      (* its local variable rq while it answers                      *)
  coded     (* the requests whose rc and ec are set                        *)

main == <<alive, posting, called>>
curl == <<handles, running, messages>>
loop == <<lpc, lrq>>
vars == <<main, curl, loop, rqin, rqout, coded>>

LoopPlaces == {"select", "drain", "write", "remove", "perform"}

HttpTypeOK ==
  /\ alive \subseteq Requests
  /\ rqin \in Seq(Requests) /\ Len(rqin) <= PipeCap
  /\ rqout \in Seq(Requests) /\ Len(rqout) <= PipeCap
  /\ posting \in Requests \cup {NoRequest}
  /\ called \in Requests \cup {NoRequest}
  /\ running \subseteq handles /\ handles \subseteq Requests
  /\ messages \in Seq(handles)
  /\ lpc \in LoopPlaces
  /\ lrq \in Requests \cup {NoRequest}
  /\ coded \subseteq Requests

(* init: the pipes, the list, and the loop thread.                         *)
Init ==
  /\ alive = {} /\ posting = NoRequest /\ called = NoRequest
  /\ rqin = << >> /\ rqout = << >>
  /\ handles = {} /\ running = {} /\ messages = << >>
  /\ lpc = "select" /\ lrq = NoRequest
  /\ coded = {}

-----------------------------------------------------------------------------
(* postAsync up to its write, called by q code, from a callback or not:    *)
(* rqadd puts a new request in the list.                                   *)
Post(r) ==
  /\ posting = NoRequest
  /\ r \notin alive
  /\ alive' = alive \cup {r}
  /\ coded' = coded \ {r}
  /\ posting' = r
  /\ UNCHANGED <<called, rqin, rqout, curl, loop>>

WriteIn_Repeated ==
  /\ posting # NoRequest
  /\ Len(rqin) < PipeCap
  /\ rqin' = Append(rqin, posting)
  /\ posting' \in {posting, NoRequest}
  /\ UNCHANGED <<alive, called, rqout, curl, loop, coded>>
(* The write of postAsync, which waits while the pipe is full.             *)
WriteIn ==
  /\ posting # NoRequest
  /\ Len(rqin) < PipeCap
  /\ rqin' = Append(rqin, posting)
  /\ posting' = NoRequest
  /\ UNCHANGED <<alive, called, rqout, curl, loop, coded>>

(* rqcb, which the event loop of q calls when rqout is readable: it reads  *)
(* a request and calls its callback,                                       *)
Call ==
  /\ posting = NoRequest
  /\ called = NoRequest
  /\ rqout # << >>
  /\ called' = Head(rqout)
  /\ rqout' = Tail(rqout)
  /\ UNCHANGED <<alive, posting, rqin, curl, loop, coded>>

(* and frees the request (rqrm).                                           *)
Return ==
  /\ posting = NoRequest
  /\ called # NoRequest
  /\ alive' = alive \ {called}
  /\ called' = NoRequest
  /\ UNCHANGED <<posting, rqin, rqout, curl, loop, coded>>

-----------------------------------------------------------------------------
AddTransfer_OneAtATime ==
  /\ lpc = "select"
  /\ rqin # << >>
  /\ running = {}
  /\ handles' = handles \cup {Head(rqin)}
  /\ running' = running \cup {Head(rqin)}
  /\ rqin' = Tail(rqin)
  /\ lpc' = "perform"
  /\ UNCHANGED <<main, rqout, messages, lrq, coded>>
(* select finds rqin readable: one request is read and added (curladd).    *)
AddTransfer ==
  /\ lpc = "select"
  /\ rqin # << >>
  /\ handles' = handles \cup {Head(rqin)}
  /\ running' = running \cup {Head(rqin)}
  /\ rqin' = Tail(rqin)
  /\ lpc' = "perform"
  /\ UNCHANGED <<main, rqout, messages, lrq, coded>>

NothingPosted_WhileRunning ==
  /\ lpc = "select"
  /\ rqin = << >>
  /\ lpc' = IF running = {} THEN "select" ELSE "drain"
  /\ UNCHANGED <<main, curl, lrq, rqin, rqout, coded>>
(* select returns with rqin not readable.  (When it fails the loop starts  *)
(* again with nothing changed.)                                            *)
NothingPosted ==
  /\ lpc = "select"
  /\ rqin = << >>
  /\ lpc' = "drain"
  /\ UNCHANGED <<main, curl, lrq, rqin, rqout, coded>>

(* curl_multi_info_read returns the end of a transfer; its codes are       *)
(* stored in the request.                                                  *)
ReadMessage ==
  /\ lpc = "drain"
  /\ messages # << >>
  /\ lrq' = Head(messages)
  /\ messages' = Tail(messages)
  /\ coded' = coded \cup {Head(messages)}
  /\ lpc' = "write"
  /\ UNCHANGED <<main, handles, running, rqin, rqout>>

(* The write of the ended request, which waits while rqout is full.        *)
WriteOut ==
  /\ lpc = "write"
  /\ Len(rqout) < PipeCap
  /\ rqout' = Append(rqout, lrq)
  /\ lpc' = "remove"
  /\ UNCHANGED <<main, curl, lrq, rqin, coded>>

RemoveTransfer_Forgotten ==
  /\ lpc = "remove"
  /\ lpc' = "drain"
  /\ lrq' = NoRequest
  /\ UNCHANGED <<main, curl, rqin, rqout, coded>>
(* curlrm: the easy handle goes, after the main thread was told.           *)
RemoveTransfer ==
  /\ lpc = "remove"
  /\ handles' = handles \ {lrq}
  /\ lrq' = NoRequest
  /\ lpc' = "drain"
  /\ UNCHANGED <<main, running, messages, rqin, rqout, coded>>

(* curl_multi_info_read has nothing more.                                  *)
Drained ==
  /\ lpc = "drain"
  /\ messages = << >>
  /\ lpc' = "perform"
  /\ UNCHANGED <<main, curl, lrq, rqin, rqout, coded>>

(* In curl_multi_perform a transfer ends, after any number of calls of     *)
(* rscb that wrote to its request.                                         *)
TransferEnds(r) ==
  /\ lpc = "perform"
  /\ r \in running
  /\ running' = running \ {r}
  /\ messages' = Append(messages, r)
  /\ UNCHANGED <<main, handles, loop, rqin, rqout, coded>>

PerformReturns ==
  /\ lpc = "perform"
  /\ lpc' = "select"
  /\ UNCHANGED <<main, curl, lrq, rqin, rqout, coded>>

-----------------------------------------------------------------------------
MainStep == WriteIn \/ Call \/ Return

LoopStep ==
  \/ AddTransfer \/ NothingPosted
  \/ ReadMessage \/ WriteOut \/ RemoveTransfer \/ Drained
  \/ PerformReturns

Next ==
  \/ \E r \in Requests : Post(r) \/ TransferEnds(r)
  \/ MainStep
  \/ LoopStep

Spec == Init /\ [][Next]_vars

(* Both threads are scheduled, callbacks return and q goes back to its     *)
(* event loop.  No transfer is promised to end.                            *)
FairSpec == Spec /\ WF_vars(MainStep) /\ WF_vars(LoopStep)

-----------------------------------------------------------------------------
Only(r) == {r} \ {NoRequest}

(* The request the loop thread has taken from curl and not yet handed over *)
Held == IF lpc = "write" THEN Only(lrq) ELSE {}

(* The places a request can be at, in the order it visits them.            *)
Places ==
  <<Only(posting), Range(rqin), running, Range(messages), Held, Range(rqout),
    Only(called)>>

(* No request is lost, duplicated or used after its end: each allocated    *)
(* request is at one place, nothing else is anywhere, and no sequence      *)
(* holds it twice.  rqrm therefore frees each request once, and no         *)
(* callback is called twice.                                               *)
OnePlace ==
  /\ alive = UNION {Places[i] : i \in DOMAIN Places}
  /\ \A i, j \in DOMAIN Places : i # j => Places[i] \cap Places[j] = {}
  /\ IsInjective(rqin) /\ IsInjective(messages) /\ IsInjective(rqout)

(* The easy handles point at the url, body, headers, buffer and error      *)
(* buffer of their request.  The loop thread tells the main thread before  *)
(* it removes the handle, so the request may be freed first, but           *)
(* curl_multi_perform never runs with such a handle.                       *)
PerformOnLiveRequests ==
  lpc = "perform" =>
    /\ handles = running \cup Range(messages)
    /\ handles \subseteq alive

(* The callback gets the result of a transfer that has ended, codes        *)
(* included.                                                               *)
CallbackIsComplete ==
  called # NoRequest => called \in coded /\ called \notin running

(* What http.c relies on without a lock: a request is in one place, curl   *)
(* works on live requests only, and the callback gets a complete result.   *)
RequestsSafe ==
  /\ HttpTypeOK
  /\ OnePlace
  /\ PerformOnLiveRequests
  /\ CallbackIsComplete

(* Each thread waits for the other to read.                                *)
Stuck ==
  /\ posting # NoRequest /\ Len(rqin) = PipeCap
  /\ lpc = "write" /\ Len(rqout) = PipeCap

(* The two threads block each other only with more than 2 * PipeCap + 1    *)
(* requests outstanding.                                                   *)
StuckNeedsMany ==
  Stuck => Cardinality(alive) >= 2 * PipeCap + 2

(* Whatever is posted meanwhile, the callback of a request whose transfer  *)
(* ended is called, unless the threads block each other.                   *)
EndedIsCalled ==
  \A r \in Requests : r \in Range(messages) ~> called = r \/ Stuck

(* Posted requests reach curl, unless the threads block each other.        *)
PostedIsStarted ==
  \A r \in Requests : posting = r ~> r \in running \/ Stuck
=============================================================================
