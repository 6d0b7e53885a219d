---------------------------- MODULE TickerPlant -----------------------------
(***************************************************************************)
(* tp/tick.q, tp/u.q and tp/r.q: a ticker plant that logs and publishes    *)
(* the messages of a feed, the realtime databases (RDBs) that subscribe to *)
(* all its tables and replay its log, and the end of the day.              *)
(*                                                                         *)
(* A q process runs one message or timer event at a time, so one of them   *)
(* is one step of the plant, built from operators on the plant's state     *)
(* (a record, see Plant) that follow the functions of tick.q and u.q.      *)
(* mode.batch is whether the plant was started with a timer interval,      *)
(* mode.logging whether it was given a directory for its log.              *)
(*                                                                         *)
(* Connections are FIFO.  An RDB that dies loses its tables; the plant     *)
(* notices later.  A plant that dies loses its buffer, and what it had     *)
(* sent may be cut short; its log survives, with a torn last message if it *)
(* died writing it.  The HDB only stores what RDBs save.                   *)
(***************************************************************************)
EXTENDS Integers, SequencesExt

CONSTANTS
  TableSeq,    (* the tables, in the order of tables`.                     *)
  Messages,    (* the messages of the feed, each sent once                 *)
  TabOf,       (* the table each message belongs to                        *)
  Stamped,     (* the messages the feed has put a time in                  *)
  Rdbs,        (* the RDBs                                                 *)
  Handles,     (* the connections of the plant                             *)
  NoHandle,    (* the connection of an RDB that is down                    *)
  Modes,       (* the ways the plant may be used, see mode                 *)
  LastDay,     (* bound: the last date of the calendar                     *)
  MaxCrashes   (* bound: how often the plant dies                          *)

Tables == {TableSeq[k] : k \in DOMAIN TableSeq}
Days == 1 .. LastDay + 1

ASSUME PlantAssumption ==
  /\ TableSeq \in Seq(Tables)
  /\ \A k, n \in DOMAIN TableSeq : TableSeq[k] = TableSeq[n] => k = n
  /\ TabOf \in [Messages -> Tables]
  /\ Stamped \subseteq Messages
  /\ NoHandle \notin Handles
  /\ Modes \subseteq [batch : BOOLEAN, logging : BOOLEAN, feedEnds : BOOLEAN]
  /\ LastDay \in Nat \ {0} /\ MaxCrashes \in Nat

VARIABLES
  mode,    (* how the plant was started, and whether the feed ends days    *)
  today,   (* .z.D                                                         *)
  up,      (* the plant is running                                         *)
  timer,   (* its timer has not been stopped                               *)
  d,       (* .u.d, the day it works on                                    *)
  i,       (* .u.i                                                         *)
  j,       (* .u.j                                                         *)
  buf,     (* its tables: rows not published yet                           *)
  w,       (* .u.w: the connections that subscribe to each table           *)
  log,     (* the log file of each day                                     *)
  torn,    (* whether a log file ends in an incomplete message             *)
  chan,    (* messages on their way to each connection                     *)
  rdb,     (* whether each RDB is down, replaying the log or live          *)
  hand,    (* its connection to the plant                                  *)
  sync,    (* what the plant answered: how much of which log to replay     *)
  rows,    (* its tables                                                   *)
  saved,   (* what RDBs have saved as the partition of each day            *)
  sent,    (* history: messages sent by the feed                           *)
  crashes  (* history: how often the plant died                             *)

Batch == mode.batch
Logging == mode.logging
FeedEndsDay == mode.feedEnds

plant == <<up, timer, d, i, j, buf, w, log, chan>>
rdbs == <<rdb, hand, sync, rows, saved>>
vars == <<mode, today, plant, torn, rdbs, sent, crashes>>

OfTable(ms, t) ==
  FlattenSeq([k \in DOMAIN ms |-> IF TabOf[ms[k]] = t THEN <<ms[k]>> ELSE << >>])

Empty == [t \in Tables |-> << >>]

(* Rows of a table, for its subscribers (upd), and the end of a day.       *)
Upd(t, ms) == [kind |-> "upd", table |-> t, rows |-> ms]
End(x) == [kind |-> "end", day |-> x]
IsRows(ms, t) == ms \in Seq(Messages) /\ OfTable(ms, t) = ms
IsItem(x) ==
  \/ x.kind = "upd" /\ x.table \in Tables /\ IsRows(x.rows, x.table)
  \/ x.kind = "end" /\ x.day \in Days

TypeOK ==
  /\ mode \in Modes
  /\ today \in 1 .. LastDay /\ d \in Days
  /\ up \in BOOLEAN /\ timer \in BOOLEAN
  /\ i \in Nat /\ j \in Nat
  /\ DOMAIN buf = Tables /\ \A t \in Tables : IsRows(buf[t], t)
  /\ w \in [Tables -> SUBSET Handles]
  /\ log \in [Days -> Seq(Messages)] /\ torn \in [Days -> BOOLEAN]
  /\ \A h \in Handles : \A k \in DOMAIN chan[h] : IsItem(chan[h][k])
  /\ rdb \in [Rdbs -> {"down", "replay", "live"}]
  /\ hand \in [Rdbs -> Handles \cup {NoHandle}]
  /\ \A r \in Rdbs : rdb[r] = "down" <=> hand[r] = NoHandle
  /\ \A r \in Rdbs : \A t \in Tables : IsRows(rows[r][t], t)
  /\ sent \subseteq Messages
  /\ crashes \in 0 .. MaxCrashes

(* tick.q has started on the first day, with an empty log.                 *)
Init ==
  /\ mode \in Modes
  /\ today = 1 /\ d = 1
  /\ up = TRUE /\ timer = TRUE
  /\ i = 0 /\ j = 0
  /\ buf = Empty
  /\ w = [t \in Tables |-> {}]
  /\ log = [x \in Days |-> << >>]
  /\ torn = [x \in Days |-> FALSE]
  /\ chan = [h \in Handles |-> << >>]
  /\ rdb = [r \in Rdbs |-> "down"]
  /\ hand = [r \in Rdbs |-> NoHandle]
  /\ sync = [r \in Rdbs |-> [n |-> 0, day |-> 1]]
  /\ rows = [r \in Rdbs |-> Empty]
  /\ saved = [x \in Days |-> {}]
  /\ sent = {} /\ crashes = 0

-----------------------------------------------------------------------------
(* The state of the plant as a value, and a step to such a value.  err is  *)
(* whether the function that made it has signalled an error.               *)
Plant == [up |-> up, timer |-> timer, d |-> d, i |-> i, j |-> j, buf |-> buf,
          w |-> w, log |-> log, chan |-> chan, err |-> FALSE]

Becomes(s) ==
  /\ up' = s.up /\ timer' = s.timer
  /\ d' = s.d /\ i' = s.i /\ j' = s.j
  /\ buf' = s.buf /\ w' = s.w /\ log' = s.log /\ chan' = s.chan

(* The process ends: its memory is gone.                                   *)
Dead(s) ==
  [s EXCEPT !.up = FALSE, !.timer = FALSE, !.i = 0, !.j = 0, !.buf = Empty,
            !.w = [t \in Tables |-> {}]]

(* Asynchronous messages: Items(h) is the sequence sent on connection h.   *)
(* What is sent to an RDB that has died is lost.                           *)
Held == {hand[r] : r \in Rdbs}
Send(s, Items(_)) ==
  [s EXCEPT !.chan = [h \in Handles |->
                        IF h \in Held THEN s.chan[h] \o Items(h) ELSE << >>]]

(* ld: open the log of day s.d, or exit because it is corrupt.             *)
Ld(s) ==
  IF torn[s.d] THEN Dead(s)
  ELSE [s EXCEPT !.i = Len(s.log[s.d]), !.j = Len(s.log[s.d])]

Endofday_NextDate(s) ==
  LET Items(h) ==
        IF \E t \in Tables : h \in s.w[t] THEN <<End(s.d + 1)>> ELSE << >>
      next == [Send(s, Items) EXCEPT !.d = s.d + 1]
  IN  IF Logging THEN Ld(next) ELSE next
(* end and endofday: tell all subscribers, and go to the next day.         *)
Endofday(s) ==
  LET Items(h) ==
        IF \E t \in Tables : h \in s.w[t] THEN <<End(s.d)>> ELSE << >>
      next == [Send(s, Items) EXCEPT !.d = s.d + 1]
  IN  IF Logging THEN Ld(next) ELSE next

Ts_LateByADay(s, x) ==
  IF x <= s.d + 1 THEN s
  ELSE IF s.d < x - 2 THEN [s EXCEPT !.timer = FALSE, !.err = TRUE]
  ELSE Endofday(s)
(* ts: the day ends, unless more than one has gone by.                     *)
Ts(s, x) ==
  IF x <= s.d THEN s
  ELSE IF s.d < x - 1 THEN [s EXCEPT !.timer = FALSE, !.err = TRUE]
  ELSE Endofday(s)

(* pub: what connection h gets of the rows ms of a table, if there are any. *)
Pub(s, t, ms, h) ==
  IF h \in s.w[t] /\ ms # << >> THEN <<Upd(t, ms)>> ELSE << >>

PubAll_FirstTableOnly(s) ==
  LET Items(h) == Pub(s, TableSeq[1], s.buf[TableSeq[1]], h)
  IN  Send(s, Items)
(* pub' over the tables.                                                   *)
PubAll(s) ==
  LET Items(h) == FlattenSeq([k \in DOMAIN TableSeq |->
                    Pub(s, TableSeq[k], s.buf[TableSeq[k]], h)])
  IN  Send(s, Items)

(* pub of one message, without a delay.                                    *)
PubNow(s, m) == LET Items(h) == Pub(s, TabOf[m], <<m>>, h) IN Send(s, Items)

(* The buffer is published and emptied, and all that is logged counted.    *)
Flush(s) == [PubAll(s) EXCEPT !.buf = Empty, !.i = s.j]

OnTimer_EndsDayFirst(s) == IF Batch THEN Flush(Ts(s, today)) ELSE Ts(s, today)
(* .z.ts.  Without a log .u.j is not defined, so i::j signals an error     *)
(* before ts is called.                                                    *)
OnTimer(s) ==
  IF ~Batch THEN Ts(s, today)
  ELSE IF Logging THEN Ts(Flush(s), today)
  ELSE [Flush(s) EXCEPT !.err = TRUE]

(* The part of upd before the message is stored or published: the day may  *)
(* have to end.                                                            *)
BeforeUpd(s, m) ==
  IF ~Batch THEN Ts(s, today)
  ELSE IF m \notin Stamped /\ d < today THEN OnTimer(s)
  ELSE s

(* The message goes to the buffer or is published,                         *)
Accept(s, m) ==
  IF Batch THEN [s EXCEPT !.buf[TabOf[m]] = Append(@, m)] ELSE PubNow(s, m)

(* and then to the log.                                                    *)
Log(s, m) ==
  IF ~Logging THEN s
  ELSE [s EXCEPT !.log[s.d] = Append(@, m),
                 !.i = IF Batch THEN @ ELSE @ + 1,
                 !.j = IF Batch THEN @ + 1 ELSE @]

-----------------------------------------------------------------------------
(* A message of the feed: upd.                                             *)
FeedUpd(m) ==
  /\ up /\ m \notin sent
  /\ sent' = sent \cup {m}
  /\ LET s == BeforeUpd(Plant, m)
     IN  Becomes(IF s.err \/ ~s.up THEN s ELSE Log(Accept(s, m), m))
  /\ UNCHANGED <<mode, today, torn, rdbs, crashes>>

(* The timer event.                                                        *)
Timer ==
  /\ up /\ timer
  /\ Becomes(OnTimer(Plant))
  /\ UNCHANGED <<mode, today, torn, rdbs, sent, crashes>>

(* "feed can send .u.endofday".                                            *)
FeedEndofday ==
  /\ FeedEndsDay
  /\ up /\ d <= LastDay
  /\ Becomes(Endofday(Plant))
  /\ UNCHANGED <<mode, today, torn, rdbs, sent, crashes>>

Midnight ==
  /\ today < LastDay
  /\ today' = today + 1
  /\ UNCHANGED <<mode, plant, torn, rdbs, sent, crashes>>

-----------------------------------------------------------------------------
(* The plant dies, and the last messages of each connection may be lost.   *)
Cut(s, keep) ==
  [s EXCEPT !.chan = [h \in Handles |->
     IF keep < Len(s.chan[h]) THEN SubSeq(s.chan[h], 1, keep) ELSE s.chan[h]]]

Dies(s, keep) ==
  /\ crashes < MaxCrashes
  /\ crashes' = crashes + 1
  /\ Becomes(Dead(Cut(s, keep)))

Keeps == 0 .. Cardinality(Messages) + LastDay

Crash ==
  /\ up
  /\ \E keep \in Keeps : Dies(Plant, keep)
  /\ UNCHANGED <<mode, today, torn, rdbs, sent>>

(* The plant dies in upd, after it published the message and before, or    *)
(* while, it is logged.                                                    *)
CrashInUpd(m) ==
  /\ up /\ m \notin sent
  /\ sent' = sent \cup {m}
  /\ LET s == BeforeUpd(Plant, m)
     IN  /\ s.up /\ ~s.err
         /\ \E keep \in Keeps : Dies(Accept(s, m), keep)
         /\ \/ UNCHANGED torn
            \/ Logging /\ torn' = [torn EXCEPT ![s.d] = TRUE]
  /\ UNCHANGED <<mode, today, rdbs>>

(* tick: the plant is started again, if the log of the day is intact.      *)
Restart ==
  /\ ~up
  /\ LET s == [Plant EXCEPT !.up = TRUE, !.timer = TRUE, !.d = today]
         opened == IF Logging THEN Ld(s) ELSE s
     IN  opened.up /\ Becomes(opened)
  /\ UNCHANGED <<mode, today, torn, rdbs, sent, crashes>>

(* "Truncate to length ... and restart": the operator does.                *)
Truncate(x) ==
  /\ ~up /\ torn[x]
  /\ torn' = [torn EXCEPT ![x] = FALSE]
  /\ UNCHANGED <<mode, today, plant, rdbs, sent, crashes>>

-----------------------------------------------------------------------------
SyncCount_WithBuffer == j
(* How much of the log a new subscriber is told to replay.                 *)
SyncCount == i

(* r.q starts: it connects, subscribes to all tables and asks for i and L  *)
(* in one call, which the plant serves in one step.                        *)
Subscribe(r, h) ==
  /\ rdb[r] = "down" /\ up
  /\ \A q \in Rdbs : hand[q] # h
  /\ \A t \in Tables : h \notin w[t]
  /\ w' = [t \in Tables |-> w[t] \cup {h}]
  /\ hand' = [hand EXCEPT ![r] = h]
  /\ sync' = [sync EXCEPT ![r] = [n |-> SyncCount, day |-> d]]
  /\ rdb' = [rdb EXCEPT ![r] = "replay"]
  /\ UNCHANGED <<mode, today, up, timer, d, i, j, buf, log, chan, torn,
                 rows, saved, sent, crashes>>

Replayed(r) ==
  [t \in Tables |-> OfTable(SubSeq(log[sync[r].day], 1, sync[r].n), t)]

(* .u.rep: the tables are set up and the log is replayed.                  *)
Replay(r) ==
  /\ rdb[r] = "replay"
  /\ rows' = [rows EXCEPT ![r] = Replayed(r)]
  /\ rdb' = [rdb EXCEPT ![r] = "live"]
  /\ UNCHANGED <<mode, today, plant, torn, hand, sync, saved, sent, crashes>>

(* The RDB takes a message of its connection: upd inserts the rows, .u.end *)
(* saves and clears the tables.                                            *)
Receive(r) ==
  /\ rdb[r] = "live"
  /\ chan[hand[r]] # << >>
  /\ LET x == Head(chan[hand[r]])
     IN  \/ /\ x.kind = "upd"
            /\ rows' = [rows EXCEPT ![r][x.table] = @ \o x.rows]
            /\ UNCHANGED saved
         \/ /\ x.kind = "end"
            /\ saved' = [saved EXCEPT ![x.day] = @ \cup {rows[r]}]
            /\ rows' = [rows EXCEPT ![r] = Empty]
  /\ chan' = [chan EXCEPT ![hand[r]] = Tail(@)]
  /\ UNCHANGED <<mode, today, up, timer, d, i, j, buf, w, log, torn, rdb,
                 hand, sync, sent, crashes>>

RdbDies(r) ==
  /\ rdb[r] # "down"
  /\ rdb' = [rdb EXCEPT ![r] = "down"]
  /\ hand' = [hand EXCEPT ![r] = NoHandle]
  /\ rows' = [rows EXCEPT ![r] = Empty]
  /\ chan' = [chan EXCEPT ![hand[r]] = << >>]
  /\ UNCHANGED <<mode, today, up, timer, d, i, j, buf, w, log, torn, sync,
                 saved, sent, crashes>>

(* .z.pc: the plant notices that a connection is closed.                   *)
Closed(h) ==
  /\ up
  /\ \A r \in Rdbs : hand[r] # h
  /\ \E t \in Tables : h \in w[t]
  /\ w' = [t \in Tables |-> w[t] \ {h}]
  /\ UNCHANGED <<mode, today, up, timer, d, i, j, buf, log, chan, torn,
                 rdbs, sent, crashes>>

-----------------------------------------------------------------------------
RdbStep(r) == Replay(r) \/ Receive(r)

Next ==
  \/ \E m \in Messages : FeedUpd(m) \/ CrashInUpd(m)
  \/ Timer \/ FeedEndofday \/ Midnight
  \/ Crash \/ Restart
  \/ \E x \in Days : Truncate(x)
  \/ \E r \in Rdbs, h \in Handles : Subscribe(r, h)
  \/ \E r \in Rdbs : RdbStep(r) \/ RdbDies(r)
  \/ \E h \in Handles : Closed(h)

Spec == Init /\ [][Next]_vars

(* The event loops run: timers fire and RDBs read what they are sent.      *)
Fairness == WF_vars(Timer) /\ \A r \in Rdbs : WF_vars(RdbStep(r))

FairSpec == Spec /\ Fairness
-----------------------------------------------------------------------------
Connected(r) == rdb[r] # "down" /\ \A t \in Tables : hand[r] \in w[t]

(* The tables of an RDB, once it has replayed the log.                     *)
Copy(r) == IF rdb[r] = "replay" THEN Replayed(r) ELSE rows[r]

(* The rows of table t among the items c.                                  *)
RowsIn(c, t) ==
  FlattenSeq([k \in DOMAIN c |->
    IF c[k].kind = "upd" /\ c[k].table = t THEN c[k].rows ELSE << >>])

(* The rows of the day the plant works on that an RDB has or will get from *)
(* its connection: those after the last end of a day.                      *)
Ends(c) == {k \in DOMAIN c : c[k].kind = "end"}
Today(r, t) ==
  LET c == chan[hand[r]]
  IN  IF Ends(c) = {} THEN Copy(r)[t] \o RowsIn(c, t)
      ELSE RowsIn(SubSeq(c, Max(Ends(c)) + 1, Len(c)), t)

(* Whenever an RDB subscribes, in the middle of a day or of a buffer, what *)
(* it replays, what is on its way and what the plant still buffers are     *)
(* together the log of the day, without a gap or a duplicate.              *)
RdbFollowsLog ==
  Logging /\ up =>
    \A r \in Rdbs : Connected(r) =>
      \A t \in Tables : Today(r, t) \o buf[t] = OfTable(log[d], t)

(* An RDB that is told that a day has ended saves exactly the log of that  *)
(* day: no row of another day, none of its own missing.                    *)
EodSavesWholeDay ==
  Logging =>
    \A x \in Days : \A tables \in saved[x] :
      \A t \in Tables : tables[t] = OfTable(log[x], t)

(* The counters the replay rests on: .u.j counts the messages in the log   *)
(* and .u.i those of them that were published.                             *)
CountersMatchLog ==
  (Logging /\ up) =>
    IF Batch
    THEN /\ j = Len(log[d])
         /\ \A t \in Tables :
              OfTable(SubSeq(log[d], 1, i), t) \o buf[t] = OfTable(log[d], t)
    ELSE i = Len(log[d])

(* The log, the counters and the copies agree in every step.               *)
CopiesFollowLog == TypeOK /\ CountersMatchLog /\ RdbFollowsLog

HasRow(r, m) ==
  \/ m \in Range(rows[r][TabOf[m]])
  \/ \E x \in Days : \E tables \in saved[x] : m \in Range(tables[TabOf[m]])

(* A logged message reaches every RDB that stays connected, unless the     *)
(* timer was stopped by a jump of the date.                                *)
LoggedIsDelivered ==
  \A r \in Rdbs, m \in Messages :
    (Connected(r) /\ m \in Range(log[d]))
      ~> (HasRow(r, m) \/ ~Connected(r) \/ ~timer)

(* After midnight the timer ends the day, unless the timer was stopped or  *)
(* fails for want of .u.j.                                                 *)
TimerEndsDay ==
  (up /\ d < today /\ (Logging \/ ~Batch)) ~> (d >= today \/ ~timer)
=============================================================================
