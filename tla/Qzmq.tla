-------------------------------- MODULE Qzmq --------------------------------
(***************************************************************************)
(* zmq/src/qzmq.c: ZeroMQ sockets in the event loop of q.  A q program     *)
(* holds contexts by their index and sockets by the file descriptor that   *)
(* ZeroMQ signals them with; q calls on_msg_cb when that descriptor is     *)
(* readable, which reads every message and passes it to .zmq.ps.           *)
(*                                                                         *)
(* q has one thread: the calls of the program come between two callbacks,  *)
(* or inside one, from .zmq.ps.  Peers and ZeroMQ itself are external.     *)
(* The descriptor is edge-triggered: ZeroMQ makes it readable when a       *)
(* message comes, and any call that makes ZeroMQ look at the socket may    *)
(* take the signal away with the message still queued.                     *)
(***************************************************************************)
EXTENDS Integers, Sequences, FiniteSets, SequencesExt

CONSTANTS Fds,          \* file descriptors
          Endpoints,
          Messages,     \* what peers and the program send: sequences of parts
          MaxContexts, MaxSockets,
          MaxTraffic    \* of messages that come and messages sent, together

Parts == UNION {{m[i] : i \in DOMAIN m} : m \in Messages}

ASSUME QzmqAssumption ==
    /\ Fds \subseteq Nat \ {0}
    /\ Messages \subseteq Seq(Parts) \ {<<>>}
    /\ {MaxContexts, MaxSockets, MaxTraffic} \subseteq Nat

VARIABLES CONTEXTS,       \* whether each context is there, by index + 1
          sockets,        \* the sockets ever made
          SOCKETS_BY_FD,  \* 0 or the socket with a descriptor
          watched,        \* descriptors q's event loop looks at
          given,          \* descriptors the program got from socket
          ps,             \* whether .zmq.ps is defined
          w,              \* .zmq.w
          cb,             \* on_msg_cb: [pc, fd, socket, envelope]
          failed,         \* whether the last call of the program was an error
          waiting,        \* the call that holds up q's thread: [fn, on, m]
          wire,           \* messages sent, whole: <<socket, parts>>
          arrived,        \* messages that came, by socket
          handled         \* messages on_msg_cb read, by socket

handles == <<CONTEXTS, SOCKETS_BY_FD, watched, given>>
inbound == <<ps, w, cb, arrived, handled>>
vars    == <<handles, inbound, sockets, wire, failed, waiting>>

NoCall == [fn |-> "none", on |-> 0, m |-> <<>>]

Idle == [pc |-> "idle", fd |-> 0, socket |-> 0, envelope |-> <<>>]

\* more holds the parts that wait for the last one, tried the messages the
\* program tried to send, signal the state of the descriptor, taken whether a
\* call took the signal of a queued message.
NewSocket(c, fd) ==
    [open |-> TRUE, ctx |-> c, fd |-> fd, eps |-> {}, queue |-> <<>>,
     more |-> <<>>, tried |-> <<>>, signal |-> FALSE, taken |-> FALSE]

Init ==
    /\ CONTEXTS = <<>> /\ sockets = <<>>
    /\ SOCKETS_BY_FD = [fd \in Fds |-> 0]
    /\ watched = {} /\ given = {}
    /\ ps = FALSE /\ w = 0
    /\ cb = Idle
    /\ failed = FALSE /\ waiting = NoCall
    /\ wire = <<>>
    /\ arrived = [s \in 1..MaxSockets |-> <<>>]
    /\ handled = [s \in 1..MaxSockets |-> <<>>]

\* The program runs: between two callbacks, or .zmq.ps inside one.
Program == cb.pc \in {"idle", "ps"} /\ waiting = NoCall

ok  == failed' = FALSE
zrr == failed' = TRUE

-----------------------------------------------------------------------------
(* Contexts and sockets *)

q_ctx_new ==
    /\ Program
    /\ Len(CONTEXTS) < MaxContexts
    /\ CONTEXTS' = Append(CONTEXTS, TRUE)
    /\ ok
    /\ UNCHANGED <<sockets, SOCKETS_BY_FD, watched, given, wire, waiting,
                   inbound>>

\* The descriptor is one no open socket has: a closed one's comes back.
q_socket(c) ==
    /\ Program
    /\ IF CONTEXTS[c] /\ Len(sockets) < MaxSockets
       THEN \E fd \in Fds :
               /\ \A s \in DOMAIN sockets : sockets[s].open => sockets[s].fd # fd
               /\ sockets' = Append(sockets, NewSocket(c, fd))
               /\ SOCKETS_BY_FD' = [SOCKETS_BY_FD EXCEPT ![fd] = Len(sockets) + 1]
               /\ watched' = watched \cup {fd}
               /\ given' = given \cup {fd}
               /\ ok
       ELSE zrr /\ UNCHANGED <<sockets, SOCKETS_BY_FD, watched, given>>
    /\ UNCHANGED <<CONTEXTS, wire, waiting, inbound>>

\* Mutant: the event loop keeps the descriptor.
q_close_KeepsWatching(fd) ==
    /\ Program
    /\ IF SOCKETS_BY_FD[fd] # 0
       THEN /\ sockets' = [sockets EXCEPT ![SOCKETS_BY_FD[fd]].open = FALSE]
            /\ SOCKETS_BY_FD' = [SOCKETS_BY_FD EXCEPT ![fd] = 0]
            /\ ok
       ELSE zrr /\ UNCHANGED <<sockets, SOCKETS_BY_FD>>
    /\ UNCHANGED <<CONTEXTS, watched, given, wire, waiting, inbound>>
q_close(fd) ==
    /\ Program
    /\ watched' = watched \ {fd}
    /\ IF SOCKETS_BY_FD[fd] # 0
       THEN /\ sockets' = [sockets EXCEPT ![SOCKETS_BY_FD[fd]].open = FALSE]
            /\ SOCKETS_BY_FD' = [SOCKETS_BY_FD EXCEPT ![fd] = 0]
            /\ ok
       ELSE zrr /\ UNCHANGED <<sockets, SOCKETS_BY_FD>>
    /\ UNCHANGED <<CONTEXTS, given, wire, waiting, inbound>>

\* A call without ZMQ_DONTWAIT holds up q's only thread as long as ZeroMQ
\* pleases.
Waits(fn, on, m) ==
    /\ waiting' = [fn |-> fn, on |-> on, m |-> m]
    /\ UNCHANGED <<sockets, wire, failed, CONTEXTS, cb>>

Destroy(c) ==
    /\ CONTEXTS' = [CONTEXTS EXCEPT ![c] = FALSE]
    /\ ok
    /\ waiting' = NoCall

\* zmq_ctx_destroy waits for the sockets of the context to be closed: q, whose
\* only thread waits, can close none of them any more.  It also waits until
\* what was sent on its closed sockets has reached the peers.
q_ctx_destroy(c) ==
    /\ Program
    /\ \/ /\ ~CONTEXTS[c]
          /\ zrr /\ UNCHANGED <<CONTEXTS, cb, waiting>>
       \/ /\ CONTEXTS[c]
          /\ \E s \in DOMAIN sockets : sockets[s].ctx = c /\ sockets[s].open
          /\ cb' = [Idle EXCEPT !.pc = "stopped"]
          /\ UNCHANGED <<CONTEXTS, failed, waiting>>
       \/ /\ CONTEXTS[c]
          /\ \A s \in DOMAIN sockets : sockets[s].ctx = c => ~sockets[s].open
          /\ \/ Destroy(c) /\ UNCHANGED cb
             \/ /\ \E i \in DOMAIN wire : sockets[wire[i][1]].ctx = c
                /\ Waits("destroy", c, <<>>)
    /\ UNCHANGED <<sockets, SOCKETS_BY_FD, watched, given, wire, ps, w, arrived,
                   handled>>

ctx_destroy_returns ==
    /\ waiting.fn = "destroy"
    /\ Destroy(waiting.on)
    /\ UNCHANGED <<sockets, SOCKETS_BY_FD, watched, given, wire, inbound>>

-----------------------------------------------------------------------------
(* Calls that leave the binding as it is: options are ZeroMQ's own state. *)

Answer(error) ==
    /\ Program
    /\ failed' = error
    /\ UNCHANGED <<handles, inbound, sockets, wire, waiting>>

q_ctx_get(c) == Answer(~CONTEXTS[c])
q_ctx_set(c) == Answer(~CONTEXTS[c])
q_version    == Answer(FALSE)

\* Arguments that are not of the types a function takes.
q_type == Answer(TRUE)

\* By the kind of an option; an "int" one is read as the type of the socket,
\* whatever its name, and only "own" ones as themselves.
q_getsockopt(fd, o) == Answer(SOCKETS_BY_FD[fd] = 0 \/ o \notin {"int", "own"})
q_setsockopt(fd, o) ==
    Answer(SOCKETS_BY_FD[fd] = 0 \/ o \notin {"int", "own", "subscribe"})

-----------------------------------------------------------------------------
(* Calls on a socket: each makes ZeroMQ look at it, which may take the signal *)

Looked(s) == {s} \cup IF s.signal
                      THEN {[s EXCEPT !.signal = FALSE,
                                      !.taken = @ \/ s.queue # <<>>]}
                      ELSE {}

Traffic ==
    (IF waiting.fn = "send" THEN 1 ELSE 0) +
    MapThenFoldSet(+, 0, LAMBDA s : Len(arrived[s]) + Len(sockets[s].tried),
                   LAMBDA S : CHOOSE s \in S : TRUE, DOMAIN sockets)

\* The socket gets the endpoints eps, or ZeroMQ refuses the call.
Endpoint(fd, possible, eps) ==
    /\ Program
    /\ LET s == SOCKETS_BY_FD[fd]
       IN  \/ /\ s # 0 /\ possible
              /\ \E x \in Looked(sockets[s]) :
                    sockets' = [sockets EXCEPT ![s] = [x EXCEPT !.eps = eps]]
              /\ ok
           \/ zrr /\ UNCHANGED sockets
    /\ UNCHANGED <<handles, wire, waiting, inbound>>

Eps(fd) == IF SOCKETS_BY_FD[fd] = 0 THEN {} ELSE sockets[SOCKETS_BY_FD[fd]].eps
Used(e) == \E s \in DOMAIN sockets : sockets[s].open /\ e \in sockets[s].eps

q_bind(fd, e)       == Endpoint(fd, ~Used(e), Eps(fd) \cup {e})
q_unbind(fd, e)     == Endpoint(fd, e \in Eps(fd), Eps(fd) \ {e})
q_connect(fd, e)    == Endpoint(fd, TRUE, Eps(fd) \cup {e})
q_disconnect(fd, e) == Endpoint(fd, e \in Eps(fd), Eps(fd) \ {e})

\* Mutant: a part that is refused is left out.
q_send_multipart_GoesOn(fd, m) ==
    /\ Program
    /\ SOCKETS_BY_FD[fd] # 0
    /\ LET s == SOCKETS_BY_FD[fd]
       IN  \E n \in 0..Len(m) :
              /\ Traffic < MaxTraffic
              /\ sockets' = [sockets EXCEPT ![s].tried = Append(@, <<m, n>>)]
              /\ wire' = Append(wire, <<s, SubSeq(m, 1, n) \o
                                           SubSeq(m, n + 2, Len(m))>>)
    /\ ok
    /\ UNCHANGED <<handles, inbound, waiting>>

\* The parts of m are sent one after the other: all of them, or n before one
\* is refused.  A message leaves with its last part, together with the parts
\* that an earlier call left behind.
Send(s, m) ==
    /\ \E n \in 0..Len(m), x \in Looked(sockets[s]) :
          LET more == x.more \o SubSeq(m, 1, n)
          IN  /\ sockets' = [sockets EXCEPT ![s] =
                    [x EXCEPT !.more = IF n = Len(m) THEN <<>> ELSE more,
                              !.tried = Append(@, <<m, n>>)]]
              /\ IF n = Len(m)
                 THEN ok /\ wire' = Append(wire, <<s, more>>)
                 ELSE zrr /\ UNCHANGED wire
    /\ waiting' = NoCall
    /\ UNCHANGED <<CONTEXTS, cb>>

\* zmq_send waits, at any part, while there is no peer or the peers are slow;
\* what it has done by then shows when it returns.
q_send_multipart(fd, m) ==
    /\ Program
    /\ LET s == SOCKETS_BY_FD[fd]
       IN  \/ /\ s = 0
              /\ zrr /\ UNCHANGED <<sockets, wire, waiting, CONTEXTS, cb>>
           \/ /\ s # 0 /\ Traffic < MaxTraffic
              /\ Send(s, m) \/ Waits("send", s, m)
    /\ UNCHANGED <<SOCKETS_BY_FD, watched, given, ps, w, arrived, handled>>

send_returns ==
    /\ waiting.fn = "send"
    /\ Send(waiting.on, waiting.m)
    /\ UNCHANGED <<SOCKETS_BY_FD, watched, given, ps, w, arrived, handled>>

q_send(fd, m) == Len(m) = 1 /\ q_send_multipart(fd, m)

-----------------------------------------------------------------------------
(* on_msg_cb *)

\* q's event loop calls back for a readable descriptor.
on_msg_cb ==
    /\ cb.pc = "idle" /\ waiting = NoCall
    /\ \E fd \in watched :
          /\ SOCKETS_BY_FD[fd] # 0 => sockets[SOCKETS_BY_FD[fd]].signal
          /\ cb' = [Idle EXCEPT !.pc = "events", !.fd = fd,
                                !.socket = SOCKETS_BY_FD[fd]]
    /\ UNCHANGED <<handles, sockets, ps, w, failed, waiting, wire, arrived, handled>>

\* Mutant: on_msg_cb looks for another event.
on_msg_events_NeverIn ==
    /\ cb.pc = "events"
    /\ sockets' = [sockets EXCEPT ![cb.socket].signal = FALSE]
    /\ cb' = Idle
    /\ UNCHANGED <<handles, ps, w, failed, waiting, wire, arrived, handled>>

\* ZMQ_EVENTS: this takes the signal.  Without a message on_msg_cb ends.  The
\* handle of a closed socket may be refused, or be memory that is gone.
on_msg_events ==
    /\ cb.pc = "events"
    /\ LET s == sockets[cb.socket]
       IN  IF s.open
           THEN /\ sockets' = [sockets EXCEPT ![cb.socket].signal = FALSE,
                                              ![cb.socket].taken = FALSE]
                /\ cb' = IF s.queue = <<>> THEN Idle
                         ELSE [cb EXCEPT !.pc = "recv", !.envelope = <<>>]
           ELSE /\ cb' \in {Idle, [Idle EXCEPT !.pc = "stopped"]}
                /\ UNCHANGED sockets
    /\ UNCHANGED <<handles, ps, w, failed, waiting, wire, arrived, handled>>

\* One part after the other; the last one has no more to come.  A message
\* that .zmq.ps is not there for is dropped.
on_msg_recv ==
    /\ cb.pc = "recv"
    /\ LET m == sockets[cb.socket].queue[1]
           envelope == Append(cb.envelope, m[Len(cb.envelope) + 1])
           last == Len(envelope) = Len(m)
       IN  /\ cb' = [cb EXCEPT !.envelope = envelope,
                        !.pc = IF ~last THEN "recv" ELSE IF ps THEN "ps"
                               ELSE "events"]
           /\ w' = IF last /\ ps THEN cb.fd ELSE w
           /\ IF last
              THEN /\ sockets' = [sockets EXCEPT ![cb.socket].queue = Tail(@)]
                   /\ handled' = [handled EXCEPT ![cb.socket] =
                                     Append(@, <<envelope, ps>>)]
              ELSE UNCHANGED <<sockets, handled>>
    /\ UNCHANGED <<handles, ps, failed, waiting, wire, arrived>>

\* Mutants: .zmq.w is left as it is; one message is read per callback.
on_msg_ps_KeepsW ==
    /\ cb.pc = "ps" /\ waiting = NoCall
    /\ cb' = [cb EXCEPT !.pc = "events"]
    /\ UNCHANGED <<handles, sockets, ps, w, failed, waiting, wire, arrived, handled>>
on_msg_ps_ReadsOne ==
    /\ cb.pc = "ps" /\ waiting = NoCall
    /\ w' = 0
    /\ cb' = Idle
    /\ UNCHANGED <<handles, sockets, ps, failed, waiting, wire, arrived, handled>>

\* .zmq.ps returns.
on_msg_ps ==
    /\ cb.pc = "ps" /\ waiting = NoCall
    /\ w' = 0
    /\ cb' = [cb EXCEPT !.pc = "events"]
    /\ UNCHANGED <<handles, sockets, ps, failed, waiting, wire, arrived, handled>>

-----------------------------------------------------------------------------
(* The program defines .zmq.ps; a peer sends; a process that hangs or died *)
(* stays that way.                                                         *)

Define ==
    /\ Program
    /\ ps' = ~ps
    /\ UNCHANGED <<handles, sockets, w, cb, failed, waiting, wire, arrived, handled>>

Arrive(s, m) ==
    /\ sockets[s].open /\ sockets[s].eps # {}
    /\ Traffic < MaxTraffic
    /\ arrived' = [arrived EXCEPT ![s] = Append(@, m)]
    /\ sockets' = [sockets EXCEPT ![s].queue = Append(@, m), ![s].signal = TRUE]
    /\ UNCHANGED <<handles, ps, w, cb, failed, waiting, wire, handled>>

Stopped == cb.pc = "stopped" /\ UNCHANGED vars

Calls ==
    \/ q_ctx_new \/ q_version \/ q_type \/ Define
    \/ \E c \in DOMAIN CONTEXTS :
          q_socket(c) \/ q_ctx_destroy(c) \/ q_ctx_get(c) \/ q_ctx_set(c)
    \/ \E fd \in given :
          \/ q_close(fd)
          \/ \E o \in {"int", "own", "subscribe", "unknown"} : q_getsockopt(fd, o) \/ q_setsockopt(fd, o)
          \/ \E e \in Endpoints : \/ q_bind(fd, e) \/ q_unbind(fd, e)
                                  \/ q_connect(fd, e) \/ q_disconnect(fd, e)
          \/ \E m \in Messages : q_send(fd, m) \/ q_send_multipart(fd, m)

Next ==
    \/ Calls \/ ctx_destroy_returns \/ send_returns
    \/ on_msg_cb \/ on_msg_events \/ on_msg_recv \/ on_msg_ps
    \/ \E s \in DOMAIN sockets, m \in Messages : Arrive(s, m)
    \/ Stopped

\* q's loop serves a readable descriptor, on_msg_cb runs on, .zmq.ps returns.
\* Nothing makes ZeroMQ end a call that waits.
Fairness == /\ WF_vars(on_msg_cb) /\ WF_vars(on_msg_events)
            /\ WF_vars(on_msg_recv) /\ WF_vars(on_msg_ps)

Spec == Init /\ [][Next]_vars /\ Fairness

-----------------------------------------------------------------------------
(* Properties *)

\* The variables have their types.
QzmqTypeOK ==
    /\ Len(CONTEXTS) <= MaxContexts /\ Len(sockets) <= MaxSockets
    /\ SOCKETS_BY_FD \in [Fds -> 0..Len(sockets)]
    /\ watched \subseteq given /\ given \subseteq Fds
    /\ w \in Fds \cup {0}
    /\ cb.pc \in {"idle", "events", "recv", "ps", "stopped"}
    /\ waiting.fn \in {"none", "send", "destroy"}
    /\ waiting # NoCall => cb.pc \in {"idle", "ps"}

\* Whatever is closed and opened, inside a callback or not, the table, the
\* event loop and the sockets agree: q looks at the descriptor of every open
\* socket and at no other, and finds that socket there (q_socket, q_close).
TableMatchesSockets ==
    /\ watched = {fd \in Fds : SOCKETS_BY_FD[fd] # 0}
    /\ \A s \in DOMAIN sockets :
          sockets[s].open <=> SOCKETS_BY_FD[sockets[s].fd] = s

\* .zmq.ps finds in .zmq.w the descriptor of the socket its message came on,
\* also after it closed that socket or opened others; outside it .zmq.w is 0
\* (on_msg_cb).
WDuringCallback ==
    cb.pc # "stopped" =>
       w = IF cb.pc = "ps" THEN sockets[cb.socket].fd ELSE 0

\* Messages are taken whole, in the order in which they came, each once,
\* whether the signal came before, during or after a callback (on_msg_cb).
MessagesInOrder ==
    \A s \in DOMAIN sockets :
       LET whole == [i \in DOMAIN handled[s] |-> handled[s][i][1]]
       IN  arrived[s] = whole \o sockets[s].queue

\* A message waits without a signal for the event loop, and without on_msg_cb
\* reading its socket, only if a call of the program took the signal away.
StuckOnlyIfTaken ==
    \A s \in DOMAIN sockets :
       \/ ~sockets[s].open \/ sockets[s].queue = <<>>
       \/ sockets[s].signal \/ sockets[s].taken
       \/ cb.socket = s
       \/ cb.pc = "stopped"

\* What leaves a socket is a message the program sent, behind the parts of
\* those whose sending failed half-way just before it (q_send_multipart).
MergedOnlyAfterFailure ==
    \A i \in DOMAIN wire :
       LET tried == sockets[wire[i][1]].tried
           whole(k) == tried[k][2] = Len(tried[k][1])
           sent(k)  == SubSeq(tried[k][1], 1, tried[k][2])
       IN  \E k, l \in DOMAIN tried :
              /\ k <= l /\ whole(l)
              /\ \A j \in k..(l - 1) : ~whole(j)
              /\ wire[i][2] = FlattenSeq([j \in 1..(l - k + 1) |-> sent(k + j - 1)])

\* on_msg_cb is at work on a closed socket only if .zmq.ps, called for a
\* message of that socket, closed it: q never calls back for a closed one.
ClosedOnlyInside ==
    cb.pc \in {"events", "recv", "ps"} =>
       /\ cb.socket # 0
       /\ \/ sockets[cb.socket].open
          \/ cb.pc # "recv" /\ \E i \in DOMAIN handled[cb.socket] :
                                  handled[cb.socket][i][2]

\* The table of sockets, the event loop of q and the sockets agree.
SocketsAgree == QzmqTypeOK /\ TableMatchesSockets

\* The callback and the q function it calls know which socket they are about.
CallbackKnowsSocket == WDuringCallback /\ ClosedOnlyInside

\* No message is lost, split or passed over by the reads and signals.
NoneLostOrStuck == MessagesInOrder /\ StuckOnlyIfTaken

\* Every message that comes is read, also when calls hold up q's thread for a
\* while, unless one of them holds it up for ever (a send without a peer, the
\* end of a context), the socket is closed, or a call on it takes the signal
\* (on_msg_cb under q's event loop).
MessagesRead ==
    \A s \in 1..MaxSockets, n \in 1..MaxTraffic :
       \/ <>[](waiting # NoCall \/ cb.pc = "stopped")
       \/ Len(arrived[s]) >= n ~> \/ Len(handled[s]) >= n
                                  \/ s \in DOMAIN sockets /\
                                        (~sockets[s].open \/ sockets[s].taken)
=============================================================================
