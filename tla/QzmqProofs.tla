----------------------------- MODULE QzmqProofs -----------------------------
(***************************************************************************)
(* Proofs about Qzmq.tla, for every set of descriptors, endpoints and      *)
(* messages and every number of contexts and sockets: the table of sockets *)
(* is exact, on_msg_cb knows the socket it reads, and no message is lost,  *)
(* split, reordered or passed over.  Liveness stays with TLC.              *)
(***************************************************************************)
EXTENDS Qzmq, SequenceTheorems, WellFoundedInduction, TLAPS

(* Every set of numbers that is not empty has a least one.                 *)
LEMMA Least ==
  ASSUME NEW S, S \subseteq Nat, S # {}
  PROVE  \E n \in S : \A m \in S : n <= m
<1>1. PICK n \in S : \A m \in S : ~(<<m, n>> \in OpToRel(<, Nat))
      BY NatLessThanWellFounded, WFMin
<1>2. \A m \in S : n <= m
  <2>1. SUFFICES ASSUME NEW m \in S, ~(n <= m)
                 PROVE  FALSE
        OBVIOUS
  <2>2. m \in Nat /\ n \in Nat /\ m < n
        BY <2>1
  <2>3. <<m, n>> \in {ss \in Nat \X Nat : ss[1] < ss[2]}
        BY <2>2
  <2>4. <<m, n>> \in OpToRel(<, Nat)
        BY <2>3 DEF OpToRel
  <2> QED
      BY <1>1, <2>4
<1> QED
    BY <1>2

(* Induction without an operator: a set of numbers with 0 and successors.   *)
LEMMA Induction ==
  ASSUME NEW N \in Nat, NEW S, 0 \in S,
         \A n \in 0 .. N - 1 : n \in S => n + 1 \in S
  PROVE  0 .. N \subseteq S
<1> SUFFICES ASSUME ~(0 .. N \subseteq S) PROVE FALSE
    OBVIOUS
<1> DEFINE B == {n \in 0 .. N : n \notin S}
<1>1. B \subseteq Nat /\ B # {}
      OBVIOUS
<1>2. PICK n \in B : \A m \in B : n <= m
      BY <1>1, Least
<1>3. n # 0 /\ n - 1 \in 0 .. N - 1 /\ n - 1 \notin B
      BY <1>1, <1>2
<1>4. n - 1 \in S
      BY <1>3
<1>5. (n - 1) + 1 \in S
      BY <1>3, <1>4
<1> QED
    BY <1>2, <1>5

(* A recursion on an interval has a function that satisfies it. *)
Follows(g, N, f0, H) == g[0] = f0 /\ \A n \in 1 .. N : g[n] = H[n][g[n - 1]]
LEMMA Recursion ==
  ASSUME NEW N \in Nat, NEW D, NEW f0 \in D, NEW H \in [1 .. N -> [D -> D]]
  PROVE  \E g \in [0 .. N -> D] : Follows(g, N, f0, H)
<1> DEFINE P(k) == \E g \in [0 .. k -> D] :
                      g[0] = f0 /\ \A n \in 1 .. k : g[n] = H[n][g[n - 1]]
<1> DEFINE S == {k \in 0 .. N : P(k)}
<1>1. 0 \in S
  <2> DEFINE g == [n \in 0 .. 0 |-> f0]
  <2>1. g \in [0 .. 0 -> D] /\ g[0] = f0
        OBVIOUS
  <2>2. \A n \in 1 .. 0 : g[n] = H[n][g[n - 1]]
        OBVIOUS
  <2>3. P(0)
        BY <2>1, <2>2
  <2> QED
      BY <2>3
<1>2. ASSUME NEW k \in 0 .. N - 1, k \in S PROVE k + 1 \in S
  <2>1. PICK g \in [0 .. k -> D] :
             g[0] = f0 /\ \A n \in 1 .. k : g[n] = H[n][g[n - 1]]
        BY <1>2
  <2> DEFINE h == [n \in 0 .. k + 1 |-> IF n = k + 1 THEN H[n][g[k]] ELSE g[n]]
  <2>2. H[k + 1] \in [D -> D] /\ g[k] \in D
        OBVIOUS
  <2>3. H[k + 1][g[k]] \in D
        BY <2>2
  <2>4. h \in [0 .. k + 1 -> D]
        BY <2>3
  <2>5. h[0] = f0
        BY <2>1
  <2>6. \A n \in 1 .. k + 1 : h[n] = H[n][h[n - 1]]
        BY <2>1
  <2>7. k + 1 \in 0 .. N
        OBVIOUS
  <2> QED
      BY <2>4, <2>5, <2>6, <2>7
<1> HIDE DEF S
<1>3. 0 .. N \subseteq S
      BY <1>1, <1>2, Induction
<1>4. P(N)
    BY <1>3 DEF S
<1> QED
    BY <1>4 DEF Follows

(* What FlattenSeq chooses.                                                *)
IsFlatten(F, N, s) ==
  F = [i \in 1 .. N |-> IF i = 1 THEN s[i] ELSE F[i - 1] \o s[i]]
(* A function as FlattenSeq chooses one exists,                            *)
LEMMA FlattenExists ==
  ASSUME NEW D, NEW N \in Nat, N # 0, NEW s \in [1 .. N -> Seq(D)]
  PROVE  \E F \in [1 .. N -> Seq(D)] : IsFlatten(F, N, s)
<1> DEFINE H == [n \in 1 .. N |-> [q \in Seq(D) |-> q \o s[n]]]
<1>1. H \in [1 .. N -> [Seq(D) -> Seq(D)]]
      OBVIOUS
<1> HIDE DEF H
<1> PICK e \in Seq(D) : e = << >>
    BY EmptySeq
<1>2. \E g \in [0 .. N -> Seq(D)] : Follows(g, N, e, H)
  <2>1. N \in Nat
        OBVIOUS
  <2> QED
      BY <1>1, <2>1, Recursion
<1> PICK g \in [0 .. N -> Seq(D)] :
        g[0] = e /\ \A n \in 1 .. N : g[n] = H[n][g[n - 1]]
      BY <1>2 DEF Follows
<1>3. 1 \in 1 .. N
      OBVIOUS
<1>4. \A n \in 1 .. N : g[n - 1] \in Seq(D)
      OBVIOUS
<1>5. \A n \in 1 .. N : g[n] = g[n - 1] \o s[n]
      BY <1>4 DEF H
<1>6. g[1] = s[1]
  <2>1. s[1] \in Seq(D) /\ g[1 - 1] = e
        BY <1>3
  <2>2. g[1] = e \o s[1]
        BY <1>3, <1>5, <2>1
  <2> QED
      BY <2>1, <2>2, ConcatEmptySeq
<1> DEFINE F == [i \in 1 .. N |-> g[i]]
<1>7. F \in [1 .. N -> Seq(D)]
      OBVIOUS
<1>8. \A i \in 1 .. N : F[i] = IF i = 1 THEN s[i] ELSE F[i - 1] \o s[i]
  <2>1. \A i \in 1 .. N : i # 1 => i - 1 \in 1 .. N
        OBVIOUS
  <2> QED
      BY <1>5, <1>6, <2>1
<1> HIDE DEF F
<1>9. F = [i \in 1 .. N |-> IF i = 1 THEN s[i] ELSE F[i - 1] \o s[i]]
      BY <1>7, <1>8
<1> QED
    BY <1>7, <1>9 DEF IsFlatten

(* Its values, the last of them the result.                                *)
Unfolds(F, N, s) ==
  /\ F[1] = s[1]
  /\ \A i \in 1 .. N : i # 1 => F[i] = F[i - 1] \o s[i]
  /\ FlattenSeq(s) = F[N]

(* so FlattenSeq joins the sequences from the left.                        *)
LEMMA FlattenUnfolds ==
  ASSUME NEW D, NEW N \in Nat, N # 0,
         NEW s \in [1 .. N -> Seq(D)], s \in Seq(Seq(D)), Len(s) = N
  PROVE  \E F \in [1 .. N -> Seq(D)] : Unfolds(F, N, s)
<1> DEFINE C == CHOOSE f : IsFlatten(f, N, s)
<1>1. \E f : IsFlatten(f, N, s)
      BY FlattenExists
<1>2. IsFlatten(C, N, s)
      BY <1>1
<1>3. FlattenSeq(s) = C[N]
      BY DEF FlattenSeq, IsFlatten
<1> HIDE DEF C
<1>4. \A i \in 1 .. N : C[i] = IF i = 1 THEN s[i] ELSE C[i - 1] \o s[i]
      BY <1>2 DEF IsFlatten
<1> DEFINE S == {n \in 0 .. N : n # 0 => C[n] \in Seq(D)}
<1>5. 0 .. N \subseteq S
  <2>1. 0 \in S
        OBVIOUS
  <2>2. ASSUME NEW n \in 0 .. N - 1, n \in S PROVE n + 1 \in S
    <3>1. n + 1 \in 1 .. N /\ s[n + 1] \in Seq(D) /\ (n + 1) - 1 = n
          OBVIOUS
    <3>2. C[n + 1] = IF n + 1 = 1 THEN s[n + 1] ELSE C[n] \o s[n + 1]
          BY <1>4, <3>1
    <3>3. C[n + 1] \in Seq(D)
          BY <2>2, <3>1, <3>2
    <3> QED BY <3>1, <3>3
  <2> HIDE DEF S
  <2> QED BY <2>1, <2>2, Induction
<1>6. C \in [1 .. N -> Seq(D)]
  <2>1. \A i \in 1 .. N : C[i] \in Seq(D)
     BY <1>5
  <2> QED BY <1>2, <2>1 DEF IsFlatten
<1>7. C[1] = s[1] /\ \A i \in 1 .. N : i # 1 => C[i] = C[i - 1] \o s[i]
  <2>1. 1 \in 1 .. N
        OBVIOUS
  <2> QED
      BY <1>4, <2>1
<1> QED
    BY <1>3, <1>6, <1>7 DEF Unfolds

(* The partial results of FlattenSeq, from the empty one on.               *)
Joins(F, s) ==
  F[0] = << >> /\ \A n \in 1 .. Len(s) : F[n] = F[n - 1] \o s[n]

LEMMA FlattenJoins ==
  ASSUME NEW D, NEW s \in Seq(Seq(D))
  PROVE  \E F \in [0 .. Len(s) -> Seq(D)] :
            Joins(F, s) /\ FlattenSeq(s) = F[Len(s)]
<1>1. Len(s) \in Nat /\ s \in [1 .. Len(s) -> Seq(D)]
      BY LenProperties
<1>2. << >> \in Seq(D)
      BY EmptySeq
<1>3. CASE Len(s) = 0
  <2> DEFINE F == [n \in 0 .. 0 |-> << >>]
  <2>1. F \in [0 .. Len(s) -> Seq(D)] /\ F[0] = << >>
        BY <1>2, <1>3
  <2>2. s = << >>
        BY <1>3, EmptySeq
  <2>3. FlattenSeq(s) = F[Len(s)]
        BY <1>3, <2>2 DEF FlattenSeq
  <2>4. Joins(F, s)
        BY <1>3, <2>1 DEF Joins
  <2> QED
      BY <2>1, <2>3, <2>4
<1>4. CASE Len(s) # 0
  <2> PICK N \in Nat : N = Len(s)
      BY <1>1
  <2>1. \E F \in [1 .. N -> Seq(D)] : Unfolds(F, N, s)
        BY <1>1, <1>4, FlattenUnfolds
  <2> PICK F \in [1 .. N -> Seq(D)] :
           /\ F[1] = s[1]
           /\ \A i \in 1 .. N : i # 1 => F[i] = F[i - 1] \o s[i]
           /\ FlattenSeq(s) = F[N]
        BY <2>1 DEF Unfolds
  <2> DEFINE G == [n \in 0 .. N |-> IF n = 0 THEN << >> ELSE F[n]]
  <2>2. G \in [0 .. N -> Seq(D)]
        BY <1>2
  <2>3. G[0] = << >> /\ G[N] = F[N]
        BY <1>4
  <2>4. ASSUME NEW n \in 1 .. N
        PROVE  G[n] = G[n - 1] \o s[n]
    <3>1. CASE n = 1
      <4>1. G[1] = s[1] /\ s[1] \in Seq(D) /\ G[1 - 1] = << >>
            BY <1>1, <3>1
      <4> QED
          BY <3>1, <4>1, ConcatEmptySeq
    <3>2. CASE n # 1
      <4>1. n - 1 \in 1 .. N /\ G[n] = F[n] /\ G[n - 1] = F[n - 1]
            BY <3>2
      <4> QED
          BY <3>2, <4>1
    <3> QED
        BY <3>1, <3>2
  <2> HIDE DEF G
  <2> QED
      BY <2>2, <2>3, <2>4 DEF Joins
<1> QED
    BY <1>3, <1>4

(* They determine the result.                                              *)
LEMMA JoinsFlatten ==
  ASSUME NEW D, NEW s \in Seq(Seq(D)), NEW G, Joins(G, s)
  PROVE  FlattenSeq(s) = G[Len(s)]
<1> PICK N \in Nat : N = Len(s)
    BY LenProperties
<1>1. PICK F \in [0 .. N -> Seq(D)] : Joins(F, s) /\ FlattenSeq(s) = F[N]
      BY FlattenJoins
<1>2. /\ F[0] = << >> /\ \A n \in 1 .. N : F[n] = F[n - 1] \o s[n]
      /\ G[0] = << >> /\ \A n \in 1 .. N : G[n] = G[n - 1] \o s[n]
      BY <1>1 DEF Joins
<1> DEFINE S == {n \in 0 .. N : F[n] = G[n]}
<1>3. 0 \in S
      BY <1>2
<1>4. ASSUME NEW n \in 0 .. N - 1, n \in S
      PROVE  n + 1 \in S
  <2>1. n + 1 \in 1 .. N /\ (n + 1) - 1 = n /\ F[n] = G[n]
        BY <1>4
  <2>2. F[n + 1] = F[n] \o s[n + 1] /\ G[n + 1] = G[n] \o s[n + 1]
        BY <1>2, <2>1
  <2>3. F[n + 1] = G[n + 1] /\ n + 1 \in 0 .. N
        BY <2>1, <2>2
  <2> HIDE <2>1, <2>2
  <2> QED
      BY <2>3
<1> HIDE DEF S
<1>5. 0 .. N \subseteq S
      BY <1>3, <1>4, Induction
<1> QED
    BY <1>1, <1>5 DEF S

(* What is joined are sequences over the same set.                         *)
LEMMA FlattenType ==
  ASSUME NEW D, NEW s \in Seq(Seq(D))
  PROVE  FlattenSeq(s) \in Seq(D)
<1>1. PICK F \in [0 .. Len(s) -> Seq(D)] : FlattenSeq(s) = F[Len(s)]
      BY FlattenJoins
<1>2. Len(s) \in 0 .. Len(s)
      BY LenProperties
<1> QED
    BY <1>1, <1>2

(* Nothing is joined to nothing.                                           *)
LEMMA FlattenEmpty == FlattenSeq(<< >>) = << >>
BY EmptySeq DEF FlattenSeq

(* The last sequence comes last.                                           *)
LEMMA FlattenAppend ==
  ASSUME NEW D, NEW s \in Seq(Seq(D)), NEW e \in Seq(D)
  PROVE  FlattenSeq(Append(s, e)) = FlattenSeq(s) \o e
<1> PICK N \in Nat : N = Len(s)
    BY LenProperties
<1> PICK a : a = Append(s, e)
    OBVIOUS
<1>1. /\ a \in Seq(Seq(D)) /\ Len(a) = N + 1 /\ a[N + 1] = e
      /\ \A n \in 1 .. N : a[n] = s[n]
      BY AppendProperties
<1>2. PICK F \in [0 .. N -> Seq(D)] : Joins(F, s) /\ FlattenSeq(s) = F[N]
      BY FlattenJoins
<1> DEFINE G == [n \in 0 .. N + 1 |-> IF n = N + 1 THEN F[N] \o e ELSE F[n]]
<1>3. G[0] = << >>
      BY <1>2 DEF Joins
<1>4. ASSUME NEW n \in 1 .. N + 1
      PROVE  G[n] = G[n - 1] \o a[n]
  <2>1. CASE n = N + 1
    <3>1. G[n] = F[N] \o e
          BY <2>1
    <3>2. N \in 0 .. N /\ N # N + 1 /\ n - 1 = N
          BY <2>1
    <3>3. G[n - 1] = F[N]
          BY <3>2
    <3> QED
        BY <1>1, <2>1, <3>1, <3>3
  <2>2. CASE n # N + 1
    <3>1. n \in 1 .. N /\ G[n] = F[n] /\ G[n - 1] = F[n - 1]
          BY <2>2
    <3> QED
        BY <1>1, <1>2, <3>1 DEF Joins
  <2> QED
      BY <2>1, <2>2
<1>5. G[N + 1] = F[N] \o e
      OBVIOUS
<1> HIDE DEF G
<1>6. Joins(G, a)
      BY <1>1, <1>3, <1>4 DEF Joins
<1> QED
    BY <1>1, <1>2, <1>5, <1>6, JoinsFlatten
-----------------------------------------------------------------------------

USE QzmqAssumption

Socket == [open : BOOLEAN, ctx : Nat, fd : Fds, eps : SUBSET Endpoints,
           queue : Seq(Messages), more : Seq(Parts),
           tried : Seq(Messages \X Nat), signal : BOOLEAN, taken : BOOLEAN]

Callback == [pc : {"idle", "events", "recv", "ps", "stopped"},
             fd : Fds \cup {0}, socket : Nat, envelope : Seq(Parts)]

Reads == [1..MaxSockets -> Seq(Seq(Parts) \X BOOLEAN)]

Types ==
    /\ CONTEXTS \in Seq(BOOLEAN) /\ Len(CONTEXTS) <= MaxContexts
    /\ sockets \in Seq(Socket) /\ Len(sockets) <= MaxSockets
    /\ SOCKETS_BY_FD \in [Fds -> 0..Len(sockets)]
    /\ watched \subseteq given /\ given \subseteq Fds
    /\ ps \in BOOLEAN
    /\ w \in Fds \cup {0}
    /\ cb \in Callback
    /\ arrived \in [1..MaxSockets -> Seq(Messages)]
    /\ handled \in Reads

\* Nothing came for a socket that was not made yet.
Fresh == \A s \in 1..MaxSockets :
            s > Len(sockets) => arrived[s] = <<>> /\ handled[s] = <<>>

\* The table finds a socket under its own descriptor.
Filed == \A fd \in Fds :
            SOCKETS_BY_FD[fd] # 0 => sockets[SOCKETS_BY_FD[fd]].fd = fd

\* on_msg_cb has a socket while it runs, and none otherwise.
Working == cb.pc \in {"events", "recv", "ps"}
AtWork ==
    /\ Working => /\ cb.socket \in DOMAIN sockets
                  /\ cb.fd = sockets[cb.socket].fd
    /\ ~Working => cb.socket = 0

\* While it reads a message, that message is the first one of an open socket,
\* and the parts it has are the first ones.
Reading ==
    cb.pc = "recv" =>
       /\ sockets[cb.socket].open
       /\ sockets[cb.socket].queue # <<>>
       /\ LET m == sockets[cb.socket].queue[1]
          IN  /\ Len(cb.envelope) < Len(m)
              /\ cb.envelope = SubSeq(m, 1, Len(cb.envelope))

\* .zmq.ps is called for a message of the socket.
Answering ==
    cb.pc = "ps" => \E i \in DOMAIN handled[cb.socket] : handled[cb.socket][i][2]

Inv ==
    /\ Types /\ Fresh
    /\ TableMatchesSockets /\ Filed
    /\ AtWork /\ Reading /\ Answering
    /\ WDuringCallback /\ ClosedOnlyInside
    /\ MessagesInOrder /\ StuckOnlyIfTaken

\* A call that holds up q's thread is a send on a socket or the end of a
\* context, and no part of on_msg_cb runs meanwhile.
Held ==
    /\ waiting.fn \in {"none", "send", "destroy"}
    /\ waiting # NoCall => cb.pc \in {"idle", "ps"}
    /\ waiting.fn = "send" => waiting.on \in DOMAIN sockets /\ waiting.m \in Messages
    /\ waiting.fn = "destroy" => waiting.on \in DOMAIN CONTEXTS

-----------------------------------------------------------------------------
(* The binding starts in the invariant.                                    *)
LEMMA InvInit == Init => Inv
<1> SUFFICES ASSUME Init PROVE Inv
    OBVIOUS
<1>1. Types
      <2>1. sockets = <<>> /\ Len(sockets) = 0 /\ sockets \in Seq(Socket)
            BY EmptySeq DEF Init
      <2>2. CONTEXTS \in Seq(BOOLEAN) /\ Len(CONTEXTS) = 0
            BY EmptySeq DEF Init
      <2>3. cb \in Callback
            BY EmptySeq DEF Init, Idle, Callback
      <2>4. arrived \in [1..MaxSockets -> Seq(Messages)] /\ handled \in Reads
            BY EmptySeq DEF Init, Reads
      <2>5. Len(CONTEXTS) <= MaxContexts /\ Len(sockets) <= MaxSockets
            BY <2>1, <2>2
      <2>6. SOCKETS_BY_FD \in [Fds -> 0..Len(sockets)]
            BY <2>1 DEF Init
      <2> QED
          BY <2>1, <2>2, <2>3, <2>4, <2>5, <2>6 DEF Init, Types
<1>2. DOMAIN sockets = {} /\ cb.pc = "idle" /\ cb.socket = 0
      BY DEF Init, Idle
<1>3. TableMatchesSockets /\ Filed /\ MessagesInOrder /\ StuckOnlyIfTaken
      BY <1>2 DEF Init, TableMatchesSockets, Filed, MessagesInOrder,
                  StuckOnlyIfTaken
<1>4. AtWork /\ Reading /\ Answering /\ WDuringCallback /\ ClosedOnlyInside
      BY <1>2 DEF Init, AtWork, Working, Reading, Answering, WDuringCallback,
                  ClosedOnlyInside
<1> QED
    BY <1>1, <1>3, <1>4 DEF Init, Fresh, Inv

(* A step that leaves the sockets, the table and the callback alone keeps  *)
(* all of it, whatever it does to contexts and to .zmq.ps.                 *)
LEMMA Untouched ==
  ASSUME Inv,
         UNCHANGED <<sockets, SOCKETS_BY_FD, watched, given>>,
         UNCHANGED <<w, cb, arrived, handled>>,
         ps' \in BOOLEAN,
         CONTEXTS' \in Seq(BOOLEAN), Len(CONTEXTS') <= MaxContexts
  PROVE  Inv'
<1>1. Types' /\ Fresh' /\ TableMatchesSockets' /\ Filed'
      BY DEF Inv, Types, Fresh, TableMatchesSockets, Filed
<1>2. AtWork' /\ Reading' /\ Answering'
      BY DEF Inv, AtWork, Working, Reading, Answering
<1>3. WDuringCallback' /\ ClosedOnlyInside'
      BY DEF Inv, WDuringCallback, ClosedOnlyInside
<1>4. MessagesInOrder' /\ StuckOnlyIfTaken'
      BY DEF Inv, MessagesInOrder, StuckOnlyIfTaken
<1> QED
    BY <1>1, <1>2, <1>3, <1>4 DEF Inv

(* The calls that only answer, the ones on contexts and the definition of  *)
(* .zmq.ps (q_ctx_new, q_ctx_get, q_ctx_set, q_version, q_getsockopt,      *)
(* q_setsockopt).                                                          *)
LEMMA AnswerKeeps ==
  ASSUME Inv, NEW error, Answer(error)
  PROVE  Inv'
BY Untouched DEF Answer, handles, inbound, Inv, Types

(* .zmq.ps is defined or removed.                                          *)
LEMMA DefineKeeps ==
  ASSUME Inv, Define
  PROVE  Inv'
BY Untouched DEF Define, handles, Inv, Types

(* A context is made.                                                      *)
LEMMA CtxNewKeeps ==
  ASSUME Inv, q_ctx_new
  PROVE  Inv'
<1>1. CONTEXTS' \in Seq(BOOLEAN) /\ Len(CONTEXTS') <= MaxContexts
      BY AppendProperties, LenProperties DEF q_ctx_new, Inv, Types
<1> QED
    BY <1>1, Untouched DEF q_ctx_new, inbound, Inv, Types

(* Every socket has a descriptor.                                          *)
LEMMA FdOfSocket ==
  ASSUME Types, NEW s \in DOMAIN sockets
  PROVE  sockets[s] \in Socket /\ sockets[s].fd \in Fds
<1>1. sockets[s] \in Socket
      BY ElementOfSeq, LenProperties DEF Types
<1> QED
    BY <1>1 DEF Socket

(* What the table finds is a socket.                                       *)
LEMMA Found ==
  ASSUME Types, NEW fd \in Fds, SOCKETS_BY_FD[fd] # 0
  PROVE  SOCKETS_BY_FD[fd] \in DOMAIN sockets /\ SOCKETS_BY_FD[fd] \in Nat
<1>1. Len(sockets) \in Nat /\ DOMAIN sockets = 1..Len(sockets)
      BY LenProperties DEF Types
<1>2. SOCKETS_BY_FD[fd] \in 0..Len(sockets)
      BY DEF Types
<1> QED
    BY <1>1, <1>2

(* What replacing one socket does to the sequence of them.                 *)
LEMMA OneSocket ==
  ASSUME Types, NEW s \in DOMAIN sockets, NEW y \in Socket,
         sockets' = [sockets EXCEPT ![s] = y]
  PROVE  /\ sockets' \in Seq(Socket)
         /\ Len(sockets') = Len(sockets)
         /\ DOMAIN sockets' = DOMAIN sockets
         /\ DOMAIN sockets = 1..Len(sockets)
         /\ \A t \in DOMAIN sockets : sockets'[t] = IF t = s THEN y ELSE sockets[t]
BY ExceptSeq, LenProperties DEF Types

(* A call on a socket that leaves open, fd and queue, and that lets ZeroMQ *)
(* look at it, keeps the invariant: a signal it takes is marked as taken.  *)
LEMMA LookedAt ==
  ASSUME Inv, UNCHANGED <<handles, inbound>>,
         NEW s \in DOMAIN sockets, NEW x \in Looked(sockets[s]), NEW y \in Socket,
         y.open = x.open, y.fd = x.fd, y.queue = x.queue,
         y.signal = x.signal, y.taken = x.taken,
         sockets' = [sockets EXCEPT ![s] = y]
  PROVE  Inv'
<1>1. /\ UNCHANGED <<CONTEXTS, SOCKETS_BY_FD, watched, given, ps, w, cb>>
      /\ UNCHANGED <<arrived, handled>>
      BY DEF handles, inbound
<1>2. /\ sockets' \in Seq(Socket)
      /\ Len(sockets') = Len(sockets)
      /\ DOMAIN sockets' = DOMAIN sockets
      /\ \A t \in DOMAIN sockets : sockets'[t] = IF t = s THEN y ELSE sockets[t]
      BY OneSocket DEF Inv
<1>3. sockets[s] \in Socket
      BY ElementOfSeq, LenProperties DEF Inv, Types
<1>4. /\ y.open = sockets[s].open /\ y.fd = sockets[s].fd
      /\ y.queue = sockets[s].queue
      /\ sockets[s].signal \/ sockets[s].taken =>
            y.signal \/ y.taken \/ y.queue = <<>>
      <2>1. x = sockets[s] \/ x = [sockets[s] EXCEPT !.signal = FALSE,
                  !.taken = @ \/ sockets[s].queue # <<>>]
            BY DEF Looked
      <2>2. CASE x = sockets[s]
            BY <2>2
      <2>3. CASE x = [sockets[s] EXCEPT !.signal = FALSE,
                         !.taken = @ \/ sockets[s].queue # <<>>]
            <3>1. /\ x.open = sockets[s].open /\ x.fd = sockets[s].fd
                  /\ x.queue = sockets[s].queue
                  /\ x.taken = (sockets[s].taken \/ sockets[s].queue # <<>>)
                  BY <2>3, <1>3 DEF Socket
            <3> QED
                BY <3>1
      <2> QED
          BY <2>1, <2>2, <2>3
<1>5. \A t \in DOMAIN sockets : /\ sockets'[t].open = sockets[t].open
                                /\ sockets'[t].fd = sockets[t].fd
                                /\ sockets'[t].queue = sockets[t].queue
      BY <1>2, <1>4
<1>6. Types' /\ Fresh' /\ TableMatchesSockets' /\ Filed'
      BY <1>1, <1>2, <1>5 DEF Inv, Types, Fresh, TableMatchesSockets, Filed
<1>7. AtWork' /\ Reading' /\ Answering'
      BY <1>1, <1>2, <1>5 DEF Inv, AtWork, Working, Reading, Answering
<1>8. WDuringCallback' /\ ClosedOnlyInside'
      BY <1>1, <1>2, <1>5
         DEF Inv, AtWork, Working, WDuringCallback, ClosedOnlyInside
<1>9. MessagesInOrder'
      <2> SUFFICES ASSUME NEW t \in DOMAIN sockets
                   PROVE  arrived[t] = [i \in DOMAIN handled[t] |-> handled[t][i][1]]
                                          \o sockets'[t].queue
          BY <1>1, <1>2 DEF MessagesInOrder
      <2> QED
          BY <1>5 DEF Inv, MessagesInOrder
<1>10. StuckOnlyIfTaken'
      BY <1>1, <1>2, <1>4 DEF Inv, StuckOnlyIfTaken
<1> QED
    BY <1>6, <1>7, <1>8, <1>9, <1>10 DEF Inv

(* The end of a context touches nothing else.                              *)
LEMMA DestroyKeeps ==
  ASSUME Inv, NEW c \in DOMAIN CONTEXTS, Destroy(c),
         UNCHANGED <<sockets, SOCKETS_BY_FD, watched, given, inbound>>
  PROVE  Inv'
<1>1. CONTEXTS' = [CONTEXTS EXCEPT ![c] = FALSE]
      BY DEF Destroy
<1>2. CONTEXTS' \in Seq(BOOLEAN) /\ Len(CONTEXTS') <= MaxContexts
      BY <1>1, ExceptSeq, LenProperties DEF Inv, Types
<1> QED
    BY <1>2, Untouched DEF inbound, Inv, Types

(* q_ctx_destroy removes a context, waits, or stops q and with it every    *)
(* promise about callbacks.                                                *)
LEMMA CtxDestroyKeeps ==
  ASSUME Inv, NEW c \in DOMAIN CONTEXTS, q_ctx_destroy(c)
  PROVE  Inv'
<1>1. CASE UNCHANGED <<CONTEXTS, cb>>
      BY <1>1, Untouched DEF q_ctx_destroy, Inv, Types
<1>2. CASE Destroy(c) /\ UNCHANGED cb
      BY <1>2, DestroyKeeps DEF q_ctx_destroy, inbound
<1>3. CASE cb' = [Idle EXCEPT !.pc = "stopped"] /\ UNCHANGED CONTEXTS
      <2>1. /\ UNCHANGED <<CONTEXTS, sockets, SOCKETS_BY_FD, watched, given>>
            /\ UNCHANGED <<ps, w, arrived, handled>>
            /\ cb' \in Callback /\ cb'.pc = "stopped" /\ cb'.socket = 0
            BY <1>3, EmptySeq DEF q_ctx_destroy, Idle, Callback
      <2>2. Types' /\ Fresh' /\ TableMatchesSockets' /\ Filed'
            BY <2>1 DEF Inv, Types, Fresh, TableMatchesSockets, Filed
      <2>3. AtWork' /\ Reading' /\ Answering'
            BY <2>1 DEF AtWork, Working, Reading, Answering
      <2>4. WDuringCallback' /\ ClosedOnlyInside' /\ StuckOnlyIfTaken'
            BY <2>1 DEF WDuringCallback, ClosedOnlyInside, StuckOnlyIfTaken
      <2>5. MessagesInOrder'
            BY <2>1 DEF Inv, MessagesInOrder
      <2> QED
          BY <2>2, <2>3, <2>4, <2>5 DEF Inv
<1> QED
    BY <1>1, <1>2, <1>3 DEF q_ctx_destroy, Waits

(* A new socket has an empty history, and a descriptor no open socket has. *)
LEMMA SocketKeeps ==
  ASSUME Inv, NEW c \in DOMAIN CONTEXTS, q_socket(c)
  PROVE  Inv'
<1>1. CASE UNCHANGED <<sockets, SOCKETS_BY_FD, watched, given>>
      BY <1>1, Untouched DEF q_socket, inbound, Inv, Types
<1>2. CASE ~UNCHANGED <<sockets, SOCKETS_BY_FD, watched, given>>
      <2> DEFINE n == Len(sockets) + 1
      <2>1. PICK fd \in Fds :
               /\ \A s \in DOMAIN sockets : sockets[s].open => sockets[s].fd # fd
               /\ sockets' = Append(sockets, NewSocket(c, fd))
               /\ SOCKETS_BY_FD' = [SOCKETS_BY_FD EXCEPT ![fd] = n]
               /\ watched' = watched \cup {fd}
               /\ given' = given \cup {fd}
            BY <1>2 DEF q_socket
      <2>2. Len(sockets) < MaxSockets
            BY <1>2 DEF q_socket
      <2>3. UNCHANGED <<CONTEXTS, ps, w, cb, arrived, handled>>
            BY DEF q_socket, inbound
      <2>4. /\ Len(sockets) \in Nat /\ DOMAIN sockets = 1..Len(sockets)
            /\ n \in 1..MaxSockets /\ 0 \notin DOMAIN sockets
            BY <2>2, LenProperties DEF Inv, Types
      <2>5. NewSocket(c, fd) \in Socket
            <3>1. c \in Nat
                  BY LenProperties DEF Inv, Types
            <3> QED
                BY <3>1, EmptySeq DEF NewSocket, Socket
      <2>6. /\ sockets' \in Seq(Socket) /\ Len(sockets') = n
            /\ DOMAIN sockets' = 1..n
            /\ \A s \in DOMAIN sockets : sockets'[s] = sockets[s]
            /\ sockets'[n] = NewSocket(c, fd)
            BY <2>1, <2>4, <2>5, AppendProperties, LenProperties DEF Inv, Types
      <2>7. /\ sockets'[n].open = TRUE /\ sockets'[n].fd = fd
            /\ sockets'[n].queue = <<>>
            BY <2>6 DEF NewSocket
      <2>8. /\ DOMAIN sockets' = DOMAIN sockets \cup {n}
            /\ n \notin DOMAIN sockets /\ n # 0
            BY <2>4, <2>6
      <2>9. Types'
            <3>1. SOCKETS_BY_FD' \in [Fds -> 0..Len(sockets')]
                  BY <2>1, <2>4, <2>6 DEF Inv, Types
            <3>2. Len(sockets') <= MaxSockets /\ watched' \subseteq given' /\ given' \subseteq Fds
                  BY <2>1, <2>4, <2>6 DEF Inv, Types
            <3> QED
                BY <2>3, <2>6, <3>1, <3>2 DEF Inv, Types
      <2>10. Fresh'
            BY <2>3, <2>4, <2>6 DEF Inv, Fresh
      <2>11. TableMatchesSockets' /\ Filed'
            <3>1. \A f \in Fds : SOCKETS_BY_FD'[f] =
                                    IF f = fd THEN n ELSE SOCKETS_BY_FD[f]
                  BY <2>1 DEF Inv, Types
            <3>2. watched' = {f \in Fds : SOCKETS_BY_FD'[f] # 0}
                  BY <2>1, <2>8, <3>1 DEF Inv, TableMatchesSockets
            <3>3. \A s \in DOMAIN sockets' : sockets'[s].open <=>
                     SOCKETS_BY_FD'[sockets'[s].fd] = s
                  <4> SUFFICES ASSUME NEW s \in DOMAIN sockets'
                               PROVE  sockets'[s].open <=>
                                         SOCKETS_BY_FD'[sockets'[s].fd] = s
                      OBVIOUS
                  <4>1. CASE s = n
                        BY <4>1, <2>7, <3>1
                  <4>2. CASE s \in DOMAIN sockets
                        <5>1. sockets[s].fd \in Fds
                              BY <4>2, FdOfSocket DEF Inv
                        <5> QED
                            BY <4>2, <5>1, <2>1, <2>6, <2>8, <3>1
                               DEF Inv, TableMatchesSockets
                  <4> QED
                      BY <4>1, <4>2, <2>8
            <3>4. Filed'
                  <4> SUFFICES ASSUME NEW f \in Fds, SOCKETS_BY_FD'[f] # 0
                               PROVE  sockets'[SOCKETS_BY_FD'[f]].fd = f
                      BY DEF Filed
                  <4>1. CASE f = fd
                        BY <4>1, <3>1, <2>7
                  <4>2. CASE f # fd
                        <5>1. /\ SOCKETS_BY_FD'[f] = SOCKETS_BY_FD[f]
                              /\ SOCKETS_BY_FD[f] # 0
                              BY <4>2, <3>1
                        <5>2. SOCKETS_BY_FD[f] \in DOMAIN sockets
                              BY <5>1, <2>4 DEF Inv, Types
                        <5>3. sockets[SOCKETS_BY_FD[f]].fd = f
                              BY <5>1 DEF Inv, Filed
                        <5> QED
                            BY <5>1, <5>2, <5>3, <2>6
                  <4> QED
                      BY <4>1, <4>2
            <3> QED
                BY <3>2, <3>3, <3>4 DEF TableMatchesSockets
      <2>12. AtWork' /\ Reading' /\ Answering' /\ WDuringCallback'
            BY <2>3, <2>6, <2>8 DEF Inv, AtWork, Working, Reading, Answering,
                                    WDuringCallback
      <2>13. ClosedOnlyInside'
            BY <2>3, <2>6 DEF Inv, AtWork, Working, ClosedOnlyInside
      <2>14. MessagesInOrder' /\ StuckOnlyIfTaken'
            <3>1. MessagesInOrder'
                  <4>1. arrived[n] = <<>> /\ handled[n] = <<>>
                        BY <2>4 DEF Inv, Fresh
                  <4>2. [i \in DOMAIN handled[n] |-> handled[n][i][1]] \o
                           sockets'[n].queue = <<>>
                        BY <4>1, <2>7
                  <4>3. \A s \in DOMAIN sockets : arrived[s] =
                           [i \in DOMAIN handled[s] |-> handled[s][i][1]] \o
                              sockets'[s].queue
                        BY <2>6 DEF Inv, MessagesInOrder
                  <4> QED
                      BY <4>1, <4>2, <4>3, <2>3, <2>8 DEF MessagesInOrder
            <3> QED
                BY <3>1, <2>3, <2>6, <2>7, <2>8 DEF Inv, StuckOnlyIfTaken
      <2> QED
          BY <2>9, <2>10, <2>11, <2>12, <2>13, <2>14 DEF Inv
<1> QED
    BY <1>1, <1>2

(* Closing takes the socket out of the table and out of q's event loop; if *)
(* on_msg_cb is at work on it, .zmq.ps was called for one of its messages. *)
LEMMA CloseKeeps ==
  ASSUME Inv, NEW fd \in given, q_close(fd)
  PROVE  Inv'
<1>1. fd \in Fds /\ 0 \notin DOMAIN sockets
      BY LenProperties DEF Inv, Types
<1>2. UNCHANGED <<CONTEXTS, given, ps, w, cb, arrived, handled>>
      BY DEF q_close, inbound
<1>3. CASE SOCKETS_BY_FD[fd] = 0
      BY <1>1, <1>2, <1>3, Untouched DEF q_close, Inv, Types, TableMatchesSockets
<1>4. CASE SOCKETS_BY_FD[fd] # 0
      <2> DEFINE s == SOCKETS_BY_FD[fd]
                 y == [sockets[s] EXCEPT !.open = FALSE]
      <2>1. s \in DOMAIN sockets /\ s \in 1..MaxSockets
            BY <1>1, <1>4, LenProperties DEF Inv, Types
      <2>2. sockets[s] \in Socket
            BY <2>1, ElementOfSeq, LenProperties DEF Inv, Types
      <2>3. /\ y \in Socket /\ y.open = FALSE
            /\ y.fd = sockets[s].fd /\ y.queue = sockets[s].queue
            BY <2>2 DEF Socket
      <2>4. /\ sockets' = [sockets EXCEPT ![s] = y]
            /\ SOCKETS_BY_FD' = [SOCKETS_BY_FD EXCEPT ![fd] = 0]
            /\ watched' = watched \ {fd}
            BY <1>4 DEF q_close
      <2>5. /\ sockets' \in Seq(Socket) /\ Len(sockets') = Len(sockets)
            /\ DOMAIN sockets' = DOMAIN sockets
            /\ \A t \in DOMAIN sockets :
                  sockets'[t] = IF t = s THEN y ELSE sockets[t]
            BY <2>1, <2>3, <2>4, OneSocket DEF Inv
      <2>6. \A t \in DOMAIN sockets : /\ sockets'[t].fd = sockets[t].fd
                                      /\ sockets'[t].queue = sockets[t].queue
            BY <2>3, <2>5
      <2>7. Types' /\ Fresh'
            BY <1>2, <2>4, <2>5, <2>6 DEF Inv, Types, Fresh
      <2>8. \A f \in Fds : SOCKETS_BY_FD'[f] =
                              IF f = fd THEN 0 ELSE SOCKETS_BY_FD[f]
            BY <2>4 DEF Inv, Types
      <2>9. sockets[s].fd = fd
            BY <1>1, <1>4 DEF Inv, Filed
      <2>10. TableMatchesSockets' /\ Filed'
            <3>1. watched' = {f \in Fds : SOCKETS_BY_FD'[f] # 0}
                  BY <2>4, <2>8 DEF Inv, TableMatchesSockets
            <3>2. ASSUME NEW t \in DOMAIN sockets
                  PROVE  sockets'[t].open <=> SOCKETS_BY_FD'[sockets'[t].fd] = t
                  <4>1. sockets[t].fd \in Fds
                        BY FdOfSocket DEF Inv
                  <4>2. CASE t = s
                        BY <4>2, <1>1, <1>4, <2>3, <2>5, <2>8, <2>9, ZenonT(40)
                  <4>3. CASE t # s
                        BY <4>1, <4>3, <1>1, <2>5, <2>8
                           DEF Inv, TableMatchesSockets
                  <4> QED
                      BY <4>2, <4>3
            <3>3. Filed'
                  <4> SUFFICES ASSUME NEW f \in Fds, SOCKETS_BY_FD'[f] # 0
                               PROVE  sockets'[SOCKETS_BY_FD[f]].fd = f
                      BY <2>8 DEF Filed
                  <4>1. SOCKETS_BY_FD[f] # 0
                        BY <2>8
                  <4>2. SOCKETS_BY_FD[f] \in DOMAIN sockets
                        BY <4>1, LenProperties DEF Inv, Types
                  <4> QED
                      BY <4>1, <4>2, <2>6 DEF Inv, Filed
            <3> QED
                BY <3>1, <3>2, <3>3, <2>5 DEF TableMatchesSockets
      <2>11. AtWork' /\ Answering' /\ WDuringCallback'
            BY <1>2, <2>5, <2>6 DEF Inv, AtWork, Working, Answering,
                                    WDuringCallback
      <2>12. Reading' /\ ClosedOnlyInside'
            <3>1. cb.pc = "idle" \/ cb.pc = "ps"
                  BY DEF q_close, Program
            <3> QED
                BY <3>1, <1>2 DEF Inv, Reading, Answering, AtWork, Working,
                                  ClosedOnlyInside
      <2>13. MessagesInOrder'
            <3> SUFFICES ASSUME NEW t \in DOMAIN sockets
                         PROVE  arrived[t] =
                                   [i \in DOMAIN handled[t] |-> handled[t][i][1]]
                                      \o sockets'[t].queue
                BY <1>2, <2>5 DEF MessagesInOrder
            <3> QED
                BY <2>6 DEF Inv, MessagesInOrder
      <2>14. StuckOnlyIfTaken'
            BY <1>2, <2>3, <2>5 DEF Inv, StuckOnlyIfTaken
      <2> QED
          BY <2>7, <2>10, <2>11, <2>12, <2>13, <2>14 DEF Inv
<1> QED
    BY <1>3, <1>4

(* A socket after ZeroMQ looked at it is a socket.                         *)
LEMMA LookedIsSocket ==
  ASSUME NEW s \in Socket, NEW x \in Looked(s)
  PROVE  x \in Socket
BY ZenonT(40) DEF Looked, Socket

(* q_bind, q_unbind, q_connect and q_disconnect change the endpoints.      *)
LEMMA EndpointKeeps ==
  ASSUME Inv, NEW fd \in given, NEW possible, NEW eps \in SUBSET Endpoints,
         Endpoint(fd, possible, eps)
  PROVE  Inv'
<1>1. CASE UNCHANGED sockets
      BY <1>1, Untouched DEF Endpoint, handles, inbound, Inv, Types
<1>2. CASE ~UNCHANGED sockets
      <2> DEFINE s == SOCKETS_BY_FD[fd]
      <2>1. s \in DOMAIN sockets
            BY <1>2, LenProperties DEF Endpoint, Inv, Types
      <2>2. PICK x \in Looked(sockets[s]) :
               sockets' = [sockets EXCEPT ![s] = [x EXCEPT !.eps = eps]]
            BY <1>2 DEF Endpoint
      <2>3. x \in Socket
            BY <2>1, FdOfSocket, LookedIsSocket DEF Inv
      <2> DEFINE y == [x EXCEPT !.eps = eps]
      <2>4. /\ y \in Socket /\ y.open = x.open /\ y.fd = x.fd
            /\ y.queue = x.queue /\ y.signal = x.signal /\ y.taken = x.taken
            BY <2>3 DEF Socket
      <2>5. UNCHANGED <<handles, inbound>>
            BY DEF Endpoint
      <2> QED
          BY <2>1, <2>2, <2>4, <2>5, LookedAt
<1> QED
    BY <1>1, <1>2

(* The endpoints of a descriptor are endpoints.                            *)
LEMMA EpsType ==
  ASSUME Types, NEW fd \in given
  PROVE  Eps(fd) \subseteq Endpoints
<1>1. SOCKETS_BY_FD[fd] # 0 => SOCKETS_BY_FD[fd] \in DOMAIN sockets
      BY LenProperties DEF Types
<1>2. SOCKETS_BY_FD[fd] # 0 => sockets[SOCKETS_BY_FD[fd]] \in Socket
      BY <1>1, FdOfSocket
<1> QED
    BY <1>2 DEF Eps, Socket

(* A send changes the parts that wait, and what the socket tried.          *)
LEMMA SendKeeps ==
  ASSUME Inv, NEW s \in DOMAIN sockets, NEW m \in Messages, Send(s, m),
         UNCHANGED <<SOCKETS_BY_FD, watched, given, ps, w, arrived, handled>>
  PROVE  Inv'
<1>2. PICK n \in 0..Len(m), x \in Looked(sockets[s]) :
         sockets' = [sockets EXCEPT ![s] =
            [x EXCEPT !.more = IF n = Len(m) THEN <<>>
                               ELSE x.more \o SubSeq(m, 1, n),
                      !.tried = Append(@, <<m, n>>)]]
      BY DEF Send
<1>3. x \in Socket
      BY FdOfSocket, LookedIsSocket DEF Inv
<1> DEFINE more == IF n = Len(m) THEN <<>> ELSE x.more \o SubSeq(m, 1, n)
           y == [x EXCEPT !.more = more, !.tried = Append(@, <<m, n>>)]
<1>4. m \in Seq(Parts) /\ Len(m) \in Nat /\ n \in Nat
      BY LenProperties
<1>5. \A i \in 1..n : m[i] \in Parts
      BY <1>4, ElementOfSeq
<1>6. SubSeq(m, 1, n) \in Seq(Parts)
      BY <1>4, <1>5, SubSeqProperties
<1>7. more \in Seq(Parts)
      BY <1>3, <1>6, ConcatProperties, EmptySeq DEF Socket
<1>8. Append(x.tried, <<m, n>>) \in Seq(Messages \X Nat)
      BY <1>3, <1>4, AppendProperties DEF Socket
<1>9. /\ y \in Socket /\ y.open = x.open /\ y.fd = x.fd
      /\ y.queue = x.queue /\ y.signal = x.signal /\ y.taken = x.taken
      BY <1>3, <1>7, <1>8 DEF Socket
<1>10. UNCHANGED <<handles, inbound>>
       BY DEF Send, handles, inbound
<1> QED
    BY <1>2, <1>9, <1>10, LookedAt

(* q_send_multipart sends, waits or is refused.                            *)
LEMMA SendMultipartKeeps ==
  ASSUME Inv, NEW fd \in given, NEW m \in Messages, q_send_multipart(fd, m)
  PROVE  Inv'
<1>1. UNCHANGED <<SOCKETS_BY_FD, watched, given, ps, w, arrived, handled>>
      BY DEF q_send_multipart
<1>2. CASE UNCHANGED <<sockets, CONTEXTS, cb>>
      BY <1>1, <1>2, Untouched DEF Inv, Types
<1>3. CASE SOCKETS_BY_FD[fd] # 0 /\ Send(SOCKETS_BY_FD[fd], m)
  <2>1. SOCKETS_BY_FD[fd] \in DOMAIN sockets
        BY <1>3, Found DEF Inv, Types
  <2> QED
      BY <1>1, <1>3, <2>1, SendKeeps
<1> QED
    BY <1>2, <1>3 DEF q_send_multipart, Waits

-----------------------------------------------------------------------------
(* on_msg_cb                                                               *)

(* A step of the callback that leaves sockets, table and messages alone    *)
(* keeps the parts of the invariant that say nothing about the callback.   *)
LEMMA CallbackOnly ==
  ASSUME Inv, cb' \in Callback, w' \in Fds \cup {0},
         UNCHANGED <<handles, sockets, ps, arrived, handled>>
  PROVE  /\ Types' /\ Fresh' /\ TableMatchesSockets' /\ Filed'
         /\ MessagesInOrder'
<1>1. UNCHANGED <<CONTEXTS, SOCKETS_BY_FD, watched, given>>
      BY DEF handles
<1> QED
    BY <1>1, ZenonT(40) DEF Inv, Types, Fresh, TableMatchesSockets, Filed, MessagesInOrder

(* q calls back for the socket that the table has under the descriptor:    *)
(* an open one.                                                            *)
LEMMA CallbackKeeps ==
  ASSUME Inv, on_msg_cb
  PROVE  Inv'
<1>1. PICK fd \in watched : cb' = [Idle EXCEPT !.pc = "events", !.fd = fd,
                                               !.socket = SOCKETS_BY_FD[fd]]
      BY DEF on_msg_cb
<1>2. UNCHANGED <<handles, sockets, ps, w, arrived, handled>>
      BY DEF on_msg_cb
<1> DEFINE s == SOCKETS_BY_FD[fd]
<1>3. fd \in Fds /\ s # 0 /\ s \in DOMAIN sockets /\ s \in Nat
      BY Found DEF Inv, TableMatchesSockets
<1>4. sockets[s].fd = fd /\ sockets[s].open
      BY <1>3 DEF Inv, Filed, TableMatchesSockets
<1>5. cb' \in Callback /\ cb'.pc = "events" /\ cb'.fd = fd /\ cb'.socket = s
      BY <1>1, <1>3, EmptySeq DEF Idle, Callback
<1>6. Types' /\ Fresh' /\ TableMatchesSockets' /\ Filed' /\ MessagesInOrder'
      BY <1>2, <1>5, CallbackOnly DEF Inv, Types
<1>7. AtWork' /\ Reading' /\ Answering' /\ ClosedOnlyInside'
      BY <1>2, <1>3, <1>4, <1>5 DEF AtWork, Working, Reading, Answering,
                                    ClosedOnlyInside
<1>8. WDuringCallback'
      BY <1>2, <1>5 DEF Inv, WDuringCallback, on_msg_cb
<1>9. StuckOnlyIfTaken'
      <2>1. cb.socket = 0 /\ 0 \notin DOMAIN sockets /\ cb.pc = "idle"
            BY LenProperties DEF on_msg_cb, Inv, AtWork, Working, Types
      <2> QED
          BY <2>1, <1>2 DEF Inv, StuckOnlyIfTaken
<1> QED
    BY <1>6, <1>7, <1>8, <1>9 DEF Inv

(* .zmq.ps returns: the callback goes on with the same socket.             *)
LEMMA PsKeeps ==
  ASSUME Inv, on_msg_ps
  PROVE  Inv'
<1>1. /\ UNCHANGED <<handles, sockets, ps, arrived, handled>>
      /\ cb.pc = "ps" /\ w' = 0 /\ cb' = [cb EXCEPT !.pc = "events"]
      BY DEF on_msg_ps
<1>2. /\ cb' \in Callback /\ cb'.pc = "events"
      /\ cb'.fd = cb.fd /\ cb'.socket = cb.socket
      BY <1>1 DEF Inv, Types, Callback
<1>3. Types' /\ Fresh' /\ TableMatchesSockets' /\ Filed' /\ MessagesInOrder'
      BY <1>1, <1>2, CallbackOnly
<1>4. AtWork' /\ Reading' /\ Answering'
      BY <1>1, <1>2 DEF Inv, AtWork, Working, Reading, Answering
<1>5. WDuringCallback' /\ ClosedOnlyInside' /\ StuckOnlyIfTaken'
      BY <1>1, <1>2 DEF Inv, WDuringCallback, ClosedOnlyInside, StuckOnlyIfTaken
<1> QED
    BY <1>3, <1>4, <1>5 DEF Inv

(* on_msg_cb asks for the events: it takes the signal, and goes on to read *)
(* the first message of an open socket, or ends.                           *)
LEMMA EventsKeeps ==
  ASSUME Inv, on_msg_events
  PROVE  Inv'
<1> DEFINE s == cb.socket
<1>1. /\ cb.pc = "events" /\ s \in DOMAIN sockets /\ cb.fd = sockets[s].fd
      /\ sockets[s] \in Socket
      BY FdOfSocket DEF on_msg_events, Inv, AtWork, Working
<1>2. UNCHANGED <<handles, ps, w, arrived, handled>>
      BY DEF on_msg_events
<1>3. UNCHANGED <<CONTEXTS, SOCKETS_BY_FD, watched, given>>
      BY <1>2 DEF handles
<1>4. w = 0
      BY <1>1 DEF Inv, WDuringCallback
<1>5. CASE ~sockets[s].open
      <2>1. /\ UNCHANGED sockets
            /\ cb' = Idle \/ cb' = [Idle EXCEPT !.pc = "stopped"]
            BY <1>5 DEF on_msg_events
      <2>2. /\ cb' \in Callback /\ cb'.socket = 0
            /\ cb'.pc \in {"idle", "stopped"}
            <3>1. CASE cb' = Idle
                  BY <3>1, EmptySeq DEF Idle, Callback
            <3>2. CASE cb' = [Idle EXCEPT !.pc = "stopped"]
                  BY <3>2, EmptySeq DEF Idle, Callback
            <3> QED
                BY <2>1, <3>1, <3>2
      <2>3. Types' /\ Fresh' /\ TableMatchesSockets' /\ Filed' /\ MessagesInOrder'
            BY <1>2, <2>1, <2>2, CallbackOnly DEF Inv, Types
      <2>4. AtWork' /\ Reading' /\ Answering' /\ WDuringCallback' /\ ClosedOnlyInside'
            BY <1>2, <1>4, <2>2 DEF AtWork, Working, Reading, Answering,
                                    WDuringCallback, ClosedOnlyInside
      <2>5. StuckOnlyIfTaken'
            BY <1>1, <1>5, <2>1 DEF Inv, StuckOnlyIfTaken
      <2> QED
          BY <2>3, <2>4, <2>5 DEF Inv
<1>6. CASE sockets[s].open
      <2> DEFINE y == [sockets[s] EXCEPT !.signal = FALSE, !.taken = FALSE]
      <2>1. y \in Socket /\ y.open = sockets[s].open /\ y.fd = sockets[s].fd
            /\ y.queue = sockets[s].queue
            BY <1>1 DEF Socket
      <2>2. /\ sockets' = [sockets EXCEPT ![s] = y]
            /\ cb' = IF sockets[s].queue = <<>> THEN Idle
                     ELSE [cb EXCEPT !.pc = "recv", !.envelope = <<>>]
            BY <1>6 DEF on_msg_events
      <2>3. /\ sockets' \in Seq(Socket) /\ Len(sockets') = Len(sockets)
            /\ DOMAIN sockets' = DOMAIN sockets
            /\ \A t \in DOMAIN sockets :
                  sockets'[t] = IF t = s THEN y ELSE sockets[t]
            BY <1>1, <2>1, <2>2, OneSocket DEF Inv
      <2>4. \A t \in DOMAIN sockets : /\ sockets'[t].open = sockets[t].open
                                      /\ sockets'[t].fd = sockets[t].fd
                                      /\ sockets'[t].queue = sockets[t].queue
            BY <2>1, <2>3
      <2>5. /\ cb' \in Callback
            /\ sockets[s].queue = <<>> => cb'.pc = "idle" /\ cb'.socket = 0
            /\ sockets[s].queue # <<>> =>
                  /\ cb'.pc = "recv" /\ cb'.fd = cb.fd /\ cb'.socket = s
                  /\ cb'.envelope = <<>>
            BY <2>2, EmptySeq DEF Inv, Types, Idle, Callback
      <2>6. Types' /\ Fresh' /\ TableMatchesSockets' /\ Filed'
            <3>1. Filed'
                  BY <1>3, <2>4, Found DEF Inv, Filed
            <3> QED
                BY <3>1, <1>2, <1>3, <2>3, <2>4, <2>5, ZenonT(40)
                   DEF Inv, Types, Fresh, TableMatchesSockets
      <2>7. AtWork' /\ Answering' /\ WDuringCallback' /\ ClosedOnlyInside'
            BY <1>1, <1>2, <1>4, <1>6, <2>3, <2>4, <2>5
               DEF AtWork, Working, Answering, WDuringCallback, ClosedOnlyInside
      <2>8. Reading'
            <3> SUFFICES ASSUME sockets[s].queue # <<>> PROVE Reading'
                BY <2>5 DEF Reading
            <3> DEFINE m == sockets[s].queue[1]
            <3>1. m \in Seq(Parts) /\ m # <<>>
                  BY <1>1, EmptySeq, ElementOfSeq DEF Socket
            <3>2. Len(m) > 0 /\ SubSeq(m, 1, 0) = <<>>
                  BY <3>1, EmptySeq, SubSeqEmpty, LenProperties
            <3> QED
                BY <1>1, <1>6, <2>4, <2>5, <3>2, EmptySeq, <2>3, ZenonT(40) DEF Reading
      <2>9. MessagesInOrder'
            <3> SUFFICES ASSUME NEW t \in DOMAIN sockets
                         PROVE  arrived[t] =
                                   [i \in DOMAIN handled[t] |-> handled[t][i][1]]
                                      \o sockets'[t].queue
                BY <1>2, <2>3 DEF MessagesInOrder
            <3> QED
                BY <2>4 DEF Inv, MessagesInOrder
      <2>10. StuckOnlyIfTaken'
             BY <1>1, <2>1, <2>3, <2>5 DEF Inv, StuckOnlyIfTaken
      <2> QED
          BY <2>6, <2>7, <2>8, <2>9, <2>10 DEF Inv
<1> QED
    BY <1>5, <1>6

\* The messages of what was read.
Whole(h) == [i \in DOMAIN h |-> h[i][1]]

(* Reading the first message of a queue moves it behind what was read, and *)
(* nothing is lost or exchanged.                                           *)
LEMMA MovedOver ==
  ASSUME NEW S, NEW q \in Seq(S), q # <<>>,
         NEW h \in Seq(S \X BOOLEAN), NEW b \in BOOLEAN
  PROVE  Whole(Append(h, <<q[1], b>>)) \o Tail(q) = Whole(h) \o q
<1> DEFINE g == Append(h, <<q[1], b>>)
           wg == Whole(g)
           wh == Whole(h)
<1>1. Len(q) \in Nat \ {0} /\ q[1] \in S
      BY EmptySeq, ElementOfSeq
<1>2. /\ g \in Seq(S \X BOOLEAN) /\ Len(g) = Len(h) + 1
      /\ \A i \in 1..Len(h) : g[i] = h[i]
      /\ g[Len(h) + 1] = <<q[1], b>>
      BY <1>1, AppendProperties
<1>3. /\ Len(h) \in Nat /\ DOMAIN h = 1..Len(h)
      /\ Len(g) \in Nat /\ DOMAIN g = 1..Len(g)
      BY <1>2, LenProperties
<1>4. /\ \A i \in 1..Len(h) : h[i][1] \in S
      /\ \A i \in 1..Len(g) : g[i][1] \in S
      BY <1>2, <1>3, ElementOfSeq
<1>5. /\ wh \in Seq(S) /\ Len(wh) = Len(h)
      /\ wg \in Seq(S) /\ Len(wg) = Len(g)
      /\ \A i \in 1..Len(h) : wh[i] = h[i][1]
      /\ \A i \in 1..Len(g) : wg[i] = g[i][1]
      BY <1>3, <1>4 DEF Whole
<1> HIDE DEF g, wg, wh
<1>6. /\ Tail(q) \in Seq(S) /\ Len(Tail(q)) = Len(q) - 1
      /\ \A i \in 1..Len(Tail(q)) : Tail(q)[i] = q[i + 1]
      BY HeadTailProperties
<1>7. /\ wg \o Tail(q) \in Seq(S)
      /\ Len(wg \o Tail(q)) = Len(wg) + Len(Tail(q))
      /\ \A i \in 1..(Len(wg) + Len(Tail(q))) : (wg \o Tail(q))[i] =
            IF i <= Len(wg) THEN wg[i] ELSE Tail(q)[i - Len(wg)]
      <2>1. wg \in Seq(S) /\ Tail(q) \in Seq(S)
            BY <1>5, <1>6
      <2> QED
          BY <2>1, ConcatProperties
<1>8. /\ wh \o q \in Seq(S)
      /\ Len(wh \o q) = Len(wh) + Len(q)
      /\ \A i \in 1..(Len(wh) + Len(q)) : (wh \o q)[i] =
            IF i <= Len(wh) THEN wh[i] ELSE q[i - Len(wh)]
      <2>1. wh \in Seq(S)
            BY <1>5
      <2> QED
          BY <2>1, ConcatProperties
<1> DEFINE l == wg \o Tail(q)
           r == wh \o q
<1>9. l = r
      <2>1. Len(l) = Len(h) + Len(q) /\ Len(r) = Len(h) + Len(q)
            BY <1>1, <1>2, <1>3, <1>5, <1>6, <1>7, <1>8
      <2>2. ASSUME NEW i \in 1..(Len(h) + Len(q))
            PROVE  l[i] = r[i]
            <3>1. l[i] = IF i <= Len(h) + 1 THEN wg[i] ELSE Tail(q)[i - (Len(h) + 1)]
                  BY <1>1, <1>2, <1>3, <1>5, <1>6, <1>7
            <3>2. r[i] = IF i <= Len(h) THEN wh[i] ELSE q[i - Len(h)]
                  BY <1>3, <1>5, <1>8
            <3> HIDE DEF l, r
            <3>3. CASE i <= Len(h)
                  BY <3>1, <3>2, <3>3, <1>2, <1>3, <1>5
            <3>4. CASE i = Len(h) + 1
                  BY <3>1, <3>2, <3>4, <1>1, <1>2, <1>3, <1>5
            <3>5. CASE i > Len(h) + 1
                  <4>1. i - (Len(h) + 1) \in 1..Len(Tail(q))
                        BY <3>5, <1>1, <1>3, <1>6
                  <4> QED
                      BY <3>1, <3>2, <3>5, <4>1, <1>1, <1>3, <1>6
            <3> QED
                BY <3>3, <3>4, <3>5, <1>1, <1>3
      <2>3. l \in Seq(S) /\ r \in Seq(S)
            BY <1>7, <1>8
      <2> HIDE DEF l, r
      <2> QED
          BY <2>1, <2>2, <2>3, SeqEqual
<1> QED
    BY <1>9 DEF g, wg, wh

(* The first parts of a message with the next one are its first parts.     *)
LEMMA PartAdded ==
  ASSUME NEW m \in Seq(Parts), NEW e \in Seq(Parts), Len(e) < Len(m),
         e = SubSeq(m, 1, Len(e))
  PROVE  /\ Append(e, m[Len(e) + 1]) \in Seq(Parts)
         /\ Len(Append(e, m[Len(e) + 1])) = Len(e) + 1
         /\ Append(e, m[Len(e) + 1]) =
               SubSeq(m, 1, Len(Append(e, m[Len(e) + 1])))
<1> DEFINE n == Len(e) + 1
<1>1. n \in 1..Len(m) /\ n \in n..Len(m) /\ n - 1 = Len(e) /\ 1 \in 1..Len(m)
      <2>1. Len(e) \in Nat /\ Len(m) \in Nat
            BY LenProperties
      <2> QED
          BY <2>1
<1>2. m[n] \in Parts
      BY <1>1, ElementOfSeq
<1>3. /\ Append(e, m[n]) \in Seq(Parts) /\ Len(Append(e, m[n])) = n
      /\ Append(e, m[n]) = e \o <<m[n]>>
      BY <1>2, AppendProperties, AppendIsConcat
<1>4. SubSeq(m, 1, n) = SubSeq(m, 1, n - 1) \o <<m[n]>>
      BY <1>1, SubSeqRecursiveSecond
<1> QED
    BY <1>1, <1>3, <1>4

(* on_msg_cb reads one part more; with the last one the message goes to    *)
(* .zmq.ps, or is dropped.                                                 *)
LEMMA RecvKeeps ==
  ASSUME Inv, on_msg_recv
  PROVE  Inv'
<1> DEFINE s == cb.socket
           q == sockets[s].queue
           m == q[1]
           envelope == Append(cb.envelope, m[Len(cb.envelope) + 1])
           last == Len(envelope) = Len(m)
<1>1. /\ cb.pc = "recv" /\ s \in DOMAIN sockets /\ cb.fd = sockets[s].fd
      /\ sockets[s] \in Socket /\ s \in 1..MaxSockets
      BY FdOfSocket, LenProperties, SMTT(40) DEF on_msg_recv, Inv, AtWork, Working, Types
<1>2. /\ sockets[s].open /\ q # <<>> /\ q \in Seq(Messages)
      /\ Len(cb.envelope) < Len(m)
      /\ cb.envelope = SubSeq(m, 1, Len(cb.envelope))
      BY <1>1 DEF Inv, Reading, Socket
<1>3. /\ m \in Messages /\ m \in Seq(Parts) /\ Len(m) \in Nat
      /\ cb.envelope \in Seq(Parts) /\ Len(cb.envelope) \in Nat
      BY <1>2, EmptySeq, ElementOfSeq, LenProperties, SMTT(40) DEF Inv, Types, Callback
<1>4. /\ envelope \in Seq(Parts) /\ Len(envelope) = Len(cb.envelope) + 1
      /\ envelope = SubSeq(m, 1, Len(envelope))
      BY <1>2, <1>3, PartAdded
<1>5. last => envelope = m
      BY <1>3, <1>4, SubSeqFull
<1>6. UNCHANGED <<handles, ps, arrived>>
      BY DEF on_msg_recv
<1>7. /\ cb' = [cb EXCEPT !.envelope = envelope,
                   !.pc = IF ~last THEN "recv" ELSE IF ps THEN "ps" ELSE "events"]
      /\ w' = IF last /\ ps THEN cb.fd ELSE w
      BY DEF on_msg_recv
<1>8. w = 0
      BY <1>1 DEF Inv, WDuringCallback
<1>9. /\ cb' \in Callback /\ cb'.fd = cb.fd /\ cb'.socket = s
      /\ cb'.envelope = envelope
      /\ cb'.pc = IF ~last THEN "recv" ELSE IF ps THEN "ps" ELSE "events"
      BY <1>3, <1>4, <1>7 DEF Inv, Types, Callback
<1>10. CASE ~last
       <2>1. UNCHANGED <<sockets, handled>> /\ w' = w /\ cb'.pc = "recv"
             BY <1>7, <1>9, <1>10 DEF on_msg_recv
       <2>2. Types' /\ Fresh' /\ TableMatchesSockets' /\ Filed' /\ MessagesInOrder'
             BY <1>6, <1>9, <2>1, CallbackOnly DEF Inv, Types
       <2>3. AtWork' /\ Answering' /\ WDuringCallback' /\ ClosedOnlyInside'
             BY <1>1, <1>2, <1>8, <1>9, <2>1 DEF AtWork, Working, Answering,
                                        WDuringCallback, ClosedOnlyInside
       <2>4. Reading'
             <3>1. Len(envelope) < Len(m)
                   BY <1>2, <1>3, <1>4, <1>10, SMTT(40)
             <3> QED
                 BY <3>1, <1>2, <1>4, <1>9, <2>1 DEF Reading
       <2>5. StuckOnlyIfTaken'
             BY <1>1, <1>9, <2>1 DEF Inv, StuckOnlyIfTaken
       <2> QED
           BY <2>2, <2>3, <2>4, <2>5 DEF Inv
<1>11. CASE last
       <2> DEFINE y == [sockets[s] EXCEPT !.queue = Tail(@)]
                  h == Append(handled[s], <<m, ps>>)
       <2>1. /\ sockets' = [sockets EXCEPT ![s].queue = Tail(@)]
             /\ handled' = [handled EXCEPT ![s] = Append(@, <<envelope, ps>>)]
             BY <1>11 DEF on_msg_recv
       <2>2. /\ sockets' = [sockets EXCEPT ![s] = y]
             /\ handled' = [handled EXCEPT ![s] = h]
             BY <2>1, <1>5, <1>11
       <2>3. /\ y \in Socket /\ y.queue = Tail(q)
             /\ y.open = sockets[s].open /\ y.fd = sockets[s].fd
             <3>1. Tail(q) \in Seq(Messages)
                   BY <1>2, HeadTailProperties
             <3> QED
                 BY <3>1, <1>1 DEF Socket
       <2>4. /\ sockets' \in Seq(Socket) /\ Len(sockets') = Len(sockets)
             /\ DOMAIN sockets' = DOMAIN sockets
             /\ \A t \in DOMAIN sockets :
                   sockets'[t] = IF t = s THEN y ELSE sockets[t]
             BY <1>1, <2>2, <2>3, OneSocket DEF Inv
       <2>5. \A t \in DOMAIN sockets : /\ sockets'[t].open = sockets[t].open
                                       /\ sockets'[t].fd = sockets[t].fd
             BY <2>3, <2>4
       <2>6. ps \in BOOLEAN /\ handled[s] \in Seq(Seq(Parts) \X BOOLEAN)
             BY <1>1 DEF Inv, Types, Reads
       <2>7. /\ h \in Seq(Seq(Parts) \X BOOLEAN) /\ Len(h) = Len(handled[s]) + 1
             /\ h[Len(handled[s]) + 1] = <<m, ps>>
             /\ handled' \in Reads
             /\ \A t \in 1..MaxSockets :
                   handled'[t] = IF t = s THEN h ELSE handled[t]
             <3>1. <<m, ps>> \in Seq(Parts) \X BOOLEAN
                   BY <1>3, <2>6
             <3>2. /\ h \in Seq(Seq(Parts) \X BOOLEAN)
                   /\ Len(h) = Len(handled[s]) + 1
                   /\ h[Len(handled[s]) + 1] = <<m, ps>>
                   BY <3>1, <2>6, AppendProperties
             <3> QED
                 BY <3>2, <2>2, <1>1 DEF Inv, Types, Reads
       <2>8. UNCHANGED <<CONTEXTS, SOCKETS_BY_FD, watched, given>>
             BY <1>6 DEF handles
       <2>9. w' \in Fds \cup {0}
             BY <1>1, <1>7, FdOfSocket DEF Inv, Types
       <2>10. Types' /\ Fresh' /\ TableMatchesSockets' /\ Filed'
              <3>1. Filed'
                    BY <2>5, <2>8, Found DEF Inv, Filed
              <3>2. Fresh'
                    <4>1. ~(s > Len(sockets)) /\ Len(sockets) \in Nat
                          BY <1>1, LenProperties DEF Inv, Types
                    <4> QED
                        BY <4>1, <1>6, <2>4, <2>7 DEF Inv, Fresh
              <3>3. Types'
                    BY <1>6, <1>9, <2>4, <2>7, <2>8, <2>9 DEF Inv, Types
              <3> QED
                  BY <3>1, <3>2, <3>3, <2>4, <2>5, <2>8
                     DEF Inv, TableMatchesSockets
       <2>11. AtWork' /\ Reading' /\ WDuringCallback' /\ ClosedOnlyInside'
              <3>1. cb'.pc = IF ps THEN "ps" ELSE "events"
                    BY <1>9, <1>11
              <3>2. w' = IF ps THEN sockets'[s].fd ELSE 0
                    BY <1>1, <1>7, <1>8, <1>11, <2>5
              <3>3. s # 0 /\ s \in DOMAIN sockets' /\ sockets'[s].open
                    BY <1>1, <1>2, <2>4, <2>5
              <3>4. cb'.socket = s /\ cb'.fd = sockets'[s].fd
                    BY <1>1, <1>9, <2>5
              <3>5. AtWork'
                    BY <3>1, <3>3, <3>4 DEF AtWork, Working
              <3>6. Reading'
                    BY <3>1 DEF Reading
              <3>7. WDuringCallback'
                    BY <3>1, <3>2, <3>4 DEF WDuringCallback
              <3>8. ClosedOnlyInside'
                    BY <3>3, <3>4 DEF ClosedOnlyInside
              <3> QED
                  BY <3>5, <3>6, <3>7, <3>8
       <2>12. Answering'
              <3> SUFFICES ASSUME ps
                           PROVE  \E i \in DOMAIN h : h[i][2]
                  BY <1>1, <1>9, <1>11, <2>7 DEF Answering
              <3>1. Len(handled[s]) + 1 \in DOMAIN h
                    BY <2>6, <2>7, LenProperties
              <3>2. h[Len(handled[s]) + 1] = <<m, TRUE>>
                    <4>1. ps = TRUE
                          BY <2>6
                    <4> QED
                        BY <4>1, <2>7
              <3>3. h[Len(handled[s]) + 1][2]
                    BY <3>2
              <3> QED
                  BY <3>1, <3>3, Zenon
       <2>13. MessagesInOrder'
              <3> SUFFICES ASSUME NEW t \in DOMAIN sockets
                           PROVE  arrived[t] =
                                    [i \in DOMAIN handled'[t] |-> handled'[t][i][1]]
                                       \o sockets'[t].queue
                  BY <1>6, <2>4 DEF MessagesInOrder
              <3>1. t \in 1..MaxSockets
                    BY LenProperties DEF Inv, Types
              <3>2. arrived[t] = [i \in DOMAIN handled[t] |-> handled[t][i][1]]
                                    \o sockets[t].queue
                    BY DEF Inv, MessagesInOrder
              <3>3. CASE t # s
                    BY <3>1, <3>2, <3>3, <2>4, <2>7
              <3>4. CASE t = s
                    <4>1. q \in Seq(Seq(Parts))
                          BY <1>2, SeqMonotonic
                    <4>2. Whole(h) \o Tail(q) = Whole(handled[s]) \o q
                          <5> HIDE DEF q, m
                          <5>1. q # <<>> /\ m = q[1]
                                BY <1>2 DEF m
                          <5> QED
                              BY <4>1, <5>1, <2>6, MovedOver, ZenonT(40)
                    <4> QED
                        BY <3>1, <3>2, <3>4, <4>2, <2>3, <2>4, <2>7 DEF Whole
              <3> QED
                  BY <3>3, <3>4
       <2>14. StuckOnlyIfTaken'
              BY <1>1, <1>9, <2>4 DEF Inv, StuckOnlyIfTaken
       <2> QED
           BY <2>10, <2>11, <2>12, <2>13, <2>14 DEF Inv
<1> QED
    BY <1>10, <1>11

-----------------------------------------------------------------------------
(* The theorems                                                            *)

(* A message that comes is behind everything that came before.             *)
LEMMA CameBehind ==
  ASSUME NEW S, NEW a \in Seq(S), NEW q \in Seq(S), NEW m \in S
  PROVE  a \o Append(q, m) = Append(a \o q, m)
<1>1. Append(q, m) = q \o <<m>> /\ <<m>> \in Seq(S)
      BY AppendIsConcat
<1>2. a \o (q \o <<m>>) = (a \o q) \o <<m>>
      BY <1>1, ConcatAssociative
<1>3. a \o q \in Seq(S)
      BY ConcatProperties
<1>4. Append(a \o q, m) = (a \o q) \o <<m>>
      BY <1>3, AppendIsConcat
<1> QED
    BY <1>1, <1>2, <1>4

(* What was read are messages, or parts of the sequences that messages are.*)
LEMMA WholeType ==
  ASSUME NEW S, NEW h \in Seq(S \X BOOLEAN)
  PROVE  Whole(h) \in Seq(S)
<1>1. Len(h) \in Nat /\ DOMAIN h = 1..Len(h)
      BY LenProperties
<1>2. \A i \in 1..Len(h) : h[i][1] \in S
      BY <1>1, ElementOfSeq
<1> QED
    BY <1>1, <1>2 DEF Whole

(* A message comes with a signal.                                          *)
LEMMA ArriveKeeps ==
  ASSUME Inv, NEW s \in DOMAIN sockets, NEW m \in Messages, Arrive(s, m)
  PROVE  Inv'
<1> DEFINE q == sockets[s].queue
           y == [sockets[s] EXCEPT !.queue = Append(@, m), !.signal = TRUE]
<1>1. /\ sockets[s] \in Socket /\ s \in 1..MaxSockets
      /\ q \in Seq(Messages) /\ DOMAIN sockets \subseteq 1..MaxSockets
      <2>1. sockets[s] \in Socket
            BY FdOfSocket DEF Inv
      <2>2. DOMAIN sockets = 1..Len(sockets) /\ Len(sockets) \in Nat
            BY LenProperties DEF Inv, Types
      <2>3. DOMAIN sockets \subseteq 1..MaxSockets
            BY <2>2 DEF Inv, Types
      <2> QED
          BY <2>1, <2>3 DEF Socket
<1>2. /\ UNCHANGED <<CONTEXTS, SOCKETS_BY_FD, watched, given>>
      /\ UNCHANGED <<ps, w, cb, handled>>
      BY DEF Arrive, handles
<1>3. /\ Append(q, m) \in Seq(Messages) /\ Append(q, m) # <<>>
      /\ q # <<>> => Append(q, m)[1] = q[1]
      <2>1. q # <<>> => 1 \in 1..Len(q)
            BY <1>1, EmptySeq, LenProperties
      <2> QED
          BY <1>1, <2>1, AppendProperties
<1>4. /\ y \in Socket /\ y.open = sockets[s].open /\ y.fd = sockets[s].fd
      /\ y.queue = Append(q, m) /\ y.signal = TRUE
      BY <1>1, <1>3 DEF Socket
<1>5. /\ sockets' = [sockets EXCEPT ![s] = y]
      /\ arrived' = [arrived EXCEPT ![s] = Append(@, m)]
      BY DEF Arrive
<1>6. /\ sockets' \in Seq(Socket) /\ Len(sockets') = Len(sockets)
      /\ DOMAIN sockets' = DOMAIN sockets
      /\ \A t \in DOMAIN sockets : sockets'[t] = IF t = s THEN y ELSE sockets[t]
      BY <1>4, <1>5, OneSocket DEF Inv
<1>7. \A t \in DOMAIN sockets : /\ sockets'[t].open = sockets[t].open
                                /\ sockets'[t].fd = sockets[t].fd
      BY <1>4, <1>6
<1>8. /\ arrived[s] \in Seq(Messages) /\ Append(arrived[s], m) \in Seq(Messages)
      /\ arrived' \in [1..MaxSockets -> Seq(Messages)]
      /\ \A t \in 1..MaxSockets :
            arrived'[t] = IF t = s THEN Append(arrived[s], m) ELSE arrived[t]
      <2>1. arrived[s] \in Seq(Messages)
            BY <1>1 DEF Inv, Types
      <2>2. Append(arrived[s], m) \in Seq(Messages)
            BY <2>1, AppendProperties
      <2> QED
          BY <2>1, <2>2, <1>1, <1>5 DEF Inv, Types
<1>9. Types' /\ Fresh' /\ TableMatchesSockets' /\ Filed'
      <2>1. Types'
            BY <1>2, <1>6, <1>8 DEF Inv, Types
      <2>4. TableMatchesSockets'
            BY <1>2, <1>6, <1>7 DEF Inv, TableMatchesSockets
      <2>2. Fresh'
            <3>1. ~(s > Len(sockets)) /\ Len(sockets) \in Nat
                  BY LenProperties DEF Inv, Types
            <3> QED
                BY <3>1, <1>2, <1>6, <1>8 DEF Inv, Fresh
      <2>3. Filed'
            BY <1>2, <1>7, Found DEF Inv, Filed
      <2> QED
          BY <2>1, <2>2, <2>3, <2>4
<1>10. AtWork' /\ Answering' /\ WDuringCallback' /\ ClosedOnlyInside'
       BY <1>2, <1>6, <1>7 DEF Inv, AtWork, Working, Answering,
                               WDuringCallback, ClosedOnlyInside
<1>11. Reading'
       <2> SUFFICES ASSUME cb.pc = "recv" PROVE Reading'
           BY <1>2 DEF Reading
       <2>1. cb.socket \in DOMAIN sockets
             BY DEF Inv, AtWork, Working
       <2>2. /\ sockets[cb.socket].queue # <<>>
             /\ sockets'[cb.socket].queue # <<>>
             /\ sockets'[cb.socket].queue[1] = sockets[cb.socket].queue[1]
             BY <2>1, <1>3, <1>4, <1>6 DEF Inv, Reading
       <2> QED
           BY <2>1, <2>2, <1>2, <1>7 DEF Inv, Reading
<1>12. MessagesInOrder'
       <2> SUFFICES ASSUME NEW t \in DOMAIN sockets
                    PROVE  arrived'[t] = Whole(handled[t]) \o sockets'[t].queue
           BY <1>2, <1>6 DEF MessagesInOrder, Whole
       <2>1. arrived[t] = Whole(handled[t]) \o sockets[t].queue
             BY DEF Inv, MessagesInOrder, Whole
       <2>2. CASE t # s
             BY <2>1, <2>2, <1>1, <1>6, <1>8
       <2>3. CASE t = s
             <3>1. handled[s] \in Seq(Seq(Parts) \X BOOLEAN)
                   BY <1>1 DEF Inv, Types, Reads
             <3>2. Whole(handled[s]) \in Seq(Seq(Parts))
                   BY <3>1, WholeType
             <3>3. q \in Seq(Seq(Parts)) /\ m \in Seq(Parts)
                   BY <1>1, SeqMonotonic
             <3>5. Whole(handled[s]) \o Append(q, m) =
                      Append(Whole(handled[s]) \o q, m)
               <4> DEFINE M == Seq(Parts)
               <4>1. Whole(handled[s]) \in Seq(M) /\ q \in Seq(M) /\ m \in M
                     BY <3>2, <3>3
               <4> HIDE DEF M, q
               <4> QED
                   BY <4>1, CameBehind, SMTT(40)
             <3> QED
                 BY <2>1, <2>3, <3>5, <1>1, <1>4, <1>6, <1>8
       <2> QED
           BY <2>2, <2>3
<1>13. StuckOnlyIfTaken'
       BY <1>2, <1>4, <1>6 DEF Inv, StuckOnlyIfTaken
<1> QED
    BY <1>9, <1>10, <1>11, <1>12, <1>13 DEF Inv

(* Every call of the program keeps the invariant.                          *)
LEMMA CallsKeep ==
  ASSUME Inv, Calls
  PROVE  Inv'
<1>1. CASE q_ctx_new
      BY <1>1, CtxNewKeeps
<1>2. CASE q_version \/ q_type
      BY <1>2, AnswerKeeps DEF q_version, q_type
<1>3. CASE Define
      BY <1>3, DefineKeeps
<1>4. ASSUME NEW c \in DOMAIN CONTEXTS,
             q_socket(c) \/ q_ctx_destroy(c) \/ q_ctx_get(c) \/ q_ctx_set(c)
      PROVE  Inv'
      BY <1>4, SocketKeeps, CtxDestroyKeeps, AnswerKeeps DEF q_ctx_get, q_ctx_set
<1>5. ASSUME NEW fd \in given, q_close(fd)
      PROVE  Inv'
      BY <1>5, CloseKeeps
<1>6. ASSUME NEW fd \in given, NEW o, q_getsockopt(fd, o) \/ q_setsockopt(fd, o)
      PROVE  Inv'
      BY <1>6, AnswerKeeps DEF q_getsockopt, q_setsockopt
<1>7. ASSUME NEW fd \in given, NEW e \in Endpoints,
             \/ q_bind(fd, e) \/ q_unbind(fd, e)
             \/ q_connect(fd, e) \/ q_disconnect(fd, e)
      PROVE  Inv'
      <2>1. /\ Eps(fd) \cup {e} \in SUBSET Endpoints
            /\ Eps(fd) \ {e} \in SUBSET Endpoints
            BY EpsType DEF Inv
      <2> QED
          BY <1>7, <2>1, EndpointKeeps
             DEF q_bind, q_unbind, q_connect, q_disconnect
<1>8. ASSUME NEW fd \in given, NEW m \in Messages,
             q_send(fd, m) \/ q_send_multipart(fd, m)
      PROVE  Inv'
      BY <1>8, SendMultipartKeeps DEF q_send
<1> QED
    BY <1>1, <1>2, <1>3, <1>4, <1>5, <1>6, <1>7, <1>8 DEF Calls

(* A call that waits is one that was made; while it waits nothing happens  *)
(* but that messages come.                                                 *)
LEMMA HeldStep ==
  ASSUME Inv, Held, [Next]_vars
  PROVE  Held'
<1>1. CASE waiting' = NoCall
      BY <1>1 DEF Held, NoCall
<1>2. CASE \E c \in DOMAIN CONTEXTS : Program /\ Waits("destroy", c, <<>>)
      BY <1>2 DEF Held, Program, Waits, NoCall
<1>3. CASE \E s \in DOMAIN sockets, m \in Messages : Program /\ Waits("send", s, m)
      BY <1>3 DEF Held, Program, Waits, NoCall
<1>4. ASSUME NEW s \in DOMAIN sockets, NEW m \in Messages, Arrive(s, m)
      PROVE  Held'
  <2>1. UNCHANGED <<waiting, cb, CONTEXTS>> /\ DOMAIN sockets' = DOMAIN sockets
        BY <1>4 DEF Arrive, handles, Inv, Types
  <2> QED
      BY <2>1 DEF Held
<1>5. CASE Stopped \/ UNCHANGED vars
      BY <1>5 DEF Stopped, vars, handles, inbound, Held
<1>6. ASSUME NEW fd \in given, NEW m \in Messages, q_send_multipart(fd, m)
      PROVE  Held'
  <2>1. SOCKETS_BY_FD[fd] # 0 => SOCKETS_BY_FD[fd] \in DOMAIN sockets
        BY Found DEF Inv, Types
  <2>2. \/ waiting' = NoCall
        \/ SOCKETS_BY_FD[fd] # 0 /\ Program /\ Waits("send", SOCKETS_BY_FD[fd], m)
        BY <1>6 DEF q_send_multipart, Send, Program
  <2> QED
      BY <1>1, <1>3, <2>1, <2>2
<1>7. ASSUME NEW c \in DOMAIN CONTEXTS, q_ctx_destroy(c)
      PROVE  Held'
  <2>1. \/ waiting' = NoCall
        \/ Program /\ Waits("destroy", c, <<>>)
        BY <1>7 DEF q_ctx_destroy, Destroy, Program
  <2> QED
      BY <1>1, <1>2, <2>1
<1>8. CASE \/ q_ctx_new \/ q_version \/ q_type \/ Define
           \/ \E c \in DOMAIN CONTEXTS : q_socket(c) \/ q_ctx_get(c) \/ q_ctx_set(c)
  <2>1. waiting' = NoCall
        BY <1>8 DEF q_ctx_new, q_version, q_type, Define, q_socket, q_ctx_get,
                    q_ctx_set, Answer, Program
  <2> QED
      BY <1>1, <2>1
<1>9. ASSUME NEW fd \in given,
             \/ q_close(fd) \/ \E o : q_getsockopt(fd, o) \/ q_setsockopt(fd, o)
             \/ \E e : \/ q_bind(fd, e) \/ q_unbind(fd, e)
                       \/ q_connect(fd, e) \/ q_disconnect(fd, e)
      PROVE  Held'
  <2>1. waiting' = NoCall
        BY <1>9 DEF q_close, q_getsockopt, q_setsockopt, Answer, q_bind, q_unbind,
                    q_connect, q_disconnect, Endpoint, Program
  <2> QED
      BY <1>1, <2>1
<1>10. CASE Calls
       BY <1>6, <1>7, <1>8, <1>9, <1>10 DEF Calls, q_send
<1>11. CASE on_msg_cb \/ on_msg_ps \/ ctx_destroy_returns \/ send_returns
  <2>1. waiting' = NoCall
        BY <1>11 DEF on_msg_cb, on_msg_ps, ctx_destroy_returns, send_returns,
                     Destroy, Send
  <2> QED
      BY <1>1, <2>1
<1>12. CASE on_msg_events \/ on_msg_recv
  <2>1. waiting' = NoCall
        BY <1>12 DEF on_msg_events, on_msg_recv, Held
  <2> QED
      BY <1>1, <2>1
<1> QED
    BY <1>4, <1>5, <1>10, <1>11, <1>12 DEF Next

(* The invariant is one: calls of the program between two callbacks and    *)
(* inside one, the callback itself, messages that come at any time, and    *)
(* calls that return late.                                                 *)
THEOREM InvHolds == Spec => [](Inv /\ Held)
<1>1. Inv /\ Held /\ [Next]_vars => Inv'
      <2> SUFFICES ASSUME Inv, Held, [Next]_vars PROVE Inv'
          OBVIOUS
      <2>1. CASE Calls
            BY <2>1, CallsKeep
      <2>2. CASE on_msg_cb
            BY <2>2, CallbackKeeps
      <2>3. CASE on_msg_events
            BY <2>3, EventsKeeps
      <2>4. CASE on_msg_recv
            BY <2>4, RecvKeeps
      <2>5. CASE on_msg_ps
            BY <2>5, PsKeeps
      <2>6. ASSUME NEW s \in DOMAIN sockets, NEW m \in Messages, Arrive(s, m)
            PROVE  Inv'
            BY <2>6, ArriveKeeps
      <2>8. CASE ctx_destroy_returns
            BY <2>8, DestroyKeeps DEF ctx_destroy_returns, Held
      <2>9. CASE send_returns
            BY <2>9, SendKeeps DEF send_returns, Held
      <2>7. CASE Stopped \/ UNCHANGED vars
            <3>1. UNCHANGED <<handles, inbound, sockets>>
                  BY <2>7 DEF Stopped, vars
            <3> QED
                BY <3>1, Untouched DEF handles, inbound, Inv, Types
      <2> QED
          BY <2>1, <2>2, <2>3, <2>4, <2>5, <2>6, <2>7, <2>8, <2>9 DEF Next
<1>2. Init => Held
      BY DEF Init, Held, NoCall
<1> QED
    BY <1>1, <1>2, HeldStep, InvInit, PTL DEF Spec

(* Whatever is closed and opened, inside a callback or not: the table, q's *)
(* event loop and the open sockets agree (q_socket, q_close).              *)
THEOREM TableIsExact == Spec => []SocketsAgree
<1>1. Inv /\ Held => SocketsAgree
      <2> SUFFICES ASSUME Inv, Held PROVE SocketsAgree
          OBVIOUS
      <2>1. QzmqTypeOK
            BY DEF Inv, Held, Types, Callback, QzmqTypeOK
      <2> QED
          BY <2>1 DEF Inv, SocketsAgree
<1> QED
    BY <1>1, InvHolds, PTL

(* on_msg_cb, and .zmq.ps through .zmq.w, know the socket whose message    *)
(* they handle; only .zmq.ps itself closes it under them.                  *)
THEOREM CallbackIsAboutItsSocket == Spec => []CallbackKnowsSocket
<1>1. Inv => CallbackKnowsSocket
      BY DEF Inv, CallbackKnowsSocket
<1> QED
    BY <1>1, InvHolds, PTL

(* No message is lost, split, repeated, reordered or, unless a call took   *)
(* its signal, passed over (on_msg_cb).                                    *)
THEOREM MessagesAreKept == Spec => []NoneLostOrStuck
<1>1. Inv => NoneLostOrStuck
      BY DEF Inv, NoneLostOrStuck
<1> QED
    BY <1>1, InvHolds, PTL

-----------------------------------------------------------------------------
(* What is sent                                                            *)

\* Sends that were tried: a message and how many of its parts were accepted.
Try == {e \in Messages \X Nat : e[2] <= Len(e[1])}
Taken(e) == e[2] = Len(e[1])
Sent(e) == SubSeq(e[1], 1, e[2])

\* The parts that the k-th to the l-th try of t left, one after the other.
RunOf(t, k, l) == [j \in 1..(l - k + 1) |-> Sent(t[k + j - 1])]
Run(t, k, l) == FlattenSeq(RunOf(t, k, l))

\* The parts that wait are those of the last tries, which failed.
Leftover(t, more) ==
    \E k \in 1..Len(t) + 1 :
       /\ \A j \in k..Len(t) : ~Taken(t[j])
       /\ more = Run(t, k, Len(t))

\* A message that left is a whole try behind others that failed.
Merged(t, p) ==
    \E k, l \in 1..Len(t) :
       /\ k <= l /\ Taken(t[l])
       /\ \A j \in k..(l - 1) : ~Taken(t[j])
       /\ p = Run(t, k, l)

SendInv ==
    /\ wire \in Seq(Nat \X Seq(Parts))
    /\ \A s \in DOMAIN sockets : /\ sockets[s].tried \in Seq(Try)
                                 /\ Leftover(sockets[s].tried, sockets[s].more)
    /\ \A i \in DOMAIN wire : /\ wire[i][1] \in DOMAIN sockets
                              /\ Merged(sockets[wire[i][1]].tried, wire[i][2])

(* A try leaves parts.                                                     *)
LEMMA SentType ==
  ASSUME NEW e \in Try
  PROVE  Sent(e) \in Seq(Parts)
<1>1. e[1] \in Seq(Parts) /\ e[2] \in Nat /\ e[2] <= Len(e[1])
      BY DEF Try
<1>2. \A i \in 1..e[2] : e[1][i] \in Parts
      BY <1>1, ElementOfSeq, LenProperties
<1> QED
    BY <1>1, <1>2, SubSeqProperties DEF Sent

(* A run of tries is a sequence of sequences of parts.                     *)
LEMMA RunType ==
  ASSUME NEW t \in Seq(Try), NEW k \in 1..Len(t) + 1, NEW l \in 0..Len(t),
         k <= l + 1
  PROVE  RunOf(t, k, l) \in Seq(Seq(Parts)) /\ Len(RunOf(t, k, l)) = l - k + 1
<1> PICK n \in Nat : n = l - k + 1
    BY LenProperties
<1>1. \A j \in 1..n : Sent(t[k + j - 1]) \in Seq(Parts)
  <2> SUFFICES ASSUME NEW j \in 1..n PROVE Sent(t[k + j - 1]) \in Seq(Parts)
      OBVIOUS
  <2>1. k + j - 1 \in 1..Len(t)
        BY LenProperties
  <2>2. t[k + j - 1] \in Try
        BY <2>1, ElementOfSeq
  <2> QED
      BY <2>2, SentType
<1>2. RunOf(t, k, l) = [j \in 1..n |-> Sent(t[k + j - 1])]
      BY DEF RunOf
<1>3. RunOf(t, k, l) \in [1..n -> Seq(Parts)]
      BY <1>1, <1>2
<1> HIDE DEF RunOf
<1>4. RunOf(t, k, l) \in Seq(Seq(Parts))
      BY <1>3, SeqDef
<1> QED
    BY <1>3, <1>4, LenProperties, SMTT(40)

(* One more try leaves the runs before it as they are,                     *)
LEMMA RunBefore ==
  ASSUME NEW t \in Seq(Try), NEW e \in Try,
         NEW k \in 1..Len(t) + 1, NEW l \in 0..Len(t)
  PROVE  Run(Append(t, e), k, l) = Run(t, k, l)
<1>1. \A i \in 1..Len(t) : Append(t, e)[i] = t[i]
      BY AppendProperties
<1>2. Len(t) \in Nat
      BY LenProperties
<1>3. \A j \in 1..(l - k + 1) : k + j - 1 \in 1..Len(t)
      BY <1>2
<1>4. RunOf(Append(t, e), k, l) = RunOf(t, k, l)
      BY <1>1, <1>3 DEF RunOf
<1> QED
    BY <1>4 DEF Run

(* and makes a run that reaches it longer.                                 *)
LEMMA RunLonger ==
  ASSUME NEW t \in Seq(Try), NEW e \in Try, NEW k \in 1..Len(t) + 1
  PROVE  Run(Append(t, e), k, Len(t) + 1) = Run(t, k, Len(t)) \o Sent(e)
<1> DEFINE N == Len(t)
           a == Append(t, e)
           r == RunOf(t, k, N)
           q == RunOf(a, k, N + 1)
           p == Append(r, Sent(e))
<1>1. N \in Nat /\ a \in Seq(Try) /\ Len(a) = N + 1 /\ a[N + 1] = e
      BY LenProperties, AppendProperties
<1>2. \A i \in 1..N : a[i] = t[i]
      BY AppendProperties
<1>3. r \in Seq(Seq(Parts)) /\ Len(r) = N - k + 1
      BY <1>1, RunType
<1>4. q \in Seq(Seq(Parts)) /\ Len(q) = N - k + 2
  <2>1. k \in 1..Len(a) + 1 /\ N + 1 \in 0..Len(a) /\ k <= (N + 1) + 1
        BY <1>1
  <2> HIDE DEF a
  <2>2. RunOf(a, k, N + 1) \in Seq(Seq(Parts))
        /\ Len(RunOf(a, k, N + 1)) = (N + 1) - k + 1
        BY <1>1, <2>1, RunType
  <2> QED
      BY <1>1, <2>2
<1>5. Sent(e) \in Seq(Parts)
      BY SentType
<1>6. /\ p \in Seq(Seq(Parts)) /\ Len(p) = N - k + 2
      /\ \A j \in 1..N - k + 1 : p[j] = r[j]
      /\ p[N - k + 2] = Sent(e)
  <2> HIDE DEF r
  <2> DEFINE M == Seq(Parts)
  <2>2. r \in Seq(M) /\ Sent(e) \in M
        BY <1>3, <1>5
  <2> HIDE DEF M
  <2>3. /\ p \in Seq(M)
        /\ Len(p) = Len(r) + 1
        /\ \A j \in 1..Len(r) : p[j] = r[j]
        /\ p[Len(r) + 1] = Sent(e)
        BY <2>2, AppendProperties
  <2>1. /\ p \in Seq(Seq(Parts))
        /\ Len(p) = Len(r) + 1
        /\ \A j \in 1..Len(r) : p[j] = r[j]
        /\ p[Len(r) + 1] = Sent(e)
        BY <2>3 DEF M
  <2> HIDE DEF p
  <2> QED
      BY <1>1, <1>3, <2>1
<1>7. \A j \in 1..N - k + 1 : q[j] = r[j]
  <2> SUFFICES ASSUME NEW j \in 1..N - k + 1 PROVE q[j] = r[j]
      OBVIOUS
  <2>1. k + j - 1 \in 1..N /\ j \in 1..(N + 1) - k + 1
        BY <1>1
  <2>2. q[j] = Sent(a[k + j - 1]) /\ r[j] = Sent(t[k + j - 1])
        BY <2>1 DEF RunOf
  <2> QED
      BY <1>2, <2>1, <2>2
<1>8. q[N - k + 2] = Sent(e)
  <2>1. N - k + 2 \in 1..(N + 1) - k + 1 /\ k + (N - k + 2) - 1 = N + 1
        BY <1>1
  <2>2. q[N - k + 2] = Sent(a[k + (N - k + 2) - 1])
        BY <2>1 DEF RunOf
  <2> QED
      BY <1>1, <2>1, <2>2
<1>9. q = p
  <2>1. \A j \in 1..N - k + 2 : j \in 1..N - k + 1 \/ j = N - k + 2
        BY <1>1
  <2>2. \A j \in 1..N - k + 2 : q[j] = p[j]
        BY <1>6, <1>7, <1>8, <2>1
  <2> HIDE DEF p, q
  <2> QED
      BY <1>4, <1>6, <2>2, SeqEqual
<1> HIDE DEF q, r
<1>10. FlattenSeq(q) = FlattenSeq(r) \o Sent(e)
       BY <1>3, <1>5, <1>9, FlattenAppend
<1> QED
    BY <1>10 DEF q, r, Run

(* An empty run leaves nothing.                                            *)
LEMMA RunNone ==
  ASSUME NEW t, NEW n \in Nat
  PROVE  Run(t, n + 1, n) = <<>>
<1>1. 1..(n - (n + 1) + 1) = {}
      OBVIOUS
<1>2. RunOf(t, n + 1, n) = <<>>
      BY <1>1 DEF RunOf
<1> QED
    BY <1>2, FlattenEmpty DEF Run

(* A message that left stays explained when there is one more try.         *)
LEMMA MergedStays ==
  ASSUME NEW t \in Seq(Try), NEW e \in Try, NEW p, Merged(t, p)
  PROVE  Merged(Append(t, e), p)
<1> DEFINE a == Append(t, e)
<1>1. PICK k \in 1..Len(t), l \in 1..Len(t) :
         /\ k <= l /\ Taken(t[l])
         /\ \A j \in k..(l - 1) : ~Taken(t[j])
         /\ p = Run(t, k, l)
      BY DEF Merged
<1>2. /\ Len(t) \in Nat /\ Len(a) = Len(t) + 1
      /\ \A i \in 1..Len(t) : a[i] = t[i]
      BY LenProperties, AppendProperties
<1>3. p = Run(a, k, l)
      BY <1>1, <1>2, RunBefore
<1> HIDE DEF a
<1>4. k \in 1..Len(a) /\ l \in 1..Len(a)
      BY <1>2
<1>5. Taken(a[l])
      BY <1>1, <1>2
<1>6. \A j \in k..(l - 1) : ~Taken(a[j])
  <2>1. \A j \in k..(l - 1) : j \in 1..Len(t)
        BY <1>2
  <2> QED
      BY <1>1, <1>2, <2>1
<1> QED
    BY <1>1, <1>3, <1>4, <1>5, <1>6 DEF Merged, a

(* A try that fails adds its parts to those that wait;                     *)
LEMMA LeftoverLonger ==
  ASSUME NEW t \in Seq(Try), NEW e \in Try, NEW more, Leftover(t, more),
         ~Taken(e)
  PROVE  Leftover(Append(t, e), more \o Sent(e))
<1> DEFINE a == Append(t, e)
<1>1. PICK k \in 1..Len(t) + 1 : /\ \A j \in k..Len(t) : ~Taken(t[j])
                                 /\ more = Run(t, k, Len(t))
      BY DEF Leftover
<1>2. /\ Len(t) \in Nat /\ Len(a) = Len(t) + 1 /\ a[Len(t) + 1] = e
      /\ \A i \in 1..Len(t) : a[i] = t[i]
      BY LenProperties, AppendProperties
<1>3. Run(a, k, Len(t) + 1) = more \o Sent(e)
      BY <1>1, RunLonger
<1> HIDE DEF a
<1>4. \A j \in k..Len(t) + 1 : ~Taken(a[j])
  <2>1. \A j \in k..Len(t) + 1 :
           (j \in k..Len(t) /\ j \in 1..Len(t)) \/ j = Len(t) + 1
        BY <1>2
  <2> QED
      BY <1>1, <1>2, <2>1
<1>5. k \in 1..Len(a) + 1
      BY <1>2
<1>6. Leftover(a, more \o Sent(e))
      BY <1>2, <1>3, <1>4, <1>5 DEF Leftover
<1> QED
    BY <1>6 DEF a

(* one that succeeds takes them along,                                     *)
LEMMA MergedNow ==
  ASSUME NEW t \in Seq(Try), NEW e \in Try, NEW more, Leftover(t, more), Taken(e)
  PROVE  Merged(Append(t, e), more \o Sent(e))
<1> DEFINE a == Append(t, e)
<1>1. PICK k \in 1..Len(t) + 1 : /\ \A j \in k..Len(t) : ~Taken(t[j])
                                 /\ more = Run(t, k, Len(t))
      BY DEF Leftover
<1>2. /\ Len(t) \in Nat /\ Len(a) = Len(t) + 1 /\ a[Len(t) + 1] = e
      /\ \A i \in 1..Len(t) : a[i] = t[i]
      BY LenProperties, AppendProperties
<1>3. Run(a, k, Len(t) + 1) = more \o Sent(e)
      BY <1>1, RunLonger
<1> HIDE DEF a
<1>4. \A j \in k..(Len(t) + 1) - 1 : ~Taken(a[j])
  <2>1. \A j \in k..(Len(t) + 1) - 1 : j \in k..Len(t) /\ j \in 1..Len(t)
        BY <1>2
  <2> QED
      BY <1>1, <1>2, <2>1
<1>5. k \in 1..Len(a) /\ Len(t) + 1 \in 1..Len(a) /\ k <= Len(t) + 1
      BY <1>2
<1>6. Taken(a[Len(t) + 1])
      BY <1>2
<1>7. Merged(a, more \o Sent(e))
      BY <1>3, <1>4, <1>5, <1>6 DEF Merged
<1> QED
    BY <1>7 DEF a

(* and leaves none waiting.                                                *)
LEMMA LeftoverNone ==
  ASSUME NEW t \in Seq(Try)
  PROVE  Leftover(t, <<>>)
<1>1. Len(t) \in Nat
      BY LenProperties
<1>2. Run(t, Len(t) + 1, Len(t)) = <<>>
      BY <1>1, RunNone
<1>3. Len(t) + 1 \in 1..Len(t) + 1 /\ (Len(t) + 1)..Len(t) = {}
      BY <1>1
<1> QED
    BY <1>2, <1>3 DEF Leftover

(* A step that leaves what the sockets tried and what left alone.          *)
LEMMA NothingSent ==
  ASSUME SendInv, wire' = wire, DOMAIN sockets' = DOMAIN sockets,
         \A s \in DOMAIN sockets : /\ sockets'[s].tried = sockets[s].tried
                                   /\ sockets'[s].more = sockets[s].more
  PROVE  SendInv'
BY DEF SendInv

(* A socket of which other fields change tries and keeps the same.         *)
LEMMA OtherFields ==
  ASSUME Types, SendInv, wire' = wire,
         NEW s \in DOMAIN sockets, NEW y,
         y.tried = sockets[s].tried, y.more = sockets[s].more,
         sockets' = [sockets EXCEPT ![s] = y]
  PROVE  SendInv'
<1>1. /\ DOMAIN sockets' = DOMAIN sockets
      /\ \A x \in DOMAIN sockets : sockets'[x] = IF x = s THEN y ELSE sockets[x]
      BY LenProperties DEF Types
<1> QED
    BY <1>1, NothingSent

(* A send: the parts go behind those that wait, and leave with the last.   *)
LEMMA SendSends ==
  ASSUME Types, Types', SendInv, NEW s \in DOMAIN sockets, NEW m \in Messages,
         Send(s, m)
  PROVE  SendInv'
<1>1. s \in DOMAIN sockets /\ s \in Nat
      BY LenProperties DEF Types
<1>2. PICK n \in 0..Len(m), x \in Looked(sockets[s]) :
         /\ sockets' = [sockets EXCEPT ![s] =
               [x EXCEPT !.more = IF n = Len(m) THEN <<>>
                                  ELSE x.more \o SubSeq(m, 1, n),
                         !.tried = Append(@, <<m, n>>)]]
         /\ IF n = Len(m)
            THEN wire' = Append(wire, <<s, x.more \o SubSeq(m, 1, n)>>)
            ELSE wire' = wire
      BY DEF Send
<1>3. sockets[s] \in Socket /\ x \in Socket
      BY <1>1, FdOfSocket, LookedIsSocket
<1>4. x.tried = sockets[s].tried /\ x.more = sockets[s].more
      BY <1>3 DEF Looked, Socket
<1> DEFINE e == <<m, n>>
           t == sockets[s].tried
           more == sockets[s].more
<1>5. m \in Seq(Parts) /\ Len(m) \in Nat /\ n \in Nat /\ n <= Len(m)
      BY LenProperties
<1>6. e \in Try /\ Sent(e) = SubSeq(m, 1, n) /\ (Taken(e) <=> n = Len(m))
      BY <1>5 DEF Try, Sent, Taken
<1>7. t \in Seq(Try) /\ Leftover(t, more) /\ more \in Seq(Parts)
      BY <1>1, <1>3 DEF SendInv, Socket
<1> DEFINE y == [x EXCEPT !.more = IF n = Len(m) THEN <<>>
                                   ELSE x.more \o SubSeq(m, 1, n),
                          !.tried = Append(@, <<m, n>>)]
<1>8. /\ y.tried = Append(t, e)
      /\ y.more = IF n = Len(m) THEN <<>> ELSE more \o Sent(e)
      BY <1>3, <1>4, <1>6 DEF Socket
<1>9. sockets' = [sockets EXCEPT ![s] = y]
      BY <1>2
<1>10. /\ DOMAIN sockets' = DOMAIN sockets
       /\ \A i \in DOMAIN sockets : sockets'[i] = IF i = s THEN y ELSE sockets[i]
  <2> HIDE DEF y
  <2> QED
      BY <1>9, LenProperties DEF Types
<1>11. IF Taken(e) THEN wire' = Append(wire, <<s, more \o Sent(e)>>)
                   ELSE wire' = wire
       BY <1>2, <1>4, <1>6
<1>12. s \in DOMAIN sockets /\ s \in Nat
       BY <1>1
<1> HIDE DEF y, e, t, more
<1>13. Append(t, e) \in Seq(Try)
       BY <1>6, <1>7, AppendProperties
<1>14. Leftover(Append(t, e), y.more)
  <2>1. CASE Taken(e)
        BY <1>6, <1>8, <1>13, <2>1, LeftoverNone
  <2>2. CASE ~Taken(e)
        BY <1>6, <1>7, <1>8, <2>2, LeftoverLonger
  <2> QED
      BY <2>1, <2>2
<1>15. \A i \in DOMAIN sockets : /\ sockets'[i].tried \in Seq(Try)
                                 /\ Leftover(sockets'[i].tried,
                                             sockets'[i].more)
       BY <1>8, <1>10, <1>13, <1>14 DEF SendInv
<1>16. \A i \in DOMAIN sockets : \A p :
          Merged(sockets[i].tried, p) => Merged(sockets'[i].tried, p)
  <2> SUFFICES ASSUME NEW i \in DOMAIN sockets, NEW p, Merged(sockets[i].tried, p)
               PROVE  Merged(sockets'[i].tried, p)
      OBVIOUS
  <2>1. CASE i = s
    <3>1. Merged(t, p)
          BY <2>1 DEF t
    <3>2. Merged(Append(t, e), p)
          BY <1>6, <1>7, <3>1, MergedStays
    <3> QED
        BY <1>8, <1>10, <1>12, <2>1, <3>2
  <2>2. CASE i # s
        BY <1>10, <2>2
  <2> QED
      BY <2>1, <2>2
<1>17. wire \in Seq(Nat \X Seq(Parts))
       BY DEF SendInv
<1>18. CASE ~Taken(e)
  <2>1. wire' = wire
        BY <1>11, <1>18
  <2> QED
      BY <1>10, <1>15, <1>16, <2>1 DEF SendInv
<1>19. CASE Taken(e)
  <2> DEFINE p == more \o Sent(e)
  <2>1. wire' = Append(wire, <<s, p>>)
        BY <1>11, <1>19
  <2>2. p \in Seq(Parts)
        BY <1>6, <1>7, SentType, ConcatProperties
  <2>3. Merged(sockets'[s].tried, p)
    <3>1. Merged(Append(t, e), p)
          BY <1>6, <1>7, <1>19, MergedNow
    <3> QED
        BY <1>8, <1>10, <1>12, <3>1
  <2> HIDE DEF p
  <2>4. <<s, p>> \in Nat \X Seq(Parts)
        BY <1>12, <2>2
  <2>5. /\ wire' \in Seq(Nat \X Seq(Parts)) /\ Len(wire') = Len(wire) + 1
        /\ \A i \in 1..Len(wire) : wire'[i] = wire[i]
        /\ wire'[Len(wire) + 1] = <<s, p>>
        BY <1>17, <2>1, <2>4, AppendProperties
  <2>6. /\ DOMAIN wire = 1..Len(wire) /\ Len(wire) \in Nat
        /\ DOMAIN wire' = 1..Len(wire) + 1
        BY <1>17, <2>5, LenProperties
  <2>7. ASSUME NEW i \in DOMAIN wire'
        PROVE  /\ wire'[i][1] \in DOMAIN sockets'
               /\ Merged(sockets'[wire'[i][1]].tried, wire'[i][2])
    <3>1. CASE i = Len(wire) + 1
      <4>1. wire'[i][1] = s /\ wire'[i][2] = p
            BY <2>5, <3>1
      <4> QED
          BY <1>10, <1>12, <2>3, <4>1
    <3>2. CASE i # Len(wire) + 1
      <4>1. i \in 1..Len(wire)
            BY <2>6, <3>2
      <4>2. wire'[i] = wire[i]
            BY <2>5, <4>1
      <4>3. i \in DOMAIN wire
            BY <2>6, <4>1
      <4> QED
          BY <1>10, <1>16, <4>2, <4>3 DEF SendInv
    <3> QED
        BY <3>1, <3>2
  <2> QED
      BY <1>10, <1>15, <2>5, <2>7 DEF SendInv
<1> QED
    BY <1>18, <1>19

(* A new socket has tried nothing.                                         *)
LEMMA SocketSends ==
  ASSUME Types, SendInv, NEW c \in DOMAIN CONTEXTS, q_socket(c)
  PROVE  SendInv'
<1>1. CASE UNCHANGED sockets
      BY <1>1, NothingSent DEF q_socket
<1>2. CASE ~UNCHANGED sockets
  <2>1. PICK fd \in Fds : sockets' = Append(sockets, NewSocket(c, fd))
        BY <1>2 DEF q_socket
  <2> DEFINE y == NewSocket(c, fd)
  <2>2. y.tried = <<>> /\ y.more = <<>>
        BY DEF NewSocket
  <2>3. <<>> \in Seq(Try) /\ Leftover(<<>>, <<>>)
        BY EmptySeq, LeftoverNone
  <2>4. /\ DOMAIN sockets = 1..Len(sockets) /\ Len(sockets) \in Nat
        /\ DOMAIN sockets' = 1..Len(sockets) + 1
        /\ \A s \in DOMAIN sockets : sockets'[s] = sockets[s]
        /\ sockets'[Len(sockets) + 1] = y
        BY <2>1, LenProperties DEF Types
  <2>5. wire' = wire
        BY DEF q_socket
  <2> HIDE DEF y
  <2>6. \A s \in DOMAIN sockets' : s \in DOMAIN sockets \/ sockets'[s] = y
        BY <2>4
  <2>7. \A s \in DOMAIN sockets' : /\ sockets'[s].tried \in Seq(Try)
                                   /\ Leftover(sockets'[s].tried,
                                               sockets'[s].more)
        BY <2>2, <2>3, <2>4, <2>6 DEF SendInv
  <2>8. \A i \in DOMAIN wire : /\ wire[i][1] \in DOMAIN sockets'
                               /\ Merged(sockets'[wire[i][1]].tried, wire[i][2])
        BY <2>4, SMTT(40) DEF SendInv
  <2> QED
      BY <2>5, <2>7, <2>8 DEF SendInv
<1> QED
    BY <1>1, <1>2

(* The calls of the program keep it.                                       *)
LEMMA CallsSend ==
  ASSUME Inv, Types', SendInv, Calls
  PROVE  SendInv'
<1>1. CASE q_ctx_new \/ q_version \/ q_type \/ Define
      BY <1>1, NothingSent DEF q_ctx_new, q_version, q_type, Define, Answer
<1>2. ASSUME NEW c \in DOMAIN CONTEXTS,
             q_socket(c) \/ q_ctx_destroy(c) \/ q_ctx_get(c) \/ q_ctx_set(c)
      PROVE  SendInv'
      BY <1>2, SocketSends, NothingSent
         DEF q_ctx_destroy, Waits, q_ctx_get, q_ctx_set, Answer, Inv
<1>3. ASSUME NEW fd \in given, q_close(fd)
      PROVE  SendInv'
  <2>1. CASE UNCHANGED sockets
        BY <1>3, <2>1, NothingSent DEF q_close
  <2>2. CASE ~UNCHANGED sockets
    <3> DEFINE s == SOCKETS_BY_FD[fd]
               y == [sockets[s] EXCEPT !.open = FALSE]
    <3>1. s \in DOMAIN sockets
          BY <1>3, <2>2, Found DEF q_close, Inv, Types
    <3>2. y.tried = sockets[s].tried /\ y.more = sockets[s].more
          BY <3>1, FdOfSocket DEF Inv, Socket
    <3>3. sockets' = [sockets EXCEPT ![s] = y]
          BY <1>3, <2>2 DEF q_close
    <3>4. wire' = wire
          BY <1>3 DEF q_close
    <3> HIDE DEF y, s
    <3> QED
        BY <3>1, <3>2, <3>3, <3>4, OtherFields DEF Inv
  <2> QED
      BY <2>1, <2>2
<1>4. ASSUME NEW fd \in given, NEW o, q_getsockopt(fd, o) \/ q_setsockopt(fd, o)
      PROVE  SendInv'
      BY <1>4, NothingSent DEF q_getsockopt, q_setsockopt, Answer
<1>5. ASSUME NEW fd \in given, NEW possible, NEW eps, Endpoint(fd, possible, eps)
      PROVE  SendInv'
  <2>1. CASE UNCHANGED sockets
        BY <1>5, <2>1, NothingSent DEF Endpoint
  <2>2. CASE ~UNCHANGED sockets
    <3> DEFINE s == SOCKETS_BY_FD[fd]
    <3>1. s \in DOMAIN sockets
          BY <1>5, <2>2, Found DEF Endpoint, Inv, Types
    <3>2. PICK x \in Looked(sockets[s]) :
             sockets' = [sockets EXCEPT ![s] = [x EXCEPT !.eps = eps]]
          BY <1>5, <2>2 DEF Endpoint
    <3>3. sockets[s] \in Socket /\ x \in Socket
          BY <3>1, FdOfSocket, LookedIsSocket DEF Inv
    <3> DEFINE y == [x EXCEPT !.eps = eps]
    <3>4. y.tried = sockets[s].tried /\ y.more = sockets[s].more
          BY <3>3 DEF Looked, Socket
    <3>5. wire' = wire
          BY <1>5 DEF Endpoint
    <3>6. sockets' = [sockets EXCEPT ![s] = y]
          BY <3>2
    <3> HIDE DEF y, s
    <3> QED
        BY <3>1, <3>4, <3>5, <3>6, OtherFields DEF Inv
  <2> QED
      BY <2>1, <2>2
<1>6. ASSUME NEW fd \in given, NEW m \in Messages,
             q_send(fd, m) \/ q_send_multipart(fd, m)
      PROVE  SendInv'
  <2>1. CASE UNCHANGED <<sockets, wire>>
        BY <2>1, NothingSent
  <2>2. CASE ~UNCHANGED <<sockets, wire>>
    <3>1. SOCKETS_BY_FD[fd] # 0 /\ Send(SOCKETS_BY_FD[fd], m)
          BY <1>6, <2>2 DEF q_send, q_send_multipart, Waits
    <3>2. SOCKETS_BY_FD[fd] \in DOMAIN sockets
          BY <3>1, Found DEF Inv, Types
    <3> QED
        BY <3>1, <3>2, SendSends DEF Inv
  <2> QED
      BY <2>1, <2>2
<1> QED
    BY <1>1, <1>2, <1>3, <1>4, <1>5, <1>6
       DEF Calls, q_bind, q_unbind, q_connect, q_disconnect

(* What on_msg_cb and the peers change of a socket is its queue and signal. *)
LEMMA ReadsSend ==
  ASSUME Inv, SendInv,
         \/ on_msg_events \/ on_msg_recv
         \/ \E s \in DOMAIN sockets, m \in Messages : Arrive(s, m)
  PROVE  SendInv'
<1>1. ASSUME NEW s \in DOMAIN sockets
      PROVE  /\ \A b, c \in BOOLEAN :
                   LET y == [sockets[s] EXCEPT !.signal = b, !.taken = c]
                   IN  y.tried = sockets[s].tried /\ y.more = sockets[s].more
             /\ \A q :
                   LET y == [sockets[s] EXCEPT !.queue = q]
                   IN  y.tried = sockets[s].tried /\ y.more = sockets[s].more
             /\ \A q :
                   LET y == [sockets[s] EXCEPT !.queue = q, !.signal = TRUE]
                   IN  y.tried = sockets[s].tried /\ y.more = sockets[s].more
      BY FdOfSocket DEF Inv, Socket
<1>2. CASE on_msg_events
  <2>1. CASE UNCHANGED sockets
        BY <1>2, <2>1, NothingSent DEF on_msg_events
  <2>2. CASE ~UNCHANGED sockets
    <3>1. sockets' = [sockets EXCEPT ![cb.socket].signal = FALSE,
                                     ![cb.socket].taken = FALSE]
          BY <1>2, <2>2 DEF on_msg_events
    <3>2. cb.socket \in DOMAIN sockets
          BY <1>2 DEF on_msg_events, Inv, AtWork, Working
    <3> DEFINE y == [sockets[cb.socket] EXCEPT !.signal = FALSE, !.taken = FALSE]
    <3>3. sockets' = [sockets EXCEPT ![cb.socket] = y]
          BY <3>1, <3>2
    <3>4. y.tried = sockets[cb.socket].tried /\ y.more = sockets[cb.socket].more
          BY <1>1, <3>2
    <3>5. wire' = wire
          BY <1>2 DEF on_msg_events
    <3> HIDE DEF y
    <3> QED
        BY <3>2, <3>3, <3>4, <3>5, OtherFields DEF Inv
  <2> QED
      BY <2>1, <2>2
<1>3. CASE on_msg_recv
  <2>1. wire' = wire
        BY <1>3 DEF on_msg_recv
  <2>2. CASE UNCHANGED sockets
        BY <2>1, <2>2, NothingSent
  <2>3. CASE ~UNCHANGED sockets
    <3>1. sockets' = [sockets EXCEPT ![cb.socket].queue = Tail(@)]
          BY <1>3, <2>3 DEF on_msg_recv
    <3>2. cb.socket \in DOMAIN sockets
          BY <1>3 DEF on_msg_recv, Inv, AtWork, Working
    <3> DEFINE y == [sockets[cb.socket] EXCEPT !.queue = Tail(@)]
    <3>3. sockets' = [sockets EXCEPT ![cb.socket] = y]
          BY <3>1, <3>2
    <3>4. y.tried = sockets[cb.socket].tried /\ y.more = sockets[cb.socket].more
          BY <1>1, <3>2
    <3> HIDE DEF y
    <3> QED
        BY <2>1, <3>2, <3>3, <3>4, OtherFields DEF Inv
  <2> QED
      BY <2>2, <2>3
<1>4. ASSUME NEW s \in DOMAIN sockets, NEW m \in Messages, Arrive(s, m)
      PROVE  SendInv'
  <2>1. sockets' = [sockets EXCEPT ![s].queue = Append(@, m), ![s].signal = TRUE]
        BY <1>4 DEF Arrive
  <2> DEFINE y == [sockets[s] EXCEPT !.queue = Append(@, m), !.signal = TRUE]
  <2>2. sockets' = [sockets EXCEPT ![s] = y]
        BY <2>1
  <2>3. y.tried = sockets[s].tried /\ y.more = sockets[s].more
        BY <1>1
  <2>4. wire' = wire
        BY <1>4 DEF Arrive
  <2> HIDE DEF y
  <2> QED
      BY <2>2, <2>3, <2>4, OtherFields DEF Inv
<1> QED
    BY <1>2, <1>3, <1>4

(* What leaves a socket is one message, whole, behind the accepted parts   *)
(* of messages whose sending failed just before it, in order and with      *)
(* nothing between them (q_send, q_send_multipart).                        *)
THEOREM MergesAreExplained == Spec => []MergedOnlyAfterFailure
<1>1. Init => SendInv
  <2> SUFFICES ASSUME Init PROVE SendInv
      OBVIOUS
  <2>1. wire = <<>> /\ sockets = <<>>
        BY DEF Init
  <2>2. wire \in Seq(Nat \X Seq(Parts)) /\ DOMAIN wire = {} /\ DOMAIN sockets = {}
        BY <2>1, EmptySeq
  <2> QED
      BY <2>2 DEF SendInv
<1>2. Inv /\ Held /\ Inv' /\ SendInv /\ [Next]_vars => SendInv'
  <2> SUFFICES ASSUME Inv, Held, Inv', SendInv, [Next]_vars PROVE SendInv'
      OBVIOUS
  <2>1. CASE Calls
        BY <2>1, CallsSend DEF Inv
  <2>2. CASE \/ on_msg_cb \/ on_msg_ps \/ ctx_destroy_returns
             \/ Stopped \/ UNCHANGED vars
        BY <2>2, NothingSent DEF on_msg_cb, on_msg_ps, ctx_destroy_returns, Stopped,
                                 vars
  <2>4. CASE send_returns
        BY <2>4, SendSends DEF send_returns, Held, Inv
  <2>3. CASE \/ on_msg_events \/ on_msg_recv
             \/ \E s \in DOMAIN sockets, m \in Messages : Arrive(s, m)
        BY <2>3, ReadsSend
  <2> QED
      BY <2>1, <2>2, <2>3, <2>4 DEF Next
<1>3. SendInv => MergedOnlyAfterFailure
  <2> SUFFICES ASSUME SendInv, NEW i \in DOMAIN wire
               PROVE  LET tried == sockets[wire[i][1]].tried
                          whole(k) == tried[k][2] = Len(tried[k][1])
                          sent(k)  == SubSeq(tried[k][1], 1, tried[k][2])
                      IN  \E k, l \in DOMAIN tried :
                             /\ k <= l /\ whole(l)
                             /\ \A j \in k..(l - 1) : ~whole(j)
                             /\ wire[i][2] = FlattenSeq([j \in 1..(l - k + 1) |->
                                                            sent(k + j - 1)])
      BY DEF MergedOnlyAfterFailure
  <2>1. PICK t \in Seq(Try) : t = sockets[wire[i][1]].tried
        BY DEF SendInv
  <2>2. DOMAIN t = 1..Len(t)
        BY LenProperties
  <2>3. Merged(t, wire[i][2])
        BY <2>1 DEF SendInv
  <2>4. PICK k \in 1..Len(t), l \in 1..Len(t) :
           /\ k <= l /\ t[l][2] = Len(t[l][1])
           /\ \A j \in k..(l - 1) : ~(t[j][2] = Len(t[j][1]))
           /\ wire[i][2] = Run(t, k, l)
        BY <2>3 DEF Merged, Taken
  <2>5. wire[i][2] = FlattenSeq([j \in 1..(l - k + 1) |->
                        SubSeq(t[k + j - 1][1], 1, t[k + j - 1][2])])
        BY <2>4, Zenon DEF Run, RunOf, Sent
  <2> QED
      BY <2>1, <2>2, <2>4, <2>5
<1> QED
    BY <1>1, <1>2, <1>3, InvHolds, PTL DEF Spec
=============================================================================
