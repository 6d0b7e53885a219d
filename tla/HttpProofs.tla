----------------------------- MODULE HttpProofs -----------------------------
(***************************************************************************)
(* Proofs about HttpLoop.tla, for every set of addresses and every size of *)
(* the pipes: the ownership of the requests, and how many of them it takes *)
(* for the two threads to block each other.                                *)
(***************************************************************************)
EXTENDS HttpLoop, SequenceTheorems, FiniteSetTheorems, TLAPS

(* What an append adds.                                                    *)
LEMMA RangeOfAppend ==
  ASSUME NEW S, NEW s \in Seq(S), NEW e \in S
  PROVE  Range(Append(s, e)) = Range(s) \cup {e}
BY AppendProperties, LenProperties DEF Range

(* A sequence still holds everything once when something new is appended.  *)
LEMMA InjectiveAppend ==
  ASSUME NEW S, NEW s \in Seq(S), NEW e \in S,
         IsInjective(s), e \notin Range(s)
  PROVE  IsInjective(Append(s, e))
BY AppendProperties, LenProperties DEF Range, IsInjective

(* What a read removes.                                                    *)
LEMMA RangeOfTail ==
  ASSUME NEW S, NEW s \in Seq(S), s # << >>
  PROVE  /\ Head(s) \in Range(s)
         /\ Range(s) = Range(Tail(s)) \cup {Head(s)}
<1>1. Len(s) \in Nat \ {0} /\ DOMAIN s = 1 .. Len(s)
      BY LenProperties, EmptySeq
<1>2. /\ Len(Tail(s)) = Len(s) - 1 /\ DOMAIN Tail(s) = 1 .. Len(s) - 1
      /\ \A i \in 1 .. Len(s) - 1 : Tail(s)[i] = s[i + 1]
      BY HeadTailProperties, LenProperties
<1>3. Head(s) = s[1]
      OBVIOUS
<1>4. ASSUME NEW i \in 1 .. Len(s), i # 1
      PROVE  s[i] \in Range(Tail(s))
  <2>1. i - 1 \in 1 .. Len(s) - 1 /\ s[(i - 1) + 1] = s[i]
        BY <1>1, <1>4
  <2> QED
      BY <1>2, <2>1 DEF Range
<1>5. \A i \in 1 .. Len(s) - 1 : Tail(s)[i] \in Range(s)
      BY <1>1, <1>2 DEF Range
<1>6. Range(s) \subseteq Range(Tail(s)) \cup {Head(s)}
      BY <1>1, <1>3, <1>4 DEF Range
<1>7. Range(Tail(s)) \subseteq Range(s)
      BY <1>2, <1>5 DEF Range
<1>8. Head(s) \in Range(s)
      BY <1>1, <1>3 DEF Range
<1> QED
    BY <1>6, <1>7, <1>8

(* A sequence that holds everything once gives its head away with a read.  *)
LEMMA InjectiveTail ==
  ASSUME NEW S, NEW s \in Seq(S), s # << >>, IsInjective(s)
  PROVE  /\ IsInjective(Tail(s))
         /\ Head(s) \notin Range(Tail(s))
         /\ Range(Tail(s)) = Range(s) \ {Head(s)}
BY RangeOfTail, HeadTailProperties, LenProperties, EmptySeq
   DEF Range, IsInjective

(* A sequence that holds everything once holds as much as it is long.      *)
LEMMA InjectiveLen ==
  ASSUME NEW S, NEW s \in Seq(S), IsInjective(s)
  PROVE  IsFiniteSet(Range(s)) /\ Cardinality(Range(s)) = Len(s)
<1>1. Len(s) \in Nat /\ DOMAIN s = 1 .. Len(s) /\ s \in [1 .. Len(s) -> S]
      BY LenProperties
<1>2. s \in Bijection(1 .. Len(s), Range(s))
      BY <1>1 DEF Bijection, Injection, Surjection, IsInjective, Range
<1>3. ExistsBijection(1 .. Len(s), Range(s))
      BY <1>2 DEF ExistsBijection
<1>4. IsFiniteSet(1 .. Len(s)) /\ Cardinality(1 .. Len(s)) = Len(s)
      BY <1>1, FS_Interval, SMTT(40)
<1> QED
    BY <1>3, <1>4, FS_Bijection
-----------------------------------------------------------------------------

USE HttpAssumption

(* The request the loop thread answers: it is handed over while its easy   *)
(* handle is still there, so after the write it may be anywhere on the     *)
(* main thread's side, freed, or even posted again.                        *)
Answered == Only(lrq)

(* What the loop thread knows of the multi handle.                         *)
Answering ==
  /\ lpc \in {"write", "remove"} <=> lrq # NoRequest
  /\ Answered \cap (running \cup Range(messages)) = {}
  /\ handles = running \cup Range(messages) \cup Answered

(* Codes are stored before a request is handed over.                       *)
Coded == Only(called) \cup Range(rqout) \cup Held \subseteq coded

(* The inductive invariant.                                                *)
Inv == HttpTypeOK /\ OnePlace /\ Answering /\ Coded

(* OnePlace without its sequences.                                         *)
Apart(P) == \A i, j \in DOMAIN P : i # j => P[i] \cap P[j] = {}
Total(P) == UNION {P[i] : i \in DOMAIN P}
Once == IsInjective(rqin) /\ IsInjective(messages) /\ IsInjective(rqout)

(* OnePlace is that the places cover what is alive and do not overlap.     *)
LEMMA OnePlaceParts ==
  /\ OnePlace <=> alive = Total(Places) /\ Apart(Places) /\ Once
  /\ OnePlace' <=> alive' = Total(Places') /\ Apart(Places') /\ Once'
BY DEF OnePlace, Total, Apart, Once

(* The places by their number, before and after a step.                    *)
LEMMA PlacesAre ==
  /\ DOMAIN Places = 1 .. 7 /\ DOMAIN Places' = 1 .. 7
  /\ Places[1] = Only(posting)    /\ Places'[1] = Only(posting')
  /\ Places[2] = Range(rqin)      /\ Places'[2] = Range(rqin')
  /\ Places[3] = running          /\ Places'[3] = running'
  /\ Places[4] = Range(messages)  /\ Places'[4] = Range(messages')
  /\ Places[5] = Held             /\ Places'[5] = Held'
  /\ Places[6] = Range(rqout)     /\ Places'[6] = Range(rqout')
  /\ Places[7] = Only(called)     /\ Places'[7] = Only(called')
BY DEF Places

(* A request that goes from one place to another leaves all of them apart  *)
(* and their union the same.                                               *)
LEMMA Moved ==
  ASSUME NEW P, NEW Q, DOMAIN P = 1 .. 7, DOMAIN Q = 1 .. 7, Apart(P),
         NEW n \in 1 .. 7, NEW m \in 1 .. 7, n # m, NEW r \in P[n],
         Q[n] = P[n] \ {r}, Q[m] = P[m] \cup {r},
         \A k \in 1 .. 7 : k # n /\ k # m => Q[k] = P[k]
  PROVE  Apart(Q) /\ Total(Q) = Total(P)
<1>1. ASSUME NEW i \in 1 .. 7, NEW x
      PROVE  x \in Q[i] => \E k \in 1 .. 7 : x \in P[k] /\ (k = i \/ x = r)
      OBVIOUS
<1>2. ASSUME NEW i \in 1 .. 7, NEW x
      PROVE  x \in P[i] => \E k \in 1 .. 7 : x \in Q[k]
      OBVIOUS
<1>3. \A i \in 1 .. 7 : r \in Q[i] => i = m
      BY DEF Apart
<1>4. Apart(Q)
  <2> SUFFICES ASSUME NEW i \in 1 .. 7, NEW j \in 1 .. 7, i # j,
                      NEW x \in Q[i] \cap Q[j]
               PROVE  FALSE
      BY DEF Apart
  <2>1. x # r
        BY <1>3
  <2>2. x \in P[i] /\ x \in P[j]
        BY <1>1, <2>1
  <2> QED
      BY <2>2 DEF Apart
<1>5. Total(Q) = Total(P)
      BY <1>1, <1>2 DEF Total
<1> QED
    BY <1>4, <1>5

(* So does one that is allocated, which enters at the first place, and one *)
(* that is freed, which leaves from the last.                              *)
LEMMA Entered ==
  ASSUME NEW P, NEW Q, DOMAIN P = 1 .. 7, DOMAIN Q = 1 .. 7, Apart(P),
         NEW r, r \notin Total(P), Q[1] = P[1] \cup {r},
         \A k \in 2 .. 7 : Q[k] = P[k]
  PROVE  Apart(Q) /\ Total(Q) = Total(P) \cup {r}
<1>1. \A k \in 1 .. 7 : r \notin P[k]
      BY DEF Total
<1>2. \A k \in 1 .. 7 : Q[k] = IF k = 1 THEN P[k] \cup {r} ELSE P[k]
      OBVIOUS
<1>3. 1 \in 1 .. 7
      OBVIOUS
<1>4. Apart(Q)
      BY <1>1, <1>2 DEF Apart
<1>5. Total(Q) = Total(P) \cup {r}
      BY <1>2, <1>3 DEF Total
<1> QED
    BY <1>4, <1>5

(* And the last place.                                                     *)
LEMMA Left ==
  ASSUME NEW P, NEW Q, DOMAIN P = 1 .. 7, DOMAIN Q = 1 .. 7, Apart(P),
         NEW r \in P[7], Q[7] = P[7] \ {r},
         \A k \in 1 .. 6 : Q[k] = P[k]
  PROVE  Apart(Q) /\ Total(Q) = Total(P) \ {r}
<1>1. \A k \in 1 .. 6 : r \notin P[k]
      BY DEF Apart
<1>2. \A k \in 1 .. 7 : Q[k] = P[k] \ {r}
      BY <1>1
<1>3. Apart(Q)
      BY <1>2 DEF Apart
<1>4. Total(Q) = Total(P) \ {r}
      BY <1>2 DEF Total
<1> QED
    BY <1>3, <1>4

(* The same said of a step.                                                *)
LEMMA MovesOn ==
  ASSUME Inv, alive' = alive, Once',
         NEW n \in 1 .. 7, NEW m \in 1 .. 7, n # m, NEW r \in Places[n],
         Places'[n] = Places[n] \ {r}, Places'[m] = Places[m] \cup {r},
         \A k \in 1 .. 7 : k # n /\ k # m => Places'[k] = Places[k]
  PROVE  OnePlace'
<1>1. /\ Apart(Places) /\ alive = Total(Places)
      /\ DOMAIN Places = 1 .. 7 /\ DOMAIN Places' = 1 .. 7
      BY OnePlaceParts, PlacesAre DEF Inv
<1>2. Apart(Places') /\ Total(Places') = Total(Places)
      BY <1>1, Moved
<1> QED
    BY <1>1, <1>2, OnePlaceParts

(* At the start there is no request.                                       *)
LEMMA InvInit == Init => Inv
<1> SUFFICES ASSUME Init PROVE Inv
    OBVIOUS
<1>1. Range(<< >>) = {} /\ IsInjective(<< >>) /\ \A S : << >> \in Seq(S)
      BY EmptySeq DEF Range, IsInjective
<1>2. HttpTypeOK
      BY <1>1 DEF Init, HttpTypeOK, LoopPlaces
<1>3. OnePlace
  <2>1. \A k \in 1 .. 7 : Places[k] = {}
        BY <1>1, PlacesAre DEF Init, Only, Held
  <2> QED
      BY <1>1, <2>1, PlacesAre, OnePlaceParts DEF Init, Apart, Total, Once
<1>4. Answering /\ Coded
      BY <1>1 DEF Init, Answering, Answered, Coded, Only, Held
<1> QED
    BY <1>2, <1>3, <1>4 DEF Inv

-----------------------------------------------------------------------------
(* Each action preserves the invariant: the main thread.                   *)
LEMMA PostStep ==
  ASSUME Inv, NEW r \in Requests, Post(r)
  PROVE  Inv'
<1> USE DEF Inv, Post, main, curl, loop
<1>1. HttpTypeOK'
      BY DEF HttpTypeOK
<1>2. /\ Only(posting') = Only(posting) \cup {r} /\ Held' = Held
      /\ Only(called') = Only(called)
      BY DEF Only, Held
<1>3. Apart(Places') /\ Total(Places') = Total(Places) \cup {r}
      BY <1>2, PlacesAre, OnePlaceParts, Entered
<1>4. OnePlace'
      BY <1>3, OnePlaceParts DEF Once
<1>5. Answering'
      BY DEF Answering, Answered, Only
<1>6. r \notin Only(called) \cup Range(rqout) \cup Held
      BY PlacesAre, OnePlaceParts DEF Total
<1>7. Coded'
      BY <1>2, <1>6 DEF Coded
<1> QED
    BY <1>1, <1>4, <1>5, <1>7

(* The blocking write in postAsync gets through.                           *)
LEMMA WriteInStep ==
  ASSUME Inv, WriteIn
  PROVE  Inv'
<1> USE DEF Inv, WriteIn, main, curl, loop
<1>1. posting \in Requests /\ rqin \in Seq(Requests)
      BY DEF HttpTypeOK
<1>2. /\ rqin' \in Seq(Requests) /\ Len(rqin') = Len(rqin) + 1
      /\ Range(rqin') = Range(rqin) \cup {posting}
      BY <1>1, AppendProperties, RangeOfAppend
<1>3. HttpTypeOK'
      BY <1>1, <1>2, LenProperties DEF HttpTypeOK
<1>4. /\ Only(posting) = {posting} /\ Only(posting') = {} /\ Held' = Held
      /\ Only(called') = Only(called)
      BY <1>1 DEF Only, Held
<1>5. posting \notin Range(rqin)
      BY <1>4, PlacesAre, OnePlaceParts DEF Apart
<1>6. Once'
      BY <1>1, <1>5, InjectiveAppend, OnePlaceParts DEF Once
<1>7. /\ posting \in Places[1]
      /\ Places'[1] = Places[1] \ {posting}
      /\ Places'[2] = Places[2] \cup {posting}
      /\ \A k \in 1 .. 7 : k # 1 /\ k # 2 => Places'[k] = Places[k]
      BY <1>2, <1>4, PlacesAre
<1>8. OnePlace'
      BY <1>6, <1>7, MovesOn, 1 \in 1 .. 7, 2 \in 1 .. 7
<1>9. Answering' /\ Coded'
      BY <1>4 DEF Answering, Answered, Coded, Only
<1> QED
    BY <1>3, <1>8, <1>9

(* rqcb takes a request and calls the callback.                            *)
LEMMA CallStep ==
  ASSUME Inv, Call
  PROVE  Inv'
<1> USE DEF Inv, Call, main, curl, loop
<1> DEFINE r == Head(rqout)
<1>1. rqout \in Seq(Requests) /\ IsInjective(rqout)
      BY OnePlaceParts DEF HttpTypeOK, Once
<1>2. /\ r \in Requests /\ rqout' \in Seq(Requests)
      /\ Len(rqout') = Len(rqout) - 1
      BY <1>1, HeadTailProperties
<1>3. /\ r \in Range(rqout) /\ Range(rqout') = Range(rqout) \ {r}
      /\ IsInjective(rqout')
      BY <1>1, RangeOfTail, InjectiveTail
<1>4. HttpTypeOK'
      BY <1>1, <1>2, LenProperties DEF HttpTypeOK
<1>5. /\ Only(called) = {} /\ Only(called') = {r} /\ Held' = Held
      /\ UNCHANGED <<alive, posting, rqin, running, messages>>
      BY <1>2 DEF Only, Held
<1> HIDE DEF r, Call
<1>6. /\ r \in Places[6]
      /\ Places'[6] = Places[6] \ {r}
      /\ Places'[7] = Places[7] \cup {r}
      /\ \A k \in 1 .. 7 : k # 6 /\ k # 7 => Places'[k] = Places[k]
      BY <1>3, <1>5, PlacesAre
<1>7. OnePlace'
  <2>1. Once'
        BY <1>3, <1>5, OnePlaceParts DEF Once
  <2> QED
      BY <1>5, <1>6, <2>1, MovesOn, 6 \in 1 .. 7, 7 \in 1 .. 7
<1>8. Answering' /\ Coded'
      BY <1>3, <1>5 DEF Answering, Answered, Coded, Only, Call
<1> QED
    BY <1>4, <1>7, <1>8

(* The callback returns and the request is freed.                          *)
LEMMA ReturnStep ==
  ASSUME Inv, Return
  PROVE  Inv'
<1> USE DEF Inv, Return, main, curl, loop
<1>1. HttpTypeOK'
      BY DEF HttpTypeOK
<1>2. /\ Only(called) = {called} /\ Only(called') = {} /\ Held' = Held
      /\ Only(posting') = Only(posting)
      BY DEF Only, Held
<1>3. Apart(Places') /\ Total(Places') = Total(Places) \ {called}
      BY <1>2, PlacesAre, OnePlaceParts, Left
<1>4. OnePlace'
      BY <1>3, OnePlaceParts DEF Once
<1>5. Answering' /\ Coded'
      BY <1>2 DEF Answering, Answered, Coded, Only
<1> QED
    BY <1>1, <1>4, <1>5

-----------------------------------------------------------------------------
(* The loop thread takes a request from its pipe.                          *)
LEMMA AddTransferStep ==
  ASSUME Inv, AddTransfer
  PROVE  Inv'
<1> DEFINE r == Head(rqin)
<1> USE DEF Inv
<1>1. rqin \in Seq(Requests) /\ rqin # << >> /\ IsInjective(rqin)
      BY OnePlaceParts DEF HttpTypeOK, Once, AddTransfer
<1>2. /\ r \in Requests /\ rqin' \in Seq(Requests)
      /\ Len(rqin') = Len(rqin) - 1
      BY <1>1, HeadTailProperties DEF AddTransfer
<1>3. /\ r \in Range(rqin) /\ Range(rqin') = Range(rqin) \ {r}
      /\ IsInjective(rqin')
      BY <1>1, RangeOfTail, InjectiveTail DEF AddTransfer
<1>4. /\ lpc = "select" /\ lpc' = "perform"
      /\ running' = running \cup {r} /\ handles' = handles \cup {r}
      /\ UNCHANGED <<alive, posting, called, messages, rqout, lrq, coded>>
      /\ Held = {} /\ Held' = {} /\ lrq = NoRequest
      BY DEF AddTransfer, main, Held, Answering
<1> HIDE DEF r
<1>5. HttpTypeOK'
  <2>1. messages \in Seq(handles')
        BY <1>4, SeqMonotonic DEF HttpTypeOK
  <2>2. Len(rqin) \in Nat
        BY <1>1, LenProperties
  <2> QED
      BY <1>2, <1>4, <2>1, <2>2 DEF HttpTypeOK, LoopPlaces
<1>6. /\ r \in Places[2]
      /\ Places'[2] = Places[2] \ {r}
      /\ Places'[3] = Places[3] \cup {r}
      /\ \A k \in 1 .. 7 : k # 2 /\ k # 3 => Places'[k] = Places[k]
      BY <1>3, <1>4, PlacesAre
<1>7. OnePlace'
  <2>1. Once'
        BY <1>3, <1>4, OnePlaceParts DEF Once
  <2> QED
      BY <1>4, <1>6, <2>1, MovesOn, 2 \in 1 .. 7, 3 \in 1 .. 7
<1>8. Answering' /\ Coded'
      BY <1>4 DEF Answering, Answered, Coded, Only
<1> QED
    BY <1>5, <1>7, <1>8

(* The steps of the loop thread that move no request.                      *)
LEMMA LoopGoesOnStep ==
  ASSUME Inv, NothingPosted \/ Drained \/ PerformReturns
  PROVE  Inv'
<1>1. /\ lpc \in {"select", "drain", "perform"}
      /\ lpc' \in {"select", "drain", "perform"}
      /\ UNCHANGED <<main, curl, lrq, rqin, rqout, coded>>
      BY DEF NothingPosted, Drained, PerformReturns
<1>2. Held = {} /\ Held' = {}
      BY <1>1 DEF Held
<1>3. HttpTypeOK'
      BY <1>1 DEF Inv, HttpTypeOK, LoopPlaces, main, curl
<1>4. OnePlace'
      BY <1>1, <1>2, OnePlaceParts DEF Inv, main, curl, Places, Once
<1>5. Answering' /\ Coded'
      BY <1>1, <1>2 DEF Inv, Answering, Answered, Coded, Only, main, curl
<1> QED
    BY <1>3, <1>4, <1>5 DEF Inv

(* The end of a transfer is read: the loop thread answers the request.     *)
LEMMA ReadMessageStep ==
  ASSUME Inv, ReadMessage
  PROVE  Inv'
<1> DEFINE r == Head(messages)
<1> USE DEF Inv
<1>1. /\ messages \in Seq(handles) /\ messages # << >>
      /\ IsInjective(messages) /\ handles \subseteq Requests
      BY OnePlaceParts DEF HttpTypeOK, Once, ReadMessage
<1>2. r \in handles /\ messages' \in Seq(handles)
      BY <1>1, HeadTailProperties DEF ReadMessage
<1>3. /\ r \in Range(messages) /\ Range(messages') = Range(messages) \ {r}
      /\ IsInjective(messages')
      BY <1>1, RangeOfTail, InjectiveTail DEF ReadMessage
<1>4. /\ lpc = "drain" /\ lpc' = "write" /\ lrq' = r
      /\ coded' = coded \cup {r}
      /\ UNCHANGED <<alive, posting, called, handles, running, rqin, rqout>>
      /\ lrq = NoRequest
      BY DEF ReadMessage, main, Answering
<1> HIDE DEF r
<1>5. r \in Requests /\ r # NoRequest
      BY <1>1, <1>2
<1>6. Held = {} /\ Held' = {r} /\ Answered = {} /\ Answered' = {r}
      BY <1>4, <1>5 DEF Held, Answered, Only
<1>7. HttpTypeOK'
      BY <1>2, <1>4, <1>5 DEF HttpTypeOK, LoopPlaces
<1>8. /\ r \in Places[4]
      /\ Places'[4] = Places[4] \ {r}
      /\ Places'[5] = Places[5] \cup {r}
      /\ \A k \in 1 .. 7 : k # 4 /\ k # 5 => Places'[k] = Places[k]
      BY <1>3, <1>4, <1>6, PlacesAre
<1>9. OnePlace'
  <2>1. Once'
        BY <1>3, <1>4, OnePlaceParts DEF Once
  <2> QED
      BY <1>4, <1>8, <2>1, MovesOn, 4 \in 1 .. 7, 5 \in 1 .. 7
<1>10. Answering'
  <2>1. r \notin running
        BY <1>3, PlacesAre, OnePlaceParts DEF Apart
  <2> QED
      BY <1>3, <1>4, <1>5, <1>6, <2>1 DEF Answering
<1>11. Coded'
      BY <1>4, <1>6 DEF Coded
<1> QED
    BY <1>7, <1>9, <1>10, <1>11

(* The request is handed over to the main thread,                          *)
LEMMA WriteOutStep ==
  ASSUME Inv, WriteOut
  PROVE  Inv'
<1> USE DEF Inv
<1>1. /\ lpc = "write" /\ lpc' = "remove" /\ lrq \in Requests
      /\ rqout \in Seq(Requests) /\ Len(rqout) < PipeCap
      /\ rqout' = Append(rqout, lrq)
      /\ UNCHANGED <<alive, posting, called, handles, running, messages, lrq,
                     rqin, coded>>
      BY DEF HttpTypeOK, WriteOut, main, curl, Answering
<1>2. /\ rqout' \in Seq(Requests) /\ Len(rqout') = Len(rqout) + 1
      /\ Range(rqout') = Range(rqout) \cup {lrq}
      BY <1>1, AppendProperties, RangeOfAppend
<1>3. Held = {lrq} /\ Held' = {}
      BY <1>1 DEF Held, Only
<1>4. HttpTypeOK'
      BY <1>1, <1>2, LenProperties DEF HttpTypeOK, LoopPlaces
<1>5. /\ lrq \in Places[5]
      /\ Places'[5] = Places[5] \ {lrq}
      /\ Places'[6] = Places[6] \cup {lrq}
      /\ \A k \in 1 .. 7 : k # 5 /\ k # 6 => Places'[k] = Places[k]
      BY <1>1, <1>2, <1>3, PlacesAre
<1>6. OnePlace'
  <2>1. lrq \notin Range(rqout)
        BY <1>3, PlacesAre, OnePlaceParts DEF Apart
  <2>2. IsInjective(rqout')
        BY <1>1, <2>1, InjectiveAppend, OnePlaceParts DEF Once
  <2>3. Once'
        BY <1>1, <2>2, OnePlaceParts DEF Once
  <2> QED
      BY <1>1, <1>5, <2>3, MovesOn, 5 \in 1 .. 7, 6 \in 1 .. 7
<1>7. Answering'
      BY <1>1 DEF Answering, Answered, Only
<1>8. Coded'
      BY <1>1, <1>2, <1>3 DEF Coded
<1> QED
    BY <1>4, <1>6, <1>7, <1>8

(* and its easy handle is removed, whatever has become of it meanwhile.    *)
LEMMA RemoveTransferStep ==
  ASSUME Inv, RemoveTransfer
  PROVE  Inv'
<1> USE DEF Inv
<1>1. /\ lpc = "remove" /\ lpc' = "drain" /\ lrq' = NoRequest
      /\ handles' = handles \ {lrq}
      /\ UNCHANGED <<alive, posting, called, running, messages, rqin, rqout,
                     coded>>
      /\ lrq # NoRequest
      BY DEF RemoveTransfer, main, Answering
<1>2. Held = {} /\ Held' = {} /\ Answered = {lrq} /\ Answered' = {}
      BY <1>1 DEF Held, Answered, Only
<1>3. handles' = running \cup Range(messages)
      BY <1>1, <1>2 DEF Answering
<1>4. messages \in Seq(handles')
      BY <1>3, SeqOfRange, SeqMonotonic DEF HttpTypeOK
<1>5. HttpTypeOK'
      BY <1>1, <1>3, <1>4 DEF HttpTypeOK, LoopPlaces
<1>6. OnePlace'
      BY <1>1, <1>2, OnePlaceParts DEF Places, Once
<1>7. Answering' /\ Coded'
      BY <1>1, <1>2, <1>3 DEF Answering, Coded
<1> QED
    BY <1>5, <1>6, <1>7

(* A transfer ends.                                                        *)
LEMMA TransferEndsStep ==
  ASSUME Inv, NEW r \in Requests, TransferEnds(r)
  PROVE  Inv'
<1> USE DEF Inv
<1>1. /\ r \in running /\ r \in handles /\ messages \in Seq(handles)
      /\ messages' = Append(messages, r) /\ running' = running \ {r}
      /\ UNCHANGED <<alive, posting, called, handles, lpc, lrq, rqin, rqout,
                     coded>>
      /\ Held' = Held /\ Answered' = Answered
      BY DEF HttpTypeOK, TransferEnds, main, loop, Held, Answered
<1>2. /\ messages' \in Seq(handles)
      /\ Range(messages') = Range(messages) \cup {r}
      BY <1>1, AppendProperties, RangeOfAppend
<1>3. HttpTypeOK'
      BY <1>1, <1>2 DEF HttpTypeOK
<1>4. /\ r \in Places[3]
      /\ Places'[3] = Places[3] \ {r}
      /\ Places'[4] = Places[4] \cup {r}
      /\ \A k \in 1 .. 7 : k # 3 /\ k # 4 => Places'[k] = Places[k]
      BY <1>1, <1>2, PlacesAre
<1>5. OnePlace'
  <2>1. r \notin Range(messages)
        BY <1>1, PlacesAre, OnePlaceParts DEF Apart
  <2>2. IsInjective(messages')
        BY <1>1, <2>1, InjectiveAppend, OnePlaceParts DEF Once
  <2>3. Once'
        BY <1>1, <2>2, OnePlaceParts DEF Once
  <2> QED
      BY <1>1, <1>4, <2>3, MovesOn, 3 \in 1 .. 7, 4 \in 1 .. 7
<1>6. Answering' /\ Coded'
      BY <1>1, <1>2 DEF Answering, Coded
<1> QED
    BY <1>3, <1>5, <1>6

-----------------------------------------------------------------------------
(* The invariant of both threads, curl and the two pipes.                  *)
THEOREM InvHolds == Spec => []Inv
<1>1. Inv /\ [Next]_vars => Inv'
  <2> SUFFICES ASSUME Inv, [Next]_vars PROVE Inv'
      OBVIOUS
  <2>1. CASE UNCHANGED vars
    <3>1. UNCHANGED <<alive, posting, called, handles, running, messages, lpc,
                      lrq, rqin, rqout, coded>>
          BY <2>1 DEF vars, main, curl, loop
    <3>2. HttpTypeOK' /\ Held' = Held /\ Answered' = Answered
          BY <3>1 DEF Inv, HttpTypeOK, Held, Answered
    <3>3. OnePlace'
          BY <3>1, <3>2, OnePlaceParts DEF Inv, Places, Once
    <3> QED
        BY <3>1, <3>2, <3>3 DEF Inv, Answering, Coded
  <2>2. ASSUME NEW r \in Requests, Post(r) \/ TransferEnds(r)
        PROVE  Inv'
        BY <2>2, PostStep, TransferEndsStep
  <2>3. CASE MainStep
        BY <2>3, WriteInStep, CallStep, ReturnStep DEF MainStep
  <2>4. CASE LoopStep
        BY <2>4, AddTransferStep, LoopGoesOnStep, ReadMessageStep,
           WriteOutStep, RemoveTransferStep DEF LoopStep
  <2> QED
      BY <2>1, <2>2, <2>3, <2>4 DEF Next
<1> QED
    BY <1>1, InvInit, PTL DEF Spec

(* Without a lock between the two threads no request is lost, handed over  *)
(* twice or used by curl after rqrm freed it, and the callback finds the   *)
(* codes of a transfer that has ended.                                     *)
THEOREM RequestsAreSafe == Spec => []RequestsSafe
<1>1. Inv => RequestsSafe
  <2> SUFFICES ASSUME Inv PROVE RequestsSafe
      OBVIOUS
  <2>1. HttpTypeOK /\ OnePlace
        BY DEF Inv
  <2>2. PerformOnLiveRequests
    <3>1. running \cup Range(messages) \subseteq alive
          BY PlacesAre, OnePlaceParts DEF Inv, Total
    <3>2. lpc = "perform" => Answered = {}
          BY DEF Inv, Answering, Answered, Only
    <3> QED
        BY <3>1, <3>2 DEF Inv, Answering, PerformOnLiveRequests
  <2>3. CallbackIsComplete
    <3>1. Only(called) \cap running = {}
          BY PlacesAre, OnePlaceParts DEF Inv, Apart
    <3> QED
        BY <3>1 DEF Inv, Coded, Only, CallbackIsComplete
  <2> QED
      BY <2>1, <2>2, <2>3 DEF RequestsSafe
<1> QED
    BY <1>1, InvHolds, PTL

(* The threads block each other only when both pipes are full, one request *)
(* is being posted and another handed over: for any size of the pipes that *)
(* takes two requests more than they hold together.                        *)
THEOREM BlockingNeedsMany == Spec => []StuckNeedsMany
<1>1. Inv => StuckNeedsMany
  <2> SUFFICES ASSUME Inv, Stuck
               PROVE  Cardinality(alive) >= 2 * PipeCap + 2
      BY DEF StuckNeedsMany
  <2> DEFINE A == Range(rqin)
  <2> DEFINE B == Range(rqout)
  <2>1. rqin \in Seq(Requests) /\ rqout \in Seq(Requests) /\ alive \subseteq Requests
        BY DEF Inv, HttpTypeOK
  <2>2. /\ IsFiniteSet(A) /\ Cardinality(A) = PipeCap
        /\ IsFiniteSet(B) /\ Cardinality(B) = PipeCap
        BY <2>1, InjectiveLen, OnePlaceParts DEF Inv, Once, Stuck
  <2>3. /\ Only(posting) = {posting} /\ Held = {lrq}
        BY DEF Inv, Answering, Stuck, Only, Held
  <2>4. /\ posting \notin A /\ posting \notin B /\ posting # lrq
        /\ lrq \notin A /\ lrq \notin B /\ A \cap B = {}
        BY <2>3, PlacesAre, OnePlaceParts DEF Inv, Apart
  <2>5. A \cup B \cup {posting} \cup {lrq} \subseteq alive
        BY <2>3, PlacesAre, OnePlaceParts DEF Inv, Total
  <2> HIDE DEF A, B
  <2>6. IsFiniteSet(A \cup B) /\ Cardinality(A \cup B) = 2 * PipeCap
    <3>1. Cardinality(A \cap B) = 0
          BY <2>4, FS_EmptySet
    <3> QED
        BY <2>2, <3>1, FS_Union
  <2>7. /\ IsFiniteSet(A \cup B \cup {posting})
        /\ Cardinality(A \cup B \cup {posting}) = 2 * PipeCap + 1
        BY <2>4, <2>6, FS_AddElement
  <2> DEFINE C == A \cup B \cup {posting}
  <2>8. IsFiniteSet(C) /\ Cardinality(C) = 2 * PipeCap + 1 /\ lrq \notin C
        BY <2>4, <2>7
  <2>9. C \cup {lrq} \subseteq alive
        BY <2>5
  <2> HIDE DEF C
  <2>10. /\ IsFiniteSet(C \cup {lrq})
         /\ Cardinality(C \cup {lrq}) = Cardinality(C) + 1
        BY <2>8, FS_AddElement
  <2>11. IsFiniteSet(alive) /\ Cardinality(alive) \in Nat
        BY <2>1, FS_Subset, FS_CardinalityType
  <2>12. Cardinality(C \cup {lrq}) <= Cardinality(alive)
        BY <2>9, <2>11, FS_Subset
  <2> QED
      BY <2>8, <2>10, <2>11, <2>12
<1> QED
    BY <1>1, InvHolds, PTL
=============================================================================
