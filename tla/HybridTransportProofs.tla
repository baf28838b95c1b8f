------------------------ MODULE HybridTransportProofs ------------------------
(***************************************************************************)
(* For all batch and queue sizes, failure limits and numbers of messages,  *)
(* calls and failures: types, the bound on the buffer, that no POST starts *)
(* after close(), that the uploader implements OrderedDelivery, that each  *)
(* message is in one place and in order, that a write that has returned    *)
(* has settled its events, and that no wake-up is lost.                    *)
(***************************************************************************)
EXTENDS HybridTransport, SequenceTheorems, TLAPS

USE UploaderConstants, TransportConstants
    DEF queueVars, callVars, history, uploaderVars, transportVars

-----------------------------------------------------------------------------
(* Sequences.                                                              *)

LEMMA ConcatParts ==
    ASSUME NEW s \in Seq(Nat), NEW t \in Seq(Nat)
    PROVE  /\ SubSeq(s \o t, 1, Len(s)) = s
           /\ SubSeq(s \o t, Len(s) + 1, Len(s \o t)) = t
           /\ Len(s) \in 0..Len(s \o t)
<1>1. /\ s \o t \in Seq(Nat) /\ Len(s \o t) = Len(s) + Len(t)
      /\ \A i \in 1..Len(s) + Len(t) :
            (s \o t)[i] = IF i <= Len(s) THEN s[i] ELSE t[i - Len(s)]
  BY ConcatProperties
<1>2. Len(s) \in Nat /\ Len(t) \in Nat
  BY LenProperties
<1> DEFINE u == s \o t
           p == SubSeq(u, 1, Len(s))
           q == SubSeq(u, Len(s) + 1, Len(u))
<1>3. \A i \in 1..Len(u) : u[i] \in Nat
  BY <1>1, ElementOfSeq
<1> HIDE DEF u
<1>4. /\ p \in Seq(Nat) /\ Len(p) = Len(s)
      /\ \A i \in 1..Len(s) : p[i] = u[i]
  <2>1. \A i \in 1..Len(s) : u[i] \in Nat
    BY <1>1, <1>2, <1>3 DEF u
  <2> QED
    BY <1>2, <2>1
<1>5. /\ q \in Seq(Nat) /\ Len(q) = Len(t)
      /\ \A i \in 1..Len(t) : q[i] = u[i + Len(s)]
  <2>1. \A i \in Len(s) + 1..Len(u) : u[i] \in Nat
    BY <1>1, <1>2, <1>3 DEF u
  <2> QED
    BY <1>1, <1>2, <2>1 DEF u
<1>6. p = s
  BY <1>1, <1>2, <1>4, SeqEqual DEF u
<1>7. q = t
  BY <1>1, <1>2, <1>5, SeqEqual DEF u
<1> QED
  BY <1>1, <1>2, <1>6, <1>7 DEF u

LEMMA SplitConcat ==
    ASSUME NEW p \in Seq(Nat), NEW n \in 0..Len(p)
    PROVE  /\ SubSeq(p, 1, n) \in Seq(Nat) /\ Len(SubSeq(p, 1, n)) = n
           /\ SubSeq(p, n + 1, Len(p)) \in Seq(Nat)
           /\ Len(SubSeq(p, n + 1, Len(p))) = Len(p) - n
           /\ SubSeq(p, 1, n) \o SubSeq(p, n + 1, Len(p)) = p
<1>1. Len(p) \in Nat /\ \A i \in 1..Len(p) : p[i] \in Nat
  BY ElementOfSeq
<1>2. \A i \in 1..n : p[i] \in Nat
  BY <1>1
<1>3. \A i \in n + 1..Len(p) : p[i] \in Nat
  BY <1>1
<1>4. SubSeq(p, 1, n) \in Seq(Nat) /\ Len(SubSeq(p, 1, n)) = n
  BY <1>1, <1>2
<1>5. /\ SubSeq(p, n + 1, Len(p)) \in Seq(Nat)
      /\ Len(SubSeq(p, n + 1, Len(p))) = Len(p) - n
  BY <1>1, <1>3
<1>6. SubSeq(p, 1, n) \o SubSeq(p, n + 1, Len(p)) = SubSeq(p, 1, Len(p))
  <2>1. 1 \in 1..Len(p) + 1 /\ n \in 1 - 1..Len(p) /\ Len(p) \in n..Len(p)
    BY <1>1
  <2> QED
    BY <2>1, ConcatAdjacentSubSeq
<1>7. SubSeq(p, 1, Len(p)) = p
  BY SubSeqFull
<1> QED
  BY <1>4, <1>5, <1>6, <1>7

LEMMA ConcatNat ==
    ASSUME NEW s \in Seq(Nat), NEW t \in Seq(Nat)
    PROVE  /\ s \o t \in Seq(Nat) /\ Len(s \o t) = Len(s) + Len(t)
           /\ Len(s) \in Nat /\ Len(t) \in Nat
BY ConcatProperties, LenProperties

LEMMA ConcatOrder ==
    ASSUME NEW s \in Seq(Nat), NEW t \in Seq(Nat), NEW u \in Seq(Nat)
    PROVE  (s \o t) \o u = s \o (t \o u)
<1> DEFINE a == s \o t
           b == t \o u
<1>1. Len(s) \in Nat /\ Len(t) \in Nat /\ Len(u) \in Nat
  BY LenProperties
<1>2. /\ a \in Seq(Nat) /\ Len(a) = Len(s) + Len(t)
      /\ \A i \in 1..Len(s) + Len(t) :
            a[i] = IF i <= Len(s) THEN s[i] ELSE t[i - Len(s)]
  BY ConcatProperties
<1>3. /\ b \in Seq(Nat) /\ Len(b) = Len(t) + Len(u)
      /\ \A i \in 1..Len(t) + Len(u) :
            b[i] = IF i <= Len(t) THEN t[i] ELSE u[i - Len(t)]
  BY ConcatProperties
<1> HIDE DEF a, b
<1> DEFINE l == a \o u
           r == s \o b
<1>4. /\ l \in Seq(Nat) /\ Len(l) = Len(a) + Len(u)
      /\ \A i \in 1..Len(a) + Len(u) :
            l[i] = IF i <= Len(a) THEN a[i] ELSE u[i - Len(a)]
  BY <1>2, ConcatProperties
<1>5. /\ r \in Seq(Nat) /\ Len(r) = Len(s) + Len(b)
      /\ \A i \in 1..Len(s) + Len(b) :
            r[i] = IF i <= Len(s) THEN s[i] ELSE b[i - Len(s)]
  BY <1>3, ConcatProperties
<1> HIDE DEF l, r
<1>6. Len(l) = Len(r)
  BY <1>1, <1>2, <1>3, <1>4, <1>5
<1>7. ASSUME NEW i \in 1..Len(l) PROVE l[i] = r[i]
  <2>1. /\ i \in 1..Len(a) + Len(u) /\ i \in 1..Len(s) + Len(b)
        /\ i \in 1..Len(s) + Len(t) + Len(u)
    BY <1>1, <1>2, <1>3, <1>4, <1>6
  <2>5. /\ l[i] = IF i <= Len(a) THEN a[i] ELSE u[i - Len(a)]
        /\ r[i] = IF i <= Len(s) THEN s[i] ELSE b[i - Len(s)]
    BY <1>4, <1>5, <2>1
  <2>6. ASSUME i <= Len(s) + Len(t)
        PROVE  a[i] = IF i <= Len(s) THEN s[i] ELSE t[i - Len(s)]
    <3>1. i \in 1..Len(s) + Len(t)
      BY <1>1, <2>1, <2>6
    <3> QED
      BY <1>2, <3>1
  <2>2. CASE i <= Len(s)
    BY <1>1, <1>2, <2>1, <2>2, <2>5, <2>6
  <2>3. CASE i > Len(s) /\ i <= Len(s) + Len(t)
    <3>1. l[i] = t[i - Len(s)]
      BY <1>1, <1>2, <2>1, <2>3, <2>5, <2>6
    <3>2. r[i] = b[i - Len(s)] /\ i - Len(s) \in 1..Len(t)
      BY <1>1, <2>1, <2>3, <2>5
    <3>3. i - Len(s) \in 1..Len(t) + Len(u) /\ i - Len(s) <= Len(t)
      BY <1>1, <3>2
    <3>4. b[i - Len(s)] = t[i - Len(s)]
      BY <1>3, <3>3
    <3> QED
      BY <3>1, <3>2, <3>4
  <2>4. CASE i > Len(s) + Len(t)
    <3>1. l[i] = u[i - (Len(s) + Len(t))]
      BY <1>1, <1>2, <2>1, <2>4, <2>5
    <3>2. /\ ~(i <= Len(s)) /\ i - Len(s) \in 1..Len(t) + Len(u)
          /\ ~(i - Len(s) <= Len(t))
      BY <1>1, <2>1, <2>4
    <3>3. i - Len(s) - Len(t) = i - (Len(s) + Len(t))
      BY <1>1, <2>1
    <3>4. r[i] = b[i - Len(s)]
      BY <2>5, <3>2
    <3>5. b[i - Len(s)] = u[i - Len(s) - Len(t)]
      BY <1>3, <3>2
    <3> QED
      BY <3>1, <3>3, <3>4, <3>5
  <2> QED
    BY <1>1, <2>1, <2>2, <2>3, <2>4
<1>8. l = r
  BY <1>4, <1>5, <1>6, <1>7, SeqEqual
<1> QED
  BY <1>8 DEF a, b, l, r

-----------------------------------------------------------------------------
(* The queue.                                                              *)

\* The uploader's own state, and how much it holds.
QueueTyped ==
    /\ pending \in Seq(Nat) /\ batch \in Seq(Nat) /\ server \in Seq(Nat)
    /\ drain \in {"idle", "sending", "sleeping", "waking"}
    /\ failures \in Nat /\ maxConsecutiveFailures \in Nat /\ closed \in BOOLEAN
    /\ answered \subseteq Nat /\ discarded \subseteq Nat /\ dropped \subseteq Nat
    /\ droppedBatches \in Nat /\ throws \in Nat

QueueBounds ==
    /\ Len(batch) =< MaxBatchSize
    /\ drain # "sending" => batch = <<>>
    /\ Len(pending) =< MaxQueueSize + MaxBatchSize
    /\ drain = "sending" => Len(pending) =< MaxQueueSize
    /\ drain = "idle" /\ ~closed => pending = <<>>
    /\ closed /\ drain = "sending" => pending = <<>>

QueueInv == QueueTyped /\ QueueBounds

\* What an iteration of the drain loop with p pending leaves.
Iterated(p) ==
    /\ pending' \in Seq(Nat) /\ batch' \in Seq(Nat)
    /\ batch' \o pending' = p
    /\ drain' \in {"idle", "sending"}
    /\ Len(batch') =< MaxBatchSize
    /\ drain' # "sending" => batch' = <<>>
    /\ Len(pending') =< MaxQueueSize + MaxBatchSize
    /\ drain' = "sending" => Len(pending') =< MaxQueueSize
    /\ drain' = "idle" /\ ~closed => pending' = <<>>
    /\ drain' = "sending" => ~closed

LEMMA Iterating ==
    ASSUME NEW p \in Seq(Nat), Len(p) =< MaxQueueSize + MaxBatchSize, Iterate(p)
    PROVE  Iterated(p)
<1>1. Len(p) \in Nat
  BY LenProperties
<1>2. CASE p # <<>> /\ ~closed /\ takeBatch(p) /\ drain' = "sending"
  <2>1. BatchLength(p) \in 0..Len(p) /\ BatchLength(p) =< MaxBatchSize
    BY <1>1 DEF BatchLength
  <2>2. /\ batch' \in Seq(Nat) /\ Len(batch') = BatchLength(p)
        /\ pending' \in Seq(Nat) /\ Len(pending') = Len(p) - BatchLength(p)
        /\ batch' \o pending' = p
    BY <1>2, <2>1, SplitConcat DEF takeBatch
  <2>3. Len(p) - BatchLength(p) =< MaxQueueSize
    BY <1>1 DEF BatchLength
  <2> QED
    BY <1>1, <1>2, <2>1, <2>2, <2>3 DEF Iterated
<1>3. CASE /\ p = <<>> \/ closed
           /\ pending' = p /\ batch' = <<>> /\ drain' = "idle"
  <2>1. batch' \o pending' = p /\ batch' \in Seq(Nat) /\ Len(batch') = 0
    BY <1>3, ConcatEmptySeq, EmptySeq
  <2> QED
    BY <1>1, <1>3, <2>1 DEF Iterated
<1> QED
  BY <1>2, <1>3 DEF Iterate

\* drain() keeps the order, whether it runs or not.
LEMMA Kicking ==
    ASSUME QueueInv, NEW p \in Seq(Nat), Kick(p), closed' = closed,
           Len(p) =< MaxQueueSize \/ p = pending,
           closed => p = pending,
           UNCHANGED <<maxConsecutiveFailures, history>>
    PROVE  /\ QueueInv' /\ batch' \o pending' = batch \o p
           /\ closed /\ drain' = "sending" => drain = "sending"
<1> USE DEF QueueInv, QueueTyped, QueueBounds
<1>1. CASE drain = "idle" /\ ~closed /\ Iterate(p) /\ failures' = 0
  <2>1. Len(p) \in Nat /\ Len(p) =< MaxQueueSize + MaxBatchSize
    BY LenProperties, EmptySeq
  <2>2. Iterated(p)
    BY <1>1, <2>1, Iterating
  <2>3. batch \o p = p
    BY <1>1, ConcatEmptySeq
  <2> QED
    BY <1>1, <2>2, <2>3 DEF Iterated
<1>2. CASE /\ drain # "idle" \/ closed
           /\ pending' = p
           /\ UNCHANGED <<batch, drain, failures>>
  <2>1. Len(p) \in Nat /\ Len(p) =< MaxQueueSize + MaxBatchSize
    BY LenProperties
  <2> QED
    BY <1>2, <2>1
<1> QED
  BY <1>1, <1>2 DEF Kick

\* enqueue() adds behind everything that is held, or nothing.
Extended == \E t \in Seq(Nat) : Queue' = Queue \o t
NoNewPost == closed /\ drain' = "sending" => drain = "sending"

LEMMA Adding ==
    ASSUME QueueInv, NEW es \in Seq(Nat), Add(es),
           UNCHANGED <<closed, maxConsecutiveFailures, history>>
    PROVE  QueueInv' /\ Extended /\ NoNewPost
<1>1. CASE UNCHANGED queueVars
  <2>1. Queue \in Seq(Nat) /\ Queue' = Queue
    BY <1>1, ConcatNat DEF Queue, QueueInv, QueueTyped
  <2>2. Queue' = Queue \o <<>> /\ <<>> \in Seq(Nat)
    BY <2>1, ConcatEmptySeq, EmptySeq
  <2>3. QueueInv'
    BY <1>1 DEF QueueInv, QueueTyped, QueueBounds
  <2> QED
    BY <1>1, <2>2, <2>3 DEF Extended, NoNewPost
<1>2. CASE ~closed /\ es # <<>> /\ ~Blocks(es) /\ Kick(pending \o es)
  <2>1. /\ pending \o es \in Seq(Nat)
        /\ Len(pending \o es) = Len(pending) + Len(es)
        /\ Len(pending) \in Nat /\ Len(es) \in Nat
    BY ConcatNat DEF QueueInv, QueueTyped
  <2>2. Len(pending \o es) =< MaxQueueSize
    BY <1>2, <2>1 DEF Blocks
  <2>3. /\ QueueInv' /\ Queue' = batch \o (pending \o es)
        /\ closed /\ drain' = "sending" => drain = "sending"
    BY <1>2, <2>1, <2>2, Kicking DEF Queue
  <2>4. batch \o (pending \o es) = Queue \o es
    <3>1. pending \in Seq(Nat) /\ batch \in Seq(Nat) /\ es \in Seq(Nat)
      BY DEF QueueInv, QueueTyped
    <3>2. (batch \o pending) \o es = batch \o (pending \o es)
      BY <3>1, ConcatOrder
    <3> QED
      BY <3>2 DEF Queue
  <2> QED
    BY <2>3, <2>4 DEF Extended, NoNewPost
<1> QED
  BY <1>1, <1>2 DEF Add

-----------------------------------------------------------------------------
(* The callers.                                                            *)

CallersOK(cs, blocked, flushes, conts) ==
    /\ cs \in Seq(Call) /\ blocked \in Seq(DOMAIN cs)
    /\ flushes \subseteq DOMAIN cs \cup {Closer}
    /\ conts \in Seq(DOMAIN cs \cup {Closer})
    /\ Range(blocked) = {c \in DOMAIN cs : cs[c].phase = "blocked"}
    /\ flushes \ {Closer} = {c \in DOMAIN cs : cs[c].phase = "flushing"}

CallersTyped ==
    CallersOK(calls, backpressureResolvers, flushResolvers, micro)

StreamTyped ==
    /\ streamEventBuffer \in Seq(Nat) /\ streamEventTimer \in BOOLEAN
    /\ closing \in BOOLEAN /\ written \in Nat

LEMMA TypeParts ==
    /\ TypeOK <=> QueueTyped /\ CallersTyped /\ StreamTyped
    /\ TypeOK' <=> QueueTyped' /\ CallersTyped' /\ StreamTyped'
BY DEF TypeOK, QueueTyped, CallersTyped, CallersOK, StreamTyped

LEMMA CallNumbers ==
    ASSUME CallersTyped
    PROVE  /\ Len(calls) \in Nat /\ DOMAIN calls = 1..Len(calls)
           /\ Closer \notin DOMAIN calls /\ Len(calls) + 1 \notin DOMAIN calls
           /\ \A c \in DOMAIN calls : calls[c] \in Call
<1>1. calls \in Seq(Call)
  BY DEF CallersTyped, CallersOK
<1>2. Len(calls) \in Nat /\ DOMAIN calls = 1..Len(calls)
  BY <1>1, LenProperties
<1> QED
  BY <1>1, <1>2, ElementOfSeq DEF Closer

LEMMA Moving ==
    ASSUME CallersTyped, NEW woken, NEW done, Move(woken, done)
    PROVE  /\ calls' \in Seq(Call) /\ DOMAIN calls' = DOMAIN calls
           /\ \A c \in DOMAIN calls :
                calls'[c].phase = IF c \in woken THEN "woken"
                                  ELSE IF c \in done THEN "done"
                                  ELSE calls[c].phase
<1>1. /\ Len(calls) \in Nat /\ DOMAIN calls = 1..Len(calls)
      /\ \A c \in DOMAIN calls : calls[c] \in Call
  BY CallNumbers
<1> DEFINE phase(c) == IF c \in woken THEN "woken"
                       ELSE IF c \in done THEN "done" ELSE calls[c].phase
<1>2. calls' = [c \in DOMAIN calls |-> [calls[c] EXCEPT !.phase = phase(c)]]
  BY DEF Move
<1>3. calls' \in [1..Len(calls) -> Call]
  <2>1. \A c \in DOMAIN calls : [calls[c] EXCEPT !.phase = phase(c)] \in Call
    BY <1>1 DEF Call
  <2> HIDE DEF phase
  <2> QED
    BY <1>1, <1>2, <2>1
<1>4. calls' \in Seq(Call) /\ DOMAIN calls' = DOMAIN calls
  BY <1>1, <1>3, SeqDef
<1> QED
  BY <1>1, <1>2, <1>4 DEF Call

\* What releasing blocked callers and resolving flushes leaves.
LEMMA Releasing ==
    ASSUME CallersTyped, NEW bs, bs \in {<<>>, backpressureResolvers},
           NEW done, done \in {{}, flushResolvers}, Release(bs, done)
    PROVE  CallersTyped'
<1>1. bs \in Seq(DOMAIN calls)
  BY EmptySeq DEF CallersTyped, CallersOK
<1>2. Range(<<>>) = {}
  BY DEF Range
<1>3. Range(bs) \in {{}, {c \in DOMAIN calls : calls[c].phase = "blocked"}}
  BY <1>2 DEF CallersTyped, CallersOK
<1>4. Move(Range(bs), done)
  BY DEF Release
<1>5. /\ calls' \in Seq(Call) /\ DOMAIN calls' = DOMAIN calls
      /\ \A c \in DOMAIN calls :
            calls'[c].phase = IF c \in Range(bs) THEN "woken"
                              ELSE IF c \in done THEN "done"
                              ELSE calls[c].phase
  BY <1>4, Moving
<1>6. flushResolvers' = flushResolvers \ done
  BY DEF Release
<1>10. \A c \in DOMAIN calls :
        c \in flushResolvers <=> calls[c].phase = "flushing"
  BY CallNumbers DEF CallersTyped, CallersOK
<1>7. /\ backpressureResolvers' \in Seq(DOMAIN calls)
      /\ Range(backpressureResolvers') =
           {c \in DOMAIN calls : calls'[c].phase = "blocked"}
  <2>1. CASE bs = <<>>
    <3>1. \A c \in DOMAIN calls :
            (calls'[c].phase = "blocked") <=> (calls[c].phase = "blocked")
      BY <1>2, <1>5, <1>10, <2>1
    <3> QED
      BY <2>1, <3>1 DEF Release, CallersTyped, CallersOK
  <2>2. CASE bs # <<>>
    <3>1. bs = backpressureResolvers /\ backpressureResolvers' = <<>>
      BY <2>2 DEF Release
    <3>2. \A c \in DOMAIN calls : calls'[c].phase # "blocked"
      BY <1>5, <3>1 DEF CallersTyped, CallersOK
    <3> QED
      BY <1>2, <3>1, <3>2, EmptySeq
  <2> QED
    BY <2>1, <2>2
<1>8. flushResolvers' \ {Closer} =
        {c \in DOMAIN calls : calls'[c].phase = "flushing"}
  <2>1. Closer \notin DOMAIN calls
    BY CallNumbers
  <2> QED
    BY <1>3, <1>5, <1>6, <1>10, <2>1 DEF CallersTyped, CallersOK
<1>9. micro' \in Seq(DOMAIN calls \cup {Closer})
  <2> DEFINE S == DOMAIN calls \cup {Closer}
             last == IF Closer \in done THEN <<Closer>> ELSE <<>>
  <2>4. DOMAIN calls \subseteq S /\ Closer \in S
    OBVIOUS
  <2>5. bs \in Seq(S)
    BY <1>1, <2>4, SeqMonotonic
  <2>6. last \in Seq(S)
    <3> HIDE DEF S
    <3>1. <<Closer>> \in Seq(S)
      BY <2>4
    <3> QED
      BY <3>1, EmptySeq
  <2>1. micro \in Seq(S) /\ bs \in Seq(S) /\ last \in Seq(S)
    BY <2>5, <2>6 DEF CallersTyped, CallersOK
  <2>2. micro' = (micro \o bs) \o last
    BY DEF Release
  <2> HIDE DEF S, last
  <2>3. (micro \o bs) \o last \in Seq(S)
    BY <2>1, ConcatProperties
  <2> QED
    BY <2>2, <2>3 DEF S
<1> QED
  BY <1>5, <1>6, <1>7, <1>8, <1>9 DEF CallersTyped, CallersOK

LEMMA AppendRange ==
    ASSUME NEW S, NEW s \in Seq(S), NEW e \in S
    PROVE  Append(s, e) \in Seq(S) /\ Range(Append(s, e)) = Range(s) \cup {e}
<1>1. /\ Append(s, e) \in Seq(S) /\ Len(Append(s, e)) = Len(s) + 1
      /\ \A i \in 1..Len(s) : Append(s, e)[i] = s[i]
      /\ Append(s, e)[Len(s) + 1] = e
  BY AppendProperties
<1>2. Len(s) \in Nat /\ DOMAIN s = 1..Len(s)
  BY LenProperties
<1>3. DOMAIN Append(s, e) = 1..Len(s) + 1
  BY <1>1, LenProperties
<1>4. \A x \in Range(s) : x \in Range(Append(s, e))
  BY <1>1, <1>2, <1>3 DEF Range
<1>5. \A x \in Range(Append(s, e)) : x \in Range(s) \/ x = e
  BY <1>1, <1>2, <1>3 DEF Range
<1>6. e \in Range(Append(s, e))
  BY <1>1, <1>2, <1>3 DEF Range
<1> QED
  BY <1>1, <1>4, <1>5, <1>6

\* A call starts: blocked, in its flush(), or past its enqueue().
LEMMA CallStarts ==
    ASSUME NEW cs, NEW bs, NEW fs, NEW ms, CallersOK(cs, bs, fs, ms),
           NEW call \in Call, NEW c, c = Len(cs) + 1
    PROVE  /\ call.phase = "blocked" =>
                CallersOK(Append(cs, call), Append(bs, c), fs, ms)
           /\ call.phase = "flushing" =>
                CallersOK(Append(cs, call), bs, fs \cup {c}, ms)
           /\ call.phase = "entered" =>
                CallersOK(Append(cs, call), bs, fs, Append(ms, c))
           /\ call.phase = "done" =>
                CallersOK(Append(cs, call), bs, fs, ms)
<1> DEFINE cs2 == Append(cs, call)
           all == DOMAIN cs \cup {Closer}
           all2 == DOMAIN cs2 \cup {Closer}
<1>1. /\ cs \in Seq(Call) /\ bs \in Seq(DOMAIN cs) /\ ms \in Seq(all)
      /\ fs \subseteq all
  BY DEF CallersOK
<1>2. Len(cs) \in Nat /\ DOMAIN cs = 1..Len(cs)
  BY <1>1, LenProperties
<1>3. /\ cs2 \in Seq(Call) /\ Len(cs2) = Len(cs) + 1
      /\ \A d \in 1..Len(cs) : cs2[d] = cs[d]
      /\ cs2[Len(cs) + 1] = call
  BY <1>1, AppendProperties
<1>4. DOMAIN cs2 = 1..Len(cs) + 1
  BY <1>3, LenProperties
<1>5. /\ DOMAIN cs2 = DOMAIN cs \cup {c} /\ c \notin DOMAIN cs /\ c # Closer
      /\ \A d \in DOMAIN cs : cs2[d] = cs[d]
      /\ cs2[c] = call
  BY <1>2, <1>3, <1>4 DEF Closer
<1> HIDE DEF cs2
<1>6. DOMAIN cs \subseteq DOMAIN cs2 /\ all \subseteq all2 /\ c \in all2
  BY <1>5
<1>7. bs \in Seq(DOMAIN cs2) /\ ms \in Seq(all2) /\ fs \subseteq all2
  <2> HIDE DEF all, all2
  <2> QED
    BY <1>1, <1>6, SeqMonotonic
<1>8. /\ Append(bs, c) \in Seq(DOMAIN cs2)
      /\ Range(Append(bs, c)) = Range(bs) \cup {c}
  BY <1>5, <1>7, AppendRange
<1>9. Append(ms, c) \in Seq(all2)
  <2> HIDE DEF all2
  <2> QED
    BY <1>6, <1>7, AppendProperties
<1>10. /\ {d \in DOMAIN cs2 : cs2[d].phase = "blocked"} =
             Range(bs) \cup (IF call.phase = "blocked" THEN {c} ELSE {})
       /\ {d \in DOMAIN cs2 : cs2[d].phase = "flushing"} =
             (fs \ {Closer}) \cup (IF call.phase = "flushing" THEN {c} ELSE {})
  BY <1>5 DEF CallersOK
<1>11. (fs \cup {c}) \ {Closer} = (fs \ {Closer}) \cup {c}
  BY <1>5
<1> QED
  BY <1>3, <1>6, <1>7, <1>8, <1>9, <1>10, <1>11 DEF CallersOK, cs2

\* A call goes on when its continuation runs.
LEMMA CallGoesOn ==
    ASSUME NEW cs, NEW bs, NEW fs, NEW ms, CallersOK(cs, bs, fs, ms),
           NEW c \in DOMAIN cs, cs[c].phase \in {"woken", "entered"},
           NEW phase \in {"blocked", "entered", "flushing", "done"}, ms # <<>>
    PROVE  LET cs2 == [cs EXCEPT ![c].phase = phase]
           IN /\ phase = "blocked" =>
                   CallersOK(cs2, Append(bs, c), fs, Tail(ms))
              /\ phase = "flushing" =>
                   CallersOK(cs2, bs, fs \cup {c}, Tail(ms))
              /\ phase = "entered" =>
                   CallersOK(cs2, bs, fs, Append(Tail(ms), c))
              /\ phase = "done" =>
                   CallersOK(cs2, bs, fs, Tail(ms))
<1> DEFINE cs2 == [cs EXCEPT ![c].phase = phase]
           all == DOMAIN cs \cup {Closer}
<1>1. /\ cs \in Seq(Call) /\ bs \in Seq(DOMAIN cs) /\ ms \in Seq(all)
      /\ fs \subseteq all
  BY DEF CallersOK
<1>2. Len(cs) \in Nat /\ DOMAIN cs = 1..Len(cs) /\ cs[c] \in Call
  BY <1>1, LenProperties, ElementOfSeq
<1>3. [cs[c] EXCEPT !.phase = phase] \in Call
  BY <1>2 DEF Call
<1>4. /\ cs2 = [cs EXCEPT ![c] = [cs[c] EXCEPT !.phase = phase]]
      /\ [cs[c] EXCEPT !.phase = phase].phase = phase
  BY <1>2 DEF Call
<1>5. /\ cs2 \in Seq(Call) /\ Len(cs2) = Len(cs)
      /\ \A d \in 1..Len(cs) :
            cs2[d] = IF d = c THEN [cs[c] EXCEPT !.phase = phase] ELSE cs[d]
  BY <1>1, <1>2, <1>3, <1>4, ExceptSeq
<1>6. /\ DOMAIN cs2 = DOMAIN cs
      /\ \A d \in DOMAIN cs :
            cs2[d].phase = IF d = c THEN phase ELSE cs[d].phase
  BY <1>2, <1>4, <1>5, LenProperties
<1> HIDE DEF cs2
<1>7. c # Closer
  BY <1>2 DEF Closer
<1>8. Tail(ms) \in Seq(all) /\ Append(Tail(ms), c) \in Seq(all)
  <2>1. c \in all
    OBVIOUS
  <2> HIDE DEF all
  <2>2. Tail(ms) \in Seq(all)
    BY <1>1, HeadTailProperties
  <2> QED
    BY <2>1, <2>2, AppendProperties
<1>9. /\ Append(bs, c) \in Seq(DOMAIN cs)
      /\ Range(Append(bs, c)) = Range(bs) \cup {c}
  BY <1>1, AppendRange
<1>10. /\ {d \in DOMAIN cs : cs2[d].phase = "blocked"} =
             Range(bs) \cup (IF phase = "blocked" THEN {c} ELSE {})
       /\ {d \in DOMAIN cs : cs2[d].phase = "flushing"} =
             (fs \ {Closer}) \cup (IF phase = "flushing" THEN {c} ELSE {})
  BY <1>6 DEF CallersOK
<1>11. (fs \cup {c}) \ {Closer} = (fs \ {Closer}) \cup {c}
  BY <1>7
<1> QED
  BY <1>1, <1>5, <1>6, <1>8, <1>9, <1>10, <1>11 DEF CallersOK, cs2

LEMMA NewCallTyped ==
    ASSUME NEW es \in Seq(Nat), NEW flushes \in BOOLEAN, QueueTyped
    PROVE  /\ NewCall(es, flushes) \in Call
           /\ NewCall(es, flushes).phase = IF Blocks(es) THEN "blocked"
                ELSE IF flushes THEN "entered" ELSE "done"
BY DEF NewCall, Call, QueueTyped, Blocks

-----------------------------------------------------------------------------
(* The steps, as the queue sees them.                                      *)

\* What every step does: a step of OrderedDelivery, or none.
QueueStep ==
    /\ QueueInv' /\ NoNewPost
    /\ Delivery!Next \/ UNCHANGED <<Queue, server>>

LEMMA QueueIsSeq ==
    ASSUME QueueInv
    PROVE  /\ pending \in Seq(Nat) /\ batch \in Seq(Nat) /\ server \in Seq(Nat)
           /\ Queue \in Seq(Nat) /\ Len(Queue) \in Nat
BY ConcatNat DEF QueueInv, QueueTyped, Queue

LEMMA AddStep ==
    ASSUME QueueInv, NEW es \in Seq(Nat), Add(es),
           UNCHANGED <<closed, maxConsecutiveFailures, history>>
    PROVE  QueueStep
<1>1. QueueInv' /\ Extended /\ NoNewPost
  BY Adding
<1>2. PICK t \in Seq(Nat) : Queue' = Queue \o t
  BY <1>1 DEF Extended
<1>3. /\ SubSeq(Queue', 1, Len(Queue)) = Queue
      /\ Len(Queue) =< Len(Queue')
  BY <1>2, QueueIsSeq, ConcatParts
<1>4. Delivery!Accept
  BY <1>3 DEF Delivery!Accept, Delivery!First
<1> QED
  BY <1>1, <1>4 DEF QueueStep, Delivery!Next

LEMMA KickStep ==
    ASSUME QueueInv, Kick(pending),
           UNCHANGED <<closed, maxConsecutiveFailures, history>>
    PROVE  QueueStep
<1>1. /\ QueueInv' /\ batch' \o pending' = batch \o pending
      /\ closed /\ drain' = "sending" => drain = "sending"
  BY QueueIsSeq, Kicking
<1> QED
  BY <1>1 DEF QueueStep, NoNewPost, Queue

\* The batch in flight leaves for good.
LEMMA AdvanceStep ==
    ASSUME QueueInv, drain = "sending", Advance, Arrives \/ UNCHANGED server,
           UNCHANGED <<maxConsecutiveFailures, closed>>,
           answered' \subseteq Nat, discarded' \subseteq Nat, dropped' \subseteq Nat,
           droppedBatches' \in Nat, throws' \in Nat
    PROVE  QueueStep
<1>1. /\ pending \in Seq(Nat) /\ batch \in Seq(Nat) /\ server \in Seq(Nat)
      /\ Len(pending) \in Nat /\ Len(pending) =< MaxQueueSize
  BY QueueIsSeq, LenProperties DEF QueueInv, QueueBounds
<1>2. Iterated(pending)
  <2>1. Len(pending) =< MaxQueueSize + MaxBatchSize
    BY <1>1
  <2> QED
    BY <1>1, <2>1, Iterating DEF Advance
<1>3. /\ Queue' = Delivery!Without(Queue, Len(batch))
      /\ batch = Delivery!First(Queue, Len(batch))
      /\ Len(batch) \in 0..Len(Queue)
  BY <1>1, <1>2, ConcatParts
     DEF Queue, Iterated, Delivery!Without, Delivery!First
<1>4. server' \in Seq(Nat)
  BY <1>1, ConcatNat DEF Arrives
<1>5. QueueInv'
  BY <1>2, <1>4 DEF QueueInv, QueueTyped, QueueBounds, Iterated, Advance
<1>6. Delivery!Deliver(Len(batch)) \/ Delivery!GiveUp(Len(batch))
  BY <1>3 DEF Arrives, Delivery!Deliver, Delivery!GiveUp
<1> QED
  BY <1>3, <1>5, <1>6 DEF QueueStep, NoNewPost, Delivery!Next

LEMMA SendStep == ASSUME QueueInv, Send PROVE QueueStep
<1> USE DEF QueueInv, QueueTyped
<1>1. Range(batch) \subseteq Nat
  <2>1. batch \in Seq(Nat)
    BY QueueIsSeq
  <2> QED
    BY <2>1, ElementOfSeq, LenProperties DEF Range
<1>2. CASE SendSucceeds
  BY <1>1, <1>2, AdvanceStep DEF SendSucceeds
<1>3. CASE SendDiscards
  BY <1>1, <1>3, AdvanceStep DEF SendDiscards
<1>4. CASE SendThrows /\ Advance /\ dropped' = dropped \cup Range(batch)
           /\ droppedBatches' = droppedBatches + 1
  <2>1. /\ drain = "sending" /\ (Arrives \/ UNCHANGED server) /\ Advance
        /\ UNCHANGED <<maxConsecutiveFailures, closed>>
        /\ answered' \subseteq Nat /\ discarded' \subseteq Nat /\ throws' \in Nat
    BY <1>4 DEF SendThrows
  <2>2. dropped' \subseteq Nat
    BY <1>1, <1>4, Zenon
  <2>3. droppedBatches' \in Nat
    <3>1. droppedBatches' = droppedBatches + 1 /\ droppedBatches \in Nat
      BY <1>4
    <3> QED
      BY <3>1
  <2> QED
    BY <2>1, <2>2, <2>3, AdvanceStep
<1>5. CASE /\ SendThrows
           /\ pending' = batch \o pending /\ batch' = <<>>
           /\ drain' = "sleeping" /\ failures' = failures + 1
           /\ UNCHANGED <<dropped, droppedBatches, callVars>>
  <2>1. /\ pending' \in Seq(Nat) /\ Len(pending') = Len(batch) + Len(pending)
        /\ Len(batch) \in Nat /\ Len(pending) \in Nat
    BY <1>5, ConcatNat
  <2>2. Queue' = Queue /\ server' \in Seq(Nat)
    BY <1>5, <2>1, ConcatEmptySeq, ConcatNat DEF Queue, SendThrows, Arrives
  <2>3. Len(pending') =< MaxQueueSize + MaxBatchSize
    BY <2>1, <1>5 DEF QueueBounds, SendThrows
  <2>4. QueueInv'
    <3>1. QueueTyped'
      BY <1>5, <2>1, <2>2, EmptySeq DEF SendThrows
    <3>2. batch' = <<>> /\ Len(batch') =< MaxBatchSize /\ drain' = "sleeping"
      BY <1>5
    <3> QED
      BY <3>1, <3>2, <2>3 DEF QueueBounds
  <2>5. Delivery!Deliver(Len(batch)) \/ UNCHANGED <<Queue, server>>
    <3>1. batch = Delivery!First(Queue, Len(batch))
      BY ConcatParts DEF Queue, Delivery!First
    <3> QED
      BY <1>5, <2>2, <3>1 DEF SendThrows, Arrives, Delivery!Deliver
  <2>6. Len(batch) \in 0..Len(Queue)
    BY ConcatParts DEF Queue
  <2> QED
    BY <1>5, <2>4, <2>5, <2>6 DEF QueueStep, NoNewPost, Delivery!Next
<1> QED
  BY <1>2, <1>3, <1>4, <1>5 DEF Send, SendThrows

LEMMA SleepStep == ASSUME QueueInv, SleepEnds PROVE QueueStep
<1>1. /\ pending \in Seq(Nat) /\ Len(pending) =< MaxQueueSize + MaxBatchSize
      /\ batch = <<>>
  BY QueueIsSeq DEF QueueInv, QueueBounds, SleepEnds
<1>2. Iterated(pending)
  BY <1>1, Iterating DEF SleepEnds
<1>3. Queue' = Queue
  BY <1>1, <1>2, ConcatEmptySeq DEF Queue, Iterated
<1>4. QueueInv'
  BY <1>2 DEF QueueInv, QueueTyped, QueueBounds, Iterated, SleepEnds, history
<1> QED
  BY <1>2, <1>3, <1>4 DEF QueueStep, NoNewPost, Iterated, SleepEnds, history

LEMMA CloseStep == ASSUME QueueInv, close PROVE QueueStep
<1>1. Queue' = batch /\ Len(batch) \in 0..Len(Queue)
  BY QueueIsSeq, ConcatEmptySeq, ConcatParts DEF close, Queue
<1>2. Delivery!Drop(Len(batch))
  BY <1>1, QueueIsSeq, ConcatParts
     DEF close, Queue, Delivery!Drop, Delivery!First
<1>3. QueueInv'
  <2>1. /\ pending' = <<>> /\ pending' \in Seq(Nat) /\ Len(pending') = 0
        /\ batch' = batch /\ closed' = TRUE
    BY EmptySeq DEF close
  <2> QED
    BY <2>1 DEF close, QueueInv, QueueTyped, QueueBounds
<1> QED
  BY <1>1, <1>2, <1>3 DEF QueueStep, NoNewPost, Delivery!Next, close

-----------------------------------------------------------------------------
(* The steps, as the callers see them.                                     *)

LEMMA EnqueueCalls ==
    ASSUME QueueTyped, CallersTyped, NEW es \in Seq(Nat), enqueue(es)
    PROVE  CallersTyped'
<1> DEFINE c == Len(calls) + 1
           call == NewCall(es, TRUE)
<1>1. /\ call \in Call
      /\ call.phase = IF Blocks(es) THEN "blocked" ELSE "entered"
  BY NewCallTyped
<1>2. /\ calls' = Append(calls, call)
      /\ backpressureResolvers' =
           IF Blocks(es) THEN Append(backpressureResolvers, c)
                         ELSE backpressureResolvers
      /\ micro' = IF Blocks(es) THEN micro ELSE Append(micro, c)
      /\ flushResolvers' = flushResolvers
  BY DEF enqueue, Queued
<1> HIDE DEF call
<1>3. /\ call.phase = "blocked" =>
           CallersOK(Append(calls, call), Append(backpressureResolvers, c),
                     flushResolvers, micro)
      /\ call.phase = "entered" =>
           CallersOK(Append(calls, call), backpressureResolvers,
                     flushResolvers, Append(micro, c))
  BY <1>1, CallStarts DEF CallersTyped
<1> QED
  BY <1>1, <1>2, <1>3 DEF CallersTyped

\* An enqueue() that nobody awaits, before what follows it.
LEMMA UnawaitedCalls ==
    ASSUME QueueTyped, CallersTyped, NEW es \in Seq(Nat),
           Queued(Len(calls) + 1, es)
    PROVE  CallersOK(IF Blocks(es) THEN Append(calls, NewCall(es, FALSE))
                                   ELSE calls,
                     backpressureResolvers', flushResolvers, micro)
<1> DEFINE c == Len(calls) + 1
           call == NewCall(es, FALSE)
<1>1. call \in Call /\ (Blocks(es) => call.phase = "blocked")
  BY NewCallTyped
<1>2. backpressureResolvers' =
        IF Blocks(es) THEN Append(backpressureResolvers, c)
                      ELSE backpressureResolvers
  BY DEF Queued
<1> HIDE DEF call
<1>3. call.phase = "blocked" =>
        CallersOK(Append(calls, call), Append(backpressureResolvers, c),
                  flushResolvers, micro)
  BY <1>1, CallStarts DEF CallersTyped
<1> QED
  BY <1>1, <1>2, <1>3 DEF CallersTyped, call

LEMMA FlushCalls ==
    ASSUME QueueInv, CallersTyped, streamEventBuffer \in Seq(Nat), Flush
    PROVE  CallersTyped'
<1> DEFINE es == streamEventBuffer
           cs == IF Blocks(es) THEN Append(calls, NewCall(es, FALSE)) ELSE calls
           c == Len(cs) + 1
           done == pending' = <<>> /\ drain' = "idle"
           call == [NewCall(<<>>, TRUE) EXCEPT
                      !.events = batch' \o pending',
                      !.phase = IF done THEN "done" ELSE "flushing"]
<1>1. /\ Add(es) /\ UNCHANGED <<closed, maxConsecutiveFailures, history>>
      /\ calls' = Append(cs, call) /\ Queued(c - 1, es) /\ micro' = micro
      /\ flushResolvers' =
           IF done THEN flushResolvers ELSE flushResolvers \cup {c}
  BY DEF Flush
<1>2. batch' \o pending' \in Seq(Nat)
  <2>1. QueueInv'
    BY <1>1, Adding
  <2> QED
    BY <2>1, ConcatNat DEF QueueInv, QueueTyped
<1>3. call \in Call /\ call.phase = IF done THEN "done" ELSE "flushing"
  <2>1. NewCall(<<>>, TRUE) \in Call
    BY EmptySeq, NewCallTyped DEF QueueInv
  <2> HIDE DEF done
  <2> QED
    BY <1>2, <2>1 DEF Call
<1>4. CallersOK(cs, backpressureResolvers', flushResolvers, micro)
  <2>1. Len(calls) \in Nat
    BY CallNumbers
  <2>2. CASE Blocks(es)
    <3>1. cs = Append(calls, NewCall(es, FALSE)) /\ calls \in Seq(Call)
      BY <2>2 DEF CallersTyped, CallersOK
    <3>2. Len(cs) = Len(calls) + 1
      <4>1. NewCall(es, FALSE) \in Call
        BY NewCallTyped DEF QueueInv
      <4> QED
        BY <3>1, <4>1, AppendProperties
    <3>3. Queued(Len(calls) + 1, es)
      BY <1>1, <2>1, <3>2
    <3> QED
      BY <3>3, UnawaitedCalls DEF QueueInv
  <2>3. CASE ~Blocks(es)
    BY <1>1, <2>3 DEF Queued, CallersTyped
  <2> QED
    BY <2>2, <2>3
<1> HIDE DEF cs, call, done
<1>5. /\ call.phase = "flushing" =>
           CallersOK(Append(cs, call), backpressureResolvers',
                     flushResolvers \cup {c}, micro)
      /\ call.phase = "done" =>
           CallersOK(Append(cs, call), backpressureResolvers',
                     flushResolvers, micro)
  BY <1>3, <1>4, CallStarts
<1> QED
  BY <1>1, <1>3, <1>5 DEF CallersTyped

LEMMA ContinuationCalls ==
    ASSUME QueueTyped, CallersTyped, micro # <<>>, Head(micro) # Closer,
           Resume(Head(micro)) \/ flush(Head(micro))
    PROVE  CallersTyped'
<1> DEFINE c == Head(micro)
           es == calls[c].events
<1>1. c \in DOMAIN calls
  <2>1. micro \in Seq(DOMAIN calls \cup {Closer})
    BY DEF CallersTyped, CallersOK
  <2> QED
    BY <2>1, HeadTailProperties
<1>2. es \in Seq(Nat) /\ calls[c].flushes \in BOOLEAN
  BY <1>1, CallNumbers DEF Call
<1> HIDE DEF c, es
<1>3. CASE Resume(c)
  <2> DEFINE phase == NewCall(es, calls[c].flushes).phase
             cs == [calls EXCEPT ![c].phase = phase]
  <2>1. /\ phase \in {"blocked", "entered", "done"}
        /\ (phase = "blocked") <=> Blocks(es)
    BY <1>2, NewCallTyped DEF Blocks
  <2>2. /\ calls' = cs /\ calls[c].phase = "woken"
        /\ backpressureResolvers' =
             IF Blocks(es) THEN Append(backpressureResolvers, c)
                           ELSE backpressureResolvers
        /\ micro' = IF calls'[c].phase = "entered" THEN Append(Tail(micro), c)
                                                   ELSE Tail(micro)
        /\ flushResolvers' = flushResolvers
    BY <1>3 DEF Resume, Queued, es
  <2> HIDE DEF phase
  <2>3. cs[c].phase = phase
    <3>1. calls \in Seq(Call) /\ calls[c] \in Call
      BY <1>1, CallNumbers DEF CallersTyped, CallersOK
    <3> QED
      BY <1>1, <3>1 DEF Call
  <2>4. /\ phase = "blocked" =>
             CallersOK(cs, Append(backpressureResolvers, c), flushResolvers,
                       Tail(micro))
        /\ phase = "entered" =>
             CallersOK(cs, backpressureResolvers, flushResolvers,
                       Append(Tail(micro), c))
        /\ phase = "done" =>
             CallersOK(cs, backpressureResolvers, flushResolvers, Tail(micro))
    BY <1>1, <2>1, <2>2, CallGoesOn DEF CallersTyped
  <2> HIDE DEF cs
  <2> QED
    BY <2>1, <2>2, <2>3, <2>4 DEF CallersTyped
<1>4. CASE flush(c)
  <2> DEFINE phase == IF IsDrained THEN "done" ELSE "flushing"
             cs == [calls EXCEPT ![c].phase = phase]
  <2>1. /\ calls' = cs /\ calls[c].phase = "entered"
        /\ flushResolvers' =
             IF IsDrained THEN flushResolvers ELSE flushResolvers \cup {c}
        /\ micro' = Tail(micro)
        /\ backpressureResolvers' = backpressureResolvers
    BY <1>4 DEF flush
  <2>2. phase = IF IsDrained THEN "done" ELSE "flushing"
    OBVIOUS
  <2> HIDE DEF phase
  <2>3. /\ phase = "flushing" =>
             CallersOK(cs, backpressureResolvers, flushResolvers \cup {c},
                       Tail(micro))
        /\ phase = "done" =>
             CallersOK(cs, backpressureResolvers, flushResolvers, Tail(micro))
    BY <1>1, <2>1, <2>2, CallGoesOn DEF CallersTyped
  <2> HIDE DEF cs
  <2> QED
    BY <2>1, <2>2, <2>3 DEF CallersTyped
<1> QED
  BY <1>3, <1>4 DEF c

LEMMA SameCalls == ASSUME CallersTyped, UNCHANGED callVars PROVE CallersTyped'
BY DEF CallersTyped

LEMMA DrainCalls == ASSUME CallersTyped, Send \/ SleepEnds PROVE CallersTyped'
<1>1. Flushed(pending) \in {{}, flushResolvers}
  BY DEF Flushed
<1>2. CASE Release(backpressureResolvers, Flushed(pending))
  BY <1>1, <1>2, Releasing
<1>3. CASE Release(<<>>, Flushed(pending))
  BY <1>1, <1>3, Releasing
<1>4. CASE UNCHANGED callVars
  BY <1>4, SameCalls
<1> QED
  BY <1>2, <1>3, <1>4
     DEF Send, SendSucceeds, SendDiscards, SendThrows, SleepEnds, Advance

LEMMA CloseCalls ==
    ASSUME CallersTyped, micro # <<>>, close PROVE CallersTyped'
<1> DEFINE all == DOMAIN calls \cup {Closer}
<1>1. /\ backpressureResolvers \in Seq(DOMAIN calls) /\ micro \in Seq(all)
      /\ Range(backpressureResolvers) =
           {c \in DOMAIN calls : calls[c].phase = "blocked"}
      /\ flushResolvers \ {Closer} =
           {c \in DOMAIN calls : calls[c].phase = "flushing"}
      /\ Closer \notin DOMAIN calls
  BY CallNumbers DEF CallersTyped, CallersOK
<1>2. /\ Move(Range(backpressureResolvers), flushResolvers)
      /\ micro' = Tail(micro) \o backpressureResolvers
      /\ backpressureResolvers' = <<>> /\ flushResolvers' = {}
  BY DEF close
<1>3. /\ calls' \in Seq(Call) /\ DOMAIN calls' = DOMAIN calls
      /\ \A c \in DOMAIN calls :
            calls'[c].phase =
              IF c \in Range(backpressureResolvers) THEN "woken"
              ELSE IF c \in flushResolvers THEN "done" ELSE calls[c].phase
  BY <1>2, Moving
<1>4. \A c \in DOMAIN calls : calls'[c].phase \notin {"blocked", "flushing"}
  BY <1>1, <1>3
<1>5. micro' \in Seq(all)
  <2>1. DOMAIN calls \subseteq all
    OBVIOUS
  <2> HIDE DEF all
  <2>2. Tail(micro) \in Seq(all) /\ backpressureResolvers \in Seq(all)
    BY <1>1, <2>1, HeadTailProperties, SeqMonotonic
  <2> QED
    BY <1>2, <2>2, ConcatProperties
<1>6. Range(<<>>) = {} /\ <<>> \in Seq(DOMAIN calls)
  BY EmptySeq DEF Range
<1>7. /\ Range(backpressureResolvers') =
           {c \in DOMAIN calls' : calls'[c].phase = "blocked"}
      /\ flushResolvers' \ {Closer} =
           {c \in DOMAIN calls' : calls'[c].phase = "flushing"}
  BY <1>2, <1>3, <1>4, <1>6
<1> QED
  BY <1>2, <1>3, <1>5, <1>6, <1>7 DEF CallersTyped, CallersOK

\* close() of the transport, and the end of its grace period.
LEMMA CloserCalls ==
    ASSUME CallersTyped, UNCHANGED <<calls, backpressureResolvers>>,
           flushResolvers' \ {Closer} = flushResolvers \ {Closer},
           micro' \in {micro, Append(micro, Closer)}
    PROVE  CallersTyped'
<1> DEFINE all == DOMAIN calls \cup {Closer}
<1>1. micro \in Seq(all) /\ flushResolvers \subseteq all
  BY DEF CallersTyped, CallersOK
<1>2. flushResolvers' \subseteq all
  BY <1>1
<1>3. micro' \in Seq(all)
  <2>1. Closer \in all
    OBVIOUS
  <2> HIDE DEF all
  <2> QED
    BY <1>1, <2>1, AppendProperties
<1> QED
  BY <1>2, <1>3 DEF CallersTyped, CallersOK

-----------------------------------------------------------------------------
(* The inductive invariant: the types, and the bounds on the queue.        *)

Inv == TypeOK /\ QueueBounds

LEMMA InvParts ==
    /\ Inv <=> QueueInv /\ CallersTyped /\ StreamTyped
    /\ Inv' <=> QueueInv' /\ CallersTyped' /\ StreamTyped'
BY TypeParts DEF Inv, QueueInv

LEMMA InitInv == Init => Inv
<1> SUFFICES ASSUME Init PROVE Inv
  OBVIOUS
<1>1. /\ pending = <<>> /\ batch = <<>> /\ server = <<>> /\ calls = <<>>
      /\ backpressureResolvers = <<>> /\ flushResolvers = {} /\ micro = <<>>
      /\ streamEventBuffer = <<>>
  BY DEF Init, UploaderInit
<1>2. QueueInv
  <2>1. QueueTyped
    BY <1>1, EmptySeq DEF Init, UploaderInit, QueueTyped
  <2>2. Len(<<>>) = 0
    BY EmptySeq
  <2> QED
    BY <1>1, <2>1, <2>2 DEF QueueInv, QueueBounds, Init, UploaderInit
<1>3. CallersTyped
  <2>1. DOMAIN calls = {} /\ Range(<<>>) = {}
    BY <1>1 DEF Range
  <2> QED
    BY <1>1, <2>1, EmptySeq DEF CallersTyped, CallersOK
<1>4. StreamTyped
  BY <1>1, EmptySeq DEF Init, StreamTyped
<1> QED
  BY <1>2, <1>3, <1>4, InvParts

LEMMA MessagesTyped ==
    ASSUME StreamTyped, NEW n \in Nat
    PROVE  /\ NewMessages(n) \in Seq(Nat)
           /\ streamEventBuffer \o NewMessages(n) \in Seq(Nat)
<1>1. NewMessages(n) \in [1..n -> Nat]
  BY DEF NewMessages, StreamTyped
<1>2. NewMessages(n) \in Seq(Nat)
  BY <1>1, SeqDef
<1> QED
  BY <1>2, ConcatNat DEF StreamTyped

\* Nothing of the uploader's changes.
LEMMA SameQueue ==
    ASSUME QueueInv, UNCHANGED <<queueVars, maxConsecutiveFailures, closed, history>>
    PROVE  QueueStep
BY DEF QueueStep, QueueInv, QueueTyped, QueueBounds, NoNewPost, Queue

LEMMA Step == ASSUME Inv, [Next]_vars PROVE Inv' /\ QueueStep
<1>1. QueueInv /\ QueueTyped /\ CallersTyped /\ StreamTyped
  BY InvParts DEF QueueInv
<1>2. <<>> \in Seq(Nat) /\ 1 \in Nat /\ streamEventBuffer \in Seq(Nat)
  BY <1>1, EmptySeq DEF StreamTyped
<1>3. CASE WriteStreamEvent
  <2>1. StreamTyped'
    BY <1>1, <1>3, <1>2, MessagesTyped DEF WriteStreamEvent, StreamTyped
  <2>2. QueueStep
    BY <1>1, <1>3, SameQueue DEF WriteStreamEvent
  <2>3. CallersTyped'
    BY <1>1, <1>3, SameCalls DEF WriteStreamEvent
  <2> QED
    BY <2>1, <2>2, <2>3, InvParts DEF QueueStep
<1>4. ASSUME NEW n \in 0..MaxMessages, Write(n) PROVE Inv' /\ QueueStep
  <2> DEFINE es == streamEventBuffer \o NewMessages(n)
  <2>1. n \in Nat /\ es \in Seq(Nat)
    BY <1>1, MessagesTyped
  <2>2. enqueue(es)
    BY <1>4 DEF Write
  <2> HIDE DEF es
  <2>3. StreamTyped'
    <3>1. written' = written + n /\ written \in Nat
      BY <1>1, <1>4 DEF Write, StreamTyped
    <3>2. written' \in Nat
      BY <2>1, <3>1
    <3> QED
      BY <1>1, <1>2, <1>4, <3>2 DEF Write, takeStreamEvents, StreamTyped
  <2>4. QueueStep
    BY <1>1, <2>1, <2>2, AddStep DEF enqueue
  <2>5. CallersTyped'
    BY <1>1, <2>1, <2>2, EnqueueCalls
  <2> QED
    BY <2>3, <2>4, <2>5, InvParts DEF QueueStep
<1>5. CASE Flush
  <2>1. StreamTyped'
    BY <1>1, <1>2, <1>5 DEF Flush, takeStreamEvents, StreamTyped
  <2>2. QueueStep
    BY <1>1, <1>2, <1>5, AddStep DEF Flush
  <2>3. CallersTyped'
    BY <1>1, <1>2, <1>5, FlushCalls
  <2> QED
    BY <2>1, <2>2, <2>3, InvParts DEF QueueStep
<1>6. CASE Close
  <2>1. StreamTyped'
    BY <1>1, <1>2, <1>6 DEF Close, takeStreamEvents, StreamTyped
  <2>2. QueueStep
    BY <1>1, <1>6, SameQueue DEF Close
  <2>3. CallersTyped'
    BY <1>1, <1>6, CloserCalls DEF Close
  <2> QED
    BY <2>1, <2>2, <2>3, InvParts DEF QueueStep
<1>7. CASE FlushStreamEvents
  <2>1. StreamTyped'
    BY <1>1, <1>2, <1>7 DEF FlushStreamEvents, takeStreamEvents, StreamTyped
  <2>2. QueueStep
    BY <1>1, <1>2, <1>7, AddStep DEF FlushStreamEvents, enqueueUnawaited
  <2>3. CallersTyped'
    BY <1>1, <1>2, <1>7, UnawaitedCalls
       DEF FlushStreamEvents, enqueueUnawaited, CallersTyped
  <2> QED
    BY <2>1, <2>2, <2>3, InvParts DEF QueueStep
<1>8. CASE GraceExpires
  <2>1. StreamTyped'
    BY <1>1, <1>8 DEF GraceExpires, StreamTyped
  <2>2. QueueStep
    BY <1>1, <1>8, SameQueue DEF GraceExpires
  <2>3. CallersTyped'
    BY <1>1, <1>8, CloserCalls DEF GraceExpires
  <2> QED
    BY <2>1, <2>2, <2>3, InvParts DEF QueueStep
<1>9. CASE Uploader
  <2>1. StreamTyped'
    BY <1>1, <1>9 DEF Uploader, StreamTyped
  <2>2. CASE Send \/ SleepEnds
    BY <1>1, <2>1, <2>2, SendStep, SleepStep, DrainCalls, InvParts
       DEF QueueStep
  <2>3. CASE micro # <<>> /\ Head(micro) = Closer /\ close
    BY <1>1, <2>1, <2>3, CloseStep, CloseCalls, InvParts DEF QueueStep
  <2>4. CASE /\ micro # <<>> /\ Head(micro) # Closer
             /\ Resume(Head(micro)) \/ flush(Head(micro))
    <3>1. CallersTyped'
      BY <1>1, <2>4, ContinuationCalls
    <3>2. CASE Resume(Head(micro))
      <4>1. calls[Head(micro)].events \in Seq(Nat)
        <5>1. micro \in Seq(DOMAIN calls \cup {Closer})
          BY <1>1 DEF CallersTyped, CallersOK
        <5>2. Head(micro) \in DOMAIN calls
          BY <2>4, <5>1, HeadTailProperties
        <5> QED
          BY <1>1, <5>2, CallNumbers DEF Call
      <4> QED
        BY <1>1, <2>1, <3>1, <3>2, <4>1, AddStep, InvParts
           DEF Resume, QueueStep
    <3>3. CASE flush(Head(micro))
      BY <1>1, <2>1, <3>1, <3>3, KickStep, InvParts DEF flush, QueueStep
    <3> QED
      BY <2>4, <3>2, <3>3
  <2> QED
    BY <1>9, <2>2, <2>3, <2>4 DEF Uploader, RunMicro
<1>10. CASE UNCHANGED vars
  <2>1. StreamTyped'
    BY <1>1, <1>10 DEF vars, StreamTyped
  <2> QED
    BY <1>1, <1>10, <2>1, SameQueue, SameCalls, InvParts DEF vars, QueueStep
<1> QED
  BY <1>3, <1>4, <1>5, <1>6, <1>7, <1>8, <1>9, <1>10
     DEF Next, Application

-----------------------------------------------------------------------------
(* The results.                                                            *)

\* The types, that the blocked callers are in the list that will wake them,
\* and the bounds on what is pending and in flight.
THEOREM Invariant == Spec => []Inv
<1>1. Inv /\ [Next]_vars => Inv'
  BY Step
<1> QED
  BY InitInv, <1>1, PTL DEF Spec

\* Every state of the transport and its uploader is well formed.
THEOREM TypeCorrect == Spec => []TypeOK
<1>1. Inv => TypeOK
  BY DEF Inv
<1> QED
  BY Invariant, <1>1, PTL

\* A batch that is put back pushes the buffer over its limit by no more than
\* itself, for every configuration of the limits.
THEOREM Bounded == Spec => []BufferIsBounded
<1>1. Inv => BufferIsBounded
  BY DEF Inv, QueueBounds, BufferIsBounded
<1> QED
  BY Invariant, <1>1, PTL

\* After close() of the uploader no POST is started.
NoPostAfterClose == [][closed /\ drain' = "sending" => drain = "sending"]_vars

\* Once the uploader is closed the drain loop posts no other batch.
THEOREM NoPost == Spec => NoPostAfterClose
<1>1. Inv /\ [Next]_vars => (closed /\ drain' = "sending" => drain = "sending")
  BY Step DEF QueueStep, NoNewPost
<1> QED
  BY Invariant, <1>1, PTL DEF Spec, NoPostAfterClose

\* The uploader implements at-least-once delivery in the order of acceptance:
\* whatever fails, times out or is put back, no batch overtakes another.
THEOREM Delivers == Spec => DeliversInOrder
<1>1. Init => Delivery!Init
  BY ConcatEmptySeq, EmptySeq DEF Init, UploaderInit, Delivery!Init, Queue
<1>2. Inv /\ [Next]_vars => [Delivery!Next]_<<Queue, server>>
  BY Step DEF QueueStep
<1> QED
  BY <1>1, <1>2, Invariant, PTL DEF Spec, DeliversInOrder, Delivery!Spec

-----------------------------------------------------------------------------
(* What becomes of the queue and of the calls, exactly.                    *)

LEMMA ConcatRange ==
    ASSUME NEW S, NEW s \in Seq(S), NEW t \in Seq(S)
    PROVE  s \o t \in Seq(S) /\ Range(s \o t) = Range(s) \cup Range(t)
<1>1. /\ s \o t \in Seq(S) /\ Len(s \o t) = Len(s) + Len(t)
      /\ \A i \in 1..Len(s) + Len(t) :
            (s \o t)[i] = IF i <= Len(s) THEN s[i] ELSE t[i - Len(s)]
  BY ConcatProperties
<1>2. /\ Len(s) \in Nat /\ DOMAIN s = 1..Len(s)
      /\ Len(t) \in Nat /\ DOMAIN t = 1..Len(t)
  BY LenProperties
<1>3. DOMAIN (s \o t) = 1..Len(s) + Len(t)
  BY <1>1, LenProperties
<1>4. \A x \in Range(s \o t) : x \in Range(s) \/ x \in Range(t)
  <2> SUFFICES ASSUME NEW i \in 1..Len(s) + Len(t)
               PROVE  (s \o t)[i] \in Range(s) \/ (s \o t)[i] \in Range(t)
    BY <1>3 DEF Range
  <2>1. CASE i <= Len(s)
    BY <1>1, <1>2, <2>1 DEF Range
  <2>2. CASE ~(i <= Len(s))
    <3>1. i - Len(s) \in 1..Len(t) /\ (s \o t)[i] = t[i - Len(s)]
      BY <1>1, <1>2, <2>2
    <3> QED
      BY <1>2, <3>1 DEF Range
  <2> QED
    BY <2>1, <2>2
<1>5. \A x \in Range(s) : x \in Range(s \o t)
  <2> SUFFICES ASSUME NEW i \in 1..Len(s) PROVE s[i] \in Range(s \o t)
    BY <1>2 DEF Range
  <2>1. i \in 1..Len(s) + Len(t) /\ (s \o t)[i] = s[i]
    BY <1>1, <1>2
  <2> QED
    BY <1>3, <2>1 DEF Range
<1>6. \A x \in Range(t) : x \in Range(s \o t)
  <2> SUFFICES ASSUME NEW i \in 1..Len(t) PROVE t[i] \in Range(s \o t)
    BY <1>2 DEF Range
  <2>1. i + Len(s) \in 1..Len(s) + Len(t) /\ ~(i + Len(s) <= Len(s)) /\ i + Len(s) - Len(s) = i
    BY <1>2
  <2>2. (s \o t)[i + Len(s)] = t[i]
    BY <1>1, <2>1
  <2> QED
    BY <1>3, <2>1, <2>2 DEF Range
<1> QED
  BY <1>1, <1>4, <1>5, <1>6

\* enqueue() adds all of its events, unless it blocks or the uploader is closed.
LEMMA QueueAdded ==
    ASSUME QueueInv, NEW es \in Seq(Nat), Add(es),
           UNCHANGED <<closed, maxConsecutiveFailures, history>>
    PROVE  Queue' = IF closed \/ Blocks(es) THEN Queue ELSE Queue \o es
<1>1. Queue \in Seq(Nat) /\ pending \in Seq(Nat) /\ batch \in Seq(Nat)
  BY QueueIsSeq
<1>2. CASE (closed \/ es = <<>> \/ Blocks(es)) /\ UNCHANGED queueVars
  <2>1. Queue' = Queue
    BY <1>2 DEF Queue
  <2>2. es = <<>> => Queue \o es = Queue
    BY <1>1, ConcatEmptySeq
  <2> QED
    BY <1>2, <2>1, <2>2
<1>3. CASE ~closed /\ es # <<>> /\ ~Blocks(es) /\ Kick(pending \o es)
  <2>1. /\ pending \o es \in Seq(Nat)
        /\ Len(pending \o es) = Len(pending) + Len(es)
        /\ Len(pending) \in Nat /\ Len(es) \in Nat
    BY <1>1, ConcatNat
  <2>2. Len(pending \o es) =< MaxQueueSize
    BY <1>3, <2>1 DEF Blocks
  <2>3. Queue' = batch \o (pending \o es)
    BY <1>3, <2>1, <2>2, Kicking DEF Queue
  <2>4. (batch \o pending) \o es = batch \o (pending \o es)
    BY <1>1, ConcatOrder
  <2> QED
    BY <1>3, <2>3, <2>4 DEF Queue
<1> QED
  BY <1>2, <1>3 DEF Add

\* A batch that leaves for good leaves the pending events.
LEMMA QueueAdvanced ==
    ASSUME QueueInv, drain = "sending", Advance
    PROVE  /\ Queue' = pending /\ Range(Queue) = Range(batch) \cup Range(pending)
           /\ Queue = batch \o pending /\ pending \in Seq(Nat) /\ batch \in Seq(Nat)
<1>1. pending \in Seq(Nat) /\ batch \in Seq(Nat) /\ Len(pending) \in Nat
  BY QueueIsSeq, LenProperties
<1>2. Len(pending) =< MaxQueueSize + MaxBatchSize
  BY <1>1 DEF QueueInv, QueueBounds
<1>3. Iterated(pending)
  BY <1>1, <1>2, Iterating DEF Advance
<1> QED
  BY <1>1, <1>3, ConcatRange DEF Iterated, Queue

LEMMA QueueRetried ==
    ASSUME QueueInv, pending' = batch \o pending, batch' = <<>>
    PROVE  Queue' = Queue
<1>1. batch \o pending \in Seq(Nat)
  BY QueueIsSeq, ConcatNat
<1> QED
  BY <1>1, ConcatEmptySeq DEF Queue

LEMMA QueueSlept == ASSUME QueueInv, SleepEnds PROVE Queue' = Queue
<1>1. /\ pending \in Seq(Nat) /\ Len(pending) =< MaxQueueSize + MaxBatchSize
      /\ batch = <<>>
  BY QueueIsSeq DEF QueueInv, QueueBounds, SleepEnds
<1>2. Iterated(pending)
  BY <1>1, Iterating DEF SleepEnds
<1> QED
  BY <1>1, <1>2, ConcatEmptySeq DEF Queue, Iterated

\* The callers that are still in enqueue().
Holds(call) == call.phase \in {"blocked", "woken"}

SameCall(call, call2) ==
    /\ call2.events = call.events /\ call2.flushes = call.flushes
    /\ call2.waited = call.waited /\ call2.seen = call.seen

LEMMA CallsMoved ==
    ASSUME CallersTyped, NEW bs \in {<<>>, backpressureResolvers},
           NEW done \in {{}, flushResolvers}, Move(Range(bs), done)
    PROVE  /\ DOMAIN calls' = DOMAIN calls
           /\ \A c \in DOMAIN calls :
                /\ SameCall(calls[c], calls'[c])
                /\ Holds(calls'[c]) <=> Holds(calls[c])
                /\ calls'[c].phase = "done" =>
                      calls[c].phase = "done" \/ (calls[c].phase = "flushing" /\ done # {})
<1>1. /\ \A c \in DOMAIN calls : calls[c] \in Call
      /\ \A c \in DOMAIN calls : c \in done => calls[c].phase = "flushing" /\ done # {}
  BY CallNumbers DEF CallersTyped, CallersOK
<1>2. \A c \in DOMAIN calls : c \in Range(bs) => calls[c].phase = "blocked"
  <2>1. Range(<<>>) = {}
    BY DEF Range
  <2> QED
    BY <2>1 DEF CallersTyped, CallersOK
<1> DEFINE phase(c) == IF c \in Range(bs) THEN "woken"
                       ELSE IF c \in done THEN "done" ELSE calls[c].phase
<1>3. calls' = [c \in DOMAIN calls |-> [calls[c] EXCEPT !.phase = phase(c)]]
  BY DEF Move
<1>4. \A c \in DOMAIN calls : /\ calls'[c] = [calls[c] EXCEPT !.phase = phase(c)]
                              /\ calls'[c].phase = phase(c)
  <2> HIDE DEF phase
  <2> QED
    BY <1>1, <1>3 DEF Call
<1>5. DOMAIN calls' = DOMAIN calls
  BY <1>3
<1>6. ASSUME NEW c \in DOMAIN calls PROVE SameCall(calls[c], calls'[c])
  <2>1. calls[c] \in Call /\ calls'[c] = [calls[c] EXCEPT !.phase = phase(c)]
    BY <1>1, <1>4
  <2> HIDE DEF phase
  <2> QED
    BY <2>1 DEF Call, SameCall
<1>7. ASSUME NEW c \in DOMAIN calls
      PROVE  /\ Holds(calls'[c]) <=> Holds(calls[c])
             /\ calls'[c].phase = "done" =>
                   calls[c].phase = "done" \/ (calls[c].phase = "flushing" /\ done # {})
  <2>1. calls'[c].phase = phase(c)
    BY <1>4
  <2> QED
    BY <1>1, <1>2, <2>1 DEF Holds
<1> QED
  BY <1>5, <1>6, <1>7

LEMMA CallAppended ==
    ASSUME NEW cs \in Seq(Call), NEW call \in Call
    PROVE  /\ Append(cs, call) \in Seq(Call) /\ Len(Append(cs, call)) = Len(cs) + 1
           /\ DOMAIN Append(cs, call) = DOMAIN cs \cup {Len(cs) + 1}
           /\ Len(cs) + 1 \notin DOMAIN cs
           /\ \A c \in DOMAIN cs : Append(cs, call)[c] = cs[c]
           /\ Append(cs, call)[Len(cs) + 1] = call
<1>1. /\ Append(cs, call) \in Seq(Call) /\ Len(Append(cs, call)) = Len(cs) + 1
      /\ \A c \in 1..Len(cs) : Append(cs, call)[c] = cs[c]
      /\ Append(cs, call)[Len(cs) + 1] = call
  BY AppendProperties
<1>2. Len(cs) \in Nat /\ DOMAIN cs = 1..Len(cs) /\ DOMAIN Append(cs, call) = 1..Len(cs) + 1
  BY <1>1, LenProperties
<1> QED
  BY <1>1, <1>2

LEMMA CallChanged ==
    ASSUME NEW cs \in Seq(Call), NEW c \in DOMAIN cs, NEW phase
    PROVE  LET cs2 == [cs EXCEPT ![c].phase = phase]
           IN /\ DOMAIN cs2 = DOMAIN cs
              /\ SameCall(cs[c], cs2[c]) /\ cs2[c].phase = phase
              /\ \A d \in DOMAIN cs : d # c => cs2[d] = cs[d]
<1>1. cs[c] \in Call
  BY ElementOfSeq, LenProperties
<1>2. [cs EXCEPT ![c].phase = phase] = [cs EXCEPT ![c] = [cs[c] EXCEPT !.phase = phase]]
  OBVIOUS
<1>3. /\ [cs[c] EXCEPT !.phase = phase].phase = phase
      /\ SameCall(cs[c], [cs[c] EXCEPT !.phase = phase])
  BY <1>1 DEF Call, SameCall
<1> QED
  BY <1>2, <1>3

\* The call that a continuation belongs to.
LEMMA CallContinued ==
    ASSUME CallersTyped, micro # <<>>, Head(micro) # Closer
    PROVE  /\ Head(micro) \in DOMAIN calls /\ calls \in Seq(Call)
           /\ calls[Head(micro)].events \in Seq(Nat)
           /\ calls[Head(micro)].flushes \in BOOLEAN
           /\ Tail(micro) \in Seq(DOMAIN calls \cup {Closer})
<1>1. micro \in Seq(DOMAIN calls \cup {Closer}) /\ calls \in Seq(Call)
  BY DEF CallersTyped, CallersOK
<1>2. Head(micro) \in DOMAIN calls /\ Tail(micro) \in Seq(DOMAIN calls \cup {Closer})
  BY <1>1, HeadTailProperties
<1> QED
  BY <1>1, <1>2, CallNumbers DEF Call

-----------------------------------------------------------------------------
(* Who is answered.  A call that has left enqueue() finds each of its      *)
(* events queued or settled, and settled once it is done.                  *)

\* The events of the batches for which send() has returned.
Passed == answered \cup discarded

IsSettled(e, seen) == e \in Passed \/ (e \in dropped /\ droppedBatches > seen)

CallAnswered(c) ==
    calls[c].flushes /\ ~Holds(calls[c]) =>
        \A e \in Range(calls[c].events) :
            \/ IsSettled(e, calls[c].seen)
            \/ calls[c].phase # "done" /\ e \in Range(Queue)

AnswerInv ==
    /\ \A c \in DOMAIN calls : calls[c].seen =< droppedBatches
    /\ ~closed => \A c \in DOMAIN calls : CallAnswered(c)

\* What leaves the queue is settled, and stays so.
Kept ==
    /\ Passed \subseteq Passed' /\ dropped \subseteq dropped'
    /\ \A e \in Range(Queue) :
         \/ e \in Range(Queue') \/ e \in Passed'
         \/ e \in dropped' /\ droppedBatches' > droppedBatches

\* A call that was there, and one that is new or has got into the queue.
OldCall(c) ==
    /\ c \in DOMAIN calls /\ SameCall(calls[c], calls'[c])
    /\ \/ closed'
       \/ /\ Holds(calls[c]) => Holds(calls'[c])
          /\ \/ calls'[c].phase # "done" \/ calls[c].phase = "done"
             \/ Range(Queue') = {}

NewCallOK(c) ==
    calls'[c].seen =< droppedBatches' /\ (closed' \/ CallAnswered(c)')

LEMMA AnswerStep ==
    ASSUME CallersTyped, AnswerInv, closed => closed', closed' \/ Kept,
           droppedBatches \in Nat, droppedBatches' \in Nat,
           droppedBatches =< droppedBatches',
           \A c \in DOMAIN calls' : OldCall(c) \/ NewCallOK(c)
    PROVE  AnswerInv'
<1>1. ASSUME NEW c \in DOMAIN calls'
      PROVE  calls'[c].seen =< droppedBatches' /\ (~closed' => CallAnswered(c)')
  <2>1. CASE NewCallOK(c)
    BY <2>1 DEF NewCallOK
  <2>2. CASE OldCall(c)
    <3>1. /\ calls'[c].events = calls[c].events /\ calls'[c].flushes = calls[c].flushes
          /\ calls'[c].seen = calls[c].seen /\ c \in DOMAIN calls
      BY <2>2 DEF OldCall, SameCall
    <3>2. calls[c].seen \in Nat
      BY <3>1, CallNumbers DEF Call
    <3>3. calls[c].seen =< droppedBatches
      BY <3>1 DEF AnswerInv
    <3>4. calls'[c].seen =< droppedBatches'
      BY <3>1, <3>2, <3>3
    <3>5. ASSUME ~closed', calls'[c].flushes, ~Holds(calls'[c]),
                 NEW e \in Range(calls'[c].events)
          PROVE  \/ IsSettled(e, calls[c].seen)'
                 \/ calls'[c].phase # "done" /\ e \in Range(Queue')
      <4>1. /\ ~closed /\ Kept /\ ~Holds(calls[c])
            /\ \/ calls'[c].phase # "done" \/ calls[c].phase = "done"
               \/ Range(Queue') = {}
        BY <2>2, <3>5 DEF OldCall
      <4>2. \/ IsSettled(e, calls[c].seen)
            \/ calls[c].phase # "done" /\ e \in Range(Queue)
        BY <3>1, <3>5, <4>1 DEF AnswerInv, CallAnswered
      <4>3. CASE e \in Passed
        BY <4>1, <4>3 DEF Kept, IsSettled
      <4>4. CASE e \in dropped /\ droppedBatches > calls[c].seen
        <5>1. droppedBatches' > calls[c].seen
          BY <3>2, <4>4
        <5> QED
          BY <3>1, <4>1, <4>4, <5>1 DEF Kept, IsSettled
      <4>5. CASE calls[c].phase # "done" /\ e \in Range(Queue)
        <5>1. CASE e \in Range(Queue')
          BY <4>1, <4>5, <5>1
        <5>2. CASE e \in Passed'
          BY <5>2 DEF IsSettled
        <5>3. CASE e \in dropped' /\ droppedBatches' > droppedBatches
          <6>1. droppedBatches' > calls[c].seen
            BY <3>2, <3>3, <5>3
          <6> QED
            BY <3>1, <5>3, <6>1 DEF IsSettled
        <5> QED
          BY <4>1, <4>5, <5>1, <5>2, <5>3 DEF Kept
      <4> QED
        BY <4>2, <4>3, <4>4, <4>5 DEF IsSettled
    <3> QED
      BY <3>1, <3>4, <3>5 DEF CallAnswered, IsSettled
  <2> QED
    BY <2>1, <2>2
<1> QED
  BY <1>1 DEF AnswerInv

\* Nothing of the calls or of the uploader's history changes.
LEMMA AnswerSame ==
    ASSUME CallersTyped, AnswerInv, QueueTyped, UNCHANGED <<calls, closed, history>>,
           \A e \in Range(Queue) : e \in Range(Queue')
    PROVE  AnswerInv'
<1>1. Kept
  BY DEF Kept, Passed
<1>2. \A c \in DOMAIN calls : SameCall(calls[c], calls[c])
  BY DEF SameCall
<1>3. \A c \in DOMAIN calls' : OldCall(c)
  BY <1>2 DEF OldCall
<1>4. droppedBatches \in Nat /\ droppedBatches' = droppedBatches /\ closed' = closed
  BY DEF QueueTyped
<1>5. droppedBatches' \in Nat /\ droppedBatches =< droppedBatches'
  BY <1>4
<1> QED
  BY <1>1, <1>3, <1>4, <1>5, AnswerStep

LEMMA RangeAdded ==
    ASSUME QueueInv, NEW es \in Seq(Nat), Add(es),
           UNCHANGED <<closed, maxConsecutiveFailures, history>>
    PROVE  Range(Queue') = Range(Queue) \cup
                           (IF closed \/ Blocks(es) THEN {} ELSE Range(es))
<1>1. Queue \in Seq(Nat)
  BY QueueIsSeq
<1>2. Range(Queue \o es) = Range(Queue) \cup Range(es)
  BY <1>1, ConcatRange
<1>3. Queue' = IF closed \/ Blocks(es) THEN Queue ELSE Queue \o es
  BY QueueAdded
<1>4. CASE closed \/ Blocks(es)
  BY <1>3, <1>4
<1>5. CASE ~(closed \/ Blocks(es))
  BY <1>2, <1>3, <1>5
<1> QED
  BY <1>4, <1>5

\* enqueue() of es by calls that are now in place.
LEMMA AnswerAdded ==
    ASSUME QueueInv, CallersTyped, AnswerInv, NEW es \in Seq(Nat), Add(es),
           UNCHANGED <<closed, maxConsecutiveFailures, history>>,
           \A c \in DOMAIN calls' : OldCall(c) \/ NewCallOK(c)
    PROVE  AnswerInv'
<1>1. Queue \in Seq(Nat)
  BY QueueIsSeq
<1>2. \A e \in Range(Queue) : e \in Range(Queue')
  BY RangeAdded
<1>3. /\ Kept /\ droppedBatches \in Nat /\ droppedBatches' = droppedBatches
      /\ closed' = closed
  BY <1>2 DEF Kept, QueueInv, QueueTyped, Passed
<1>4. droppedBatches' \in Nat /\ droppedBatches =< droppedBatches'
  BY <1>3
<1> QED
  BY <1>3, <1>4, AnswerStep

\* A call of enqueue() that has not been entered before is blocked, or queued.
LEMMA AnswerNewCall ==
    ASSUME QueueInv, NEW es \in Seq(Nat), NEW flushes \in BOOLEAN, Add(es),
           UNCHANGED <<closed, maxConsecutiveFailures, history>>,
           NEW c, calls'[c] = NewCall(es, flushes)
    PROVE  NewCallOK(c)
<1>1. /\ calls'[c].events = es /\ calls'[c].flushes = flushes
      /\ calls'[c].seen = droppedBatches
      /\ calls'[c].phase = IF Blocks(es) THEN "blocked"
                           ELSE IF flushes THEN "entered" ELSE "done"
  BY DEF NewCall
<1>2. droppedBatches' = droppedBatches /\ droppedBatches \in Nat
  BY DEF QueueInv, QueueTyped
<1>3. CASE Blocks(es)
  BY <1>1, <1>2, <1>3 DEF NewCallOK, CallAnswered, Holds
<1>4. CASE ~Blocks(es) /\ ~closed
  BY <1>1, <1>2, <1>4, RangeAdded DEF NewCallOK, CallAnswered
<1>5. CASE closed
  BY <1>1, <1>2, <1>5 DEF NewCallOK
<1> QED
  BY <1>3, <1>4, <1>5

LEMMA AnswerUnawaited ==
    ASSUME QueueInv, CallersTyped, AnswerInv, NEW es \in Seq(Nat), Add(es),
           NEW flushes \in BOOLEAN,
           calls' = Append(calls, NewCall(es, flushes)),
           UNCHANGED <<closed, maxConsecutiveFailures, history>>
    PROVE  AnswerInv'
<1> DEFINE call == NewCall(es, flushes)
<1>1. call \in Call /\ calls \in Seq(Call)
  BY NewCallTyped DEF QueueInv, CallersTyped, CallersOK
<1> HIDE DEF call
<1>5. PICK k : k = Len(calls) + 1
  OBVIOUS
<1>2. /\ DOMAIN calls' = DOMAIN calls \cup {k}
      /\ \A c \in DOMAIN calls : calls'[c] = calls[c]
      /\ calls'[k] = call
  BY <1>1, <1>5, CallAppended DEF call
<1>3. \A c \in DOMAIN calls : OldCall(c)
  BY <1>2 DEF OldCall, SameCall
<1>4. NewCallOK(k)
  BY <1>2, AnswerNewCall DEF call
<1> QED
  BY <1>2, <1>3, <1>4, AnswerAdded

\* flush() of the transport: what it waits for is the queue it leaves.
LEMMA AnswerFlush ==
    ASSUME QueueInv, CallersTyped, AnswerInv, streamEventBuffer \in Seq(Nat), Flush
    PROVE  AnswerInv'
<1> DEFINE es == streamEventBuffer
           cs == IF Blocks(es) THEN Append(calls, NewCall(es, FALSE)) ELSE calls
           done == pending' = <<>> /\ drain' = "idle"
           call == [NewCall(<<>>, TRUE) EXCEPT
                      !.events = batch' \o pending',
                      !.phase = IF done THEN "done" ELSE "flushing"]
<1>1. /\ Add(es) /\ UNCHANGED <<closed, maxConsecutiveFailures, history>>
      /\ calls' = Append(cs, call)
  BY DEF Flush
<1>2. QueueInv' /\ Queue' \in Seq(Nat)
  <2>1. QueueInv'
    BY <1>1, Adding
  <2> QED
    BY <2>1, ConcatNat DEF QueueInv, QueueTyped, Queue
<1>3. /\ call \in Call /\ call.events = Queue' /\ call.flushes = TRUE
      /\ call.seen = droppedBatches
      /\ call.phase = IF done THEN "done" ELSE "flushing"
  <2>1. NewCall(<<>>, TRUE) \in Call
    BY EmptySeq, NewCallTyped DEF QueueInv
  <2>2. /\ NewCall(<<>>, TRUE).flushes = TRUE
        /\ NewCall(<<>>, TRUE).seen = droppedBatches
    BY DEF NewCall
  <2> HIDE DEF done
  <2> QED
    BY <1>2, <2>1, <2>2 DEF Call, Queue
<1>4. done => Range(Queue') = {}
  <2> SUFFICES ASSUME done PROVE Range(Queue') = {}
    OBVIOUS
  <2>1. batch' = <<>> /\ pending' = <<>>
    BY <1>2 DEF QueueInv, QueueBounds
  <2>2. Queue' = <<>>
    BY <2>1, EmptySeq, ConcatEmptySeq DEF Queue
  <2> QED
    BY <2>2 DEF Range
<1>5. /\ cs \in Seq(Call) /\ DOMAIN calls \subseteq DOMAIN cs
      /\ \A c \in DOMAIN calls : cs[c] = calls[c]
      /\ \A c \in DOMAIN cs \ DOMAIN calls : cs[c] = NewCall(es, FALSE)
  <2>1. calls \in Seq(Call) /\ NewCall(es, FALSE) \in Call
    BY NewCallTyped DEF QueueInv, CallersTyped, CallersOK
  <2> DEFINE one == NewCall(es, FALSE)
  <2>2. CASE Blocks(es)
    <3>1. cs = Append(calls, one) /\ one \in Call
      BY <2>1, <2>2
    <3> HIDE DEF one, cs
    <3>2. /\ cs \in Seq(Call) /\ DOMAIN cs = DOMAIN calls \cup {Len(calls) + 1}
          /\ \A c \in DOMAIN calls : cs[c] = calls[c]
          /\ cs[Len(calls) + 1] = one
      BY <2>1, <3>1, CallAppended
    <3>3. \A c \in DOMAIN cs \ DOMAIN calls : cs[c] = one
      BY <3>2
    <3> QED
      BY <3>2, <3>3 DEF one
  <2>3. CASE ~Blocks(es)
    BY <2>1, <2>3
  <2> QED
    BY <2>2, <2>3
<1> HIDE DEF call, cs, es, done
<1>0. PICK k : k = Len(cs) + 1
  OBVIOUS
<1>6. /\ DOMAIN calls' = DOMAIN cs \cup {k}
      /\ \A c \in DOMAIN cs : calls'[c] = cs[c]
      /\ calls'[k] = call
  BY <1>0, <1>1, <1>3, <1>5, CallAppended
<1>7. ASSUME NEW c \in DOMAIN calls PROVE OldCall(c)
  BY <1>5, <1>6 DEF OldCall, SameCall
<1>8. ASSUME NEW c \in DOMAIN cs \ DOMAIN calls PROVE NewCallOK(c)
  BY <1>1, <1>5, <1>6, AnswerNewCall DEF es
<1>9. NewCallOK(k)
  <2>1. droppedBatches' = droppedBatches /\ droppedBatches \in Nat
    BY <1>1 DEF QueueInv, QueueTyped
  <2>2. calls'[k].seen =< droppedBatches'
    BY <1>3, <1>6, <2>1
  <2>3. calls'[k].events = Queue' /\ calls'[k].phase = IF done THEN "done" ELSE "flushing"
    BY <1>3, <1>6
  <2>4. CallAnswered(k)'
    BY <1>4, <2>3 DEF CallAnswered
  <2> QED
    BY <2>2, <2>4 DEF NewCallOK
<1> QED
  BY <1>1, <1>6, <1>7, <1>8, <1>9, AnswerAdded DEF es

\* A batch leaves: its events are settled, and who waited for them returns.
LEMMA AnswerReleased ==
    ASSUME CallersTyped, NEW bs \in {<<>>, backpressureResolvers},
           Release(bs, Flushed(pending)), pending = <<>> => Range(Queue') = {}
    PROVE  \A c \in DOMAIN calls' : OldCall(c)
<1>1. Flushed(pending) \in {{}, flushResolvers} /\ Move(Range(bs), Flushed(pending))
  BY DEF Flushed, Release
<1>2. Flushed(pending) # {} => pending = <<>>
  BY DEF Flushed
<1> QED
  BY <1>1, <1>2, CallsMoved DEF OldCall

LEMMA AnswerAdvances ==
    ASSUME QueueInv, CallersTyped, AnswerInv, drain = "sending", Advance, closed' = closed,
           droppedBatches' \in Nat, droppedBatches =< droppedBatches',
           Passed \subseteq Passed', dropped \subseteq dropped',
           \/ Range(batch) \subseteq Passed'
           \/ Range(batch) \subseteq dropped' /\ droppedBatches' > droppedBatches
    PROVE  AnswerInv'
<1>1. Queue' = pending /\ Range(Queue) = Range(batch) \cup Range(pending)
  BY QueueAdvanced
<1>2. Kept
  BY <1>1 DEF Kept
<1>3. pending = <<>> => Range(Queue') = {}
  BY <1>1 DEF Range
<1>4. \A c \in DOMAIN calls' : OldCall(c)
  BY <1>3, AnswerReleased DEF Advance
<1>5. droppedBatches \in Nat
  BY DEF QueueInv, QueueTyped
<1> QED
  BY <1>2, <1>4, <1>5, AnswerStep

LEMMA AnswerSend == ASSUME QueueInv, CallersTyped, AnswerInv, Send PROVE AnswerInv'
<1>0. droppedBatches \in Nat
  BY DEF QueueInv, QueueTyped
<1>1. CASE SendSucceeds \/ SendDiscards
  <2>1. /\ drain = "sending" /\ Advance /\ closed' = closed
        /\ droppedBatches' = droppedBatches /\ dropped' = dropped
        /\ Passed' = Passed \cup Range(batch)
    BY <1>1 DEF SendSucceeds, SendDiscards, Passed
  <2>2. /\ droppedBatches' \in Nat /\ droppedBatches =< droppedBatches'
        /\ Passed \subseteq Passed' /\ dropped \subseteq dropped'
        /\ Range(batch) \subseteq Passed'
    BY <1>0, <2>1
  <2> QED
    BY <2>1, <2>2, AnswerAdvances
<1>2. CASE SendThrows /\ Advance /\ dropped' = dropped \cup Range(batch)
           /\ droppedBatches' = droppedBatches + 1
  <2>1. /\ drain = "sending" /\ Advance /\ closed' = closed /\ Passed' = Passed
        /\ dropped' = dropped \cup Range(batch)
        /\ droppedBatches' = droppedBatches + 1
    BY <1>2 DEF SendThrows, Passed
  <2>2. /\ droppedBatches' \in Nat /\ droppedBatches =< droppedBatches'
        /\ droppedBatches' > droppedBatches
    BY <1>0, <2>1
  <2>3. /\ Passed \subseteq Passed' /\ dropped \subseteq dropped'
        /\ Range(batch) \subseteq dropped'
    BY <2>1
  <2> QED
    BY <2>1, <2>2, <2>3, AnswerAdvances
<1>3. CASE /\ SendThrows
           /\ pending' = batch \o pending /\ batch' = <<>>
           /\ drain' = "sleeping" /\ failures' = failures + 1
           /\ UNCHANGED <<dropped, droppedBatches, callVars>>
  <2>1. Queue' = Queue
    BY <1>3, QueueRetried
  <2>2. /\ Passed' = Passed /\ dropped' = dropped /\ calls' = calls
        /\ droppedBatches' = droppedBatches /\ closed' = closed
    BY <1>3 DEF SendThrows, Passed
  <2> QED
    BY <2>1, <2>2 DEF AnswerInv, CallAnswered, IsSettled
<1> QED
  BY <1>1, <1>2, <1>3 DEF Send, SendThrows

LEMMA AnswerSleep == ASSUME QueueInv, CallersTyped, AnswerInv, SleepEnds PROVE AnswerInv'
<1>1. /\ Queue' = Queue /\ droppedBatches \in Nat /\ droppedBatches' = droppedBatches
      /\ Passed' = Passed /\ dropped' = dropped /\ closed' = closed
  BY QueueSlept DEF SleepEnds, QueueInv, QueueTyped, Passed
<1>2. Kept /\ droppedBatches' \in Nat /\ droppedBatches =< droppedBatches'
  BY <1>1 DEF Kept
<1>3. pending = <<>> => Range(Queue') = {}
  <2>1. batch = <<>>
    BY DEF SleepEnds, QueueInv, QueueBounds
  <2>2. pending = <<>> => Queue = <<>>
    BY <2>1, EmptySeq, ConcatEmptySeq DEF Queue
  <2> QED
    BY <1>1, <2>2 DEF Range
<1>4. \A c \in DOMAIN calls' : OldCall(c)
  BY <1>3, AnswerReleased DEF SleepEnds
<1> QED
  BY <1>1, <1>2, <1>4, AnswerStep

LEMMA AnswerClose == ASSUME QueueInv, CallersTyped, AnswerInv, close PROVE AnswerInv'
<1>1. /\ closed' /\ droppedBatches' = droppedBatches /\ droppedBatches \in Nat
      /\ Move(Range(backpressureResolvers), flushResolvers)
  BY DEF close, QueueInv, QueueTyped
<1>2. \A c \in DOMAIN calls' : OldCall(c)
  BY <1>1, CallsMoved DEF OldCall
<1>3. droppedBatches' \in Nat /\ droppedBatches =< droppedBatches'
  BY <1>1
<1> QED
  BY <1>1, <1>2, <1>3, AnswerStep

\* A released caller gets into the queue, or is blocked again.
LEMMA AnswerResume ==
    ASSUME QueueInv, CallersTyped, AnswerInv, NEW c \in DOMAIN calls,
           calls[c].events \in Seq(Nat), calls[c].flushes \in BOOLEAN, Resume(c)
    PROVE  AnswerInv'
<1> DEFINE es == calls[c].events
           phase == NewCall(es, calls[c].flushes).phase
<1>1. /\ Add(es) /\ UNCHANGED <<closed, maxConsecutiveFailures, history>>
      /\ calls' = [calls EXCEPT ![c].phase = phase]
  BY DEF Resume
<1>2. phase = IF Blocks(es) THEN "blocked"
              ELSE IF calls[c].flushes THEN "entered" ELSE "done"
  BY DEF NewCall
<1>3. calls \in Seq(Call) /\ es \in Seq(Nat)
  BY DEF CallersTyped, CallersOK
<1> HIDE DEF phase, es
<1>4. /\ DOMAIN calls' = DOMAIN calls
      /\ SameCall(calls[c], calls'[c]) /\ calls'[c].phase = phase
      /\ \A d \in DOMAIN calls : d # c => calls'[d] = calls[d]
  BY <1>1, <1>3, CallChanged
<1>5. ASSUME NEW d \in DOMAIN calls, d # c PROVE OldCall(d)
  BY <1>4, <1>5 DEF OldCall, SameCall
<1>6. NewCallOK(c)
  <2>1. /\ calls'[c].events = es /\ calls'[c].flushes = calls[c].flushes
        /\ calls'[c].seen = calls[c].seen /\ calls[c].seen =< droppedBatches
        /\ droppedBatches' = droppedBatches /\ closed' = closed
    BY <1>1, <1>4 DEF SameCall, AnswerInv, es
  <2>2. CASE closed
    BY <2>1, <2>2 DEF NewCallOK
  <2>3. CASE Blocks(es)
    BY <1>2, <1>4, <2>1, <2>3 DEF NewCallOK, CallAnswered, Holds
  <2>4. CASE ~closed /\ ~Blocks(es)
    <3>1. Range(es) \subseteq Range(Queue')
      BY <1>1, <1>3, <2>4, RangeAdded
    <3> QED
      BY <1>2, <1>4, <2>1, <2>4, <3>1 DEF NewCallOK, CallAnswered
  <2> QED
    BY <2>2, <2>3, <2>4
<1> QED
  BY <1>1, <1>3, <1>4, <1>5, <1>6, AnswerAdded

\* The uploader's flush() returns at once only when nothing is queued.
LEMMA AnswerFlushes ==
    ASSUME QueueInv, CallersTyped, AnswerInv, NEW c \in DOMAIN calls, flush(c)
    PROVE  AnswerInv'
<1> DEFINE phase == IF IsDrained THEN "done" ELSE "flushing"
<1>1. /\ Kick(pending) /\ UNCHANGED <<closed, maxConsecutiveFailures, history>>
      /\ calls' = [calls EXCEPT ![c].phase = phase] /\ calls[c].phase = "entered"
  BY DEF flush
<1>2. Queue' = Queue /\ Queue \in Seq(Nat)
  BY <1>1, QueueIsSeq, Kicking DEF Queue
<1>3. calls \in Seq(Call)
  BY DEF CallersTyped, CallersOK
<1>4. phase = "done" => Range(Queue') = {}
  <2> SUFFICES ASSUME IsDrained PROVE Range(Queue) = {}
    BY <1>2
  <2>1. pending = <<>> /\ batch = <<>>
    BY DEF IsDrained, QueueInv, QueueBounds
  <2>2. Queue = <<>>
    BY <2>1, EmptySeq, ConcatEmptySeq DEF Queue
  <2> QED
    BY <2>2 DEF Range
<1> HIDE DEF phase
<1>5. /\ DOMAIN calls' = DOMAIN calls
      /\ SameCall(calls[c], calls'[c]) /\ calls'[c].phase = phase
      /\ \A d \in DOMAIN calls : d # c => calls'[d] = calls[d]
  BY <1>1, <1>3, CallChanged
<1>6. ~Holds(calls[c])
  BY <1>1 DEF Holds
<1>7. ASSUME NEW d \in DOMAIN calls PROVE OldCall(d)
  BY <1>4, <1>5, <1>6 DEF OldCall, SameCall
<1>8. /\ Kept /\ droppedBatches \in Nat /\ droppedBatches' = droppedBatches
      /\ closed' = closed
  BY <1>1, <1>2 DEF Kept, QueueInv, QueueTyped, Passed
<1>9. droppedBatches' \in Nat /\ droppedBatches =< droppedBatches'
  BY <1>8
<1> QED
  BY <1>5, <1>7, <1>8, <1>9, AnswerStep

\* No caller is told that it may go on while one of its events is neither
\* answered nor counted as lost.
LEMMA AnswerNext == ASSUME Inv, AnswerInv, [Next]_vars PROVE AnswerInv'
<1>1. QueueInv /\ QueueTyped /\ CallersTyped /\ StreamTyped
  BY InvParts DEF QueueInv
<1>2. streamEventBuffer \in Seq(Nat)
  BY <1>1 DEF StreamTyped
<1>3. ASSUME UNCHANGED <<queueVars, calls, closed, history>> PROVE AnswerInv'
  BY <1>3 DEF AnswerInv, CallAnswered, IsSettled, Queue, Passed
<1>4. CASE WriteStreamEvent \/ Close \/ GraceExpires \/ UNCHANGED vars
  BY <1>3, <1>4 DEF WriteStreamEvent, Close, GraceExpires, vars
<1>5. ASSUME NEW n \in 0..MaxMessages, Write(n) PROVE AnswerInv'
  <2>1. streamEventBuffer \o NewMessages(n) \in Seq(Nat)
    BY <1>1, MessagesTyped
  <2> QED
    BY <1>1, <1>5, <2>1, AnswerUnawaited DEF Write, enqueue
<1>6. CASE Flush
  BY <1>1, <1>2, <1>6, AnswerFlush
<1>7. CASE FlushStreamEvents
  <2>1. /\ Add(streamEventBuffer) /\ UNCHANGED <<closed, maxConsecutiveFailures, history>>
        /\ calls' = IF Blocks(streamEventBuffer)
                    THEN Append(calls, NewCall(streamEventBuffer, FALSE)) ELSE calls
    BY <1>7 DEF FlushStreamEvents, enqueueUnawaited
  <2>2. CASE Blocks(streamEventBuffer)
    BY <1>1, <1>2, <2>1, <2>2, AnswerUnawaited
  <2>3. CASE ~Blocks(streamEventBuffer)
    <3>1. \A e \in Range(Queue) : e \in Range(Queue')
      BY <1>1, <1>2, <2>1, RangeAdded
    <3> QED
      BY <1>1, <2>1, <2>3, <3>1, AnswerSame
  <2> QED
    BY <2>2, <2>3
<1>8. CASE Uploader
  <2>1. CASE Send
    BY <1>1, <2>1, AnswerSend
  <2>2. CASE SleepEnds
    BY <1>1, <2>2, AnswerSleep
  <2>3. CASE close
    BY <1>1, <2>3, AnswerClose
  <2>4. CASE /\ micro # <<>> /\ Head(micro) # Closer
             /\ Resume(Head(micro)) \/ flush(Head(micro))
    BY <1>1, <2>4, CallContinued, AnswerResume, AnswerFlushes
  <2> QED
    BY <1>8, <2>1, <2>2, <2>3, <2>4 DEF Uploader, RunMicro
<1> QED
  BY <1>4, <1>5, <1>6, <1>7, <1>8 DEF Next, Application

LEMMA AnswerInit == Init => AnswerInv
<1> SUFFICES ASSUME Init PROVE AnswerInv
  OBVIOUS
<1>1. DOMAIN calls = {}
  BY DEF Init, UploaderInit
<1> QED
  BY <1>1 DEF AnswerInv

\* What was answered with 2xx has arrived, and stays so.
ArrivedInv == answered \subseteq Range(server)

LEMMA ArrivedNext == ASSUME Inv, ArrivedInv, [Next]_vars PROVE ArrivedInv'
<1>1. server \in Seq(Nat) /\ batch \in Seq(Nat)
  BY InvParts, QueueIsSeq DEF QueueInv, QueueTyped
<1>2. Arrives => Range(server') = Range(server) \cup Range(batch)
  BY <1>1, ConcatRange DEF Arrives
<1>3. CASE Arrives /\ answered' = answered \cup Range(batch)
  BY <1>2, <1>3 DEF ArrivedInv
<1>4. CASE (Arrives \/ UNCHANGED server) /\ answered' = answered
  BY <1>2, <1>4 DEF ArrivedInv
<1>5. CASE Application \/ FlushStreamEvents \/ GraceExpires \/ UNCHANGED vars
  BY <1>4, <1>5 DEF Application, WriteStreamEvent, Write, Flush, Close, enqueue,
     FlushStreamEvents, enqueueUnawaited, GraceExpires, vars, uploaderVars, history
<1>6. CASE Uploader
  <2>1. CASE SendSucceeds
    BY <1>3, <2>1 DEF SendSucceeds
  <2>2. CASE SendDiscards
    BY <1>4, <2>2 DEF SendDiscards
  <2>3. CASE SendThrows
    BY <1>4, <2>3 DEF SendThrows
  <2>4. CASE SleepEnds
    BY <1>4, <2>4 DEF SleepEnds, history
  <2>5. CASE RunMicro
    BY <1>4, <2>5 DEF RunMicro, Resume, flush, close, history
  <2> QED
    BY <1>6, <2>1, <2>2, <2>3, <2>4, <2>5 DEF Uploader, Send
<1> QED
  BY <1>5, <1>6 DEF Next

LEMMA ArrivedInit == Init => ArrivedInv
BY DEF Init, UploaderInit, ArrivedInv

\* The events of a write() or flush() that has returned before the uploader is
\* closed are settled: each is on the server, or the count of dropped batches
\* has grown since the call began, or postOnce() discarded it without a word
\* (a 4xx, no token).  For every configuration, however often POSTs fail.
THEOREM ReturnsSettled == Spec => []WriteIsSettled
<1>1. Inv /\ AnswerInv /\ ArrivedInv => WriteIsSettled
  <2> SUFFICES ASSUME Inv, AnswerInv, ArrivedInv, ~closed, NEW call \in Range(calls),
                      call.phase = "done", call.flushes, NEW e \in Range(call.events)
               PROVE  \/ e \in Range(server)
                      \/ e \in dropped /\ droppedBatches > call.seen
                      \/ e \in discarded
    BY DEF WriteIsSettled
  <2>1. PICK c \in DOMAIN calls : call = calls[c]
    BY DEF Range
  <2>2. ~Holds(calls[c])
    BY <2>1 DEF Holds
  <2>3. e \in answered \/ e \in discarded \/ (e \in dropped /\ droppedBatches > call.seen)
    BY <2>1, <2>2 DEF AnswerInv, CallAnswered, IsSettled, Passed
  <2> QED
    BY <2>3 DEF ArrivedInv
<1>2. Inv /\ AnswerInv /\ [Next]_vars => AnswerInv'
  BY AnswerNext
<1>3. Inv /\ ArrivedInv /\ [Next]_vars => ArrivedInv'
  BY ArrivedNext
<1> QED
  BY <1>1, <1>2, <1>3, AnswerInit, ArrivedInit, Invariant, PTL DEF Spec

-----------------------------------------------------------------------------
(* Where the messages are.  Behind a message comes a later one, or one     *)
(* that its caller's backpressure has held up.                             *)

Fine(s, O) ==
    \A i, j \in DOMAIN s : i < j => s[i] # s[j] /\ (s[i] < s[j] \/ s[j] \in O)

Fits(S, T, O) == \A x \in S, y \in T : x # y /\ (x < y \/ y \in O)

\* The queue Q, the buffer B, the settled messages S, those that blocked
\* callers hold and those that were ever held, out of n messages.
OrderOK(Q, B, S, H, O, n) ==
    /\ Fine(Q, O) /\ Fine(B, {})
    /\ Fits(S, Range(Q), O)
    /\ Fits(S \cup Range(Q) \cup H, Range(B), {})
    /\ H \subseteq O /\ H \cap (S \cup Range(Q)) = {}
    /\ S \cup Range(Q) \cup H \cup Range(B) \subseteq 1..n

Covers(Q, B, S, H, n) == 1..n \subseteq Range(Q) \cup Range(B) \cup S \cup H

LEMMA FineConcat ==
    ASSUME NEW s \in Seq(Nat), NEW t \in Seq(Nat), NEW O
    PROVE  Fine(s \o t, O) <=>
             Fine(s, O) /\ Fine(t, O) /\ Fits(Range(s), Range(t), O)
<1>1. /\ s \o t \in Seq(Nat) /\ Len(s \o t) = Len(s) + Len(t)
      /\ \A i \in 1..Len(s) + Len(t) :
            (s \o t)[i] = IF i <= Len(s) THEN s[i] ELSE t[i - Len(s)]
  BY ConcatProperties
<1>2. /\ Len(s) \in Nat /\ DOMAIN s = 1..Len(s)
      /\ Len(t) \in Nat /\ DOMAIN t = 1..Len(t)
      /\ DOMAIN (s \o t) = 1..Len(s) + Len(t)
  BY <1>1, LenProperties
<1> DEFINE u == s \o t
<1>3. /\ \A i \in DOMAIN s : i \in DOMAIN u /\ u[i] = s[i]
      /\ \A i \in DOMAIN t : i + Len(s) \in DOMAIN u /\ u[i + Len(s)] = t[i]
  <2>1. \A i \in DOMAIN s : i \in 1..Len(s) + Len(t) /\ i <= Len(s)
    BY <1>2
  <2>2. \A i \in DOMAIN t : /\ i + Len(s) \in 1..Len(s) + Len(t)
                            /\ ~(i + Len(s) <= Len(s)) /\ i + Len(s) - Len(s) = i
    BY <1>2
  <2> QED
    BY <1>1, <1>2, <2>1, <2>2
<1>4. \A i \in DOMAIN u :
        \/ i \in DOMAIN s /\ u[i] = s[i]
        \/ i > Len(s) /\ i - Len(s) \in DOMAIN t /\ u[i] = t[i - Len(s)]
  BY <1>1, <1>2
<1> HIDE DEF u
<1>5. ASSUME Fine(u, O)
      PROVE  Fine(s, O) /\ Fine(t, O) /\ Fits(Range(s), Range(t), O)
  <2>1. Fine(s, O)
    BY <1>3, <1>5 DEF Fine
  <2>2. Fine(t, O)
    <3> SUFFICES ASSUME NEW i \in DOMAIN t, NEW j \in DOMAIN t, i < j
                 PROVE  t[i] # t[j] /\ (t[i] < t[j] \/ t[j] \in O)
      BY DEF Fine
    <3>1. i + Len(s) < j + Len(s)
      BY <1>2
    <3> QED
      BY <1>3, <1>5, <3>1 DEF Fine
  <2>3. ASSUME NEW i \in DOMAIN s, NEW j \in DOMAIN t
        PROVE  s[i] # t[j] /\ (s[i] < t[j] \/ t[j] \in O)
    <3>1. i < j + Len(s)
      BY <1>2
    <3> QED
      BY <1>3, <1>5, <3>1 DEF Fine
  <2> QED
    BY <2>1, <2>2, <2>3 DEF Fits, Range
<1>6. ASSUME Fine(s, O), Fine(t, O), Fits(Range(s), Range(t), O)
      PROVE  Fine(u, O)
  <2> SUFFICES ASSUME NEW i \in DOMAIN u, NEW j \in DOMAIN u, i < j
               PROVE  u[i] # u[j] /\ (u[i] < u[j] \/ u[j] \in O)
    BY DEF Fine
  <2>1. i \in Nat /\ j \in Nat
    BY <1>2 DEF u
  <2>2. CASE i \in DOMAIN s /\ u[i] = s[i] /\ j \in DOMAIN s /\ u[j] = s[j]
    BY <1>6, <2>2 DEF Fine
  <2>3. CASE /\ i \in DOMAIN s /\ u[i] = s[i]
             /\ j - Len(s) \in DOMAIN t /\ u[j] = t[j - Len(s)]
    BY <1>6, <2>3 DEF Fits, Range
  <2>4. CASE /\ i > Len(s) /\ i - Len(s) \in DOMAIN t /\ u[i] = t[i - Len(s)]
             /\ j - Len(s) \in DOMAIN t /\ u[j] = t[j - Len(s)]
    <3>1. i - Len(s) < j - Len(s)
      BY <1>2, <2>1
    <3> QED
      BY <1>6, <2>4, <3>1 DEF Fine
  <2>5. ~(i > Len(s) /\ j \in DOMAIN s)
    BY <1>2, <2>1
  <2> QED
    BY <1>4, <2>2, <2>3, <2>4, <2>5
<1> QED
  BY <1>5, <1>6 DEF u

\* What an empty buffer, fewer held messages or more messages leave.
LEMMA OrderLess ==
    ASSUME NEW Q, NEW B, NEW S, NEW H, NEW O, NEW n \in Nat, OrderOK(Q, B, S, H, O, n),
           NEW B2 \in {B, <<>>}, NEW H2 \in SUBSET H, NEW n2 \in Nat, n =< n2
    PROVE  OrderOK(Q, B2, S, H2, O, n2)
<1>1. Range(<<>>) = {} /\ Fine(<<>>, {})
  BY DEF Range, Fine
<1>2. Range(B2) \subseteq Range(B) /\ Fine(B2, {})
  BY <1>1 DEF OrderOK
<1>3. 1..n \subseteq 1..n2
  OBVIOUS
<1>4. Fits(S \cup Range(Q) \cup H2, Range(B2), {})
  BY <1>2 DEF OrderOK, Fits
<1>5. S \cup Range(Q) \cup H2 \cup Range(B2) \subseteq 1..n2
  BY <1>2, <1>3 DEF OrderOK
<1>6. H2 \subseteq O /\ H2 \cap (S \cup Range(Q)) = {}
  BY DEF OrderOK
<1> QED
  BY <1>2, <1>4, <1>5, <1>6 DEF OrderOK

\* Events that come behind the queue.
LEMMA OrderAdd ==
    ASSUME NEW Q \in Seq(Nat), NEW B, NEW S, NEW H, NEW O, NEW n, OrderOK(Q, B, S, H, O, n),
           NEW es \in Seq(Nat), Fine(es, O), Fits(S \cup Range(Q), Range(es), O),
           Fits(Range(es), Range(B), {}), H \cap Range(es) = {}, Range(es) \subseteq 1..n
    PROVE  OrderOK(Q \o es, B, S, H, O, n)
<1>1. Range(Q \o es) = Range(Q) \cup Range(es)
  BY ConcatRange
<1>2. Fine(Q \o es, O)
  <2>1. Fits(Range(Q), Range(es), O)
    BY DEF Fits
  <2> QED
    BY <2>1, FineConcat DEF OrderOK
<1>3. Fits(S, Range(Q) \cup Range(es), O)
  BY DEF OrderOK, Fits
<1>4. Fits(S \cup (Range(Q) \cup Range(es)) \cup H, Range(B), {})
  BY DEF OrderOK, Fits
<1>5. /\ H \subseteq O /\ H \cap (S \cup (Range(Q) \cup Range(es))) = {}
      /\ S \cup (Range(Q) \cup Range(es)) \cup H \cup Range(B) \subseteq 1..n
      /\ Fine(B, {})
  BY DEF OrderOK
<1> QED
  BY <1>1, <1>2, <1>3, <1>4, <1>5 DEF OrderOK

\* Events that are held up from now on.
LEMMA OrderHold ==
    ASSUME NEW Q, NEW S, NEW H, NEW O, NEW n, OrderOK(Q, <<>>, S, H, O, n),
           NEW es, Range(es) \cap (S \cup Range(Q)) = {}, Range(es) \subseteq 1..n
    PROVE  OrderOK(Q, <<>>, S, H \cup Range(es), O \cup Range(es), n)
<1>1. Range(<<>>) = {}
  BY DEF Range
<1>2. Fine(Q, O \cup Range(es)) /\ Fine(<<>>, {})
  BY DEF OrderOK, Fine
<1>3. Fits(S, Range(Q), O \cup Range(es))
  BY DEF OrderOK, Fits
<1>4. Fits(S \cup Range(Q) \cup (H \cup Range(es)), Range(<<>>), {})
  BY <1>1 DEF Fits
<1>5. /\ H \cup Range(es) \subseteq O \cup Range(es)
      /\ (H \cup Range(es)) \cap (S \cup Range(Q)) = {}
      /\ S \cup Range(Q) \cup (H \cup Range(es)) \cup Range(<<>>) \subseteq 1..n
  BY <1>1 DEF OrderOK
<1> QED
  BY <1>2, <1>3, <1>4, <1>5 DEF OrderOK

\* The head of the queue leaves, settled; or its tail, for good.
LEMMA OrderLeave ==
    ASSUME NEW s \in Seq(Nat), NEW t \in Seq(Nat), NEW B, NEW S, NEW H, NEW O, NEW n,
           OrderOK(s \o t, B, S, H, O, n)
    PROVE  /\ OrderOK(t, B, S \cup Range(s), H, O, n)
           /\ OrderOK(s, B, S, H, O, n)
           /\ S \cap Range(s) = {}
<1>1. Range(s \o t) = Range(s) \cup Range(t)
  BY ConcatRange
<1>2. /\ Fine(s, O) /\ Fine(t, O) /\ Fits(Range(s), Range(t), O)
      /\ Fine(B, {})
  BY FineConcat DEF OrderOK
<1>3. /\ Fits(S, Range(s) \cup Range(t), O)
      /\ Fits(S \cup (Range(s) \cup Range(t)) \cup H, Range(B), {})
      /\ H \subseteq O /\ H \cap (S \cup (Range(s) \cup Range(t))) = {}
      /\ S \cup (Range(s) \cup Range(t)) \cup H \cup Range(B) \subseteq 1..n
  BY <1>1 DEF OrderOK
<1>4. /\ Fits(S \cup Range(s), Range(t), O)
      /\ Fits((S \cup Range(s)) \cup Range(t) \cup H, Range(B), {})
      /\ Fits(S, Range(s), O)
      /\ Fits(S \cup Range(s) \cup H, Range(B), {})
      /\ S \cap Range(s) = {}
  BY <1>2, <1>3 DEF Fits
<1>5. /\ H \cap ((S \cup Range(s)) \cup Range(t)) = {}
      /\ (S \cup Range(s)) \cup Range(t) \cup H \cup Range(B) \subseteq 1..n
      /\ H \cap (S \cup Range(s)) = {}
      /\ S \cup Range(s) \cup H \cup Range(B) \subseteq 1..n
  BY <1>3
<1> QED
  BY <1>2, <1>3, <1>4, <1>5 DEF OrderOK

\* New messages join the buffer.
NextMessages(n, m) == [i \in 1..m |-> n + i]

LEMMA OrderNew ==
    ASSUME NEW Q, NEW B \in Seq(Nat), NEW S, NEW H, NEW O, NEW n \in Nat,
           NEW m \in Nat, OrderOK(Q, B, S, H, O, n)
    PROVE  /\ NextMessages(n, m) \in Seq(Nat)
           /\ \A x \in 1..n + m : x \in 1..n \/ x \in Range(NextMessages(n, m))
           /\ OrderOK(Q, B \o NextMessages(n, m), S, H, O, n + m)
<1> DEFINE new == NextMessages(n, m)
<1>1. new \in [1..m -> Nat] /\ DOMAIN new = 1..m /\ \A i \in 1..m : new[i] = n + i
  BY DEF NextMessages
<1>2. new \in Seq(Nat)
  BY <1>1, SeqDef
<1>3. Range(new) = n + 1..n + m
  <2>1. \A x \in n + 1..n + m : x - n \in 1..m /\ n + (x - n) = x
    OBVIOUS
  <2>2. \A i \in 1..m : n + i \in n + 1..n + m
    OBVIOUS
  <2> HIDE DEF new
  <2>3. ASSUME NEW x \in n + 1..n + m PROVE x \in Range(new)
    <3>1. PICK i \in 1..m : n + i = x
      BY <2>1
    <3> QED
      BY <1>1, <3>1 DEF Range
  <2>4. ASSUME NEW x \in Range(new) PROVE x \in n + 1..n + m
    <3>1. PICK i \in 1..m : x = n + i
      BY <1>1 DEF Range
    <3> QED
      BY <3>1
  <2> QED
    BY <2>3, <2>4
<1>4. Fine(new, {})
  BY <1>1 DEF Fine
<1> HIDE DEF new
<1>5. Range(B \o new) = Range(B) \cup Range(new)
  BY <1>2, ConcatRange
<1>6. \A x \in 1..n, y \in Range(new) : x # y /\ x < y
  BY <1>3
<1>7. Fits(1..n, Range(new), {})
  BY <1>6 DEF Fits
<1>8. Range(B) \subseteq 1..n /\ S \cup Range(Q) \cup H \subseteq 1..n
  BY DEF OrderOK
<1>9. Fine(B \o new, {})
  <2>1. Fits(Range(B), Range(new), {})
    BY <1>7, <1>8 DEF Fits
  <2> QED
    BY <1>2, <1>4, <2>1, FineConcat DEF OrderOK
<1>10. Fits(S \cup Range(Q) \cup H, Range(B) \cup Range(new), {})
  BY <1>7, <1>8 DEF OrderOK, Fits
<1>11. S \cup Range(Q) \cup H \cup (Range(B) \cup Range(new)) \subseteq 1..n + m
  <2>1. 1..n \subseteq 1..n + m /\ n + 1..n + m \subseteq 1..n + m
    OBVIOUS
  <2> QED
    BY <1>3, <1>8, <2>1
<1>12. \A x \in 1..n + m : x \in 1..n \/ x \in Range(new)
  BY <1>3
<1> QED
  BY <1>2, <1>5, <1>9, <1>10, <1>11, <1>12 DEF OrderOK, new

\* The buffer goes behind the queue, or a caller holds it.
LEMMA OrderTaken ==
    ASSUME NEW Q \in Seq(Nat), NEW B \in Seq(Nat), NEW S, NEW H, NEW O, NEW n \in Nat,
           OrderOK(Q, B, S, H, O, n)
    PROVE  /\ OrderOK(Q \o B, <<>>, S, H, O, n)
           /\ OrderOK(Q, <<>>, S, H \cup Range(B), O \cup Range(B), n)
           /\ Fine(B, Range(B)) /\ H \cap Range(B) = {}
<1>1. /\ Fine(B, {}) /\ Fits(S \cup Range(Q) \cup H, Range(B), {})
      /\ Range(B) \subseteq 1..n
  BY DEF OrderOK
<1>2. OrderOK(Q, <<>>, S, H, O, n)
  <2>1. H \in SUBSET H /\ n =< n
    OBVIOUS
  <2> QED
    BY <2>1, OrderLess
<1>3. /\ Fine(B, O) /\ Fine(B, Range(B))
      /\ Fits(S \cup Range(Q), Range(B), O)
      /\ H \cap Range(B) = {} /\ Range(B) \cap (S \cup Range(Q)) = {}
  BY <1>1 DEF Fine, Fits
<1>4. Fits(Range(B), Range(<<>>), {})
  BY DEF Fits, Range
<1> QED
  BY <1>1, <1>2, <1>3, <1>4, OrderAdd, OrderHold

\* What blocked callers hold, and what was ever held up.
HeldIn(cs) == UNION {Range(cs[c].events) : c \in {d \in DOMAIN cs : Holds(cs[d])}}
Overtook(cs) == UNION {Range(cs[c].events) : c \in {d \in DOMAIN cs : cs[d].waited}}

HoldersOK(cs) ==
    \A c \in DOMAIN cs : Holds(cs[c]) =>
        /\ cs[c].waited /\ Fine(cs[c].events, Range(cs[c].events))
        /\ \A d \in DOMAIN cs : Holds(cs[d]) /\ c # d =>
              Range(cs[c].events) \cap Range(cs[d].events) = {}

LEMMA HeldParts ==
    ASSUME NEW cs
    PROVE  /\ \A e : e \in HeldIn(cs) <=>
                \E c \in DOMAIN cs : Holds(cs[c]) /\ e \in Range(cs[c].events)
           /\ \A e : e \in Overtook(cs) <=>
                \E c \in DOMAIN cs : cs[c].waited /\ e \in Range(cs[c].events)
BY DEF HeldIn, Overtook

LEMMA HeldSame ==
    ASSUME NEW cs, NEW cs2, DOMAIN cs2 = DOMAIN cs, HoldersOK(cs),
           \A c \in DOMAIN cs : /\ SameCall(cs[c], cs2[c])
                                /\ Holds(cs2[c]) <=> Holds(cs[c])
    PROVE  HeldIn(cs2) = HeldIn(cs) /\ Overtook(cs2) = Overtook(cs) /\ HoldersOK(cs2)
<1>1. \A c \in DOMAIN cs : /\ cs2[c].events = cs[c].events
                           /\ cs2[c].waited = cs[c].waited
  BY DEF SameCall
<1>2. \A e : e \in HeldIn(cs2) <=> e \in HeldIn(cs)
  BY <1>1, HeldParts
<1>3. \A e : e \in Overtook(cs2) <=> e \in Overtook(cs)
  BY <1>1, HeldParts
<1>4. HoldersOK(cs2)
  BY <1>1 DEF HoldersOK
<1> QED
  BY <1>2, <1>3, <1>4

\* A call that is not held up.
LEMMA HeldPassed ==
    ASSUME NEW cs \in Seq(Call), NEW call \in Call, ~Holds(call), ~call.waited, HoldersOK(cs)
    PROVE  LET cs2 == Append(cs, call)
           IN /\ HeldIn(cs2) = HeldIn(cs) /\ Overtook(cs2) = Overtook(cs)
              /\ HoldersOK(cs2)
<1> DEFINE cs2 == Append(cs, call)
<1>1. PICK k : k = Len(cs) + 1
  OBVIOUS
<1>2. /\ DOMAIN cs2 = DOMAIN cs \cup {k} /\ k \notin DOMAIN cs
      /\ \A c \in DOMAIN cs : cs2[c] = cs[c]
      /\ cs2[k] = call
  BY <1>1, CallAppended
<1> HIDE DEF cs2
<1>3. \A e : e \in HeldIn(cs2) <=> e \in HeldIn(cs)
  BY <1>2, HeldParts
<1>4. \A e : e \in Overtook(cs2) <=> e \in Overtook(cs)
  BY <1>2, HeldParts
<1>5. HoldersOK(cs2)
  BY <1>2 DEF HoldersOK
<1> QED
  BY <1>3, <1>4, <1>5 DEF cs2

\* A call that is.
LEMMA HeldBlocked ==
    ASSUME NEW cs \in Seq(Call), NEW call \in Call, Holds(call), call.waited, HoldersOK(cs),
           Fine(call.events, Range(call.events)),
           HeldIn(cs) \cap Range(call.events) = {}
    PROVE  LET cs2 == Append(cs, call)
           IN /\ HeldIn(cs2) = HeldIn(cs) \cup Range(call.events)
              /\ Overtook(cs2) = Overtook(cs) \cup Range(call.events)
              /\ HoldersOK(cs2)
<1> DEFINE cs2 == Append(cs, call)
<1>1. PICK k : k = Len(cs) + 1
  OBVIOUS
<1>2. /\ DOMAIN cs2 = DOMAIN cs \cup {k} /\ k \notin DOMAIN cs
      /\ \A c \in DOMAIN cs : cs2[c] = cs[c]
      /\ cs2[k] = call
  BY <1>1, CallAppended
<1> HIDE DEF cs2
<1>3. \A e : e \in HeldIn(cs2) <=> e \in HeldIn(cs) \/ e \in Range(call.events)
  BY <1>2, HeldParts
<1>4. \A e : e \in Overtook(cs2) <=> e \in Overtook(cs) \/ e \in Range(call.events)
  BY <1>2, HeldParts
<1>5. \A c \in DOMAIN cs : Holds(cs[c]) =>
        Range(cs[c].events) \cap Range(call.events) = {}
  BY HeldParts
<1>6. ASSUME NEW c \in DOMAIN cs2, Holds(cs2[c])
      PROVE  /\ cs2[c].waited /\ Fine(cs2[c].events, Range(cs2[c].events))
             /\ \A d \in DOMAIN cs2 : Holds(cs2[d]) /\ c # d =>
                   Range(cs2[c].events) \cap Range(cs2[d].events) = {}
  <2>1. CASE c = k
    BY <1>2, <1>5, <1>6, <2>1
  <2>2. CASE c # k
    BY <1>2, <1>5, <1>6, <2>2 DEF HoldersOK
  <2> QED
    BY <2>1, <2>2
<1> QED
  BY <1>3, <1>4, <1>6 DEF cs2, HoldersOK

\* A caller lets go of its events.
LEMMA HeldReleased ==
    ASSUME NEW cs, NEW cs2, NEW c \in DOMAIN cs, Holds(cs[c]), HoldersOK(cs),
           DOMAIN cs2 = DOMAIN cs, SameCall(cs[c], cs2[c]), ~Holds(cs2[c]),
           \A d \in DOMAIN cs : d # c => cs2[d] = cs[d]
    PROVE  /\ HeldIn(cs2) = HeldIn(cs) \ Range(cs[c].events)
           /\ Overtook(cs2) = Overtook(cs) /\ HoldersOK(cs2)
           /\ Range(cs[c].events) \subseteq HeldIn(cs)
           /\ Fine(cs[c].events, Range(cs[c].events))
<1>1. cs2[c].events = cs[c].events /\ cs2[c].waited = cs[c].waited
  BY DEF SameCall
<1>2. \A d \in DOMAIN cs : Holds(cs[d]) /\ d # c =>
        Range(cs[c].events) \cap Range(cs[d].events) = {}
  BY DEF HoldersOK
<1>3. ASSUME NEW e
      PROVE  e \in HeldIn(cs2) <=> e \in HeldIn(cs) /\ e \notin Range(cs[c].events)
  BY <1>1, <1>2, HeldParts
<1>4. ASSUME NEW e PROVE e \in Overtook(cs2) <=> e \in Overtook(cs)
  BY <1>1, HeldParts
<1>5. HoldersOK(cs2)
  BY DEF HoldersOK
<1>6. Range(cs[c].events) \subseteq HeldIn(cs)
  BY HeldParts
<1> QED
  BY <1>3, <1>4, <1>5, <1>6 DEF HoldersOK

-----------------------------------------------------------------------------
(* close() of the uploader is a continuation of the transport's.           *)

CloserInv == closed \/ Closer \in Range(micro) \/ Closer \in flushResolvers => closing

\* Where the continuation of close() may come from.
CloserMoves ==
    /\ closed' = closed /\ closing' = closing
    /\ Closer \in Range(micro') \/ Closer \in flushResolvers' =>
         Closer \in Range(micro) \/ Closer \in flushResolvers

LEMMA TailRange ==
    ASSUME NEW S, NEW s \in Seq(S), s # <<>>
    PROVE  Range(Tail(s)) \subseteq Range(s) /\ Head(s) \in Range(s) /\ Tail(s) \in Seq(S)
<1>1. /\ Tail(s) \in Seq(S) /\ Len(Tail(s)) = Len(s) - 1
      /\ \A i \in 1..Len(Tail(s)) : Tail(s)[i] = s[i + 1]
      /\ Head(s) = s[1] /\ Len(s) \in Nat \ {0} /\ DOMAIN s = 1..Len(s)
  <2>1. Len(s) \in Nat /\ DOMAIN s = 1..Len(s) /\ Len(s) # 0
    BY LenProperties, EmptySeq
  <2> QED
    BY <2>1, HeadTailProperties
<1>2. DOMAIN Tail(s) = 1..Len(s) - 1
  BY <1>1, LenProperties
<1>3. \A i \in 1..Len(s) - 1 : i + 1 \in DOMAIN s
  BY <1>1
<1>4. 1 \in DOMAIN s
  BY <1>1
<1> QED
  BY <1>1, <1>2, <1>3, <1>4 DEF Range

LEMMA CloserReleased ==
    ASSUME CallersTyped, NEW bs \in {<<>>, backpressureResolvers},
           NEW done \in {{}, flushResolvers}, Release(bs, done),
           closed' = closed, closing' = closing
    PROVE  CloserMoves
<1> DEFINE S == DOMAIN calls \cup {Closer}
           last == IF Closer \in done THEN <<Closer>> ELSE <<>>
<1>1. DOMAIN calls \subseteq S /\ Closer \in S /\ Closer \notin DOMAIN calls
  BY CallNumbers
<1>2. bs \in Seq(DOMAIN calls) /\ micro \in Seq(S)
  BY EmptySeq DEF CallersTyped, CallersOK
<1>3. Closer \notin Range(bs)
  BY <1>1, <1>2, ElementOfSeq, LenProperties DEF Range
<1>4. last \in Seq(S) /\ (Closer \in Range(last) => Closer \in flushResolvers)
  <2>1. Range(<<>>) = {} /\ <<>> \in Seq(S)
    BY EmptySeq DEF Range
  <2>2. <<Closer>> \in Seq(S)
    <3> HIDE DEF S
    <3> QED
      BY <1>1
  <2> QED
    BY <2>1, <2>2
<1>5. bs \in Seq(S)
  <2> HIDE DEF S
  <2> QED
    BY <1>1, <1>2, SeqMonotonic
<1>6. micro' = (micro \o bs) \o last /\ flushResolvers' = flushResolvers \ done
  BY DEF Release
<1> HIDE DEF S, last
<1>7. /\ micro \o bs \in Seq(S)
      /\ Range(micro \o bs) = Range(micro) \cup Range(bs)
  BY <1>2, <1>5, ConcatRange
<1>8. Range((micro \o bs) \o last) = Range(micro \o bs) \cup Range(last)
  <2> DEFINE first == micro \o bs
  <2>1. first \in Seq(S)
    BY <1>7
  <2> HIDE DEF first
  <2>2. Range(first \o last) = Range(first) \cup Range(last)
    BY <1>4, <2>1, ConcatRange
  <2> QED
    BY <2>2 DEF first
<1> QED
  BY <1>3, <1>4, <1>6, <1>7, <1>8 DEF CloserMoves

\* A continuation of c runs, and may leave another.
LEMMA CloserContinues ==
    ASSUME CallersTyped, NEW c, c # Closer, NEW ms, ms \in {micro, Tail(micro)},
           micro # <<>> \/ ms = micro,
           micro' \in {ms, Append(ms, c)}, flushResolvers' \subseteq flushResolvers \cup {c},
           closed' = closed, closing' = closing
    PROVE  CloserMoves
<1> DEFINE S == DOMAIN calls \cup {Closer, c}
<1>1. c \in S /\ micro \in Seq(S)
  <2>1. micro \in Seq(DOMAIN calls \cup {Closer}) /\ DOMAIN calls \cup {Closer} \subseteq S
    BY DEF CallersTyped, CallersOK
  <2> HIDE DEF S
  <2>2. micro \in Seq(S)
    BY <2>1, SeqMonotonic
  <2> QED
    BY <2>2 DEF S
<1> HIDE DEF S
<1>2. ms \in Seq(S) /\ Range(ms) \subseteq Range(micro)
  BY <1>1, TailRange
<1>3. Range(Append(ms, c)) = Range(ms) \cup {c}
  BY <1>1, <1>2, AppendRange
<1> QED
  BY <1>2, <1>3 DEF CloserMoves

LEMMA CloserKept == ASSUME CloserInv, CloserMoves PROVE CloserInv'
BY DEF CloserInv, CloserMoves

LEMMA CloserSame ==
    ASSUME UNCHANGED <<micro, flushResolvers, closed, closing>> PROVE CloserMoves
BY DEF CloserMoves

LEMMA CloserNext == ASSUME Inv, CloserInv, [Next]_vars PROVE CloserInv'
<1>1. QueueInv /\ CallersTyped /\ StreamTyped
  BY InvParts
<1>2. /\ Len(calls) \in Nat /\ Len(calls) + 1 # Closer /\ Len(calls) + 2 # Closer
      /\ DOMAIN calls = 1..Len(calls)
  BY <1>1, CallNumbers DEF Closer
<1>3. CASE WriteStreamEvent \/ UNCHANGED vars
  BY <1>3, CloserSame, CloserKept DEF WriteStreamEvent, vars
<1>4. ASSUME NEW n \in 0..MaxMessages, Write(n) PROVE CloserInv'
  <2>1. PICK c : c = Len(calls) + 1
    OBVIOUS
  <2>2. /\ micro' \in {micro, Append(micro, c)} /\ flushResolvers' = flushResolvers
        /\ closed' = closed /\ closing' = closing
    BY <1>4, <2>1 DEF Write, enqueue
  <2>3. c # Closer
    BY <1>2, <2>1
  <2> QED
    BY <1>1, <2>2, <2>3, CloserContinues, CloserKept
<1>5. CASE Flush
  <2> DEFINE es == streamEventBuffer
             cs == IF Blocks(es) THEN Append(calls, NewCall(es, FALSE)) ELSE calls
  <2>1. /\ micro' = micro /\ flushResolvers' \subseteq flushResolvers \cup {Len(cs) + 1}
        /\ closed' = closed /\ closing' = closing
    BY <1>5 DEF Flush
  <2>2. Len(cs) \in Nat
    <3>1. NewCall(es, FALSE) \in Call /\ calls \in Seq(Call)
      BY <1>1, NewCallTyped DEF QueueInv, StreamTyped, CallersTyped, CallersOK
    <3>2. cs \in Seq(Call)
      BY <3>1, AppendProperties
    <3> QED
      BY <3>2, LenProperties
  <2> HIDE DEF cs
  <2>3. Len(cs) + 1 # Closer
    BY <2>2 DEF Closer
  <2> QED
    BY <2>1, <2>3, CloserKept DEF CloserMoves
<1>6. CASE Close
  BY <1>6 DEF Close, CloserInv
<1>7. CASE FlushStreamEvents
  BY <1>7, CloserSame, CloserKept DEF FlushStreamEvents, enqueueUnawaited
<1>8. CASE GraceExpires
  BY <1>8 DEF GraceExpires, CloserInv
<1>9. CASE Uploader
  <2>1. closing' = closing
    BY <1>9 DEF Uploader
  <2>2. CASE Send \/ SleepEnds
    <3>1. Flushed(pending) \in {{}, flushResolvers} /\ closed' = closed
      BY <2>2 DEF Flushed, Send, SendSucceeds, SendDiscards, SendThrows, SleepEnds
    <3>2. CASE Release(backpressureResolvers, Flushed(pending))
      BY <1>1, <2>1, <3>1, <3>2, CloserReleased, CloserKept
    <3>3. CASE Release(<<>>, Flushed(pending))
      BY <1>1, <2>1, <3>1, <3>3, CloserReleased, CloserKept
    <3>4. CASE UNCHANGED callVars
      BY <2>1, <3>1, <3>4, CloserSame, CloserKept
    <3> QED
      BY <2>2, <3>2, <3>3, <3>4 DEF Send, SendSucceeds, SendDiscards, SendThrows, SleepEnds, Advance
  <2>3. CASE micro # <<>> /\ Head(micro) = Closer
    <3>1. micro \in Seq(DOMAIN calls \cup {Closer})
      BY <1>1 DEF CallersTyped, CallersOK
    <3>2. Closer \in Range(micro)
      BY <2>3, <3>1, TailRange
    <3> QED
      BY <2>1, <3>2 DEF CloserInv
  <2>4. CASE /\ micro # <<>> /\ Head(micro) # Closer
             /\ Resume(Head(micro)) \/ flush(Head(micro))
    <3>1. PICK c : c = Head(micro)
      OBVIOUS
    <3>2. /\ micro' \in {Tail(micro), Append(Tail(micro), c)}
          /\ flushResolvers' \subseteq flushResolvers \cup {c} /\ closed' = closed
      BY <2>4, <3>1 DEF Resume, flush
    <3>3. c # Closer
      BY <2>4, <3>1
    <3>4. PICK ms : ms = Tail(micro)
      OBVIOUS
    <3> QED
      BY <1>1, <2>1, <2>4, <3>2, <3>3, <3>4, CloserContinues, CloserKept
  <2> QED
    BY <1>9, <2>2, <2>3, <2>4 DEF Uploader, RunMicro
<1> QED
  BY <1>3, <1>4, <1>5, <1>6, <1>7, <1>8, <1>9 DEF Next, Application

-----------------------------------------------------------------------------
(* Every message is in its place, and nowhere else.                        *)

Placed(Q, B, S, cs, n, open) ==
    /\ OrderOK(Q, B, S, HeldIn(cs), Overtook(cs), n)
    /\ HoldersOK(cs)
    /\ open => Covers(Q, B, S, HeldIn(cs), n)

LEMMA PlacedSame ==
    ASSUME NEW Q, NEW B, NEW S, NEW cs, NEW n, NEW open, Placed(Q, B, S, cs, n, open),
           NEW cs2, HeldIn(cs2) = HeldIn(cs), Overtook(cs2) = Overtook(cs), HoldersOK(cs2)
    PROVE  Placed(Q, B, S, cs2, n, open)
BY DEF Placed

\* What close() drops.
LEMMA PlacedDropped ==
    ASSUME NEW Q, NEW B, NEW S, NEW cs, NEW n \in Nat, NEW open, Placed(Q, B, S, cs, n, open)
    PROVE  Placed(Q, <<>>, S, cs, n, FALSE)
<1>1. HeldIn(cs) \in SUBSET HeldIn(cs) /\ n =< n
  OBVIOUS
<1>2. OrderOK(Q, <<>>, S, HeldIn(cs), Overtook(cs), n)
  BY <1>1, OrderLess DEF Placed
<1> QED
  BY <1>2 DEF Placed

LEMMA PlacedNew ==
    ASSUME NEW Q, NEW B \in Seq(Nat), NEW S, NEW cs, NEW n \in Nat, NEW open,
           Placed(Q, B, S, cs, n, open), NEW m \in Nat
    PROVE  /\ B \o NextMessages(n, m) \in Seq(Nat)
           /\ Placed(Q, B \o NextMessages(n, m), S, cs, n + m, open)
<1> DEFINE new == NextMessages(n, m)
<1>1. /\ new \in Seq(Nat) /\ \A x \in 1..n + m : x \in 1..n \/ x \in Range(new)
      /\ OrderOK(Q, B \o new, S, HeldIn(cs), Overtook(cs), n + m)
  <2> DEFINE H == HeldIn(cs)
             O == Overtook(cs)
  <2>1. OrderOK(Q, B, S, H, O, n)
    BY DEF Placed
  <2> HIDE DEF H, O
  <2>2. NextMessages(n, m) \in Seq(Nat)
    BY <2>1, OrderNew
  <2>3. \A x \in 1..n + m : x \in 1..n \/ x \in Range(NextMessages(n, m))
    BY <2>1, OrderNew
  <2>4. OrderOK(Q, B \o NextMessages(n, m), S, H, O, n + m)
    BY <2>1, OrderNew
  <2> QED
    BY <2>2, <2>3, <2>4 DEF H, O
<1> HIDE DEF new
<1>2. B \o new \in Seq(Nat) /\ Range(B \o new) = Range(B) \cup Range(new)
  BY <1>1, ConcatRange
<1>4. open => Covers(Q, B \o new, S, HeldIn(cs), n + m)
  BY <1>1, <1>2 DEF Placed, Covers
<1> QED
  BY <1>1, <1>2, <1>4 DEF Placed, new

LEMMA PlacedQueued ==
    ASSUME NEW Q \in Seq(Nat), NEW B \in Seq(Nat), NEW S, NEW cs, NEW n \in Nat, NEW open,
           Placed(Q, B, S, cs, n, open)
    PROVE  Placed(Q \o B, <<>>, S, cs, n, open)
<1>1. OrderOK(Q \o B, <<>>, S, HeldIn(cs), Overtook(cs), n)
  BY OrderTaken DEF Placed
<1>2. Range(Q \o B) = Range(Q) \cup Range(B)
  BY ConcatRange
<1>3. Range(<<>>) = {}
  BY DEF Range
<1>4. open => Covers(Q \o B, <<>>, S, HeldIn(cs), n)
  BY <1>2, <1>3 DEF Placed, Covers
<1> QED
  BY <1>1, <1>4 DEF Placed

LEMMA PlacedHeld ==
    ASSUME NEW Q \in Seq(Nat), NEW B \in Seq(Nat), NEW S, NEW cs \in Seq(Call), NEW n \in Nat,
           NEW open, Placed(Q, B, S, cs, n, open),
           NEW call \in Call, Holds(call), call.waited, call.events = B
    PROVE  Placed(Q, <<>>, S, Append(cs, call), n, open)
<1>1. /\ OrderOK(Q, <<>>, S, HeldIn(cs) \cup Range(B), Overtook(cs) \cup Range(B), n)
      /\ Fine(B, Range(B)) /\ HeldIn(cs) \cap Range(B) = {}
  BY OrderTaken DEF Placed
<1>2. /\ HeldIn(Append(cs, call)) = HeldIn(cs) \cup Range(B)
      /\ Overtook(Append(cs, call)) = Overtook(cs) \cup Range(B)
      /\ HoldersOK(Append(cs, call))
  BY <1>1, HeldBlocked DEF Placed
<1>3. Range(<<>>) = {}
  BY DEF Range
<1>4. open => Covers(Q, <<>>, S, HeldIn(cs) \cup Range(B), n)
  BY <1>3 DEF Placed, Covers
<1> QED
  BY <1>1, <1>2, <1>4 DEF Placed

LEMMA PlacedLeave ==
    ASSUME NEW s \in Seq(Nat), NEW t \in Seq(Nat), NEW B, NEW S, NEW cs, NEW n, NEW open,
           Placed(s \o t, B, S, cs, n, open)
    PROVE  /\ Placed(t, B, S \cup Range(s), cs, n, open)
           /\ Placed(s, B, S, cs, n, FALSE)
           /\ S \cap Range(s) = {}
<1>1. Range(s \o t) = Range(s) \cup Range(t)
  BY ConcatRange
<1>2. /\ OrderOK(t, B, S \cup Range(s), HeldIn(cs), Overtook(cs), n)
      /\ OrderOK(s, B, S, HeldIn(cs), Overtook(cs), n)
      /\ S \cap Range(s) = {}
  BY OrderLeave DEF Placed
<1>3. open => Covers(t, B, S \cup Range(s), HeldIn(cs), n)
  BY <1>1 DEF Placed, Covers
<1> QED
  BY <1>2, <1>3 DEF Placed

LEMMA PlacedReleased ==
    ASSUME NEW Q \in Seq(Nat), NEW B \in Seq(Nat), NEW S, NEW cs, NEW n \in Nat, NEW open,
           Placed(Q, B, S, cs, n, open), NEW es \in Seq(Nat),
           NEW cs2, HeldIn(cs2) = HeldIn(cs) \ Range(es), Overtook(cs2) = Overtook(cs),
           HoldersOK(cs2), Range(es) \subseteq HeldIn(cs), Fine(es, Range(es))
    PROVE  /\ Placed(Q \o es, B, S, cs2, n, open)
           /\ Placed(Q, B, S, cs2, n, FALSE)
<1> DEFINE H == HeldIn(cs)
           O == Overtook(cs)
           E == Range(es)
<1>1. OrderOK(Q, B, S, H, O, n)
  BY DEF Placed
<1> HIDE DEF H, O
<1>2. H \ E \in SUBSET H /\ n =< n
  OBVIOUS
<1>3. OrderOK(Q, B, S, H \ E, O, n)
  BY <1>1, <1>2, OrderLess
<1>4. E \subseteq H
  BY DEF H
<1>5. /\ Fine(es, O) /\ Fits(S \cup Range(Q), E, O) /\ Fits(E, Range(B), {})
      /\ (H \ E) \cap E = {} /\ E \subseteq 1..n
  BY <1>1, <1>4 DEF OrderOK, Fine, Fits
<1>6. OrderOK(Q \o es, B, S, H \ E, O, n)
  BY <1>3, <1>5, OrderAdd
<1>7. Range(Q \o es) = Range(Q) \cup E
  BY ConcatRange
<1>8. open => Covers(Q \o es, B, S, H \ E, n)
  BY <1>7 DEF Placed, Covers, H
<1> QED
  BY <1>3, <1>6, <1>8 DEF Placed, H, O

PlaceInv ==
    /\ Placed(Queue, streamEventBuffer, Passed \cup dropped, calls, written, ~closing)
    /\ Passed \cap dropped = {}

\* enqueue() of the events es, which the transport has taken out of its buffer.
LEMMA PlacedTaken ==
    ASSUME QueueInv, CallersTyped, NEW es \in Seq(Nat), NEW S, NEW n \in Nat, NEW open \in BOOLEAN,
           Placed(Queue, es, S, calls, n, open), closed => ~open, Add(es),
           UNCHANGED <<closed, maxConsecutiveFailures, history>>,
           NEW flushes \in BOOLEAN, NEW cs,
           \/ cs = Append(calls, NewCall(es, flushes))
           \/ ~Blocks(es) /\ cs = calls
    PROVE  Placed(Queue', <<>>, S, cs, n, open) /\ cs \in Seq(Call)
<1> DEFINE call == NewCall(es, flushes)
<1>1. /\ call \in Call /\ call.events = es /\ call.waited = Blocks(es)
      /\ (Blocks(es) => Holds(call)) /\ (~Blocks(es) => ~Holds(call))
  <2>1. call \in Call
    BY NewCallTyped DEF QueueInv
  <2> QED
    BY <2>1 DEF NewCall, Holds
<1>2. cs = Append(calls, call) \/ (~Blocks(es) /\ cs = calls)
  OBVIOUS
<1>3. Queue \in Seq(Nat) /\ calls \in Seq(Call)
  BY QueueIsSeq DEF CallersTyped, CallersOK
<1>4. Queue' = IF closed \/ Blocks(es) THEN Queue ELSE Queue \o es
  BY QueueAdded
<1> HIDE DEF call
<1>5. cs \in Seq(Call)
  <2>1. Append(calls, call) \in Seq(Call)
    BY <1>1, <1>3, CallAppended
  <2> QED
    BY <1>2, <1>3, <2>1
<1>6. ASSUME ~Blocks(es)
      PROVE  HeldIn(cs) = HeldIn(calls) /\ Overtook(cs) = Overtook(calls) /\ HoldersOK(cs)
  BY <1>1, <1>2, <1>3, <1>6, HeldPassed DEF Placed
<1>7. CASE closed
  <2>1. ~Blocks(es) /\ ~open /\ Queue' = Queue
    BY <1>4, <1>7 DEF Blocks
  <2>2. Placed(Queue, <<>>, S, calls, n, FALSE)
    BY PlacedDropped
  <2>3. Placed(Queue, <<>>, S, cs, n, FALSE)
    BY <1>6, <2>1, <2>2, PlacedSame
  <2> QED
    BY <1>5, <2>1, <2>3
<1>8. CASE Blocks(es)
  <2>1. cs = Append(calls, call) /\ Queue' = Queue
    BY <1>2, <1>4, <1>8
  <2>2. Placed(Queue, <<>>, S, Append(calls, call), n, open)
    BY <1>1, <1>3, <1>8, PlacedHeld
  <2> QED
    BY <1>5, <2>1, <2>2
<1>9. CASE ~closed /\ ~Blocks(es)
  <2>1. Placed(Queue \o es, <<>>, S, calls, n, open)
    BY <1>3, PlacedQueued
  <2>2. Placed(Queue \o es, <<>>, S, cs, n, open)
    BY <1>6, <1>9, <2>1, PlacedSame
  <2> QED
    BY <1>4, <1>5, <1>9, <2>2
<1> QED
  BY <1>7, <1>8, <1>9

\* A call takes the buffer and m new messages along.
LEMMA PlaceWritten ==
    ASSUME QueueInv, CallersTyped, StreamTyped, PlaceInv, closed => closing,
           NEW m \in Nat, NEW flushes \in BOOLEAN,
           Add(streamEventBuffer \o NextMessages(written, m)),
           calls' = Append(calls, NewCall(streamEventBuffer \o NextMessages(written, m), flushes)),
           UNCHANGED <<closed, maxConsecutiveFailures, history, closing>>,
           streamEventBuffer' = <<>>, written' = written + m
    PROVE  PlaceInv'
<1> DEFINE es == streamEventBuffer \o NextMessages(written, m)
           S == Passed \cup dropped
<1>1. streamEventBuffer \in Seq(Nat) /\ written \in Nat /\ closing \in BOOLEAN
  BY DEF StreamTyped
<1>2. Placed(Queue, streamEventBuffer, S, calls, written, ~closing)
  BY DEF PlaceInv
<1> HIDE DEF S
<1>3. es \in Seq(Nat) /\ Placed(Queue, es, S, calls, written + m, ~closing)
  BY <1>1, <1>2, PlacedNew
<1>4. Add(es) /\ calls' = Append(calls, NewCall(es, flushes))
  OBVIOUS
<1> HIDE DEF es
<1>5. PICK n \in Nat : n = written + m
  BY <1>1
<1>6. PICK cs : cs = calls'
  OBVIOUS
<1>7. PICK open \in BOOLEAN : open = ~closing
  BY <1>1
<1>8. PICK S1 : S1 = S
  OBVIOUS
<1>9. Placed(Queue', <<>>, S1, cs, n, open)
  <2>1. Placed(Queue, es, S1, calls, n, open)
    BY <1>3, <1>5, <1>7, <1>8
  <2>2. cs = Append(calls, NewCall(es, flushes)) /\ (closed => ~open)
    BY <1>4, <1>6, <1>7
  <2> QED
    BY <1>3, <1>4, <2>1, <2>2, PlacedTaken
<1>10. S1 = (Passed \cup dropped)' /\ (Passed \cap dropped)' = {}
  BY <1>8 DEF S, PlaceInv, Passed
<1>11. cs = calls' /\ n = written' /\ open = (~closing)' /\ <<>> = streamEventBuffer'
  BY <1>5, <1>6, <1>7
<1> QED
  BY <1>9, <1>10, <1>11 DEF PlaceInv

\* flush(), or the delay timer: calls that are not held up may follow.
LEMMA PlaceFlushed ==
    ASSUME QueueInv, CallersTyped, StreamTyped, PlaceInv, closed => closing,
           Add(streamEventBuffer),
           UNCHANGED <<closed, maxConsecutiveFailures, history, closing, written>>,
           streamEventBuffer' = <<>>,
           NEW cs, cs = IF Blocks(streamEventBuffer)
                        THEN Append(calls, NewCall(streamEventBuffer, FALSE)) ELSE calls,
           \/ calls' = cs
           \/ \E call \in Call : ~Holds(call) /\ ~call.waited /\ calls' = Append(cs, call)
    PROVE  PlaceInv'
<1> DEFINE S == Passed \cup dropped
<1>1. streamEventBuffer \in Seq(Nat) /\ written \in Nat /\ closing \in BOOLEAN
  BY DEF StreamTyped
<1>2. Placed(Queue, streamEventBuffer, S, calls, written, ~closing)
  BY DEF PlaceInv
<1> HIDE DEF S
<1>3. \/ cs = Append(calls, NewCall(streamEventBuffer, FALSE))
      \/ ~Blocks(streamEventBuffer) /\ cs = calls
  OBVIOUS
<1>4. Placed(Queue', <<>>, S, cs, written, ~closing) /\ cs \in Seq(Call)
  BY <1>1, <1>2, <1>3, PlacedTaken
<1>5. Placed(Queue', <<>>, S, calls', written, ~closing)
  <2>1. CASE calls' = cs
    BY <1>4, <2>1
  <2>2. CASE \E call \in Call : ~Holds(call) /\ ~call.waited /\ calls' = Append(cs, call)
    <3>1. PICK call \in Call : ~Holds(call) /\ ~call.waited /\ calls' = Append(cs, call)
      BY <2>2
    <3>2. /\ HeldIn(Append(cs, call)) = HeldIn(cs)
          /\ Overtook(Append(cs, call)) = Overtook(cs)
          /\ HoldersOK(Append(cs, call))
      BY <1>4, <3>1, HeldPassed DEF Placed
    <3>3. Placed(Queue', <<>>, S, Append(cs, call), written, ~closing)
      BY <1>4, <3>2, PlacedSame
    <3> QED
      BY <3>1, <3>3
  <2> QED
    BY <2>1, <2>2
<1>6. /\ S = (Passed \cup dropped)' /\ (Passed \cap dropped)' = {}
      /\ written' = written /\ closing' = closing
  BY DEF S, PlaceInv, Passed
<1> QED
  BY <1>5, <1>6 DEF PlaceInv

\* The calls go on, and the queue stays.
LEMMA PlaceMoved ==
    ASSUME CallersTyped, PlaceInv, NEW bs \in {<<>>, backpressureResolvers},
           NEW done \in {{}, flushResolvers}, Move(Range(bs), done)
    PROVE  /\ HeldIn(calls') = HeldIn(calls) /\ Overtook(calls') = Overtook(calls)
           /\ HoldersOK(calls')
BY CallsMoved, HeldSame DEF PlaceInv, Placed

LEMMA PlaceAdvances ==
    ASSUME QueueInv, CallersTyped, PlaceInv, drain = "sending", Advance,
           UNCHANGED transportVars,
           \/ Passed' = Passed \cup Range(batch) /\ dropped' = dropped
           \/ dropped' = dropped \cup Range(batch) /\ Passed' = Passed
    PROVE  PlaceInv'
<1> DEFINE S == Passed \cup dropped
           S2 == S \cup Range(batch)
<1>1. /\ Queue' = pending /\ Queue = batch \o pending
      /\ pending \in Seq(Nat) /\ batch \in Seq(Nat)
  BY QueueAdvanced
<1>2. Placed(batch \o pending, streamEventBuffer, S, calls, written, ~closing)
  BY <1>1 DEF PlaceInv
<1>3. /\ (Passed \cup dropped)' = S2
      /\ S \cap Range(batch) = {} => (Passed \cap dropped)' = {}
  BY DEF PlaceInv
<1> HIDE DEF S
<1>4. /\ Placed(pending, streamEventBuffer, S2, calls, written, ~closing)
      /\ S \cap Range(batch) = {}
  BY <1>1, <1>2, PlacedLeave
<1> HIDE DEF S2
<1>5. /\ Flushed(pending) \in {{}, flushResolvers}
      /\ Move(Range(backpressureResolvers), Flushed(pending))
  BY DEF Flushed, Advance, Release
<1>6. /\ HeldIn(calls') = HeldIn(calls) /\ Overtook(calls') = Overtook(calls)
      /\ HoldersOK(calls')
  BY <1>5, PlaceMoved
<1>7. Placed(pending, streamEventBuffer, S2, calls', written, ~closing)
  BY <1>4, <1>6, PlacedSame
<1>8. streamEventBuffer' = streamEventBuffer /\ written' = written /\ closing' = closing
  OBVIOUS
<1>9. Placed(Queue', streamEventBuffer, (Passed \cup dropped)', calls', written, ~closing)
  <2>1. Queue' = pending /\ (Passed \cup dropped)' = S2
    BY <1>1, <1>3
  <2> QED
    BY <1>7, <2>1
<1>10. (Passed \cap dropped)' = {}
  BY <1>3, <1>4
<1> QED
  BY <1>8, <1>9, <1>10 DEF PlaceInv

LEMMA PlaceSame ==
    ASSUME PlaceInv, Queue' = Queue, UNCHANGED <<Passed, dropped, transportVars>>,
           HeldIn(calls') = HeldIn(calls), Overtook(calls') = Overtook(calls),
           HoldersOK(calls')
    PROVE  PlaceInv'
<1>1. Placed(Queue, streamEventBuffer, Passed \cup dropped, calls', written, ~closing)
  BY PlacedSame DEF PlaceInv
<1> QED
  BY <1>1 DEF PlaceInv

LEMMA PlaceDrains ==
    ASSUME QueueInv, CallersTyped, PlaceInv, Send \/ SleepEnds, UNCHANGED transportVars
    PROVE  PlaceInv'
<1>1. CASE SendSucceeds \/ SendDiscards
  <2>1. /\ drain = "sending" /\ Advance /\ dropped' = dropped
        /\ Passed' = Passed \cup Range(batch)
    BY <1>1 DEF SendSucceeds, SendDiscards, Passed
  <2> QED
    BY <2>1, PlaceAdvances
<1>2. CASE SendThrows /\ Advance /\ dropped' = dropped \cup Range(batch)
  BY <1>2, PlaceAdvances DEF SendThrows, Passed
<1>3. CASE /\ SendThrows
           /\ pending' = batch \o pending /\ batch' = <<>>
           /\ UNCHANGED <<dropped, droppedBatches, callVars>>
  <2>1. Queue' = Queue
    BY <1>3, QueueRetried
  <2>2. calls' = calls /\ Passed' = Passed /\ dropped' = dropped
    BY <1>3 DEF SendThrows, Passed
  <2>3. HoldersOK(calls)
    BY DEF PlaceInv, Placed
  <2> QED
    BY <2>1, <2>2, <2>3, PlaceSame
<1>4. CASE SleepEnds
  <2>1. /\ Flushed(pending) \in {{}, flushResolvers} /\ Move(Range(<<>>), Flushed(pending))
        /\ Passed' = Passed /\ dropped' = dropped
    BY <1>4 DEF Flushed, SleepEnds, Release, Passed
  <2>2. Queue' = Queue
    BY <1>4, QueueSlept
  <2>3. /\ HeldIn(calls') = HeldIn(calls) /\ Overtook(calls') = Overtook(calls)
        /\ HoldersOK(calls')
    BY <2>1, PlaceMoved
  <2> QED
    BY <2>1, <2>2, <2>3, PlaceSame
<1> QED
  BY <1>1, <1>2, <1>3, <1>4 DEF Send, SendThrows

\* close() of the uploader: what is pending is lost, and the transport is closing.
LEMMA PlaceCloses ==
    ASSUME QueueInv, CallersTyped, StreamTyped, PlaceInv, closing, close, UNCHANGED transportVars
    PROVE  PlaceInv'
<1>1. batch \in Seq(Nat) /\ pending \in Seq(Nat)
  BY QueueIsSeq
<1>2. Queue' = batch
  BY <1>1, ConcatEmptySeq DEF close, Queue
<1>3. Placed(batch, streamEventBuffer, Passed \cup dropped, calls, written, FALSE)
  BY <1>1, PlacedLeave DEF PlaceInv, Queue
<1>4. Move(Range(backpressureResolvers), flushResolvers)
  BY DEF close
<1>5. /\ HeldIn(calls') = HeldIn(calls) /\ Overtook(calls') = Overtook(calls)
      /\ HoldersOK(calls')
  BY <1>4, PlaceMoved
<1>6. Placed(batch, streamEventBuffer, Passed \cup dropped, calls', written, FALSE)
  BY <1>3, <1>5, PlacedSame
<1>7. /\ streamEventBuffer' = streamEventBuffer /\ written' = written /\ (~closing)' = FALSE
      /\ Passed' = Passed /\ dropped' = dropped
  BY DEF close, StreamTyped, Passed
<1> QED
  BY <1>2, <1>6, <1>7 DEF PlaceInv

\* A released caller's events go behind the queue; after close() they are lost.
LEMMA PlaceResumes ==
    ASSUME QueueInv, CallersTyped, StreamTyped, PlaceInv, closed => closing,
           NEW c \in DOMAIN calls, calls[c].events \in Seq(Nat), Resume(c),
           UNCHANGED transportVars
    PROVE  PlaceInv'
<1> DEFINE es == calls[c].events
           phase == NewCall(es, calls[c].flushes).phase
           S == Passed \cup dropped
<1>1. /\ Add(es) /\ UNCHANGED <<closed, maxConsecutiveFailures, history>>
      /\ calls' = [calls EXCEPT ![c].phase = phase] /\ calls[c].phase = "woken"
  BY DEF Resume
<1>2. phase = IF Blocks(es) THEN "blocked"
              ELSE IF calls[c].flushes THEN "entered" ELSE "done"
  BY DEF NewCall
<1>3. /\ calls \in Seq(Call) /\ es \in Seq(Nat) /\ Queue \in Seq(Nat)
      /\ streamEventBuffer \in Seq(Nat) /\ written \in Nat /\ closing \in BOOLEAN
  BY QueueIsSeq DEF CallersTyped, CallersOK, StreamTyped
<1> HIDE DEF phase
<1>4. /\ DOMAIN calls' = DOMAIN calls
      /\ SameCall(calls[c], calls'[c]) /\ calls'[c].phase = phase
      /\ \A d \in DOMAIN calls : d # c => calls'[d] = calls[d]
  BY <1>1, <1>3, CallChanged
<1>5. Holds(calls[c]) /\ HoldersOK(calls)
  BY <1>1 DEF Holds, PlaceInv, Placed
<1>6. Placed(Queue, streamEventBuffer, S, calls, written, ~closing)
  BY DEF PlaceInv
<1>7. /\ Passed' = Passed /\ dropped' = dropped /\ closed' = closed
      /\ UNCHANGED transportVars
  BY <1>1 DEF Passed
<1>8. CASE Blocks(es)
  <2>1. Queue' = Queue
    BY <1>1, <1>3, <1>8, QueueAdded
  <2>2. Holds(calls'[c])
    BY <1>2, <1>4, <1>8 DEF Holds
  <2>3. \A d \in DOMAIN calls : /\ SameCall(calls[d], calls'[d])
                                /\ Holds(calls'[d]) <=> Holds(calls[d])
    BY <1>4, <1>5, <2>2 DEF SameCall
  <2>4. /\ HeldIn(calls') = HeldIn(calls) /\ Overtook(calls') = Overtook(calls)
        /\ HoldersOK(calls')
    BY <1>4, <1>5, <2>3, HeldSame
  <2> QED
    BY <1>7, <2>1, <2>4, PlaceSame
<1>9. CASE ~Blocks(es)
  <2>1. ~Holds(calls'[c])
    BY <1>2, <1>4, <1>9 DEF Holds
  <2>2. /\ HeldIn(calls') = HeldIn(calls) \ Range(es) /\ Overtook(calls') = Overtook(calls)
        /\ HoldersOK(calls') /\ Range(es) \subseteq HeldIn(calls) /\ Fine(es, Range(es))
    BY <1>4, <1>5, <2>1, HeldReleased
  <2> HIDE DEF es, S
  <2>3. /\ Placed(Queue \o es, streamEventBuffer, S, calls', written, ~closing)
        /\ Placed(Queue, streamEventBuffer, S, calls', written, FALSE)
    BY <1>3, <1>6, <2>2, PlacedReleased
  <2>4. Queue' = IF closed THEN Queue ELSE Queue \o es
    BY <1>1, <1>3, <1>9, QueueAdded
  <2>5. Placed(Queue', streamEventBuffer, S, calls', written, ~closing)
    <3>1. CASE closed
      <4>1. closing /\ Queue' = Queue
        BY <2>4, <3>1
      <4> QED
        BY <2>3, <4>1 DEF Placed
    <3>2. CASE ~closed
      BY <2>3, <2>4, <3>2
    <3> QED
      BY <3>1, <3>2
  <2>6. S = (Passed \cup dropped)' /\ (Passed \cap dropped)' = {}
    BY <1>7 DEF S, PlaceInv
  <2> QED
    BY <1>7, <2>5, <2>6 DEF PlaceInv
<1> QED
  BY <1>8, <1>9

LEMMA PlaceFlushes ==
    ASSUME QueueInv, CallersTyped, PlaceInv, NEW c \in DOMAIN calls, flush(c),
           UNCHANGED transportVars
    PROVE  PlaceInv'
<1> DEFINE phase == IF IsDrained THEN "done" ELSE "flushing"
<1>1. /\ Kick(pending) /\ UNCHANGED <<closed, maxConsecutiveFailures, history>>
      /\ calls' = [calls EXCEPT ![c].phase = phase] /\ calls[c].phase = "entered"
  BY DEF flush
<1>2. Queue' = Queue
  BY <1>1, QueueIsSeq, Kicking DEF Queue
<1>3. calls \in Seq(Call) /\ phase \in {"done", "flushing"} /\ HoldersOK(calls)
  BY DEF CallersTyped, CallersOK, PlaceInv, Placed
<1> HIDE DEF phase
<1>4. /\ DOMAIN calls' = DOMAIN calls
      /\ SameCall(calls[c], calls'[c]) /\ calls'[c].phase = phase
      /\ \A d \in DOMAIN calls : d # c => calls'[d] = calls[d]
  BY <1>1, <1>3, CallChanged
<1>5. ~Holds(calls[c]) /\ ~Holds(calls'[c])
  BY <1>1, <1>3, <1>4 DEF Holds
<1>6. \A d \in DOMAIN calls : /\ SameCall(calls[d], calls'[d])
                              /\ Holds(calls'[d]) <=> Holds(calls[d])
  BY <1>4, <1>5 DEF SameCall
<1>7. /\ HeldIn(calls') = HeldIn(calls) /\ Overtook(calls') = Overtook(calls)
      /\ HoldersOK(calls')
  BY <1>3, <1>4, <1>6, HeldSame
<1> QED
  BY <1>1, <1>2, <1>7, PlaceSame DEF Passed

LEMMA PlaceNext == ASSUME Inv, CloserInv, PlaceInv, [Next]_vars PROVE PlaceInv'
<1>1. /\ QueueInv /\ QueueTyped /\ CallersTyped /\ StreamTyped
      /\ closed => closing
  BY InvParts DEF QueueInv, CloserInv
<1>2. /\ streamEventBuffer \in Seq(Nat) /\ written \in Nat /\ closing \in BOOLEAN
      /\ calls \in Seq(Call) /\ HoldersOK(calls)
  BY <1>1 DEF StreamTyped, CallersTyped, CallersOK, PlaceInv, Placed
<1>3. \A n \in Nat : NewMessages(n) = NextMessages(written, n)
  BY DEF NewMessages, NextMessages
<1>4. CASE WriteStreamEvent
  <2>1. /\ streamEventBuffer' = streamEventBuffer \o NextMessages(written, 1)
        /\ written' = written + 1 /\ closing' = closing /\ Queue' = Queue
        /\ calls' = calls /\ Passed' = Passed /\ dropped' = dropped
    BY <1>3, <1>4 DEF WriteStreamEvent, Queue, Passed
  <2>2. Placed(Queue, streamEventBuffer \o NextMessages(written, 1), Passed \cup dropped,
               calls, written + 1, ~closing)
    BY <1>2, PlacedNew DEF PlaceInv
  <2> QED
    BY <2>1, <2>2 DEF PlaceInv
<1>5. ASSUME NEW n \in 0..MaxMessages, Write(n) PROVE PlaceInv'
  <2>1. n \in Nat /\ NewMessages(n) = NextMessages(written, n)
    BY <1>3
  <2> QED
    BY <1>1, <1>5, <2>1, PlaceWritten DEF Write, enqueue, takeStreamEvents
<1>6. CASE Flush
  <2> DEFINE es == streamEventBuffer
             done == pending' = <<>> /\ drain' = "idle"
             call == [NewCall(<<>>, TRUE) EXCEPT
                        !.events = batch' \o pending',
                        !.phase = IF done THEN "done" ELSE "flushing"]
  <2>1. /\ Add(es) /\ es' = <<>>
        /\ UNCHANGED <<closed, maxConsecutiveFailures, history, closing, written>>
        /\ calls' = Append(IF Blocks(es) THEN Append(calls, NewCall(es, FALSE)) ELSE calls,
                           call)
    BY <1>6 DEF Flush, takeStreamEvents
  <2>2. batch' \o pending' \in Seq(Nat)
    <3>1. QueueInv'
      BY <1>1, <1>2, <2>1, Adding
    <3> QED
      BY <3>1, ConcatNat DEF QueueInv, QueueTyped
  <2>3. call \in Call /\ ~Holds(call) /\ ~call.waited
    <3>1. NewCall(<<>>, TRUE) \in Call /\ ~NewCall(<<>>, TRUE).waited
      BY <1>1, EmptySeq, NewCallTyped DEF NewCall, Blocks
    <3> DEFINE new == NewCall(<<>>, TRUE)
               phase == IF done THEN "done" ELSE "flushing"
    <3>2. new \in Call /\ ~new.waited /\ phase \in {"done", "flushing"}
      BY <3>1
    <3>3. call = [new EXCEPT !.events = batch' \o pending', !.phase = phase]
      OBVIOUS
    <3> HIDE DEF new, phase, call
    <3>4. call \in Call /\ call.phase = phase /\ call.waited = new.waited
      BY <2>2, <3>2, <3>3 DEF Call
    <3> QED
      BY <3>2, <3>4 DEF Holds
  <2> HIDE DEF call
  <2>4. PICK cs : cs = IF Blocks(es) THEN Append(calls, NewCall(es, FALSE)) ELSE calls
    OBVIOUS
  <2>5. \E call2 \in Call : ~Holds(call2) /\ ~call2.waited /\ calls' = Append(cs, call2)
    BY <2>1, <2>3, <2>4
  <2> QED
    BY <1>1, <2>1, <2>4, <2>5, PlaceFlushed
<1>7. CASE Close
  <2>1. /\ streamEventBuffer' = <<>> /\ written' = written /\ (~closing)' = FALSE
        /\ calls' = calls /\ Passed' = Passed /\ dropped' = dropped /\ Queue' = Queue
    BY <1>7 DEF Close, takeStreamEvents, Queue, Passed
  <2>2. Placed(Queue, <<>>, Passed \cup dropped, calls, written, FALSE)
    BY <1>2, PlacedDropped DEF PlaceInv
  <2> QED
    BY <2>1, <2>2 DEF PlaceInv
<1>8. CASE FlushStreamEvents
  BY <1>1, <1>8, PlaceFlushed DEF FlushStreamEvents, enqueueUnawaited, takeStreamEvents
<1>9. CASE GraceExpires \/ UNCHANGED vars
  <2>1. /\ Queue' = Queue /\ UNCHANGED <<Passed, dropped, transportVars>> /\ calls' = calls
    BY <1>9 DEF GraceExpires, vars, Queue, Passed
  <2> QED
    BY <1>2, <2>1, PlaceSame
<1>10. CASE Uploader
  <2>1. UNCHANGED transportVars
    BY <1>10 DEF Uploader
  <2>2. CASE Send \/ SleepEnds
    BY <1>1, <2>1, <2>2, PlaceDrains
  <2>3. CASE micro # <<>> /\ Head(micro) = Closer /\ close
    <3>1. micro \in Seq(DOMAIN calls \cup {Closer})
      BY <1>1 DEF CallersTyped, CallersOK
    <3>2. closing
      BY <2>3, <3>1, TailRange DEF CloserInv
    <3> QED
      BY <1>1, <2>1, <2>3, <3>2, PlaceCloses
  <2>4. CASE /\ micro # <<>> /\ Head(micro) # Closer
             /\ Resume(Head(micro)) \/ flush(Head(micro))
    BY <1>1, <2>1, <2>4, CallContinued, PlaceResumes, PlaceFlushes
  <2> QED
    BY <1>10, <2>2, <2>3, <2>4 DEF Uploader, RunMicro
<1> QED
  BY <1>4, <1>5, <1>6, <1>7, <1>8, <1>9, <1>10 DEF Next, Application

LEMMA PlaceInit == Init => PlaceInv /\ CloserInv
<1> SUFFICES ASSUME Init PROVE PlaceInv /\ CloserInv
  OBVIOUS
<1>1. /\ calls = <<>> /\ streamEventBuffer = <<>> /\ written = 0
      /\ Passed = {} /\ dropped = {} /\ closed = FALSE
      /\ micro = <<>> /\ flushResolvers = {}
  BY DEF Init, UploaderInit, Passed
<1>2. Queue = <<>>
  BY EmptySeq, ConcatEmptySeq DEF Init, UploaderInit, Queue
<1>3. Range(<<>>) = {} /\ DOMAIN <<>> = {} /\ 1..0 = {}
  BY DEF Range
<1>4. HeldIn(<<>>) = {} /\ HoldersOK(<<>>)
  BY <1>3 DEF HeldIn, HoldersOK
<1>5. OrderOK(<<>>, <<>>, {}, {}, Overtook(<<>>), 0)
  BY <1>3 DEF OrderOK, Fine, Fits
<1>6. Covers(<<>>, <<>>, {}, {}, 0)
  BY <1>3 DEF Covers
<1>7. Placed(<<>>, <<>>, {}, <<>>, 0, ~closing)
  BY <1>4, <1>5, <1>6 DEF Placed
<1> QED
  BY <1>1, <1>2, <1>3, <1>7 DEF PlaceInv, CloserInv

\* What the invariant says, in the words of the property.
LEMMA PlacesParts ==
    ASSUME Inv, PlaceInv
    PROVE  /\ Overtaken = Overtook(calls) /\ Events(Waiting) = HeldIn(calls)
           /\ Range(Queue) = Range(batch) \cup Range(pending)
           /\ Fits(Range(batch), Range(pending), Overtook(calls))
<1>1. ASSUME NEW e PROVE e \in Overtaken <=> e \in Overtook(calls)
  <2>1. e \in Overtaken <=> \E call \in Range(calls) : call.waited /\ e \in Range(call.events)
    BY DEF Overtaken, Events
  <2>2. e \in Overtook(calls) <=>
          \E c \in DOMAIN calls : calls[c].waited /\ e \in Range(calls[c].events)
    BY HeldParts
  <2> QED
    BY <2>1, <2>2 DEF Range
<1>2. ASSUME NEW e PROVE e \in Events(Waiting) <=> e \in HeldIn(calls)
  <2>1. e \in Events(Waiting) <=>
          \E call \in Range(calls) : Holds(call) /\ e \in Range(call.events)
    BY DEF Waiting, Events, Holds
  <2>2. e \in HeldIn(calls) <=>
          \E c \in DOMAIN calls : Holds(calls[c]) /\ e \in Range(calls[c].events)
    BY HeldParts
  <2> QED
    BY <2>1, <2>2 DEF Range
<1>3. batch \in Seq(Nat) /\ pending \in Seq(Nat)
  BY InvParts, QueueIsSeq
<1>4. Fine(batch \o pending, Overtook(calls))
  BY DEF PlaceInv, Placed, OrderOK, Queue
<1> QED
  BY <1>1, <1>2, <1>3, <1>4, ConcatRange, FineConcat DEF Queue

LEMMA SevenPlaces ==
    ASSUME NEW a, NEW b, NEW c, NEW d, NEW e, NEW f, NEW g
    PROVE  UNION Range(<<a, b, c, d, e, f, g>>) =
             a \cup b \cup c \cup d \cup e \cup f \cup g
<1> DEFINE t == <<a, b, c, d, e, f, g>>
<1>1. DOMAIN t = 1..7 /\ 1..7 = {1, 2, 3, 4, 5, 6, 7}
  OBVIOUS
<1>2. /\ t[1] = a /\ t[2] = b /\ t[3] = c /\ t[4] = d /\ t[5] = e /\ t[6] = f
      /\ t[7] = g
  OBVIOUS
<1> HIDE DEF t
<1>3. ASSUME NEW x
      PROVE  x \in UNION Range(t) <=> \E i \in {1, 2, 3, 4, 5, 6, 7} : x \in t[i]
  BY <1>1 DEF Range
<1>4. ASSUME NEW x
      PROVE  x \in UNION Range(t) <=>
               x \in a \cup b \cup c \cup d \cup e \cup f \cup g
  BY <1>2, <1>3
<1> QED
  BY <1>4 DEF t

\* No event is both answered and discarded: what is queued is neither.
ApartInv == answered \cap discarded = {}

LEMMA ApartNext == ASSUME Inv, PlaceInv, ApartInv, [Next]_vars PROVE ApartInv'
<1>1. \A e \in Range(Queue) : e \notin answered /\ e \notin discarded
  BY DEF PlaceInv, Placed, OrderOK, Fits, Passed
<1>2. ASSUME drain = "sending", Advance
      PROVE  \A e \in Range(batch) : e \notin answered /\ e \notin discarded
  BY <1>1, <1>2, InvParts, QueueAdvanced
<1>3. CASE answered' = answered /\ discarded' = discarded
  BY <1>3 DEF ApartInv
<1>4. CASE Application \/ FlushStreamEvents \/ GraceExpires \/ UNCHANGED vars
  BY <1>3, <1>4 DEF Application, WriteStreamEvent, Write, Flush, Close, enqueue,
     FlushStreamEvents, enqueueUnawaited, GraceExpires, vars, uploaderVars, history
<1>5. CASE Uploader
  <2>1. CASE SendSucceeds
    BY <1>2, <2>1 DEF SendSucceeds, ApartInv
  <2>2. CASE SendDiscards
    BY <1>2, <2>2 DEF SendDiscards, ApartInv
  <2>3. CASE SendThrows
    BY <1>3, <2>3 DEF SendThrows
  <2>4. CASE SleepEnds
    BY <1>3, <2>4 DEF SleepEnds, history
  <2>5. CASE RunMicro
    BY <1>3, <2>5 DEF RunMicro, Resume, flush, close, history
  <2> QED
    BY <1>5, <2>1, <2>2, <2>3, <2>4, <2>5 DEF Uploader, Send
<1> QED
  BY <1>4, <1>5 DEF Next

LEMMA ApartInit == Init => ApartInv
BY DEF Init, UploaderInit, ApartInv

\* Messages are posted in the order of their writes unless backpressure held
\* one up, and until close() each is in exactly one place: buffered, held by a
\* blocked caller, in flight, pending, answered, discarded or dropped.
THEOREM NoMessageMisplaced == Spec => []MessagesInPlace
<1>1. Inv /\ PlaceInv /\ ApartInv => MessagesInPlace
  <2> SUFFICES ASSUME Inv, PlaceInv, ApartInv PROVE InWriteOrder /\ EveryMessageIsSomewhere
    BY DEF MessagesInPlace
  <2>1. /\ Overtaken = Overtook(calls) /\ Events(Waiting) = HeldIn(calls)
        /\ Range(Queue) = Range(batch) \cup Range(pending)
        /\ Fits(Range(batch), Range(pending), Overtook(calls))
    BY PlacesParts
  <2> DEFINE S == answered \cup discarded \cup dropped
             H == HeldIn(calls)
             O == Overtook(calls)
             B == Range(streamEventBuffer)
             R == Range(Queue)
  <2>2. /\ Fine(Queue, O) /\ Fits(S, R, O) /\ Fits(S \cup R \cup H, B, {})
        /\ H \cap (S \cup R) = {} /\ S \cup R \cup H \cup B \subseteq 1..written
        /\ answered \cap dropped = {} /\ discarded \cap dropped = {}
        /\ answered \cap discarded = {}
        /\ ~closing => 1..written \subseteq R \cup B \cup S \cup H
    BY DEF PlaceInv, Placed, OrderOK, Covers, Passed, ApartInv
  <2>3. InWriteOrder
    BY <2>1, <2>2 DEF InWriteOrder, Fine, Fits
  <2>4. \A i, j \in DOMAIN Queue : i # j => Queue[i] # Queue[j]
    <3>1. Queue \in Seq(Nat)
      BY InvParts, QueueIsSeq
    <3>2. DOMAIN Queue \subseteq Nat
      BY <3>1, LenProperties
    <3>3. \A i, j \in DOMAIN Queue : i # j => i < j \/ j < i
      BY <3>2
    <3> QED
      BY <2>2, <3>3 DEF Fine
  <2>5. /\ \A x \in B : x \notin H /\ x \notin R /\ x \notin S
        /\ \A x \in H : x \notin R /\ x \notin S
        /\ \A x \in R : x \notin S
        /\ \A x \in Range(batch) : x \notin Range(pending)
    BY <2>1, <2>2 DEF Fits
  <2> HIDE DEF S, H, O, B, R
  <2>6. /\ B \cap H = {} /\ B \cap Range(batch) = {} /\ B \cap Range(pending) = {}
        /\ B \cap answered = {} /\ B \cap discarded = {}
        /\ B \cap dropped = {}
        /\ H \cap Range(batch) = {} /\ H \cap Range(pending) = {}
        /\ H \cap answered = {} /\ H \cap discarded = {}
        /\ H \cap dropped = {}
        /\ Range(batch) \cap Range(pending) = {}
        /\ Range(batch) \cap answered = {} /\ Range(batch) \cap discarded = {}
        /\ Range(batch) \cap dropped = {}
        /\ Range(pending) \cap answered = {} /\ Range(pending) \cap discarded = {}
        /\ Range(pending) \cap dropped = {}
        /\ answered \cap dropped = {} /\ discarded \cap dropped = {}
        /\ answered \cap discarded = {}
    BY <2>1, <2>2, <2>5 DEF R, S
  <2>7. Places = <<B, H, Range(batch), Range(pending), answered, discarded, dropped>>
    BY <2>1 DEF Places, B, H
  <2>8. \A i, j \in DOMAIN Places : i # j => Places[i] \cap Places[j] = {}
    BY <2>6, <2>7
  <2>9. ~closing => UNION Range(Places) = 1..written
    <3>1. UNION Range(Places) =
            B \cup H \cup Range(batch) \cup Range(pending) \cup answered
              \cup discarded \cup dropped
      BY <2>7, SevenPlaces
    <3>2. UNION Range(Places) = S \cup R \cup H \cup B
      BY <2>1, <3>1 DEF R, S
    <3> QED
      BY <2>2, <3>2
  <2> QED
    BY <2>3, <2>4, <2>8, <2>9 DEF EveryMessageIsSomewhere
<1>2. Inv /\ CloserInv /\ PlaceInv /\ [Next]_vars => PlaceInv' /\ CloserInv'
  BY PlaceNext, CloserNext
<1>3. Inv /\ PlaceInv /\ ApartInv /\ [Next]_vars => ApartInv'
  BY ApartNext
<1> QED
  BY <1>1, <1>2, <1>3, PlaceInit, ApartInit, Invariant, PTL DEF Spec

-----------------------------------------------------------------------------
(* Who is woken.  What waits for a promise has someone who will resolve    *)
(* it, and each continuation finds its call as it left it.                 *)

LEMMA InjectiveAppend ==
    ASSUME NEW S, NEW s \in Seq(S), NEW e \in S, IsInjective(s), e \notin Range(s)
    PROVE  IsInjective(Append(s, e))
<1>1. /\ Append(s, e) \in Seq(S) /\ Len(Append(s, e)) = Len(s) + 1
      /\ \A i \in 1..Len(s) : Append(s, e)[i] = s[i]
      /\ Append(s, e)[Len(s) + 1] = e
  BY AppendProperties
<1>2. /\ Len(s) \in Nat /\ DOMAIN s = 1..Len(s)
      /\ DOMAIN Append(s, e) = 1..Len(s) + 1
  BY <1>1, LenProperties
<1>3. \A i \in 1..Len(s) : s[i] # e
  BY <1>2 DEF Range
<1>4. \A i \in DOMAIN Append(s, e) : i \in 1..Len(s) \/ i = Len(s) + 1
  BY <1>2
<1>5. \A i, j \in 1..Len(s) : s[i] = s[j] => i = j
  BY <1>2 DEF IsInjective
<1> HIDE DEF IsInjective
<1> QED
  BY <1>1, <1>3, <1>4, <1>5 DEF IsInjective

LEMMA InjectiveTail ==
    ASSUME NEW S, NEW s \in Seq(S), s # <<>>, IsInjective(s)
    PROVE  IsInjective(Tail(s)) /\ Range(Tail(s)) = Range(s) \ {Head(s)}
<1>1. /\ Tail(s) \in Seq(S) /\ Len(Tail(s)) = Len(s) - 1
      /\ \A i \in 1..Len(Tail(s)) : Tail(s)[i] = s[i + 1]
      /\ Head(s) = s[1] /\ Len(s) \in Nat \ {0} /\ DOMAIN s = 1..Len(s)
  <2>1. Len(s) \in Nat /\ DOMAIN s = 1..Len(s) /\ Len(s) # 0
    BY LenProperties, EmptySeq
  <2> QED
    BY <2>1, HeadTailProperties
<1>2. /\ DOMAIN Tail(s) = 1..Len(s) - 1
      /\ \A i \in 1..Len(s) - 1 : Tail(s)[i] = s[i + 1]
  BY <1>1, LenProperties
<1>3. \A i \in 1..Len(s) - 1 : i \in Int /\ i + 1 \in DOMAIN s /\ i + 1 # 1
  BY <1>1
<1>4. \A i, j \in DOMAIN s : s[i] = s[j] => i = j
  BY DEF IsInjective
<1>5. IsInjective(Tail(s))
  <2> SUFFICES ASSUME NEW i \in 1..Len(s) - 1, NEW j \in 1..Len(s) - 1,
                      Tail(s)[i] = Tail(s)[j]
               PROVE  i = j
    BY <1>2 DEF IsInjective
  <2>1. i + 1 = j + 1
    BY <1>2, <1>3, <1>4
  <2> QED
    BY <1>3, <2>1
<1>6. \A x \in Range(Tail(s)) : x \in Range(s) /\ x # Head(s)
  <2> SUFFICES ASSUME NEW i \in 1..Len(s) - 1
               PROVE  Tail(s)[i] \in Range(s) /\ Tail(s)[i] # Head(s)
    BY <1>2 DEF Range
  <2>1. 1 \in DOMAIN s
    BY <1>1
  <2> QED
    BY <1>1, <1>2, <1>3, <1>4, <2>1 DEF Range
<1>7. \A x \in Range(s) : x # Head(s) => x \in Range(Tail(s))
  <2> SUFFICES ASSUME NEW i \in 1..Len(s), i # 1 PROVE s[i] \in Range(Tail(s))
    BY <1>1 DEF Range
  <2>1. i - 1 \in 1..Len(s) - 1 /\ (i - 1) + 1 = i
    BY <1>1
  <2>2. Tail(s)[i - 1] = s[i]
    BY <1>2, <2>1
  <2> QED
    BY <1>2, <2>1, <2>2 DEF Range
<1> QED
  BY <1>5, <1>6, <1>7

LEMMA InjectiveConcat ==
    ASSUME NEW S, NEW s \in Seq(S), NEW t \in Seq(S), IsInjective(s), IsInjective(t),
           Range(s) \cap Range(t) = {}
    PROVE  IsInjective(s \o t)
<1>1. /\ s \o t \in Seq(S) /\ Len(s \o t) = Len(s) + Len(t)
      /\ \A i \in 1..Len(s) + Len(t) :
            (s \o t)[i] = IF i <= Len(s) THEN s[i] ELSE t[i - Len(s)]
  BY ConcatProperties
<1>2. /\ Len(s) \in Nat /\ DOMAIN s = 1..Len(s)
      /\ Len(t) \in Nat /\ DOMAIN t = 1..Len(t)
      /\ DOMAIN (s \o t) = 1..Len(s) + Len(t)
  BY <1>1, LenProperties
<1> DEFINE u == s \o t
<1>3. \A i \in DOMAIN u :
        \/ i \in DOMAIN s /\ u[i] = s[i]
        \/ i \in Int /\ i - Len(s) \in DOMAIN t /\ u[i] = t[i - Len(s)]
  BY <1>1, <1>2
<1>4. /\ \A i, j \in DOMAIN s : s[i] = s[j] => i = j
      /\ \A i, j \in DOMAIN t : t[i] = t[j] => i = j
      /\ \A i \in DOMAIN s, j \in DOMAIN t : s[i] # t[j]
  BY DEF IsInjective, Range
<1> HIDE DEF u
<1> SUFFICES ASSUME NEW i \in DOMAIN u, NEW j \in DOMAIN u, u[i] = u[j] PROVE i = j
  BY DEF IsInjective, u
<1>5. CASE i \in DOMAIN s /\ u[i] = s[i]
  BY <1>3, <1>4, <1>5
<1>6. CASE i \in Int /\ i - Len(s) \in DOMAIN t /\ u[i] = t[i - Len(s)]
  <2>1. j \in Int /\ j - Len(s) \in DOMAIN t /\ u[j] = t[j - Len(s)]
    BY <1>3, <1>4, <1>6
  <2>2. i - Len(s) = j - Len(s)
    BY <1>4, <1>6, <2>1
  <2> QED
    BY <1>2, <1>6, <2>1, <2>2
<1> QED
  BY <1>3, <1>5, <1>6

\* The continuations are those of the calls that can go on, one for each, and
\* that of close().
Resumable == {"woken", "entered"}

ReadyOK(cs, blocked, flushes, conts) ==
    /\ IsInjective(conts) /\ IsInjective(blocked)
    /\ Range(conts) \ {Closer} = {c \in DOMAIN cs : cs[c].phase \in Resumable}
    /\ Closer \in flushes => Closer \notin Range(conts)

LEMMA ReadyStarts ==
    ASSUME NEW cs, NEW bs, NEW fs, NEW ms, CallersOK(cs, bs, fs, ms),
           ReadyOK(cs, bs, fs, ms), NEW call \in Call, NEW c, c = Len(cs) + 1
    PROVE  /\ call.phase = "blocked" =>
                ReadyOK(Append(cs, call), Append(bs, c), fs, ms)
           /\ call.phase = "flushing" =>
                ReadyOK(Append(cs, call), bs, fs \cup {c}, ms)
           /\ call.phase = "entered" =>
                ReadyOK(Append(cs, call), bs, fs, Append(ms, c))
           /\ call.phase = "done" =>
                ReadyOK(Append(cs, call), bs, fs, ms)
<1> DEFINE cs2 == Append(cs, call)
           all == DOMAIN cs \cup {Closer, c}
<1>1. /\ DOMAIN cs2 = DOMAIN cs \cup {c} /\ c \notin DOMAIN cs
      /\ \A d \in DOMAIN cs : cs2[d] = cs[d]
      /\ cs2[c] = call
  BY CallAppended DEF CallersOK
<1>2. c # Closer
  <2>1. Len(cs) \in Nat
    BY LenProperties DEF CallersOK
  <2> QED
    BY <2>1 DEF Closer
<1> HIDE DEF cs2
<1>3. bs \in Seq(all) /\ ms \in Seq(all) /\ c \in all
  <2>1. /\ bs \in Seq(DOMAIN cs) /\ DOMAIN cs \subseteq all
        /\ ms \in Seq(DOMAIN cs \cup {Closer}) /\ DOMAIN cs \cup {Closer} \subseteq all
    BY DEF CallersOK
  <2> HIDE DEF all
  <2>2. bs \in Seq(all)
    BY <2>1, SeqMonotonic
  <2>3. ms \in Seq(all)
    BY <2>1, SeqMonotonic
  <2> QED
    BY <2>2, <2>3 DEF all
<1>4. c \notin Range(bs) /\ c \notin Range(ms)
  BY <1>1, <1>2 DEF CallersOK, ReadyOK
<1>5. IsInjective(Append(bs, c)) /\ IsInjective(Append(ms, c))
  <2> HIDE DEF all
  <2> QED
    BY <1>3, <1>4, InjectiveAppend DEF ReadyOK
<1>6. Range(Append(ms, c)) = Range(ms) \cup {c}
  <2> HIDE DEF all
  <2> QED
    BY <1>3, AppendRange
<1>7. {d \in DOMAIN cs2 : cs2[d].phase \in Resumable} =
        (Range(ms) \ {Closer}) \cup (IF call.phase \in Resumable THEN {c} ELSE {})
  BY <1>1 DEF ReadyOK
<1>8. (Range(ms) \cup {c}) \ {Closer} = (Range(ms) \ {Closer}) \cup {c}
  BY <1>2
<1> QED
  BY <1>2, <1>5, <1>6, <1>7, <1>8 DEF ReadyOK, cs2, Resumable

LEMMA ReadyGoesOn ==
    ASSUME NEW cs, NEW bs, NEW fs, NEW ms, CallersOK(cs, bs, fs, ms),
           ReadyOK(cs, bs, fs, ms), ms # <<>>, NEW c \in DOMAIN cs, c = Head(ms),
           NEW phase \in {"blocked", "entered", "flushing", "done"}
    PROVE  LET cs2 == [cs EXCEPT ![c].phase = phase]
           IN /\ phase = "blocked" => ReadyOK(cs2, Append(bs, c), fs, Tail(ms))
              /\ phase = "flushing" => ReadyOK(cs2, bs, fs \cup {c}, Tail(ms))
              /\ phase = "entered" => ReadyOK(cs2, bs, fs, Append(Tail(ms), c))
              /\ phase = "done" => ReadyOK(cs2, bs, fs, Tail(ms))
<1> DEFINE cs2 == [cs EXCEPT ![c].phase = phase]
           all == DOMAIN cs \cup {Closer}
<1>1. /\ DOMAIN cs2 = DOMAIN cs /\ cs2[c].phase = phase
      /\ \A d \in DOMAIN cs : d # c => cs2[d] = cs[d]
  <2>1. cs \in Seq(Call)
    BY DEF CallersOK
  <2> QED
    BY <2>1, CallChanged
<1>2. c # Closer
  <2>1. DOMAIN cs = 1..Len(cs) /\ Len(cs) \in Nat
    BY LenProperties DEF CallersOK
  <2> QED
    BY <2>1 DEF Closer
<1> HIDE DEF cs2
<1>3. ms \in Seq(all) /\ bs \in Seq(DOMAIN cs) /\ c \in all
  BY DEF CallersOK
<1>4. /\ IsInjective(Tail(ms)) /\ Range(Tail(ms)) = Range(ms) \ {c}
      /\ Tail(ms) \in Seq(all) /\ c \in Range(ms)
  <2> HIDE DEF all
  <2> QED
    BY <1>3, InjectiveTail, TailRange DEF ReadyOK
<1>5. cs[c].phase \in Resumable
  BY <1>2, <1>4 DEF ReadyOK
<1>6. c \notin Range(bs)
  BY <1>5 DEF CallersOK, Resumable
<1>7. IsInjective(Append(bs, c))
  BY <1>3, <1>6, InjectiveAppend DEF ReadyOK
<1>8. /\ IsInjective(Append(Tail(ms), c))
      /\ Range(Append(Tail(ms), c)) = Range(Tail(ms)) \cup {c}
  <2> DEFINE t == Tail(ms)
  <2>1. t \in Seq(all) /\ c \in all /\ IsInjective(t) /\ c \notin Range(t)
    BY <1>3, <1>4
  <2> HIDE DEF all, t
  <2>2. IsInjective(Append(t, c))
    BY <2>1, InjectiveAppend
  <2>3. Range(Append(t, c)) = Range(t) \cup {c}
    BY <2>1, AppendRange
  <2> QED
    BY <2>2, <2>3 DEF t
<1>9. {d \in DOMAIN cs2 : cs2[d].phase \in Resumable} =
        ((Range(ms) \ {Closer}) \ {c}) \cup (IF phase \in Resumable THEN {c} ELSE {})
  BY <1>1 DEF ReadyOK
<1>10. /\ (Range(ms) \ {c}) \ {Closer} = (Range(ms) \ {Closer}) \ {c}
       /\ ((Range(ms) \ {c}) \cup {c}) \ {Closer} = ((Range(ms) \ {Closer}) \ {c}) \cup {c}
  BY <1>2
<1> QED
  BY <1>2, <1>4, <1>7, <1>8, <1>9, <1>10 DEF ReadyOK, cs2, Resumable

LEMMA ReadyReleased ==
    ASSUME CallersTyped, ReadyOK(calls, backpressureResolvers, flushResolvers, micro),
           NEW bs \in {<<>>, backpressureResolvers}, NEW done \in {{}, flushResolvers},
           Release(bs, done)
    PROVE  /\ ReadyOK(calls, backpressureResolvers, flushResolvers, micro)'
           /\ Closer \in Range(micro) \cup flushResolvers =>
                Closer \in Range(micro') \cup flushResolvers'
<1> DEFINE all == DOMAIN calls \cup {Closer}
           last == IF Closer \in done THEN <<Closer>> ELSE <<>>
           new == Range(bs)
<1>1. /\ bs \in Seq(DOMAIN calls) /\ micro \in Seq(all) /\ Closer \notin DOMAIN calls
      /\ DOMAIN calls \subseteq all /\ Closer \in all
  BY CallNumbers, EmptySeq DEF CallersTyped, CallersOK
<1>2. bs \in Seq(all)
  <2> HIDE DEF all
  <2> QED
    BY <1>1, SeqMonotonic
<1>3. Range(<<>>) = {} /\ IsInjective(<<>>)
  BY DEF Range, IsInjective
<1>4. /\ new \subseteq DOMAIN calls /\ IsInjective(bs)
      /\ new \in {{}, {c \in DOMAIN calls : calls[c].phase = "blocked"}}
  BY <1>3 DEF CallersTyped, CallersOK, ReadyOK
<1>5. /\ last \in Seq(all) /\ IsInjective(last)
      /\ Range(last) = IF Closer \in done THEN {Closer} ELSE {}
  <2>1. /\ <<Closer>> \in Seq(all) /\ IsInjective(<<Closer>>)
        /\ Range(<<Closer>>) = {Closer}
    <3> HIDE DEF all
    <3> QED
      BY <1>1 DEF IsInjective, Range
  <2>2. <<>> \in Seq(all)
    BY EmptySeq
  <2> QED
    BY <1>3, <2>1, <2>2
<1>6. new \cap Range(micro) = {} /\ Closer \notin new
  <2>1. \A c \in new : calls[c].phase = "blocked" /\ c # Closer
    BY <1>1, <1>4
  <2>2. \A c \in Range(micro) \ {Closer} : calls[c].phase \in Resumable
    BY DEF ReadyOK
  <2> QED
    BY <2>1, <2>2 DEF Resumable
<1>7. Range(last) \cap (Range(micro) \cup new) = {}
  BY <1>5, <1>6 DEF ReadyOK
<1>8. micro' = (micro \o bs) \o last /\ flushResolvers' = flushResolvers \ done
  BY DEF Release
<1> DEFINE front == micro \o bs
<1> HIDE DEF all, last
<1>9. /\ front \in Seq(all) /\ Range(front) = Range(micro) \cup new
  BY <1>1, <1>2, ConcatRange
<1>10. IsInjective(front)
  BY <1>1, <1>2, <1>4, <1>6, InjectiveConcat DEF ReadyOK
<1> HIDE DEF front, new
<1>11. IsInjective(front \o last)
  BY <1>5, <1>7, <1>9, <1>10, InjectiveConcat
<1>12. Range(front \o last) = Range(front) \cup Range(last)
  BY <1>5, <1>9, ConcatRange
<1>13. /\ IsInjective(micro')
       /\ Range(micro') = Range(micro) \cup new \cup (IF Closer \in done THEN {Closer} ELSE {})
  BY <1>5, <1>8, <1>9, <1>11, <1>12 DEF front
<1>14. IsInjective(backpressureResolvers')
  BY <1>3 DEF Release, ReadyOK
<1>15. /\ DOMAIN calls' = DOMAIN calls
       /\ \A c \in DOMAIN calls :
            calls'[c].phase = IF c \in new THEN "woken"
                              ELSE IF c \in done THEN "done" ELSE calls[c].phase
  BY Moving DEF Release, new
<1>16. \A c \in DOMAIN calls : c \in done => calls[c].phase = "flushing"
  BY CallNumbers DEF CallersTyped, CallersOK
<1>17. {c \in DOMAIN calls' : calls'[c].phase \in Resumable} = (Range(micro) \ {Closer}) \cup new
  <2>1. ASSUME NEW c \in DOMAIN calls
        PROVE  calls'[c].phase \in Resumable <=> calls[c].phase \in Resumable \/ c \in new
    BY <1>15, <1>16, <2>1 DEF Resumable
  <2> QED
    BY <1>4, <1>15, <2>1 DEF ReadyOK, new
<1>18. Range(micro') \ {Closer} = (Range(micro) \ {Closer}) \cup new
  BY <1>6, <1>13
<1>19. Closer \in flushResolvers' => Closer \notin Range(micro')
  BY <1>6, <1>8, <1>13 DEF ReadyOK
<1>20. /\ ReadyOK(calls', backpressureResolvers', flushResolvers', micro')
  BY <1>13, <1>14, <1>17, <1>18, <1>19 DEF ReadyOK
<1> QED
  BY <1>8, <1>13, <1>20

\* close() of the uploader wakes the blocked callers behind what runs already.
LEMMA ReadyCloses ==
    ASSUME CallersTyped, ReadyOK(calls, backpressureResolvers, flushResolvers, micro),
           micro # <<>>, Head(micro) = Closer, close
    PROVE  ReadyOK(calls, backpressureResolvers, flushResolvers, micro)'
<1> DEFINE all == DOMAIN calls \cup {Closer}
           bs == backpressureResolvers
           ms == Tail(micro)
<1>1. /\ bs \in Seq(DOMAIN calls) /\ micro \in Seq(all) /\ Closer \notin DOMAIN calls
      /\ DOMAIN calls \subseteq all
      /\ Range(bs) = {c \in DOMAIN calls : calls[c].phase = "blocked"}
  BY CallNumbers DEF CallersTyped, CallersOK
<1>2. /\ IsInjective(micro) /\ IsInjective(bs)
      /\ Range(micro) \ {Closer} = {c \in DOMAIN calls : calls[c].phase \in Resumable}
  BY DEF ReadyOK
<1>3. /\ micro' = ms \o bs /\ backpressureResolvers' = <<>> /\ flushResolvers' = {}
      /\ Move(Range(bs), flushResolvers)
  BY DEF close
<1> HIDE DEF all, bs
<1>4. /\ ms \in Seq(all) /\ IsInjective(ms) /\ Range(ms) = Range(micro) \ {Closer}
      /\ bs \in Seq(all)
  BY <1>1, <1>2, InjectiveTail, TailRange, SeqMonotonic
<1>5. Range(ms) \cap Range(bs) = {} /\ Closer \notin Range(bs)
  BY <1>1, <1>2, <1>4 DEF Resumable
<1> HIDE DEF ms
<1>6. IsInjective(ms \o bs) /\ Range(ms \o bs) = Range(ms) \cup Range(bs)
  BY <1>2, <1>4, <1>5, InjectiveConcat, ConcatRange
<1>7. /\ DOMAIN calls' = DOMAIN calls
      /\ \A c \in DOMAIN calls :
            calls'[c].phase = IF c \in Range(bs) THEN "woken"
                              ELSE IF c \in flushResolvers THEN "done" ELSE calls[c].phase
  BY <1>3, Moving
<1>8. \A c \in DOMAIN calls : c \in flushResolvers => calls[c].phase = "flushing"
  BY CallNumbers DEF CallersTyped, CallersOK
<1>9. {c \in DOMAIN calls' : calls'[c].phase \in Resumable} = Range(ms) \cup Range(bs)
  <2>1. ASSUME NEW c \in DOMAIN calls
        PROVE  calls'[c].phase \in Resumable
                 <=> calls[c].phase \in Resumable \/ c \in Range(bs)
    BY <1>7, <1>8, <2>1 DEF Resumable
  <2> QED
    BY <1>1, <1>2, <1>4, <1>7, <2>1
<1>10. (Range(ms) \cup Range(bs)) \ {Closer} = Range(ms) \cup Range(bs)
  BY <1>4, <1>5
<1>11. IsInjective(<<>>)
  BY DEF IsInjective
<1> QED
  BY <1>3, <1>6, <1>9, <1>10, <1>11 DEF ReadyOK

\* The drain loop ends when nothing is left, and sleeps only on what it will retry.
DrainInv ==
    /\ drain = "sending" => batch # <<>>
    /\ drain \in {"sleeping", "waking"} => pending # <<>> \/ closed

\* A blocked caller has a POST to wait for, unless its events fit no buffer;
\* a caller in flush() has one, unless a batch was put back after close().
WaitInv ==
    /\ \A c \in DOMAIN calls : calls[c].phase = "blocked" =>
         ~closed /\ (drain # "idle" \/ Len(calls[c].events) > MaxQueueSize)
    /\ flushResolvers # {} => drain # "idle" \/ Stuck

LEMMA IterationGoes ==
    ASSUME NEW p \in Seq(Nat), Iterate(p)
    PROVE  /\ drain' \in {"idle", "sending"}
           /\ drain' = "sending" => batch' # <<>>
           /\ p # <<>> /\ ~closed => drain' = "sending"
           /\ closed => drain' = "idle" /\ pending' = p
<1>1. Len(p) \in Nat /\ (p # <<>> => Len(p) # 0)
  BY LenProperties, EmptySeq
<1>2. CASE p # <<>> /\ ~closed /\ takeBatch(p) /\ drain' = "sending"
  <2>1. BatchLength(p) \in 1..Len(p)
    <3>1. MaxBatchSize \in Nat /\ MaxBatchSize >= 1 /\ Len(p) >= 1
      BY <1>1, <1>2
    <3> QED
      BY <1>1, <3>1 DEF BatchLength
  <2>2. BatchLength(p) \in 0..Len(p)
    BY <2>1
  <2>3. batch' \in Seq(Nat) /\ Len(batch') = BatchLength(p)
    BY <1>2, <2>2, SplitConcat DEF takeBatch
  <2>4. Len(batch') # 0
    BY <2>1, <2>3
  <2>5. Len(<<>>) = 0
    OBVIOUS
  <2> QED
    BY <1>2, <2>4, <2>5
<1>3. CASE /\ p = <<>> \/ closed
           /\ pending' = p /\ batch' = <<>> /\ drain' = "idle"
  BY <1>3
<1> QED
  BY <1>2, <1>3 DEF Iterate

\* What a step other than the end of a POST or a sleep does to the loop.
Drives ==
    /\ closed' = closed /\ DrainInv'
    /\ drain # "idle" => drain' # "idle"
    /\ closed => drain' = drain /\ pending' = pending

LEMMA DrainKicked ==
    ASSUME DrainInv, NEW p \in Seq(Nat), Kick(p), closed' = closed,
           closed => p = pending, pending # <<>> => p # <<>>
    PROVE  Drives
<1>1. CASE drain = "idle" /\ ~closed /\ Iterate(p)
  BY <1>1, IterationGoes DEF Drives, DrainInv
<1>2. CASE (drain # "idle" \/ closed) /\ pending' = p /\ UNCHANGED <<batch, drain, failures>>
  BY <1>2 DEF Drives, DrainInv
<1> QED
  BY <1>1, <1>2 DEF Kick

LEMMA DrainAdded ==
    ASSUME QueueInv, DrainInv, NEW es \in Seq(Nat), Add(es), closed' = closed
    PROVE  /\ Drives
           /\ Blocks(es) => ~closed /\ (drain' # "idle" \/ Len(es) > MaxQueueSize)
<1>1. CASE (closed \/ es = <<>> \/ Blocks(es)) /\ UNCHANGED queueVars
  <2>1. Drives
    BY <1>1 DEF Drives, DrainInv
  <2>2. ASSUME Blocks(es) PROVE ~closed /\ (drain' # "idle" \/ Len(es) > MaxQueueSize)
    <3>1. drain = "idle" /\ ~closed => pending = <<>>
      BY DEF QueueInv, QueueBounds
    <3>2. Len(es) \in Nat /\ Len(<<>>) = 0
      BY LenProperties
    <3>3. ~closed /\ Len(pending) + Len(es) > MaxQueueSize /\ drain' = drain
      BY <1>1, <2>2 DEF Blocks
    <3>4. ASSUME pending = <<>> PROVE Len(es) > MaxQueueSize
      <4>1. 0 + Len(es) > MaxQueueSize
        BY <3>2, <3>3, <3>4
      <4> QED
        BY <3>2, <4>1
    <3> QED
      BY <3>1, <3>3, <3>4
  <2> QED
    BY <2>1, <2>2
<1>2. CASE ~closed /\ es # <<>> /\ ~Blocks(es) /\ Kick(pending \o es)
  <2>1. /\ pending \o es \in Seq(Nat) /\ Len(pending \o es) = Len(pending) + Len(es)
        /\ Len(pending) \in Nat /\ Len(es) \in Nat
    BY ConcatNat DEF QueueInv, QueueTyped
  <2>2. es # <<>> => Len(es) # 0
    BY EmptySeq, LenProperties
  <2>3. Len(pending \o es) # 0
    BY <1>2, <2>1, <2>2
  <2>4. pending \o es # <<>>
    BY <2>3
  <2>5. Drives
    BY <1>2, <2>1, <2>4, DrainKicked
  <2> QED
    BY <1>2, <2>5
<1> QED
  BY <1>1, <1>2 DEF Add

\* A step that starts, blocks or moves calls, while the loop goes on.
LEMMA WaitKept ==
    ASSUME WaitInv, Drives,
           \A c \in DOMAIN calls' : calls'[c].phase = "blocked" =>
             \/ /\ c \in DOMAIN calls /\ calls[c].phase = "blocked"
                /\ calls'[c].events = calls[c].events
             \/ ~closed /\ (drain' # "idle" \/ Len(calls'[c].events) > MaxQueueSize),
           flushResolvers' # {} => flushResolvers # {} \/ drain' # "idle" \/ Stuck'
    PROVE  WaitInv' /\ DrainInv'
<1>1. ASSUME NEW c \in DOMAIN calls', calls'[c].phase = "blocked"
      PROVE  ~closed' /\ (drain' # "idle" \/ Len(calls'[c].events) > MaxQueueSize)
  BY <1>1 DEF WaitInv, Drives
<1>2. Stuck => Stuck' \/ drain' # "idle"
  BY DEF Stuck, Drives
<1>3. flushResolvers' # {} => drain' # "idle" \/ Stuck'
  BY <1>2 DEF WaitInv, Drives
<1> QED
  BY <1>1, <1>3 DEF WaitInv, Drives

\* The end of a POST or of a sleep: the released calls are no longer blocked,
\* and the loop ends only with the flushes resolved.
LEMMA WaitReleased ==
    ASSUME QueueInv, CallersTyped, WaitInv, DrainInv, closed' = closed, Iterate(pending),
           NEW bs \in {<<>>, backpressureResolvers}, Release(bs, Flushed(pending)),
           bs = <<>> => pending # <<>> \/ closed \/ backpressureResolvers = <<>>
    PROVE  WaitInv' /\ DrainInv'
<1>1. /\ pending \in Seq(Nat) /\ Flushed(pending) \in {{}, flushResolvers}
      /\ Range(<<>>) = {}
  BY QueueIsSeq DEF Flushed, Range
<1>2. /\ drain' \in {"idle", "sending"} /\ (drain' = "sending" => batch' # <<>>)
      /\ pending # <<>> /\ ~closed => drain' = "sending"
      /\ closed => drain' = "idle" /\ pending' = pending
  BY <1>1, IterationGoes
<1>3. DrainInv'
  BY <1>2 DEF DrainInv
<1>4. /\ DOMAIN calls' = DOMAIN calls
      /\ \A c \in DOMAIN calls : SameCall(calls[c], calls'[c])
  BY <1>1, CallsMoved DEF Release
<1>5. \A c \in DOMAIN calls :
        calls'[c].phase = IF c \in Range(bs) THEN "woken"
                          ELSE IF c \in Flushed(pending) THEN "done" ELSE calls[c].phase
  BY Moving DEF Release
<1>6. ASSUME NEW c \in DOMAIN calls', calls'[c].phase = "blocked"
      PROVE  ~closed /\ drain' # "idle"
  <2>1. calls[c].phase = "blocked" /\ c \notin Range(bs) /\ c \in DOMAIN calls
    BY <1>4, <1>5, <1>6
  <2>2. c \in Range(backpressureResolvers)
    BY <2>1 DEF CallersTyped, CallersOK
  <2>3. bs = <<>> /\ backpressureResolvers # <<>>
    BY <1>1, <2>1, <2>2
  <2> QED
    BY <1>2, <2>1, <2>3 DEF WaitInv
<1>7. flushResolvers' # {} => drain' # "idle" \/ Stuck'
  <2>1. ASSUME flushResolvers' # {} PROVE pending # <<>>
    BY <2>1 DEF Release, Flushed
  <2> QED
    BY <1>2, <2>1 DEF Stuck
<1> QED
  BY <1>3, <1>6, <1>7 DEF WaitInv

CallsReady == ReadyOK(calls, backpressureResolvers, flushResolvers, micro)

CloserComes == closing /\ ~closed => Closer \in Range(micro) \cup flushResolvers

WakeInv ==
    /\ CallsReady /\ WaitInv /\ DrainInv /\ CloserComes
    /\ streamEventBuffer # <<>> => streamEventTimer

\* enqueue() of a write(), with the buffered events taken along.
LEMMA WakeEnqueue ==
    ASSUME QueueInv, CallersTyped, WakeInv, NEW es \in Seq(Nat), enqueue(es),
           closing' = closing, streamEventBuffer' = <<>>
    PROVE  WakeInv'
<1> DEFINE call == NewCall(es, TRUE)
<1>1. PICK c : c = Len(calls) + 1
  OBVIOUS
<1>2. /\ call \in Call /\ call.events = es
      /\ call.phase = IF Blocks(es) THEN "blocked" ELSE "entered"
  BY NewCallTyped DEF QueueInv, NewCall
<1>3. /\ calls' = Append(calls, call) /\ closed' = closed
      /\ backpressureResolvers' = IF Blocks(es) THEN Append(backpressureResolvers, c)
                                                ELSE backpressureResolvers
      /\ micro' = IF Blocks(es) THEN micro ELSE Append(micro, c)
      /\ flushResolvers' = flushResolvers
      /\ Add(es)
  BY <1>1 DEF enqueue, Queued
<1> HIDE DEF call
<1>4. CallsReady'
  BY <1>1, <1>2, <1>3, ReadyStarts DEF WakeInv, CallsReady, CallersTyped
<1>5. /\ Drives
      /\ Blocks(es) => ~closed /\ (drain' # "idle" \/ Len(es) > MaxQueueSize)
  BY <1>3, DrainAdded DEF WakeInv
<1>6. /\ DOMAIN calls' = DOMAIN calls \cup {c} /\ calls'[c] = call
      /\ \A d \in DOMAIN calls : calls'[d] = calls[d]
  BY <1>1, <1>2, <1>3, CallAppended DEF CallersTyped, CallersOK
<1>7. WaitInv' /\ DrainInv'
  BY <1>2, <1>3, <1>5, <1>6, WaitKept DEF WakeInv
<1>8. CloserComes'
  <2> DEFINE S == DOMAIN calls \cup {Closer, c}
  <2>1. micro \in Seq(S) /\ c \in S
    <3>1. micro \in Seq(DOMAIN calls \cup {Closer}) /\ DOMAIN calls \cup {Closer} \subseteq S
      BY DEF CallersTyped, CallersOK
    <3> HIDE DEF S
    <3>2. micro \in Seq(S)
      BY <3>1, SeqMonotonic
    <3> QED
      BY <3>2 DEF S
  <2> HIDE DEF S
  <2>2. Range(micro) \subseteq Range(micro')
    BY <1>3, <2>1, AppendRange
  <2> QED
    BY <1>3, <2>2 DEF CloserComes, WakeInv
<1> QED
  BY <1>4, <1>7, <1>8 DEF WakeInv

\* enqueue() that nobody awaits: its call is remembered only if it is blocked.
UnawaitedCall(es) ==
    IF Blocks(es) THEN Append(calls, NewCall(es, FALSE)) ELSE calls

LEMMA WakeUnawaited ==
    ASSUME QueueInv, CallersTyped, WakeInv, NEW es \in Seq(Nat), Add(es), closed' = closed,
           Queued(Len(calls) + 1, es), NEW cs, cs = UnawaitedCall(es)
    PROVE  /\ ReadyOK(cs, backpressureResolvers', flushResolvers, micro)
           /\ Drives
           /\ \A c \in DOMAIN cs : cs[c].phase = "blocked" =>
                \/ c \in DOMAIN calls /\ calls[c].phase = "blocked" /\ cs[c].events = calls[c].events
                \/ ~closed /\ (drain' # "idle" \/ Len(cs[c].events) > MaxQueueSize)
<1> DEFINE call == NewCall(es, FALSE)
<1>1. PICK c : c = Len(calls) + 1
  OBVIOUS
<1>2. /\ call \in Call /\ call.events = es /\ (Blocks(es) => call.phase = "blocked")
  BY NewCallTyped DEF QueueInv, NewCall
<1>3. /\ backpressureResolvers' = IF Blocks(es) THEN Append(backpressureResolvers, c)
                                                ELSE backpressureResolvers
      /\ cs = IF Blocks(es) THEN Append(calls, call) ELSE calls
  BY <1>1 DEF Queued, UnawaitedCall
<1> HIDE DEF call
<1>4. ReadyOK(cs, backpressureResolvers', flushResolvers, micro)
  BY <1>1, <1>2, <1>3, ReadyStarts DEF WakeInv, CallsReady, CallersTyped
<1>5. /\ Drives
      /\ Blocks(es) => ~closed /\ (drain' # "idle" \/ Len(es) > MaxQueueSize)
  BY DrainAdded DEF WakeInv
<1>6. Blocks(es) => /\ DOMAIN cs = DOMAIN calls \cup {c} /\ cs[c] = call
                    /\ \A d \in DOMAIN calls : cs[d] = calls[d]
  BY <1>1, <1>2, <1>3, CallAppended DEF CallersTyped, CallersOK
<1>7. ASSUME NEW d \in DOMAIN cs, cs[d].phase = "blocked"
      PROVE  \/ d \in DOMAIN calls /\ calls[d].phase = "blocked" /\ cs[d].events = calls[d].events
             \/ ~closed /\ (drain' # "idle" \/ Len(cs[d].events) > MaxQueueSize)
  BY <1>2, <1>3, <1>5, <1>6, <1>7
<1> QED
  BY <1>4, <1>5, <1>7

\* The delay timer fires.
LEMMA WakeTimer ==
    ASSUME QueueInv, CallersTyped, StreamTyped, WakeInv, FlushStreamEvents
    PROVE  WakeInv'
<1> DEFINE es == streamEventBuffer
<1>1. es \in Seq(Nat)
  BY DEF StreamTyped
<1>2. /\ Add(es) /\ closed' = closed /\ Queued(Len(calls) + 1, es)
      /\ calls' = UnawaitedCall(es)
      /\ micro' = micro /\ flushResolvers' = flushResolvers /\ closing' = closing
      /\ streamEventBuffer' = <<>>
  BY DEF FlushStreamEvents, enqueueUnawaited, takeStreamEvents, UnawaitedCall
<1> HIDE DEF es
<1>3. PICK cs : cs = UnawaitedCall(es)
  OBVIOUS
<1>4. /\ ReadyOK(cs, backpressureResolvers', flushResolvers, micro) /\ Drives
      /\ \A c \in DOMAIN cs : cs[c].phase = "blocked" =>
            \/ c \in DOMAIN calls /\ calls[c].phase = "blocked" /\ cs[c].events = calls[c].events
            \/ ~closed /\ (drain' # "idle" \/ Len(cs[c].events) > MaxQueueSize)
  BY <1>1, <1>2, <1>3, WakeUnawaited
<1>5. CallsReady'
  BY <1>2, <1>3, <1>4 DEF CallsReady
<1>6. WaitInv' /\ DrainInv'
  BY <1>2, <1>3, <1>4, WaitKept DEF WakeInv
<1> QED
  BY <1>2, <1>5, <1>6 DEF WakeInv, CloserComes

\* flush(): its own call follows the one that enqueue() may have blocked.
LEMMA WakeFlush ==
    ASSUME QueueInv, CallersTyped, StreamTyped, WakeInv, Flush
    PROVE  WakeInv'
<1> DEFINE es == streamEventBuffer
           cs0 == UnawaitedCall(es)
           done == pending' = <<>> /\ drain' = "idle"
           call == [NewCall(<<>>, TRUE) EXCEPT
                      !.events = batch' \o pending',
                      !.phase = IF done THEN "done" ELSE "flushing"]
<1>1. PICK cs : cs = cs0
  OBVIOUS
<1>2. PICK c : c = Len(cs) + 1
  OBVIOUS
<1>3. /\ Add(es) /\ UNCHANGED <<closed, maxConsecutiveFailures, history>>
      /\ calls' = Append(cs, call) /\ Queued(c - 1, es) /\ micro' = micro
      /\ flushResolvers' = IF done THEN flushResolvers ELSE flushResolvers \cup {c}
      /\ closing' = closing /\ streamEventBuffer' = <<>>
  BY <1>1, <1>2 DEF Flush, takeStreamEvents, UnawaitedCall
<1>4. es \in Seq(Nat) /\ QueueInv'
  <2>1. es \in Seq(Nat)
    BY DEF StreamTyped
  <2> QED
    BY <1>3, <2>1, Adding
<1>5. call \in Call /\ call.phase = IF done THEN "done" ELSE "flushing"
  <2>1. NewCall(<<>>, TRUE) \in Call
    BY EmptySeq, NewCallTyped DEF QueueInv
  <2>2. batch' \o pending' \in Seq(Nat)
    BY <1>4, ConcatNat DEF QueueInv, QueueTyped
  <2> HIDE DEF done
  <2> QED
    BY <2>1, <2>2 DEF Call
<1>6. /\ Queued(Len(calls) + 1, es)
      /\ CallersOK(cs, backpressureResolvers', flushResolvers, micro)
  <2>1. Len(calls) \in Nat
    BY CallNumbers
  <2>2. CASE Blocks(es)
    <3>1. cs = Append(calls, NewCall(es, FALSE)) /\ calls \in Seq(Call)
      BY <1>1, <2>2 DEF CallersTyped, CallersOK, UnawaitedCall
    <3>2. Len(cs) = Len(calls) + 1
      <4>1. NewCall(es, FALSE) \in Call
        BY <1>4, NewCallTyped DEF QueueInv
      <4> QED
        BY <3>1, <4>1, AppendProperties
    <3>3. Queued(Len(calls) + 1, es)
      <4>1. c - 1 = Len(calls) + 1
        BY <1>2, <2>1, <3>2
      <4> QED
        BY <1>3, <4>1
    <3> QED
      BY <1>4, <2>2, <3>1, <3>3, UnawaitedCalls DEF QueueInv
  <2>3. CASE ~Blocks(es)
    BY <1>1, <1>3, <2>3 DEF Queued, CallersTyped, UnawaitedCall
  <2> QED
    BY <2>2, <2>3
<1>7. /\ ReadyOK(cs, backpressureResolvers', flushResolvers, micro) /\ Drives
      /\ \A d \in DOMAIN cs : cs[d].phase = "blocked" =>
           \/ d \in DOMAIN calls /\ calls[d].phase = "blocked" /\ cs[d].events = calls[d].events
           \/ ~closed /\ (drain' # "idle" \/ Len(cs[d].events) > MaxQueueSize)
  BY <1>1, <1>3, <1>4, <1>6, WakeUnawaited
<1>8. ~done => drain' # "idle" \/ Stuck'
  BY <1>4 DEF QueueInv, QueueBounds, Stuck
<1> HIDE DEF cs0, call, done
<1>9. /\ call.phase = "flushing" =>
            ReadyOK(Append(cs, call), backpressureResolvers', flushResolvers \cup {c}, micro)
      /\ call.phase = "done" =>
            ReadyOK(Append(cs, call), backpressureResolvers', flushResolvers, micro)
  BY <1>2, <1>5, <1>6, <1>7, ReadyStarts
<1>10. CallsReady'
  BY <1>3, <1>5, <1>9 DEF CallsReady
<1>11. /\ DOMAIN calls' = DOMAIN cs \cup {c} /\ calls'[c] = call
       /\ \A d \in DOMAIN cs : calls'[d] = cs[d]
  BY <1>2, <1>3, <1>5, <1>6, CallAppended DEF CallersOK
<1>12. calls'[c].phase # "blocked"
  BY <1>5, <1>11
<1>13. WaitInv' /\ DrainInv'
  <2>1. \A d \in DOMAIN calls' : calls'[d].phase = "blocked" =>
          \/ /\ d \in DOMAIN calls /\ calls[d].phase = "blocked"
             /\ calls'[d].events = calls[d].events
          \/ ~closed /\ (drain' # "idle" \/ Len(calls'[d].events) > MaxQueueSize)
    BY <1>7, <1>11, <1>12
  <2>2. flushResolvers' # {} => flushResolvers # {} \/ drain' # "idle" \/ Stuck'
    BY <1>3, <1>8
  <2> QED
    BY <1>7, <2>1, <2>2, WaitKept DEF WakeInv
<1>14. CloserComes'
  BY <1>3 DEF CloserComes, WakeInv
<1> QED
  BY <1>3, <1>10, <1>13, <1>14 DEF WakeInv

\* close() of the transport: a flush that it awaits, or its continuation.
LEMMA WakeClose ==
    ASSUME QueueInv, CallersTyped, WakeInv, CloserInv, Close
    PROVE  WakeInv'
<1>1. /\ ~closing /\ closing' = TRUE /\ closed' = closed
      /\ UNCHANGED <<queueVars, calls, backpressureResolvers>>
      /\ streamEventBuffer' = <<>>
      /\ flushResolvers' = IF IsDrained THEN flushResolvers ELSE flushResolvers \cup {Closer}
      /\ micro' = IF IsDrained THEN Append(micro, Closer) ELSE micro
  BY DEF Close, takeStreamEvents
<1>2. Closer \notin Range(micro) /\ Closer \notin flushResolvers
  BY <1>1 DEF CloserInv
<1>3. /\ IsInjective(Append(micro, Closer))
      /\ Range(Append(micro, Closer)) = Range(micro) \cup {Closer}
  <2> DEFINE S == DOMAIN calls \cup {Closer}
  <2>1. micro \in Seq(S) /\ Closer \in S /\ IsInjective(micro)
    BY DEF CallersTyped, CallersOK, WakeInv, CallsReady, ReadyOK
  <2> HIDE DEF S
  <2> QED
    BY <1>2, <2>1, InjectiveAppend, AppendRange
<1>4. CallsReady'
  <2>1. CASE IsDrained
    <3>1. (Range(micro) \cup {Closer}) \ {Closer} = Range(micro) \ {Closer}
      OBVIOUS
    <3> QED
      BY <1>1, <1>2, <1>3, <2>1, <3>1 DEF WakeInv, CallsReady, ReadyOK
  <2>2. CASE ~IsDrained
    BY <1>1, <1>2, <2>2 DEF WakeInv, CallsReady, ReadyOK
  <2> QED
    BY <2>1, <2>2
<1>5. ~IsDrained => drain # "idle" \/ Stuck
  BY DEF IsDrained, Stuck, QueueInv, QueueBounds
<1>6. WaitInv' /\ DrainInv'
  BY <1>1, <1>5 DEF WaitInv, DrainInv, WakeInv, Stuck
<1>7. Closer \in Range(micro') \cup flushResolvers'
  BY <1>1, <1>3
<1> QED
  BY <1>1, <1>4, <1>6, <1>7 DEF WakeInv, CloserComes

\* The grace timer takes the place of the flush.
LEMMA WakeGrace ==
    ASSUME CallersTyped, WakeInv, GraceExpires
    PROVE  WakeInv'
<1>1. /\ Closer \in flushResolvers /\ flushResolvers' = flushResolvers \ {Closer}
      /\ micro' = Append(micro, Closer)
      /\ UNCHANGED <<queueVars, calls, backpressureResolvers, closed, transportVars>>
  BY DEF GraceExpires
<1>2. Closer \notin Range(micro)
  BY <1>1 DEF WakeInv, CallsReady, ReadyOK
<1>3. /\ IsInjective(Append(micro, Closer))
      /\ Range(Append(micro, Closer)) = Range(micro) \cup {Closer}
  <2> DEFINE S == DOMAIN calls \cup {Closer}
  <2>1. micro \in Seq(S) /\ Closer \in S /\ IsInjective(micro)
    BY DEF CallersTyped, CallersOK, WakeInv, CallsReady, ReadyOK
  <2> HIDE DEF S
  <2> QED
    BY <1>2, <2>1, InjectiveAppend, AppendRange
<1>4. (Range(micro) \cup {Closer}) \ {Closer} = Range(micro) \ {Closer}
  OBVIOUS
<1>5. CallsReady'
  BY <1>1, <1>3, <1>4 DEF WakeInv, CallsReady, ReadyOK
<1>6. WaitInv' /\ DrainInv'
  BY <1>1 DEF WaitInv, DrainInv, WakeInv, Stuck
<1> QED
  BY <1>1, <1>3, <1>5, <1>6 DEF WakeInv, CloserComes, transportVars

\* The end of a POST, and of a sleep.
LEMMA WakeDrains ==
    ASSUME QueueInv, CallersTyped, WakeInv, Send \/ SleepEnds, UNCHANGED transportVars
    PROVE  WakeInv'
<1>1. closed' = closed /\ Flushed(pending) \in {{}, flushResolvers}
  BY DEF Send, SendSucceeds, SendDiscards, SendThrows, SleepEnds, Flushed
<1>2. ASSUME NEW bs \in {<<>>, backpressureResolvers}, Release(bs, Flushed(pending)),
             Iterate(pending),
             bs = <<>> => pending # <<>> \/ closed \/ backpressureResolvers = <<>>
      PROVE  WakeInv'
  <2>1. /\ CallsReady'
        /\ Closer \in Range(micro) \cup flushResolvers =>
             Closer \in Range(micro') \cup flushResolvers'
    BY <1>1, <1>2, ReadyReleased DEF WakeInv, CallsReady
  <2>2. WaitInv' /\ DrainInv'
    BY <1>1, <1>2, WaitReleased DEF WakeInv
  <2> QED
    BY <1>1, <2>1, <2>2 DEF WakeInv, CloserComes, transportVars
<1>3. CASE Advance
  BY <1>2, <1>3 DEF Advance
<1>4. CASE SleepEnds
  <2>1. pending # <<>> \/ closed
    BY <1>4 DEF SleepEnds, WakeInv, DrainInv
  <2> QED
    BY <1>2, <1>4, <2>1 DEF SleepEnds
<1>5. CASE /\ drain = "sending" /\ pending' = batch \o pending /\ batch' = <<>>
           /\ drain' = "sleeping" /\ UNCHANGED callVars
  <2>1. pending' # <<>>
    <3>1. /\ Len(batch \o pending) = Len(batch) + Len(pending)
          /\ Len(batch) \in Nat /\ Len(pending) \in Nat
      BY QueueIsSeq, ConcatNat, LenProperties
    <3>2. batch # <<>>
      BY <1>5 DEF WakeInv, DrainInv
    <3>3. Len(batch) # 0
      BY <3>2, QueueIsSeq, EmptySeq
    <3>4. Len(batch \o pending) # 0
      BY <3>1, <3>3
    <3> QED
      BY <1>5, <3>4
  <2>2. DrainInv'
    BY <1>5, <2>1 DEF DrainInv
  <2>3. WaitInv'
    BY <1>1, <1>5 DEF WaitInv, WakeInv
  <2> QED
    BY <1>1, <1>5, <2>2, <2>3 DEF WakeInv, CallsReady, CloserComes, transportVars
<1> QED
  BY <1>3, <1>4, <1>5 DEF Send, SendSucceeds, SendDiscards, SendThrows

\* close() of the uploader wakes everybody.
LEMMA WakeCloses ==
    ASSUME CallersTyped, WakeInv, micro # <<>>, Head(micro) = Closer, close,
           UNCHANGED transportVars
    PROVE  WakeInv'
<1>1. CallsReady'
  BY ReadyCloses DEF WakeInv, CallsReady
<1>2. /\ closed' = TRUE /\ flushResolvers' = {} /\ batch' = batch
      /\ drain' = IF drain = "sleeping" THEN "waking" ELSE drain
      /\ Move(Range(backpressureResolvers), flushResolvers)
  BY DEF close
<1>3. /\ DOMAIN calls' = DOMAIN calls
      /\ \A c \in DOMAIN calls :
            calls'[c].phase = IF c \in Range(backpressureResolvers) THEN "woken"
                              ELSE IF c \in flushResolvers THEN "done" ELSE calls[c].phase
  BY <1>2, Moving
<1>4. \A c \in DOMAIN calls' : calls'[c].phase # "blocked"
  BY <1>3 DEF CallersTyped, CallersOK
<1>5. WaitInv' /\ DrainInv'
  BY <1>2, <1>4 DEF WaitInv, DrainInv, WakeInv
<1> QED
  BY <1>1, <1>2, <1>5 DEF WakeInv, CloserComes, transportVars

\* A released caller looks again whether its events fit.
LEMMA WakeResumes ==
    ASSUME QueueInv, CallersTyped, WakeInv, micro # <<>>, Head(micro) # Closer,
           Resume(Head(micro)), UNCHANGED transportVars
    PROVE  WakeInv'
<1> DEFINE es0 == calls[Head(micro)].events
<1>1. PICK c : c = Head(micro)
  OBVIOUS
<1>2. PICK es : es = es0
  OBVIOUS
<1>3. PICK phase : phase = NewCall(es, calls[c].flushes).phase
  OBVIOUS
<1>4. /\ c \in DOMAIN calls /\ calls \in Seq(Call) /\ es \in Seq(Nat)
      /\ es = calls[c].events /\ calls[c].flushes \in BOOLEAN
  BY <1>1, <1>2, CallContinued
<1>5. phase = IF Blocks(es) THEN "blocked" ELSE IF calls[c].flushes THEN "entered" ELSE "done"
  BY <1>3, <1>4, NewCallTyped DEF QueueInv
<1>6. /\ calls' = [calls EXCEPT ![c].phase = phase] /\ Add(es) /\ closed' = closed
      /\ backpressureResolvers' = IF Blocks(es) THEN Append(backpressureResolvers, c)
                                                ELSE backpressureResolvers
      /\ micro' = IF calls'[c].phase = "entered" THEN Append(Tail(micro), c) ELSE Tail(micro)
      /\ flushResolvers' = flushResolvers
  BY <1>1, <1>2, <1>3 DEF Resume, Queued
<1> HIDE DEF es0
<1>7. /\ DOMAIN calls' = DOMAIN calls /\ SameCall(calls[c], calls'[c])
      /\ calls'[c].phase = phase
      /\ \A d \in DOMAIN calls : d # c => calls'[d] = calls[d]
  BY <1>4, <1>6, CallChanged
<1>8. CallsReady'
  <2>1. phase \in {"blocked", "entered", "flushing", "done"}
    BY <1>5
  <2>2. LET cs2 == [calls EXCEPT ![c].phase = phase]
        IN /\ phase = "blocked" =>
                ReadyOK(cs2, Append(backpressureResolvers, c), flushResolvers, Tail(micro))
           /\ phase = "entered" =>
                ReadyOK(cs2, backpressureResolvers, flushResolvers, Append(Tail(micro), c))
           /\ phase = "done" =>
                ReadyOK(cs2, backpressureResolvers, flushResolvers, Tail(micro))
    BY <1>1, <1>4, <2>1, ReadyGoesOn DEF WakeInv, CallsReady, CallersTyped
  <2>3. /\ Blocks(es) => phase = "blocked"
        /\ ~Blocks(es) => phase \in {"entered", "done"}
    BY <1>5
  <2> QED
    BY <1>6, <1>7, <2>2, <2>3 DEF CallsReady
<1>9. /\ Drives
      /\ Blocks(es) => ~closed /\ (drain' # "idle" \/ Len(es) > MaxQueueSize)
  BY <1>4, <1>6, DrainAdded DEF WakeInv
<1>10. WaitInv' /\ DrainInv'
  <2>1. calls'[c].events = es
    BY <1>4, <1>7 DEF SameCall
  <2>2. \A d \in DOMAIN calls' : calls'[d].phase = "blocked" =>
          \/ /\ d \in DOMAIN calls /\ calls[d].phase = "blocked"
             /\ calls'[d].events = calls[d].events
          \/ ~closed /\ (drain' # "idle" \/ Len(calls'[d].events) > MaxQueueSize)
    BY <1>5, <1>7, <1>9, <2>1
  <2> QED
    BY <1>6, <1>9, <2>2, WaitKept DEF WakeInv
<1>11. CloserComes'
  <2> DEFINE S == DOMAIN calls \cup {Closer}
             ms == Tail(micro)
  <2>1. micro \in Seq(S) /\ c \in S /\ c # Closer /\ IsInjective(micro)
    BY <1>1, <1>4 DEF CallersTyped, CallersOK, WakeInv, CallsReady, ReadyOK
  <2> HIDE DEF S
  <2>2. ms \in Seq(S) /\ Range(ms) = Range(micro) \ {c}
    BY <1>1, <2>1, InjectiveTail, TailRange
  <2> HIDE DEF ms
  <2>3. Range(Append(ms, c)) = Range(ms) \cup {c}
    BY <2>1, <2>2, AppendRange
  <2>4. Closer \in Range(micro) => Closer \in Range(micro')
    BY <1>6, <2>1, <2>2, <2>3 DEF ms
  <2> QED
    BY <1>6, <2>4 DEF CloserComes, WakeInv, transportVars
<1> QED
  BY <1>8, <1>10, <1>11 DEF WakeInv, transportVars

\* A caller past its enqueue() calls flush().
LEMMA WakeFlushes ==
    ASSUME QueueInv, CallersTyped, WakeInv, micro # <<>>, Head(micro) # Closer,
           flush(Head(micro)), UNCHANGED transportVars
    PROVE  WakeInv'
<1>1. PICK c : c = Head(micro)
  OBVIOUS
<1>2. PICK phase : phase = IF IsDrained THEN "done" ELSE "flushing"
  OBVIOUS
<1>3. c \in DOMAIN calls /\ calls \in Seq(Call)
  BY <1>1, CallContinued
<1>4. /\ calls' = [calls EXCEPT ![c].phase = phase] /\ Kick(pending) /\ closed' = closed
      /\ flushResolvers' = IF IsDrained THEN flushResolvers ELSE flushResolvers \cup {c}
      /\ micro' = Tail(micro) /\ backpressureResolvers' = backpressureResolvers
  BY <1>1, <1>2 DEF flush
<1>5. /\ DOMAIN calls' = DOMAIN calls /\ calls'[c].phase = phase
      /\ \A d \in DOMAIN calls : d # c => calls'[d] = calls[d]
  BY <1>3, <1>4, CallChanged
<1>6. CallsReady'
  <2>1. phase \in {"blocked", "entered", "flushing", "done"}
    BY <1>2
  <2>2. LET cs2 == [calls EXCEPT ![c].phase = phase]
        IN /\ phase = "flushing" =>
                ReadyOK(cs2, backpressureResolvers, flushResolvers \cup {c}, Tail(micro))
           /\ phase = "done" =>
                ReadyOK(cs2, backpressureResolvers, flushResolvers, Tail(micro))
    BY <1>1, <1>3, <2>1, ReadyGoesOn DEF WakeInv, CallsReady, CallersTyped
  <2> QED
    BY <1>2, <1>4, <2>2 DEF CallsReady
<1>7. Drives
  BY <1>4, QueueIsSeq, DrainKicked DEF WakeInv
<1>8. flushResolvers' # {} => flushResolvers # {} \/ drain' # "idle" \/ Stuck'
  <2>1. ASSUME ~IsDrained PROVE drain # "idle" \/ (closed /\ pending # <<>>)
    BY <2>1 DEF IsDrained, QueueInv, QueueBounds
  <2>2. drain # "idle" \/ (closed /\ pending # <<>>) => drain' # "idle" \/ Stuck'
    BY <1>7 DEF Drives, Stuck
  <2> QED
    BY <1>4, <2>1, <2>2
<1>9. WaitInv' /\ DrainInv'
  <2>1. phase # "blocked"
    BY <1>2
  <2>2. \A d \in DOMAIN calls' : calls'[d].phase = "blocked" =>
          /\ d \in DOMAIN calls /\ calls[d].phase = "blocked"
          /\ calls'[d].events = calls[d].events
    BY <1>5, <2>1
  <2> QED
    BY <1>7, <1>8, <2>2, WaitKept DEF WakeInv
<1>10. CloserComes'
  <2> DEFINE S == DOMAIN calls \cup {Closer}
  <2>1. micro \in Seq(S) /\ c # Closer /\ IsInjective(micro)
    BY <1>1 DEF CallersTyped, CallersOK, WakeInv, CallsReady, ReadyOK
  <2> HIDE DEF S
  <2>2. Range(micro') = Range(micro) \ {c}
    BY <1>1, <1>4, <2>1, InjectiveTail
  <2> QED
    BY <1>4, <2>1, <2>2 DEF CloserComes, WakeInv, transportVars
<1> QED
  BY <1>6, <1>9, <1>10 DEF WakeInv, transportVars

LEMMA WakeNext == ASSUME Inv, CloserInv, WakeInv, [Next]_vars PROVE WakeInv'
<1>1. QueueInv /\ CallersTyped /\ StreamTyped
  BY InvParts
<1>2. CASE WriteStreamEvent \/ UNCHANGED vars
  <2>1. UNCHANGED <<uploaderVars, closing>> /\ streamEventTimer' \in {TRUE, streamEventTimer}
    BY <1>2 DEF WriteStreamEvent, vars, transportVars
  <2>2. streamEventBuffer' # <<>> => streamEventTimer'
    BY <1>2 DEF WriteStreamEvent, vars, transportVars, WakeInv
  <2> QED
    BY <2>1, <2>2
       DEF WakeInv, CallsReady, WaitInv, DrainInv, CloserComes, Stuck
<1>3. ASSUME NEW n \in 0..MaxMessages, Write(n) PROVE WakeInv'
  <2>1. NewMessages(n) \in Seq(Nat)
    BY <1>1, MessagesTyped DEF StreamTyped
  <2>2. streamEventBuffer \o NewMessages(n) \in Seq(Nat)
    BY <1>1, <2>1, ConcatNat DEF StreamTyped
  <2> QED
    BY <1>1, <1>3, <2>2, WakeEnqueue DEF Write, takeStreamEvents
<1>4. CASE Flush
  BY <1>1, <1>4, WakeFlush
<1>5. CASE Close
  BY <1>1, <1>5, WakeClose
<1>6. CASE FlushStreamEvents
  BY <1>1, <1>6, WakeTimer
<1>7. CASE GraceExpires
  BY <1>1, <1>7, WakeGrace
<1>8. CASE Uploader
  <2>1. UNCHANGED transportVars
    BY <1>8 DEF Uploader
  <2>2. CASE Send \/ SleepEnds
    BY <1>1, <2>1, <2>2, WakeDrains
  <2>3. CASE RunMicro
    BY <1>1, <2>1, <2>3, WakeCloses, WakeResumes, WakeFlushes DEF RunMicro
  <2> QED
    BY <1>8, <2>2, <2>3 DEF Uploader
<1> QED
  BY <1>2, <1>3, <1>4, <1>5, <1>6, <1>7, <1>8 DEF Next, Application

LEMMA WakeInit == Init => WakeInv
<1> SUFFICES ASSUME Init PROVE WakeInv
  OBVIOUS
<1>1. /\ calls = <<>> /\ backpressureResolvers = <<>> /\ flushResolvers = {}
      /\ micro = <<>> /\ drain = "idle" /\ ~closing /\ streamEventBuffer = <<>>
  BY DEF Init, UploaderInit
<1>2. Range(<<>>) = {} /\ DOMAIN <<>> = {} /\ IsInjective(<<>>)
  BY DEF Range, IsInjective
<1>3. CallsReady
  BY <1>1, <1>2 DEF CallsReady, ReadyOK
<1> QED
  BY <1>1, <1>2, <1>3 DEF WakeInv, WaitInv, DrainInv, CloserComes

\* Whoever waits has someone to wake him: each call that may go on has its
\* continuation, and only such calls have one; a caller held back by backpressure
\* and a flush() have a POST or a retry under way; close() has its flush or the
\* step behind it; buffered stream events have their timer.
NobodyIsForgotten ==
    /\ \A c \in DOMAIN calls :
         /\ calls[c].phase \in {"woken", "entered"} <=> c \in Range(micro)
         /\ calls[c].phase = "blocked" /\ Len(calls[c].events) =< MaxQueueSize =>
              drain # "idle" /\ ~closed
         /\ calls[c].phase = "flushing" => drain # "idle" \/ Stuck
    /\ closing /\ ~closed => Closer \in Range(micro) \cup flushResolvers
    /\ Closer \in flushResolvers => drain # "idle" \/ Stuck
    /\ streamEventBuffer # <<>> => streamEventTimer

\* No wake-up is lost between a resolver that is called, a POST that ends, a
\* batch that is put back and close(): what CallersReturn says under fairness
\* rests on this.
THEOREM NoLostWakeup == Spec => []NobodyIsForgotten
<1>1. Inv /\ CloserInv /\ WakeInv /\ [Next]_vars => WakeInv'
  BY WakeNext
<1>2. CloserInv /\ Inv /\ [Next]_vars => CloserInv'
  BY CloserNext
<1>3. Inv /\ WakeInv => NobodyIsForgotten
  <2> SUFFICES ASSUME Inv, WakeInv PROVE NobodyIsForgotten
    OBVIOUS
  <2>1. CallersTyped /\ calls \in Seq(Call) /\ Closer \notin DOMAIN calls
    BY InvParts, CallNumbers DEF CallersTyped, CallersOK
  <2>2. ASSUME NEW c \in DOMAIN calls
        PROVE  /\ calls[c].phase \in {"woken", "entered"} <=> c \in Range(micro)
               /\ calls[c].phase = "flushing" => flushResolvers # {}
    BY <2>1 DEF WakeInv, CallsReady, ReadyOK, Resumable, CallersTyped, CallersOK
  <2>3. ASSUME NEW c \in DOMAIN calls PROVE Len(calls[c].events) \in Nat
    <3>1. calls[c].events \in Seq(Nat)
      BY <2>1, CallNumbers DEF Call
    <3> QED
      BY <3>1, LenProperties
  <2>4. ASSUME NEW c \in DOMAIN calls, calls[c].phase = "blocked",
               Len(calls[c].events) =< MaxQueueSize
        PROVE  drain # "idle" /\ ~closed
    <3>1. ~closed /\ (drain # "idle" \/ Len(calls[c].events) > MaxQueueSize)
      BY <2>4 DEF WakeInv, WaitInv
    <3>2. ~(Len(calls[c].events) > MaxQueueSize)
      BY <2>3, <2>4
    <3> QED
      BY <3>1, <3>2
  <2>5. flushResolvers # {} => drain # "idle" \/ Stuck
    BY DEF WakeInv, WaitInv
  <2>6. /\ closing /\ ~closed => Closer \in Range(micro) \cup flushResolvers
        /\ streamEventBuffer # <<>> => streamEventTimer
    BY DEF WakeInv, CloserComes
  <2> QED
    BY <2>2, <2>4, <2>5, <2>6 DEF NobodyIsForgotten
<1>4. Init => CloserInv
  BY PlaceInit
<1> QED
  BY <1>1, <1>2, <1>3, <1>4, WakeInit, Invariant, PTL DEF Spec

==============================================================================
