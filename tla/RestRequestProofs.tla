------------------------- MODULE RestRequestProofs -------------------------
(***************************************************************************)
(* Proofs about RestRequest, for any requests, any limit and window of the *)
(* rate limiter, any number of retries and any size of the pool.           *)
(***************************************************************************)
EXTENDS RestRequest, SequenceTheorems, TLAPS

\* What the venue has seen of a POST, at every place of the retry loop.
Executions(x) ==
  /\ x.pc # "done" => x.result = "none"
  /\ x.verb = "post" =>
       /\ x.pc \notin {"read", "done"} => x.executed = 0
       /\ x.pc = "read" =>
            x.reply \in Replies /\ x.executed \in Executed(x.verb, x.reply)
       /\ x.result = "answer" /\ x.reply = "success" => x.executed = 1
       /\ x.result \in {"throttled", "unsent"} => x.executed = 0
       /\ x.executed <= 1
  /\ x.pc = "idle" => x.executed = 0

\* A permit is held from the limiter to the write.
Permits(x) ==
  /\ x.sends <= x.permits
  /\ x.pc \in {"sign", "take", "connect", "write"} => x.sends < x.permits

\* A signature is fresh from its making to the write.
Signed(x) ==
  x.pc \in {"take", "connect", "write"} /\ x.verb # "public" =>
    x.signature = "fresh"

Attempts(x) ==
  x.attempt <= MaxRetries + IF x.staleConnRetried THEN 1 ELSE 0

RequestOK(x) ==
  /\ x \in RequestState
  /\ Attempts(x) /\ Executions(x) /\ Permits(x) /\ Signed(x)

RequestsOK ==
  req \in [Requests -> RequestState] /\ \A r \in Requests : RequestOK(req[r])

PoolOK ==
  pool \in Seq([alive : BOOLEAN, old : BOOLEAN]) /\ Len(pool) <= MaxPoolSize

\* The permits of the last window are the newest slots of the limiter, which
\* are never more than the limit.
LimiterOK ==
  /\ slots \in Seq(0..(Window + 1)) /\ recent \in Seq(0..Window)
  /\ Len(recent) <= Len(slots) /\ Len(slots) <= Limit
  /\ \A i \in 1..Len(recent) : recent[i] = slots[Len(slots) - Len(recent) + i]
  /\ \A i, j \in 1..Len(recent) : i <= j => recent[j] <= recent[i]

IInv == RequestsOK /\ PoolOK /\ LimiterOK

-----------------------------------------------------------------------------
(* Requests.                                                               *)

LEMMA BecomesOK ==
  ASSUME RequestsOK, NEW r \in Requests, NEW next, Becomes(r, next),
         RequestOK(next)
  PROVE  RequestsOK'
  BY DEF RequestsOK, Becomes, RequestOK

\* A request that fails after its write ends, or is a GET and starts over.
LEMMA FailsSentOK ==
  ASSUME NEW x \in RequestState, Attempts(x), x.pc \in Places \ {"done"},
         x.result = "none", x.sends <= x.permits,
         x.verb = "post" => x.executed <= 1
  PROVE  RequestOK(FailsSent(x))
  <1>1. CASE x.usedPooledConn /\ x.verb # "post" /\ ~x.staleConnRetried
    <2> DEFINE y == [x EXCEPT !.pc = "slot", !.attempt = @ + 1,
                       !.staleConnRetried = TRUE, !.signature = Aged(@)]
    <2>1. y \in RequestState
      <3>1. x.attempt + 1 \in Nat /\ Aged(x.signature) \in {"none", "fresh", "old"}
        BY DEF Aged, RequestState
      <3> QED BY <3>1 DEF RequestState, Places
    <2>2. RequestOK(y)
      BY <1>1, <2>1, RestAssumption
      DEF RequestOK, RequestState, Attempts, Executions, Permits, Signed
    <2> QED BY <1>1, <2>2 DEF FailsSent
  <1>2. CASE ~(x.usedPooledConn /\ x.verb # "post" /\ ~x.staleConnRetried)
    <2>1. Ends(x, "broken") \in RequestState
      BY DEF Ends, RequestState, Places, Results
    <2>2. RequestOK(Ends(x, "broken"))
      BY <2>1 DEF Ends, RequestOK, RequestState, Attempts, Executions, Permits,
                  Signed
    <2> QED BY <1>2, <2>2 DEF FailsSent
  <1> QED BY <1>1, <1>2

\* A request that the venue refused, or that never left the socket, pauses.
LEMMA RetriesOK ==
  ASSUME NEW x \in RequestState, x.attempt < MaxRetries,
         x.pc \in Places \ {"done"}, x.result = "none", x.sends <= x.permits,
         x.verb = "post" => x.executed = 0
  PROVE  RequestOK(Retries(x))
  <1>1. Retries(x) \in RequestState
    <2>1. x.attempt + 1 \in Nat /\ Aged(x.signature) \in {"none", "fresh", "old"}
      BY DEF Aged, RequestState
    <2> QED BY <2>1 DEF Retries, RequestState, Places
  <1> QED BY <1>1, RestAssumption
          DEF Retries, RequestOK, RequestState, Attempts, Executions, Permits,
              Signed

LEMMA EndsOK ==
  ASSUME NEW x, RequestOK(x), NEW result \in Results,
         x.verb = "post" =>
           /\ result = "answer" /\ x.reply = "success" => x.executed = 1
           /\ result \in {"throttled", "unsent"} => x.executed = 0
  PROVE  RequestOK(Ends(x, result))
  <1>1. Ends(x, result) \in RequestState
    BY DEF Ends, RequestOK, RequestState, Places
  <1> QED BY <1>1 DEF Ends, RequestOK, RequestState, Attempts, Executions,
                      Permits, Signed

\* The first request of a call, a permit, a nap.
LEMMA BeginOK ==
  ASSUME NEW x, RequestOK(x), x.pc = "idle", NEW verb \in Verbs
  PROVE  RequestOK([x EXCEPT !.pc = "slot", !.verb = verb])
  <1>1. [x EXCEPT !.pc = "slot", !.verb = verb] \in RequestState
    BY DEF RequestOK, RequestState, Places
  <1> QED BY <1>1 DEF RequestOK, RequestState, Attempts, Executions, Permits,
                      Signed

LEMMA GetsSlotOK ==
  ASSUME NEW x, RequestOK(x), x.pc = "slot"
  PROVE  RequestOK([x EXCEPT !.pc = "sign", !.permits = @ + 1])
  <1>1. [x EXCEPT !.pc = "sign", !.permits = @ + 1] \in RequestState
    <2>1. x.permits + 1 \in Nat
      BY DEF RequestOK, RequestState
    <2> QED BY <2>1 DEF RequestOK, RequestState, Places
  <1> QED BY <1>1 DEF RequestOK, RequestState, Attempts, Executions, Permits,
                      Signed

LEMMA NapsOK ==
  ASSUME NEW x, RequestOK(x), x.pc = "slot", NEW nap \in 0..(Window + 1)
  PROVE  RequestOK([x EXCEPT !.nap = nap])
  <1>1. [x EXCEPT !.nap = nap] \in RequestState
    BY DEF RequestOK, RequestState
  <1> QED BY <1>1 DEF RequestOK, RequestState, Attempts, Executions, Permits,
                      Signed

\* A signature, and a connection: none yet, one of the pool, a fresh one.
LEMMA SignsOK ==
  ASSUME NEW x, RequestOK(x), x.pc = "sign", NEW signature,
         signature = IF x.verb # "public" THEN "fresh" ELSE x.signature
  PROVE  RequestOK([x EXCEPT !.pc = "take", !.signature = signature])
  <1>1. [x EXCEPT !.pc = "take", !.signature = signature] \in RequestState
    <2>1. signature \in {"none", "fresh", "old"}
      BY DEF RequestOK, RequestState
    <2> QED BY <2>1 DEF RequestOK, RequestState, Places
  <1> QED BY <1>1 DEF RequestOK, RequestState, Attempts, Executions, Permits,
                      Signed

LEMMA TakesNoneOK ==
  ASSUME NEW x, RequestOK(x), x.pc = "take"
  PROVE  RequestOK([x EXCEPT !.pc = "connect", !.usedPooledConn = FALSE])
  <1>1. [x EXCEPT !.pc = "connect", !.usedPooledConn = FALSE] \in RequestState
    BY DEF RequestOK, RequestState, Places
  <1> QED BY <1>1 DEF RequestOK, RequestState, Attempts, Executions, Permits,
                      Signed

LEMMA TakesPooledOK ==
  ASSUME NEW x, RequestOK(x), x.pc = "take", NEW alive \in BOOLEAN
  PROVE  RequestOK([x EXCEPT !.pc = "write", !.usedPooledConn = TRUE,
                             !.alive = alive])
  <1>1. [x EXCEPT !.pc = "write", !.usedPooledConn = TRUE, !.alive = alive]
          \in RequestState
    BY DEF RequestOK, RequestState, Places
  <1> QED BY <1>1 DEF RequestOK, RequestState, Attempts, Executions, Permits,
                      Signed

LEMMA ConnectsOK ==
  ASSUME NEW x, RequestOK(x), x.pc = "connect"
  PROVE  RequestOK([x EXCEPT !.pc = "write", !.alive = TRUE])
  <1>1. [x EXCEPT !.pc = "write", !.alive = TRUE] \in RequestState
    BY DEF RequestOK, RequestState, Places
  <1> QED BY <1>1 DEF RequestOK, RequestState, Attempts, Executions, Permits,
                      Signed

\* The venue has the request and replies to it.
LEMMA WriteOK ==
  ASSUME NEW x, RequestOK(x), x.pc = "write", NEW reply \in Replies,
         NEW n \in Executed(x.verb, reply)
  PROVE  RequestOK([x EXCEPT !.sends = @ + 1, !.pc = "read",
                             !.reply = reply, !.executed = @ + n])
  <1> DEFINE y == [x EXCEPT !.sends = @ + 1, !.pc = "read", !.reply = reply,
                            !.executed = @ + n]
  <1>0. n \in {0, 1} /\ x \in RequestState
    BY DEF Executed, RequestOK
  <1>1. y \in RequestState
    <2>1. x.sends + 1 \in Nat /\ x.executed + n \in Nat
      BY <1>0 DEF RequestState
    <2> QED BY <1>0, <2>1 DEF RequestState, Places
  <1>2. y.verb = "post" => y.executed = n
    BY <1>0 DEF RequestOK, RequestState, Executions
  <1>3. Executions(y)
    BY <1>0, <1>1, <1>2 DEF RequestOK, RequestState, Executions
  <1>4. Attempts(y) /\ Permits(y) /\ Signed(y)
    BY <1>0 DEF RequestOK, RequestState, Attempts, Permits, Signed
  <1> QED BY <1>1, <1>3, <1>4 DEF RequestOK

LEMMA InitOK == RequestOK(Idle)
  BY RestAssumption
  DEF Idle, RequestOK, RequestState, Attempts, Executions, Permits, Signed,
      Places, Results, Verbs

\* Every action of a request keeps the invariant of the requests.
LEMMA RequestSteps ==
  ASSUME IInv, [Next]_vars
  PROVE  RequestsOK'
<1> USE RestAssumption
<1>1. ASSUME NEW r \in Requests, NEW verb \in Verbs, Begin(r, verb)
      PROVE  RequestsOK'
  <2>1. RequestOK([req[r] EXCEPT !.pc = "slot", !.verb = verb])
    BY <1>1, BeginOK DEF Begin, IInv, RequestsOK
  <2> QED BY <1>1, <2>1, BecomesOK DEF Begin, IInv
<1>2. ASSUME NEW r \in Requests, Slot(r) PROVE RequestsOK'
  <2>1. PICK n \in 0..Len(slots) :
          /\ Expired(slots, n)
          /\ \/ GetsSlot(r, Since(slots, n))
             \/ Len(slots) - n >= Limit /\ Naps(r, Since(slots, n))
    BY <1>2 DEF Slot, IInv, LimiterOK
  <2>2. CASE GetsSlot(r, Since(slots, n))
    <3>1. RequestOK([req[r] EXCEPT !.pc = "sign", !.permits = @ + 1])
      BY <1>2, GetsSlotOK DEF Slot, IInv, RequestsOK
    <3> QED BY <2>2, <3>1, BecomesOK DEF GetsSlot, IInv
  <2>3. CASE Len(slots) - n >= Limit /\ Naps(r, Since(slots, n))
    <3> DEFINE age == Since(slots, n)[1]
    <3>1. age = slots[n + 1] /\ age \in 0..Window
      BY <2>1, <2>3 DEF Since, Expired, IInv, LimiterOK
    <3> HIDE DEF age
    <3>2. RequestOK([req[r] EXCEPT !.nap = Window + 1 - age])
      <4>1. RequestOK(req[r]) /\ req[r].pc = "slot"
        BY <1>2 DEF Slot, IInv, RequestsOK
      <4>2. Window + 1 - age \in 0..(Window + 1)
        BY <3>1
      <4> QED BY <4>1, <4>2, NapsOK
    <3> QED BY <2>3, <3>2, BecomesOK DEF Naps, IInv, age
  <2> QED BY <2>1, <2>2, <2>3
<1>3. ASSUME NEW r \in Requests, Sign(r) PROVE RequestsOK'
  <2>1. RequestOK([req[r] EXCEPT !.pc = "take",
          !.signature = IF req[r].verb # "public" THEN "fresh" ELSE @])
    <3> DEFINE signature == IF req[r].verb # "public" THEN "fresh"
                            ELSE req[r].signature
    <3>1. RequestOK(req[r]) /\ req[r].pc = "sign"
      BY <1>3 DEF Sign, IInv, RequestsOK
    <3>2. RequestOK([req[r] EXCEPT !.pc = "take", !.signature = signature])
      BY <3>1, SignsOK
    <3> QED BY <3>2
  <2> QED BY <1>3, <2>1, BecomesOK DEF Sign, IInv
<1>4. ASSUME NEW r \in Requests, Take(r) PROVE RequestsOK'
  <2>1. RequestOK([req[r] EXCEPT !.pc = "connect", !.usedPooledConn = FALSE])
    BY <1>4, TakesNoneOK DEF Take, IInv, RequestsOK
  <2>2. ASSUME NEW top \in DOMAIN pool
        PROVE  RequestOK([req[r] EXCEPT !.pc = "write", !.usedPooledConn = TRUE,
                                        !.alive = pool[top].alive])
    <3>1. pool[top].alive \in BOOLEAN
      <4>1. pool[top] \in [alive : BOOLEAN, old : BOOLEAN]
        <5>1. pool \in Seq([alive : BOOLEAN, old : BOOLEAN])
          BY DEF IInv, PoolOK
        <5> QED BY <2>2, <5>1, ElementOfSeq, LenProperties
      <4> QED BY <4>1
    <3> DEFINE alive == pool[top].alive
    <3> HIDE DEF alive
    <3>2. RequestOK([req[r] EXCEPT !.pc = "write", !.usedPooledConn = TRUE,
                                   !.alive = alive])
      <4>1. RequestOK(req[r]) /\ req[r].pc = "take"
        BY <1>4 DEF Take, IInv, RequestsOK
      <4>2. alive \in BOOLEAN
        BY <3>1 DEF alive
      <4> QED BY <4>1, <4>2, TakesPooledOK
    <3> QED BY <3>2 DEF alive
  <2>3. \/ Becomes(r, [req[r] EXCEPT !.pc = "connect", !.usedPooledConn = FALSE])
        \/ \E top \in DOMAIN pool :
             Becomes(r, [req[r] EXCEPT !.pc = "write", !.usedPooledConn = TRUE,
                                       !.alive = pool[top].alive])
    BY <1>4 DEF Take
  <2> QED BY <2>1, <2>2, <2>3, BecomesOK DEF IInv
<1>5. ASSUME NEW r \in Requests, Connect(r) PROVE RequestsOK'
  <2>1. RequestOK([req[r] EXCEPT !.pc = "write", !.alive = TRUE])
    BY <1>5, ConnectsOK DEF Connect, IInv, RequestsOK
  <2>2. RequestOK(Ends(req[r], "unsent"))
    BY <1>5, EndsOK DEF Connect, IInv, RequestsOK, RequestOK, Executions, Results
  <2>3. req[r].attempt < MaxRetries => RequestOK(Retries(req[r]))
    BY <1>5, RetriesOK
    DEF Connect, IInv, RequestsOK, RequestOK, Executions, Permits, Places
  <2>4. req[r].attempt \in Nat
    BY DEF IInv, RequestsOK, RequestState
  <2> QED BY <1>5, <2>1, <2>2, <2>3, <2>4, BecomesOK DEF Connect, IInv
<1>6. ASSUME NEW r \in Requests, Write(r) PROVE RequestsOK'
  <2> DEFINE x == [req[r] EXCEPT !.sends = @ + 1]
  <2>1. ASSUME NEW reply \in Replies, NEW n \in Executed(req[r].verb, reply)
        PROVE  RequestOK([x EXCEPT !.pc = "read", !.reply = reply,
                                   !.executed = @ + n])
    <3>1. RequestOK(req[r]) /\ req[r].pc = "write"
      BY <1>6 DEF Write, IInv, RequestsOK
    <3>2. RequestOK([req[r] EXCEPT !.sends = @ + 1, !.pc = "read",
                      !.reply = reply, !.executed = @ + n])
      BY <3>1, WriteOK
    <3>3. req[r] \in RequestState
      BY <3>1 DEF RequestOK
    <3> QED BY <3>2, <3>3 DEF RequestState
  <2>2. RequestOK(FailsSent(x))
    <3>0. /\ RequestOK(req[r]) /\ req[r].pc = "write" /\ req[r].result = "none"
          /\ req[r].verb = "post" => req[r].executed <= 1
      BY <1>6 DEF Write, IInv, RequestsOK, RequestOK, Executions
    <3>1. /\ x \in RequestState /\ Attempts(x) /\ x.pc = "write"
          /\ x.result = "none" /\ x.sends <= x.permits
          /\ x.verb = "post" => x.executed <= 1
      BY <3>0 DEF RequestOK, RequestState, Attempts, Permits
    <3> HIDE DEF x
    <3> QED BY <3>1, FailsSentOK DEF Places
  <2>3. x.verb = req[r].verb
    BY DEF IInv, RequestsOK, RequestState
  <2> QED BY <1>6, <2>1, <2>2, <2>3, BecomesOK DEF Write, IInv
<1>7. ASSUME NEW r \in Requests, Answered(r) PROVE RequestsOK'
  <2>0. /\ RequestOK(req[r]) /\ req[r].pc = "read"
        /\ req[r].verb = "post" =>
             /\ req[r].reply = "success" => req[r].executed = 1
             /\ req[r].reply = "throttle" => req[r].executed = 0
    BY <1>7 DEF Answered, IInv, RequestsOK, RequestOK, Executions, Executed
  <2>1. req[r].reply # "throttle" => RequestOK(Ends(req[r], "answer"))
    BY <2>0, EndsOK DEF Results
  <2>2. req[r].reply = "throttle" => RequestOK(Ends(req[r], "throttled"))
    BY <2>0, EndsOK DEF Results
  <2>3. req[r].reply = "throttle" /\ req[r].attempt < MaxRetries =>
          RequestOK(Retries(req[r]))
    BY <2>0, RetriesOK
    DEF RequestOK, Executions, Permits, Places
  <2>4. req[r].attempt \in Nat
    BY DEF IInv, RequestsOK, RequestState
  <2> QED BY <1>7, <2>1, <2>2, <2>3, <2>4, BecomesOK DEF Answered, IInv
<1>8. ASSUME NEW r \in Requests, Unanswered(r) PROVE RequestsOK'
  <2> DEFINE x == [req[r] EXCEPT !.reply = "none"]
  <2>1. RequestOK(FailsSent(x))
    <3>1. /\ x \in RequestState /\ Attempts(x) /\ x.pc = "read"
          /\ x.result = "none" /\ x.sends <= x.permits
          /\ x.verb = "post" => x.executed <= 1
      BY <1>8 DEF Unanswered, IInv, RequestsOK, RequestOK, RequestState, Attempts,
                  Executions, Permits
    <3> HIDE DEF x
    <3> QED BY <3>1, FailsSentOK DEF Places
  <2> QED BY <1>8, <2>1, BecomesOK DEF Unanswered, IInv
<1>9. ASSUME NEW r \in Requests, Wakes(r) PROVE RequestsOK'
  <2>1. RequestOK([req[r] EXCEPT !.pc = "slot"])
    BY <1>9 DEF Wakes, IInv, RequestsOK, RequestOK, RequestState, Attempts,
                Executions, Permits, Signed, Places, Results, Verbs
  <2> QED BY <1>9, <2>1, BecomesOK DEF Wakes, IInv
<1>10. CASE Tick
  <2>1. ASSUME NEW r \in Requests
        PROVE  RequestOK([req[r] EXCEPT !.nap = IF @ > 0 THEN @ - 1 ELSE 0])
    BY DEF IInv, RequestsOK, RequestOK, RequestState, Attempts,
           Executions, Permits, Signed, Places, Results, Verbs
  <2> QED BY <1>10, <2>1 DEF Tick, RequestsOK, RequestOK
<1>11. CASE UNCHANGED req
  BY <1>11 DEF IInv, RequestsOK, RequestOK
<1> QED
  BY <1>1, <1>2, <1>3, <1>4, <1>5, <1>6, <1>7, <1>8, <1>9, <1>10, <1>11
  DEF Next, Runs, Works, Reads, ServerCloses, GrowsOld, vars

-----------------------------------------------------------------------------
(* The pool and the limiter.                                               *)

LEMMA PartOfSeq ==
  ASSUME NEW S, NEW s \in Seq(S), NEW m \in 1..(Len(s) + 1),
         NEW n \in 0..Len(s), m <= n + 1
  PROVE  /\ SubSeq(s, m, n) \in Seq(S) /\ Len(SubSeq(s, m, n)) = n - m + 1
         /\ \A i \in 1..(n - m + 1) : SubSeq(s, m, n)[i] = s[m + i - 1]
<1>1. Len(s) \in Nat
  BY LenProperties
<1>2. \A i \in m..n : s[i] \in S
  BY <1>1, ElementOfSeq
<1>3. n - m + 1 = IF m <= n THEN n - m + 1 ELSE 0
  BY <1>1
<1> QED BY <1>1, <1>2, <1>3, SubSeqProperties

LEMMA PoolSteps ==
  ASSUME IInv, [Next]_vars
  PROVE  PoolOK'
<1> DEFINE Conns == [alive : BOOLEAN, old : BOOLEAN]
<1>0. pool \in Seq(Conns) /\ Len(pool) \in Nat /\ Len(pool) <= MaxPoolSize
  BY LenProperties DEF IInv, PoolOK
<1>1. ASSUME NEW r \in Requests, Take(r) PROVE PoolOK'
  <2>1. CASE pool' = <<>>
    BY <2>1, RestAssumption DEF PoolOK
  <2>2. ASSUME NEW top \in 1..Len(pool), pool' = SubSeq(pool, 1, top - 1)
        PROVE  PoolOK'
    <3>1. pool' \in Seq(Conns) /\ Len(pool') = top - 1
      <4>1. /\ 1 \in 1..(Len(pool) + 1) /\ top - 1 \in 0..Len(pool)
            /\ 1 <= top - 1 + 1 /\ top - 1 - 1 + 1 = top - 1
        BY <1>0
      <4> HIDE DEF Conns
      <4>2. /\ SubSeq(pool, 1, top - 1) \in Seq(Conns)
            /\ Len(SubSeq(pool, 1, top - 1)) = top - 1 - 1 + 1
        BY <1>0, <4>1, PartOfSeq
      <4> QED BY <2>2, <4>1, <4>2
    <3>2. Len(pool') <= MaxPoolSize
      BY <1>0, <3>1, RestAssumption
    <3> QED BY <3>1, <3>2 DEF PoolOK
  <2>3. pool' = <<>> \/ \E top \in 1..Len(pool) : pool' = SubSeq(pool, 1, top - 1)
    <3>1. DOMAIN pool = 1..Len(pool)
      BY <1>0, LenProperties
    <3> HIDE DEF Conns
    <3> QED BY <1>1, <3>1 DEF Take
  <2> QED BY <2>1, <2>2, <2>3
<1>2. ASSUME NEW r \in Requests, Answered(r) PROVE PoolOK'
  <2> DEFINE conn == [alive |-> TRUE, old |-> FALSE]
  <2>1. CASE ReturnConn(conn)
    <3>1. CASE Len(pool) < MaxPoolSize
      <4>1. pool' = Append(pool, conn)
        BY <2>1, <3>1 DEF ReturnConn
      <4>2. pool' \in Seq(Conns) /\ Len(pool') = Len(pool) + 1
        BY <1>0, <4>1, AppendProperties
      <4> QED BY <1>0, <3>1, <4>2, RestAssumption DEF PoolOK
    <3>2. CASE ~(Len(pool) < MaxPoolSize)
      BY <1>0, <2>1, <3>2 DEF ReturnConn, PoolOK
    <3> QED BY <3>1, <3>2
  <2>2. CASE UNCHANGED pool
    BY <1>0, <2>2 DEF PoolOK
  <2> QED BY <1>2, <2>1, <2>2 DEF Answered
<1>3. ASSUME NEW i \in 1..Len(pool),
             \/ pool' = [pool EXCEPT ![i].alive = FALSE]
             \/ pool' = [pool EXCEPT ![i].old = TRUE]
      PROVE  PoolOK'
  <2>1. \/ pool' = [pool EXCEPT ![i] = [pool[i] EXCEPT !.alive = FALSE]]
        \/ pool' = [pool EXCEPT ![i] = [pool[i] EXCEPT !.old = TRUE]]
    BY <1>0, <1>3
  <2>2. pool[i] \in Conns
    BY <1>0, <1>3, ElementOfSeq
  <2>3. /\ [pool[i] EXCEPT !.alive = FALSE] \in Conns
        /\ [pool[i] EXCEPT !.old = TRUE] \in Conns
    BY <2>2
  <2>4. pool' \in Seq(Conns) /\ Len(pool') = Len(pool)
    <3>1. ASSUME NEW c \in Conns, pool' = [pool EXCEPT ![i] = c]
          PROVE  pool' \in Seq(Conns) /\ Len(pool') = Len(pool)
      BY <1>0, <3>1, ExceptSeq
    <3> QED BY <2>1, <2>3, <3>1
  <2> QED BY <1>0, <2>4 DEF PoolOK
<1>4. CASE UNCHANGED pool
  BY <1>0, <1>4 DEF PoolOK
<1>5. ServerCloses \/ GrowsOld => PoolOK'
  BY <1>0, <1>3, LenProperties DEF ServerCloses, GrowsOld
<1> QED
  BY <1>1, <1>2, <1>4, <1>5
  DEF Next, Runs, Works, Reads, Begin, Slot, Sign, Connect, Write, Unanswered, Wakes, Tick,
      vars

\* Expired slots are none of the last window's permits: what is kept still ends
\* in them.
LEMMA KeptSlots ==
  ASSUME LimiterOK, NEW n \in 0..Len(slots), Expired(slots, n)
  PROVE  LET kept == Since(slots, n) IN
         /\ kept \in Seq(0..(Window + 1)) /\ Len(kept) = Len(slots) - n
         /\ Len(recent) <= Len(kept)
         /\ \A i \in 1..Len(recent) :
              recent[i] = kept[Len(kept) - Len(recent) + i]
<1> DEFINE kept == Since(slots, n)
<1> DEFINE shift == Len(slots) - Len(recent)
<1>0. /\ slots \in Seq(0..(Window + 1)) /\ recent \in Seq(0..Window)
      /\ Len(slots) \in Nat /\ Len(recent) \in Nat /\ shift \in Nat
  BY LenProperties DEF LimiterOK
<1>1. n <= shift
  <2> SUFFICES ASSUME shift < n PROVE FALSE
    BY <1>0
  <2>1. n - shift \in 1..Len(recent)
    BY <1>0
  <2>2. recent[n - shift] = slots[n] /\ recent[n - shift] <= Window
    <3>1. recent[n - shift] = slots[shift + (n - shift)]
      BY <2>1 DEF LimiterOK
    <3>2. shift + (n - shift) = n
      BY <1>0
    <3>3. recent[n - shift] \in 0..Window
      BY <1>0, <2>1, ElementOfSeq
    <3> QED BY <3>1, <3>2, <3>3, RestAssumption
  <2>3. slots[n] > Window
    BY <1>0 DEF Expired
  <2> QED BY <1>0, <2>2, <2>3, RestAssumption
<1>2. /\ kept \in Seq(0..(Window + 1)) /\ Len(kept) = Len(slots) - n
      /\ \A i \in 1..Len(kept) : kept[i] = slots[n + i]
  <2>1. /\ n + 1 \in 1..(Len(slots) + 1) /\ Len(slots) \in 0..Len(slots)
        /\ n + 1 <= Len(slots) + 1
    BY <1>0
  <2>2. /\ kept \in Seq(0..(Window + 1)) /\ Len(kept) = Len(slots) - (n + 1) + 1
        /\ \A i \in 1..(Len(slots) - (n + 1) + 1) : kept[i] = slots[n + 1 + i - 1]
    BY <1>0, <2>1, PartOfSeq DEF Since
  <2>3. Len(slots) - (n + 1) + 1 = Len(slots) - n
    BY <1>0
  <2>4. ASSUME NEW i \in 1..Len(kept) PROVE kept[i] = slots[n + i]
    <3>1. n + 1 + i - 1 = n + i
      BY <1>0
    <3> QED BY <2>2, <2>3, <3>1
  <2> QED BY <2>2, <2>3, <2>4
<1> HIDE DEF kept
<1>3. ASSUME NEW i \in 1..Len(recent)
      PROVE  recent[i] = kept[Len(kept) - Len(recent) + i]
  <2>1. recent[i] = slots[shift + i]
    BY DEF LimiterOK
  <2>2. shift - n + i \in 1..Len(kept) /\ n + (shift - n + i) = shift + i
    BY <1>0, <1>1, <1>2
  <2>3. kept[shift - n + i] = slots[n + (shift - n + i)]
    BY <1>2, <2>2
  <2>4. Len(kept) - Len(recent) + i = shift - n + i
    BY <1>0, <1>2
  <2> QED BY <2>1, <2>2, <2>3, <2>4
<1>4. Len(recent) <= Len(kept)
  BY <1>0, <1>1, <1>2
<1> QED BY <1>2, <1>3, <1>4 DEF kept

\* A permit becomes the newest slot and the newest permit of the window.
LEMMA GetsSlotLimit ==
  ASSUME LimiterOK, NEW n \in 0..Len(slots), Expired(slots, n),
         Len(slots) - n < Limit, NEW r \in Requests,
         GetsSlot(r, Since(slots, n))
  PROVE  LimiterOK'
<1> DEFINE kept == Since(slots, n)
<1>0. /\ recent \in Seq(0..Window) /\ Len(recent) \in Nat /\ Len(slots) \in Nat
  BY LenProperties DEF LimiterOK
<1>1. /\ kept \in Seq(0..(Window + 1)) /\ Len(kept) = Len(slots) - n
      /\ Len(kept) \in Nat /\ Len(recent) <= Len(kept)
      /\ \A i \in 1..Len(recent) : recent[i] = kept[Len(kept) - Len(recent) + i]
  BY KeptSlots, LenProperties
<1>2. slots' = Append(kept, 0) /\ recent' = Append(recent, 0)
  BY DEF GetsSlot
<1> HIDE DEF kept
<1>3. /\ slots' \in Seq(0..(Window + 1)) /\ Len(slots') = Len(kept) + 1
      /\ slots'[Len(kept) + 1] = 0
      /\ \A i \in 1..Len(kept) : slots'[i] = kept[i]
  BY <1>1, <1>2, AppendProperties, RestAssumption
<1>4. /\ recent' \in Seq(0..Window) /\ Len(recent') = Len(recent) + 1
      /\ recent'[Len(recent) + 1] = 0
      /\ \A i \in 1..Len(recent) : recent'[i] = recent[i]
  BY <1>0, <1>2, AppendProperties, RestAssumption
<1>5. Len(recent') <= Len(slots') /\ Len(slots') <= Limit
  <2>1. Len(slots') = Len(slots) - n + 1 /\ Len(recent') = Len(recent) + 1
    BY <1>1, <1>3, <1>4
  <2>2. Len(slots) - n + 1 <= Limit
    BY <1>0, RestAssumption
  <2> QED BY <1>0, <1>1, <1>3, <2>1, <2>2
<1>6. ASSUME NEW i \in 1..Len(recent')
      PROVE  recent'[i] = slots'[Len(slots') - Len(recent') + i]
  <2>1. Len(slots') - Len(recent') + i = Len(kept) - Len(recent) + i
    BY <1>0, <1>1, <1>3, <1>4
  <2>2. CASE i = Len(recent) + 1
    BY <1>0, <1>1, <1>3, <1>4, <2>1, <2>2
  <2>3. CASE i \in 1..Len(recent)
    <3>1. Len(kept) - Len(recent) + i \in 1..Len(kept)
      BY <1>0, <1>1, <2>3
    <3> QED BY <1>1, <1>3, <1>4, <2>1, <2>3, <3>1
  <2> QED BY <1>0, <1>4, <1>6, <2>2, <2>3
<1>7. ASSUME NEW i \in 1..Len(recent'), NEW j \in 1..Len(recent'), i <= j
      PROVE  recent'[j] <= recent'[i]
  <2>1. CASE j = Len(recent) + 1
    <3>1. recent'[i] \in 0..Window
      BY <1>4, ElementOfSeq
    <3> QED BY <1>4, <2>1, <3>1, RestAssumption
  <2>2. CASE j \in 1..Len(recent)
    <3>1. i \in 1..Len(recent)
      BY <1>0, <1>4, <1>7, <2>2
    <3> QED BY <1>4, <1>7, <2>2, <3>1 DEF LimiterOK
  <2> QED BY <1>0, <1>4, <1>7, <2>1, <2>2
<1> QED BY <1>3, <1>4, <1>5, <1>6, <1>7 DEF LimiterOK

\* A nap only drops expired slots.
LEMMA NapsLimit ==
  ASSUME LimiterOK, NEW n \in 0..Len(slots), Expired(slots, n),
         NEW r \in Requests, Naps(r, Since(slots, n))
  PROVE  LimiterOK'
<1> DEFINE kept == Since(slots, n)
<1>1. /\ kept \in Seq(0..(Window + 1)) /\ Len(kept) = Len(slots) - n
      /\ Len(recent) <= Len(kept)
      /\ \A i \in 1..Len(recent) : recent[i] = kept[Len(kept) - Len(recent) + i]
  BY KeptSlots
<1>2. slots' = kept /\ recent' = recent
  BY DEF Naps
<1> HIDE DEF kept
<1>3. Len(kept) <= Limit
  BY <1>1, LenProperties, RestAssumption DEF LimiterOK
<1> QED BY <1>1, <1>2, <1>3 DEF LimiterOK

\* Time: the ages of the last window's permits grow with their slots, and
\* those that leave the window are the oldest.
LEMMA TickLimit ==
  ASSUME LimiterOK, Tick
  PROVE  LimiterOK'
<1> DEFINE older == [i \in 1..Len(recent) |-> recent[i] + 1]
<1>0. /\ slots \in Seq(0..(Window + 1)) /\ recent \in Seq(0..Window)
      /\ Len(slots) \in Nat /\ Len(recent) \in Nat
      /\ Len(recent) <= Len(slots) /\ Len(slots) <= Limit
  BY LenProperties DEF LimiterOK
<1>1. PICK n \in 0..Len(recent) : Expired(older, n) /\ recent' = Since(older, n)
  BY DEF Tick
<1>2. /\ \A i \in 1..Len(recent) : recent[i] \in 0..Window
      /\ \A i \in 1..Len(slots) : slots[i] \in 0..(Window + 1)
  BY <1>0, ElementOfSeq
<1>3. /\ older \in Seq(0..(Window + 1)) /\ Len(older) = Len(recent)
      /\ \A i \in 1..Len(recent) : older[i] = recent[i] + 1
  BY <1>0, <1>2, RestAssumption
<1>4. /\ slots' \in Seq(0..(Window + 1)) /\ Len(slots') = Len(slots)
      /\ \A i \in 1..Len(slots) :
           slots'[i] = IF slots[i] <= Window THEN slots[i] + 1 ELSE slots[i]
  BY <1>0, <1>2, RestAssumption DEF Tick
<1> HIDE DEF older
<1>5. /\ Len(recent') = Len(recent) - n /\ recent' \in Seq(0..(Window + 1))
      /\ \A i \in 1..(Len(recent) - n) : recent'[i] = recent[n + i] + 1
  <2>1. /\ n + 1 \in 1..(Len(older) + 1) /\ Len(older) \in 0..Len(older)
        /\ n + 1 <= Len(older) + 1 /\ Len(older) - (n + 1) + 1 = Len(recent) - n
    BY <1>0, <1>3
  <2>2. /\ recent' \in Seq(0..(Window + 1)) /\ Len(recent') = Len(older) - (n + 1) + 1
        /\ \A i \in 1..(Len(older) - (n + 1) + 1) :
             recent'[i] = older[n + 1 + i - 1]
    BY <1>1, <1>3, <2>1, PartOfSeq DEF Since
  <2>3. ASSUME NEW i \in 1..(Len(recent) - n)
        PROVE  recent'[i] = recent[n + i] + 1
    <3>1. n + 1 + i - 1 = n + i /\ n + i \in 1..Len(recent)
      BY <1>0
    <3> QED BY <1>3, <2>1, <2>2, <3>1
  <2> QED BY <2>1, <2>2, <2>3
<1>6. ASSUME NEW i \in 1..Len(recent'), NEW j \in 1..Len(recent'), i <= j
      PROVE  recent'[j] <= recent'[i]
  <2>1. n + i \in 1..Len(recent) /\ n + j \in 1..Len(recent) /\ n + i <= n + j
    BY <1>0, <1>5, <1>6
  <2>2. recent[n + j] <= recent[n + i]
    BY <2>1 DEF LimiterOK
  <2>3. recent'[i] = recent[n + i] + 1 /\ recent'[j] = recent[n + j] + 1
    BY <1>5, <1>6
  <2>4. recent[n + i] \in Int /\ recent[n + j] \in Int
    <3>1. recent[n + i] \in 0..Window /\ recent[n + j] \in 0..Window
      BY <1>2, <2>1
    <3> QED BY <3>1
  <2> QED BY <2>2, <2>3, <2>4
<1>7. ASSUME NEW i \in 1..Len(recent') PROVE recent'[i] \in 0..Window
  <2>1. recent'[1] <= Window
    <3>1. n < Len(older) /\ n + 1 \in 1..Len(recent)
      BY <1>0, <1>3, <1>5, <1>7
    <3>2. older[n + 1] <= Window
      BY <1>1, <3>1 DEF Expired
    <3> QED BY <1>3, <1>5, <1>7, <3>1, <3>2
  <2>2. 1 \in 1..Len(recent') /\ 1 <= i
    BY <1>0, <1>5, <1>7
  <2>3. recent'[i] \in 0..(Window + 1) /\ recent'[1] \in 0..(Window + 1)
    BY <1>5, <1>7, <2>2, ElementOfSeq
  <2>4. recent'[i] <= recent'[1]
    BY <1>6, <1>7, <2>2
  <2> QED BY <2>1, <2>3, <2>4, RestAssumption
<1>8. recent' \in Seq(0..Window)
  <2>1. Len(recent') \in Nat /\ recent' \in [1..Len(recent') -> 0..(Window + 1)]
    BY <1>5, LenProperties
  <2>2. recent' \in [1..Len(recent') -> 0..Window]
    BY <1>7, <2>1
  <2> QED BY <2>1, <2>2, SeqDef
<1>9. ASSUME NEW i \in 1..Len(recent')
      PROVE  recent'[i] = slots'[Len(slots') - Len(recent') + i]
  <2>1. n + i \in 1..Len(recent) /\ Len(slots) - Len(recent) + (n + i) \in 1..Len(slots)
        /\ Len(slots') - Len(recent') + i = Len(slots) - Len(recent) + (n + i)
    BY <1>0, <1>4, <1>5, <1>9
  <2>2. recent[n + i] = slots[Len(slots) - Len(recent) + (n + i)]
    BY <2>1 DEF LimiterOK
  <2>3. recent[n + i] <= Window
    BY <1>2, <2>1, RestAssumption
  <2> QED BY <1>4, <1>5, <1>9, <2>1, <2>2, <2>3
<1>10. Len(recent') <= Len(slots') /\ Len(slots') <= Limit
  BY <1>0, <1>4, <1>5
<1> QED BY <1>4, <1>6, <1>8, <1>9, <1>10 DEF LimiterOK

LEMMA LimiterSteps ==
  ASSUME IInv, [Next]_vars
  PROVE  LimiterOK'
<1>1. ASSUME NEW r \in Requests, Slot(r) PROVE LimiterOK'
  BY <1>1, GetsSlotLimit, NapsLimit DEF Slot, IInv
<1>2. CASE Tick
  BY <1>2, TickLimit DEF IInv
<1>3. CASE UNCHANGED <<slots, recent>>
  BY <1>3 DEF IInv, LimiterOK
<1> QED
  BY <1>1, <1>2, <1>3
  DEF Next, Runs, Works, Reads, Begin, Sign, Take, Connect, Write, Answered, Unanswered,
      Wakes, ServerCloses, GrowsOld, vars

-----------------------------------------------------------------------------
(* Theorems.                                                               *)

LEMMA Invariance == Spec => []IInv
<1>1. Init => IInv
  <2> SUFFICES ASSUME Init PROVE IInv
    OBVIOUS
  <2>1. RequestsOK
    BY InitOK DEF Init, RequestsOK, RequestOK
  <2>2. PoolOK /\ LimiterOK
    BY RestAssumption DEF Init, PoolOK, LimiterOK
  <2> QED BY <2>1, <2>2 DEF IInv
<1>2. IInv /\ [Next]_vars => IInv'
  BY RequestSteps, PoolSteps, LimiterSteps DEF IInv
<1> QED BY <1>1, <1>2, PTL DEF Spec

\* TypeOK of RestRequest: also, the pool never outgrows maxPoolSize and a
\* request never has more than MAX_RETRIES turns but the one of a stale GET.
THEOREM TypeCorrect == Spec => []TypeOK
<1>1. IInv => TypeOK
  BY DEF IInv, RequestsOK, RequestOK, Attempts, PoolOK, LimiterOK, TypeOK
<1> QED BY <1>1, Invariance, PTL

\* PostAtMostOnce: no schedule of failures and retries makes the venue execute
\* a POST twice.
THEOREM PostsExecuteOnce == Spec => []PostAtMostOnce
<1>1. IInv => PostAtMostOnce
  BY DEF IInv, RequestsOK, RequestOK, Executions, PostAtMostOnce
<1> QED BY <1>1, Invariance, PTL

\* OutcomeTrue: a POST that ends with 510 or without a connection was executed by
\* none of its attempts, one that ends with a success by exactly one of them.
THEOREM OutcomesAreTrue == Spec => []OutcomeTrue
<1>1. IInv => OutcomeTrue
  BY DEF IInv, RequestsOK, RequestOK, Executions, OutcomeTrue
<1> QED BY <1>1, Invariance, PTL

\* Paced: over all threads, first attempts and retries, no window has more
\* permits than the limit, and every write of every attempt had one of its own.
THEOREM AttemptsArePaced == Spec => []Paced
<1>1. IInv => Paced
  <2>1. IInv => Len(recent) <= Limit
    BY LenProperties, RestAssumption DEF IInv, LimiterOK
  <2>2. IInv => \A r \in Requests : req[r].sends <= req[r].permits
    BY DEF IInv, RequestsOK, RequestOK, Permits
  <2> QED BY <2>1, <2>2 DEF Paced
<1> QED BY <1>1, Invariance, PTL

\* FreshSignature: what is written was signed after the last pause.
THEOREM SignaturesAreFresh == Spec => []FreshSignature
<1>1. IInv => FreshSignature
  BY DEF IInv, RequestsOK, RequestOK, Signed, FreshSignature
<1> QED BY <1>1, Invariance, PTL

=============================================================================
