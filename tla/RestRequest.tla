---------------------------- MODULE RestRequest ----------------------------
(***************************************************************************)
(* Requests of the futures RESTClient: each on a thread of its own, paced  *)
(* by the process-wide RateLimiter, signed, written to a pooled or a fresh *)
(* connection, and retried by HTTPSession::P::request.                     *)
(*                                                                         *)
(* Time is discrete.  slots is requestTimes, oldest first, as ages: the    *)
(* limiter only compares them with the window.  A pause of the retry loop  *)
(* lasts as long as it likes.  The venue executes a request, refuses it    *)
(* with 510, answers it with another error (513, 2015, an HTTP error of    *)
(* the edge), or never sees it; the network may lose the answer.           *)
(***************************************************************************)
EXTENDS Integers, Sequences, FiniteSets

CONSTANTS
  Requests,    \* calls of the client's methods
  Limit,       \* localLimit: 6
  Window,      \* windowSizeMs: 1 s
  MaxRetries,  \* MAX_RETRIES: 4
  MaxPoolSize  \* maxPoolSize: 4

ASSUME RestAssumption ==
  /\ Limit \in Nat \ {0} /\ Window \in Nat
  /\ MaxRetries \in Nat /\ MaxPoolSize \in Nat

VARIABLES
  req,    \* the state of each request
  slots,  \* RateLimiter::requestTimes, as ages
  pool,   \* idle connections, the last one on top
  recent  \* history: ages, up to Window, of the permits the limiter gave

vars == <<req, slots, pool, recent>>

\* A GET of a private endpoint, an unsigned GET, a POST.
Verbs == {"get", "public", "post"}
Places == {"idle", "slot", "sign", "take", "connect", "write", "read", "pause",
           "done"}
\* What the venue replies to a request: success, 510, or any other error.
Replies == {"success", "throttle", "error"}
\* The executions that a reply stands for, counted for a POST only: a 510 refuses
\* the request, but an error of the edge, such as a gateway timeout, tells nothing.
Executed(verb, reply) ==
  {n \in {0, 1} : /\ verb = "post" /\ reply = "success" => n = 1
                  /\ verb # "post" \/ reply = "throttle" => n = 0}

\* How request() ends: the venue's answer, its last 510, or an exception before
\* or after the request had left the socket.
Results == {"none", "answer", "throttled", "unsent", "broken"}

Idle == [pc |-> "idle", verb |-> "get", attempt |-> 0, nap |-> 0,
         staleConnRetried |-> FALSE, usedPooledConn |-> FALSE, alive |-> TRUE,
         reply |-> "none", result |-> "none",
         signature |-> "none", \* "old" once the thread slept after signing
         permits |-> 0, sends |-> 0, executed |-> 0] \* history, executed of a POST

RequestState ==
  [pc : Places, verb : Verbs, attempt : Nat, nap : 0..(Window + 1),
   staleConnRetried : BOOLEAN, usedPooledConn : BOOLEAN, alive : BOOLEAN,
   reply : Replies \cup {"none"}, result : Results,
   signature : {"none", "fresh", "old"},
   permits : Nat, sends : Nat, executed : Nat]

Init ==
  /\ req = [r \in Requests |-> Idle]
  /\ slots = <<>> /\ pool = <<>> /\ recent = <<>>

\* The request moves on as the record says; nothing else does.
Becomes(r, next) == req' = [req EXCEPT ![r] = next]

Aged(signature) == IF signature = "fresh" THEN "old" ELSE signature

-----------------------------------------------------------------------------
(* Pacing and signing.                                                     *)

\* A client method: rateLimiter.wait() comes first.
Begin(r, verb) ==
  /\ req[r].pc = "idle"
  /\ Becomes(r, [req[r] EXCEPT !.pc = "slot", !.verb = verb])
  /\ UNCHANGED <<slots, pool, recent>>

\* The first n of these ages, oldest first, are over the window; the limiter
\* goes on with the others.
Expired(ages, n) ==
  /\ \A i \in 1..n : ages[i] > Window
  /\ n < Len(ages) => ages[n + 1] <= Window
Since(ages, n) == SubSeq(ages, n + 1, Len(ages))

\* A slot is free among those kept: the request takes it.  Otherwise it naps
\* until the oldest one expires.
GetsSlot(r, kept) ==
  /\ slots' = Append(kept, 0) /\ recent' = Append(recent, 0)
  /\ Becomes(r, [req[r] EXCEPT !.pc = "sign", !.permits = @ + 1])
Naps(r, kept) ==
  /\ slots' = kept /\ UNCHANGED recent
  /\ Becomes(r, [req[r] EXCEPT !.nap = Window + 1 - kept[1]])

\* Mutant: permits never expire.
SlotNoExpiry(r) ==
  /\ req[r].pc = "slot" /\ req[r].nap = 0
  /\ IF Len(slots) < Limit THEN GetsSlot(r, slots) ELSE Naps(r, slots)
  /\ UNCHANGED pool

\* RateLimiter::wait, one turn of its loop.
Slot(r) ==
  /\ req[r].pc = "slot" /\ req[r].nap = 0
  /\ \E n \in 0..Len(slots) :
       /\ Expired(slots, n)
       /\ IF Len(slots) - n < Limit THEN GetsSlot(r, Since(slots, n))
                                    ELSE Naps(r, Since(slots, n))
  /\ UNCHANGED pool

\* Mutant: only the first attempt is signed.
SignOnce(r) ==
  /\ req[r].pc = "sign"
  /\ Becomes(r, [req[r] EXCEPT !.pc = "take",
       !.signature = IF req[r].verb # "public" /\ req[r].attempt = 0
                     THEN "fresh" ELSE @])
  /\ UNCHANGED <<slots, pool, recent>>

\* authenticateGet, authenticatePost: before the first attempt, and as reauth
\* after the pacing hook of every other one.
Sign(r) ==
  /\ req[r].pc = "sign"
  /\ Becomes(r, [req[r] EXCEPT !.pc = "take",
       !.signature = IF req[r].verb # "public" THEN "fresh" ELSE @])
  /\ UNCHANGED <<slots, pool, recent>>

-----------------------------------------------------------------------------
(* Connections.                                                            *)

\* takeConn: from the top, dropping those idle for over maxConnIdle.
Take(r) ==
  /\ req[r].pc = "take"
  /\ LET young == {i \in DOMAIN pool : ~pool[i].old} IN
     IF young = {}
     THEN /\ pool' = <<>>
          /\ Becomes(r, [req[r] EXCEPT !.pc = "connect",
                                       !.usedPooledConn = FALSE])
     ELSE \E top \in young :
          /\ \A i \in young : i <= top
          /\ pool' = SubSeq(pool, 1, top - 1)
          /\ Becomes(r, [req[r] EXCEPT !.pc = "write", !.usedPooledConn = TRUE,
                                       !.alive = pool[top].alive])
  /\ UNCHANGED <<slots, recent>>

\* Mutant: one connection more than the pool is to hold.
ReturnConnMore(conn) ==
  pool' = IF Len(pool) <= MaxPoolSize THEN Append(pool, conn) ELSE pool

\* returnConn: beyond maxPoolSize the connection is closed.
ReturnConn(conn) ==
  pool' = IF Len(pool) < MaxPoolSize THEN Append(pool, conn) ELSE pool

\* The server closes an idle connection; the client cannot see it.
ServerCloses ==
  /\ \E i \in DOMAIN pool : pool' = [pool EXCEPT ![i].alive = FALSE]
  /\ UNCHANGED <<req, slots, recent>>

\* maxConnIdle passes, first for those returned first.
GrowsOld ==
  /\ \E i \in DOMAIN pool :
       /\ \A j \in 1..(i - 1) : pool[j].old
       /\ pool' = [pool EXCEPT ![i].old = TRUE]
  /\ UNCHANGED <<req, slots, recent>>

-----------------------------------------------------------------------------
(* The retry loop.                                                         *)

Ends(x, result) == [x EXCEPT !.pc = "done", !.result = result]

\* The next turn of the loop, after a pause: pacing hook, then reauth.
Retries(x) ==
  [x EXCEPT !.pc = "pause", !.attempt = @ + 1, !.signature = Aged(@),
            !.reply = "none"]

\* Mutant: every request that died on a pooled connection is sent again.
FailsSentAnyVerb(x) ==
  IF x.usedPooledConn /\ ~x.staleConnRetried
  THEN [x EXCEPT !.pc = "slot", !.attempt = @ + 1, !.staleConnRetried = TRUE,
                 !.signature = Aged(@)]
  ELSE Ends(x, "broken")

\* An exception once requestSent: a GET on a pooled connection is retried once,
\* at once; anything else propagates.
FailsSent(x) ==
  IF x.usedPooledConn /\ x.verb # "post" /\ ~x.staleConnRetried
  THEN [x EXCEPT !.pc = "slot", !.attempt = @ + 1, !.staleConnRetried = TRUE,
                 !.signature = Aged(@)]
  ELSE Ends(x, "broken")

\* freshConn: resolve, connect and handshake, before any byte of the request.
Connect(r) ==
  /\ req[r].pc = "connect"
  /\ \/ Becomes(r, [req[r] EXCEPT !.pc = "write", !.alive = TRUE])
     \/ Becomes(r, IF req[r].attempt >= MaxRetries
                   THEN Ends(req[r], "unsent") ELSE Retries(req[r]))
  /\ UNCHANGED <<slots, pool, recent>>

\* http::write: the venue replies to the request, having executed it or not, or
\* the connection dies before it gets there.
Write(r) ==
  /\ req[r].pc = "write"
  /\ LET x == [req[r] EXCEPT !.sends = @ + 1] IN
     \/ /\ x.alive
        /\ \E reply \in Replies : \E n \in Executed(x.verb, reply) :
             Becomes(r, [x EXCEPT !.pc = "read", !.reply = reply,
                                  !.executed = @ + n])
     \/ Becomes(r, FailsSent(x))
  /\ UNCHANGED <<slots, pool, recent>>

\* http::read of the response: only 510 is retried, every other answer is the
\* caller's.  keep_alive puts the connection into the pool.
Answered(r) ==
  /\ req[r].pc = "read"
  /\ Becomes(r, IF req[r].reply # "throttle" THEN Ends(req[r], "answer")
                ELSE IF req[r].attempt >= MaxRetries
                     THEN Ends(req[r], "throttled")
                     ELSE Retries(req[r]))
  /\ \/ ReturnConn([alive |-> TRUE, old |-> FALSE])
     \/ UNCHANGED pool
  /\ UNCHANGED <<slots, recent>>

\* Mutant: requestSent is set only when the response is there.
UnansweredAsUnsent(r) ==
  /\ req[r].pc = "read"
  /\ Becomes(r, IF req[r].attempt >= MaxRetries
                THEN Ends(req[r], "unsent") ELSE Retries(req[r]))
  /\ UNCHANGED <<slots, pool, recent>>

\* The connection dies under the read, and the reply with it.
Unanswered(r) ==
  /\ req[r].pc = "read"
  /\ Becomes(r, FailsSent([req[r] EXCEPT !.reply = "none"]))
  /\ UNCHANGED <<slots, pool, recent>>

\* Mutant: a retry goes straight to the connection, as the old ladder did.
WakesUnpaced(r) ==
  /\ req[r].pc = "pause"
  /\ Becomes(r, [req[r] EXCEPT !.pc = "sign"])
  /\ UNCHANGED <<slots, pool, recent>>

\* The pause is over: retryPacingHook.
Wakes(r) ==
  /\ req[r].pc = "pause"
  /\ Becomes(r, [req[r] EXCEPT !.pc = "slot"])
  /\ UNCHANGED <<slots, pool, recent>>

-----------------------------------------------------------------------------
\* A unit of time; an age over the window stays there.
Tick ==
  /\ slots' = [i \in 1..Len(slots) |->
                 IF slots[i] <= Window THEN slots[i] + 1 ELSE slots[i]]
  /\ LET older == [i \in 1..Len(recent) |-> recent[i] + 1] IN
     \E n \in 0..Len(recent) : Expired(older, n) /\ recent' = Since(older, n)
  /\ req' = [r \in Requests |->
               [req[r] EXCEPT !.nap = IF @ > 0 THEN @ - 1 ELSE 0]]
  /\ UNCHANGED pool

\* A thread at work; one blocked in http::read, which has no timeout.
Works(r) ==
  \/ Slot(r) \/ Sign(r) \/ Take(r) \/ Connect(r) \/ Write(r) \/ Wakes(r)
Reads(r) == Answered(r) \/ Unanswered(r)
Runs(r) == Works(r) \/ Reads(r)

Next ==
  \/ \E r \in Requests : Runs(r) \/ \E verb \in Verbs : Begin(r, verb)
  \/ ServerCloses \/ GrowsOld \/ Tick

Spec == Init /\ [][Next]_vars

\* Threads run, time passes, and a connect or a write ends, if only by the
\* operating system's own timeouts.  Nothing makes a read end.
FairSpec ==
  Spec /\ WF_vars(Tick) /\ \A r \in Requests : WF_vars(Works(r))

-----------------------------------------------------------------------------
(* Properties.                                                             *)

\* Every variable keeps its type; the pool never grows past its size, and a GET
\* can be sent once more than MAX_RETRIES allows (the stale retry counts).
TypeOK ==
  /\ req \in [Requests -> RequestState]
  /\ \A r \in Requests :
       req[r].attempt <= MaxRetries + IF req[r].staleConnRetried THEN 1 ELSE 0
  /\ slots \in Seq(0..(Window + 1)) /\ recent \in Seq(0..Window)
  /\ pool \in Seq([alive : BOOLEAN, old : BOOLEAN]) /\ Len(pool) <= MaxPoolSize

\* "a non-idempotent POST is never silently re-sent": the venue executes an
\* order at most once, whatever failed and was retried on the way.
PostAtMostOnce ==
  \A r \in Requests : req[r].verb = "post" => req[r].executed <= 1

\* What the caller of a POST is told is true: after a 510 or a connect failure
\* no attempt of it was executed, whatever was tried before ("the two cases where
\* the request provably did NOT execute"), after a success just one was.  Another
\* error, and a connection lost after the write, leave it open.
OutcomeTrue ==
  \A r \in Requests : req[r].verb = "post" =>
    /\ req[r].result \in {"throttled", "unsent"} => req[r].executed = 0
    /\ req[r].result = "answer" /\ req[r].reply = "success" =>
         req[r].executed = 1

\* No window sees more permits than the limit, over all threads and retries
\* ("let contending leg threads burst above the venue limit"), and every message
\* to the venue had a permit of its own ("a retry is a NEW venue request").
Paced ==
  /\ Len(recent) <= Limit
  /\ \A r \in Requests : req[r].sends <= req[r].permits

\* No request is written with a signature from before a pause: "a FRESH
\* Request-Time/Signature".
FreshSignature ==
  \A r \in Requests : req[r].pc = "write" /\ req[r].verb # "public" =>
    req[r].signature = "fresh"

\* Every call returns or throws, though permits run out and retries pile up,
\* unless the venue leaves it in http::read for ever.
EveryRequestEnds ==
  \A r \in Requests :
    req[r].pc = "slot" ~> (req[r].pc = "done" \/ [](req[r].pc = "read"))

=============================================================================
