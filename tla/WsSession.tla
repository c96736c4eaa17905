----------------------------- MODULE WsSession -----------------------------
(***************************************************************************)
(* WebSocketSession of the futures API: one connection at a time, kept     *)
(* alive by a reconnect loop, with all handlers on one asio strand.        *)
(*                                                                         *)
(* s is the session: its members, the asynchronous operations it has       *)
(* started (ops) and the strand's queue of handlers ready to run (strand). *)
(* An operation completes in one step (it moves to the strand) and its     *)
(* handler runs in a later one, after everything queued before it: the     *)
(* generation checks in the code are about what happens in between.  A     *)
(* handler runs whole, as the strand guarantees; the functions it calls    *)
(* are operators from a session to a session, so that they compose as the  *)
(* calls do.                                                               *)
(*                                                                         *)
(* User calls change the topic lists under the session's lock and post a   *)
(* task; WSClient serialises them.  The venue is external.                 *)
(***************************************************************************)
EXTENDS Integers, Sequences, FiniteSets, SequencesExt

CONSTANTS
  Topics,
  AuthRequired, \* setCredentials was called
  Resubscribe,  \* may a topic be subscribed again after it was unsubscribed?
  MaxCalls,     \* subscribe, unsubscribe and further run() calls
  MaxRuns,      \* run() calls, the first included
  MaxCloses,    \* 1: the user may close the session
  MaxFaults,    \* failures of the network and the venue
  MaxQueue      \* the ping timer waits while so many messages are queued

ASSUME WsAssumption ==
  /\ IsFiniteSet(Topics) /\ AuthRequired \in BOOLEAN /\ Resubscribe \in BOOLEAN
  /\ MaxCalls \in Nat /\ MaxRuns \in Nat \ {0} /\ MaxCloses \in {0, 1}
  /\ MaxFaults \in Nat /\ MaxQueue \in Nat \ {0}

VARIABLES
  s,          \* the session
  calling,    \* what the user call under way has still to post
  dropped,    \* topics the user has unsubscribed
  venueSubs,  \* topics the venue streams on the current connection
  venueLogin, \* login on the current connection: "none", "asked", "answered"
  acceptedGen, \* history: connection of the last login the venue accepted
  calls, runs, closes, faults

bounds == <<calls, runs, closes, faults>>
vars == <<s, calling, dropped, venueSubs, venueLogin, acceptedGen, bounds>>

\* What an operation, a message or a task carries is a tuple.
Nothing == <<>>
Login == <<"login">>
Ping == <<"ping">>
Sub(t) == <<"sub", t>>
Unsub(t) == <<"unsub", t>>

\* Stages of the connect chain, each with the one its handler starts.
NextStage == [resolve |-> "connect", connect |-> "tls", tls |-> "handshake"]
Timers == {"ping", "reconnect"}
Kinds == {"resolve", "connect", "tls", "handshake", "read", "write"} \cup Timers

\* A started operation; a handler or posted task on the strand.
Op(kind, gen, what) == [kind |-> kind, gen |-> gen, what |-> what]
Ready(op, ok, what) ==
  [kind |-> op.kind, gen |-> op.gen, ok |-> ok, what |-> what]
Task(kind, what) == [kind |-> kind, gen |-> 0, ok |-> TRUE, what |-> what]

Initially(topics) ==
  [generation |-> 0, connected |-> FALSE, authenticated |-> FALSE,
   reconnectScheduled |-> FALSE, userClosed |-> FALSE,
   writeInFlight |-> FALSE, reconnectDelayS |-> 1,
   subscriptions |-> {}, pendingTopics |-> topics, outboundQueue |-> <<>>,
   sockClosed |-> FALSE,
   ackGen |-> 0,        \* history: connection of the last login ack accepted
   ops |-> {}, strand |-> <<Task("startConnect", Nothing)>>]

\* run() was called with no topic (WSClient::connect) or one (subscribe).
Init ==
  /\ \E topics \in {{}} \cup {{t} : t \in Topics} : s = Initially(topics)
  /\ calling = <<>> /\ dropped = {}
  /\ venueSubs = {} /\ venueLogin = "none" /\ acceptedGen = 0
  /\ calls = 0 /\ runs = 1 /\ closes = 0 /\ faults = 0

-----------------------------------------------------------------------------
(* The functions the handlers are made of.                                 *)

\* ws->is_open(): not after a close, nor once an operation on it has failed.
IsOpen(x) ==
  /\ ~x.sockClosed /\ ~x.userClosed
  /\ \A i \in DOMAIN x.strand :
       LET h == x.strand[i] IN
       h.kind \in {"read", "write"} /\ h.gen = x.generation => h.ok

\* Mutant: a write is started while another is in flight.
PumpAlways(x) ==
  IF ~x.connected \/ ~IsOpen(x) \/ x.outboundQueue = <<>> THEN x
  ELSE [x EXCEPT !.writeInFlight = TRUE, !.outboundQueue = Tail(@),
          !.ops = @ \cup {Op("write", x.generation, Head(x.outboundQueue))}]

\* pump: at most one write in flight.
Pump(x) ==
  IF x.writeInFlight \/ ~x.connected \/ ~IsOpen(x) \/ x.outboundQueue = <<>>
  THEN x
  ELSE [x EXCEPT !.writeInFlight = TRUE, !.outboundQueue = Tail(@),
          !.ops = @ \cup {Op("write", x.generation, Head(x.outboundQueue))}]

EnqueueOp(x, msg) == [x EXCEPT !.outboundQueue = Append(@, msg)]

\* Mutant: topics go out as soon as the connection is up.
FlushUnlogged(x) ==
  IF ~x.connected THEN x
  ELSE Pump([x EXCEPT
         !.subscriptions = @ \cup x.pendingTopics, !.pendingTopics = {},
         !.outboundQueue = @ \o SetToSeq({Sub(t) : t \in x.pendingTopics})])

\* flushTopics: a no-op while disconnected or awaiting the login ack.
FlushTopics(x) ==
  IF ~x.connected \/ (AuthRequired /\ ~x.authenticated) THEN x
  ELSE Pump([x EXCEPT
         !.subscriptions = @ \cup x.pendingTopics, !.pendingTopics = {},
         !.outboundQueue = @ \o SetToSeq({Sub(t) : t \in x.pendingTopics})])

SendLogin(x) == Pump(EnqueueOp(x, Login))

\* Pending waits of a timer (or the resolver) end with operation_aborted; a
\* handler that is on the strand already is not called back.
Cancel(x, kind) ==
  LET waits == {op \in x.ops : op.kind = kind} IN
  [x EXCEPT !.ops = @ \ waits,
     !.strand = @ \o SetToSeq({Ready(op, FALSE, Nothing) : op \in waits})]

\* expires_after and async_wait; the first cancels the waits still pending.
Arm(x, kind) ==
  LET y == Cancel(x, kind) IN
  [y EXCEPT !.ops = @ \cup {Op(kind, x.generation, Nothing)}]

AsyncRead(x) ==
  [x EXCEPT !.ops = @ \cup {Op("read", x.generation, Nothing)}]

\* Mutant: close() is not looked at.
StartConnectAlways(x) ==
  LET gen == x.generation + 1 IN
  [x EXCEPT !.generation = gen, !.connected = FALSE, !.authenticated = FALSE,
     !.writeInFlight = FALSE, !.sockClosed = FALSE,
     !.ops = @ \cup {Op("resolve", gen, Nothing)}]

StartConnect(x) ==
  IF x.userClosed THEN x
  ELSE LET gen == x.generation + 1 IN
       [x EXCEPT !.generation = gen, !.connected = FALSE,
          !.authenticated = FALSE, !.writeInFlight = FALSE,
          !.sockClosed = FALSE,
          !.ops = @ \cup {Op("resolve", gen, Nothing)}]

\* Mutants: the topics are not moved back to be replayed; the reconnect timer is
\* not armed.
ErrorNoReplay(x, gen) ==
  IF gen # x.generation \/ x.reconnectScheduled \/ x.userClosed THEN x
  ELSE Arm([Cancel(x, "ping") EXCEPT
         !.reconnectScheduled = TRUE, !.connected = FALSE,
         !.authenticated = FALSE, !.writeInFlight = FALSE,
         !.outboundQueue = <<>>, !.sockClosed = TRUE], "reconnect")

ErrorNoTimer(x, gen) ==
  IF gen # x.generation \/ x.reconnectScheduled \/ x.userClosed THEN x
  ELSE [Cancel(x, "ping") EXCEPT
         !.reconnectScheduled = TRUE, !.connected = FALSE,
         !.authenticated = FALSE, !.writeInFlight = FALSE,
         !.outboundQueue = <<>>, !.sockClosed = TRUE]

\* handleError: tear down, move the topics back, schedule the reconnect.
HandleError(x, gen) ==
  IF gen # x.generation \/ x.reconnectScheduled \/ x.userClosed THEN x
  ELSE Arm([Cancel(x, "ping") EXCEPT
         !.reconnectScheduled = TRUE, !.connected = FALSE,
         !.authenticated = FALSE, !.writeInFlight = FALSE,
         !.outboundQueue = <<>>, !.sockClosed = TRUE,
         !.pendingTopics = @ \cup x.subscriptions, !.subscriptions = {},
         !.reconnectDelayS = Min({2 * @, 30})],
         "reconnect")

-----------------------------------------------------------------------------
(* The handlers.  x is the session with the handler taken off the strand.  *)

\* onResolve, onConnect, onSSLHandshake; async_connect reopens the socket.
OnStage(x, h) ==
  IF h.gen # x.generation THEN x
  ELSE IF ~h.ok THEN HandleError(x, h.gen)
  ELSE [x EXCEPT !.ops = @ \cup {Op(NextStage[h.kind], h.gen, Nothing)},
                 !.sockClosed = IF h.kind = "resolve" THEN FALSE ELSE @]

OnHandshake(x, h) ==
  IF h.gen # x.generation THEN x
  ELSE IF ~h.ok THEN HandleError(x, h.gen)
  ELSE IF x.userClosed THEN x
  ELSE LET up == Arm([x EXCEPT !.connected = TRUE], "ping") IN
       AsyncRead(IF AuthRequired THEN SendLogin(up) ELSE FlushTopics(up))

\* Mutant: the login ack does not send the topics that waited for it.
DispatchNoFlush(x, h) ==
  CASE h.what = <<"loginOk">> ->
         [x EXCEPT !.authenticated = TRUE, !.ackGen = x.generation,
                   !.reconnectDelayS = 1]
    [] h.what = <<"loginFail">> -> HandleError(x, h.gen)
    [] OTHER -> x

\* handleControlMsg, or the data callback: the part of onRead before the read
\* is started again.  A message other than a login ack changes no member the
\* model keeps (a pong moves lastPongTime, see OnPingTimer).
Dispatch(x, h) ==
  CASE h.what = <<"loginOk">> ->
         FlushTopics([x EXCEPT !.authenticated = TRUE, !.ackGen = x.generation,
                               !.reconnectDelayS = 1])
    [] h.what = <<"loginFail">> -> HandleError(x, h.gen)
    [] OTHER -> x

\* Mutant: any message resets the backoff.
OnReadResets(x, h) ==
  IF h.gen # x.generation THEN x
  ELSE IF ~h.ok \/ h.what = <<"garbage">> THEN HandleError(x, h.gen)
  ELSE LET y == Dispatch(x, h) IN
       IF y.reconnectScheduled \/ ~y.connected THEN y
       ELSE AsyncRead([y EXCEPT !.reconnectDelayS = 1])

OnRead(x, h) ==
  IF h.gen # x.generation THEN x
  ELSE IF ~h.ok \/ h.what = <<"garbage">> THEN HandleError(x, h.gen)
  ELSE LET y == Dispatch(x, h) IN
       IF y.reconnectScheduled \/ ~y.connected THEN y
       ELSE AsyncRead([y EXCEPT !.reconnectDelayS =
                         IF ~AuthRequired \/ y.authenticated THEN 1 ELSE @])

\* Mutant: a completion does not start the next write.
OnWriteStops(x, h) ==
  IF h.gen # x.generation THEN x
  ELSE LET y == [x EXCEPT !.writeInFlight = FALSE] IN
       IF h.ok THEN y ELSE HandleError(y, h.gen)

\* The write's completion handler.
OnWrite(x, h) ==
  IF h.gen # x.generation THEN x
  ELSE LET y == [x EXCEPT !.writeInFlight = FALSE] IN
       IF h.ok THEN Pump(y) ELSE HandleError(y, h.gen)

\* Time is the tick's: it finds the last pong over 40 s old, the login ack
\* overdue, or neither.
OnPingTimer(x, h) ==
  IF ~h.ok \/ h.gen # x.generation \/ x.userClosed THEN x
  ELSE IF ~x.connected THEN Arm(x, "ping")
  ELSE IF \/ h.what = <<"noPong">>
          \/ h.what = <<"noAck">> /\ AuthRequired /\ ~x.authenticated
       THEN HandleError(x, h.gen)
  ELSE Arm(Pump(EnqueueOp(x, Ping)), "ping")

OnReconnectTimer(x, h) ==
  IF h.gen # x.generation THEN x
  ELSE LET y == [x EXCEPT !.reconnectScheduled = FALSE] IN
       IF h.ok THEN StartConnect(y) ELSE y

CloseByUser(x) ==
  IF x.userClosed THEN x
  ELSE LET y == Cancel(Cancel(Cancel(x, "ping"), "reconnect"), "resolve") IN
       [y EXCEPT !.userClosed = TRUE,
          !.sockClosed = @ \/ ~(x.connected /\ IsOpen(x) /\ ~x.writeInFlight)]

\* The task unsubscribe() posts.
SendUnsub(x, msg) ==
  IF x.connected THEN Pump(EnqueueOp(x, msg)) ELSE x

Handle(x, h) ==
  CASE h.kind \in DOMAIN NextStage -> OnStage(x, h)
    [] h.kind = "handshake" -> OnHandshake(x, h)
    [] h.kind = "read" -> OnRead(x, h)
    [] h.kind = "write" -> OnWrite(x, h)
    [] h.kind = "ping" -> OnPingTimer(x, h)
    [] h.kind = "reconnect" -> OnReconnectTimer(x, h)
    [] h.kind = "startConnect" -> StartConnect(x)
    [] h.kind = "flushTopics" -> FlushTopics(x)
    [] h.kind = "sendUnsub" -> SendUnsub(x, h.what)
    [] h.kind = "closeByUser" -> CloseByUser(x)

\* The io thread runs the next handler of the strand.  The venue forgets the
\* connection when it ends.
RunStrand ==
  /\ s.strand # <<>>
  /\ s' = Handle([s EXCEPT !.strand = Tail(@)], Head(s.strand))
  /\ LET over == s'.generation # s.generation \/ s'.sockClosed IN
     /\ venueSubs' = IF over THEN {} ELSE venueSubs
     /\ venueLogin' = IF over THEN "none" ELSE venueLogin
  /\ UNCHANGED <<calling, dropped, acceptedGen, bounds>>

-----------------------------------------------------------------------------
(* Operations complete: the network, the venue and the clock.              *)

\* The socket of the operation is the session's, and works.
Alive(op) == op.gen = s.generation /\ ~s.sockClosed

Completes(op, ok, what) ==
  s' = [s EXCEPT !.ops = @ \ {op}, !.strand = Append(@, Ready(op, ok, what))]

\* An operation on a closed socket, or on an old one, fails; any may.
OpFails(op) ==
  /\ op.kind \notin Timers
  /\ \/ ~Alive(op) /\ UNCHANGED faults
     \/ Alive(op) /\ faults < MaxFaults /\ faults' = faults + 1
  /\ Completes(op, FALSE, Nothing)
  /\ UNCHANGED <<calling, dropped, venueSubs, venueLogin, acceptedGen, calls,
                 runs, closes>>

StageSucceeds(op) ==
  /\ op.kind \in DOMAIN NextStage \cup {"handshake"} /\ Alive(op)
  /\ Completes(op, TRUE, Nothing)
  /\ UNCHANGED <<calling, dropped, venueSubs, venueLogin, acceptedGen, bounds>>

\* The venue takes a message from the connection.
WriteSucceeds(op) ==
  /\ op.kind = "write" /\ Alive(op)
  /\ Completes(op, TRUE, Nothing)
  /\ venueSubs' = {t \in venueSubs \cup Topics :
                     \/ op.what = Sub(t)
                     \/ t \in venueSubs /\ op.what # Unsub(t)}
  /\ venueLogin' = IF op.what = Login THEN "asked" ELSE venueLogin
  /\ UNCHANGED <<calling, dropped, acceptedGen, bounds>>

LoginAnswered(op) ==
  /\ op.kind = "read" /\ Alive(op) /\ venueLogin = "asked"
  /\ venueLogin' = "answered"
  /\ \/ /\ Completes(op, TRUE, <<"loginOk">>)
        /\ acceptedGen' = s.generation /\ UNCHANGED faults
     \/ /\ Completes(op, TRUE, <<"loginFail">>)
        /\ faults < MaxFaults /\ faults' = faults + 1
        /\ UNCHANGED acceptedGen
  /\ UNCHANGED <<calling, dropped, venueSubs, calls, runs, closes>>

ReadSucceeds(op) ==
  /\ op.kind = "read" /\ Alive(op)
  /\ \/ Completes(op, TRUE, <<"data">>) /\ UNCHANGED faults
     \/ /\ faults < MaxFaults /\ faults' = faults + 1
        /\ Completes(op, TRUE, <<"garbage">>)
  /\ UNCHANGED <<calling, dropped, venueSubs, venueLogin, acceptedGen, calls,
                 runs, closes>>

\* A tick of the ping timer; one that finds something overdue is a fault of the
\* venue.
PingTick(op) ==
  /\ op.kind = "ping" /\ Len(s.outboundQueue) < MaxQueue
  /\ \/ Completes(op, TRUE, <<"onTime">>) /\ UNCHANGED faults
     \/ /\ faults < MaxFaults /\ faults' = faults + 1
        /\ \E what \in {<<"noPong">>, <<"noAck">>} : Completes(op, TRUE, what)
  /\ UNCHANGED <<calling, dropped, venueSubs, venueLogin, acceptedGen, calls,
                 runs, closes>>

ReconnectTick(op) ==
  /\ op.kind = "reconnect" /\ Completes(op, TRUE, Nothing)
  /\ UNCHANGED <<calling, dropped, venueSubs, venueLogin, acceptedGen, bounds>>

Progress(op) ==
  OpFails(op) \/ StageSucceeds(op) \/ WriteSucceeds(op) \/ ReconnectTick(op)

-----------------------------------------------------------------------------
(* User calls.                                                             *)

\* Mutant: a topic that is out already is queued a second time.
AddTopicAgain(t) ==
  s' = [s EXCEPT !.pendingTopics = @ \cup {t}]

\* addTopic: deduplicated against both lists.
AddTopic(t) ==
  s' = [s EXCEPT !.pendingTopics = IF t \in s.subscriptions THEN @ ELSE @ \cup {t}]

Subscribe(t) ==
  /\ calling = <<>> /\ calls < MaxCalls
  /\ Resubscribe \/ t \notin dropped
  /\ AddTopic(t)
  /\ calling' = <<Task("flushTopics", Nothing)>> /\ calls' = calls + 1
  /\ UNCHANGED <<dropped, venueSubs, venueLogin, acceptedGen, runs, closes, faults>>

RemoveTopic(t) ==
  s' = [s EXCEPT !.pendingTopics = @ \ {t}, !.subscriptions = @ \ {t}]

\* removeTopic, then a task only when the topic had been sent.
Unsubscribe(t) ==
  /\ calling = <<>> /\ calls < MaxCalls
  /\ RemoveTopic(t)
  /\ calling' = IF t \in s.subscriptions
                THEN <<Task("sendUnsub", Unsub(t))>> ELSE <<>>
  /\ dropped' = dropped \cup {t} /\ calls' = calls + 1
  /\ UNCHANGED <<venueSubs, venueLogin, acceptedGen, runs, closes, faults>>

RunAgain ==
  /\ calling = <<>> /\ calls < MaxCalls /\ runs < MaxRuns
  /\ calling' = <<Task("startConnect", Nothing)>>
  /\ calls' = calls + 1 /\ runs' = runs + 1
  /\ UNCHANGED <<s, dropped, venueSubs, venueLogin, acceptedGen, closes,
                 faults>>

Close ==
  /\ calling = <<>> /\ closes < MaxCloses
  /\ calling' = <<Task("closeByUser", Nothing)>> /\ closes' = closes + 1
  /\ UNCHANGED <<s, dropped, venueSubs, venueLogin, acceptedGen, calls, runs,
                 faults>>

Post ==
  /\ calling # <<>> /\ calling' = <<>>
  /\ s' = [s EXCEPT !.strand = @ \o calling]
  /\ UNCHANGED <<dropped, venueSubs, venueLogin, acceptedGen, bounds>>

User ==
  \/ \E t \in Topics : Subscribe(t) \/ Unsubscribe(t)
  \/ RunAgain \/ Close \/ Post

Next ==
  \/ RunStrand
  \/ \E op \in s.ops :
       Progress(op) \/ LoginAnswered(op) \/ ReadSucceeds(op) \/ PingTick(op)
  \/ User

Spec == Init /\ [][Next]_vars

\* The io thread runs, a call posts what it has to, an operation ends (connects
\* and handshakes have timeouts, timers fire) and the venue answers a login:
\* its ack comes in order, after finitely many other messages.
FairSpec ==
  /\ Spec
  /\ WF_vars(RunStrand) /\ WF_vars(Post)
  /\ \A k \in Kinds \ {"read"} :
       WF_vars(\E op \in s.ops : op.kind = k /\ Progress(op))
  /\ SF_vars(\E op \in s.ops : LoginAnswered(op))

-----------------------------------------------------------------------------
(* Properties.                                                             *)

Queued(kind) ==
  {i \in DOMAIN s.strand : s.strand[i].kind = kind /\ s.strand[i].gen = s.generation}
Started(kind) == {op \in s.ops : op.kind = kind /\ op.gen = s.generation}

\* Operations of the current connection started and not yet handled.
Pending(kind) == Cardinality(Queued(kind)) + Cardinality(Started(kind))

Messages == {Login, Ping} \cup {Sub(t) : t \in Topics} \cup {Unsub(t) : t \in Topics}
Payloads ==
  Messages \cup {Nothing, <<"loginOk">>, <<"loginFail">>, <<"data">>,
                 <<"garbage">>, <<"onTime">>, <<"noPong">>, <<"noAck">>}
TaskKinds == {"startConnect", "flushTopics", "sendUnsub", "closeByUser"}
Handler ==
  [kind : Kinds \cup TaskKinds, gen : Nat, ok : BOOLEAN, what : Payloads]
Session ==
  [generation : Nat, connected : BOOLEAN, authenticated : BOOLEAN,
   reconnectScheduled : BOOLEAN, userClosed : BOOLEAN, writeInFlight : BOOLEAN,
   reconnectDelayS : {1, 2, 4, 8, 16, 30},
   subscriptions : SUBSET Topics, pendingTopics : SUBSET Topics,
   outboundQueue : Seq(Messages), sockClosed : BOOLEAN, ackGen : Nat,
   ops : SUBSET [kind : Kinds, gen : Nat, what : Payloads],
   strand : Seq(Handler)]

\* Every member keeps its type, and no topic is in both lists (it would be
\* replayed twice).
TypeOK ==
  /\ s \in Session
  /\ s.subscriptions \cap s.pendingTopics = {}
  /\ calling \in Seq(Handler) /\ dropped \subseteq Topics
  /\ venueSubs \subseteq Topics /\ venueLogin \in {"none", "asked", "answered"}
  /\ acceptedGen \in Nat

\* The session never stops short of close() (of one run()): while it waits to
\* reconnect, the timer that ends the wait is armed for this connection, or its
\* handler is about to run; while it is connected, exactly one read and one ping
\* wait are pending, so that it is never deaf and never reads twice.
LoopAlive ==
  runs = 1 =>
    /\ s.reconnectScheduled => Pending("reconnect") = 1
    /\ s.connected /\ ~s.userClosed =>
         Pending("read") = 1 /\ Pending("ping") = 1

\* At most one async_write on a connection, and writeInFlight tells of it.
OneWriter ==
  /\ Pending("write") <= 1
  /\ s.connected => (s.writeInFlight <=> Pending("write") = 1)

\* A queued message waits only for a write in flight, or for the error handler
\* that will drop the queue: "never depend on inbound traffic" (of one run(): the
\* error handler does nothing for the connection of a second one).
NoStuckMessage ==
  runs = 1 /\ s.connected /\ s.outboundQueue # <<>> =>
    s.writeInFlight \/ ~IsOpen(s)

\* "holds all subscriptions back until the login ack" of this connection (of one
\* run(): a second one leaves the queue of the first connection in place).
SubsHeldBack ==
  runs = 1 /\ AuthRequired /\ venueSubs # {} => s.ackGen = s.generation

\* When nothing is under way, the venue streams what the user subscribed to,
\* whatever errors, reconnects and calls came before: "all subscriptions are
\* replayed", and none that was given up.  Once run() is called: a second call
\* leaves the topics with the old connection.
Quiet ==
  /\ runs = 1
  /\ s.connected /\ ~s.userClosed /\ (AuthRequired => s.authenticated)
  /\ s.strand = <<>> /\ calling = <<>>
  /\ s.outboundQueue = <<>> /\ ~s.writeInFlight
VenueInSync == Quiet => venueSubs = s.subscriptions /\ s.pendingTopics = {}

\* With credentials the backoff goes back to 1 s only once the venue accepted the
\* login of this very connection: never on the ack of an older one, on a refusal
\* or on another message.  The connection need not be up any more: an error that
\* is handled before the ack does not keep the ack from resetting the backoff.
BackoffResets ==
  [][AuthRequired /\ s'.reconnectDelayS < s.reconnectDelayS =>
       acceptedGen' = s'.generation]_vars

\* After close() no connection is started or comes up.
ClosedForGood ==
  [][s.userClosed => /\ s'.userClosed /\ s'.generation = s.generation
                     /\ (s'.connected => s.connected)]_vars

\* A topic the user wants reaches the venue, on whatever connection is up then,
\* as long as run() is called once.
Wanted(t) == t \in s.subscriptions \cup s.pendingTopics
WantedIsStreamed ==
  \A t \in Topics : Wanted(t) ~> (t \in venueSubs \/ ~Wanted(t) \/ runs > 1)

=============================================================================
