# Verification of mexc-cpp-api

TLA+ models, TLC runs and TLAPS proofs for the C++ client of the MEXC exchange
in `src/`. The models are translated from the code; where a behaviour comes
from outside (the venue, asio, the execution core that owns the gateway) it is
modelled from how the code uses it and marked external in `PROJECT.json`.

## The system

| component | state it keeps | operations | hard part |
|---|---|---|---|
| `MexcExecutionGateway`, fills (`mexc_execution_gateway.cpp` 263-443, 624-650) | `accountedDealVol` under `fillM` | order events on the io thread; `cancel()` and its REST reconciliation on a leg's thread | both take volume increments from one map and call back outside its lock; events are lost in outages and delivered twice |
| `MexcExecutionGateway`, order lane (186-227, 566-692) | `orderLaneM`, two deadlines, a throttle streak | every submit and cancel | many legs, a venue that throttles, deadlines that only grow |
| `MexcExecutionGateway`, spec caches (471-616) | five maps under `specM` | fetch, refetch after a reject, four reads of a submit | versions mixed between locks |
| `MexcExecutionGateway`, prices, volumes and refusals (49-167) | none | snapping an order to the contract; the class of a refusal | two roundings in turn, texts that fit several classes |
| `WebSocketSession` (`mexc_futures_ws_session.cpp`) | connection, login, two topic lists, one write queue, backoff | run, subscribe, unsubscribe, close; asio handlers on one strand | completions of dead connections, reconnect, replay, login ack before topics |
| `WSClient` (`mexc_futures_ws_client.cpp`) | the session, an io thread, `m_isRunning` | connect, subscribe, run, destructor | the thread leaving `io_context::run` while someone subscribes |
| `WSStreamManager` (`mexc_ws_stream_manager.cpp`) | last ticker and candle of each topic | subscribe, unsubscribe, read with timeout | messages still under way after an unsubscribe |
| `WSPrivateStreamManager` | none | dispatches personal events to callbacks | none |
| futures `HTTPSession` (`mexc_http_futures_session.cpp`) | pool of idle connections | GET, POST with retries | what may be sent again, with which signature, at whose cost |
| futures `RESTClient` (`mexc_futures_rest_client.cpp`) | one rate limiter per process | endpoints; candle download | threads sharing a window; paging backwards |
| spot `RESTClient`, `HTTPSession` | a rate limiter per instance | candles, listen keys | paging forwards over ranges computed backwards |
| `MEXCFuturesExchangeConnector` | none | conversions; paging of funding rates | pages that move while they are read |
| models, enums, events | none | JSON conversions | none |

How they interact: the gateway submits and cancels through the futures
`RESTClient` (one paced, signed request each, retried inside `HTTPSession`)
and hears of its orders through `WSPrivateStreamManager`, whose `WSClient` owns
a `WebSocketSession` and runs it on an io thread. Market data comes through
`WSStreamManager` in the same way. A gateway callback therefore runs on the io
thread of the private stream, a submit or a cancel on the thread of its leg.

## Modules

| module | models | state and actions |
|---|---|---|
| `FillLedger` | what the fill accounting promises | Abstract: contracts are dealt, credited after that and once; the core is told of an end once. No threads, no events. |
| `GatewayFills` | fill accounting | The handler of an order event is cut at its lock and its callbacks: `IoAccount` (`newlyFilled`), `IoFill` (`fillCB`), `IoErase`, `IoUpdate` (`orderUpdateCB`); `cancel()` on an order that is gone into `CancelGone`, `ReconcileQuery`, `ReconcileAccount`, `ReconcileFill`. Venue: submits, trades, outages, redelivery. Core: credits a fill id once. `Implements` maps it to `FillLedger`. |
| `OrderLane` | order lane | `Acquire`, the three ways a REST call comes back (`Succeeds`, `Throttled`, `Fails`), `Release`, `Tick`; deadlines as time left. |
| `OrderRules` | pure functions of the gateway | `Prices`, `Volumes`, `DecimalsOf` on whole units; `ClassifyReject`, `ClassifyErrorCode` and the two other tests of a refusal on sets of words. |
| `SpecCache` | contract specifications and the orders made of them | `Lookup`, `Answer`, `Store`, `FetchFails` (`instrumentSpec`), `RefreshInstruments`, the four reads of a submit (`ReadSize`, `ReadTick`, `ReadDecimals`, `ReadVolUnit`), `AcquireLane`, `Send`, and `Erase` with the refetch, which keeps the lane. Extends `OrderRules`. |
| `WsSession` | `WebSocketSession` | The members are one record; functions the handlers share (`Pump`, `FlushTopics`, `HandleError`, ...) are operators on it. An operation completes (`Progress`, `ReadSucceeds`, ...) in one step and its handler runs (`RunStrand`) in a later one, after whatever was queued before it. |
| `WsClient` | `WSClient` | Calls under `m_clientLocker` (`Subscribe`, `Unsubscribe`, `Run`, `RunCheck`, `JoinAndSpawn`), the io thread's loop (`IoStarts` to `IoLeaves`, a handler may throw), the destructor (`Close`, `Stop`, `Join`). |
| `StreamCache` | `WSStreamManager` and the gateway's quotes | The data callback (`IoTicker`, `IoCandle`) and, outside the lock, `IoCallback`; `AskSubscribed`/`Subscribe`, `Unsubscribe`/`Drop`, `SetTimeout`, reads as `StartRead` and `Look`. |
| `RestRequest` | `HTTPSession::P::request` and `RateLimiter` | One action per stage of an attempt: `Slot`, `Sign`, `Take`, `Connect`, `Write`, `Answered`/`Unanswered`, `Wakes`; the venue or its edge replies with success, 510 or any other error, of which only 510 is known to have executed nothing (`Executed`); the server closes idle connections, time passes. |
| `HistoryPages` | candle downloads of both clients, funding rates | One step per page, with what follows its answer: `FuturesPage`, `SpotPage`, `FundingPages`, `Throws`; the venue adds records meanwhile (`Opens`). A page is a set, by how many records are before or after each (`Oldest`, `Newest`, `FundingPage`), put in order (`Ascending`, `Descending`). |
| `MC*` | instances for TLC | model values and small sets; `MCSpecCache` also evaluates `ClassesAgree` about the classes of refusals |
| `*Proofs` | proofs about eight of the modules | see below |

Where the modules meet. `SpecCache` contains the order lane as far as other
legs notice it (who holds it), `OrderLane` its clock. A request of the gateway
is one step of both, and of `GatewayFills` (`ReconcileQuery`); what happens
inside it is `RestRequest`. `WsSession` ends where a data message is handed to
the callback: `GatewayFills` starts there for orders, with `StreamGap` and
`StreamBack` for a reconnect, and `StreamCache` for market data, with `Break`
and `Sync`. `WsClient` has the session as posted handlers and pending
operations, which is all the io thread sees of it. These are the interfaces;
no module has two of the components in full, because the product of their
states is out of TLC's reach and nothing but these steps passes between them.

Definitions named in a `Mutant:` comment are plausible bugs of the definition
below them; each property of a passing run is violated when one of them takes
its place.

## Runs

| run | question | bounds |
|---|---|---|
| `fills_rest` | do stream and reconciliation credit every contract exactly once, as the abstract ledger says, and in the end? | two orders of 2 contracts, 2 cancels, 1 outage |
| `fills_stream` | do redelivered events, and orders placed by hand, do no harm without `cancel()`? | 3 contracts, 1 outage, 2 redeliveries |
| `fills_duplicate` | violated: a duplicate of the last event is credited again | 1 redelivery |
| `order_lane` | are starts spaced, cooldowns kept and bounded? | two legs, unit 625 ms: spacing 2, cooldown 8 to 48 |
| `spec_cache` | are orders made of fetched values, do they fit the contract they were made of, does every leg end? | a limit and a market leg, 3 versions of the contract, 1 refresh, 1 failed fetch, 1 other refusal |
| `ws_public` | reconnect and read loop, one writer, write pump, close | one topic, 1 call, 2 runs, 1 failure, 1 close |
| `ws_private` | login ack, hold-back, replay, backoff, delivery | one topic, 2 calls, 1 failure, credentials |
| `ws_client` | has a session its thread, does what is posted run, does every call return? | two callers, 4 calls, 1 handler that throws |
| `stream_cache` | do cache, reads and callbacks agree, does every read come back? | two users, a ticker and a candle, 3 messages (partial, broken), 1 break, 3 calls |
| `rest_requests` | at most once, true outcome, pacing, signature, termination | two requests, limit 1 per 2 units, 1 retry, pool of 1 |
| `history_pages` | is nothing missed, repeated or out of order? | every subset of 5 records, every range, pages of 2 |
| `spot_gap` | violated: a hole inside a spot download | the same, nothing added |

Why the bounds suffice. Two threads meet in `GatewayFills`, and each holds one
increment at a time: two partial fills and a final event give every order of
the two critical sections, and the second order shows that accounts do not
mix. In `OrderLane` the history reaches past the longest cooldown (Horizon 50
over a cap of 48) and the streak past its cap. The three contracts of
`SpecCache` differ in tick, decimals and volUnit, one leaves its decimals out,
and the wanted price lies between the ticks of all of them, on a tie of one; two legs and two
changes let a fetch be stored after a newer one. A `WsSession` connection can
fail once at every stage and be followed by a complete second one, which is
what the generation checks are for; `LoopAlive` and `OneWriter` are about the
current connection only. In `WsClient` two callers race for the first session,
and four calls reach an io thread that has left, one that is leaving, and a
destructor behind each. Three messages of `StreamCache` are a first one, one
that is merged, and one after a drop, with a failing conversion in any place.
In `RestRequest` a limit of 1 makes each request wait for the other.
`HistoryPages` has up to three pages and ranges that begin and end between
records. The proofs remove the bounds where there is one. Counters of calls,
faults, outages and redeliveries are bounds in guards and are named in the
modules.

### Fairness

* `GatewayFills`: the io thread runs, and so does a `cancel()` that has taken an
  increment; its REST query need not come back.
* `OrderLane`: time passes, a call that has come back leaves the lane, some leg
  asks again. A REST call need not end: no read of the client has a timeout.
* `SpecCache`: the threads of the legs run and their requests end, and the core
  looks an instrument up at some time when it keeps being able to. Without the
  last a leg whose first fetch failed could submit for ever.
* `WsSession` (`ws_private`): the io thread runs, operations but reads end (30 s
  timeouts on connect and handshakes, timers), and a venue that is asked keeps
  answering logins (strong, because other messages come in between).
* `WsClient`: threads that can go on do; a handler returns or throws.
* `StreamCache`: the io thread runs, and a thread inside a read goes on with it
  (it sleeps 3 ms between looks). Messages and users' other calls need not come.
* `RestRequest`: threads run, time passes, a connect or write ends by the
  operating system's timeouts. Nothing makes a read end, and
  `EveryRequestEnds` says so.
* `HistoryPages`: the download's thread runs and its requests end.

## What disagrees with the code's own comments

Two are runs that TLC violates:

* `fills_duplicate`: a late duplicate "re-creates it harmlessly"
  (`mexc_execution_gateway.cpp` 395-397). While `cancel()` holds the last
  increment between `newlyFilled` and `fillCB`, the terminal event erases the
  entry; its duplicate reports the whole volume under a fill id the core has
  not seen, and `cancel()` reports its increment too.
* `spot_gap`: pages of "exactly 'limit' candles ending at endTime"
  (`mexc_spot_rest_client.cpp` 157) span `limit + 1` candles, and the venue
  answers from the start: the newest of each full later page is missing, unless
  `startTime` clips its range.

Seen, and not stated as runs:

* `isAuthenticated` is "Always false ... while reconnecting"
  (`mexc_futures_ws_session.h` 80-81). An error of the ping timer or of a write
  can be handled while a login ack of the same connection is already queued.
  `onRead` then runs `handleControlMsg` (467-475) before it looks at
  `reconnectScheduled` and `connected` (418): the session is `authenticated`
  and its delay is 1 again on a connection that is torn down, until the next
  `startConnect`. `ws_private` reaches this state. No topic goes out in it
  (`flushTopics` looks at `connected`), and `BackoffResets` says what is left of
  the promise: the venue did accept the login of that connection.
* "never round an order UP" (`mexc_execution_gateway.cpp` 560) is true of the
  step to whole volUnits that it stands beside. Two lines above,
  `std::round(qty / cs)` does round up: in `spec_cache` a quantity of 26 at a size of 4 becomes 7
  contracts, which is 28. `OrderFits` therefore bounds an order by the nearest
  whole number of contracts, not by the quantity.
* The spot limiter is to keep "10 requests/second"
  (`mexc_spot_rest_client.cpp` 29-30). A thread that has slept records the time
  from before its sleep (53), so its slot expires early, and threads that slept
  together go on together without looking at the window again.
* Crediting is called "atomic with the state" (`mexc_execution_gateway.cpp`
  379-381). In the window of `fills_duplicate` the io thread reports the order
  filled before the volume `cancel()` holds has arrived; it arrives later, and
  once (`fills_rest`). Without `cancel()` the order holds (`FillBeforeFinal`).
* "Only close() stops the loop" (`mexc_futures_ws_session.h` 26-28). A second
  `run()` during the reconnect wait leaves `reconnectScheduled` set with no
  timer of the new generation, and topics marked as sent on the old
  connection are not replayed on the new one. Messages queued for the old
  connection stay in the queue of the new one, subscriptions among them, and go
  out on it before the login; and an error of the new connection finds
  `reconnectScheduled` set, so that nothing handles it and the queue is stuck.
  Hence `runs = 1` in `LoopAlive`, `NoStuckMessage`, `SubsHeldBack`,
  `VenueInSync` and `WantedIsStreamed`; `OneWriter`, `ClosedForGood` and
  `BackoffResets` hold after any number of runs.
  `MexcExecutionGateway::start` gets there when it is called again after its
  login wait timed out.
* `WSClient::run` "returns immediately without blocking"
  (`mexc_futures_ws_client.h` 29) but joins a thread that is leaving, with
  `m_clientLocker` held. A call that meets a leaving thread (`overtaken`)
  leaves the session without a thread, or clears the flag of a new one; that
  needs an io_context out of work, for example after `run()` without a session.
* Unsubscribing drops the cached value, but a message read before it puts the
  ticker back after the drop.
* `refreshInstruments` "makes the next instrumentSpec() pull fresh venue
  parameters" (510-513): a fetch begun before the refresh can be stored after
  it, and is what the next call finds. The refusal that follows is what repairs
  it (`EveryLegEnds`).
* Subscribing again right after an unsubscribe can leave a topic listed as sent
  while the venue does not stream it, because the posted messages may leave in
  another order than the calls (`Resubscribe` is FALSE in the runs).
* A GET retried "on a fresh one" (`mexc_http_futures_session.cpp` 303) may take
  another pooled connection; the newest candle of a spot download is kept
  though `mexc_spot_rest_client.h` 45 says it is removed; funding rates may
  come twice when one is settled between two pages.

## Refinement

`Promised` instances `FillLedger` with the venue's volumes, its ended orders, the
core's credit and the last update it was told. `Implements` is the property
`Promised!Spec`: TLC checks it in `fills_rest`, TLAPS for
any orders, volumes, outages and cancels (`RefinesLedger`). It is the promise
that the handler and `cancel()` together never credit what was not dealt, never
take credit back, and never say anything of an order after its end.

## Proofs

TLAPS checks, for every value of the constants:

* `GatewayFillsProofs` (under `MaxRedeliveries = 0`, stated in each theorem
  that needs it): `TypeOK`, `Ledger`, `NoOverCredit`, `SettledCredit`,
  `FinalStays`, and `Implements`. The inductive invariant is `TypeOK /\ Ledger`.
  "Credited never exceeds dealt" is not inductive: a step must know what the
  other thread holds. `Balance` therefore adds up what the core has and what
  each thread is about to credit, against the dedup entry while it exists and
  against the venue's volume after it is dropped; `LiveIds` and `DoneIds` say
  which fill ids can still be new to the core; `StreamOrder` and `CancelTruth`
  say what an event and a REST answer can tell. The refinement takes one step
  per action: a stutter, a deal, a credit or an update of the ledger.
  Events delivered again are the other half: under `MaxCancels = 0` (no
  `cancel()` finds its order gone, so the io thread accounts alone; any number
  of outages and redeliveries) `FillBeforeFinal` and `NoOverCredit`, the
  setting of `fills_stream`. The inductive invariant is
  `TypeOK /\ StreamLedger`: an event that comes again has a fill id the core
  knows (`Known`), one that comes for the first time follows whatever was
  accounted, and after the last event of an order only replays come
  (`Replays`); so an entry that a replay re-creates credits nothing. With a
  `cancel()` that finds its order gone `FillBeforeFinal` is false, and with a
  replay besides so is `NoOverCredit` (`fills_duplicate`).
* `OrderLaneProofs`: `TypeOK`, `Deadlines`, `BoundedLockout`, `SpacedStarts`,
  `NoStartInCooldown`. `Deadlines` ties the history clocks to the time left.
* `RestRequestProofs`: `TypeOK`, `PostAtMostOnce`, `OutcomeTrue`, `Paced`,
  `FreshSignature`. Each request satisfies what its place in the
  retry loop implies (`Executions`, `Permits`, `Signed`, `Attempts`). In
  `Executions` a POST that may still be sent was not executed by any earlier
  attempt, and one that waits for its answer was executed as the reply under
  way says; so the loop may go on after a 510 and after a failed connect, and
  nowhere else. What an answer with another error (513, 2015, an HTTP status of
  the edge) means for the order is left open, as the code leaves it. For the
  rate, `LimiterOK` says that the permits of the last window are the newest
  slots of the deque, which never holds more than the limit: what the limiter
  drops is therefore never one that still counts.
* `SpecCacheProofs`: `TypeOK`, `FetchedOnly`, `OrderFits`. `Reading` says of
  each stage of a submit which reads have come from a fetched version and what
  the order holds by then; that `maps` is never emptied carries it over other
  legs' steps. The arithmetic (a multiple of the tick is its own neighbour on
  the grid of the decimals, whole volUnits, the nearest number of contracts) is in lemmas on
  `Nearest`, `Prices` and `Volumes`, under `TickAssumption`: a contract's tick
  is a whole number of its decimals.
* `StreamCacheProofs`: `TypeOK`, `CacheIsMerge`, `PullMatchesPush`. What is on
  the wire is newer than whatever was handled, in hand or quoted (`Past`), and
  the copy in hand relates to the entry as the quote will once it is told;
  without that a callback could set the core back.
* `WsClientProofs`: `TypeOK`, `SessionServed`. Unless a call met a leaving
  thread, `isRunning` tells whether the io thread is in its loop or about to be
  created (`FlagTrue`); and before the destructor nothing stops an io_context
  that runs or closes the session (`Undisturbed`), so the thread stays.

* `WsSessionProofs`: `TypeOK`, `OneWriter`, `LoopAlive`, `NoStuckMessage`,
  `SubsHeldBack`, `ClosedForGood`, `BackoffResets`. An operation of the current
  connection is a token, started or with its handler on the strand, and falls
  into one of five classes: connect chain, read, write, ping wait, reconnect
  wait. `Lone` says that no class has two; `Stages`, which holds after any
  number of runs, what a token says of the members (a connect stage excludes
  all others; a write is one `writeInFlight` knows of; a cancelled ping wait
  belongs to a connection that is down); `Single`, for one run, that none is
  missing and that the queue belongs to the connection that is up. None of the
  properties is inductive without the others: that an error arms a timer needs
  that no timer is armed, which needs that its last handler cleared the flag.
  A lemma per function says what it does to tokens (`Sent`, `TornDown`,
  `Gains`, `Moved`), a lemma per handler that taking it off the strand and
  running it keeps the invariant (`After`).

  `BackoffResets` compares a member of the session with what the venue did:
  `acceptedGen`, a history variable that only the venue's answer to a login
  sets. `GInv` adds to the invariant what ties the two (`Told`): an ack of the
  current connection that waits on the strand, or that was handled (`ackGen`),
  is of a login accepted on this connection. It is kept because no function of
  the session puts an ack on the strand (`NoNewAck`, a lemma per function),
  because only `onRead` takes one up, of its own generation (`Handled`), and
  because no queued message has the generation that a `startConnect` begins.

  The last part proves
  `VenueInSync`, under `~Resubscribe`: the messages of a topic
  that is subscribed again after an unsubscribe can leave in either order, and
  the property is then false (see above). Between two messages the lists and
  the venue disagree; `InSync` says by what. A listed topic is streamed or its
  message is queued or being written; a streamed topic is listed or its
  unsubscription is queued, being written, on the strand or about to be posted
  (`ToldOK`), and no subscription is queued behind it (`Ordered`); only dropped
  topics are unsubscribed and none of them is listed (`Listed`); a topic that
  waits on a connection that was let in waits for a flush (`WaitingOK`); a
  connection that is down has nothing at the venue, and what it still writes
  goes to a closed socket (`DownOK`). A failed write breaks the promise until
  its handler has torn the connection down, which is why `ToldOK` speaks of a
  connection that is `Working`. The lemmas follow the functions of the code:
  what each says to the venue (`Said`), which say nothing (`Hush`), and what a
  handler leaves in step (`Synced`).
* `HistoryPagesProofs`: `TypeOK`, `FuturesExact`, `SpotAscends`,
  `FundingComplete`. The walks build a history by recursion, which is not proved
  by induction but by counting: a record has its place in a finite set by how
  many are before it (`CountsOrder`), every place is taken (`PlaceTaken`, from
  the pigeonhole theorem), and a set has one increasing sequence
  (`OneAscending`). So a walk that knows it has put together an increasing
  sequence of the whole range knows the result. `IInv` says what is there
  between two requests: of a futures walk, the candles of the range after
  `cur` that were there at the first page (`FuturesOK`); of a spot walk, an
  increasing sequence after `cur` (`SpotOK`); of a funding walk, every rate of
  the range that now has fewer than `(cur - 1) * PageSize` records newer than
  it (`FundingOK`). None of them moves when the venue adds a record, because it is
  newer than all it had (`VenueOK`): it shifts the funding pages back, never
  forward, and a candle that opens after the first page is past `cur`. That a
  futures walk may stop when `oldest - 1` is not after `startTime`, without
  asking for `startTime` itself, needs that no two candles are one second apart
  (`Interval` at least 2; the shortest is a minute): `TimesOK`.

The assumptions are those named in the modules (`...Assumption`), which TLC
evaluates in every run. Each proof has one step per action. Every invariant of
a passing run is stated by a theorem.

Only model-checked: what `DecimalsOf` computes for every input (induction over
data), and all liveness (TLAPS does not reason about fairness here).

## Not modelled

* `setCredentials` of the futures `RESTClient`, which replaces the HTTP session
  under running requests without a lock: undefined behaviour that would only
  say that anything may follow.
* A system clock that is set back under the limiter: `RestRequest` measures with
  a steady clock; `Paced` holds up to such a step.
* The limiter of the spot `RESTClient`, an older copy of the one in `RestRequest`
  that does not keep its stated rate under concurrent calls (see above). Its
  listen keys are one request each.
* `WSPrivateStreamManager` (a switch without state), the spot HTTP session (a
  connection per request, no state), JSON conversions and enums (field by field,
  no state; the merge of a ticker and a conversion that throws are in
  `StreamCache`), the other requests of the exchange connector.
* How long a leg holds the lane through the retries, pauses and limiter waits of
  its request: bounded in number (`Attempts`), not in time, because a read has
  no timeout.
* TLS options, the signature itself, and logging.
