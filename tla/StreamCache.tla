---------------------------- MODULE StreamCache ----------------------------
(***************************************************************************)
(* Market data in WSStreamManager and the quotes MexcExecutionGateway      *)
(* makes of it: the io thread merges ticker messages into a cache under    *)
(* instrumentInfoLocker and hands the merged copy to the core outside it,  *)
(* while users subscribe, unsubscribe and read.                            *)
(*                                                                         *)
(* Messages are numbered; a field of a ticker holds the number of the      *)
(* message it was read from, 0 the default.  Candles have a lock and a     *)
(* cache of their own.  The session below (WsSession) is external: its     *)
(* list of topics, and the venue that follows it.                          *)
(***************************************************************************)
EXTENDS Integers, Sequences, FiniteSetsExt

CONSTANTS
  Users,     \* threads that call the manager
  Symbols,   \* pairs with a ticker topic
  Candles,   \* <<pair, interval>> topics
  Nothing,   \* no topic
  Shapes,    \* ticker messages: fields read, whether a later one throws
  MaxMsgs,   \* messages the venue sends
  MaxBreaks, \* connections that break
  MaxCalls,  \* calls that subscribe, unsubscribe or set the timeout
  MaxTries   \* looks of a read before it gives up

Fields == {"bid", "ask"}
Topics == Symbols \cup Candles

ASSUME StreamAssumption ==
  /\ Nothing \notin Topics /\ Symbols \cap Candles = {}
  /\ Shapes \subseteq [fields : SUBSET Fields, fails : BOOLEAN]
  /\ MaxMsgs \in Nat /\ MaxBreaks \in Nat /\ MaxCalls \in Nat
  /\ MaxTries \in Nat \ {0}

VARIABLES
  subs, streams,  \* topics of the session, topics the venue streams
  wire, sent,     \* messages under way
  tickers, candles,
  ioPc, inHand,   \* the io thread: merged copy it has yet to hand on
  quote,          \* what quoteCB told the core last of a symbol
  pc, topic, tries,  \* threads inside a call
  timeout,        \* whether reads wait at all
  handled,        \* ticker messages merged since the entry was dropped
  breaks, calls

ioVars == <<tickers, candles, ioPc, inHand, quote>>
userVars == <<pc, topic, tries, timeout>>
venueVars == <<streams, wire, sent, breaks>>
vars == <<subs, venueVars, ioVars, userVars, handled, calls>>

\* receivedTimestamp 0: no entry.
NoTicker == [bid |-> 0, ask |-> 0, received |-> 0]
Numbers == 0..MaxMsgs

Init ==
  /\ subs = {} /\ streams = {} /\ wire = <<>> /\ sent = 0
  /\ tickers = [s \in Symbols |-> NoTicker]
  /\ candles = [c \in Candles |-> 0]
  /\ ioPc = "idle" /\ inHand = [symbol |-> Nothing, ticker |-> NoTicker]
  /\ quote = [s \in Symbols |-> NoTicker]
  /\ pc = [u \in Users |-> "idle"] /\ topic = [u \in Users |-> Nothing]
  /\ tries = [u \in Users |-> 0]
  /\ timeout = TRUE /\ handled = [s \in Symbols |-> {}]
  /\ breaks = 0 /\ calls = 0

-----------------------------------------------------------------------------
(* The venue and the session.                                              *)

VenueSends(t) ==
  /\ t \in streams /\ sent < MaxMsgs /\ sent' = sent + 1
  /\ \E shape \in Shapes :
       wire' = Append(wire, [n |-> sent + 1, topic |-> t,
                             fields |-> IF t \in Symbols THEN shape.fields
                                        ELSE {},
                             fails |-> shape.fails])
  /\ UNCHANGED <<subs, streams, ioVars, userVars, handled, breaks, calls>>

\* What is under way is lost.
Break ==
  /\ breaks < MaxBreaks /\ breaks' = breaks + 1
  /\ streams' = {} /\ wire' = <<>>
  /\ UNCHANGED <<subs, sent, ioVars, userVars, handled, calls>>

\* The session's topics reach the venue.
Sync ==
  /\ streams # subs /\ streams' = subs
  /\ UNCHANGED <<subs, wire, sent, ioVars, userVars, handled, breaks, calls>>

-----------------------------------------------------------------------------
(* The data event callback, on the io thread.                              *)

\* Mutant: fields a message leaves out are reset.
Replace(ticker, m) ==
  [f \in DOMAIN ticker |-> IF f \in m.fields THEN m.n
                           ELSE IF f = "received" THEN ticker[f] ELSE 0]

\* EventTicker::fromJson: a field the message leaves out keeps its value.
Merge(ticker, m) ==
  [f \in DOMAIN ticker |-> IF f \in m.fields THEN m.n ELSE ticker[f]]

\* Mutant: the merged copy is not written back.
StoreNew(s, ticker) ==
  tickers' = IF tickers[s] = NoTicker THEN [tickers EXCEPT ![s] = ticker]
             ELSE tickers

Store(s, ticker) == tickers' = [tickers EXCEPT ![s] = ticker]

\* Mutant: only a new entry is an update.
HandOnNew(s, ticker) ==
  IF tickers[s] = NoTicker
  THEN ioPc' = "callback" /\ inHand' = [symbol |-> s, ticker |-> ticker]
  ELSE UNCHANGED <<ioPc, inHand>>

HandOn(s, ticker) ==
  ioPc' = "callback" /\ inHand' = [symbol |-> s, ticker |-> ticker]

\* push.ticker, under instrumentInfoLocker.  When a conversion throws, a new
\* entry is not inserted, and an old one keeps the fields read so far.
IoTicker ==
  /\ ioPc = "idle" /\ wire # <<>> /\ Head(wire).topic \in Symbols
  /\ LET m == Head(wire)
         s == m.topic
         merged == Merge(tickers[s], m)
         stamped == [merged EXCEPT !.received = m.n]
     IN /\ IF m.fails
           THEN /\ IF tickers[s] = NoTicker THEN UNCHANGED tickers
                   ELSE Store(s, merged)
                /\ UNCHANGED <<ioPc, inHand>>
           ELSE Store(s, stamped) /\ HandOn(s, stamped)
        /\ handled' = IF m.fails /\ tickers[s] = NoTicker THEN handled
                      ELSE [handled EXCEPT ![s] = @ \cup {m}]
  /\ wire' = Tail(wire)
  /\ UNCHANGED <<subs, streams, sent, candles, quote, userVars, breaks, calls>>

\* tickerUpdateCB, outside the lock, to quoteCB.
IoCallback ==
  /\ ioPc = "callback" /\ ioPc' = "idle"
  /\ quote' = [quote EXCEPT ![inHand.symbol] = inHand.ticker]
  /\ inHand' = [symbol |-> Nothing, ticker |-> NoTicker]
  /\ UNCHANGED <<subs, venueVars, tickers, candles, userVars, handled, calls>>

\* push.kline: a candle replaces the one of its interval.
IoCandle ==
  /\ ioPc = "idle" /\ wire # <<>> /\ Head(wire).topic \in Candles
  /\ candles' = IF Head(wire).fails THEN candles
                ELSE [candles EXCEPT ![Head(wire).topic] = Head(wire).n]
  /\ wire' = Tail(wire)
  /\ UNCHANGED <<subs, streams, sent, tickers, ioPc, inHand, quote, userVars,
                 handled, breaks, calls>>

IoStep == IoTicker \/ IoCallback \/ IoCandle

-----------------------------------------------------------------------------
(* Users.                                                                  *)

Enter(u, where, t) ==
  /\ pc' = [pc EXCEPT ![u] = where] /\ topic' = [topic EXCEPT ![u] = t]

Leave(u) == Enter(u, "idle", Nothing)

Calls == calls < MaxCalls /\ calls' = calls + 1

\* subscribeTickerStream, subscribeCandlestickStream: asks, then subscribes.
AskSubscribed(u, t) ==
  /\ pc[u] = "idle" /\ Calls
  /\ \/ t \in subs /\ UNCHANGED <<pc, topic>>
     \/ t \notin subs /\ Enter(u, "subscribe", t)
  /\ UNCHANGED <<subs, venueVars, ioVars, tries, timeout, handled>>

Subscribe(u) ==
  /\ pc[u] = "subscribe" /\ Leave(u)
  /\ subs' = subs \cup {topic[u]}
  /\ UNCHANGED <<venueVars, ioVars, tries, timeout, handled, calls>>

\* unsubscribeTickerStream: the topic goes first, then the cached value.
Unsubscribe(u, s) ==
  /\ pc[u] = "idle" /\ Calls /\ Enter(u, "drop", s)
  /\ subs' = subs \ {s}
  /\ UNCHANGED <<venueVars, ioVars, tries, timeout, handled>>

Drop(u) ==
  /\ pc[u] = "drop" /\ Leave(u)
  /\ tickers' = [tickers EXCEPT ![topic[u]] = NoTicker]
  /\ handled' = [handled EXCEPT ![topic[u]] = {}]
  /\ UNCHANGED <<subs, venueVars, candles, ioPc, inHand, quote, tries,
                 timeout, calls>>

SetTimeout(u) ==
  /\ pc[u] = "idle" /\ Calls /\ timeout' = ~timeout
  /\ UNCHANGED <<subs, venueVars, ioVars, pc, topic, tries, handled>>

\* readEventTicker (lastQuote), readEventCandlestick: look, then sleep.
StartRead(u, t) ==
  /\ pc[u] = "idle" /\ Enter(u, "read", t)
  /\ tries' = [tries EXCEPT ![u] = IF timeout THEN MaxTries ELSE 1]
  /\ UNCHANGED <<subs, venueVars, ioVars, timeout, handled, calls>>

Cached(t) == IF t \in Symbols THEN tickers[t] # NoTicker ELSE candles[t] # 0

\* Mutant: a look that finds nothing is not counted.
MissUncounted(u) == UNCHANGED <<pc, topic, tries>>

Miss(u) == tries' = [tries EXCEPT ![u] = @ - 1] /\ UNCHANGED <<pc, topic>>

\* The last look has been, or the timeout was set to 0, or there is a value.
Look(u) ==
  /\ pc[u] = "read"
  /\ IF tries[u] = 0 \/ ~timeout \/ Cached(topic[u])
     THEN Leave(u) /\ tries' = [tries EXCEPT ![u] = 0]
     ELSE Miss(u)
  /\ UNCHANGED <<subs, venueVars, ioVars, timeout, handled, calls>>

User(u) ==
  \/ \E t \in Topics : AskSubscribed(u, t) \/ StartRead(u, t)
  \/ \E s \in Symbols : Unsubscribe(u, s)
  \/ Subscribe(u) \/ Drop(u) \/ SetTimeout(u) \/ Look(u)

Next ==
  \/ \E t \in Topics : VenueSends(t)
  \/ Break \/ Sync \/ IoStep
  \/ \E u \in Users : User(u)

Spec == Init /\ [][Next]_vars

\* The io thread runs, and a user inside a read goes on with it.
FairSpec == Spec /\ WF_vars(IoStep) /\ \A u \in Users : WF_vars(Look(u))

-----------------------------------------------------------------------------
(* Properties.                                                             *)

Ticker == [bid : Numbers, ask : Numbers, received : Numbers]
Message ==
  [n : Numbers, topic : Topics, fields : SUBSET Fields, fails : BOOLEAN]

\* Every variable keeps its type.
TypeOK ==
  /\ subs \subseteq Topics /\ streams \subseteq Topics
  /\ sent \in Numbers /\ wire \in Seq(Message)
  /\ tickers \in [Symbols -> Ticker] /\ quote \in [Symbols -> Ticker]
  /\ handled \in [Symbols -> SUBSET Message]
  /\ candles \in [Candles -> Numbers]
  /\ ioPc \in {"idle", "callback"} /\ inHand.ticker \in Ticker
  /\ inHand.symbol \in IF ioPc = "idle" THEN {Nothing} ELSE Symbols
  /\ pc \in [Users -> {"idle", "subscribe", "drop", "read"}]
  /\ topic \in [Users -> Topics \cup {Nothing}]
  /\ \A u \in Users : pc[u] = "idle" <=> topic[u] = Nothing
  /\ tries \in [Users -> 0..MaxTries] /\ timeout \in BOOLEAN
  /\ breaks \in 0..MaxBreaks /\ calls \in 0..MaxCalls

Newest(messages) == Max({m.n : m \in messages} \cup {0})

\* A cached field is the newest the venue sent of it since the entry was
\* dropped, in messages that came together or apart, over breaks and failed
\* conversions ("the merged EventTicker"; lines 42-54).
CacheIsMerge ==
  \A s \in Symbols :
    /\ \A f \in Fields :
         tickers[s][f] = Newest({m \in handled[s] : f \in m.fields})
    /\ tickers[s].received = Newest({m \in handled[s] : ~m.fails})

\* What a read returns is never behind what the callback has told the core, and
\* the two agree on a message both have, unless a later one broke off halfway:
\* the entry is written before the callback, which runs outside the lock.
PullMatchesPush ==
  \A s \in Symbols : tickers[s] # NoTicker =>
    /\ quote[s].received <= tickers[s].received
    /\ \/ quote[s].received < tickers[s].received
       \/ quote[s] = tickers[s]
       \/ \E m \in handled[s] : m.fails /\ m.n > quote[s].received

\* Every ticker that enters the cache reaches the core too ("invoked on EVERY
\* ticker update"), also when its entry is dropped meanwhile.
EveryUpdatePushed ==
  \A s \in Symbols : \A n \in 1..MaxMsgs :
    (tickers[s].received = n) ~> (quote[s].received >= n)

\* A read comes back ("It will block at most Timeout time"), whatever becomes
\* of the entry and of the timeout meanwhile.
ReadsEnd == \A u \in Users : (pc[u] = "read") ~> (pc[u] # "read")

=============================================================================
