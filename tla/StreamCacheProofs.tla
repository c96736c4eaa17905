-------------------------- MODULE StreamCacheProofs --------------------------
(***************************************************************************)
(* Proofs about StreamCache, for any users, topics, shapes of messages,    *)
(* breaks and calls.                                                       *)
(***************************************************************************)
EXTENDS StreamCache, SequenceTheorems, TLAPS

\* Message n is behind the io thread: the venue sent it before all that is
\* under way.
Past(n) == n <= sent /\ \A i \in 1..Len(wire) : n < wire[i].n

\* Messages arrive in the order of their numbers, and what has been handled, is
\* in hand or was told is behind the io thread.
InOrder ==
  /\ \A i \in 1..Len(wire) : wire[i].n \in 1..sent
  /\ \A i, j \in 1..Len(wire) : i < j => wire[i].n < wire[j].n
  /\ \A s \in Symbols : \A m \in handled[s] : Past(m.n)
  /\ \A s \in Symbols : Past(quote[s].received)

\* n is the number of the newest of these messages, 0 without any.
IsNewest(n, messages) ==
  /\ n = 0 \/ \E m \in messages : m.n = n
  /\ \A m \in messages : m.n <= n

Merged(s) ==
  /\ \A f \in Fields :
       IsNewest(tickers[s][f], {m \in handled[s] : f \in m.fields})
  /\ IsNewest(tickers[s].received, {m \in handled[s] : ~m.fails})
  /\ tickers[s] = NoTicker \/ tickers[s].received > 0

\* What the core has been told of s, or is about to be.
Pushed(s) ==
  IF ioPc = "callback" /\ inHand.symbol = s THEN inHand.ticker ELSE quote[s]

PushOK(s) ==
  /\ tickers[s] # NoTicker =>
       /\ Pushed(s).received = tickers[s].received
       /\ \/ Pushed(s) = tickers[s]
          \/ \E m \in handled[s] : m.fails /\ m.n > Pushed(s).received
  /\ ioPc = "callback" /\ inHand.symbol = s =>
       quote[s].received < inHand.ticker.received

\* The copy in hand is of a message that is behind the io thread too.
InHandPast == ioPc = "callback" => Past(inHand.ticker.received)

IInv ==
  /\ TypeOK /\ InOrder /\ InHandPast
  /\ \A s \in Symbols : Merged(s) /\ PushOK(s)

-----------------------------------------------------------------------------
(* Merging.                                                                *)

LEMMA MergeFields ==
  ASSUME NEW ticker \in Ticker, NEW m \in Message
  PROVE  /\ Merge(ticker, m) \in Ticker
         /\ \A f \in Fields :
              Merge(ticker, m)[f] = IF f \in m.fields THEN m.n ELSE ticker[f]
         /\ Merge(ticker, m).received = ticker.received
<1>1. DOMAIN ticker = {"bid", "ask", "received"}
  BY DEF Ticker
<1>2. "received" \notin m.fields /\ m.n \in Numbers
  BY DEF Message, Fields
<1> QED BY <1>1, <1>2 DEF Merge, Ticker, Fields

\* A message newer than all others is the newest of those it belongs to.
LEMMA NewestGrows ==
  ASSUME NEW messages, \A x \in messages : x.n \in Nat,
         NEW n \in Nat, IsNewest(n, messages),
         NEW m, m.n \in Nat, m.n > n
  PROVE  IsNewest(m.n, messages \cup {m})
  BY DEF IsNewest

LEMMA NewestIs ==
  ASSUME NEW messages, \A x \in messages : x.n \in Nat,
         NEW n \in Nat, IsNewest(n, messages)
  PROVE  Newest(messages) = n
<1> DEFINE S == {m.n : m \in messages} \cup {0}
<1>1. n \in S /\ \A y \in S : n >= y
  BY DEF IsNewest
<1>2. \A x \in S : (\A y \in S : x >= y) => x = n
  <2> SUFFICES ASSUME NEW x \in S, \A y \in S : x >= y PROVE x = n
    OBVIOUS
  <2>1. x >= n /\ n >= x /\ x \in Nat
    BY <1>1
  <2> QED BY <2>1
<1> HIDE DEF S
<1>3. (CHOOSE x \in S : \A y \in S : x >= y) = n
  BY <1>1, <1>2
<1> QED BY <1>3 DEF Newest, Max, S

-----------------------------------------------------------------------------
(* Types.                                                                  *)

LEMMA HeadOfWire ==
  ASSUME TypeOK, wire # <<>>
  PROVE  /\ Head(wire) \in Message /\ Head(wire) = wire[1] /\ 1 \in 1..Len(wire)
         /\ Tail(wire) \in Seq(Message) /\ Len(Tail(wire)) = Len(wire) - 1
         /\ \A i \in 1..Len(Tail(wire)) : Tail(wire)[i] = wire[i + 1]
<1>1. wire \in Seq(Message)
  BY DEF TypeOK
<1>2. Len(wire) \in Nat /\ Len(wire) # 0
  BY <1>1, EmptySeq
<1> QED BY <1>1, <1>2, HeadTailProperties

\* A message that is sent is the newest one.
LEMMA SentMessage ==
  ASSUME TypeOK, NEW t \in Topics, VenueSends(t)
  PROVE  /\ sent' = sent + 1 /\ sent' \in Numbers
         /\ \E m \in Message : m.n = sent' /\ wire' = Append(wire, m)
         /\ UNCHANGED <<subs, streams, ioVars, userVars, handled, breaks, calls>>
<1>1. sent' = sent + 1 /\ sent' \in Numbers
  BY StreamAssumption DEF VenueSends, TypeOK, Numbers
<1>2. PICK shape \in Shapes :
        wire' = Append(wire, [n |-> sent + 1, topic |-> t,
                              fields |-> IF t \in Symbols THEN shape.fields ELSE {},
                              fails |-> shape.fails])
  BY DEF VenueSends
<1>3. shape \in [fields : SUBSET Fields, fails : BOOLEAN]
  BY StreamAssumption
<1>4. [n |-> sent + 1, topic |-> t,
       fields |-> IF t \in Symbols THEN shape.fields ELSE {},
       fails |-> shape.fails] \in Message
  BY <1>1, <1>3 DEF Message
<1> QED BY <1>1, <1>2, <1>4 DEF VenueSends

\* What the io thread makes of a ticker message: nothing, a half-merged entry,
\* or a new entry that it takes in hand.
Ignored(s, m) ==
  /\ m.fails /\ tickers[s] = NoTicker
  /\ UNCHANGED <<tickers, handled, ioPc, inHand>>

Halved(s, m) ==
  /\ m.fails /\ tickers[s] # NoTicker
  /\ tickers' = [tickers EXCEPT ![s] = Merge(tickers[s], m)]
  /\ handled' = [handled EXCEPT ![s] = handled[s] \cup {m}]
  /\ UNCHANGED <<ioPc, inHand>>

Taken(s, m) ==
  LET new == [Merge(tickers[s], m) EXCEPT !.received = m.n] IN
  /\ ~m.fails
  /\ tickers' = [tickers EXCEPT ![s] = new]
  /\ handled' = [handled EXCEPT ![s] = handled[s] \cup {m}]
  /\ ioPc' = "callback" /\ inHand' = [symbol |-> s, ticker |-> new]

TickerCase(s, m) ==
  /\ m = wire[1] /\ m.topic = s /\ wire # <<>> /\ ioPc = "idle"
  /\ Ignored(s, m) \/ Halved(s, m) \/ Taken(s, m)
  /\ wire' = Tail(wire)
  /\ UNCHANGED <<subs, streams, sent, candles, quote, userVars, breaks, calls>>

LEMMA TickerStep ==
  ASSUME TypeOK, IoTicker
  PROVE  \E s \in Symbols, m \in Message : TickerCase(s, m)
<1> DEFINE m == Head(wire)
<1>1. m \in Message /\ m = wire[1] /\ m.topic \in Symbols /\ wire # <<>>
  BY HeadOfWire DEF IoTicker
<1>2. handled \in [Symbols -> SUBSET Message]
  BY DEF TypeOK
<1>3. /\ ioPc = "idle" /\ wire' = Tail(wire)
      /\ UNCHANGED <<subs, streams, sent, candles, quote, userVars, breaks, calls>>
  BY DEF IoTicker
<1>4. Ignored(m.topic, m) \/ Halved(m.topic, m) \/ Taken(m.topic, m)
  BY <1>1, <1>2 DEF IoTicker, Store, HandOn, Ignored, Halved, Taken
<1> QED BY <1>1, <1>3, <1>4 DEF TickerCase

\* The entry a message makes is a ticker, and never the empty one.
LEMMA TakenTicker ==
  ASSUME NEW ticker \in Ticker, NEW m \in Message
  PROVE  LET new == [Merge(ticker, m) EXCEPT !.received = m.n] IN
         /\ new \in Ticker /\ new.received = m.n
         /\ \A f \in Fields : new[f] = IF f \in m.fields THEN m.n ELSE ticker[f]
<1>1. m.n \in Numbers
  BY DEF Message
<1>2. Merge(ticker, m) \in Ticker
  BY MergeFields
<1>3. \A f \in Fields : Merge(ticker, m)[f] =
        IF f \in m.fields THEN m.n ELSE ticker[f]
  BY MergeFields
<1> QED BY <1>1, <1>2, <1>3 DEF Ticker, Fields

LEMMA TypeSteps ==
  ASSUME TypeOK, [Next]_vars
  PROVE  TypeOK'
<1> USE StreamAssumption
<1>1. ASSUME NEW t \in Topics, VenueSends(t) PROVE TypeOK'
  <2>1. wire' \in Seq(Message)
    <3>1. PICK m \in Message : wire' = Append(wire, m)
      BY <1>1, SentMessage
    <3> QED BY <3>1, AppendProperties DEF TypeOK
  <2> QED BY <1>1, <2>1, SentMessage DEF TypeOK, ioVars, userVars
<1>2. CASE Break
  <2>1. wire' \in Seq(Message)
    BY <1>2, EmptySeq DEF Break
  <2> QED BY <1>2, <2>1 DEF Break, TypeOK, ioVars, userVars
<1>3. CASE Sync
  BY <1>3 DEF Sync, TypeOK, ioVars, userVars
<1>4. CASE IoTicker
  <2>1. PICK s \in Symbols, m \in Message : TickerCase(s, m)
    BY <1>4, TickerStep
  <2>2. wire' \in Seq(Message)
    BY <2>1, HeadOfWire DEF TickerCase
  <2>3. tickers[s] \in Ticker /\ handled[s] \subseteq Message
    BY DEF TypeOK
  <2> DEFINE new == [Merge(tickers[s], m) EXCEPT !.received = m.n]
  <2>4. Merge(tickers[s], m) \in Ticker /\ new \in Ticker
    BY <2>3, MergeFields, TakenTicker
  <2> HIDE DEF new
  <2>5. /\ tickers' \in [Symbols -> Ticker]
        /\ handled' \in [Symbols -> SUBSET Message]
        /\ ioPc' \in {"idle", "callback"} /\ inHand'.ticker \in Ticker
        /\ inHand'.symbol \in IF ioPc' = "idle" THEN {Nothing} ELSE Symbols
    <3>1. CASE Ignored(s, m)
      BY <3>1 DEF Ignored, TypeOK
    <3>2. CASE Halved(s, m)
      BY <2>3, <2>4, <3>2 DEF Halved, TypeOK
    <3>3. CASE Taken(s, m)
      BY <2>3, <2>4, <3>3 DEF Taken, TypeOK, new
    <3> QED BY <2>1, <3>1, <3>2, <3>3 DEF TickerCase
  <2> QED BY <2>1, <2>2, <2>5 DEF TickerCase, TypeOK, userVars
<1>5. CASE IoCallback
  <2>1. NoTicker \in Ticker
    BY DEF NoTicker, Ticker, Numbers
  <2>2. /\ quote' \in [Symbols -> Ticker] /\ inHand'.ticker \in Ticker
        /\ inHand'.symbol = Nothing /\ ioPc' = "idle"
    BY <1>5, <2>1 DEF IoCallback, TypeOK
  <2> QED BY <1>5, <2>2 DEF IoCallback, TypeOK, venueVars, userVars
<1>6. CASE IoCandle
  <2>1. Head(wire) \in Message /\ Tail(wire) \in Seq(Message)
    BY <1>6, HeadOfWire DEF IoCandle
  <2>2. candles' \in [Candles -> Numbers]
    BY <1>6, <2>1 DEF IoCandle, TypeOK, Message
  <2> QED BY <1>6, <2>1, <2>2 DEF IoCandle, TypeOK, userVars
<1>7. ASSUME NEW u \in Users, User(u) PROVE TypeOK'
  <2>1. ASSUME NEW t \in Topics, AskSubscribed(u, t) \/ StartRead(u, t)
        PROVE  TypeOK'
    <3>1. t # Nothing
      OBVIOUS
    <3>2. /\ pc' \in [Users -> {"idle", "subscribe", "drop", "read"}]
          /\ topic' \in [Users -> Topics \cup {Nothing}]
          /\ \A v \in Users : pc'[v] = "idle" <=> topic'[v] = Nothing
      <4>0. /\ pc \in [Users -> {"idle", "subscribe", "drop", "read"}]
            /\ topic \in [Users -> Topics \cup {Nothing}]
            /\ \A v \in Users : pc[v] = "idle" <=> topic[v] = Nothing
        BY DEF TypeOK
      <4> HIDE DEF TypeOK
      <4>1. CASE AskSubscribed(u, t)
        <5>1. \/ pc' = pc /\ topic' = topic
              \/ /\ pc' = [pc EXCEPT ![u] = "subscribe"]
                 /\ topic' = [topic EXCEPT ![u] = t]
          BY <4>1 DEF AskSubscribed, Enter
        <5> QED BY <3>1, <4>0, <5>1
      <4>2. CASE StartRead(u, t)
        <5>1. /\ pc' = [pc EXCEPT ![u] = "read"]
              /\ topic' = [topic EXCEPT ![u] = t]
          BY <4>2 DEF StartRead, Enter
        <5> QED BY <3>1, <4>0, <5>1
      <4> QED BY <2>1, <4>1, <4>2
    <3>3. tries' \in [Users -> 0..MaxTries] /\ calls' \in 0..MaxCalls
      <4>1. CASE AskSubscribed(u, t)
        BY <4>1 DEF AskSubscribed, Calls, TypeOK
      <4>2. CASE StartRead(u, t)
        <5>1. (IF timeout THEN MaxTries ELSE 1) \in 0..MaxTries
          OBVIOUS
        <5> QED BY <4>2, <5>1 DEF StartRead, TypeOK
      <4> QED BY <2>1, <4>1, <4>2
    <3>4. UNCHANGED <<subs, venueVars, ioVars, timeout, handled>>
      BY <2>1 DEF AskSubscribed, StartRead
    <3> QED BY <3>2, <3>3, <3>4 DEF TypeOK, venueVars, ioVars
  <2>2. ASSUME NEW s \in Symbols, Unsubscribe(u, s) PROVE TypeOK'
    BY <2>2 DEF Unsubscribe, Enter, Calls, TypeOK, venueVars, ioVars, Topics
  <2>3. CASE Subscribe(u)
    BY <2>3 DEF Subscribe, Leave, Enter, TypeOK, venueVars, ioVars
  <2>4. CASE Drop(u)
    <3>1. NoTicker \in Ticker
      BY DEF NoTicker, Ticker, Numbers
    <3>2. /\ tickers' \in [Symbols -> Ticker]
          /\ handled' \in [Symbols -> SUBSET Message]
      BY <2>4, <3>1 DEF Drop, TypeOK
    <3> QED BY <2>4, <3>2 DEF Drop, Leave, Enter, TypeOK, venueVars
  <2>5. CASE SetTimeout(u)
    BY <2>5 DEF SetTimeout, Calls, TypeOK, venueVars, ioVars
  <2>6. CASE Look(u)
    <3>1. /\ pc' \in [Users -> {"idle", "subscribe", "drop", "read"}]
          /\ topic' \in [Users -> Topics \cup {Nothing}]
          /\ \A v \in Users : pc'[v] = "idle" <=> topic'[v] = Nothing
      BY <2>6 DEF Look, Leave, Enter, Miss, TypeOK
    <3>2. tries' \in [Users -> 0..MaxTries]
      <4>1. tries \in [Users -> 0..MaxTries] /\ MaxTries \in Nat
        BY DEF TypeOK
      <4>2. \/ tries' = [tries EXCEPT ![u] = 0]
            \/ tries[u] # 0 /\ tries' = [tries EXCEPT ![u] = @ - 1]
        BY <2>6 DEF Look, Miss
      <4> HIDE DEF TypeOK
      <4>3. \A n \in 0..MaxTries : n # 0 => n - 1 \in 0..MaxTries
        BY <4>1
      <4>4. 0 \in 0..MaxTries
        BY <4>1
      <4> QED BY <4>1, <4>2, <4>3, <4>4
    <3>3. UNCHANGED <<subs, venueVars, ioVars, timeout, handled, calls>>
      BY <2>6 DEF Look
    <3> QED BY <3>1, <3>2, <3>3 DEF TypeOK, venueVars, ioVars
  <2> QED BY <1>7, <2>1, <2>2, <2>3, <2>4, <2>5, <2>6 DEF User
<1>8. CASE UNCHANGED vars
  BY <1>8 DEF TypeOK, vars, venueVars, ioVars, userVars
<1> QED BY <1>1, <1>2, <1>3, <1>4, <1>5, <1>6, <1>7, <1>8 DEF Next, IoStep

-----------------------------------------------------------------------------
(* The order of messages.                                                  *)

\* What a step can do to the messages under way.
Sends == \E m \in Message : /\ m.n = sent + 1 /\ sent' = sent + 1
                            /\ wire' = Append(wire, m)
Loses == wire' = <<>> /\ sent' = sent
Takes == wire # <<>> /\ wire' = Tail(wire) /\ sent' = sent
Keeps == wire' = wire /\ sent' = sent

LEMMA WireSteps ==
  ASSUME TypeOK, [Next]_vars
  PROVE  Sends \/ Loses \/ Takes \/ Keeps
<1>1. ASSUME NEW t \in Topics, VenueSends(t) PROVE Sends
  BY <1>1, SentMessage DEF Sends
<1>2. Break => Loses
  BY DEF Break, Loses
<1>3. IoTicker \/ IoCandle => Takes
  BY DEF IoTicker, IoCandle, Takes
<1>4. Sync \/ IoCallback => Keeps
  BY DEF Sync, IoCallback, Keeps, venueVars
<1>5. ASSUME NEW u \in Users, User(u) PROVE Keeps
  BY <1>5 DEF User, AskSubscribed, StartRead, Unsubscribe, Subscribe, Drop,
              SetTimeout, Look, Keeps, venueVars
<1>6. UNCHANGED vars => Keeps
  BY DEF vars, venueVars, Keeps
<1> QED BY <1>1, <1>2, <1>3, <1>4, <1>5, <1>6 DEF Next, IoStep

\* What is behind the io thread stays there.
LEMMA PastStays ==
  ASSUME TypeOK, [Next]_vars, NEW n \in Nat, Past(n)
  PROVE  Past(n)'
<1>0. wire \in Seq(Message) /\ sent \in Nat /\ Len(wire) \in Nat
  BY LenProperties DEF TypeOK, Numbers
<1>1. CASE Sends
  <2>1. PICK m \in Message : m.n = sent + 1 /\ sent' = sent + 1
                            /\ wire' = Append(wire, m)
    BY <1>1 DEF Sends
  <2>2. /\ Len(wire') = Len(wire) + 1 /\ wire'[Len(wire) + 1] = m
        /\ \A i \in 1..Len(wire) : wire'[i] = wire[i]
    BY <1>0, <2>1, AppendProperties
  <2> QED BY <1>0, <2>1, <2>2 DEF Past
<1>2. CASE Loses
  BY <1>2 DEF Loses, Past
<1>3. CASE Takes
  <2>1. /\ Len(wire') = Len(wire) - 1
        /\ \A i \in 1..Len(wire') : wire'[i] = wire[i + 1]
    BY <1>3, HeadOfWire DEF Takes
  <2> QED BY <1>0, <1>3, <2>1 DEF Past, Takes
<1>4. CASE Keeps
  BY <1>4 DEF Keeps, Past
<1> QED BY <1>1, <1>2, <1>3, <1>4, WireSteps

\* The message a step takes is behind the io thread from then on.
LEMMA TakenIsPast ==
  ASSUME TypeOK, InOrder, wire # <<>>, wire' = Tail(wire), sent' = sent,
         NEW n, n = wire[1].n
  PROVE  Past(n)'
<1>1. /\ 1 \in 1..Len(wire) /\ Len(wire') = Len(wire) - 1
      /\ \A i \in 1..Len(wire') : wire'[i] = wire[i + 1]
      /\ Len(wire) \in Nat
  BY HeadOfWire, LenProperties DEF TypeOK
<1>2. wire[1].n <= sent'
  BY <1>1 DEF InOrder, TypeOK, Numbers
<1>3. ASSUME NEW i \in 1..Len(wire') PROVE n < wire'[i].n
  BY <1>1 DEF InOrder
<1> QED BY <1>2, <1>3 DEF Past

LEMMA SortedSteps ==
  ASSUME TypeOK, InOrder, [Next]_vars
  PROVE  /\ \A i \in 1..Len(wire') : wire'[i].n \in 1..sent'
         /\ \A i, j \in 1..Len(wire') : i < j => wire'[i].n < wire'[j].n
<1>0. wire \in Seq(Message) /\ sent \in Nat /\ Len(wire) \in Nat
  BY LenProperties DEF TypeOK, Numbers
<1>1. CASE Sends
  <2>1. PICK m \in Message : m.n = sent + 1 /\ sent' = sent + 1
                            /\ wire' = Append(wire, m)
    BY <1>1 DEF Sends
  <2>2. /\ Len(wire') = Len(wire) + 1 /\ wire'[Len(wire) + 1] = m
        /\ \A i \in 1..Len(wire) : wire'[i] = wire[i]
    BY <1>0, <2>1, AppendProperties
  <2> QED BY <1>0, <2>1, <2>2 DEF InOrder
<1>2. CASE Loses
  BY <1>2 DEF Loses
<1>3. CASE Takes
  <2>1. /\ Len(wire') = Len(wire) - 1
        /\ \A i \in 1..Len(wire') : wire'[i] = wire[i + 1]
    BY <1>3, HeadOfWire DEF Takes
  <2> QED BY <1>0, <1>3, <2>1 DEF InOrder, Takes
<1>4. CASE Keeps
  BY <1>4 DEF Keeps, InOrder
<1> QED BY <1>1, <1>2, <1>3, <1>4, WireSteps

\* What a step can do to the ticker messages handled, and to the quotes.
LEMMA HandledSteps ==
  ASSUME TypeOK, [Next]_vars, NEW s \in Symbols
  PROVE  \/ handled'[s] \subseteq handled[s]
         \/ /\ handled'[s] = handled[s] \cup {wire[1]} /\ wire # <<>>
            /\ wire' = Tail(wire) /\ sent' = sent
<1>0. handled \in [Symbols -> SUBSET Message]
  BY DEF TypeOK
<1>1. CASE IoTicker
  <2>1. PICK x \in Symbols, m \in Message : TickerCase(x, m)
    BY <1>1, TickerStep
  <2> QED BY <1>0, <2>1 DEF TickerCase, Ignored, Halved, Taken
<1>2. ASSUME NEW u \in Users, User(u) PROVE handled'[s] \subseteq handled[s]
  <2>1. CASE Drop(u)
    BY <1>0, <2>1 DEF Drop
  <2>2. CASE UNCHANGED handled
    BY <2>2
  <2> QED BY <1>2, <2>1, <2>2
          DEF User, AskSubscribed, StartRead, Unsubscribe, Subscribe, SetTimeout,
              Look
<1>3. CASE UNCHANGED handled
  BY <1>3
<1> QED BY <1>1, <1>2, <1>3
        DEF Next, IoStep, VenueSends, Break, Sync, IoCallback, IoCandle, vars

LEMMA QuoteSteps ==
  ASSUME TypeOK, [Next]_vars, NEW s \in Symbols
  PROVE  \/ quote'[s] = quote[s]
         \/ ioPc = "callback" /\ inHand.symbol = s /\ quote'[s] = inHand.ticker
<1>1. CASE IoCallback
  BY <1>1 DEF IoCallback, TypeOK
<1>2. CASE UNCHANGED quote
  BY <1>2
<1>3. ASSUME NEW u \in Users, User(u) PROVE UNCHANGED quote
  BY <1>3 DEF User, AskSubscribed, StartRead, Unsubscribe, Subscribe, Drop,
              SetTimeout, Look, ioVars
<1>4. CASE UNCHANGED vars
  BY <1>4 DEF vars, ioVars
<1> QED BY <1>1, <1>2, <1>3, <1>4
        DEF Next, IoStep, VenueSends, Break, Sync, IoTicker, IoCandle, ioVars

LEMMA OrderSteps ==
  ASSUME TypeOK, InOrder, InHandPast, [Next]_vars
  PROVE  InOrder'
<1>1. ASSUME NEW s \in Symbols, NEW m \in handled'[s] PROVE Past(m.n)'
  <2>1. m \in Message
    BY <1>1, TypeSteps DEF TypeOK
  <2>2. m.n \in Nat
    BY <2>1 DEF Message, Numbers
  <2>3. CASE m \in handled[s]
    BY <2>2, <2>3, PastStays DEF InOrder
  <2>4. CASE m = wire[1] /\ wire # <<>> /\ wire' = Tail(wire) /\ sent' = sent
    BY <2>4, TakenIsPast
  <2> QED BY <1>1, <2>3, <2>4, HandledSteps
<1>2. ASSUME NEW s \in Symbols PROVE Past(quote[s].received)'
  <2>1. \E n \in Nat : n = quote'[s].received /\ Past(n)
    <3>1. /\ quote[s].received \in Nat /\ Past(quote[s].received)
          /\ inHand.ticker.received \in Nat
          /\ ioPc = "callback" => Past(inHand.ticker.received)
      BY DEF InOrder, InHandPast, TypeOK, Ticker, Numbers
    <3> QED BY <3>1, QuoteSteps
  <2>2. PICK n \in Nat : n = quote'[s].received /\ Past(n)
    BY <2>1
  <2>3. Past(n)'
    BY <2>2, PastStays
  <2> QED BY <2>2, <2>3 DEF Past
<1> QED BY <1>1, <1>2, SortedSteps DEF InOrder

LEMMA InHandSteps ==
  ASSUME TypeOK, InOrder, InHandPast, [Next]_vars
  PROVE  InHandPast'
<1> SUFFICES ASSUME ioPc' = "callback" PROVE Past(inHand.ticker.received)'
  BY DEF InHandPast
<1>1. CASE IoTicker
  <2>1. PICK s \in Symbols, m \in Message : TickerCase(s, m)
    BY <1>1, TickerStep
  <2>2. Taken(s, m)
    BY <2>1 DEF TickerCase, Ignored, Halved
  <2>3. inHand'.ticker.received = m.n
    BY <2>2, TakenTicker DEF Taken, TypeOK
  <2>4. Past(m.n)'
    BY <2>1, TakenIsPast DEF TickerCase
  <2> QED BY <2>1, <2>3, <2>4 DEF Past, TickerCase
<1>2. CASE UNCHANGED <<ioPc, inHand>>
  <2>1. inHand.ticker.received \in Nat /\ Past(inHand.ticker.received)
    BY <1>2 DEF InHandPast, TypeOK, Ticker, Numbers
  <2> QED BY <1>2, <2>1, PastStays DEF Past
<1>3. ASSUME NEW u \in Users, User(u) PROVE UNCHANGED <<ioPc, inHand>>
  BY <1>3 DEF User, AskSubscribed, StartRead, Unsubscribe, Subscribe, Drop,
              SetTimeout, Look, ioVars
<1>4. UNCHANGED vars => UNCHANGED <<ioPc, inHand>>
  BY DEF vars, ioVars
<1> QED BY <1>1, <1>2, <1>3, <1>4
        DEF Next, IoStep, VenueSends, Break, Sync, IoCallback, IoCandle, ioVars

-----------------------------------------------------------------------------
(* The cache and the quotes.                                               *)

\* What a step can do to the entry of a ticker.
LEMMA EntrySteps ==
  ASSUME TypeOK, [Next]_vars, NEW s \in Symbols
  PROVE  \/ tickers'[s] = tickers[s] /\ handled'[s] = handled[s]
         \/ /\ tickers'[s] = NoTicker /\ handled'[s] = {}
            /\ UNCHANGED <<ioPc, inHand, quote>>
         \/ \E m \in Message :
              TickerCase(s, m) /\ (Halved(s, m) \/ Taken(s, m))
<1>0. /\ tickers \in [Symbols -> Ticker]
      /\ handled \in [Symbols -> SUBSET Message]
  BY DEF TypeOK
<1>1. CASE IoTicker
  <2>1. PICK x \in Symbols, m \in Message : TickerCase(x, m)
    BY <1>1, TickerStep
  <2>2. CASE x = s
    BY <2>1, <2>2 DEF TickerCase, Ignored
  <2>3. CASE x # s
    BY <1>0, <2>1, <2>3 DEF TickerCase, Ignored, Halved, Taken
  <2> QED BY <2>2, <2>3
<1>2. ASSUME NEW u \in Users, Drop(u)
      PROVE  \/ tickers'[s] = tickers[s] /\ handled'[s] = handled[s]
             \/ /\ tickers'[s] = NoTicker /\ handled'[s] = {}
                /\ UNCHANGED <<ioPc, inHand, quote>>
  BY <1>0, <1>2 DEF Drop
<1>3. CASE UNCHANGED <<tickers, handled>>
  BY <1>3
<1>4. ASSUME NEW u \in Users, User(u), ~Drop(u)
      PROVE  UNCHANGED <<tickers, handled>>
  BY <1>4 DEF User, AskSubscribed, StartRead, Unsubscribe, Subscribe,
              SetTimeout, Look, ioVars
<1>5. UNCHANGED vars => UNCHANGED <<tickers, handled>>
  BY DEF vars, ioVars
<1> QED BY <1>1, <1>2, <1>3, <1>4, <1>5
        DEF Next, IoStep, VenueSends, Break, Sync, IoCallback, IoCandle, ioVars

\* The message in turn is newer than all that was handled of a ticker.
LEMMA NewMessage ==
  ASSUME IInv, NEW s \in Symbols, NEW m \in Message, m = wire[1], wire # <<>>
  PROVE  /\ m.n \in Nat /\ m.n > 0
         /\ \A x \in handled[s] : x.n \in Nat /\ x.n < m.n
         /\ \A f \in Fields : tickers[s][f] \in Nat /\ tickers[s][f] < m.n
         /\ tickers[s].received \in Nat /\ tickers[s].received < m.n
         /\ quote[s].received \in Nat /\ quote[s].received < m.n
         /\ inHand.ticker.received \in Nat
<1>1. 1 \in 1..Len(wire)
  BY HeadOfWire DEF IInv
<1>2. m.n \in Nat /\ m.n > 0
  BY <1>1 DEF IInv, InOrder, TypeOK, Numbers
<1>3. ASSUME NEW x \in handled[s] PROVE x.n \in Nat /\ x.n < m.n
  <2>1. x \in Message
    BY DEF IInv, TypeOK
  <2> QED BY <1>1, <2>1 DEF IInv, InOrder, Past, Message, Numbers
<1>4. /\ tickers[s] \in Ticker /\ quote[s] \in Ticker /\ inHand.ticker \in Ticker
  BY DEF IInv, TypeOK
<1>5. /\ \A f \in Fields : tickers[s][f] \in Nat
      /\ tickers[s].received \in Nat /\ quote[s].received \in Nat
      /\ inHand.ticker.received \in Nat
  BY <1>4 DEF Ticker, Numbers, Fields
<1>6. quote[s].received < m.n
  BY <1>1 DEF IInv, InOrder, Past
<1>7. \A f \in Fields : tickers[s][f] < m.n
  BY <1>2, <1>3 DEF IInv, Merged, IsNewest
<1>8. tickers[s].received < m.n
  BY <1>2, <1>3 DEF IInv, Merged, IsNewest
<1> QED BY <1>2, <1>3, <1>5, <1>6, <1>7, <1>8

LEMMA MergedSteps ==
  ASSUME IInv, [Next]_vars, NEW s \in Symbols
  PROVE  Merged(s)'
<1>0. Merged(s) /\ TypeOK
  BY DEF IInv
<1>1. CASE tickers'[s] = tickers[s] /\ handled'[s] = handled[s]
  BY <1>0, <1>1 DEF Merged
<1>2. CASE tickers'[s] = NoTicker /\ handled'[s] = {}
  BY <1>2 DEF Merged, IsNewest, NoTicker, Fields
<1>3. ASSUME NEW m \in Message, TickerCase(s, m), Halved(s, m) \/ Taken(s, m)
      PROVE  Merged(s)'
  <2>1. /\ m.n \in Nat /\ m.n > 0
        /\ \A x \in handled[s] : x.n \in Nat
        /\ \A f \in Fields : tickers[s][f] \in Nat /\ tickers[s][f] < m.n
        /\ tickers[s].received \in Nat /\ tickers[s].received < m.n
    BY <1>3, NewMessage DEF TickerCase
  <2>2. /\ tickers[s] \in Ticker
        /\ handled'[s] = handled[s] \cup {m}
    BY <1>0, <1>3 DEF Halved, Taken, TypeOK
  <2>3. \A f \in Fields :
          tickers'[s][f] = IF f \in m.fields THEN m.n ELSE tickers[s][f]
    <3>1. CASE Halved(s, m)
      BY <1>0, <2>2, <3>1, MergeFields DEF Halved, TypeOK
    <3>2. CASE Taken(s, m)
      BY <1>0, <2>2, <3>2, TakenTicker DEF Taken, TypeOK
    <3> QED BY <1>3, <3>1, <3>2
  <2>4. /\ tickers'[s].received = IF m.fails THEN tickers[s].received ELSE m.n
        /\ m.fails => tickers[s].received > 0
    <3>1. CASE Halved(s, m)
      BY <1>0, <2>2, <3>1, MergeFields DEF Halved, TypeOK, Merged
    <3>2. CASE Taken(s, m)
      BY <1>0, <2>2, <3>2, TakenTicker DEF Taken, TypeOK
    <3> QED BY <1>3, <3>1, <3>2
  <2>5. ASSUME NEW f \in Fields
        PROVE  IsNewest(tickers'[s][f], {x \in handled'[s] : f \in x.fields})
    <3>1. IsNewest(tickers[s][f], {x \in handled[s] : f \in x.fields})
      BY <1>0 DEF Merged
    <3>2. CASE f \in m.fields
      <4>1. {x \in handled'[s] : f \in x.fields} =
              {x \in handled[s] : f \in x.fields} \cup {m}
        BY <2>2, <3>2
      <4>2. IsNewest(m.n, {x \in handled[s] : f \in x.fields} \cup {m})
        BY <2>1, <3>1, NewestGrows
      <4> QED BY <2>3, <3>2, <4>1, <4>2
    <3>3. CASE f \notin m.fields
      <4>1. {x \in handled'[s] : f \in x.fields} =
              {x \in handled[s] : f \in x.fields}
        BY <2>2, <3>3
      <4> QED BY <2>3, <3>1, <3>3, <4>1
    <3> QED BY <3>2, <3>3
  <2>6. IsNewest(tickers'[s].received, {x \in handled'[s] : ~x.fails})
    <3>1. IsNewest(tickers[s].received, {x \in handled[s] : ~x.fails})
      BY <1>0 DEF Merged
    <3>2. CASE ~m.fails
      <4>1. {x \in handled'[s] : ~x.fails} = {x \in handled[s] : ~x.fails} \cup {m}
        BY <2>2, <3>2
      <4>2. IsNewest(m.n, {x \in handled[s] : ~x.fails} \cup {m})
        BY <2>1, <3>1, NewestGrows
      <4> QED BY <2>4, <3>2, <4>1, <4>2
    <3>3. CASE m.fails
      <4>1. {x \in handled'[s] : ~x.fails} = {x \in handled[s] : ~x.fails}
        BY <2>2, <3>3
      <4> QED BY <2>4, <3>1, <3>3, <4>1
    <3> QED BY <3>2, <3>3
  <2>7. tickers'[s].received > 0
    BY <2>1, <2>4
  <2> QED BY <2>5, <2>6, <2>7 DEF Merged
<1> QED BY <1>0, <1>1, <1>2, <1>3, EntrySteps

LEMMA PushSteps ==
  ASSUME IInv, [Next]_vars, NEW s \in Symbols
  PROVE  PushOK(s)'
<1>0. PushOK(s) /\ TypeOK
  BY DEF IInv
<1>1. ASSUME NEW m \in Message, TickerCase(s, m), Halved(s, m) \/ Taken(s, m)
      PROVE  PushOK(s)'
  <2>1. /\ ioPc = "idle" /\ UNCHANGED quote
        /\ handled'[s] = handled[s] \cup {m} /\ tickers[s] \in Ticker
    BY <1>0, <1>1 DEF TickerCase, Halved, Taken, TypeOK
  <2>2. /\ m.n \in Nat /\ quote[s].received \in Nat
        /\ quote[s].received < m.n
    BY <1>1, NewMessage DEF TickerCase
  <2>3. CASE Halved(s, m)
    <3>1. /\ Pushed(s) = quote[s] /\ Pushed(s)' = quote[s]
          /\ tickers'[s].received = tickers[s].received /\ m.fails
      BY <1>0, <2>1, <2>3, MergeFields DEF Halved, Pushed, TypeOK
    <3>2. Pushed(s)'.received = tickers'[s].received
      BY <1>0, <2>3, <3>1 DEF Halved, PushOK
    <3> QED BY <2>1, <2>2, <2>3, <3>1, <3>2 DEF PushOK, Halved
  <2>4. CASE Taken(s, m)
    <3>1. /\ ioPc' = "callback" /\ inHand'.symbol = s
          /\ tickers'[s] = inHand'.ticker /\ inHand'.ticker.received = m.n
      BY <1>0, <2>1, <2>4, TakenTicker DEF Taken, TypeOK
    <3> QED BY <2>1, <2>2, <3>1 DEF PushOK, Pushed
  <2> QED BY <1>1, <2>3, <2>4
<1>2. ASSUME NEW x \in Symbols, x # s, NEW m \in Message, TickerCase(x, m)
      PROVE  PushOK(s)'
  <2>1. /\ UNCHANGED quote /\ tickers'[s] = tickers[s] /\ handled'[s] = handled[s]
        /\ ioPc = "idle"
        /\ ioPc' = "callback" => inHand'.symbol # s
    BY <1>0, <1>2 DEF TickerCase, Ignored, Halved, Taken, TypeOK
  <2> QED BY <1>0, <2>1 DEF PushOK, Pushed
<1>3. CASE IoTicker
  <2>1. PICK x \in Symbols, m \in Message : TickerCase(x, m)
    BY <1>0, <1>3, TickerStep
  <2>2. CASE x = s /\ Ignored(s, m)
    BY <1>0, <2>1, <2>2 DEF TickerCase, Ignored, PushOK, Pushed
  <2> QED BY <1>1, <1>2, <2>1, <2>2 DEF TickerCase
<1>4. CASE IoCallback
  <2>1. /\ ioPc = "callback" /\ ioPc' = "idle" /\ UNCHANGED <<tickers, handled>>
        /\ quote'[s] = IF inHand.symbol = s THEN inHand.ticker ELSE quote[s]
    BY <1>0, <1>4 DEF IoCallback, TypeOK
  <2> QED BY <1>0, <2>1 DEF PushOK, Pushed
<1>5. ASSUME NEW u \in Users, Drop(u) PROVE PushOK(s)'
  <2>1. /\ UNCHANGED <<ioPc, inHand, quote>>
        /\ \/ tickers'[s] = NoTicker
           \/ tickers'[s] = tickers[s] /\ handled'[s] = handled[s]
    BY <1>0, <1>5 DEF Drop, TypeOK
  <2> QED BY <1>0, <2>1 DEF PushOK, Pushed
<1>6. ASSUME UNCHANGED <<tickers, handled, ioPc, inHand, quote>> PROVE PushOK(s)'
  BY <1>0, <1>6 DEF PushOK, Pushed
<1>7. ASSUME NEW u \in Users, User(u), ~Drop(u)
      PROVE  UNCHANGED <<tickers, handled, ioPc, inHand, quote>>
  BY <1>7 DEF User, AskSubscribed, StartRead, Unsubscribe, Subscribe,
              SetTimeout, Look, ioVars
<1>8. UNCHANGED vars => UNCHANGED <<tickers, handled, ioPc, inHand, quote>>
  BY DEF vars, ioVars
<1> QED BY <1>3, <1>4, <1>5, <1>6, <1>7, <1>8
        DEF Next, IoStep, VenueSends, Break, Sync, IoCandle, ioVars

-----------------------------------------------------------------------------
(* Theorems.                                                               *)

LEMMA Invariance == Spec => []IInv
<1>1. Init => IInv
  <2> SUFFICES ASSUME Init PROVE IInv
    OBVIOUS
  <2>1. NoTicker \in Ticker /\ 0 \in Numbers
    BY StreamAssumption DEF NoTicker, Ticker, Numbers
  <2>2. TypeOK
    BY <2>1, StreamAssumption, EmptySeq DEF Init, TypeOK
  <2>3. InOrder /\ InHandPast
    BY DEF Init, InOrder, InHandPast, Past, NoTicker
  <2>4. \A s \in Symbols : Merged(s) /\ PushOK(s)
    BY DEF Init, Merged, PushOK, Pushed, IsNewest, NoTicker, Fields
  <2> QED BY <2>2, <2>3, <2>4 DEF IInv
<1>2. IInv /\ [Next]_vars => IInv'
  BY TypeSteps, OrderSteps, InHandSteps, MergedSteps, PushSteps DEF IInv
<1> QED BY <1>1, <1>2, PTL DEF Spec

\* TypeOK of StreamCache.
THEOREM TypeCorrect == Spec => []TypeOK
<1>1. IInv => TypeOK
  BY DEF IInv
<1> QED BY <1>1, Invariance, PTL

\* CacheIsMerge: a cached field is the newest the venue sent of it since the
\* entry was dropped, failed conversions included.
THEOREM CacheMerges == Spec => []CacheIsMerge
<1>1. IInv => CacheIsMerge
  <2> SUFFICES ASSUME IInv, NEW s \in Symbols
               PROVE  /\ \A f \in Fields : tickers[s][f] =
                           Newest({m \in handled[s] : f \in m.fields})
                      /\ tickers[s].received = Newest({m \in handled[s] : ~m.fails})
    BY DEF CacheIsMerge
  <2>1. \A m \in handled[s] : m.n \in Nat
    BY DEF IInv, TypeOK, Message, Numbers
  <2>2. tickers[s] \in Ticker
    BY DEF IInv, TypeOK
  <2>3. /\ \A f \in Fields : tickers[s][f] \in Nat
        /\ tickers[s].received \in Nat
    BY <2>2 DEF Ticker, Numbers, Fields
  <2> QED BY <2>1, <2>3, NewestIs DEF IInv, Merged
<1> QED BY <1>1, Invariance, PTL

\* PullMatchesPush: a read is never behind what quoteCB was told, and agrees
\* with it on a message both have.
THEOREM PullsMatchPushes == Spec => []PullMatchesPush
<1>1. IInv => PullMatchesPush
  <2> SUFFICES ASSUME IInv, NEW s \in Symbols, tickers[s] # NoTicker
               PROVE  /\ quote[s].received <= tickers[s].received
                      /\ \/ quote[s].received < tickers[s].received
                         \/ quote[s] = tickers[s]
                         \/ \E m \in handled[s] :
                              m.fails /\ m.n > quote[s].received
    BY DEF PullMatchesPush
  <2>1. quote[s].received \in Nat /\ tickers[s].received \in Nat
    BY DEF IInv, TypeOK, Ticker, Numbers
  <2>2. PushOK(s)
    BY DEF IInv
  <2> QED BY <2>1, <2>2 DEF PushOK, Pushed
<1> QED BY <1>1, Invariance, PTL

=============================================================================
