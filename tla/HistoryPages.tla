---------------------------- MODULE HistoryPages ----------------------------
(***************************************************************************)
(* The three downloads that put a history together from pages: candles of  *)
(* the futures and of the spot RESTClient, funding rates of the exchange   *)
(* connector.  The venue goes on opening candles and settling funding      *)
(* while pages are fetched.                                                *)
(*                                                                         *)
(* A record is the time it opened (settled); times are multiples of        *)
(* Interval.  A page answers as the comments of the clients describe the   *)
(* API: futures, the newest records of the range; spot, the oldest ones    *)
(* from startTime, or the newest ones when no startTime is sent; funding,  *)
(* by page number from the newest.                                         *)
(***************************************************************************)
EXTENDS Integers, Sequences, FiniteSets, SequencesExt

CONSTANTS
  Horizon,   \* bound: no record is later
  Interval,  \* intervalMs, in units of the futures walk's "minus 1"
  PageSize,  \* limit, pageSize: 1000
  MaxOpens   \* bound: records added before the first answer, and after it

ASSUME HistoryAssumption ==
  /\ Horizon \in Nat \ {0} /\ Interval \in Nat \ {0, 1}
  /\ PageSize \in Nat \ {0} /\ MaxOpens \in Nat

VARIABLES
  venue,  \* the records of the venue
  call,   \* the download and its range
  pc,     \* "call", "page", "done" or "failed"
  cur,    \* currentEndTime of the candle walks, pageNum of the funding one
  got,    \* retVal
  first   \* history: the records of the venue at the first answer

vars == <<venue, call, pc, cur, got, first>>

Times == {t \in 1..Horizon : \E k \in 1..Horizon : t = k * Interval}
Walks == {"futures", "spot", "funding"}

Init ==
  /\ venue \in SUBSET Times
  /\ call \in [walk : Walks, start : 0..Horizon, end : 0..Horizon]
  /\ pc = "call" /\ cur = 0 /\ got = <<>> /\ first = {}

-----------------------------------------------------------------------------
(* Answers of the venue.  A record has its place in a set by how many are   *)
(* before or after it.                                                      *)

Before(S, t) == Cardinality({u \in S : u < t})
After(S, t) == Cardinality({u \in S : u > t})

Ascending(S) ==
  [i \in 1..Cardinality(S) |-> CHOOSE t \in S : Before(S, t) = i - 1]
Descending(S) == Reverse(Ascending(S))

Oldest(S) == {t \in S : Before(S, t) < PageSize}
Newest(S) == {t \in S : After(S, t) < PageSize}

Between(from, to) == {t \in venue : from <= t /\ t <= to}

FuturesKlines(from, to) == Ascending(Newest(Between(from, to)))

SpotKlines(from, to) ==
  IF from > 0 THEN Ascending(Oldest(Between(from, to)))
              ELSE Ascending(Newest(Between(0, to)))

\* The records of page n, which come newest first.
TotalPage == (Cardinality(venue) + PageSize - 1) \div PageSize
FundingPage(n) ==
  {t \in venue : /\ (n - 1) * PageSize <= After(venue, t)
                 /\ After(venue, t) < n * PageSize}

\* A new record, newer than all others.
Opens ==
  /\ pc = "page" /\ Cardinality(venue \ first) < MaxOpens
  /\ \E t \in Times : venue' = venue \cup {t} /\ \A u \in venue : u < t
  /\ UNCHANGED <<call, pc, cur, got, first>>

-----------------------------------------------------------------------------
(* Where a walk goes on and where it stops.                                *)

\* Mutants: the oldest candle is asked for again; a whole interval is stepped
\* over, and a candle at startTime is not asked for.
FuturesNextSame(oldest) == oldest
FuturesNextInterval(oldest) == oldest - Interval

\* oldestTimestamp / 1000 - 1.
FuturesNext(oldest) == oldest - 1

\* Mutant: the oldest candle is asked for again.
SpotNextSame(oldest) == oldest

\* oldestTimestamp - intervalMs.
SpotNext(oldest) == oldest - Interval

\* The range of a spot page up to to: none for a long first one.
SpotFirst(to) ==
  IF to - call.start > PageSize * Interval THEN 0 ELSE call.start
SpotBatchStart(to) ==
  IF call.start > to - PageSize * Interval THEN call.start
                                           ELSE to - PageSize * Interval

\* Mutant: a page that reaches back before the end of the range is the last.
FundingStopsAtEnd(page) ==
  cur >= TotalPage \/ page = {} \/ \E t \in page : t < call.end

\* The last page, or the oldest record of this one is before the range.
FundingStops(page) ==
  cur >= TotalPage \/ page = {} \/ \E t \in page : t < call.start

\* Records of the range of the download.
Wanted(S) == {t \in S : call.start <= t /\ t <= call.end}

\* Where the i-th element of seq comes when it is sorted, and seq sorted.
Place(seq, i) ==
  Cardinality({j \in DOMAIN seq :
                 seq[j] < seq[i] \/ (seq[j] = seq[i] /\ j <= i)})
Sorted(seq) ==
  [k \in DOMAIN seq |-> seq[CHOOSE i \in DOMAIN seq : Place(seq, i) = k]]

-----------------------------------------------------------------------------
(* The downloads.  A step is one request with what follows its answer.     *)

\* A candle walk makes its first request, and a later one, only if its range is
\* not empty.
FuturesAsks(to) == call.start < to
SpotAsks(to) == call.start <= to

\* A download begins.
Call ==
  /\ pc = "call"
  /\ cur' = IF call.walk = "funding" THEN 1 ELSE call.end
  /\ pc' = IF \/ call.walk = "futures" /\ ~FuturesAsks(call.end)
              \/ call.walk = "spot" /\ ~SpotAsks(call.end)
           THEN "done" ELSE "page"
  /\ first' = venue
  /\ UNCHANGED <<venue, call, got>>

\* The venue at the first answer; before it, at the call.
Remembers(isFirst) == first' = IF isFirst THEN venue ELSE first

\* Mutant: an empty page does not end the walk.
FuturesPageOn ==
  /\ pc = "page" /\ call.walk = "futures"
  /\ LET page == FuturesKlines(call.start, cur)
         all == page \o got
         to == IF page = <<>> THEN cur ELSE FuturesNext(Head(page)) IN
     IF FuturesAsks(to)
     THEN got' = all /\ cur' = to /\ UNCHANGED pc
     ELSE /\ got' = IF all = <<>> THEN all ELSE Front(all)
          /\ pc' = "done" /\ cur' = to
  /\ Remembers(got = <<>>)
  /\ UNCHANGED <<venue, call>>

\* Futures candles: a page goes before what is there; at the end the newest
\* candle goes, "as it might be incomplete".
FuturesPage ==
  /\ pc = "page" /\ call.walk = "futures"
  /\ LET page == FuturesKlines(call.start, cur)
         all == page \o got
         to == FuturesNext(Head(page)) IN
     IF page # <<>> /\ FuturesAsks(to)
     THEN got' = all /\ cur' = to /\ UNCHANGED pc
     ELSE /\ got' = IF all = <<>> THEN all ELSE Front(all)
          /\ pc' = "done" /\ UNCHANGED cur
  /\ Remembers(got = <<>>)
  /\ UNCHANGED <<venue, call>>

\* Spot candles: the first page, which may leave startTime out, and the later
\* ones from batchStartTime.
SpotPage ==
  /\ pc = "page" /\ call.walk = "spot"
  /\ LET from == IF got = <<>> THEN SpotFirst(cur) ELSE SpotBatchStart(cur)
         page == SpotKlines(from, cur)
         to == SpotNext(Head(page)) IN
     /\ got' = page \o got
     /\ IF page # <<>> /\ SpotAsks(to) THEN cur' = to /\ UNCHANGED pc
                                       ELSE pc' = "done" /\ UNCHANGED cur
  /\ Remembers(got = <<>>)
  /\ UNCHANGED <<venue, call>>

\* Funding rates: a page, filtered; sorted at the end.
FundingPages ==
  /\ pc = "page" /\ call.walk = "funding"
  /\ LET page == FundingPage(cur)
         all == got \o Descending(Wanted(page))
     IN IF FundingStops(page)
        THEN got' = Sorted(all) /\ pc' = "done" /\ UNCHANGED cur
        ELSE got' = all /\ cur' = cur + 1 /\ UNCHANGED pc
  /\ Remembers(cur = 1)
  /\ UNCHANGED <<venue, call>>

\* A request or its conversion throws, through to the caller: no result, but
\* the writer has had the batches before.
Throws ==
  /\ pc = "page" /\ pc' = "failed"
  /\ UNCHANGED <<venue, call, cur, got, first>>

Downloads == Call \/ FuturesPage \/ SpotPage \/ FundingPages

Next == Downloads \/ Throws \/ Opens

Spec == Init /\ [][Next]_vars

\* The download runs on its caller's thread; a request ends (RestRequest).
FairSpec == Spec /\ WF_vars(Downloads)

-----------------------------------------------------------------------------
(* Properties.                                                             *)

Increases(seq) == \A i, j \in DOMAIN seq : i < j => seq[i] < seq[j]

\* Every variable keeps its type.  A walk has no more pages than the venue has
\* records, and no record comes twice into a candle walk.
TypeOK ==
  /\ venue \subseteq Times /\ first \subseteq venue
  /\ call \in [walk : Walks, start : 0..Horizon, end : 0..Horizon]
  /\ pc \in {"call", "page", "done", "failed"} /\ cur \in 0..Horizon
  /\ Range(got) \subseteq Times
  /\ call.walk # "funding" => Len(got) <= Cardinality(Times)

\* A finished futures download holds every candle of the range the venue had at
\* its first page, once, in order, but the newest, which may be incomplete
\* (the end of RESTClient::getHistoricalPrices).
FuturesExact ==
  call.walk = "futures" /\ pc = "done" =>
    LET all == Ascending(Wanted(first)) IN
    got = IF all = <<>> THEN all ELSE Front(all)

\* "This ensures next batch fetches data OLDER than current batch": spot
\* batches never overlap, and nothing is newer than endTime.
SpotAscends ==
  call.walk = "spot" =>
    Increases(got) /\ \A i \in DOMAIN got : got[i] <= call.end

\* Funding: though pages shift when a rate is settled during the download, no
\* rate of the range that was there at the first page is missed, nothing else
\* is returned, and the result is sorted (it may hold a rate twice).
FundingComplete ==
  call.walk = "funding" /\ pc = "done" =>
    /\ Wanted(first) \subseteq Range(got) /\ Range(got) \subseteq Wanted(venue)
    /\ \A i, j \in DOMAIN got : i < j => got[i] <= got[j]

\* Every download ends, at empty pages too.
WalkEnds == pc = "page" ~> pc \in {"done", "failed"}

\* The pages of the spot walk are to hold "exactly 'limit' candles ending at
\* endTime": between two candles of the result no candle is missing.
SpotNoHole ==
  call.walk = "spot" =>
    \A i \in DOMAIN got : \A t \in venue :
      Head(got) < t /\ t < Last(got) => t \in Range(got)

=============================================================================
