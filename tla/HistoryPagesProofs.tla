------------------------- MODULE HistoryPagesProofs -------------------------
(***************************************************************************)
(* Proofs about HistoryPages, for any horizon, interval, page size and     *)
(* number of records that are added during a download.                     *)
(*                                                                         *)
(* The order of records is a matter of counting: an element of a finite    *)
(* set has its place by how many are before it, all places are taken, and  *)
(* there is one increasing sequence of a set.  From this follow what a     *)
(* page leaves out, that pages join in order, and what each walk keeps     *)
(* between two of its requests.                                            *)
(***************************************************************************)
EXTENDS HistoryPages, FiniteSetTheorems, SequenceTheorems, TLAPS

-----------------------------------------------------------------------------
(* What holds between two requests.                                         *)

\* The venue has its records in order of time: what it added after the first
\* answer is newer than all it had then.
VenueOK ==
  /\ venue \subseteq Times /\ first \subseteq venue
  /\ \A t \in venue \ first : \A u \in first : u < t

CallOK ==
  /\ call \in [walk : Walks, start : 0..Horizon, end : 0..Horizon]
  /\ pc \in {"call", "page", "done", "failed"} /\ cur \in 0..Horizon
  /\ got \in Seq(Times)
  /\ pc = "call" => got = <<>>

\* The venue the walk is about: before the first answer, the one there is.
Basis(isFirst) == IF isFirst THEN venue ELSE first

\* Futures: what is there are the candles of the range after cur.
FuturesOK ==
  call.walk = "futures" =>
    /\ Increases(got)
    /\ pc = "page" =>
         /\ call.start < cur /\ cur <= call.end
         /\ got = <<>> => cur = call.end
         /\ Range(got) = {t \in Wanted(Basis(got = <<>>)) : t > cur}
    /\ pc = "done" => FuturesExact

\* Spot: what is there comes after cur.
SpotOK ==
  call.walk = "spot" =>
    /\ Increases(got)
    /\ \A i \in DOMAIN got : got[i] <= call.end
    /\ pc = "page" => cur <= call.end /\ \A i \in DOMAIN got : cur < got[i]

\* Funding: of the pages before cur no rate of the range is missing.
FundingOK ==
  call.walk = "funding" =>
    /\ pc = "page" =>
         /\ cur = 1 \/ cur \in 2..Cardinality(venue)
         /\ Range(got) \subseteq Wanted(venue)
         /\ \A t \in Wanted(Basis(cur = 1)) :
              After(venue, t) < (cur - 1) * PageSize => t \in Range(got)
    /\ pc = "done" => FundingComplete

IInv == VenueOK /\ CallOK /\ FuturesOK /\ SpotOK /\ FundingOK

-----------------------------------------------------------------------------
(* Counting.                                                                *)

\* Times are natural numbers, finitely many, and no two of them follow each
\* other: an interval has a candle only at its end.
LEMMA TimesOK ==
  /\ IsFiniteSet(Times) /\ Times \subseteq Nat /\ Times \subseteq 0..Horizon
  /\ Cardinality(Times) <= Horizon
  /\ \A t \in Times : t + 1 \notin Times
<1>1. Times \subseteq 1..Horizon
  BY DEF Times
<1>2. IsFiniteSet(1..Horizon) /\ Cardinality(1..Horizon) = Horizon
  BY FS_Interval, HistoryAssumption
<1>3. IsFiniteSet(Times) /\ Cardinality(Times) <= Cardinality(1..Horizon)
  BY <1>1, <1>2, FS_Subset
<1>4. ASSUME NEW t \in Times, t + 1 \in Times
      PROVE  FALSE
  <2>1. PICK k \in 1..Horizon : t = k * Interval
    BY DEF Times
  <2>2. PICK m \in 1..Horizon : t + 1 = m * Interval
    BY <1>4 DEF Times
  <2>3. k \in Nat /\ m \in Nat /\ Interval \in Nat /\ Interval >= 2
    BY HistoryAssumption
  <2>4. (m - k) * Interval = 1
    BY <2>1, <2>2, <2>3
  <2>5. PICK d \in Int : d = m - k
    BY <2>3
  <2>6. d * Interval = 1
    BY <2>4, <2>5
  <2>7. CASE d <= 0
    <3>1. d * Interval <= 0
      BY <2>3, <2>5, <2>7
    <3>2. QED
      BY <2>6, <3>1
  <2>8. CASE d >= 1
    <3>1. d * Interval >= Interval
      BY <2>3, <2>5, <2>8
    <3>2. QED
      BY <2>3, <2>6, <3>1
  <2>9. QED
    BY <2>5, <2>7, <2>8
<1>5. QED
  BY <1>1, <1>2, <1>3, <1>4, HistoryAssumption

\* A finite set of integers.
IsInts(S) == IsFiniteSet(S) /\ S \subseteq Int

LEMMA TimesInts ==
  ASSUME NEW S, S \subseteq Times
  PROVE  IsInts(S)
<1>1. IsFiniteSet(Times) /\ Times \subseteq Nat /\ S \in SUBSET Times
  BY TimesOK
<1>2. IsFiniteSet(S)
  BY <1>1, FS_Subset
<1>3. QED
  BY <1>1, <1>2 DEF IsInts

\* How many elements of a set satisfy a condition: less than all if one of them
\* does not.
LEMMA SmallerCount ==
  ASSUME NEW S, IsFiniteSet(S), NEW T \in SUBSET S, NEW t \in S, t \notin T
  PROVE  Cardinality(T) \in Nat /\ Cardinality(T) < Cardinality(S)
<1>1. /\ IsFiniteSet(T) /\ Cardinality(T) <= Cardinality(S)
      /\ (Cardinality(S) = Cardinality(T) => S = T)
  BY FS_Subset
<1>2. Cardinality(T) \in Nat /\ Cardinality(S) \in Nat
  BY <1>1, FS_CardinalityType
<1>3. QED
  BY <1>1, <1>2

\* An element has as many before (after) it as there may be, and an earlier
\* (later) one has less.
LEMMA CountsOK ==
  ASSUME NEW S, IsInts(S), NEW t \in S
  PROVE  /\ Cardinality(S) \in Nat
         /\ Before(S, t) \in 0..(Cardinality(S) - 1)
         /\ After(S, t) \in 0..(Cardinality(S) - 1)
<1>1. Cardinality(S) \in Nat
  BY FS_CardinalityType DEF IsInts
<1>2. t \notin {u \in S : u < t} /\ t \notin {u \in S : u > t}
  BY DEF IsInts
<1>3. Before(S, t) \in Nat /\ Before(S, t) < Cardinality(S)
  BY <1>2, SmallerCount DEF Before, IsInts
<1>4. After(S, t) \in Nat /\ After(S, t) < Cardinality(S)
  BY <1>2, SmallerCount DEF After, IsInts
<1>5. QED
  BY <1>1, <1>3, <1>4

LEMMA CountsOrder ==
  ASSUME NEW S, IsInts(S), NEW t \in S, NEW u \in S, t < u
  PROVE  Before(S, t) < Before(S, u) /\ After(S, u) < After(S, t)
<1>1. IsFiniteSet({x \in S : x < u}) /\ IsFiniteSet({x \in S : x > t})
  BY FS_Subset DEF IsInts
<1>2. /\ {x \in S : x < t} \in SUBSET {x \in S : x < u}
      /\ t \in {x \in S : x < u} /\ t \notin {x \in S : x < t}
  <2>1. /\ t < u /\ ~(t < t)
        /\ \A x \in S : x < t => x < u
    BY DEF IsInts
  <2>2. QED
    BY <2>1
<1>3. /\ {x \in S : x > u} \in SUBSET {x \in S : x > t}
      /\ u \in {x \in S : x > t} /\ u \notin {x \in S : x > u}
  <2>1. /\ u > t /\ ~(u > u)
        /\ \A x \in S : x > u => x > t
    BY DEF IsInts
  <2>2. QED
    BY <2>1
<1>4. Before(S, t) < Before(S, u)
  BY <1>1, <1>2, SmallerCount DEF Before
<1>5. After(S, u) < After(S, t)
  BY <1>1, <1>3, SmallerCount DEF After
<1>6. QED
  BY <1>4, <1>5

\* Elements with different places take all the places there are.
LEMMA AllPlaces ==
  ASSUME NEW D, IsFiniteSet(D), NEW n \in Nat, n = Cardinality(D),
         NEW r \in [D -> 1..n],
         \A d, e \in D : r[d] = r[e] => d = e,
         NEW k \in 1..n
  PROVE  \E d \in D : r[d] = k
<1>1. r \in Injection(D, 1..n)
  BY DEF Injection, IsInjective
<1>2. IsFiniteSet(1..n) /\ Cardinality(1..n) = n
  BY FS_Interval
<1>3. r \in Surjection(D, 1..n)
  BY <1>1, <1>2, FS_Injection
<1>4. QED
  BY <1>3 DEF Surjection

LEMMA PlaceTaken ==
  ASSUME NEW S, IsInts(S), NEW k \in 1..Cardinality(S)
  PROVE  /\ \E t \in S : Before(S, t) = k - 1
         /\ \E t \in S : After(S, t) = k - 1
<1>1. PICK n \in Nat : n = Cardinality(S)
  BY FS_CardinalityType DEF IsInts
<1>2. k \in Nat /\ k \in 1..n
  BY <1>1
<1>3. PICK r : r = [t \in S |-> Before(S, t) + 1]
  OBVIOUS
<1>4. PICK q : q = [t \in S |-> After(S, t) + 1]
  OBVIOUS
<1>5. \A t \in S : r[t] = Before(S, t) + 1 /\ q[t] = After(S, t) + 1
  BY <1>3, <1>4
<1>6. \A t \in S : Before(S, t) \in 0..(n - 1) /\ After(S, t) \in 0..(n - 1)
  BY <1>1, CountsOK
<1>7. r \in [S -> 1..n] /\ q \in [S -> 1..n]
  BY <1>3, <1>4, <1>6
<1>8. ASSUME NEW t \in S, NEW u \in S, r[t] = r[u] \/ q[t] = q[u]
      PROVE  t = u
  <2>1. t \in Int /\ u \in Int
    BY DEF IsInts
  <2>2. Before(S, t) = Before(S, u) \/ After(S, t) = After(S, u)
    BY <1>5, <1>6, <1>8
  <2>3. ~(t < u)
    BY <1>6, <2>2, CountsOrder
  <2>4. ~(u < t)
    BY <1>6, <2>2, CountsOrder
  <2>5. QED
    BY <2>1, <2>3, <2>4
<1>9. \A d, e \in S : r[d] = r[e] => d = e
  BY <1>8
<1>10. \A d, e \in S : q[d] = q[e] => d = e
  BY <1>8
<1>11. IsFiniteSet(S)
  BY DEF IsInts
<1>12. PICK t \in S : r[t] = k
  BY <1>1, <1>2, <1>7, <1>9, <1>11, AllPlaces
<1>13. PICK u \in S : q[u] = k
  BY <1>1, <1>2, <1>7, <1>10, <1>11, AllPlaces
<1>14. Before(S, t) = k - 1 /\ After(S, u) = k - 1
  BY <1>2, <1>5, <1>6, <1>12, <1>13
<1>15. QED
  BY <1>14

-----------------------------------------------------------------------------
(* Sequences of records.                                                    *)

\* The records of a set in order: each one once.
LEMMA AscendingOK ==
  ASSUME NEW S, IsInts(S)
  PROVE  /\ Ascending(S) \in Seq(S)
         /\ Len(Ascending(S)) = Cardinality(S)
         /\ \A i \in 1..Cardinality(S) : Before(S, Ascending(S)[i]) = i - 1
         /\ Increases(Ascending(S))
         /\ Range(Ascending(S)) = S
<1>1. PICK n \in Nat : n = Cardinality(S)
  BY FS_CardinalityType DEF IsInts
<1>2. PICK a : a = Ascending(S)
  OBVIOUS
<1>3. a = [i \in 1..n |-> CHOOSE t \in S : Before(S, t) = i - 1]
  BY <1>1, <1>2 DEF Ascending
<1>4. ASSUME NEW i \in 1..n
      PROVE  a[i] \in S /\ Before(S, a[i]) = i - 1
  <2>1. \E t \in S : Before(S, t) = i - 1
    BY <1>1, PlaceTaken
  <2>2. a[i] = CHOOSE t \in S : Before(S, t) = i - 1
    BY <1>3
  <2>3. QED
    BY <2>1, <2>2
<1>5. a \in [1..n -> S]
  BY <1>3, <1>4
<1>6. a \in Seq(S) /\ Len(a) = n /\ DOMAIN a = 1..n
  BY <1>5, SeqDef
<1>7. ASSUME NEW i \in 1..n, NEW j \in 1..n, i < j
      PROVE  a[i] < a[j]
  <2>1. a[i] \in Int /\ a[j] \in Int
    BY <1>4 DEF IsInts
  <2>2. Before(S, a[i]) = i - 1 /\ Before(S, a[j]) = j - 1
    BY <1>4
  <2>3. a[i] # a[j]
    BY <1>7, <2>2
  <2>4. CASE a[j] < a[i]
    <3>1. Before(S, a[j]) < Before(S, a[i])
      BY <1>4, <2>4, CountsOrder
    <3>2. QED
      BY <1>7, <2>2, <3>1
  <2>5. QED
    BY <2>1, <2>3, <2>4
<1>8. Increases(a)
  BY <1>6, <1>7 DEF Increases
<1>9. ASSUME NEW t \in S
      PROVE  t \in Range(a)
  <2>1. PICK i \in 1..n : i = Before(S, t) + 1
    BY <1>1, CountsOK
  <2>2. Before(S, a[i]) = Before(S, t) /\ Before(S, t) \in Int
    BY <1>1, <1>4, <2>1, CountsOK
  <2>3. a[i] \in S /\ a[i] \in Int /\ t \in Int
    BY <1>4 DEF IsInts
  <2>4. ~(a[i] < t) /\ ~(t < a[i])
    BY <2>2, <2>3, CountsOrder
  <2>5. a[i] = t
    BY <2>3, <2>4
  <2>6. QED
    BY <1>6, <2>5 DEF Range
<1>10. Range(a) = S
  BY <1>4, <1>6, <1>9 DEF Range
<1>11. QED
  BY <1>1, <1>2, <1>4, <1>6, <1>8, <1>10

\* A sequence of integers, in order.
InOrder(q) == q \in Seq(Int) /\ Increases(q)

LEMMA ElementInt ==
  ASSUME NEW q \in Seq(Int)
  PROVE  /\ Len(q) \in Nat /\ DOMAIN q = 1..Len(q)
         /\ q \in [1..Len(q) -> Int]
         /\ \A i \in 1..Len(q) : q[i] \in Int
         /\ Range(q) = {q[i] : i \in 1..Len(q)}
         /\ Range(q) \subseteq Int
BY LenProperties DEF Range

\* An increasing sequence has as many elements as its range, and the i-th has
\* i - 1 before it.
LEMMA IncreasingCounts ==
  ASSUME NEW q, InOrder(q)
  PROVE  /\ IsInts(Range(q))
         /\ Cardinality(Range(q)) = Len(q)
         /\ \A i \in 1..Len(q) : Before(Range(q), q[i]) = i - 1
<1>1. PICK n \in Nat : n = Len(q)
  BY ElementInt DEF InOrder
<1>2. /\ DOMAIN q = 1..n /\ Range(q) \subseteq Int
      /\ Range(q) = {q[i] : i \in 1..n}
      /\ \A i \in 1..n : q[i] \in Int
  BY <1>1, ElementInt DEF InOrder
<1>3. \A i, j \in 1..n : i < j => q[i] < q[j]
  BY <1>2 DEF InOrder, Increases
<1>4. \A i, j \in 1..n : q[i] < q[j] => i < j
  BY <1>2, <1>3
<1>5. \A i, j \in 1..n : q[i] = q[j] => i = j
  BY <1>2, <1>3
<1>6. ASSUME NEW m \in 0..n, NEW R, R = {q[j] : j \in 1..m}
      PROVE  IsFiniteSet(R) /\ Cardinality(R) = m
  <2>1. IsFiniteSet(1..m) /\ Cardinality(1..m) = m
    BY FS_Interval
  <2>2. PICK f : f = [j \in 1..m |-> q[j]]
    OBVIOUS
  <2>3. m \in Nat /\ \A j \in 1..m : j \in 1..n
    OBVIOUS
  <2>4. f \in [1..m -> R] /\ \A j \in 1..m : f[j] = q[j]
    BY <1>6, <2>2
  <2>5. f \in Bijection(1..m, R)
    BY <1>5, <1>6, <2>3, <2>4
       DEF Bijection, Injection, Surjection, IsInjective
  <2>6. ExistsBijection(1..m, R)
    BY <2>5 DEF ExistsBijection
  <2>7. QED
    BY <2>1, <2>6, FS_Bijection
<1>7. IsFiniteSet(Range(q)) /\ Cardinality(Range(q)) = n
  BY <1>2, <1>6
<1>8. ASSUME NEW i \in 1..n
      PROVE  Before(Range(q), q[i]) = i - 1
  <2>1. i - 1 \in 0..n
    OBVIOUS
  <2>2. {u \in Range(q) : u < q[i]} = {q[j] : j \in 1..(i - 1)}
    <3>1. \A j \in 1..n : q[j] < q[i] <=> j \in 1..(i - 1)
      BY <1>3, <1>4
    <3>2. \A j \in 1..(i - 1) : j \in 1..n
      OBVIOUS
    <3>3. QED
      BY <1>2, <3>1, <3>2
  <2>3. QED
    BY <1>6, <2>1, <2>2 DEF Before
<1>9. QED
  BY <1>1, <1>2, <1>7, <1>8 DEF IsInts

\* There is one increasing sequence of a set.
LEMMA OneAscending ==
  ASSUME NEW q, InOrder(q), NEW S, Range(q) = S
  PROVE  q = Ascending(S)
<1>1. /\ IsInts(S) /\ Cardinality(S) = Len(q)
      /\ \A i \in 1..Len(q) : Before(S, q[i]) = i - 1
  BY IncreasingCounts
<1>2. PICK n \in Nat : n = Len(q)
  BY ElementInt DEF InOrder
<1>3. \A i \in 1..n : q[i] \in S /\ q[i] \in Int
  BY <1>2, ElementInt DEF InOrder
<1>4. PICK a : a = Ascending(S)
  OBVIOUS
<1>5. /\ a \in Seq(S) /\ Len(a) = n
      /\ \A i \in 1..n : Before(S, a[i]) = i - 1
  BY <1>1, <1>2, <1>4, AscendingOK
<1>6. \A i \in 1..n : a[i] \in S /\ a[i] \in Int
  BY <1>1, <1>5, ElementOfSeq DEF IsInts
<1>7. ASSUME NEW i \in 1..n
      PROVE  q[i] = a[i]
  <2>1. Before(S, q[i]) = i - 1 /\ Before(S, a[i]) = i - 1
    BY <1>1, <1>2, <1>5
  <2>2. ~(q[i] < a[i]) /\ ~(a[i] < q[i])
    BY <1>1, <1>3, <1>6, <2>1, CountsOrder
  <2>3. QED
    BY <1>3, <1>6, <2>2
<1>8. a \in Seq(Int) /\ q \in Seq(Int)
  BY <1>1, <1>5, SeqMonotonic DEF IsInts, InOrder
<1>9. q = a
  BY <1>2, <1>5, <1>7, <1>8, SeqEqual
<1>10. QED
  BY <1>4, <1>9

\* A page before what is there: both in order, and so is the whole.
LEMMA JoinOK ==
  ASSUME NEW p, NEW q, InOrder(p), InOrder(q),
         \A t \in Range(p), u \in Range(q) : t < u
  PROVE  InOrder(p \o q) /\ Range(p \o q) = Range(p) \cup Range(q)
<1>1. PICK m \in Nat, n \in Nat : m = Len(p) /\ n = Len(q)
  BY ElementInt DEF InOrder
<1>2. p \in Seq(Int) /\ q \in Seq(Int)
  BY DEF InOrder
<1>3. PICK c : c = p \o q
  OBVIOUS
<1>4. /\ c \in Seq(Int) /\ Len(c) = m + n
      /\ \A i \in 1..(m + n) : c[i] = IF i <= m THEN p[i] ELSE q[i - m]
  BY <1>1, <1>2, <1>3, ConcatProperties
<1>5. /\ \A i \in 1..m : p[i] \in Range(p) /\ p[i] \in Int
      /\ \A i \in 1..n : q[i] \in Range(q) /\ q[i] \in Int
      /\ DOMAIN p = 1..m /\ DOMAIN q = 1..n /\ DOMAIN c = 1..(m + n)
  BY <1>1, <1>2, <1>4, ElementInt
<1>6. /\ \A i, j \in 1..m : i < j => p[i] < p[j]
      /\ \A i, j \in 1..n : i < j => q[i] < q[j]
  BY <1>5 DEF InOrder, Increases
<1>7. ASSUME NEW i \in 1..(m + n), NEW j \in 1..(m + n), i < j
      PROVE  c[i] < c[j]
  <2>1. CASE j <= m
    <3>1. i \in 1..m /\ j \in 1..m /\ c[i] = p[i] /\ c[j] = p[j]
      BY <1>4, <1>7, <2>1
    <3>2. QED
      BY <1>6, <1>7, <3>1
  <2>2. CASE i <= m /\ j > m
    <3>1. i \in 1..m /\ j - m \in 1..n /\ c[i] = p[i] /\ c[j] = q[j - m]
      BY <1>4, <2>2
    <3>2. QED
      BY <1>5, <3>1
  <2>3. CASE i > m
    <3>1. /\ i - m \in 1..n /\ j - m \in 1..n /\ i - m < j - m
          /\ c[i] = q[i - m] /\ c[j] = q[j - m]
      BY <1>4, <1>7, <2>3
    <3>2. QED
      BY <1>6, <3>1
  <2>4. QED
    BY <1>7, <2>1, <2>2, <2>3
<1>8. Increases(c)
  BY <1>5, <1>7 DEF Increases
<1>9. Range(c) = Range(p) \cup Range(q)
  BY <1>2, <1>3, RangeConcatenation
<1>10. QED
  BY <1>3, <1>4, <1>8, <1>9 DEF InOrder

\* The range of an empty sequence, and of no other, is empty.
LEMMA EmptyRange ==
  ASSUME NEW T, NEW q \in Seq(T)
  PROVE  /\ q = <<>> <=> Range(q) = {}
         /\ q # <<>> => Head(q) \in Range(q) /\ Head(q) = q[1]
<1>1. Len(q) \in Nat /\ DOMAIN q = 1..Len(q) /\ q \in [1..Len(q) -> T]
  BY LenProperties
<1>2. q # <<>> => Len(q) \in Nat \ {0}
  BY EmptySeq
<1>3. q # <<>> => 1 \in DOMAIN q
  BY <1>1, <1>2
<1>4. Range(<<>>) = {}
  BY DEF Range
<1>5. Head(q) = q[1]
  OBVIOUS
<1>6. q # <<>> => q[1] \in Range(q)
  BY <1>3 DEF Range
<1>7. QED
  BY <1>4, <1>5, <1>6

\* The first record of an increasing sequence is the oldest.
LEMMA HeadOldest ==
  ASSUME NEW q, InOrder(q), q # <<>>
  PROVE  /\ Head(q) \in Range(q) /\ Head(q) \in Int
         /\ \A t \in Range(q) : Head(q) <= t
<1>1. PICK n \in Nat : n = Len(q)
  BY ElementInt DEF InOrder
<1>2. /\ DOMAIN q = 1..n /\ Range(q) = {q[i] : i \in 1..n}
      /\ \A i \in 1..n : q[i] \in Int
  BY <1>1, ElementInt DEF InOrder
<1>3. Head(q) \in Range(q) /\ Head(q) = q[1] /\ q \in Seq(Int)
  BY EmptyRange DEF InOrder
<1>4. n # 0
  BY <1>2, <1>3
<1>5. ASSUME NEW i \in 1..n
      PROVE  q[1] <= q[i]
  <2>1. CASE i = 1
    BY <1>2, <2>1
  <2>2. CASE i > 1
    <3>1. 1 \in DOMAIN q /\ i \in DOMAIN q /\ 1 < i
      BY <1>2, <1>4, <2>2
    <3>2. q[1] < q[i]
      BY <3>1 DEF InOrder, Increases
    <3>3. QED
      BY <1>2, <1>4, <3>2
  <2>3. QED
    BY <2>1, <2>2
<1>6. QED
  BY <1>2, <1>3, <1>4, <1>5

\* A page of the newest (oldest) records is empty only if there are none, and
\* the newest leave out only older ones.
LEMMA PagesOK ==
  ASSUME NEW S, IsInts(S)
  PROVE  /\ Newest(S) \subseteq S /\ IsInts(Newest(S))
         /\ Oldest(S) \subseteq S /\ IsInts(Oldest(S))
         /\ Newest(S) = {} => S = {}
         /\ \A t \in S \ Newest(S) : \A u \in Newest(S) : t < u
<1>1. Newest(S) \in SUBSET S /\ Oldest(S) \in SUBSET S
  BY DEF Newest, Oldest
<1>2. IsInts(Newest(S)) /\ IsInts(Oldest(S))
  BY <1>1, FS_Subset DEF IsInts
<1>3. PageSize \in Nat /\ PageSize > 0
  BY HistoryAssumption
<1>4. ASSUME S # {}
      PROVE  Newest(S) # {}
  <2>1. PICK n \in Nat : n = Cardinality(S)
    BY FS_CardinalityType DEF IsInts
  <2>2. n # 0
    BY <1>4, <2>1, FS_EmptySet DEF IsInts
  <2>3. 1 \in 1..Cardinality(S)
    BY <2>1, <2>2
  <2>4. PICK t \in S : After(S, t) = 1 - 1
    BY <2>3, PlaceTaken
  <2>5. After(S, t) < PageSize
    BY <1>3, <2>4
  <2>6. QED
    BY <2>5 DEF Newest
<1>5. ASSUME NEW t \in S \ Newest(S), NEW u \in Newest(S)
      PROVE  t < u
  <2>1. t \in S /\ u \in S /\ t \in Int /\ u \in Int
    BY <1>1 DEF IsInts
  <2>2. ~(After(S, t) < PageSize) /\ After(S, u) < PageSize
    BY <1>5 DEF Newest
  <2>3. After(S, t) \in Int /\ After(S, u) \in Int
    BY <2>1, CountsOK
  <2>4. t # u
    BY <2>2
  <2>5. CASE u < t
    <3>1. After(S, t) < After(S, u)
      BY <2>1, <2>5, CountsOrder
    <3>2. QED
      BY <1>3, <2>2, <2>3, <3>1
  <2>6. QED
    BY <2>1, <2>4, <2>5
<1>6. QED
  BY <1>1, <1>2, <1>4, <1>5

\* A page of funding rates, newest first, has the rates of its set.
LEMMA DescendingOK ==
  ASSUME NEW S, IsInts(S)
  PROVE  Descending(S) \in Seq(S) /\ Range(Descending(S)) = S
<1>1. PICK a : a = Ascending(S)
  OBVIOUS
<1>2. a \in Seq(S) /\ Range(a) = S
  BY <1>1, AscendingOK
<1>3. PICK n \in Nat : n = Len(a)
  BY <1>2, LenProperties
<1>4. DOMAIN a = 1..n /\ a \in [1..n -> S]
  BY <1>2, <1>3, LenProperties
<1>5. PICK d : d = Descending(S)
  OBVIOUS
<1>6. d = [i \in 1..n |-> a[(n - i) + 1]]
  BY <1>1, <1>3, <1>5 DEF Descending, Reverse
<1>7. \A i \in 1..n : (n - i) + 1 \in 1..n
  OBVIOUS
<1>8. d \in [1..n -> S]
  BY <1>4, <1>6, <1>7
<1>9. d \in Seq(S)
  BY <1>8, SeqDef
<1>10. ASSUME NEW t \in S
       PROVE  t \in Range(d)
  <2>1. PICK i \in 1..n : a[i] = t
    BY <1>2, <1>4 DEF Range
  <2>2. (n - i) + 1 \in 1..n /\ (n - ((n - i) + 1)) + 1 = i
    OBVIOUS
  <2>3. d[(n - i) + 1] = t
    BY <1>6, <2>1, <2>2
  <2>4. QED
    BY <1>8, <2>2, <2>3 DEF Range
<1>11. Range(d) \subseteq S
  BY <1>8 DEF Range
<1>12. QED
  BY <1>5, <1>9, <1>10, <1>11

\* Sorting keeps the elements and puts them in order.
LEMMA SortedOK ==
  ASSUME NEW T, NEW q \in Seq(T), T \subseteq Int
  PROVE  /\ Sorted(q) \in Seq(T) /\ Range(Sorted(q)) = Range(q)
         /\ \A i, j \in DOMAIN Sorted(q) : i < j => Sorted(q)[i] <= Sorted(q)[j]
<1>1. PICK n \in Nat : n = Len(q)
  BY LenProperties
<1>2. DOMAIN q = 1..n /\ q \in [1..n -> T] /\ \A i \in 1..n : q[i] \in Int
  BY <1>1, LenProperties
<1>3. PICK D : D = 1..n
  OBVIOUS
<1>4. IsFiniteSet(D) /\ Cardinality(D) = n
  BY <1>3, FS_Interval
<1>5. PICK B : B = [i \in D |-> {j \in D : q[j] < q[i] \/ (q[j] = q[i] /\ j <= i)}]
  OBVIOUS
<1>6. \A i \in D : B[i] \in SUBSET D /\ i \in B[i] /\ IsFiniteSet(B[i])
  <2>1. ASSUME NEW i \in D
        PROVE  B[i] \in SUBSET D /\ i \in B[i]
    <3>1. i <= i
      BY <1>3
    <3>2. QED
      BY <1>5, <3>1
  <2>2. QED
    BY <1>4, <2>1, FS_Subset
<1>7. \A i \in D : Place(q, i) = Cardinality(B[i])
  BY <1>2, <1>3, <1>5 DEF Place
\* i is before j in the sorted sequence.
<1>8. ASSUME NEW i \in D, NEW j \in D, q[i] < q[j] \/ (q[i] = q[j] /\ i < j)
      PROVE  Place(q, i) < Place(q, j)
  <2>1. i \in Int /\ j \in Int /\ q[i] \in Int /\ q[j] \in Int
    BY <1>2, <1>3
  <2>2. ASSUME NEW k \in D, q[k] < q[i] \/ (q[k] = q[i] /\ k <= i)
        PROVE  q[k] < q[j] \/ (q[k] = q[j] /\ k <= j)
    <3>1. k \in Int /\ q[k] \in Int
      BY <1>2, <1>3
    <3>2. QED
      BY <1>8, <2>1, <2>2, <3>1
  <2>3. B[i] \in SUBSET B[j]
    BY <1>5, <2>2
  <2>4. ~(q[j] < q[i] \/ (q[j] = q[i] /\ j <= i))
    BY <1>8, <2>1
  <2>5. j \in B[j] /\ j \notin B[i]
    BY <1>5, <1>6, <2>4
  <2>6. Cardinality(B[i]) < Cardinality(B[j])
    BY <1>6, <2>3, <2>5, SmallerCount
  <2>7. QED
    BY <1>7, <2>6
<1>9. PICK r : r = [i \in D |-> Place(q, i)]
  OBVIOUS
<1>10. ASSUME NEW i \in D
       PROVE  Place(q, i) \in 1..n
  <2>1. IsFiniteSet(B[i]) /\ Cardinality(B[i]) \in Nat /\ Cardinality(B[i]) <= n
    BY <1>4, <1>6, FS_Subset, FS_CardinalityType
  <2>2. Cardinality(B[i]) # 0
    BY <1>6, <2>1, FS_EmptySet
  <2>3. QED
    BY <1>7, <2>1, <2>2
<1>11. r \in [D -> 1..n] /\ \A i \in D : r[i] = Place(q, i)
  BY <1>9, <1>10
<1>12. ASSUME NEW i \in D, NEW j \in D, Place(q, i) = Place(q, j)
       PROVE  i = j
  <2>1. i \in Int /\ j \in Int /\ q[i] \in Int /\ q[j] \in Int
    BY <1>2, <1>3
  <2>2. Place(q, i) \in Int
    BY <1>10
  <2>3. /\ ~(q[i] < q[j] \/ (q[i] = q[j] /\ i < j))
        /\ ~(q[j] < q[i] \/ (q[j] = q[i] /\ j < i))
    BY <1>8, <1>12, <2>2
  <2>4. QED
    BY <2>1, <2>3
<1>13. ASSUME NEW k \in 1..n
       PROVE  \E i \in D : Place(q, i) = k
  <2>1. \A i, j \in D : r[i] = r[j] => i = j
    BY <1>11, <1>12
  <2>2. \E i \in D : r[i] = k
    BY <1>4, <1>11, <2>1, AllPlaces
  <2>3. QED
    BY <1>11, <2>2
<1>14. PICK f : f = [k \in 1..n |-> CHOOSE i \in D : Place(q, i) = k]
  OBVIOUS
<1>15. \A k \in 1..n : f[k] \in D /\ Place(q, f[k]) = k
  BY <1>13, <1>14
<1>16. PICK z : z = Sorted(q)
  OBVIOUS
<1>17. z = [k \in 1..n |-> q[f[k]]]
  BY <1>2, <1>3, <1>14, <1>16 DEF Sorted
<1>18. z \in [1..n -> T] /\ DOMAIN z = 1..n /\ \A k \in 1..n : z[k] = q[f[k]]
  BY <1>2, <1>3, <1>15, <1>17
<1>19. z \in Seq(T)
  BY <1>18, SeqDef
<1>20. Range(z) \subseteq Range(q)
  BY <1>2, <1>3, <1>15, <1>18 DEF Range
<1>21. ASSUME NEW i \in D
       PROVE  q[i] \in Range(z)
  <2>1. PICK k \in 1..n : k = Place(q, i)
    BY <1>10
  <2>2. f[k] = i
    BY <1>12, <1>15, <2>1
  <2>3. z[k] = q[i]
    BY <1>18, <2>2
  <2>4. QED
    BY <1>18, <2>3 DEF Range
<1>22. Range(q) \subseteq Range(z)
  BY <1>2, <1>3, <1>21 DEF Range
<1>23. ASSUME NEW i \in 1..n, NEW j \in 1..n, i < j
       PROVE  z[i] <= z[j]
  <2>1. f[i] \in D /\ f[j] \in D /\ Place(q, f[i]) = i /\ Place(q, f[j]) = j
    BY <1>15
  <2>2. ~(q[f[j]] < q[f[i]])
    BY <1>8, <1>23, <2>1
  <2>3. q[f[i]] \in Int /\ q[f[j]] \in Int
    BY <1>2, <1>3, <2>1
  <2>4. QED
    BY <1>18, <2>2, <2>3
<1>24. QED
  BY <1>16, <1>18, <1>19, <1>20, <1>22, <1>23

-----------------------------------------------------------------------------
(* The steps of the venue and of the walks.                                 *)

\* Arithmetic of a state.
LEMMA StateInts ==
  ASSUME VenueOK, CallOK
  PROVE  /\ call.start \in Nat /\ call.end \in Nat /\ cur \in Nat
         /\ call.start <= Horizon /\ call.end <= Horizon
         /\ IsInts(venue) /\ IsInts(first) /\ venue \subseteq Times
         /\ \A from, to : IsInts(Between(from, to))
         /\ got \in Seq(Int) /\ Range(got) \subseteq Times
<1>1. call.start \in 0..Horizon /\ call.end \in 0..Horizon
  BY DEF CallOK
<1>2. venue \subseteq Times /\ first \subseteq Times
  BY DEF VenueOK
<1>3. \A from, to : Between(from, to) \subseteq Times
  BY <1>2 DEF Between
<1>4. IsInts(venue) /\ IsInts(first) /\ \A from, to : IsInts(Between(from, to))
  BY <1>2, <1>3, TimesInts
<1>5. got \in Seq(Times) /\ Times \subseteq Int /\ cur \in 0..Horizon
  BY TimesOK DEF CallOK
<1>6. got \in Seq(Int)
  BY <1>5, SeqMonotonic
<1>7. Range(got) \subseteq Times
  BY <1>5, RangeOfSeq
<1>8. QED
  BY <1>1, <1>2, <1>4, <1>5, <1>6, <1>7, HistoryAssumption

\* A page of candles: in order, from the range asked for.
LEMMA PageOK ==
  ASSUME VenueOK, CallOK, NEW P, P \subseteq venue
  PROVE  /\ InOrder(Ascending(P)) /\ Range(Ascending(P)) = P
         /\ Ascending(P) \in Seq(Times)
<1>1. P \subseteq Times
  BY DEF VenueOK
<1>2. IsInts(P)
  BY <1>1, TimesInts
<1>3. /\ Ascending(P) \in Seq(P) /\ Increases(Ascending(P))
      /\ Range(Ascending(P)) = P
  BY <1>2, AscendingOK
<1>4. Ascending(P) \in Seq(Int) /\ Ascending(P) \in Seq(Times)
  BY <1>1, <1>2, <1>3, SeqMonotonic DEF IsInts
<1>5. QED
  BY <1>3, <1>4 DEF InOrder

\* The basis of a walk is what Remembers keeps.
LEMMA BasisOK ==
  ASSUME VenueOK, NEW isFirst \in BOOLEAN, Remembers(isFirst), UNCHANGED venue
  PROVE  first' = Basis(isFirst) /\ first' \subseteq venue /\ VenueOK'
<1>1. first' = Basis(isFirst)
  BY DEF Basis, Remembers
<1>2. first' = venue \/ first' = first
  BY DEF Remembers
<1>3. first' \subseteq venue
  BY <1>2 DEF VenueOK
<1>4. \A t \in venue \ first' : \A u \in first' : u < t
  BY <1>2 DEF VenueOK
<1>5. QED
  BY <1>1, <1>3, <1>4 DEF VenueOK

\* What the records of the range are that a futures page can have: those of the
\* basis that are not newer than cur.
LEMMA FuturesRange ==
  ASSUME IInv, pc = "page", call.walk = "futures"
  PROVE  Between(call.start, cur)
           = {t \in Wanted(Basis(got = <<>>)) : t <= cur}
<1>1. /\ call.start \in Nat /\ call.end \in Nat /\ cur \in Nat
      /\ got \in Seq(Int) /\ \A t \in venue : t \in Int
  BY StateInts DEF IInv, IsInts
<1>2. /\ cur <= call.end /\ (got = <<>> => cur = call.end)
      /\ Range(got) = {t \in Wanted(Basis(got = <<>>)) : t > cur}
  BY DEF IInv, FuturesOK
<1>3. first \subseteq venue /\ \A t \in venue \ first : \A u \in first : u < t
  BY DEF IInv, VenueOK
<1>4. CASE got = <<>>
  <2>1. Basis(got = <<>>) = venue /\ cur = call.end
    BY <1>2, <1>4 DEF Basis
  <2>2. Between(call.start, cur) = Wanted(venue)
    BY <2>1 DEF Between, Wanted
  <2>3. \A t \in Wanted(venue) : t <= cur
    BY <2>1 DEF Wanted
  <2>4. QED
    BY <2>1, <2>2, <2>3
<1>5. CASE got # <<>>
  <2>1. Basis(got = <<>>) = first
    BY <1>5 DEF Basis
  <2>2. PICK h \in first : h > cur
    <3>1. Head(got) \in Range(got)
      BY <1>1, <1>5, EmptyRange
    <3>2. QED
      BY <1>2, <2>1, <3>1 DEF Wanted
  <2>3. ASSUME NEW t \in Between(call.start, cur)
        PROVE  t \in Wanted(first) /\ t <= cur
    <3>1. t \in venue /\ t \in Int /\ h \in Int /\ call.start <= t /\ t <= cur
      BY <1>1, <1>3, <2>2 DEF Between
    <3>2. ~(h < t) /\ t <= call.end
      BY <1>1, <1>2, <2>2, <3>1
    <3>3. t \in first
      BY <1>3, <2>2, <3>1, <3>2
    <3>4. QED
      BY <3>1, <3>2, <3>3 DEF Wanted
  <2>4. ASSUME NEW t \in Wanted(first), t <= cur
        PROVE  t \in Between(call.start, cur)
    BY <1>3, <2>4 DEF Wanted, Between
  <2>5. QED
    BY <2>1, <2>3, <2>4
<1>6. QED
  BY <1>4, <1>5

\* A futures page before what is there: all of the range from its oldest candle
\* on; and the whole range, if the page is empty or reaches its start.
LEMMA FuturesJoin ==
  ASSUME IInv, pc = "page", call.walk = "futures",
         NEW W, W = Wanted(Basis(got = <<>>)),
         NEW p, p = FuturesKlines(call.start, cur)
  PROVE  /\ InOrder(p \o got) /\ p \o got \in Seq(Times) /\ p \in Seq(Times)
         /\ W \subseteq Times
         /\ p # <<>> =>
              /\ Head(p) \in Nat /\ Head(p) <= cur
              /\ Range(p \o got) = {t \in W : t > FuturesNext(Head(p))}
         /\ p = <<>> \/ ~FuturesAsks(FuturesNext(Head(p))) =>
              Range(p \o got) = W
<1>1. PICK B : B = Between(call.start, cur)
  OBVIOUS
<1>2. PICK N : N = Newest(B)
  OBVIOUS
<1>3. /\ call.start \in Nat /\ cur \in Nat /\ IsInts(B)
      /\ got \in Seq(Int) /\ got \in Seq(Times) /\ \A t \in venue : t \in Times
  BY <1>1, StateInts DEF IInv, CallOK
<1>4. B = {t \in W : t <= cur} /\ B \subseteq venue
  BY <1>1, FuturesRange DEF Between
<1>5. /\ N \subseteq B /\ (N = {} => B = {})
      /\ \A t \in B \ N : \A u \in N : t < u
  BY <1>2, <1>3, PagesOK
<1>6. p = Ascending(N)
  BY <1>1, <1>2 DEF FuturesKlines
<1>7. InOrder(p) /\ Range(p) = N /\ p \in Seq(Times)
  <2>1. N \subseteq venue
    BY <1>4, <1>5
  <2>2. QED
    BY <1>6, <2>1, PageOK DEF IInv
<1>8. Increases(got) /\ Range(got) = {t \in W : t > cur}
  BY DEF IInv, FuturesOK
<1>9. W \subseteq Times
  <2>1. Basis(got = <<>>) \subseteq venue
    BY DEF Basis, IInv, VenueOK
  <2>2. QED
    BY <1>3, <2>1 DEF Wanted
<1>10. \A t \in W : t \in Nat /\ t \in Times /\ call.start <= t
  BY <1>9, TimesOK DEF Wanted
<1>11. \A t \in Range(p), u \in Range(got) : t < u
  <2>1. ASSUME NEW t \in N, NEW u \in Range(got)
        PROVE  t < u
    <3>1. t \in W /\ u \in W /\ t <= cur /\ u > cur
      BY <1>4, <1>5, <1>8
    <3>2. QED
      BY <1>3, <1>10, <3>1
  <2>2. QED
    BY <1>7, <2>1
<1>12. PICK c : c = p \o got
  OBVIOUS
<1>13. InOrder(c) /\ Range(c) = N \cup Range(got)
  BY <1>3, <1>7, <1>8, <1>11, <1>12, JoinOK DEF InOrder
<1>14. c \in Seq(Times)
  BY <1>3, <1>7, <1>12, ConcatProperties
<1>15. ASSUME p # <<>>
       PROVE  /\ Head(p) \in N /\ Head(p) \in Nat /\ Head(p) \in Times
              /\ Head(p) <= cur
              /\ Range(c) = {t \in W : t > FuturesNext(Head(p))}
  <2>1. PICK h : h = Head(p)
    OBVIOUS
  <2>2. h \in N /\ \A t \in N : h <= t
    BY <1>7, <1>15, <2>1, HeadOldest
  <2>3. h \in W /\ h <= cur
    BY <1>4, <1>5, <2>2
  <2>4. h \in Nat /\ h \in Times
    BY <1>10, <2>3
  <2>5. ASSUME NEW t \in W, t > h - 1
        PROVE  t \in N \cup Range(got)
    <3>1. t \in Nat /\ t >= h
      BY <1>10, <2>4, <2>5
    <3>2. CASE t > cur
      BY <1>8, <3>2
    <3>3. CASE t <= cur
      <4>1. t \in B
        BY <1>4, <3>3
      <4>2. ~(t < h)
        BY <2>4, <3>1
      <4>3. QED
        BY <1>5, <2>2, <4>1, <4>2
    <3>4. QED
      BY <1>3, <3>1, <3>2, <3>3
  <2>6. ASSUME NEW t \in N \cup Range(got)
        PROVE  t \in W /\ t > h - 1
    <3>1. t \in W
      BY <1>4, <1>5, <1>8
    <3>2. t \in Nat
      BY <1>10, <3>1
    <3>3. t >= h
      <4>1. CASE t \in N
        BY <2>2, <4>1
      <4>2. CASE t \in Range(got)
        BY <1>3, <1>8, <2>3, <2>4, <3>2, <4>2
      <4>3. QED
        BY <4>1, <4>2
    <3>4. QED
      BY <2>4, <3>1, <3>2, <3>3
  <2>7. Range(c) = {t \in W : t > h - 1}
    BY <1>13, <2>5, <2>6
  <2>8. QED
    BY <2>1, <2>2, <2>3, <2>4, <2>7 DEF FuturesNext
<1>16. ASSUME p = <<>>
       PROVE  Range(c) = W
  <2>1. N = {}
    BY <1>7, <1>16, EmptyRange
  <2>2. \A t \in W : ~(t <= cur)
    BY <1>4, <1>5, <2>1
  <2>3. \A t \in W : t > cur
    BY <1>3, <1>10, <2>2
  <2>4. QED
    BY <1>8, <1>13, <2>1, <2>3
<1>17. ASSUME p # <<>>, ~FuturesAsks(FuturesNext(Head(p)))
       PROVE  Range(c) = W
  <2>1. PICK h : h = Head(p)
    OBVIOUS
  <2>2. /\ h \in Nat /\ h \in Times
        /\ Range(c) = {t \in W : t > h - 1}
    BY <1>15, <1>17, <2>1 DEF FuturesNext
  <2>3. h - 1 <= call.start
    BY <1>3, <1>17, <2>1, <2>2 DEF FuturesAsks, FuturesNext
  <2>4. ASSUME NEW t \in W
        PROVE  t > h - 1
    <3>1. t \in Nat /\ t \in Times /\ call.start <= t
      BY <1>10
    <3>2. t # h - 1
      <4>1. CASE t = h - 1
        <5>1. t + 1 = h
          BY <2>2, <3>1, <4>1
        <5>2. QED
          BY <2>2, <3>1, <5>1, TimesOK
      <4>2. QED
        BY <4>1
    <3>3. QED
      BY <1>3, <2>2, <2>3, <3>1, <3>2
  <2>5. QED
    BY <2>2, <2>4
<1>18. QED
  BY <1>7, <1>9, <1>12, <1>13, <1>14, <1>15, <1>16, <1>17

\* What goes without its newest candle is still in order.
LEMMA FrontOK ==
  ASSUME NEW q, q \in Seq(Times), InOrder(q), q # <<>>
  PROVE  /\ Front(q) \in Seq(Times) /\ Increases(Front(q))
         /\ (Len(q) = 1 => Front(q) = <<>>)
<1>1. PICK n \in Nat : n = Len(q)
  BY LenProperties
<1>2. n > 0 /\ DOMAIN q = 1..n
  BY <1>1, EmptySeq, LenProperties
<1>3. PICK f : f = Front(q)
  OBVIOUS
<1>4. f = SubSeq(q, 1, n - 1)
  BY <1>1, <1>3 DEF Front
<1>5. \A i \in 1..(n - 1) : q[i] \in Times
  BY <1>1, <1>2, ElementOfSeq
<1>6. /\ f \in Seq(Times) /\ Len(f) = n - 1
      /\ \A i \in 1..(n - 1) : f[i] = q[i]
  <2>1. n - 1 \in Int /\ 1 \in Int /\ (1 <= n - 1 \/ n - 1 = 0)
    BY <1>2
  <2>2. /\ SubSeq(q, 1, n - 1) \in Seq(Times)
        /\ Len(SubSeq(q, 1, n - 1)) = IF 1 <= n - 1 THEN (n - 1) - 1 + 1 ELSE 0
        /\ \A i \in 1..((n - 1) - 1 + 1) : SubSeq(q, 1, n - 1)[i] = q[1 + i - 1]
    BY <1>5, <2>1, SubSeqProperties
  <2>3. QED
    BY <1>4, <2>1, <2>2
<1>7. DOMAIN f = 1..(n - 1)
  BY <1>6, LenProperties
<1>8. \A i, j \in 1..(n - 1) : i < j => q[i] < q[j]
  BY <1>2 DEF InOrder, Increases
<1>9. Increases(f)
  BY <1>6, <1>7, <1>8 DEF Increases
<1>10. n = 1 => f = <<>>
  BY <1>6, EmptySeq
<1>11. QED
  BY <1>1, <1>3, <1>6, <1>9, <1>10

\* A futures page keeps the invariant.
LEMMA FuturesStep ==
  ASSUME IInv, FuturesPage
  PROVE  IInv'
<1>1. PICK p : p = FuturesKlines(call.start, cur)
  OBVIOUS
<1>2. PICK c : c = p \o got
  OBVIOUS
<1>3. PICK W : W = Wanted(Basis(got = <<>>))
  OBVIOUS
<1>4. /\ pc = "page" /\ call.walk = "futures" /\ call.walk # "spot"
      /\ call.walk # "funding" /\ UNCHANGED <<venue, call>>
  BY DEF FuturesPage
<1>5. /\ InOrder(c) /\ c \in Seq(Times) /\ p \in Seq(Times)
      /\ p # <<>> => /\ Head(p) \in Nat /\ Head(p) <= cur
                     /\ Range(c) = {t \in W : t > FuturesNext(Head(p))}
      /\ p = <<>> \/ ~FuturesAsks(FuturesNext(Head(p))) => Range(c) = W
  BY <1>1, <1>2, <1>3, <1>4, FuturesJoin
<1>6. VenueOK' /\ first' = Basis(got = <<>>)
  BY <1>4, BasisOK DEF FuturesPage, IInv
<1>7. Wanted(first)' = W
  BY <1>3, <1>4, <1>6 DEF Wanted
<1>8. /\ call.start \in Nat /\ call.end \in Nat /\ cur \in Nat
      /\ cur <= Horizon /\ cur <= call.end /\ got \in Seq(Times)
      /\ call \in [walk : Walks, start : 0..Horizon, end : 0..Horizon]
  BY <1>4, StateInts DEF IInv, CallOK, FuturesOK
<1>9. CASE p # <<>> /\ FuturesAsks(FuturesNext(Head(p)))
  <2>1. got' = c /\ cur' = FuturesNext(Head(p)) /\ pc' = "page"
    BY <1>1, <1>2, <1>4, <1>9 DEF FuturesPage
  <2>2. cur' \in Nat /\ cur' < cur /\ call.start < cur'
    BY <1>5, <1>8, <1>9, <2>1 DEF FuturesNext, FuturesAsks
  <2>3. CallOK'
    BY <1>4, <1>5, <1>8, <2>1, <2>2, HistoryAssumption DEF CallOK
  <2>4. got' # <<>>
    BY <1>2, <1>5, <1>8, <1>9, <2>1, ConcatEqualIffEmpty
  <2>5. Range(got') = {t \in W : t > cur'}
    BY <1>5, <1>9, <2>1
  <2>6. Wanted(Basis(got = <<>>))' = W
    BY <1>7, <2>4 DEF Basis, Wanted
  <2>7. FuturesOK'
    BY <1>4, <1>5, <1>8, <2>1, <2>2, <2>4, <2>5, <2>6 DEF FuturesOK, InOrder
  <2>8. QED
    BY <1>4, <1>6, <2>3, <2>7 DEF IInv, SpotOK, FundingOK
<1>10. CASE ~(p # <<>> /\ FuturesAsks(FuturesNext(Head(p))))
  <2>1. /\ got' = IF c = <<>> THEN c ELSE Front(c)
        /\ pc' = "done" /\ cur' = cur
    BY <1>1, <1>2, <1>4, <1>10 DEF FuturesPage
  <2>2. c = Ascending(W)
    BY <1>5, <1>10, OneAscending
  <2>3. FuturesExact'
    BY <1>7, <2>1, <2>2 DEF FuturesExact
  <2>4. got' \in Seq(Times) /\ Increases(got')
    BY <1>5, <2>1, FrontOK DEF InOrder
  <2>5. CallOK'
    BY <1>4, <1>8, <2>1, <2>4, HistoryAssumption DEF CallOK
  <2>6. FuturesOK'
    BY <2>1, <2>3, <2>4 DEF FuturesOK
  <2>7. QED
    BY <1>4, <1>6, <2>5, <2>6 DEF IInv, SpotOK, FundingOK
<1>11. QED
  BY <1>9, <1>10

\* A spot page keeps the invariant: it ends at cur, before what is there.
LEMMA SpotStep ==
  ASSUME IInv, SpotPage
  PROVE  IInv'
<1>1. PICK from : from = IF got = <<>> THEN SpotFirst(cur) ELSE SpotBatchStart(cur)
  OBVIOUS
<1>2. PICK p : p = SpotKlines(from, cur)
  OBVIOUS
<1>3. PICK c : c = p \o got
  OBVIOUS
<1>4. /\ pc = "page" /\ call.walk = "spot" /\ call.walk # "futures"
      /\ call.walk # "funding" /\ UNCHANGED <<venue, call>> /\ got' = c
  BY <1>1, <1>2, <1>3 DEF SpotPage
<1>5. /\ call.start \in Nat /\ call.end \in Nat /\ cur \in Nat /\ cur <= Horizon
      /\ call \in [walk : Walks, start : 0..Horizon, end : 0..Horizon]
      /\ got \in Seq(Times) /\ got \in Seq(Int) /\ cur \in 0..Horizon
  BY StateInts DEF IInv, CallOK
<1>6. /\ Increases(got) /\ cur <= call.end
      /\ \A i \in DOMAIN got : got[i] <= call.end
      /\ \A i \in DOMAIN got : cur < got[i]
  BY <1>4 DEF IInv, SpotOK
<1>7. PICK P : /\ p = Ascending(P) /\ P \subseteq venue
               /\ \A t \in P : t <= cur
  <2>1. \A a, b : IsInts(Between(a, b))
    BY StateInts DEF IInv
  <2>2. PICK B \in {Between(from, cur), Between(0, cur)} :
          p = Ascending(Newest(B)) \/ p = Ascending(Oldest(B))
    BY <1>2 DEF SpotKlines
  <2>3. IsInts(B) /\ B \subseteq venue /\ \A t \in B : t <= cur
    <3>1. IsInts(Between(from, cur)) /\ IsInts(Between(0, cur))
      BY <2>1
    <3>2. \A b : Between(b, cur) \subseteq venue /\ \A t \in Between(b, cur) : t <= cur
      BY DEF Between
    <3>3. QED
      BY <2>2, <3>1, <3>2
  <2>4. Newest(B) \subseteq B /\ Oldest(B) \subseteq B
    BY <2>3, PagesOK
  <2>5. CASE p = Ascending(Newest(B))
    BY <2>3, <2>4, <2>5
  <2>6. CASE p = Ascending(Oldest(B))
    BY <2>3, <2>4, <2>6
  <2>7. QED
    BY <2>2, <2>5, <2>6
<1>8. InOrder(p) /\ Range(p) = P /\ p \in Seq(Times)
  BY <1>7, PageOK DEF IInv
<1>9. InOrder(got) /\ \A u \in Range(got) : cur < u /\ u <= call.end
  BY <1>5, <1>6 DEF InOrder, Range
<1>10. \A t \in P : t \in Int
  BY StateInts, <1>7 DEF IInv, IsInts
<1>11. \A t \in Range(p), u \in Range(got) : t < u
  <2>1. Range(got) \subseteq Int
    BY <1>5, ElementInt
  <2>2. QED
    BY <1>5, <1>7, <1>8, <1>9, <1>10, <2>1
<1>12. InOrder(c) /\ Range(c) = P \cup Range(got)
  BY <1>3, <1>8, <1>9, <1>11, JoinOK
<1>13. \A u \in Range(c) : u <= call.end
  BY <1>5, <1>6, <1>7, <1>9, <1>10, <1>12
<1>14. Increases(c) /\ \A i \in DOMAIN c : c[i] \in Range(c)
  BY <1>12 DEF InOrder, Range
<1>15. c \in Seq(Times)
  BY <1>3, <1>5, <1>8, ConcatProperties
<1>16. VenueOK'
  BY <1>4, BasisOK DEF SpotPage, IInv
<1>17. CASE p # <<>> /\ SpotAsks(SpotNext(Head(p)))
  <2>1. cur' = SpotNext(Head(p)) /\ pc' = "page"
    BY <1>1, <1>2, <1>4, <1>17 DEF SpotPage
  <2>2. PICK h : h = Head(p)
    OBVIOUS
  <2>3. h \in P /\ \A t \in P : h <= t
    BY <1>8, <1>17, <2>2, HeadOldest
  <2>4. h \in Int /\ h <= cur /\ Interval \in Nat /\ Interval > 0
    BY <1>7, <1>10, <2>3, HistoryAssumption
  <2>5. cur' = h - Interval /\ call.start <= h - Interval
    BY <1>17, <2>1, <2>2 DEF SpotNext, SpotAsks
  <2>6. cur' \in Nat /\ cur' < h /\ cur' < cur
    BY <1>5, <2>4, <2>5
  <2>7. \A u \in Range(c) : cur' < u
    <3>1. \A t \in P : cur' < t
      BY <1>10, <2>3, <2>4, <2>6
    <3>2. \A u \in Range(got) : cur' < u
      <4>1. Range(got) \subseteq Int
        BY <1>5, ElementInt
      <4>2. QED
        BY <1>5, <1>9, <2>6, <4>1
    <3>3. QED
      BY <1>12, <3>1, <3>2
  <2>8. CallOK'
    BY <1>4, <1>5, <1>15, <2>1, <2>6, HistoryAssumption DEF CallOK
  <2>9. cur' <= call.end
    BY <1>5, <1>6, <2>6
  <2>10. SpotOK'
    BY <1>4, <1>13, <1>14, <2>1, <2>7, <2>9 DEF SpotOK
  <2>11. QED
    BY <1>4, <1>16, <2>8, <2>10 DEF IInv, FuturesOK, FundingOK
<1>18. CASE ~(p # <<>> /\ SpotAsks(SpotNext(Head(p))))
  <2>1. cur' = cur /\ pc' = "done"
    BY <1>1, <1>2, <1>4, <1>18 DEF SpotPage
  <2>2. CallOK'
    BY <1>4, <1>5, <1>15, <2>1 DEF CallOK
  <2>3. SpotOK'
    BY <1>4, <1>13, <1>14, <2>1 DEF SpotOK
  <2>4. QED
    BY <1>4, <1>16, <2>2, <2>3 DEF IInv, FuturesOK, FundingOK
<1>19. QED
  BY <1>17, <1>18

\* The pages of that many records: enough for all, and no more than records.
LEMMA PagesEnough ==
  ASSUME NEW a \in Nat
  PROVE  LET q == (a + PageSize - 1) \div PageSize IN
         q \in Int /\ a <= q * PageSize /\ q <= a
<1>1. PageSize \in Nat /\ PageSize >= 1
  BY HistoryAssumption
<1>2. PICK b : b = a + PageSize - 1
  OBVIOUS
<1>3. b \in Nat
  BY <1>1, <1>2
<1>4. PICK q : q = b \div PageSize
  OBVIOUS
<1>5. q \in Int /\ q * PageSize <= b /\ b < q * PageSize + PageSize
  BY <1>1, <1>3, <1>4
<1>6. a <= q * PageSize
  BY <1>1, <1>2, <1>5
<1>7. q <= a
  <2>1. CASE q >= a + 1
    <3>1. PICK d \in Nat : q = a + 1 + d
      BY <1>5, <2>1
    <3>2. q * PageSize = (a * PageSize) + PageSize + (d * PageSize)
      BY <1>1, <3>1
    <3>3. a * PageSize >= a /\ d * PageSize >= 0
      BY <1>1
    <3>4. a * PageSize \in Int /\ d * PageSize \in Int
      BY <1>1
    <3>5. QED
      BY <1>1, <1>2, <1>5, <3>2, <3>3, <3>4
  <2>2. QED
    BY <1>5, <2>1
<1>8. QED
  BY <1>2, <1>4, <1>5, <1>6, <1>7

\* After a page, no rate of the range is missing from the pages so far; and if
\* the walk stops there, none at all.
LEMMA FundingJoin ==
  ASSUME IInv, pc = "page", call.walk = "funding",
         NEW W, W = Wanted(Basis(cur = 1)),
         NEW page, page = FundingPage(cur),
         NEW c, c = got \o Descending(Wanted(page))
  PROVE  /\ c \in Seq(Times) /\ Range(c) \subseteq Wanted(venue)
         /\ \A t \in W : After(venue, t) < cur * PageSize => t \in Range(c)
         /\ FundingStops(page) => W \subseteq Range(c)
         /\ ~FundingStops(page) => cur + 1 \in 2..Cardinality(venue)
<1>1. /\ IsInts(venue) /\ venue \subseteq Times /\ cur \in Nat
      /\ call.start \in Nat /\ got \in Seq(Times)
  BY StateInts DEF IInv, CallOK
<1>2. /\ cur = 1 \/ cur \in 2..Cardinality(venue)
      /\ Range(got) \subseteq Wanted(venue)
      /\ \A t \in W : After(venue, t) < (cur - 1) * PageSize => t \in Range(got)
  BY DEF IInv, FundingOK
<1>3. PICK n \in Nat : n = Cardinality(venue)
  BY <1>1, FS_CardinalityType DEF IsInts
<1>4. cur >= 1 /\ PageSize \in Nat /\ PageSize >= 1
  BY <1>1, <1>2, <1>3, HistoryAssumption
<1>5. W \subseteq venue /\ W \subseteq Wanted(venue)
  BY DEF Basis, Wanted, IInv, VenueOK
<1>6. \A t \in venue : /\ t \in Int /\ After(venue, t) \in Nat
                       /\ After(venue, t) < n
  <2>1. ASSUME NEW t \in venue
        PROVE  After(venue, t) \in 0..(n - 1)
    BY <1>1, <1>3, CountsOK
  <2>2. QED
    BY <1>1, <1>3, <2>1 DEF IsInts
<1>7. page \subseteq venue /\ Wanted(page) \subseteq venue
  BY DEF FundingPage, Wanted
<1>8. IsInts(Wanted(page))
  BY <1>1, <1>7, TimesInts
<1>9. /\ Descending(Wanted(page)) \in Seq(Wanted(page))
      /\ Range(Descending(Wanted(page))) = Wanted(page)
  BY <1>8, DescendingOK
<1>10. Descending(Wanted(page)) \in Seq(Times)
  <2>1. Wanted(page) \subseteq Times
    BY <1>1, <1>7
  <2>2. QED
    BY <1>9, <2>1, SeqMonotonic
<1>11. c \in Seq(Times) /\ Range(c) = Range(got) \cup Wanted(page)
  BY <1>1, <1>9, <1>10, ConcatProperties, RangeConcatenation
<1>12. Wanted(page) \subseteq Wanted(venue)
  BY <1>7 DEF Wanted
<1>13. ASSUME NEW t \in W, After(venue, t) < cur * PageSize
       PROVE  t \in Range(c)
  <2>1. t \in venue /\ After(venue, t) \in Nat
    BY <1>5, <1>6
  <2>2. CASE After(venue, t) < (cur - 1) * PageSize
    BY <1>2, <1>11, <2>2
  <2>3. CASE ~(After(venue, t) < (cur - 1) * PageSize)
    <3>1. (cur - 1) * PageSize \in Int
      BY <1>1, <1>4
    <3>2. (cur - 1) * PageSize <= After(venue, t)
      BY <2>1, <2>3, <3>1
    <3>3. t \in page
      BY <1>13, <2>1, <3>2 DEF FundingPage
    <3>4. t \in Wanted(page)
      BY <1>5, <3>3 DEF Wanted
    <3>5. QED
      BY <1>11, <3>4
  <2>4. QED
    BY <2>2, <2>3
<1>14. PICK q \in Int : q = TotalPage /\ n <= q * PageSize /\ q <= n
  BY <1>3, PagesEnough DEF TotalPage
<1>15. PICK m \in Int : m = cur * PageSize
  BY <1>1, <1>4
<1>16. CASE cur >= q
  <2>1. n <= m
    <3>1. q * PageSize <= cur * PageSize
      BY <1>1, <1>4, <1>16
    <3>2. q * PageSize \in Int
      BY <1>4
    <3>3. QED
      BY <1>14, <1>15, <3>1, <3>2
  <2>2. \A t \in W : After(venue, t) < cur * PageSize
    BY <1>5, <1>6, <1>15, <2>1
  <2>3. QED
    BY <1>11, <1>12, <1>13, <1>2, <1>14, <1>16, <2>2 DEF FundingStops
<1>17. CASE page = {}
  <2>1. PICK k \in Int : k = (cur - 1) * PageSize
    BY <1>1, <1>4
  <2>2. k >= 0 /\ m = k + PageSize
    BY <1>1, <1>4, <1>15, <2>1
  <2>3. ~(k < n)
    <3>1. CASE k < n
      <4>1. k + 1 \in 1..Cardinality(venue)
        BY <1>3, <2>1, <2>2, <3>1
      <4>2. PICK t \in venue : After(venue, t) = k + 1 - 1
        BY <1>1, <4>1, PlaceTaken
      <4>3. (cur - 1) * PageSize <= After(venue, t)
        BY <2>1, <4>2
      <4>4. After(venue, t) < cur * PageSize
        BY <1>4, <1>15, <2>1, <2>2, <4>2
      <4>5. QED
        BY <1>17, <4>3, <4>4 DEF FundingPage
    <3>2. QED
      BY <3>1
  <2>4. \A t \in W : After(venue, t) < (cur - 1) * PageSize
    BY <1>5, <1>6, <2>1, <2>3
  <2>5. W \subseteq Range(c)
    BY <1>2, <1>11, <2>4
  <2>6. QED
    BY <1>2, <1>11, <1>12, <1>13, <1>17, <2>5 DEF FundingStops
<1>18. CASE \E t \in page : t < call.start
  <2>1. PICK x \in page : x < call.start
    BY <1>18
  <2>2. x \in venue /\ x \in Int /\ After(venue, x) \in Nat /\ After(venue, x) < m
    BY <1>6, <1>7, <1>15, <2>1 DEF FundingPage
  <2>3. ASSUME NEW t \in W
        PROVE  After(venue, t) < cur * PageSize
    <3>1. t \in venue /\ t \in Int /\ After(venue, t) \in Nat /\ call.start <= t
      BY <1>5, <1>6 DEF Wanted
    <3>2. x < t
      BY <1>1, <2>1, <2>2, <3>1
    <3>3. After(venue, t) < After(venue, x)
      BY <1>1, <2>2, <3>1, <3>2, CountsOrder
    <3>4. QED
      BY <1>15, <2>2, <3>1, <3>3
  <2>4. QED
    BY <1>2, <1>11, <1>12, <1>13, <1>18, <2>3 DEF FundingStops
<1>19. CASE ~FundingStops(page)
  <2>1. cur < q
    BY <1>1, <1>14, <1>19 DEF FundingStops
  <2>2. cur + 1 \in 2..n
    BY <1>1, <1>3, <1>4, <1>14, <2>1
  <2>3. QED
    BY <1>2, <1>3, <1>11, <1>12, <1>13, <1>19, <2>2
<1>20. QED
  BY <1>14, <1>16, <1>17, <1>18, <1>19 DEF FundingStops

\* A page of funding rates keeps the invariant.
LEMMA FundingStep ==
  ASSUME IInv, FundingPages
  PROVE  IInv'
<1>1. PICK page : page = FundingPage(cur)
  OBVIOUS
<1>2. PICK c : c = got \o Descending(Wanted(page))
  OBVIOUS
<1>3. PICK W : W = Wanted(Basis(cur = 1))
  OBVIOUS
<1>4. /\ pc = "page" /\ call.walk = "funding" /\ call.walk # "futures"
      /\ call.walk # "spot" /\ UNCHANGED <<venue, call>>
  BY DEF FundingPages
<1>5. /\ c \in Seq(Times) /\ Range(c) \subseteq Wanted(venue)
      /\ \A t \in W : After(venue, t) < cur * PageSize => t \in Range(c)
      /\ FundingStops(page) => W \subseteq Range(c)
      /\ ~FundingStops(page) => cur + 1 \in 2..Cardinality(venue)
  BY <1>1, <1>2, <1>3, <1>4, FundingJoin
<1>6. VenueOK' /\ first' = Basis(cur = 1)
  BY <1>4, BasisOK DEF FundingPages, IInv
<1>7. Wanted(first)' = W /\ Wanted(venue)' = Wanted(venue)
  BY <1>3, <1>4, <1>6 DEF Wanted
<1>8. /\ cur \in Nat /\ cur \in 0..Horizon
      /\ call \in [walk : Walks, start : 0..Horizon, end : 0..Horizon]
  BY StateInts DEF IInv, CallOK
<1>9. CASE FundingStops(page)
  <2>1. got' = Sorted(c) /\ pc' = "done" /\ cur' = cur
    BY <1>1, <1>2, <1>4, <1>9 DEF FundingPages
  <2>2. /\ got' \in Seq(Times) /\ Range(got') = Range(c)
        /\ \A i, j \in DOMAIN got' : i < j => got'[i] <= got'[j]
    <3>1. Times \subseteq Int
      BY TimesOK
    <3>2. QED
      BY <1>5, <2>1, <3>1, SortedOK
  <2>3. FundingComplete'
    BY <1>5, <1>7, <1>9, <2>2 DEF FundingComplete
  <2>4. CallOK'
    BY <1>4, <1>8, <2>1, <2>2 DEF CallOK
  <2>5. FundingOK'
    BY <2>1, <2>3 DEF FundingOK
  <2>6. QED
    BY <1>4, <1>6, <2>4, <2>5 DEF IInv, FuturesOK, SpotOK
<1>10. CASE ~FundingStops(page)
  <2>1. got' = c /\ cur' = cur + 1 /\ pc' = "page"
    BY <1>1, <1>2, <1>4, <1>10 DEF FundingPages
  <2>2. cur' \in 2..Cardinality(venue) /\ cur' # 1 /\ cur' - 1 = cur
    BY <1>5, <1>8, <1>10, <2>1
  <2>3. Cardinality(venue) \in Nat /\ Cardinality(venue) <= Horizon
    <3>1. venue \in SUBSET Times
      BY DEF IInv, VenueOK
    <3>2. IsFiniteSet(venue) /\ Cardinality(venue) <= Cardinality(Times)
      BY <3>1, TimesOK, FS_Subset
    <3>3. Cardinality(venue) \in Nat /\ Cardinality(Times) \in Nat
      BY <3>2, TimesOK, FS_CardinalityType
    <3>4. QED
      BY <3>2, <3>3, TimesOK, HistoryAssumption
  <2>4. cur' \in 0..Horizon
    BY <2>2, <2>3, HistoryAssumption
  <2>5. CallOK'
    BY <1>4, <1>5, <1>8, <2>1, <2>4 DEF CallOK
  <2>6. Wanted(Basis(cur = 1))' = W
    BY <1>7, <2>2 DEF Basis, Wanted
  <2>7. \A t \in W : After(venue', t) < (cur' - 1) * PageSize => t \in Range(got')
    BY <1>4, <1>5, <2>1, <2>2
  <2>8. FundingOK'
    BY <1>4, <1>5, <1>7, <2>1, <2>2, <2>6, <2>7 DEF FundingOK
  <2>9. QED
    BY <1>4, <1>6, <2>5, <2>8 DEF IInv, FuturesOK, SpotOK
<1>11. QED
  BY <1>9, <1>10

\* A download begins; if its range is empty, it is over and its result is too.
LEMMA CallStep ==
  ASSUME IInv, Call
  PROVE  IInv'
<1>1. /\ pc = "call" /\ got = <<>> /\ got' = <<>> /\ first' = venue
      /\ UNCHANGED <<venue, call>>
      /\ cur' = IF call.walk = "funding" THEN 1 ELSE call.end
      /\ pc' = IF \/ call.walk = "futures" /\ ~FuturesAsks(call.end)
                  \/ call.walk = "spot" /\ ~SpotAsks(call.end)
               THEN "done" ELSE "page"
  BY DEF Call, IInv, CallOK
<1>2. /\ call.start \in Nat /\ call.end \in Nat /\ call.end \in 0..Horizon
      /\ call \in [walk : Walks, start : 0..Horizon, end : 0..Horizon]
      /\ 1 \in 0..Horizon /\ IsInts(venue) /\ \A t \in venue : t \in Int
  BY StateInts, HistoryAssumption DEF IInv, CallOK, IsInts
<1>3. VenueOK'
  BY <1>1 DEF IInv, VenueOK
<1>4. got' \in Seq(Times) /\ Increases(got') /\ Range(got') = {}
      /\ DOMAIN got' = {}
  <2>1. got' \in Seq(Times) /\ Range(got') = {}
    BY <1>1, EmptySeq, EmptyRange
  <2>2. DOMAIN got' = {}
    BY <1>1
  <2>3. QED
    BY <2>1, <2>2 DEF Increases
<1>5. CallOK'
  BY <1>1, <1>2, <1>4 DEF CallOK
<1>6. FuturesOK'
  <2>1. SUFFICES ASSUME call.walk = "futures"
                 PROVE  FuturesOK'
    BY <1>1 DEF FuturesOK
  <2>2. CASE FuturesAsks(call.end)
    <3>1. pc' = "page" /\ cur' = call.end
      BY <1>1, <2>1, <2>2
    <3>2. Basis(got = <<>>)' = venue
      BY <1>1 DEF Basis
    <3>3. {t \in Wanted(Basis(got = <<>>))' : t > cur'} = {}
      <4>1. Wanted(Basis(got = <<>>))' = Wanted(venue)
        BY <1>1, <3>2 DEF Wanted
      <4>2. \A t \in Wanted(venue) : ~(t > call.end)
        BY <1>2 DEF Wanted
      <4>3. QED
        BY <3>1, <4>1, <4>2
    <3>4. call'.start < cur' /\ cur' <= call'.end /\ cur' = call'.end
      BY <1>1, <1>2, <2>2, <3>1 DEF FuturesAsks
    <3>5. Range(got') = {t \in Wanted(Basis(got = <<>>))' : t > cur'}
      BY <1>4, <3>3
    <3>6. QED
      BY <1>4, <3>1, <3>4, <3>5 DEF FuturesOK
  <2>3. CASE ~FuturesAsks(call.end)
    <3>1. pc' = "done"
      BY <1>1, <2>1, <2>3
    <3>2. PICK W : W = Wanted(first)'
      OBVIOUS
    <3>3. W \subseteq {call.start} /\ W \subseteq venue
      <4>1. W = Wanted(venue)
        BY <1>1, <3>2 DEF Wanted
      <4>2. ~(call.start < call.end)
        BY <2>3 DEF FuturesAsks
      <4>3. QED
        BY <1>2, <4>1, <4>2 DEF Wanted
    <3>4. PICK a : a = Ascending(W)
      OBVIOUS
    <3>5. InOrder(a) /\ Range(a) = W /\ a \in Seq(Times)
      BY <3>3, <3>4, PageOK DEF IInv
    <3>6. Len(a) = Cardinality(W) /\ Len(a) \in Nat
      BY <3>5, IncreasingCounts, ElementInt DEF InOrder
    <3>7. Cardinality(W) <= 1
      <4>1. IsFiniteSet({call.start}) /\ Cardinality({call.start}) = 1
        BY FS_Singleton
      <4>2. W \in SUBSET {call.start}
        BY <3>3
      <4>3. QED
        BY <4>1, <4>2, FS_Subset
    <3>8. got' = IF a = <<>> THEN a ELSE Front(a)
      <4>1. CASE a = <<>>
        BY <1>1, <4>1
      <4>2. CASE a # <<>>
        <5>1. Len(a) = 1
          BY <3>5, <3>6, <3>7, <4>2, EmptySeq
        <5>2. QED
          BY <1>1, <3>5, <4>2, <5>1, FrontOK
      <4>3. QED
        BY <4>1, <4>2
    <3>9. FuturesExact'
      BY <3>2, <3>4, <3>8 DEF FuturesExact
    <3>10. QED
      BY <1>4, <3>1, <3>9 DEF FuturesOK
  <2>4. QED
    BY <2>2, <2>3
<1>7. SpotOK'
  <2>1. pc' = "page" /\ call.walk = "spot" => cur' <= call.end
    BY <1>1, <1>2
  <2>2. QED
    BY <1>1, <1>4, <2>1 DEF SpotOK
<1>8. FundingOK'
  <2>1. SUFFICES ASSUME call.walk = "funding"
                 PROVE  FundingOK'
    BY <1>1 DEF FundingOK
  <2>2. pc' = "page" /\ cur' = 1
    BY <1>1, <2>1
  <2>3. ASSUME NEW t \in Wanted(Basis(cur = 1))'
        PROVE  ~(After(venue', t) < (cur' - 1) * PageSize)
    <3>1. t \in venue
      BY <1>1, <2>2, <2>3 DEF Wanted, Basis
    <3>2. After(venue, t) \in Nat
      BY <1>2, <3>1, CountsOK
    <3>3. (cur' - 1) * PageSize = 0
      BY <2>2, HistoryAssumption
    <3>4. QED
      BY <1>1, <3>2, <3>3
  <2>4. Range(got') \subseteq Wanted(venue)'
    BY <1>4
  <2>5. QED
    BY <2>2, <2>3, <2>4 DEF FundingOK
<1>9. QED
  BY <1>3, <1>5, <1>6, <1>7, <1>8 DEF IInv

\* The venue adds a record: newer than all a walk has asked for or will ask for.
LEMMA OpensStep ==
  ASSUME IInv, Opens
  PROVE  IInv'
<1>1. pc = "page" /\ UNCHANGED <<call, pc, cur, got, first>>
  BY DEF Opens
<1>2. PICK r \in Times : venue' = venue \cup {r} /\ \A u \in venue : u < r
  BY DEF Opens
<1>3. /\ IsInts(venue) /\ venue \subseteq Times /\ first \subseteq venue
      /\ \A t \in venue \ first : \A u \in first : u < t
      /\ cur \in Nat /\ call.end \in Nat /\ got \in Seq(Int)
  BY StateInts DEF IInv, VenueOK
<1>4. venue' \subseteq Times /\ venue \subseteq venue'
  BY <1>2, <1>3
<1>5. IsInts(venue')
  BY <1>4, TimesInts
<1>6. VenueOK'
  BY <1>1, <1>2, <1>3, <1>4 DEF VenueOK
<1>7. CallOK'
  BY <1>1 DEF IInv, CallOK
<1>8. FuturesOK'
  <2>1. SUFFICES ASSUME call.walk = "futures"
                 PROVE  FuturesOK'
    BY <1>1 DEF FuturesOK
  <2>2. /\ Increases(got) /\ call.start < cur /\ cur <= call.end
        /\ (got = <<>> => cur = call.end)
        /\ Range(got) = {t \in Wanted(Basis(got = <<>>)) : t > cur}
    BY <1>1, <2>1 DEF IInv, FuturesOK
  <2>3. Range(got) = {t \in Wanted(Basis(got = <<>>))' : t > cur}
    <3>1. CASE got # <<>>
      <4>1. Wanted(Basis(got = <<>>))' = Wanted(Basis(got = <<>>))
        BY <1>1, <3>1 DEF Wanted, Basis
      <4>2. QED
        BY <2>2, <4>1
    <3>2. CASE got = <<>>
      <4>1. Range(got) = {}
        BY <1>3, <3>2, EmptyRange
      <4>2. \A t \in Wanted(Basis(got = <<>>))' : t \in venue' /\ t <= call.end
        BY <1>1, <3>2 DEF Wanted, Basis
      <4>3. \A t \in Wanted(Basis(got = <<>>))' : ~(t > cur)
        <5>1. cur = call.end /\ \A t \in venue' : t \in Int
          BY <1>5, <2>2, <3>2 DEF IsInts
        <5>2. QED
          BY <1>3, <4>2, <5>1
      <4>4. QED
        BY <4>1, <4>3
    <3>3. QED
      BY <3>1, <3>2
  <2>4. QED
    BY <1>1, <2>2, <2>3 DEF FuturesOK
<1>9. SpotOK'
  BY <1>1 DEF IInv, SpotOK
<1>10. FundingOK'
  <2>1. SUFFICES ASSUME call.walk = "funding"
                 PROVE  FundingOK'
    BY <1>1 DEF FundingOK
  <2>2. /\ cur = 1 \/ cur \in 2..Cardinality(venue)
        /\ Range(got) \subseteq Wanted(venue)
        /\ \A t \in Wanted(Basis(cur = 1)) :
             After(venue, t) < (cur - 1) * PageSize => t \in Range(got)
    BY <1>1, <2>1 DEF IInv, FundingOK
  <2>3. cur = 1 \/ cur \in 2..Cardinality(venue')
    <3>1. IsFiniteSet(venue') /\ venue \in SUBSET venue' /\ IsFiniteSet(venue)
      BY <1>3, <1>4, <1>5 DEF IsInts
    <3>2. /\ Cardinality(venue) <= Cardinality(venue')
          /\ Cardinality(venue) \in Nat /\ Cardinality(venue') \in Nat
      BY <3>1, FS_Subset, FS_CardinalityType
    <3>3. QED
      BY <2>2, <3>2
  <2>4. Range(got) \subseteq Wanted(venue)'
    BY <1>1, <1>4, <2>2 DEF Wanted
  <2>5. ASSUME NEW t \in Wanted(Basis(cur = 1))',
               After(venue', t) < (cur - 1) * PageSize
        PROVE  t \in Range(got)
    <3>1. CASE cur = 1
      <4>1. t \in venue'
        BY <1>1, <2>5, <3>1 DEF Wanted, Basis
      <4>2. After(venue', t) \in Nat
        BY <1>5, <4>1, CountsOK
      <4>3. (cur - 1) * PageSize = 0
        BY <3>1, HistoryAssumption
      <4>4. QED
        BY <2>5, <4>2, <4>3
    <3>2. CASE cur # 1
      <4>1. t \in Wanted(Basis(cur = 1)) /\ t \in venue
        BY <1>1, <1>3, <2>5, <3>2 DEF Wanted, Basis
      <4>2. /\ {u \in venue : u > t} \in SUBSET {u \in venue' : u > t}
            /\ IsFiniteSet({u \in venue' : u > t})
        BY <1>4, <1>5, FS_Subset DEF IsInts
      <4>3. After(venue, t) <= After(venue', t)
        BY <4>2, FS_Subset DEF After
      <4>4. /\ After(venue, t) \in Nat /\ After(venue', t) \in Nat
            /\ (cur - 1) * PageSize \in Int
        BY <1>3, <1>4, <1>5, <4>1, CountsOK, HistoryAssumption
      <4>5. After(venue, t) < (cur - 1) * PageSize
        BY <2>5, <4>3, <4>4
      <4>6. QED
        BY <2>2, <4>1, <4>5
    <3>3. QED
      BY <3>1, <3>2
  <2>6. QED
    BY <1>1, <2>2, <2>3, <2>4, <2>5 DEF FundingOK
<1>11. QED
  BY <1>6, <1>7, <1>8, <1>9, <1>10 DEF IInv

\* A download that fails keeps what is there.
LEMMA ThrowsStep ==
  ASSUME IInv, Throws
  PROVE  IInv'
<1>1. /\ pc = "page" /\ pc' = "failed"
      /\ UNCHANGED <<venue, call, cur, got, first>>
  BY DEF Throws
<1>2. VenueOK' /\ CallOK'
  BY <1>1 DEF IInv, VenueOK, CallOK
<1>3. FuturesOK' /\ SpotOK' /\ FundingOK'
  BY <1>1 DEF IInv, FuturesOK, SpotOK, FundingOK
<1>4. QED
  BY <1>2, <1>3 DEF IInv

-----------------------------------------------------------------------------
(* Results.                                                                 *)

THEOREM InvariantOK == Spec => []IInv
<1>1. Init => IInv
  <2>1. SUFFICES ASSUME Init
                 PROVE  IInv
    OBVIOUS
  <2>2. /\ got = <<>> /\ got \in Seq(Times) /\ first = {} /\ cur = 0 /\ pc = "call"
        /\ DOMAIN got = {} /\ 0 \in 0..Horizon /\ venue \subseteq Times
    BY <2>1, EmptySeq, HistoryAssumption DEF Init
  <2>3. QED
    BY <2>1, <2>2 DEF Init, IInv, VenueOK, CallOK, FuturesOK, SpotOK, FundingOK, Increases
<1>2. IInv /\ [Next]_vars => IInv'
  <2>1. SUFFICES ASSUME IInv, [Next]_vars
                 PROVE  IInv'
    OBVIOUS
  <2>2. CASE Call
    BY <2>1, <2>2, CallStep
  <2>3. CASE FuturesPage
    BY <2>1, <2>3, FuturesStep
  <2>4. CASE SpotPage
    BY <2>1, <2>4, SpotStep
  <2>5. CASE FundingPages
    BY <2>1, <2>5, FundingStep
  <2>6. CASE Throws
    BY <2>1, <2>6, ThrowsStep
  <2>7. CASE Opens
    BY <2>1, <2>7, OpensStep
  <2>8. CASE UNCHANGED vars
    BY <2>1, <2>8 DEF vars, IInv, VenueOK, CallOK, FuturesOK, SpotOK, FundingOK,
                FuturesExact, FundingComplete, Wanted, Basis
  <2>9. QED
    BY <2>1, <2>2, <2>3, <2>4, <2>5, <2>6, <2>7, <2>8 DEF Next, Downloads
<1>3. QED
  BY <1>1, <1>2, PTL DEF Spec

\* Every variable keeps its type: no walk asks for a page before time 0 or for
\* more pages than there are records, and no record comes twice into a candle
\* walk (RESTClient::getHistoricalPrices of both clients).
THEOREM TypeCorrect == Spec => []TypeOK
<1>1. ASSUME IInv
      PROVE  TypeOK
  <2>1. /\ got \in Seq(Int) /\ Range(got) \subseteq Times
    BY <1>1, StateInts DEF IInv
  <2>2. ASSUME call.walk # "funding"
        PROVE  Len(got) <= Cardinality(Times)
    <3>1. call.walk \in Walks
      BY <1>1 DEF IInv, CallOK
    <3>2. Increases(got)
      BY <1>1, <2>2, <3>1 DEF IInv, FuturesOK, SpotOK, Walks
    <3>3. Cardinality(Range(got)) = Len(got)
      BY <2>1, <3>2, IncreasingCounts DEF InOrder
    <3>4. Cardinality(Range(got)) <= Cardinality(Times)
      BY <2>1, TimesOK, FS_Subset
    <3>5. QED
      BY <3>3, <3>4
  <2>3. QED
    BY <1>1, <2>1, <2>2 DEF TypeOK, IInv, VenueOK, CallOK
<1>2. QED
  BY <1>1, InvariantOK, PTL

\* A futures download that ends has every candle of its range that the venue had
\* at the first page, once and in order, but the newest, whatever the page size
\* and whatever candles open meanwhile.
THEOREM FuturesDownloadExact == Spec => []FuturesExact
<1>1. ASSUME IInv
      PROVE  FuturesExact
  BY <1>1 DEF IInv, FuturesOK, FuturesExact
<1>2. QED
  BY <1>1, InvariantOK, PTL

\* The batches of a spot download never overlap and follow each other in time,
\* up to endTime, whether or not the venue is sent a startTime.
THEOREM SpotDownloadAscends == Spec => []SpotAscends
<1>1. ASSUME IInv
      PROVE  SpotAscends
  BY <1>1 DEF IInv, SpotOK, SpotAscends
<1>2. QED
  BY <1>1, InvariantOK, PTL

\* A funding download that ends has missed no rate of its range that was there
\* at its first page, though settlements shift the pages under it; it returns
\* nothing else, sorted by time (getHistoricalFundingRates).
THEOREM FundingDownloadComplete == Spec => []FundingComplete
<1>1. ASSUME IInv
      PROVE  FundingComplete
  BY <1>1 DEF IInv, FundingOK, FundingComplete
<1>2. QED
  BY <1>1, InvariantOK, PTL

=============================================================================
