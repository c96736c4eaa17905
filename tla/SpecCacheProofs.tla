-------------------------- MODULE SpecCacheProofs --------------------------
(* Proofs about SpecCache. *)
EXTENDS SpecCache, TLAPS

-----------------------------------------------------------------------------
(* Arithmetic of the grid.                                                 *)

\* Division undoes multiplication.
LEMMA DivOfMultiple ==
  ASSUME NEW m \in Nat \ {0}, NEW k \in Int
  PROVE  (m * k) \div m = k /\ (m * k) % m = 0
<1> DEFINE q == (m * k) \div m
           r == (m * k) % m
<1>1. q \in Int /\ r \in Int /\ m * k = m * q + r /\ 0 <= r /\ r < m
  OBVIOUS
<1> HIDE DEF q, r
<1>2. m * (k - q) = r
  BY <1>1
<1>3. k - q < 1
  <2> SUFFICES ASSUME k - q >= 1 PROVE FALSE
    BY <1>1
  <2>1. m * (k - q) >= m
    BY <1>1
  <2> QED
    BY <2>1, <1>1, <1>2
<1>4. k - q > -1
  <2> SUFFICES ASSUME k - q <= -1 PROVE FALSE
    BY <1>1
  <2>1. m * (k - q) <= -m
    BY <1>1
  <2> QED
    BY <2>1, <1>1, <1>2
<1>5. k = q
  BY <1>1, <1>3, <1>4
<1> QED
  BY <1>1, <1>2, <1>5 DEF q, r

\* What Nearest returns is a multiple, at most half a step above.
LEMMA NearestIsMultiple ==
  ASSUME NEW x \in Int, NEW m \in Nat \ {0}, NEW y \in Nearest(x, m)
  PROVE  /\ y \in Int /\ 2 * (y - x) <= m
         /\ \E k \in Int : y = m * k
<1>1. x \div m \in Int
  OBVIOUS
<1>2. PICK k \in {x \div m, (x \div m) + 1} : y = m * k
  BY <1>1 DEF Nearest
<1> QED
  BY <1>1, <1>2 DEF Nearest

\* A number on the grid is its own and only neighbour.
LEMMA NearestOfMultiple ==
  ASSUME NEW m \in Nat \ {0}, NEW k \in Int, NEW y \in Nearest(m * k, m)
  PROVE  y = m * k
BY DivOfMultiple DEF Nearest

\* A price made from the tick and the decimals of one version is on both.
LEMMA PriceOnGrid ==
  ASSUME NEW v \in Versions, NEW p \in Prices(Price, Tick(v), Decimals(v))
  PROVE  /\ Tick(v) > 0 => p % Tick(v) = 0
         /\ p % Decimals(v) = 0
<1>1. Tick(v) \in Nat /\ Decimals(v) \in Nat \ {0} /\ Price \in Int
  BY SpecAssumption, TickAssumption DEF Tick
<1>2. CASE Tick(v) = 0
  <2>1. p \in Nearest(Price, Decimals(v))
    BY <1>2 DEF Prices
  <2>2. PICK k \in Int : p = Decimals(v) * k
    BY <1>1, <2>1, NearestIsMultiple
  <2> QED
    BY <1>1, <1>2, <2>2, DivOfMultiple
<1>3. CASE Tick(v) # 0
  <2>1. PICK s \in Nearest(Price, Tick(v)) : p \in Nearest(s, Decimals(v))
    BY <1>1, <1>3 DEF Prices
  <2>2. PICK k \in Int : s = Tick(v) * k
    BY <1>1, <1>3, <2>1, NearestIsMultiple
  <2>3. PICK j \in Nat : Tick(v) = j * Decimals(v)
    BY <1>1, TickAssumption
  <2>4. j * k \in Int /\ s = Decimals(v) * (j * k)
    BY <1>1, <2>2, <2>3
  <2>5. p = Decimals(v) * (j * k)
    BY <1>1, <2>1, <2>4, NearestOfMultiple
  <2>6. p % Decimals(v) = 0
    BY <1>1, <2>4, <2>5, DivOfMultiple
  <2>7. p % Tick(v) = 0
    BY <1>1, <1>3, <2>2, <2>4, <2>5, DivOfMultiple
  <2> QED
    BY <2>6, <2>7
<1> QED
  BY <1>2, <1>3

\* A volume is in whole units, and at most half a contract too large.
LEMMA VolumeOnGrid ==
  ASSUME NEW qty \in Nat, NEW size \in Nat \ {0}, NEW unit \in Nat \ {0},
         NEW n \in Volumes(qty, size, unit)
  PROVE  /\ n \in Int /\ n % unit = 0
         /\ 2 * (n * size - qty) <= size
<1>1. PICK y \in Nearest(qty, size) :
        n = IF unit > 1 THEN unit * ((y \div size) \div unit) ELSE y \div size
  BY DEF Volumes
<1>2. y \in Int /\ 2 * (y - qty) <= size
  BY <1>1, NearestIsMultiple
<1>3. PICK k \in Int : y = size * k
  <2>1. qty \in Int /\ y \in Nearest(qty, size)
    BY <1>1
  <2>2. \E k \in Int : y = size * k
    BY <2>1, NearestIsMultiple
  <2> QED
    BY <2>2
<1>4. y \div size = k
  BY <1>3, DivOfMultiple
<1>5. n \in Int /\ n % unit = 0 /\ n <= k
  <2>1. CASE unit > 1
    <3> DEFINE c == k \div unit
    <3>1. c \in Int /\ unit * c <= k
      OBVIOUS
    <3>2. n = unit * c
      BY <1>1, <1>4, <2>1
    <3> QED
      BY <3>1, <3>2, DivOfMultiple
  <2>2. CASE ~(unit > 1)
    <3>1. unit = 1 /\ n = k
      BY <1>1, <1>4, <2>2
    <3> QED
      BY <3>1
  <2> QED
    BY <2>1, <2>2
<1>6. n * size <= y
  <2>1. size * (k - n) >= 0
    BY <1>5
  <2> QED
    BY <1>3, <1>5, <2>1
<1> QED
  BY <1>2, <1>5, <1>6

-----------------------------------------------------------------------------
(* Refusals.                                                               *)

\* Every refusal has a class.
LEMMA RefusalHasKind ==
  ASSUME NEW text
  PROVE  ClassifyReject(text) \in RejectKinds
<1> DEFINE passed == {i \in DOMAIN Tests :
                        \A words \in Tests[i].words : Mentions(text, words)}
<1>1. DOMAIN Tests = 1..6
  BY DEF Tests
<1>2. \A i \in 1..6 : Tests[i].kind \in RejectKinds
  BY DEF Tests, RejectKinds
<1>3. CASE passed = {}
  BY <1>3 DEF ClassifyReject, RejectKinds
<1>4. CASE passed # {}
  <2>1. passed \subseteq 1..6
    BY <1>1
  <2> HIDE DEF passed
  <2>2. \E m \in passed : \A i \in passed : m <= i
    <3>1. \A i \in passed : i \in {1, 2, 3, 4, 5, 6}
      BY <2>1
    <3>2. CASE 1 \in passed
      BY <3>1, <3>2
    <3>3. CASE 2 \in passed /\ 1 \notin passed
      BY <3>1, <3>3
    <3>4. CASE 3 \in passed /\ passed \cap {1, 2} = {}
      BY <3>1, <3>4
    <3>5. CASE 4 \in passed /\ passed \cap {1, 2, 3} = {}
      BY <3>1, <3>5
    <3>6. CASE passed \cap {1, 2, 3, 4} = {}
      <4>1. \A i \in passed : i \in {5, 6}
        BY <3>1, <3>6
      <4>2. CASE 5 \in passed
        BY <4>1, <4>2
      <4>3. CASE 5 \notin passed
        BY <4>1, <4>3, <1>4
      <4> QED
        BY <4>2, <4>3
    <3> QED
      BY <3>2, <3>3, <3>4, <3>5, <3>6
  <2>3. Min(passed) \in passed
    BY <2>2 DEF Min
  <2>4. ClassifyReject(text) = Tests[Min(passed)].kind
    BY <1>4 DEF ClassifyReject, passed
  <2> QED
    BY <1>2, <2>1, <2>3, <2>4
<1> QED
  BY <1>3, <1>4

-----------------------------------------------------------------------------
(* The inductive invariant.                                                *)

\* What a submit has read so far was fetched, because the maps are never
\* emptied again; the order is made from it.
Reading(l) ==
  /\ pc[l] \in {"tick", "decimals", "volUnit", "lane", "send"} =>
       maps # 0 /\ read[l].size # 0
  /\ pc[l] \in {"decimals", "volUnit", "lane", "send"} /\ l \notin MarketLegs =>
       read[l].tick # 0
  /\ pc[l] \in {"volUnit", "lane", "send"} /\ l \notin MarketLegs =>
       /\ read[l].decimals # 0
       /\ order[l].price \in Prices(Price, Tick(read[l].tick),
                                    Decimals(read[l].decimals))
  /\ Ready(l) =>
       /\ read[l].volUnit # 0
       /\ order[l].vol \in Volumes(Qty, Size(read[l].size),
                                   VolUnit(read[l].volUnit))

IInv == TypeOK /\ \A l \in Legs : Reading(l)

\* Prices and volumes are numbers.
LEMMA FieldTypes ==
  ASSUME NEW v \in Versions
  PROVE  /\ Size(v) \in Nat \ {0} /\ VolUnit(v) \in Nat \ {0}
         /\ Tick(v) \in Nat /\ Decimals(v) \in Nat \ {0}
BY SpecAssumption, TickAssumption DEF Size, VolUnit, Tick

LEMMA PricesAreNumbers ==
  ASSUME NEW tick \in Nat, NEW unit \in Nat \ {0}
  PROVE  Prices(Price, tick, unit) \subseteq Int
<1>1. \A x \in Int, m \in Nat \ {0} : Nearest(x, m) \subseteq Int
  BY NearestIsMultiple
<1>2. Price \in Int
  BY SpecAssumption
<1> QED
  BY <1>1, <1>2 DEF Prices

LEMMA VolumesAreNumbers ==
  ASSUME NEW v \in Versions, NEW unit \in Nat \ {0}
  PROVE  Volumes(Qty, Size(v), unit) \subseteq Int
<1>1. Qty \in Nat /\ Size(v) \in Nat \ {0}
  BY FieldTypes, SpecAssumption
<1> QED
  BY <1>1, VolumeOnGrid

\* It holds initially.
LEMMA InitIInv == Init => IInv
BY SpecAssumption
DEF Init, IInv, TypeOK, Reading, Ready, Versions, Unread, NoOrder, bounds,
    Submitting, InLane

\* A leg whose call returns keeps it, whatever became of the cache.
LEMMA LeavingKeepsIInv ==
  ASSUME IInv, NEW l \in Legs, LeaveCall(l),
         NEW where \in {"idle", "done"}, pc' = [pc EXCEPT ![l] = where],
         version' = version, specCache' \in 0..MaxVersion,
         maps' \in 0..MaxVersion, maps # 0 => maps' # 0,
         known' \subseteq Legs,
         told' \in [Legs -> RejectKinds \cup {"nothing", "accepted"}],
         refreshes' \in 0..MaxRefreshes, fails' \in 0..MaxFails,
         refusals' \in 0..MaxRefusals
  PROVE  IInv'
<1>0. NoLeg \notin Legs /\ 0 \in 0..MaxVersion /\ 0 \in Int
  BY SpecAssumption
<1>1. /\ lane' \in Legs \cup {NoLeg}
      /\ pc' \in [Legs -> Submitting \cup {"idle", "fetch", "store", "done"}]
      /\ got' \in [Legs -> 0..MaxVersion]
  BY <1>0 DEF IInv, TypeOK, LeaveCall
<1>2. read' \in [Legs -> [size : 0..MaxVersion, tick : 0..MaxVersion,
                          decimals : 0..MaxVersion, volUnit : 0..MaxVersion]]
  BY <1>0 DEF IInv, TypeOK, LeaveCall, Unread
<1>3. order' \in [Legs -> [price : Int, vol : Int]]
  BY <1>0 DEF IInv, TypeOK, LeaveCall, NoOrder
<1>4. ASSUME NEW m \in Legs
      PROVE  /\ pc'[m] \in InLane => lane' = m
             /\ lane' = m => pc'[m] \in InLane \cup {"fetch", "store"}
             /\ pc'[m] = "store" => got'[m] # 0
  <2>1. CASE m = l
    BY <1>0, <2>1 DEF IInv, TypeOK, LeaveCall, InLane
  <2>2. CASE m # l
    BY <1>0, <2>2 DEF IInv, TypeOK, LeaveCall, InLane
  <2> QED
    BY <2>1, <2>2
<1>5. TypeOK'
  BY <1>1, <1>2, <1>3, <1>4 DEF IInv, TypeOK
<1>6. ASSUME NEW m \in Legs PROVE Reading(m)'
  <2>1. CASE m = l
    BY <2>1 DEF IInv, TypeOK, Reading, Ready
  <2>2. CASE m # l
    <3>1. /\ pc'[m] = pc[m] /\ read'[m] = read[m] /\ order'[m] = order[m]
      BY <2>2 DEF IInv, TypeOK, LeaveCall
    <3> QED
      BY <3>1 DEF IInv, Reading, Ready
  <2> QED
    BY <2>1, <2>2
<1> QED
  BY <1>5, <1>6 DEF IInv

\* Returning a refusal of a known kind is such a return.
LEMMA ReturningKeepsIInv ==
  ASSUME IInv, NEW l \in Legs,
         NEW kind \in RejectKinds \cup {"accepted"}, Returns(l, kind),
         UNCHANGED <<version, specCache, maps, known>>,
         refreshes' \in 0..MaxRefreshes, fails' \in 0..MaxFails,
         refusals' \in 0..MaxRefusals
  PROVE  IInv'
<1>1. told' \in [Legs -> RejectKinds \cup {"nothing", "accepted"}]
  BY DEF Returns, IInv, TypeOK
<1>2. PICK where \in {"idle", "done"} : pc' = [pc EXCEPT ![l] = where]
  BY DEF Returns
<1>3. /\ LeaveCall(l) /\ version' = version /\ specCache' \in 0..MaxVersion
      /\ maps' = maps /\ maps' \in 0..MaxVersion /\ known' \subseteq Legs
  BY DEF Returns, IInv, TypeOK
<1> QED
  BY <1>1, <1>2, <1>3, LeavingKeepsIInv

\* So is the end of a refetch or of a look at the cache.
LEMMA LookupKeepsIInv ==
  ASSUME IInv, NEW l \in Legs, Lookup(l)
  PROVE  IInv'
<1>1. CASE pc' = [pc EXCEPT ![l] = "fetch"]
  BY <1>1, SpecAssumption DEF Lookup, LeaveCall, IInv, TypeOK, Reading, Ready, bounds,
     Submitting, InLane, Unread, NoOrder
<1>2. CASE pc' = [pc EXCEPT ![l] = "idle"] /\ LeaveCall(l)
  <2>1. known' \subseteq Legs
    BY <1>2 DEF Lookup, IInv, TypeOK
  <2>2. UNCHANGED <<version, specCache, maps, told, bounds>>
    BY DEF Lookup
  <2> QED
    BY <1>2, <2>1, <2>2, LeavingKeepsIInv DEF IInv, TypeOK, bounds
<1> QED
  BY <1>1, <1>2 DEF Lookup

\* And every step of a leg keeps it.
LEMMA LegKeepsIInv ==
  ASSUME IInv, NEW l \in Legs, Leg(l)
  PROVE  IInv'
<1> USE DEF IInv, bounds
<1>0. MaxVersion \in Nat /\ NoLeg \notin Legs /\ DefaultUnit \in Nat \ {0}
  BY SpecAssumption
<1>1. CASE Lookup(l)
  BY <1>1, LookupKeepsIInv
<1>2. CASE Answer(l)
  BY <1>0, <1>2 DEF Answer, TypeOK, Reading, Ready, Versions, Submitting, InLane
<1>3. CASE FetchFails(l)
  <2>1. fails' \in 0..MaxFails
    BY <1>3, SpecAssumption DEF FetchFails, TypeOK
  <2> QED
    BY <1>3, <2>1, LeavingKeepsIInv DEF FetchFails, TypeOK
<1>4. CASE Store(l)
  BY <1>0, <1>4 DEF Store, LeaveCall, TypeOK, Reading, Ready, Unread, NoOrder,
     Submitting, InLane
<1>5. CASE ReadSize(l)
  <2>1. CASE Returns(l, "Hard")
    BY <1>5, <2>1, ReturningKeepsIInv DEF ReadSize, TypeOK, RejectKinds
  <2>2. CASE ~Returns(l, "Hard")
    <3> DEFINE next == IF l \in MarketLegs THEN "volUnit" ELSE "tick"
    <3>1. /\ pc[l] = "idle" /\ maps # 0 /\ read' = [read EXCEPT ![l].size = maps]
          /\ pc' = [pc EXCEPT ![l] = next]
          /\ UNCHANGED <<lane, order, got, told, version, specCache, maps,
                         known, refreshes, fails, refusals>>
      BY <1>5, <2>2 DEF ReadSize
    <3>2. next \in {"volUnit", "tick"} /\ (l \notin MarketLegs => next = "tick")
      OBVIOUS
    <3> HIDE DEF next
    <3> QED
      BY <1>0, <3>1, <3>2 DEF TypeOK, Reading, Ready, Submitting, InLane
  <2> QED
    BY <2>1, <2>2
<1>6. CASE ReadTick(l)
  BY <1>0, <1>6 DEF ReadTick, TypeOK, Reading, Ready, Submitting, InLane
<1>7. CASE ReadDecimals(l)
  <2>1. maps # 0 /\ maps \in Versions /\ pc[l] = "decimals"
    BY <1>7 DEF ReadDecimals, TypeOK, Reading, Versions
  <2>2. l \notin MarketLegs => read[l].tick # 0 /\ read[l].tick \in Versions
    BY <2>1 DEF TypeOK, Reading, Versions
  <2>3. PICK p : /\ order' = [order EXCEPT ![l].price = p]
                 /\ p \in Prices(Price,
                        IF read[l].tick = 0 THEN 0 ELSE Tick(read[l].tick),
                        Decimals(maps))
    BY <1>7, <2>1 DEF ReadDecimals
  <2>4. read[l].tick # 0 => read[l].tick \in Versions
    BY DEF TypeOK, Versions
  <2>5. p \in Int
    BY <2>1, <2>3, <2>4, FieldTypes, PricesAreNumbers
  <2>6. TypeOK'
    BY <1>7, <2>1, <2>3, <2>5 DEF ReadDecimals, TypeOK, Submitting, InLane
  <2>7. ASSUME NEW m \in Legs PROVE Reading(m)'
    <3>1. CASE m = l
      BY <1>7, <2>1, <2>2, <2>3, <3>1 DEF ReadDecimals, TypeOK, Reading, Ready
    <3>2. CASE m # l
      BY <1>7, <2>3, <3>2 DEF ReadDecimals, TypeOK, Reading, Ready
    <3> QED
      BY <3>1, <3>2
  <2> QED
    BY <2>6, <2>7
<1>8. CASE ReadVolUnit(l)
  <2>1. /\ maps # 0 /\ maps \in Versions /\ pc[l] = "volUnit"
        /\ read[l].size # 0 /\ read[l].size \in Versions
    BY <1>8 DEF ReadVolUnit, TypeOK, Reading, Versions
  <2>2. PICK n \in Volumes(Qty, Size(read[l].size), VolUnit(maps)) :
          \/ n <= 0 /\ Returns(l, "Hard")
          \/ /\ n > 0
             /\ read' = [read EXCEPT ![l].volUnit = maps]
             /\ order' = [order EXCEPT ![l].vol = n]
             /\ pc' = [pc EXCEPT ![l] = "lane"]
             /\ UNCHANGED <<lane, got, told>>
    BY <1>8, <2>1 DEF ReadVolUnit
  <2>3. n \in Int
    BY <2>1, FieldTypes, VolumesAreNumbers
  <2>4. CASE Returns(l, "Hard")
    BY <1>8, <2>4, ReturningKeepsIInv DEF ReadVolUnit, TypeOK, RejectKinds
  <2>5. CASE ~Returns(l, "Hard")
    <3>0. /\ read' = [read EXCEPT ![l].volUnit = maps]
          /\ order' = [order EXCEPT ![l].vol = n]
          /\ pc' = [pc EXCEPT ![l] = "lane"]
          /\ UNCHANGED <<lane, got, told, version, specCache, maps, known,
                         refreshes, fails, refusals>>
      BY <1>8, <2>2, <2>5 DEF ReadVolUnit
    <3>1. TypeOK'
      BY <2>1, <2>3, <3>0 DEF TypeOK, Submitting, InLane
    <3>2. ASSUME NEW m \in Legs PROVE Reading(m)'
      <4>1. CASE m = l
        <5>1. /\ read'[l].size = read[l].size /\ read'[l].tick = read[l].tick
              /\ read'[l].decimals = read[l].decimals
              /\ read'[l].volUnit = maps /\ order'[l].vol = n
              /\ order'[l].price = order[l].price /\ pc'[l] = "lane"
          BY <2>1, <3>0 DEF TypeOK
        <5> QED
          BY <2>1, <2>2, <3>0, <4>1, <5>1 DEF Reading, Ready
      <4>2. CASE m # l
        BY <3>0, <4>2 DEF TypeOK, Reading, Ready
      <4> QED
        BY <4>1, <4>2
    <3> QED
      BY <3>1, <3>2
  <2> QED
    BY <2>4, <2>5
<1>9. CASE AcquireLane(l)
  <2>1. CASE Returns(l, "Throttled")
    BY <1>9, <2>1, ReturningKeepsIInv DEF AcquireLane, TypeOK, RejectKinds
  <2>2. CASE ~Returns(l, "Throttled")
    BY <1>0, <1>9, <2>2 DEF AcquireLane, TypeOK, Reading, Ready, Submitting,
       InLane
  <2> QED
    BY <2>1, <2>2
<1>10. CASE Send(l)
  <2>1. /\ pc[l] = "send" /\ UNCHANGED <<version, specCache, maps, known>>
        /\ refusals' \in 0..MaxRefusals /\ UNCHANGED <<refreshes, fails>>
    BY <1>10, SpecAssumption DEF Send, TypeOK
  <2>2. CASE Returns(l, "accepted")
    BY <2>1, <2>2, ReturningKeepsIInv DEF TypeOK
  <2>3. ASSUME NEW text, Refused(l, text) PROVE IInv'
    <3>1. ClassifyReject(text) \in RejectKinds
      BY RefusalHasKind
    <3>2. CASE IsPrecisionReject(text)
      <4>1. /\ told' = [told EXCEPT ![l] = ClassifyReject(text)]
            /\ pc' = [pc EXCEPT ![l] = "erase"]
            /\ UNCHANGED <<lane, read, order, got>>
        BY <2>3, <3>2 DEF Refused
      <4> QED
        BY <1>0, <2>1, <3>1, <4>1 DEF TypeOK, Reading, Ready, Submitting, InLane
    <3>3. CASE ~IsPrecisionReject(text)
      <4>1. Returns(l, ClassifyReject(text))
        BY <2>3, <3>3 DEF Refused
      <4> QED
        BY <2>1, <3>1, <4>1, ReturningKeepsIInv DEF TypeOK
    <3> QED
      BY <3>2, <3>3
  <2> QED
    BY <1>10, <2>2, <2>3 DEF Send
<1>11. CASE Erase(l)
  BY <1>0, <1>11 DEF Erase, TypeOK, Reading, Ready, Submitting, InLane
<1> QED
  BY <1>1, <1>2, <1>3, <1>4, <1>5, <1>6, <1>7, <1>8, <1>9, <1>10, <1>11 DEF Leg

\* So does a step of anybody, and one that changes nothing.
LEMMA StepKeepsIInv == IInv /\ [Next]_vars => IInv'
<1> SUFFICES ASSUME IInv, [Next]_vars PROVE IInv'
  OBVIOUS
<1>0. MaxVersion \in Nat /\ MaxRefreshes \in Nat
  BY SpecAssumption
<1>1. CASE VenueChanges
  BY <1>0, <1>1 DEF VenueChanges, IInv, TypeOK, Reading, Ready, Versions, bounds
<1>2. CASE RefreshInstruments
  BY <1>0, <1>2 DEF RefreshInstruments, IInv, TypeOK, Reading, Ready
<1>3. CASE \E l \in Legs : Leg(l)
  BY <1>3, LegKeepsIInv
<1>4. CASE UNCHANGED vars
  BY <1>4 DEF vars, bounds, IInv, TypeOK, Reading, Ready
<1> QED
  BY <1>1, <1>2, <1>3, <1>4 DEF Next

LEMMA Invariance == Spec => []IInv
<1> QED
  BY InitIInv, StepKeepsIInv, PTL DEF Spec

-----------------------------------------------------------------------------
(* Theorems.                                                               *)

\* Every variable keeps its type, and the order lane is held by exactly the leg
\* that is sending or refetching under it.
THEOREM TypeCorrect == Spec => []TypeOK
<1>1. IInv => TypeOK
  BY DEF IInv
<1> QED
  BY <1>1, Invariance, PTL

\* For every number of legs and versions, no order is made from a default,
\* because refreshInstruments and the refetch leave the four maps alone.
THEOREM OrdersAreFetched == Spec => []FetchedOnly
<1>1. IInv => FetchedOnly
  BY DEF IInv, Reading, Ready, FetchedOnly
<1> QED
  BY <1>1, Invariance, PTL

\* Whatever grid the venue has, an order made from one version fits that
\* version; and no order, not even one of mixed versions, is larger than the
\* whole number of contracts nearest to what was asked for, which may be half a
\* contract above it.
THEOREM OrdersFit == Spec => []OrderFits
<1>1. IInv => OrderFits
  <2> SUFFICES ASSUME IInv, NEW l \in Legs, Ready(l)
               PROVE  /\ \A v \in Versions :
                           OneVersion(l, v) => Fits(v, l, order[l])
                      /\ 2 * (order[l].vol * Size(read[l].size) - Qty)
                           <= Size(read[l].size)
    BY DEF OrderFits
  <2>1. /\ read[l].size \in Versions /\ read[l].volUnit \in Versions
        /\ order[l].vol \in Volumes(Qty, Size(read[l].size),
                                    VolUnit(read[l].volUnit))
    BY DEF IInv, TypeOK, Reading, Ready, Versions
  <2>2. /\ order[l].vol % VolUnit(read[l].volUnit) = 0
        /\ 2 * (order[l].vol * Size(read[l].size) - Qty) <= Size(read[l].size)
    BY <2>1, FieldTypes, VolumeOnGrid, SpecAssumption
  <2>3. ASSUME NEW v \in Versions, OneVersion(l, v), l \notin MarketLegs
        PROVE  /\ Tick(v) > 0 => order[l].price % Tick(v) = 0
               /\ order[l].price % Decimals(v) = 0
    <3>1. order[l].price \in Prices(Price, Tick(v), Decimals(v))
      BY <2>3 DEF IInv, Reading, Ready, OneVersion
    <3> QED
      BY <3>1, PriceOnGrid
  <2> QED
    BY <2>2, <2>3 DEF Fits, OneVersion
<1> QED
  BY <1>1, Invariance, PTL

=============================================================================
