----------------------------- MODULE SpecCache -----------------------------
(***************************************************************************)
(* Contract specifications in MexcExecutionGateway: legs fetch them        *)
(* (instrumentSpec), drop them (refreshInstruments) and put them into      *)
(* orders (submitPostOnlyLimit, submitReduceOnlyMarket), which the venue   *)
(* refuses when they do not fit its present contract; the gateway then     *)
(* fetches the specification again.  One symbol: its entries in the five   *)
(* maps.                                                                   *)
(*                                                                         *)
(* Every section under specM and every REST call is a step of its own.     *)
(* The venue changes the contract; its versions are numbered.  The core    *)
(* (external) submits again until its order is accepted or the refusal     *)
(* ends the leg.                                                           *)
(***************************************************************************)
EXTENDS OrderRules

CONSTANTS
  Legs,         \* threads of the execution core
  MarketLegs,   \* those that submit reduce-only market orders
  NoLeg,        \* nobody holds the order lane
  MaxVersion,   \* versions of the contract
  Contract,     \* the venue's details of each version
  DefaultUnit,  \* two decimals
  Price, Qty,   \* what the core wants to trade
  Texts,        \* refusals for other reasons
  MaxRefreshes, \* refreshInstruments calls
  MaxFails,     \* fetches that fail
  MaxRefusals   \* refusals for other reasons

\* The fields of a version as instrumentSpec stores them; 0 is a field the
\* venue left out.
Size(v) == IF Contract[v].contractSize > 0 THEN Contract[v].contractSize ELSE 1
Tick(v) == Contract[v].priceUnit
Decimals(v) == IF Contract[v].priceScale > 0 THEN Contract[v].priceScale
               ELSE DecimalsOf(Contract[v].priceUnit)
VolUnit(v) == IF Contract[v].volUnit > 0 THEN Contract[v].volUnit ELSE 1

Versions == 1..MaxVersion

ASSUME SpecAssumption ==
  /\ MarketLegs \subseteq Legs /\ NoLeg \notin Legs
  /\ MaxVersion \in Nat \ {0}
  /\ Contract \in [Versions -> [contractSize : Nat, priceUnit : Nat,
                                priceScale : Nat, volUnit : Nat]]
  /\ DefaultUnit \in Nat \ {0} /\ Price \in Nat /\ Qty \in Nat
  /\ MaxRefreshes \in Nat /\ MaxFails \in Nat /\ MaxRefusals \in Nat

\* The venue's decimals are a unit, and its tick is a whole number of them.
ASSUME TickAssumption ==
  \A v \in Versions :
    /\ Decimals(v) \in Nat \ {0}
    /\ \E k \in 0..Tick(v) : Tick(v) = k * Decimals(v)

VARIABLES
  version,    \* the venue's contract
  specCache,  \* version in specCache, 0: no entry
  maps,       \* version in contractSize, priceDecimals, tickSize and volUnit
  lane,       \* the leg that holds orderLaneM
  pc,         \* where each leg is
  known,      \* legs whose instrumentSpec has returned
  read,       \* version each read of a submit came from, 0: the default
  order,      \* the order a submit puts together
  got,        \* the answer a fetch has yet to store
  told,       \* how the last submit ended
  refreshes, fails, refusals

bounds == <<refreshes, fails, refusals>>
vars == <<version, specCache, maps, lane, pc, known, read, order, got, told,
          bounds>>

Unread == [size |-> 0, tick |-> 0, decimals |-> 0, volUnit |-> 0]
NoOrder == [price |-> 0, vol |-> 0]

Init ==
  /\ version = 1 /\ specCache = 0 /\ maps = 0 /\ lane = NoLeg
  /\ pc = [l \in Legs |-> "idle"] /\ known = {}
  /\ read = [l \in Legs |-> Unread] /\ order = [l \in Legs |-> NoOrder]
  /\ got = [l \in Legs |-> 0] /\ told = [l \in Legs |-> "nothing"]
  /\ refreshes = 0 /\ fails = 0 /\ refusals = 0

-----------------------------------------------------------------------------
(* The venue.                                                              *)

VenueChanges ==
  /\ version < MaxVersion /\ version' = version + 1
  /\ UNCHANGED <<specCache, maps, lane, pc, known, read, order, got, told,
                 bounds>>

\* An order fits version v of the contract: price on its tick and decimals,
\* volume in whole volUnits.
Fits(v, l, o) ==
  /\ l \notin MarketLegs =>
       /\ Tick(v) > 0 => o.price % Tick(v) = 0
       /\ o.price % Decimals(v) = 0
  /\ o.vol % VolUnit(v) = 0

-----------------------------------------------------------------------------
(* instrumentSpec, refreshInstruments.                                     *)

\* A leg gives the lane back and reads anew when a call of its own returns.
LeaveCall(l) ==
  /\ lane' = IF lane = l THEN NoLeg ELSE lane
  /\ read' = [read EXCEPT ![l] = Unread]
  /\ order' = [order EXCEPT ![l] = NoOrder]
  /\ got' = [got EXCEPT ![l] = 0]

\* The cache is asked: by the core, or by the refetch after a refusal.
Lookup(l) ==
  /\ \/ pc[l] = "idle" /\ l \notin known
     \/ pc[l] = "lookup"
  /\ \/ /\ specCache = 0
        /\ pc' = [pc EXCEPT ![l] = "fetch"]
        /\ UNCHANGED <<lane, known, read, order, got>>
     \/ /\ specCache # 0
        /\ pc' = [pc EXCEPT ![l] = "idle"] /\ known' = known \cup {l}
        /\ LeaveCall(l)
  /\ UNCHANGED <<version, specCache, maps, told, bounds>>

\* getContractDetails, without a lock.
Answer(l) ==
  /\ pc[l] = "fetch"
  /\ pc' = [pc EXCEPT ![l] = "store"] /\ got' = [got EXCEPT ![l] = version]
  /\ UNCHANGED <<version, specCache, maps, lane, known, read, order, told,
                 bounds>>

FetchFails(l) ==
  /\ pc[l] = "fetch" /\ fails < MaxFails /\ fails' = fails + 1
  /\ pc' = [pc EXCEPT ![l] = "idle"] /\ LeaveCall(l)
  /\ UNCHANGED <<version, specCache, maps, known, told, refreshes, refusals>>

Store(l) ==
  /\ pc[l] = "store"
  /\ specCache' = got[l] /\ maps' = got[l]
  /\ pc' = [pc EXCEPT ![l] = "idle"] /\ known' = known \cup {l}
  /\ LeaveCall(l)
  /\ UNCHANGED <<version, told, bounds>>

\* Mutant: the maps that events are parsed with are dropped too.
RefreshDropsMaps ==
  /\ refreshes < MaxRefreshes /\ refreshes' = refreshes + 1
  /\ specCache' = 0 /\ maps' = 0
  /\ UNCHANGED <<version, lane, pc, known, read, order, got, told, fails,
                 refusals>>

\* refreshInstruments: the other four maps stay.
RefreshInstruments ==
  /\ refreshes < MaxRefreshes /\ refreshes' = refreshes + 1
  /\ specCache' = 0
  /\ UNCHANGED <<version, maps, lane, pc, known, read, order, got, told, fails,
                 refusals>>

-----------------------------------------------------------------------------
(* submitPostOnlyLimit, submitReduceOnlyMarket.                            *)

\* A refusal of these kinds ends the leg; the core submits again after others.
Ends(kind) == kind \in {"accepted", "Permanent", "PositionClosed"}

Returns(l, kind) ==
  /\ told' = [told EXCEPT ![l] = kind]
  /\ pc' = [pc EXCEPT ![l] = IF Ends(kind) THEN "done" ELSE "idle"]
  /\ LeaveCall(l)

\* contractSizeFor: nothing is sent for a symbol that was never fetched.
ReadSize(l) ==
  /\ pc[l] = "idle"
  /\ \/ maps = 0 /\ Returns(l, "Hard")
     \/ /\ maps # 0
        /\ read' = [read EXCEPT ![l].size = maps]
        /\ pc' = [pc EXCEPT ![l] = IF l \in MarketLegs THEN "volUnit" ELSE "tick"]
        /\ UNCHANGED <<lane, order, got, told>>
  /\ UNCHANGED <<version, specCache, maps, known, bounds>>

ReadTick(l) ==
  /\ pc[l] = "tick" /\ pc' = [pc EXCEPT ![l] = "decimals"]
  /\ read' = [read EXCEPT ![l].tick = maps]
  /\ UNCHANGED <<version, specCache, maps, lane, known, order, got, told, bounds>>

\* priceDecimalsFor; the price is put into the order.
ReadDecimals(l) ==
  /\ pc[l] = "decimals" /\ pc' = [pc EXCEPT ![l] = "volUnit"]
  /\ read' = [read EXCEPT ![l].decimals = maps]
  /\ \E p \in Prices(Price,
                     IF read[l].tick = 0 THEN 0 ELSE Tick(read[l].tick),
                     IF maps = 0 THEN DefaultUnit ELSE Decimals(maps)) :
       order' = [order EXCEPT ![l].price = p]
  /\ UNCHANGED <<version, specCache, maps, lane, known, got, told, bounds>>

\* volUnitFor; an order of less than one volUnit is not sent.
ReadVolUnit(l) ==
  /\ pc[l] = "volUnit"
  /\ \E n \in Volumes(Qty, Size(read[l].size),
                      IF maps = 0 THEN 1 ELSE VolUnit(maps)) :
       \/ n <= 0 /\ Returns(l, "Hard")
       \/ /\ n > 0
          /\ read' = [read EXCEPT ![l].volUnit = maps]
          /\ order' = [order EXCEPT ![l].vol = n]
          /\ pc' = [pc EXCEPT ![l] = "lane"]
          /\ UNCHANGED <<lane, got, told>>
  /\ UNCHANGED <<version, specCache, maps, known, bounds>>

\* acquireOrderLane, the part that concerns other legs.
AcquireLane(l) ==
  /\ pc[l] = "lane"
  /\ \/ /\ lane = NoLeg /\ lane' = l
        /\ pc' = [pc EXCEPT ![l] = "send"]
        /\ UNCHANGED <<read, order, got, told>>
     \/ lane # NoLeg /\ Returns(l, "Throttled")
  /\ UNCHANGED <<version, specCache, maps, known, bounds>>

\* What follows a refusal: classifyReject, and under the lane still the refetch.
Refused(l, text) ==
  IF IsPrecisionReject(text)
  THEN /\ told' = [told EXCEPT ![l] = ClassifyReject(text)]
       /\ pc' = [pc EXCEPT ![l] = "erase"]
       /\ UNCHANGED <<lane, read, order, got>>
  ELSE Returns(l, ClassifyReject(text))

\* submitOrder.
Send(l) ==
  /\ pc[l] = "send"
  /\ \/ Fits(version, l, order[l]) /\ Returns(l, "accepted") /\ UNCHANGED refusals
     \/ /\ ~Fits(version, l, order[l]) /\ Refused(l, PrecisionWords)
        /\ UNCHANGED refusals
     \/ /\ refusals < MaxRefusals /\ refusals' = refusals + 1
        /\ \E text \in Texts : Refused(l, text)
  /\ UNCHANGED <<version, specCache, maps, known, refreshes, fails>>

\* Mutant: the refetch finds the entry that was refused.
EraseNot(l) ==
  /\ pc[l] = "erase" /\ pc' = [pc EXCEPT ![l] = "lookup"]
  /\ UNCHANGED <<version, specCache, maps, lane, known, read, order, got, told,
                 bounds>>

\* refetchSpecAfterPrecisionReject, before it calls instrumentSpec.
Erase(l) ==
  /\ pc[l] = "erase" /\ pc' = [pc EXCEPT ![l] = "lookup"] /\ specCache' = 0
  /\ UNCHANGED <<version, maps, lane, known, read, order, got, told, bounds>>

Leg(l) ==
  \/ Lookup(l) \/ Answer(l) \/ FetchFails(l) \/ Store(l)
  \/ ReadSize(l) \/ ReadTick(l) \/ ReadDecimals(l) \/ ReadVolUnit(l)
  \/ AcquireLane(l) \/ Send(l) \/ Erase(l)

Next == VenueChanges \/ RefreshInstruments \/ \E l \in Legs : Leg(l)

Spec == Init /\ [][Next]_vars

\* The threads of the legs run, their requests end, and the core looks an
\* instrument up before it gives up on it.
FairSpec ==
  Spec /\ \A l \in Legs : WF_vars(Leg(l)) /\ WF_vars(Lookup(l))

-----------------------------------------------------------------------------
(* Properties.                                                             *)

Submitting == {"tick", "decimals", "volUnit", "lane", "send", "erase", "lookup"}
InLane == {"send", "erase", "lookup"}

\* Every variable keeps its type; the lane is held by a leg that is sending or
\* refetching, and by no other.
TypeOK ==
  /\ version \in Versions
  /\ specCache \in 0..MaxVersion /\ maps \in 0..MaxVersion
  /\ lane \in Legs \cup {NoLeg}
  /\ pc \in [Legs -> Submitting \cup {"idle", "fetch", "store", "done"}]
  /\ known \subseteq Legs
  /\ read \in [Legs -> [size : 0..MaxVersion, tick : 0..MaxVersion,
                        decimals : 0..MaxVersion, volUnit : 0..MaxVersion]]
  /\ order \in [Legs -> [price : Int, vol : Int]]
  /\ got \in [Legs -> 0..MaxVersion]
  /\ told \in [Legs -> RejectKinds \cup {"nothing", "accepted"}]
  /\ refreshes \in 0..MaxRefreshes /\ fails \in 0..MaxFails
  /\ refusals \in 0..MaxRefusals
  /\ \A l \in Legs : /\ pc[l] \in InLane => lane = l
                     /\ lane = l => pc[l] \in InLane \cup {"fetch", "store"}
                     /\ pc[l] = "store" => got[l] # 0

Ready(l) == pc[l] \in {"lane", "send"}

\* An order is put together from what the venue told of the symbol, never from
\* the defaults of the getters, whatever is refreshed or erased between their
\* four locks (tickFor, priceDecimalsFor, volUnitFor after contractSizeFor).
FetchedOnly ==
  \A l \in Legs : Ready(l) =>
    /\ read[l].size # 0 /\ read[l].volUnit # 0
    /\ l \notin MarketLegs => read[l].tick # 0 /\ read[l].decimals # 0

\* The version all reads of a submit came from.
OneVersion(l, v) ==
  /\ read[l].size = v /\ read[l].volUnit = v
  /\ l \notin MarketLegs => read[l].tick = v /\ read[l].decimals = v

\* An order made from one version fits that version ("snap to the CURRENT tick
\* grid and round to the venue priceScale"), and an order, whatever versions it
\* was made from, is no larger than the nearest whole number of contracts: the
\* step to whole volUnits never adds to it.  The step before it does, as
\* std::round(qty / cs) goes up by as much as half a contract.
OrderFits ==
  \A l \in Legs : Ready(l) =>
    /\ \A v \in Versions : OneVersion(l, v) => Fits(v, l, order[l])
    /\ 2 * (order[l].vol * Size(read[l].size) - Qty) <= Size(read[l].size)

\* Every leg gets its order in, or is told for good why not: refusals for
\* precision end by themselves once the venue's contract stays as it is.
EveryLegEnds == \A l \in Legs : <>(pc[l] = "done")

=============================================================================
