---------------------------- MODULE GatewayFills ----------------------------
(***************************************************************************)
(* Fill accounting of MexcExecutionGateway: the order-event handler of the *)
(* private stream (one io thread) and cancel() with its REST               *)
(* reconciliation (one thread at a time: the caller holds the order lane)  *)
(* share accountedDealVol under fillM, but call fillCB and orderUpdateCB   *)
(* outside it.  Every lock section and every callback is a step of its     *)
(* own.                                                                    *)
(*                                                                         *)
(* The venue and the execution core are external: the venue is what the    *)
(* gateway sends to and hears from, the core is what its callbacks do      *)
(* ("the core dedups by fillId").  A fill id "orderId-dealVol" is the pair *)
(* <<order, dealVol>>.                                                     *)
(***************************************************************************)
EXTENDS Integers, Sequences

CONSTANTS
  Orders,          \* orders of the account
  Foreign,         \* those without an externalOid (placed by hand)
  NoOrder,         \* the canceller works on no order
  MaxVol,          \* contracts of an order
  MaxCancels,      \* cancel() calls that find the order gone
  MaxGaps,         \* private stream outages
  MaxRedeliveries  \* order events the venue delivers a second time

ASSUME FillsAssumption ==
  /\ Foreign \subseteq Orders
  /\ NoOrder \notin Orders
  /\ MaxVol \in Nat \ {0}
  /\ MaxCancels \in Nat /\ MaxGaps \in Nat /\ MaxRedeliveries \in Nat

VARIABLES
  vState, vDeal,      \* venue: state and cumulative dealVol of each order
  streamUp, channel,  \* order events under way; the head is the one in hand
  processed,          \* events handled, which the venue may send again
  accountedDealVol,   \* an absent entry is 0, as operator[] reads it
  ioPc, ioInc,        \* io thread inside the order-event handler
  restPc, restOrder, restDeal, restInc, \* thread inside cancel()
  seen, credited, told,  \* core: fill ids, contracts, last order update
  verified,           \* orders cancel() reported gone after a REST answer
  gaps, redeliveries, cancels

venueVars == <<vState, vDeal>>
streamVars == <<streamUp, channel, processed>>
ioVars == <<ioPc, ioInc>>
restVars == <<restPc, restOrder, restDeal, restInc, verified>>
coreVars == <<seen, credited, told>>
bounds == <<gaps, redeliveries, cancels>>
vars == <<venueVars, streamVars, accountedDealVol, ioVars, restVars,
          coreVars, bounds>>

Own == Orders \ Foreign
\* "crossed" is Cancelled with errorCode 20.
Terminal == {"completed", "cancelled", "crossed", "invalid"}
States == Terminal \cup {"none", "live"}
Updates == {"none", "Accepted", "Filled", "Cancelled", "Rejected"}
Final == {"Filled", "Cancelled", "Rejected"}
Events == [order : Orders, state : Terminal \cup {"live"}, deal : 0..MaxVol]

Event == Head(channel)

\* OrderUpdate.state as the handler maps it.
Mapped(s) ==
  CASE s = "live" -> "Accepted"
    [] s = "completed" -> "Filled"
    [] s = "cancelled" -> "Cancelled"
    [] OTHER -> "Rejected"

Init ==
  /\ vState = [o \in Orders |-> "none"] /\ vDeal = [o \in Orders |-> 0]
  /\ streamUp = TRUE /\ channel = <<>> /\ processed = {}
  /\ accountedDealVol = [o \in Orders |-> 0]
  /\ ioPc = "idle" /\ ioInc = 0
  /\ restPc = "idle" /\ restOrder = NoOrder /\ restDeal = 0 /\ restInc = 0
  /\ seen = {} /\ credited = [o \in Orders |-> 0]
  /\ told = [o \in Orders |-> "none"] /\ verified = {}
  /\ gaps = 0 /\ redeliveries = 0 /\ cancels = 0

-----------------------------------------------------------------------------
(* The venue and the private stream.                                       *)

\* The order reaches state s with cumulative deal d; the stream, when it is
\* up, carries the event.
VenueStep(o, s, d) ==
  /\ vState' = [vState EXCEPT ![o] = s]
  /\ vDeal' = [vDeal EXCEPT ![o] = d]
  /\ channel' = IF streamUp
                THEN Append(channel, [order |-> o, state |-> s, deal |-> d])
                ELSE channel
  /\ UNCHANGED <<streamUp, processed, accountedDealVol, ioVars, coreVars,
                 bounds>>

\* A submit needs the order lane, so no cancel() is under way.
Submit(o) ==
  /\ vState[o] = "none" /\ restPc = "idle"
  /\ \E s \in {"live", "invalid"} : VenueStep(o, s, vDeal[o])
  /\ UNCHANGED restVars

Trade(o) ==
  /\ vState[o] = "live"
  /\ \E d \in (vDeal[o] + 1)..MaxVol :
       VenueStep(o, IF d = MaxVol THEN "completed" ELSE "live", d)
  /\ UNCHANGED restVars

\* The venue ends the order: a post-only cross, or a cancel of its own.
VenueEnds(o) ==
  /\ vState[o] = "live"
  /\ \/ vDeal[o] = 0 /\ VenueStep(o, "crossed", 0)
     \/ VenueStep(o, "cancelled", vDeal[o])
  /\ UNCHANGED restVars

\* The connection breaks: what is not in hand yet is never delivered.
StreamGap ==
  /\ streamUp /\ gaps < MaxGaps
  /\ streamUp' = FALSE /\ gaps' = gaps + 1
  /\ channel' = IF ioPc = "idle" THEN <<>> ELSE <<Event>>
  /\ UNCHANGED <<venueVars, processed, accountedDealVol, ioVars, restVars,
                 coreVars, redeliveries, cancels>>

StreamBack ==
  /\ ~streamUp /\ streamUp' = TRUE
  /\ UNCHANGED <<venueVars, channel, processed, accountedDealVol, ioVars,
                 restVars, coreVars, bounds>>

Redeliver ==
  /\ streamUp /\ redeliveries < MaxRedeliveries
  /\ redeliveries' = redeliveries + 1
  /\ \E ev \in processed : channel' = Append(channel, ev)
  /\ UNCHANGED <<venueVars, streamUp, processed, accountedDealVol, ioVars,
                 restVars, coreVars, gaps, cancels>>

-----------------------------------------------------------------------------
(* Accounting shared by the two threads.                                   *)

\* Mutant: the new cumulative volume is not stored.
NewlyFilledNoStore(o, cum, inc) ==
  /\ inc = (IF cum <= accountedDealVol[o] THEN 0
            ELSE cum - accountedDealVol[o])
  /\ UNCHANGED accountedDealVol

\* newlyFilled: one section under fillM.
NewlyFilled(o, cum, inc) ==
  /\ inc = (IF cum <= accountedDealVol[o] THEN 0
            ELSE cum - accountedDealVol[o])
  /\ accountedDealVol' = [accountedDealVol EXCEPT ![o] = @ + inc]

\* Mutant: the core credits every fill it is handed.
CreditAlways(o, cum, inc) ==
  /\ seen' = seen \cup {<<o, cum>>}
  /\ credited' = [credited EXCEPT ![o] = @ + inc]
  /\ UNCHANGED told

\* fillCB: the core credits a fill id once.
Credit(o, cum, inc) ==
  /\ seen' = seen \cup {<<o, cum>>}
  /\ credited' = IF <<o, cum>> \in seen THEN credited
                 ELSE [credited EXCEPT ![o] = @ + inc]
  /\ UNCHANGED told

-----------------------------------------------------------------------------
(* The io thread: the order-event handler.                                 *)

\* An event without externalOid: early return.
IoForeign ==
  /\ ioPc = "idle" /\ channel # <<>> /\ Event.order \in Foreign
  /\ channel' = Tail(channel)
  /\ UNCHANGED <<venueVars, streamUp, processed, accountedDealVol, ioVars,
                 restVars, coreVars, bounds>>

\* Mutants: only events of an open order report fills; the check for orders
\* placed by hand is missing.
IoAccountOpenOnly ==
  /\ ioPc = "idle" /\ channel # <<>> /\ Event.order \in Own
  /\ \E inc \in 0..MaxVol :
       /\ NewlyFilled(Event.order, Event.deal, inc)
       /\ ioInc' = inc
       /\ ioPc' = IF inc > 0 /\ Event.state = "live" THEN "fill" ELSE "erase"
  /\ UNCHANGED <<venueVars, streamVars, restVars, coreVars, bounds>>

IoAccountForeign ==
  /\ ioPc = "idle" /\ channel # <<>>
  /\ \E inc \in 0..MaxVol :
       /\ NewlyFilled(Event.order, Event.deal, inc)
       /\ ioInc' = inc
       /\ ioPc' = IF inc > 0 THEN "fill" ELSE "erase"
  /\ UNCHANGED <<venueVars, streamVars, restVars, coreVars, bounds>>

IoAccount ==
  /\ ioPc = "idle" /\ channel # <<>> /\ Event.order \in Own
  /\ \E inc \in 0..MaxVol :
       /\ NewlyFilled(Event.order, Event.deal, inc)
       /\ ioInc' = inc
       /\ ioPc' = IF inc > 0 THEN "fill" ELSE "erase"
  /\ UNCHANGED <<venueVars, streamVars, restVars, coreVars, bounds>>

IoFill ==
  /\ ioPc = "fill" /\ ioPc' = "erase" /\ ioInc' = 0
  /\ Credit(Event.order, Event.deal, ioInc)
  /\ UNCHANGED <<venueVars, streamVars, accountedDealVol, restVars, bounds>>

\* Mutant: the test for a terminal state is inverted.
IoEraseLive ==
  /\ ioPc = "erase" /\ ioPc' = "update"
  /\ accountedDealVol' = [accountedDealVol EXCEPT ![Event.order] =
                            IF Event.state \in Terminal THEN @ ELSE 0]
  /\ UNCHANGED <<venueVars, streamVars, ioInc, restVars, coreVars, bounds>>

IoErase ==
  /\ ioPc = "erase" /\ ioPc' = "update"
  /\ accountedDealVol' = [accountedDealVol EXCEPT ![Event.order] =
                            IF Event.state \in Terminal THEN 0 ELSE @]
  /\ UNCHANGED <<venueVars, streamVars, ioInc, restVars, coreVars, bounds>>

IoUpdate ==
  /\ ioPc = "update" /\ ioPc' = "idle"
  /\ told' = [told EXCEPT ![Event.order] = Mapped(Event.state)]
  /\ processed' = processed \cup {Event}
  /\ channel' = Tail(channel)
  /\ UNCHANGED <<venueVars, streamUp, accountedDealVol, ioInc, restVars, seen,
                 credited, bounds>>

IoStep == IoForeign \/ IoAccount \/ IoFill \/ IoErase \/ IoUpdate

-----------------------------------------------------------------------------
(* cancel(), under the order lane: one call at a time.                     *)

\* The venue cancels the order, whether or not its answer gets back.
CancelLive(o) ==
  /\ restPc = "idle" /\ vState[o] = "live"
  /\ VenueStep(o, "cancelled", vDeal[o])
  /\ UNCHANGED restVars

\* "not exist" / "already": the order is terminal at the venue.
CancelGone(o) ==
  /\ restPc = "idle" /\ vState[o] \in Terminal /\ cancels < MaxCancels
  /\ restPc' = "query" /\ restOrder' = o /\ cancels' = cancels + 1
  /\ UNCHANGED <<venueVars, streamVars, accountedDealVol, ioVars, restDeal,
                 restInc, verified, coreVars, gaps, redeliveries>>

\* cancel() returns false; "verified" when the reconciliation got an answer.
ReturnGone(answered) ==
  /\ restPc' = "idle" /\ restOrder' = NoOrder
  /\ restDeal' = 0 /\ restInc' = 0
  /\ verified' = IF answered THEN verified \cup {restOrder} ELSE verified

\* getOrderByExternalOid.
ReconcileQuery ==
  /\ restPc = "query"
  /\ \/ /\ vDeal[restOrder] > 0
        /\ restPc' = "account" /\ restDeal' = vDeal[restOrder]
        /\ UNCHANGED <<restOrder, restInc, verified>>
     \/ vDeal[restOrder] = 0 /\ ReturnGone(TRUE)
     \/ ReturnGone(FALSE)  \* the request failed: logged, still "gone"
  /\ UNCHANGED <<venueVars, streamVars, accountedDealVol, ioVars, coreVars,
                 bounds>>

ReconcileAccount ==
  /\ restPc = "account"
  /\ \E inc \in 0..MaxVol :
       /\ NewlyFilled(restOrder, restDeal, inc)
       /\ \/ /\ inc > 0
             /\ restPc' = "fill" /\ restInc' = inc
             /\ UNCHANGED <<restOrder, restDeal, verified>>
          \/ inc = 0 /\ ReturnGone(TRUE)
  /\ UNCHANGED <<venueVars, streamVars, ioVars, coreVars, bounds>>

\* Mutant: the fill found by the reconciliation is not handed to the core.
ReconcileFillDropped ==
  /\ restPc = "fill" /\ ReturnGone(TRUE)
  /\ UNCHANGED <<venueVars, streamVars, accountedDealVol, ioVars, coreVars,
                 bounds>>

ReconcileFill ==
  /\ restPc = "fill" /\ ReturnGone(TRUE)
  /\ Credit(restOrder, restDeal, restInc)
  /\ UNCHANGED <<venueVars, streamVars, accountedDealVol, ioVars, bounds>>

ReconcileStep == ReconcileQuery \/ ReconcileAccount \/ ReconcileFill

Next ==
  \/ \E o \in Orders : Submit(o) \/ Trade(o) \/ VenueEnds(o)
  \/ StreamGap \/ StreamBack \/ Redeliver
  \/ IoStep
  \/ \E o \in Own : CancelLive(o) \/ CancelGone(o)
  \/ ReconcileStep

Spec == Init /\ [][Next]_vars

\* The io_context thread and the thread inside cancel() keep running; the REST
\* query of the reconciliation need not come back.
FairSpec ==
  Spec /\ WF_vars(IoStep) /\ WF_vars(ReconcileAccount \/ ReconcileFill)

-----------------------------------------------------------------------------
(* Properties.                                                             *)

\* Every variable keeps its type.
TypeOK ==
  /\ vState \in [Orders -> States] /\ vDeal \in [Orders -> 0..MaxVol]
  /\ streamUp \in BOOLEAN /\ channel \in Seq(Events)
  /\ processed \subseteq Events
  /\ accountedDealVol \in [Orders -> 0..MaxVol]
  /\ ioPc \in {"idle", "fill", "erase", "update"} /\ ioInc \in 0..MaxVol
  /\ restPc \in {"idle", "query", "account", "fill"}
  /\ restOrder \in Orders \cup {NoOrder}
  /\ (restPc = "idle") <=> (restOrder = NoOrder)
  /\ restDeal \in 0..MaxVol /\ restInc \in 0..MaxVol
  /\ seen \subseteq Orders \X (0..MaxVol)
  /\ credited \in [Orders -> Nat] /\ told \in [Orders -> Updates]
  /\ verified \subseteq Orders
  /\ gaps \in 0..MaxGaps /\ redeliveries \in 0..MaxRedeliveries
  /\ cancels \in 0..MaxCancels
  /\ ioPc # "idle" => channel # <<>>

\* The core is never credited more than the venue dealt, whatever the
\* interleaving of stream events, outages and reconciliations; an order placed
\* by hand is never credited (newlyFilled, the two fillCB calls, the erase).
NoOverCredit ==
  \A o \in Orders : credited[o] <= IF o \in Foreign THEN 0 ELSE vDeal[o]

\* Once both threads have left the gateway, an order the core was told is over,
\* or that cancel() reported gone after a REST answer, has every contract
\* credited, missed events and races included (handler, lines 382-436).
SettledCredit ==
  (ioPc = "idle" /\ restPc = "idle") =>
    \A o \in Own : told[o] \in Final \/ o \in verified => credited[o] = vDeal[o]

\* The core hears of the last fill before it hears that the order is over
\* ("the core has the qty before Filled/Cancelled clears the active order").
FillBeforeFinal ==
  \A o \in Own : told[o] \in Final => credited[o] = vDeal[o]

\* An order the core was told is over never comes back to it.
FinalStays ==
  [][\A o \in Orders : told[o] \in Final => told'[o] = told[o]]_vars

\* The accounting is a FillLedger: the core is never credited more than was
\* dealt, hears of an end only when the venue ended the order, and nothing of
\* it afterwards, whatever two threads, outages and missed events do to the
\* books (the whole order-event handler, newlyFilled, reconcileMissedFills).
Promised == INSTANCE FillLedger WITH
  deal <- vDeal, over <- {o \in Orders : vState[o] \in Terminal}

Implements == Promised!Spec

\* Until a first outage, every contract dealt reaches the core (the handler, with
\* cancel() racing it for the same increments).
EveryDealCredited ==
  \A o \in Own : \A d \in 1..MaxVol :
    (vDeal[o] >= d) ~> (credited[o] >= d \/ gaps > 0)

-----------------------------------------------------------------------------
(* The inductive invariant behind the safety properties when no event is   *)
(* delivered twice.                                                        *)

\* Contracts a thread has taken from newlyFilled and the core has yet to
\* credit; 0 when the core will drop them as a known fill id.
IoPending(o) ==
  IF ioPc = "fill" /\ Event.order = o /\ <<o, Event.deal>> \notin seen
  THEN ioInc ELSE 0
RestPending(o) ==
  IF restPc = "fill" /\ restOrder = o /\ <<o, restDeal>> \notin seen
  THEN restInc ELSE 0

\* The dedup entry of o is gone for good: its last event has been handled.
Erased(o) ==
  \/ told[o] \in Final
  \/ ioPc = "update" /\ Event.order = o /\ Event.state \in Terminal

\* Events come in the venue's order; nothing follows a terminal event.
StreamOrder ==
  /\ \A i \in 1..Len(channel) :
       /\ channel[i].deal <= vDeal[channel[i].order]
       /\ told[channel[i].order] \notin Final
       /\ channel[i].state \in Terminal =>
            /\ vState[channel[i].order] \in Terminal
            /\ channel[i].deal = vDeal[channel[i].order]
            /\ \A j \in (i + 1)..Len(channel) :
                 channel[j].order # channel[i].order
  /\ ioPc # "idle" => Event.order \in Own
  /\ \A o \in Orders : told[o] \in Final =>
       o \in Own /\ vState[o] \in Terminal

\* A reconciliation works on an order that is over, with its final volume.
CancelTruth ==
  /\ restPc # "idle" => restOrder \in Own /\ vState[restOrder] \in Terminal
  /\ restPc \in {"account", "fill"} =>
       restDeal = vDeal[restOrder] /\ restDeal > 0
  /\ \A o \in verified :
       /\ o \in Own /\ vState[o] \in Terminal
       /\ Erased(o) \/ accountedDealVol[o] = vDeal[o]

\* What the core has and what is under way to it add up to what the dedup map
\* accounts for, and to the venue's volume once the entry was dropped.
Balance(o) ==
  credited[o] + IoPending(o) + RestPending(o) =
    IF Erased(o) THEN vDeal[o] ELSE accountedDealVol[o]

\* Before its entry is dropped: no thread holds a fill id the core knows, and
\* the id of the present volume is with the core or in the hand of a thread.
LiveIds(o) ==
  ~Erased(o) =>
    /\ \A d \in 0..MaxVol : <<o, d>> \in seen => d <= accountedDealVol[o]
    /\ ioPc # "idle" /\ Event.order = o => Event.deal <= accountedDealVol[o]
    /\ ioPc = "fill" /\ Event.order = o => <<o, Event.deal>> \notin seen
    /\ restPc = "fill" /\ restOrder = o =>
         /\ restDeal = accountedDealVol[o] /\ <<o, restDeal>> \notin seen
         /\ ioPc = "fill" /\ Event.order = o => Event.deal < restDeal
    /\ \/ accountedDealVol[o] = 0
       \/ <<o, accountedDealVol[o]>> \in seen
       \/ /\ ioPc = "fill" /\ Event.order = o
          /\ Event.deal = accountedDealVol[o]
       \/ restPc = "fill" /\ restOrder = o

\* Afterwards the id of the final volume is known, or about to be.
DoneIds(o) ==
  Erased(o) =>
    \/ vDeal[o] = 0
    \/ <<o, vDeal[o]>> \in seen
    \/ restPc = "fill" /\ restOrder = o

FillIds(o) ==
  /\ accountedDealVol[o] <= vDeal[o]
  /\ o \in Foreign => accountedDealVol[o] = 0
  /\ LiveIds(o) /\ DoneIds(o)

\* The books of the two threads and of the core agree at every step, also
\* between newlyFilled and the callback (newlyFilled, fillCB, the erase).
Ledger ==
  /\ StreamOrder /\ CancelTruth
  /\ \A o \in Orders : Balance(o) /\ FillIds(o)

=============================================================================
