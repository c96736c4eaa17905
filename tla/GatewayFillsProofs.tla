------------------------- MODULE GatewayFillsProofs -------------------------
(***************************************************************************)
(* Proofs about GatewayFills, for every set of orders and every bound.     *)
(***************************************************************************)
EXTENDS GatewayFills, SequenceTheorems, TLAPS

\* The event in hand is an event, and taking it off leaves a channel.
LEMMA InHand ==
  ASSUME TypeOK, channel # <<>>
  PROVE  /\ Event \in Events
         /\ Event.order \in Orders /\ Event.deal \in 0..MaxVol
         /\ Event.state \in Terminal \cup {"live"}
         /\ Tail(channel) \in Seq(Events)
  <1>1. Event \in Events /\ Tail(channel) \in Seq(Events)
    BY HeadTailProperties DEF TypeOK, Event
  <1> QED BY <1>1 DEF Events

\* The shared accounting keeps volumes within an order's volume.
LEMMA NewlyFilledType ==
  ASSUME TypeOK, NEW o \in Orders, NEW cum \in 0..MaxVol,
         NEW inc \in 0..MaxVol, NewlyFilled(o, cum, inc)
  PROVE  accountedDealVol' \in [Orders -> 0..MaxVol]
  <1>1. accountedDealVol[o] \in 0..MaxVol /\ MaxVol \in Nat
    BY FillsAssumption DEF TypeOK
  <1>2. accountedDealVol[o] + inc \in 0..MaxVol
    BY <1>1 DEF NewlyFilled
  <1> QED BY <1>2 DEF NewlyFilled, TypeOK

\* A fill handed to the core keeps its ledger well typed.
LEMMA CreditType ==
  ASSUME TypeOK, NEW o \in Orders, NEW cum \in 0..MaxVol,
         NEW inc \in 0..MaxVol, Credit(o, cum, inc)
  PROVE  /\ seen' \subseteq Orders \X (0..MaxVol)
         /\ credited' \in [Orders -> Nat] /\ told' = told
  <1>1. credited[o] + inc \in Nat
    BY FillsAssumption DEF TypeOK
  <1>2. seen' \subseteq Orders \X (0..MaxVol)
    BY DEF Credit, TypeOK
  <1>3. credited' \in [Orders -> Nat]
    <2>1. CASE <<o, cum>> \in seen
      BY <2>1 DEF Credit, TypeOK
    <2>2. CASE <<o, cum>> \notin seen
      BY <1>1, <2>2 DEF Credit, TypeOK
    <2> QED BY <2>1, <2>2
  <1> QED BY <1>2, <1>3 DEF Credit

\* Every variable keeps its type: the type invariant of GatewayFills.
THEOREM TypeCorrect == Spec => []TypeOK
  <1> USE FillsAssumption
  <1>1. Init => TypeOK
    BY DEF Init, TypeOK, States, Updates
  <1>2. TypeOK /\ [Next]_vars => TypeOK'
    <2> SUFFICES ASSUME TypeOK, [Next]_vars PROVE TypeOK'
      OBVIOUS
    <2>0. ASSUME NEW o \in Orders, NEW s \in Terminal \cup {"live"},
                 NEW d \in 0..MaxVol, VenueStep(o, s, d),
                 UNCHANGED restVars
          PROVE  TypeOK'
      <3>1. [order |-> o, state |-> s, deal |-> d] \in Events
        BY DEF Events
      <3>2. channel' \in Seq(Events) /\ (channel # <<>> => channel' # <<>>)
        <4>1. CASE streamUp
          <5>1. /\ channel \in Seq(Events)
                /\ channel' = Append(channel,
                               [order |-> o, state |-> s, deal |-> d])
            BY <2>0, <4>1 DEF VenueStep, TypeOK
          <5> QED BY <5>1, <3>1, AppendProperties
        <4>2. CASE ~streamUp
          BY <2>0, <4>2 DEF VenueStep, TypeOK
        <4> QED BY <4>1, <4>2
      <3> QED
        <4>1. /\ vState' \in [Orders -> States]
              /\ vDeal' \in [Orders -> 0..MaxVol]
          BY <2>0 DEF VenueStep, TypeOK, States
        <4> QED
          BY <2>0, <3>2, <4>1
          DEF VenueStep, TypeOK, restVars, ioVars, coreVars, bounds
    <2>1. ASSUME NEW o \in Orders, Submit(o) PROVE TypeOK'
      <3>1. vDeal[o] \in 0..MaxVol
        BY DEF TypeOK
      <3> QED BY <2>0, <2>1, <3>1 DEF Submit, Terminal
    <2>2. ASSUME NEW o \in Orders, Trade(o) PROVE TypeOK'
      <3>1. PICK d \in (vDeal[o] + 1)..MaxVol :
              VenueStep(o, IF d = MaxVol THEN "completed" ELSE "live", d)
        BY <2>2 DEF Trade
      <3>2. d \in 0..MaxVol
        BY DEF TypeOK
      <3>3. UNCHANGED restVars
        BY <2>2 DEF Trade
      <3>4. CASE d = MaxVol
        BY <2>0, <3>1, <3>2, <3>3, <3>4 DEF States, Terminal
      <3>5. CASE d # MaxVol
        BY <2>0, <3>1, <3>2, <3>3, <3>5 DEF States
      <3> QED BY <3>4, <3>5
    <2>3. ASSUME NEW o \in Orders, VenueEnds(o) PROVE TypeOK'
      <3>1. vDeal[o] \in 0..MaxVol
        BY DEF TypeOK
      <3> QED BY <2>0, <2>3, <3>1 DEF VenueEnds, States, Terminal
    <2>4. CASE StreamGap
      <3>1. channel' \in Seq(Events) /\ (ioPc # "idle" => channel' # <<>>)
        <4>1. CASE ioPc = "idle"
          BY <2>4, <4>1 DEF StreamGap, TypeOK, ioVars
        <4>2. CASE ioPc # "idle"
          <5>1. channel' = <<Event>> /\ Event \in Events
            BY <2>4, <4>2, InHand DEF StreamGap, TypeOK
          <5> QED BY <5>1
        <4> QED BY <4>1, <4>2
      <3>2. gaps' \in 0..MaxGaps /\ streamUp' \in BOOLEAN
        <4>1. /\ gaps \in 0..MaxGaps /\ gaps < MaxGaps /\ gaps' = gaps + 1
              /\ streamUp' = FALSE
          BY <2>4 DEF StreamGap, TypeOK
        <4>2. gaps' \in 0..MaxGaps
          BY <4>1
        <4> QED BY <4>1, <4>2
      <3>3. UNCHANGED <<venueVars, processed, accountedDealVol, ioVars,
                        restVars, coreVars, redeliveries, cancels>>
        BY <2>4 DEF StreamGap
      <3> QED
        BY <3>1, <3>2, <3>3
        DEF TypeOK, venueVars, ioVars, restVars, coreVars
    <2>5. CASE StreamBack
      BY <2>5 DEF StreamBack, TypeOK, venueVars, ioVars, restVars, coreVars,
                  bounds
    <2>6. CASE Redeliver
      <3>1. channel' \in Seq(Events) /\ channel' # <<>>
        BY <2>6, AppendProperties DEF Redeliver, TypeOK
      <3> QED
        BY <2>6, <3>1
        DEF Redeliver, TypeOK, venueVars, ioVars, restVars, coreVars
    <2>7. CASE IoForeign
      BY <2>7, InHand
      DEF IoForeign, TypeOK, venueVars, ioVars, restVars, coreVars, bounds
    <2>8. CASE IoAccount
      <3>1. PICK inc \in 0..MaxVol :
              /\ NewlyFilled(Event.order, Event.deal, inc)
              /\ ioInc' = inc
              /\ ioPc' = IF inc > 0 THEN "fill" ELSE "erase"
        BY <2>8 DEF IoAccount
      <3>2. channel # <<>>
        BY <2>8 DEF IoAccount
      <3>3. accountedDealVol' \in [Orders -> 0..MaxVol]
        BY <3>1, <3>2, InHand, NewlyFilledType
      <3>4. UNCHANGED <<venueVars, streamVars, restVars, coreVars, bounds>>
        BY <2>8 DEF IoAccount
      <3> QED
        BY <3>1, <3>2, <3>3, <3>4
        DEF TypeOK, venueVars, streamVars, restVars, coreVars, bounds
    <2>9. CASE IoFill
      <3>1. channel # <<>>
        BY <2>9 DEF IoFill, TypeOK
      <3> QED
        <4>1. ioInc \in 0..MaxVol /\ Credit(Event.order, Event.deal, ioInc)
          BY <2>9 DEF IoFill, TypeOK
        <4>2. /\ seen' \subseteq Orders \X (0..MaxVol)
              /\ credited' \in [Orders -> Nat] /\ told' = told
          BY <4>1, <3>1, InHand, CreditType
        <4> QED
          BY <2>9, <3>1, <4>2
          DEF IoFill, TypeOK, venueVars, streamVars, restVars, bounds
    <2>10. CASE IoErase
      <3>1. channel # <<>>
        BY <2>10 DEF IoErase, TypeOK
      <3> QED
        <4>1. accountedDealVol' \in [Orders -> 0..MaxVol]
          <5>1. accountedDealVol \in [Orders -> 0..MaxVol] /\ 0 \in 0..MaxVol
            BY FillsAssumption DEF TypeOK
          <5>2. accountedDealVol' =
                  [accountedDealVol EXCEPT ![Event.order] =
                     IF Event.state \in Terminal THEN 0 ELSE @]
            BY <2>10 DEF IoErase
          <5> HIDE DEF TypeOK
          <5> QED BY <5>1, <5>2
        <4> QED
          BY <2>10, <3>1, <4>1
          DEF IoErase, TypeOK, venueVars, streamVars, restVars, coreVars,
              bounds
    <2>11. CASE IoUpdate
      <3>1. channel # <<>>
        BY <2>11 DEF IoUpdate, TypeOK
      <3>2. Mapped(Event.state) \in Updates
        BY DEF Mapped, Updates
      <3> QED
        BY <2>11, <3>1, <3>2, InHand
        DEF IoUpdate, TypeOK, venueVars, restVars, bounds
    <2>12. ASSUME NEW o \in Own, CancelLive(o) PROVE TypeOK'
      <3>1. o \in Orders /\ vDeal[o] \in 0..MaxVol
        BY DEF TypeOK, Own
      <3> QED BY <2>0, <2>12, <3>1 DEF CancelLive, States, Terminal
    <2>13. ASSUME NEW o \in Own, CancelGone(o) PROVE TypeOK'
      BY <2>13
      DEF CancelGone, TypeOK, Own, venueVars, streamVars, ioVars, coreVars
    <2>14. CASE ReconcileQuery
      <3>1. restOrder \in Orders
        BY <2>14 DEF ReconcileQuery, TypeOK
      <3> QED
        BY <2>14, <3>1
        DEF ReconcileQuery, ReturnGone, TypeOK, venueVars, streamVars, ioVars,
            coreVars, bounds
    <2>15. CASE ReconcileAccount
      <3>1. restOrder \in Orders
        BY <2>15 DEF ReconcileAccount, TypeOK
      <3> QED
        <4>1. PICK inc \in 0..MaxVol :
                /\ NewlyFilled(restOrder, restDeal, inc)
                /\ \/ /\ inc > 0
                      /\ restPc' = "fill" /\ restInc' = inc
                      /\ UNCHANGED <<restOrder, restDeal, verified>>
                   \/ inc = 0 /\ ReturnGone(TRUE)
          BY <2>15 DEF ReconcileAccount
        <4>2. restDeal \in 0..MaxVol
          BY DEF TypeOK
        <4>3. accountedDealVol' \in [Orders -> 0..MaxVol]
          BY <4>1, <4>2, <3>1, NewlyFilledType
        <4>4. UNCHANGED <<venueVars, streamVars, ioVars, coreVars, bounds>>
          BY <2>15 DEF ReconcileAccount
        <4> QED
          BY <4>1, <4>3, <4>4, <3>1
          DEF ReturnGone, TypeOK, venueVars, streamVars, ioVars, coreVars,
              bounds
    <2>16. CASE ReconcileFill
      <3>1. restOrder \in Orders
        BY <2>16 DEF ReconcileFill, TypeOK
      <3> QED
        <4>1. /\ restDeal \in 0..MaxVol /\ restInc \in 0..MaxVol
              /\ Credit(restOrder, restDeal, restInc)
          BY <2>16 DEF ReconcileFill, TypeOK
        <4>2. /\ seen' \subseteq Orders \X (0..MaxVol)
              /\ credited' \in [Orders -> Nat] /\ told' = told
          BY <4>1, <3>1, CreditType
        <4> QED
          BY <2>16, <3>1, <4>2
          DEF ReconcileFill, ReturnGone, TypeOK, venueVars, streamVars,
              ioVars, bounds
    <2>17. CASE UNCHANGED vars
      BY <2>17 DEF TypeOK, vars, venueVars, streamVars, ioVars, restVars,
                   coreVars, bounds
    <2> QED
      BY <2>1, <2>2, <2>3, <2>4, <2>5, <2>6, <2>7, <2>8, <2>9, <2>10, <2>11,
         <2>12, <2>13, <2>14, <2>15, <2>16, <2>17
      DEF Next, IoStep, ReconcileStep
  <1> QED BY <1>1, <1>2, PTL DEF Spec

-----------------------------------------------------------------------------
(* The ledger.                                                             *)

\* The next event in hand after one is taken off, and what the others are.
LEMMA TakenOff ==
  ASSUME TypeOK, channel # <<>>
  PROVE  /\ Len(Tail(channel)) = Len(channel) - 1
         /\ \A i \in 1..Len(Tail(channel)) :
              i + 1 \in 1..Len(channel) /\ Tail(channel)[i] = channel[i + 1]
         /\ 1 \in 1..Len(channel) /\ Event = channel[1]
  BY HeadTailProperties DEF TypeOK, Event

\* A step of the venue keeps the books balanced: it moves no money of the
\* gateway, and the volume of an order that is over is frozen.
LEMMA VenueKeepsLedger ==
  ASSUME TypeOK, Ledger, NEW o \in Orders, NEW s \in Terminal \cup {"live"},
         NEW d \in 0..MaxVol, VenueStep(o, s, d), UNCHANGED restVars,
         vState[o] \in {"none", "live"}, d >= vDeal[o]
  PROVE  Ledger'
  <1> DEFINE ev == [order |-> o, state |-> s, deal |-> d]
  <1>0. /\ vState' = [vState EXCEPT ![o] = s]
        /\ vDeal' = [vDeal EXCEPT ![o] = d]
        /\ UNCHANGED <<accountedDealVol, ioPc, ioInc, restPc, restOrder,
                       restDeal, restInc, seen, credited, told, verified>>
    BY DEF VenueStep, ioVars, restVars, coreVars
  <1>1. \/ channel' = channel
        \/ /\ channel' = Append(channel, ev)
           /\ Len(channel') = Len(channel) + 1
           /\ \A i \in 1..Len(channel) : channel'[i] = channel[i]
           /\ channel'[Len(channel) + 1] = ev
    BY AppendProperties DEF VenueStep, TypeOK, Events
  <1>2. channel # <<>> => channel' # <<>> /\ Event' = Event
    BY <1>1, HeadTailProperties, AppendProperties DEF TypeOK, Event
  <1>3. vState[o] \notin Terminal /\ o \notin verified
    BY DEF Terminal, Ledger, CancelTruth
  <1>4. told[o] \notin Final
    BY <1>3 DEF Ledger, StreamOrder
  <1>5. StreamOrder'
    <2>1. ASSUME NEW i \in 1..Len(channel)
          PROVE  /\ channel[i] \in Events /\ channel[i].order \in Orders
                 /\ channel[i].deal <= vDeal'[channel[i].order]
                 /\ told'[channel[i].order] \notin Final
                 /\ channel[i].state \in Terminal =>
                      /\ channel[i].order # o
                      /\ vState'[channel[i].order] \in Terminal
                      /\ channel[i].deal = vDeal'[channel[i].order]
      <3>1. channel[i] \in Events
        BY DEF TypeOK
      <3>2. /\ channel[i].order \in Orders /\ channel[i].deal \in 0..MaxVol
        BY <3>1 DEF Events
      <3>3. /\ channel[i].deal <= vDeal[channel[i].order]
            /\ told[channel[i].order] \notin Final
            /\ channel[i].state \in Terminal =>
                 /\ vState[channel[i].order] \in Terminal
                 /\ channel[i].deal = vDeal[channel[i].order]
        BY DEF Ledger, StreamOrder
      <3>4. vDeal[o] \in Int /\ d \in Int /\ vDeal \in [Orders -> 0..MaxVol]
            /\ vState \in [Orders -> States]
        <4>1. vDeal \in [Orders -> 0..MaxVol] /\ vState \in [Orders -> States]
          BY DEF TypeOK
        <4> HIDE DEF TypeOK
        <4> QED BY <4>1, FillsAssumption
      <3>5. vDeal[channel[i].order] <= vDeal'[channel[i].order] /\ told' = told
        <4>1. vDeal'[channel[i].order] =
                IF channel[i].order = o THEN d ELSE vDeal[channel[i].order]
          BY <1>0, <3>2, <3>4
        <4>2. vDeal[channel[i].order] \in Int
          BY <3>2, <3>4
        <4> QED BY <1>0, <3>4, <4>1, <4>2
      <3>6. channel[i].state \in Terminal => channel[i].order # o
        BY <1>3, <3>3
      <3>7. channel[i].order # o =>
              /\ vState'[channel[i].order] = vState[channel[i].order]
              /\ vDeal'[channel[i].order] = vDeal[channel[i].order]
        BY <1>0, <3>2, <3>4
      <3>8. vDeal[channel[i].order] \in Int /\ vDeal'[channel[i].order] \in Int
        BY <1>0, <3>2, <3>4
      <3> QED BY <3>1, <3>2, <3>3, <3>5, <3>6, <3>7, <3>8
    <2>2. \A i \in 1..Len(channel) : channel[i].state \in Terminal =>
            \A j \in (i + 1)..Len(channel) :
              channel[j].order # channel[i].order
      BY DEF Ledger, StreamOrder
    <2>3. /\ ioPc' # "idle" => Event'.order \in Own
          /\ \A p \in Orders : told'[p] \in Final =>
               p \in Own /\ vState'[p] \in Terminal
      BY <1>0, <1>2, <1>4 DEF Ledger, StreamOrder, TypeOK
    <2>4. Len(channel) \in Nat
      BY LenProperties DEF TypeOK
    <2>5. CASE channel' = channel
      BY <2>1, <2>2, <2>3, <2>5 DEF StreamOrder
    <2>6. CASE /\ Len(channel') = Len(channel) + 1
               /\ \A i \in 1..Len(channel) : channel'[i] = channel[i]
               /\ channel'[Len(channel) + 1] = ev
      <3>1. ev.order = o /\ ev.deal = d /\ ev.state = s
        OBVIOUS
      <3>2. vDeal'[o] = d /\ vState'[o] = s /\ told'[o] \notin Final
        BY <1>0, <1>4 DEF TypeOK
      <3>3. d <= d
        BY FillsAssumption
      <3> HIDE DEF ev
      <3>4. ASSUME NEW i \in 1..Len(channel')
            PROVE  /\ channel'[i].deal <= vDeal'[channel'[i].order]
                   /\ told'[channel'[i].order] \notin Final
                   /\ channel'[i].state \in Terminal =>
                        /\ vState'[channel'[i].order] \in Terminal
                        /\ channel'[i].deal = vDeal'[channel'[i].order]
                        /\ \A j \in (i + 1)..Len(channel') :
                             channel'[j].order # channel'[i].order
        <4>1. CASE i \in 1..Len(channel)
          BY <2>1, <2>2, <2>4, <2>6, <3>1, <4>1
        <4>2. CASE i = Len(channel) + 1
          BY <2>4, <2>6, <3>1, <3>2, <3>3, <4>2
        <4> QED BY <2>4, <2>6, <4>1, <4>2
      <3> QED BY <2>3, <3>4 DEF StreamOrder
    <2> QED BY <1>1, <2>5, <2>6
  <1>6. \A p \in Orders : Erased(p)' = Erased(p) /\ (Erased(p) => p # o)
    BY <1>0, <1>2, <1>3, <1>4, TakenOff DEF Erased, Ledger, StreamOrder, TypeOK
  <1>7. CancelTruth'
    BY <1>0, <1>3, <1>6 DEF Ledger, CancelTruth, TypeOK, Own
  <1>8. ASSUME NEW p \in Orders PROVE Balance(p)' /\ FillIds(p)'
    <2>1. IoPending(p)' = IoPending(p) /\ RestPending(p)' = RestPending(p)
      BY <1>0, <1>2 DEF IoPending, RestPending, TypeOK
    <2>2. Balance(p)'
      BY <1>0, <1>6, <2>1 DEF Ledger, Balance, TypeOK
    <2>3. accountedDealVol'[p] <= vDeal'[p]
      <3>1. accountedDealVol[p] <= vDeal[p]
        BY DEF Ledger, FillIds, LiveIds, DoneIds
      <3>2. /\ accountedDealVol[p] \in Int /\ vDeal[p] \in Int
            /\ vDeal[o] \in Int /\ d \in Int /\ p \in DOMAIN vDeal
        BY FillsAssumption DEF TypeOK
      <3> QED BY <1>0, <3>1, <3>2
    <2>4. FillIds(p)'
      BY <1>0, <1>2, <1>6, <2>3 DEF Ledger, FillIds, LiveIds, DoneIds, TypeOK
    <2> QED BY <2>2, <2>4
  <1> QED BY <1>5, <1>7, <1>8 DEF Ledger

\* The facts StreamOrder states of the events still hold of a tail.
LEMMA TailKeepsOrder ==
  ASSUME TypeOK, StreamOrder, channel # <<>>, NEW i \in 1..Len(Tail(channel))
  PROVE  LET e == Tail(channel)[i] IN
         /\ e.order \in Orders
         /\ e.deal <= vDeal[e.order] /\ told[e.order] \notin Final
         /\ Event.state \in Terminal => e.order # Event.order
         /\ e.state \in Terminal =>
              /\ vState[e.order] \in Terminal /\ e.deal = vDeal[e.order]
              /\ \A j \in (i + 1)..Len(Tail(channel)) :
                   Tail(channel)[j].order # e.order
  <1>1. /\ i + 1 \in 1..Len(channel) /\ Tail(channel)[i] = channel[i + 1]
        /\ i + 1 \in (1 + 1)..Len(channel)
        /\ 1 \in 1..Len(channel) /\ Event = channel[1]
    BY TakenOff
  <1>2. ASSUME NEW j \in (i + 1)..Len(Tail(channel))
        PROVE  /\ j + 1 \in ((i + 1) + 1)..Len(channel)
               /\ Tail(channel)[j] = channel[j + 1]
    <2>1. j \in 1..Len(Tail(channel)) /\ j + 1 \in 1..Len(channel)
      BY TakenOff, LenProperties DEF TypeOK
    <2> QED BY <2>1, TakenOff
  <1>3. channel[i + 1].order \in Orders
    <2>1. channel[i + 1] \in Events
      BY <1>1, ElementOfSeq DEF TypeOK
    <2> QED BY <2>1 DEF Events
  <1> QED BY <1>1, <1>2, <1>3 DEF StreamOrder

\* What the gateway does with the stream only: no callback, no accounting.
LEMMA StreamKeepsLedger ==
  ASSUME TypeOK, Ledger, StreamGap \/ StreamBack \/ IoForeign
  PROVE  Ledger'
  <1>0. UNCHANGED <<vState, vDeal, accountedDealVol, ioPc, ioInc, restPc,
                    restOrder, restDeal, restInc, seen, credited, told,
                    verified>>
    BY DEF StreamGap, StreamBack, IoForeign, venueVars, ioVars, restVars,
           coreVars
  <1>1. ioPc # "idle" => Event' = Event
    <2>1. CASE StreamGap
      BY <2>1 DEF StreamGap, Event
    <2>2. CASE StreamBack
      BY <2>2 DEF StreamBack, Event
    <2> QED BY <2>1, <2>2 DEF IoForeign
  <1>2. \A p \in Orders : Erased(p)' = Erased(p)
    BY <1>0, <1>1 DEF Erased
  <1>3. StreamOrder'
    <2>1. CASE channel' = channel
      BY <1>0, <1>1, <2>1 DEF Ledger, StreamOrder
    <2>2. CASE channel' = <<>>
      BY <1>0, <1>1, <2>2 DEF Ledger, StreamOrder
    <2>3. CASE channel' = <<Event>> /\ channel # <<>>
      <3>1. Event = channel[1] /\ 1 \in 1..Len(channel)
        BY <2>3, TakenOff
      <3>2. channel'[1] = Event /\ Len(channel') = 1
        BY <2>3
      <3> QED BY <1>0, <1>1, <3>1, <3>2 DEF Ledger, StreamOrder
    <2>4. CASE IoForeign
      <3>1. channel' = Tail(channel) /\ channel # <<>> /\ StreamOrder
            /\ ioPc = "idle"
        BY <2>4 DEF IoForeign, Ledger
      <3>2. \A p \in Orders : told[p] \in Final =>
              p \in Own /\ vState[p] \in Terminal
        BY <3>1 DEF StreamOrder
      <3> QED BY <1>0, <3>1, <3>2, TailKeepsOrder DEF StreamOrder
    <2> QED
      BY <2>1, <2>2, <2>3, <2>4 DEF StreamGap, StreamBack, TypeOK
  <1>4. CancelTruth'
    BY <1>0, <1>2 DEF Ledger, CancelTruth, Own
  <1>5. ASSUME NEW p \in Orders PROVE Balance(p)' /\ FillIds(p)'
    <2>1. IoPending(p)' = IoPending(p) /\ RestPending(p)' = RestPending(p)
      BY <1>0, <1>1 DEF IoPending, RestPending
    <2>2. Balance(p)'
      BY <1>0, <1>2, <2>1 DEF Ledger, Balance
    <2>3. FillIds(p)'
      BY <1>0, <1>1, <1>2 DEF Ledger, FillIds, LiveIds, DoneIds
    <2> QED BY <2>2, <2>3
  <1> QED BY <1>3, <1>4, <1>5 DEF Ledger

\* The handler accounts an event: the increment is under way to the core.
LEMMA IoAccountKeepsLedger ==
  ASSUME TypeOK, Ledger, IoAccount
  PROVE  Ledger'
  <1>0. /\ UNCHANGED <<vState, vDeal, channel, restPc, restOrder, restDeal,
                       restInc, seen, credited, told, verified>>
        /\ ioPc = "idle" /\ channel # <<>> /\ Event.order \in Own
    BY DEF IoAccount, venueVars, streamVars, restVars, coreVars
  <1>1. PICK e \in Own, cum \in 0..MaxVol :
          e = Event.order /\ cum = Event.deal /\ Event' = Event
          /\ e \in Orders
    BY <1>0, InHand DEF Event
  <1>2. PICK inc \in 0..MaxVol :
          /\ inc = (IF cum <= accountedDealVol[e] THEN 0
                    ELSE cum - accountedDealVol[e])
          /\ accountedDealVol' = [accountedDealVol EXCEPT ![e] = @ + inc]
          /\ ioInc' = inc
          /\ ioPc' = IF inc > 0 THEN "fill" ELSE "erase"
    BY <1>1 DEF IoAccount, NewlyFilled
  <1>3. \A p \in Orders : /\ accountedDealVol[p] \in Nat /\ vDeal[p] \in Nat
                          /\ credited[p] \in Nat /\ restInc \in Nat
    BY FillsAssumption DEF TypeOK
  <1>4. 1 \in 1..Len(channel) /\ channel[1] = Event
    BY <1>0, TakenOff
  <1>5. cum <= vDeal[e] /\ told[e] \notin Final
    BY <1>1, <1>4 DEF Ledger, StreamOrder
  <1>6. \A p \in Orders : Erased(p)' = Erased(p)
    BY <1>0, <1>1, <1>2 DEF Erased
  <1>7. ~Erased(e)
    BY <1>0, <1>1, <1>5 DEF Erased
  <1>8. StreamOrder'
    BY <1>0, <1>1 DEF Ledger, StreamOrder
  <1>9. /\ accountedDealVol'[e] = accountedDealVol[e] + inc
        /\ cum <= accountedDealVol'[e] /\ accountedDealVol'[e] <= vDeal[e]
        /\ inc > 0 => accountedDealVol'[e] = cum /\ cum > accountedDealVol[e]
        /\ \A p \in Orders : p # e => accountedDealVol'[p] = accountedDealVol[p]
    <2>1. accountedDealVol[e] <= vDeal[e]
      BY <1>1 DEF Ledger, FillIds, LiveIds, DoneIds
    <2>2. e \in DOMAIN accountedDealVol
      BY <1>1 DEF TypeOK
    <2>3. /\ accountedDealVol'[e] = accountedDealVol[e] + inc
          /\ \A p \in Orders : p # e =>
               accountedDealVol'[p] = accountedDealVol[p]
      BY <1>2, <2>2 DEF TypeOK
    <2>4. accountedDealVol[e] \in Nat /\ vDeal[e] \in Nat
      BY <1>1, <1>3
    <2> QED BY <1>2, <1>5, <2>1, <2>3, <2>4
  <1>10. CancelTruth'
    BY <1>0, <1>3, <1>6, <1>7, <1>9 DEF Ledger, CancelTruth, Own
  <1>11. ASSUME NEW p \in Orders, p # e PROVE Balance(p)' /\ FillIds(p)'
    <2>1. IoPending(p) = 0 /\ IoPending(p)' = 0
      BY <1>0, <1>1, <1>11 DEF IoPending
    <2>2. RestPending(p)' = RestPending(p)
      BY <1>0 DEF RestPending
    <2>3. Balance(p)'
      BY <1>0, <1>6, <1>9, <1>11, <2>1, <2>2 DEF Ledger, Balance
    <2>4. FillIds(p)'
      BY <1>0, <1>1, <1>6, <1>9, <1>11 DEF Ledger, FillIds, LiveIds, DoneIds
    <2> QED BY <2>3, <2>4
  <1>12. Balance(e)' /\ FillIds(e)'
    <2>0. FillIds(e)
      BY <1>1 DEF Ledger
    <2>7. \A d \in 0..MaxVol : <<e, d>> \in seen => d <= accountedDealVol[e]
      BY <2>0, <1>7 DEF FillIds, LiveIds, DoneIds
    <2>1. <<e, cum>> \in seen => inc = 0
      <3>1. <<e, cum>> \in seen => cum <= accountedDealVol[e]
        BY <1>1, <2>7
      <3> QED BY <1>1, <1>3, <1>9, <3>1
    <2>2. IoPending(e) = 0 /\ IoPending(e)' = inc
      BY <1>0, <1>1, <1>2, <2>1 DEF IoPending
    <2>3. RestPending(e)' = RestPending(e) /\ RestPending(e) \in Nat
      BY <1>0, <1>3, <1>1 DEF RestPending
    <2>4. Balance(e)'
      BY <1>0, <1>1, <1>3, <1>6, <1>7, <1>9, <2>2, <2>3 DEF Ledger, Balance
    <2>5. restPc = "fill" /\ restOrder = e => inc = 0
      <3>1. ASSUME restPc = "fill" /\ restOrder = e
            PROVE  accountedDealVol[e] = vDeal[e]
        BY <2>0, <3>1, <1>7 DEF Ledger, CancelTruth, FillIds, LiveIds
      <3> QED BY <1>1, <1>2, <1>3, <1>5, <3>1
    <2>6. e \notin Foreign
      BY <1>0 DEF Own
    <2>8. \A d \in 0..MaxVol : <<e, d>> \in seen => d <= accountedDealVol'[e]
      BY <1>1, <1>3, <1>9, <2>7
    <2>9. inc = 0 => ioPc' = "erase" /\ accountedDealVol'[e] = accountedDealVol[e]
      BY <1>1, <1>2, <1>3, <1>9
    <2>10. inc > 0 => ioPc' = "fill"
      BY <1>2
    <2>11. inc = 0 \/ inc > 0
      OBVIOUS
    <2>12. /\ restPc = "fill" /\ restOrder = e =>
                restDeal = accountedDealVol[e] /\ <<e, restDeal>> \notin seen
           /\ \/ accountedDealVol[e] = 0
              \/ <<e, accountedDealVol[e]>> \in seen
              \/ restPc = "fill" /\ restOrder = e
      BY <2>0, <1>0, <1>7 DEF FillIds, LiveIds, DoneIds
    <2>13. /\ ioPc' = "fill" => <<e, cum>> \notin seen
           /\ restPc = "fill" /\ restOrder = e =>
                /\ restDeal = accountedDealVol'[e] /\ <<e, restDeal>> \notin seen
                /\ ioPc' # "fill"
           /\ \/ accountedDealVol'[e] = 0
              \/ <<e, accountedDealVol'[e]>> \in seen
              \/ ioPc' = "fill" /\ cum = accountedDealVol'[e]
              \/ restPc = "fill" /\ restOrder = e
      <3>1. CASE inc = 0
        BY <2>9, <2>12, <3>1
      <3>2. CASE inc > 0
        BY <1>9, <2>1, <2>5, <2>10, <2>12, <3>2
      <3> QED BY <2>11, <3>1, <3>2
    <2>14. FillIds(e)'
      <3>1. LiveIds(e)'
        <4>1. /\ seen' = seen /\ restPc' = restPc /\ restOrder' = restOrder
              /\ restDeal' = restDeal /\ Event'.order = e /\ Event'.deal = cum
          BY <1>0, <1>1
        <4>2. cum <= accountedDealVol'[e]
          BY <1>9
        <4> QED BY <2>8, <2>13, <4>1, <4>2 DEF LiveIds
      <3>2. DoneIds(e)'
        BY <1>1, <1>6, <1>7 DEF DoneIds
      <3> QED BY <1>0, <1>1, <1>9, <2>6, <3>1, <3>2 DEF FillIds
    <2> QED BY <2>4, <2>14
  <1> QED BY <1>1, <1>8, <1>10, <1>11, <1>12 DEF Ledger

\* The handler's fillCB: what was under way to the core has arrived.
LEMMA IoFillKeepsLedger ==
  ASSUME TypeOK, Ledger, IoFill
  PROVE  Ledger'
  <1>0. /\ UNCHANGED <<vState, vDeal, channel, accountedDealVol, restPc,
                       restOrder, restDeal, restInc, told, verified>>
        /\ ioPc = "fill" /\ ioPc' = "erase" /\ channel # <<>>
    BY DEF IoFill, Credit, venueVars, streamVars, restVars, TypeOK
  <1>1. PICK e \in Orders, cum \in 0..MaxVol :
          /\ e = Event.order /\ cum = Event.deal /\ e \in Own
          /\ Event' = Event
    BY <1>0, InHand DEF Event, Ledger, StreamOrder
  <1>2. /\ \A p \in Orders : /\ accountedDealVol[p] \in Nat /\ vDeal[p] \in Nat
                              /\ credited[p] \in Nat
        /\ ioInc \in Nat /\ restInc \in Nat
    BY FillsAssumption DEF TypeOK
  <1>3. told[e] \notin Final
    BY <1>0, <1>1, TakenOff DEF Ledger, StreamOrder
  <1>4. ~Erased(e) /\ \A p \in Orders : Erased(p)' = Erased(p)
    BY <1>0, <1>1, <1>3 DEF Erased
  <1>5. LiveIds(e)
    BY <1>1 DEF Ledger, FillIds
  <1>6. <<e, cum>> \notin seen
    BY <1>0, <1>1, <1>4, <1>5 DEF LiveIds
  <1>7. /\ seen' = seen \cup {<<e, cum>>}
        /\ credited' = [credited EXCEPT ![e] = @ + ioInc]
    BY <1>1, <1>6 DEF IoFill, Credit
  <1>8. StreamOrder'
    BY <1>0, <1>1 DEF Ledger, StreamOrder
  <1>9. CancelTruth'
    BY <1>0, <1>4 DEF Ledger, CancelTruth, Own
  <1>10. restPc = "fill" /\ restOrder = e => restDeal > cum
    BY <1>0, <1>1, <1>4, <1>5 DEF LiveIds
  <1>11. ASSUME NEW p \in Orders PROVE Balance(p)'
    <2>1. RestPending(p)' = RestPending(p) /\ RestPending(p) \in Nat
      <3>1. restPc = "fill" /\ restOrder = p =>
              (<<p, restDeal>> \in seen' <=> <<p, restDeal>> \in seen)
        BY <1>1, <1>7, <1>10
      <3> QED BY <1>0, <1>2, <3>1 DEF RestPending
    <2>2. IoPending(p)' = 0
      BY <1>0 DEF IoPending
    <2>3. Balance(p)
      BY DEF Ledger
    <2>4. CASE p = e
      <3>1. IoPending(p) = ioInc
        BY <1>0, <1>1, <1>6, <2>4 DEF IoPending
      <3>2. credited'[p] = credited[p] + ioInc
        BY <1>7, <2>4 DEF TypeOK
      <3> QED
        BY <1>0, <1>2, <1>4, <2>1, <2>2, <2>3, <3>1, <3>2 DEF Balance
    <2>5. CASE p # e
      <3>1. IoPending(p) = 0
        BY <1>1, <2>5 DEF IoPending
      <3>2. credited'[p] = credited[p]
        BY <1>7, <2>5 DEF TypeOK
      <3> QED
        BY <1>0, <1>2, <1>4, <2>1, <2>2, <2>3, <3>1, <3>2 DEF Balance
    <2> QED BY <2>4, <2>5
  <1>12. ASSUME NEW p \in Orders PROVE FillIds(p)'
    <2>1. FillIds(p)
      BY DEF Ledger
    <2>2. DoneIds(p)'
      BY <1>0, <1>4, <1>7, <2>1 DEF FillIds, DoneIds
    <2>3. LiveIds(p)'
      <3>1. CASE p = e
        <4>1. /\ cum <= accountedDealVol[e]
              /\ \A d \in 0..MaxVol :
                   <<e, d>> \in seen => d <= accountedDealVol[e]
              /\ restPc = "fill" /\ restOrder = e =>
                   restDeal = accountedDealVol[e] /\ <<e, restDeal>> \notin seen
              /\ \/ accountedDealVol[e] = 0
                 \/ <<e, accountedDealVol[e]>> \in seen
                 \/ cum = accountedDealVol[e]
                 \/ restPc = "fill" /\ restOrder = e
          BY <1>0, <1>1, <1>4, <1>5 DEF LiveIds
        <4>2. /\ \A d \in 0..MaxVol :
                   <<e, d>> \in seen' => d <= accountedDealVol[e]
              /\ restPc = "fill" /\ restOrder = e =>
                   <<e, restDeal>> \notin seen'
              /\ \/ accountedDealVol[e] = 0
                 \/ <<e, accountedDealVol[e]>> \in seen'
                 \/ restPc = "fill" /\ restOrder = e
          BY <1>7, <1>10, <4>1
        <4> QED BY <1>0, <1>1, <3>1, <4>1, <4>2 DEF LiveIds
      <3>2. CASE p # e
        <4>1. \A d : <<p, d>> \in seen' <=> <<p, d>> \in seen
          BY <1>7, <3>2
        <4> QED BY <1>0, <1>1, <1>4, <2>1, <3>2, <4>1 DEF FillIds, LiveIds
      <3> QED BY <3>1, <3>2
    <2> QED BY <1>0, <2>1, <2>2, <2>3 DEF FillIds
  <1> QED BY <1>8, <1>9, <1>11, <1>12 DEF Ledger

\* The erase after a terminal event: from here the venue's volume, now final,
\* is what the core and the canceller add up to.
LEMMA IoEraseKeepsLedger ==
  ASSUME TypeOK, Ledger, IoErase
  PROVE  Ledger'
  <1>0. /\ UNCHANGED <<vState, vDeal, channel, restPc, restOrder, restDeal,
                       restInc, seen, credited, told, verified>>
        /\ ioPc = "erase" /\ ioPc' = "update" /\ channel # <<>>
    BY DEF IoErase, venueVars, streamVars, restVars, coreVars, TypeOK
  <1>1. PICK e \in Orders, cum \in 0..MaxVol :
          /\ e = Event.order /\ cum = Event.deal /\ e \in Own
          /\ Event' = Event
    BY <1>0, InHand DEF Event, Ledger, StreamOrder
  <1>2. \A p \in Orders : /\ accountedDealVol[p] \in Nat /\ vDeal[p] \in Nat
                          /\ credited[p] \in Nat
    BY FillsAssumption DEF TypeOK
  <1>3. /\ told[e] \notin Final
        /\ Event.state \in Terminal =>
             vState[e] \in Terminal /\ cum = vDeal[e]
    BY <1>0, <1>1, TakenOff DEF Ledger, StreamOrder
  <1>4. ~Erased(e)
    BY <1>0, <1>3 DEF Erased
  <1>5. \A p \in Orders : /\ IoPending(p)' = 0 /\ IoPending(p) = 0
                          /\ RestPending(p)' = RestPending(p)
    BY <1>0 DEF IoPending, RestPending
  <1>6. StreamOrder'
    BY <1>0, <1>1 DEF Ledger, StreamOrder
  <1>7. LiveIds(e) /\ accountedDealVol[e] <= vDeal[e]
    BY <1>1 DEF Ledger, FillIds
  <1>8. cum <= accountedDealVol[e]
    BY <1>0, <1>1, <1>4, <1>7 DEF LiveIds
  <1>9. CASE Event.state \in Terminal
    <2>1. accountedDealVol[e] = vDeal[e]
      BY <1>1, <1>2, <1>3, <1>7, <1>8, <1>9
    <2>2. /\ accountedDealVol'[e] = 0
          /\ \A p \in Orders : p # e =>
               accountedDealVol'[p] = accountedDealVol[p]
      BY <1>1, <1>9 DEF IoErase, TypeOK
    <2>3. Erased(e)' /\ \A p \in Orders : p # e => Erased(p)' = Erased(p)
      BY <1>0, <1>1, <1>9 DEF Erased
    <2>4. CancelTruth'
      BY <1>0, <2>2, <2>3 DEF Ledger, CancelTruth, Own
    <2>5. ASSUME NEW p \in Orders PROVE Balance(p)' /\ FillIds(p)'
      <3>0. Balance(p) /\ FillIds(p)
        BY DEF Ledger
      <3>1. CASE p = e
        <4>1. \/ vDeal[e] = 0
              \/ <<e, vDeal[e]>> \in seen
              \/ restPc = "fill" /\ restOrder = e
          BY <1>0, <1>4, <1>7, <2>1 DEF LiveIds
        <4>2. Balance(e)'
          BY <1>0, <1>4, <1>5, <2>1, <2>3, <3>0, <3>1 DEF Balance
        <4>3. FillIds(e)'
          <5>1. LiveIds(e)' /\ DoneIds(e)'
            BY <1>0, <2>3, <4>1 DEF LiveIds, DoneIds
          <5>2. accountedDealVol'[e] <= vDeal'[e] /\ accountedDealVol'[e] = 0
            BY <1>0, <1>2, <2>2
          <5> QED BY <5>1, <5>2 DEF FillIds
        <4> QED BY <3>1, <4>2, <4>3
      <3>2. CASE p # e
        <4>1. Balance(p)'
          BY <1>0, <1>5, <2>2, <2>3, <3>0, <3>2 DEF Balance
        <4>2. LiveIds(p)' /\ DoneIds(p)'
          BY <1>0, <1>1, <2>2, <2>3, <3>0, <3>2 DEF FillIds, LiveIds, DoneIds
        <4>3. FillIds(p)'
          BY <1>0, <2>2, <3>0, <3>2, <4>2 DEF FillIds
        <4> QED BY <4>1, <4>3
      <3> QED BY <3>1, <3>2
    <2> QED BY <1>6, <2>4, <2>5 DEF Ledger
  <1>10. CASE Event.state \notin Terminal
    <2>1. accountedDealVol' = accountedDealVol
      BY <1>1, <1>10 DEF IoErase, TypeOK
    <2>2. \A p \in Orders : Erased(p)' = Erased(p)
      BY <1>0, <1>1, <1>10 DEF Erased
    <2>3. CancelTruth'
      BY <1>0, <2>1, <2>2 DEF Ledger, CancelTruth, Own
    <2>4. ASSUME NEW p \in Orders PROVE Balance(p)' /\ FillIds(p)'
      <3>0. Balance(p) /\ FillIds(p)
        BY DEF Ledger
      <3>1. Balance(p)'
        BY <1>0, <1>5, <2>1, <2>2, <3>0 DEF Balance
      <3>2. LiveIds(p)' /\ DoneIds(p)'
        BY <1>0, <1>1, <2>1, <2>2, <3>0 DEF FillIds, LiveIds, DoneIds
      <3> QED BY <1>0, <2>1, <3>0, <3>1, <3>2 DEF FillIds
    <2> QED BY <1>6, <2>3, <2>4 DEF Ledger
  <1> QED BY <1>9, <1>10

\* orderUpdateCB: a final update is the last the core hears of the order.
LEMMA IoUpdateKeepsLedger ==
  ASSUME TypeOK, Ledger, IoUpdate
  PROVE  Ledger'
  <1>0. /\ UNCHANGED <<vState, vDeal, accountedDealVol, restPc, restOrder,
                       restDeal, restInc, seen, credited, verified>>
        /\ ioPc = "update" /\ ioPc' = "idle" /\ channel # <<>>
        /\ channel' = Tail(channel) /\ StreamOrder
    BY DEF IoUpdate, venueVars, restVars, TypeOK, Ledger
  <1>1. PICK e \in Orders : e = Event.order /\ e \in Own
    BY <1>0, InHand DEF StreamOrder
  <1>2. told' = [told EXCEPT ![e] = Mapped(Event.state)]
    BY <1>1 DEF IoUpdate
  <1>3. Mapped(Event.state) \in Final <=> Event.state \in Terminal
    BY <1>0, InHand DEF Mapped, Final, Terminal
  <1>4. /\ told[e] \notin Final
        /\ Event.state \in Terminal => vState[e] \in Terminal
    BY <1>0, <1>1, TakenOff DEF StreamOrder
  <1>5. \A p \in Orders : Erased(p)' = Erased(p)
    BY <1>0, <1>1, <1>2, <1>3, <1>4 DEF Erased, TypeOK
  <1>6. StreamOrder'
    <2>1. \A i \in 1..Len(Tail(channel)) :
            LET f == Tail(channel)[i] IN
            /\ f.order \in Orders
            /\ f.deal <= vDeal[f.order] /\ told[f.order] \notin Final
            /\ Event.state \in Terminal => f.order # e
            /\ f.state \in Terminal =>
                 /\ vState[f.order] \in Terminal /\ f.deal = vDeal[f.order]
                 /\ \A j \in (i + 1)..Len(Tail(channel)) :
                      Tail(channel)[j].order # f.order
      BY <1>0, <1>1, TailKeepsOrder
    <2>2. \A p \in Orders : told'[p] \in Final =>
            \/ told[p] \in Final
            \/ p = e /\ Event.state \in Terminal
      BY <1>2, <1>3 DEF TypeOK
    <2>3. \A p \in Orders : told'[p] \in Final =>
            p \in Own /\ vState[p] \in Terminal
      BY <1>0, <1>1, <1>4, <2>2 DEF StreamOrder
    <2> QED BY <1>0, <2>1, <2>2, <2>3 DEF StreamOrder
  <1>7. CancelTruth'
    BY <1>0, <1>5 DEF Ledger, CancelTruth, Own
  <1>8. ASSUME NEW p \in Orders PROVE Balance(p)' /\ FillIds(p)'
    <2>0. Balance(p) /\ FillIds(p)
      BY DEF Ledger
    <2>1. /\ IoPending(p)' = 0 /\ IoPending(p) = 0
          /\ RestPending(p)' = RestPending(p)
      BY <1>0 DEF IoPending, RestPending
    <2>2. Balance(p)'
      BY <1>0, <1>5, <2>0, <2>1 DEF Balance
    <2>3. LiveIds(p)' /\ DoneIds(p)'
      BY <1>0, <1>5, <2>0 DEF FillIds, LiveIds, DoneIds
    <2> QED BY <1>0, <2>0, <2>2, <2>3 DEF FillIds
  <1> QED BY <1>6, <1>7, <1>8 DEF Ledger

\* cancel() finds the order gone, and its query answers: no accounting yet.
LEMMA QueryKeepsLedger ==
  ASSUME TypeOK, Ledger, ReconcileQuery \/ \E o \in Own : CancelGone(o)
  PROVE  Ledger'
  <1>0. /\ UNCHANGED <<vState, vDeal, channel, accountedDealVol, ioPc, ioInc,
                       seen, credited, told>>
        /\ Event' = Event
    BY DEF ReconcileQuery, CancelGone, venueVars, streamVars, ioVars, coreVars,
           Event
  <1>1. restPc # "fill" /\ restPc' # "fill"
    BY DEF ReconcileQuery, CancelGone, ReturnGone
  <1>2. \A p \in Orders : /\ Erased(p)' = Erased(p) /\ IoPending(p)' = IoPending(p)
                          /\ RestPending(p) = 0 /\ RestPending(p)' = 0
    BY <1>0, <1>1 DEF Erased, IoPending, RestPending
  <1>3. StreamOrder'
    BY <1>0 DEF Ledger, StreamOrder
  <1>4. \A p \in Orders : accountedDealVol[p] \in Nat /\ vDeal[p] \in Nat
    BY FillsAssumption DEF TypeOK
  <1>5. CancelTruth'
    <2>1. CASE \E o \in Own : CancelGone(o)
      BY <1>0, <1>2, <2>1 DEF CancelGone, Ledger, CancelTruth, Own
    <2>2. CASE ReconcileQuery
      <3>1. /\ restOrder \in Own /\ restOrder \in Orders
            /\ vState[restOrder] \in Terminal
            /\ accountedDealVol[restOrder] <= vDeal[restOrder]
        BY <2>2 DEF ReconcileQuery, Ledger, CancelTruth, FillIds, Own
      <3>2. CASE restPc' = "account"
        BY <1>0, <1>2, <2>2, <3>1, <3>2
        DEF ReconcileQuery, ReturnGone, Ledger, CancelTruth, Own
      <3>3. CASE restPc' # "account"
        <4>1. /\ restPc' = "idle"
              /\ \/ verified' = verified
                 \/ /\ verified' = verified \cup {restOrder}
                    /\ vDeal[restOrder] = 0
          BY <2>2, <3>3 DEF ReconcileQuery, ReturnGone
        <4>2. vDeal[restOrder] = 0 =>
                accountedDealVol[restOrder] = vDeal[restOrder]
          BY <1>4, <3>1
        <4>3. \A o \in verified : o \in Orders
          BY DEF TypeOK
        <4> QED BY <1>0, <1>2, <3>1, <4>1, <4>2, <4>3 DEF Ledger, CancelTruth
      <3> QED BY <3>2, <3>3
    <2> QED BY <2>1, <2>2
  <1>6. ASSUME NEW p \in Orders PROVE Balance(p)' /\ FillIds(p)'
    <2>0. Balance(p) /\ FillIds(p)
      BY DEF Ledger
    <2>1. Balance(p)'
      BY <1>0, <1>2, <2>0 DEF Balance
    <2>2. LiveIds(p)' /\ DoneIds(p)'
      BY <1>0, <1>1, <1>2, <2>0 DEF FillIds, LiveIds, DoneIds
    <2> QED BY <1>0, <2>0, <2>1, <2>2 DEF FillIds
  <1> QED BY <1>3, <1>5, <1>6 DEF Ledger

\* The reconciliation accounts the final volume of an order.
LEMMA ReconcileAccountKeepsLedger ==
  ASSUME TypeOK, Ledger, ReconcileAccount
  PROVE  Ledger'
  <1>0. /\ UNCHANGED <<vState, vDeal, channel, ioPc, ioInc, seen, credited,
                       told>>
        /\ restPc = "account" /\ Event' = Event
    BY DEF ReconcileAccount, venueVars, streamVars, ioVars, coreVars, Event
  <1>1. PICK r \in Orders, cum \in 0..MaxVol :
          /\ r = restOrder /\ cum = restDeal /\ r \in Own
          /\ vState[r] \in Terminal /\ cum = vDeal[r] /\ cum > 0
    BY <1>0 DEF Ledger, CancelTruth, Own, TypeOK
  <1>2. PICK inc \in 0..MaxVol :
          /\ inc = (IF cum <= accountedDealVol[r] THEN 0
                    ELSE cum - accountedDealVol[r])
          /\ accountedDealVol' = [accountedDealVol EXCEPT ![r] = @ + inc]
          /\ \/ /\ inc > 0
                /\ restPc' = "fill" /\ restInc' = inc
                /\ UNCHANGED <<restOrder, restDeal, verified>>
             \/ inc = 0 /\ ReturnGone(TRUE)
    BY <1>1 DEF ReconcileAccount, NewlyFilled
  <1>3. \A p \in Orders : /\ accountedDealVol[p] \in Nat /\ vDeal[p] \in Nat
                          /\ credited[p] \in Nat
    BY FillsAssumption DEF TypeOK
  <1>4. Balance(r) /\ FillIds(r)
    BY DEF Ledger
  <1>5. /\ accountedDealVol'[r] = vDeal[r]
        /\ inc = vDeal[r] - accountedDealVol[r]
        /\ \A p \in Orders : p # r => accountedDealVol'[p] = accountedDealVol[p]
    <2>1. accountedDealVol[r] <= vDeal[r]
      BY <1>4 DEF FillIds
    <2>2. /\ accountedDealVol'[r] = accountedDealVol[r] + inc
          /\ \A p \in Orders : p # r =>
               accountedDealVol'[p] = accountedDealVol[p]
      BY <1>2 DEF TypeOK
    <2>3. accountedDealVol[r] \in Nat /\ vDeal[r] \in Nat
      BY <1>3
    <2> QED BY <1>1, <1>2, <2>1, <2>2, <2>3
  <1>6. \A p \in Orders : /\ Erased(p)' = Erased(p) /\ IoPending(p)' = IoPending(p)
                          /\ RestPending(p) = 0
    BY <1>0 DEF Erased, IoPending, RestPending
  <1>7. StreamOrder'
    BY <1>0 DEF Ledger, StreamOrder
  <1>8. CancelTruth'
    <2>1. \A o \in verified' : o \in verified \/ o = r
      BY <1>1, <1>2 DEF ReturnGone
    <2>2. \A o \in verified' : /\ o \in Own /\ vState[o] \in Terminal
                               /\ Erased(o) \/ accountedDealVol'[o] = vDeal[o]
      BY <1>1, <1>5, <2>1 DEF Ledger, CancelTruth, Own
    <2>3. /\ restPc' # "idle" => restOrder' = r /\ restDeal' = cum
          /\ restPc' \in {"idle", "fill"}
      BY <1>1, <1>2 DEF ReturnGone
    <2> QED BY <1>0, <1>1, <1>6, <2>2, <2>3 DEF CancelTruth, Own
  <1>9. ASSUME NEW p \in Orders, p # r PROVE Balance(p)' /\ FillIds(p)'
    <2>0. Balance(p) /\ FillIds(p)
      BY DEF Ledger
    <2>1. restPc' = "fill" => restOrder' = r
      BY <1>1, <1>2 DEF ReturnGone
    <2>2. RestPending(p)' = 0
      BY <1>9, <2>1 DEF RestPending
    <2>3. Balance(p)'
      BY <1>0, <1>5, <1>6, <1>9, <2>0, <2>2 DEF Balance
    <2>4. LiveIds(p)' /\ DoneIds(p)'
      BY <1>0, <1>5, <1>6, <1>9, <2>0, <2>1 DEF FillIds, LiveIds, DoneIds
    <2> QED BY <1>0, <1>5, <1>9, <2>0, <2>3, <2>4 DEF FillIds
  <1>10. Balance(r)' /\ FillIds(r)'
    <2>1. LiveIds(r) /\ DoneIds(r)
      BY <1>4 DEF FillIds
    <2>2. CASE inc = 0
      <3>1. restPc' = "idle" /\ accountedDealVol'[r] = accountedDealVol[r]
        BY <1>1, <1>2, <1>3, <1>5, <2>2 DEF ReturnGone
      <3>2. RestPending(r)' = 0
        BY <3>1 DEF RestPending
      <3>3. Balance(r)'
        BY <1>0, <1>4, <1>6, <3>1, <3>2 DEF Balance
      <3>4. LiveIds(r)' /\ DoneIds(r)'
        BY <1>0, <1>6, <2>1, <3>1 DEF LiveIds, DoneIds
      <3> QED BY <1>0, <1>4, <3>1, <3>3, <3>4 DEF FillIds
    <2>3. CASE inc > 0
      <3>1. /\ restPc' = "fill" /\ restInc' = inc
            /\ restOrder' = r /\ restDeal' = cum
        <4>1. \/ /\ restPc' = "fill" /\ restInc' = inc
                 /\ restOrder' = restOrder /\ restDeal' = restDeal
              \/ inc = 0
          BY <1>2
        <4> QED BY <1>1, <2>3, <4>1
      <3>2. CASE Erased(r)
        <4>1. <<r, cum>> \in seen
          BY <1>0, <1>1, <2>1, <3>2 DEF DoneIds
        <4>2. RestPending(r)' = 0
          BY <1>0, <3>1, <4>1 DEF RestPending
        <4>3. Balance(r)'
          BY <1>0, <1>4, <1>6, <3>2, <4>2 DEF Balance
        <4>4. LiveIds(r)' /\ DoneIds(r)'
          BY <1>6, <3>1, <3>2 DEF LiveIds, DoneIds
        <4>5. accountedDealVol'[r] <= vDeal'[r]
          BY <1>0, <1>3, <1>5
        <4> QED BY <1>1, <4>3, <4>4, <4>5 DEF FillIds, Own
      <3>3. CASE ~Erased(r)
        <4>1. /\ \A d \in 0..MaxVol : <<r, d>> \in seen =>
                   d <= accountedDealVol[r]
              /\ ioPc # "idle" /\ Event.order = r =>
                   Event.deal <= accountedDealVol[r]
              /\ ioPc = "fill" /\ Event.order = r =>
                   <<r, Event.deal>> \notin seen
          BY <2>1, <3>3 DEF LiveIds
        <4>2. accountedDealVol[r] < cum /\ accountedDealVol'[r] = cum
          BY <1>1, <1>3, <1>5, <2>3
        <4>3. <<r, cum>> \notin seen
          BY <1>3, <4>1, <4>2
        <4>4. RestPending(r)' = inc
          BY <1>0, <3>1, <4>3 DEF RestPending
        <4>5. IoPending(r) \in Nat
          BY FillsAssumption DEF IoPending, TypeOK
        <4>6. Balance(r)'
          BY <1>0, <1>3, <1>4, <1>5, <1>6, <3>3, <4>4, <4>5 DEF Balance
        <4>7. ioPc # "idle" => Event.deal \in Nat
          <5>1. ioPc # "idle" => Event.deal \in 0..MaxVol
            BY InHand DEF TypeOK
          <5> QED BY <5>1, FillsAssumption
        <4>8. /\ \A d \in 0..MaxVol : <<r, d>> \in seen =>
                   d <= accountedDealVol'[r]
              /\ ioPc # "idle" /\ Event.order = r =>
                   Event.deal < cum /\ Event.deal <= accountedDealVol'[r]
          BY <1>3, <4>1, <4>2, <4>7
        <4>9. LiveIds(r)' /\ DoneIds(r)'
          BY <1>0, <1>6, <3>1, <3>3, <4>1, <4>2, <4>3, <4>8
          DEF LiveIds, DoneIds
        <4>10. accountedDealVol'[r] <= vDeal'[r]
          BY <1>0, <1>3, <1>5
        <4> QED BY <1>1, <4>6, <4>9, <4>10 DEF FillIds, Own
      <3> QED BY <3>2, <3>3
    <2> QED BY <2>2, <2>3
  <1> QED BY <1>7, <1>8, <1>9, <1>10 DEF Ledger

\* The reconciliation's fillCB, and cancel() returns "gone".
LEMMA ReconcileFillKeepsLedger ==
  ASSUME TypeOK, Ledger, ReconcileFill
  PROVE  Ledger'
  <1>0. /\ UNCHANGED <<vState, vDeal, channel, accountedDealVol, ioPc, ioInc,
                       told>>
        /\ restPc = "fill" /\ restPc' = "idle" /\ Event' = Event
    BY DEF ReconcileFill, ReturnGone, Credit, venueVars, streamVars, ioVars,
           Event
  <1>1. PICK r \in Orders, cum \in 0..MaxVol :
          /\ r = restOrder /\ cum = restDeal /\ r \in Own
          /\ vState[r] \in Terminal /\ cum = vDeal[r] /\ cum > 0
    BY <1>0 DEF Ledger, CancelTruth, Own, TypeOK
  <1>2. /\ seen' = seen \cup {<<r, cum>>}
        /\ credited' = IF <<r, cum>> \in seen THEN credited
                       ELSE [credited EXCEPT ![r] = @ + restInc]
        /\ verified' = verified \cup {r}
    BY <1>1 DEF ReconcileFill, ReturnGone, Credit
  <1>3. /\ \A p \in Orders : /\ accountedDealVol[p] \in Nat /\ vDeal[p] \in Nat
                              /\ credited[p] \in Nat
        /\ ioInc \in Nat /\ restInc \in Nat
    BY FillsAssumption DEF TypeOK
  <1>4. \A p \in Orders : Erased(p)' = Erased(p) /\ RestPending(p)' = 0
    BY <1>0 DEF Erased, RestPending
  <1>5. Balance(r) /\ FillIds(r) /\ LiveIds(r) /\ DoneIds(r)
    BY DEF Ledger, FillIds
  <1>6. ~Erased(r) =>
          /\ cum = accountedDealVol[r]
          /\ ioPc = "fill" /\ Event.order = r => Event.deal < cum
    BY <1>0, <1>1, <1>5 DEF LiveIds
  <1>7. Erased(r) => ~(ioPc = "fill" /\ Event.order = r)
    <2>1. ASSUME ioPc = "fill", Event.order = r
          PROVE  told[r] \notin Final
      BY <2>1, TakenOff DEF TypeOK, Ledger, StreamOrder
    <2> QED BY <2>1 DEF Erased
  <1>8. ASSUME NEW p \in Orders
        PROVE  IoPending(p)' = IoPending(p) /\ IoPending(p) \in Nat
    <2>1. ioPc = "fill" => Event.deal \in Nat
      <3>1. ioPc = "fill" => Event.deal \in 0..MaxVol
        BY InHand DEF TypeOK
      <3> QED BY <3>1, FillsAssumption
    <2>2. ioPc = "fill" /\ Event.order = p =>
            (<<p, Event.deal>> \in seen' <=> <<p, Event.deal>> \in seen)
      BY <1>2, <1>6, <1>7, <2>1
    <2> QED BY <1>0, <1>3, <2>2 DEF IoPending
  <1>9. StreamOrder'
    BY <1>0 DEF Ledger, StreamOrder
  <1>10. CancelTruth'
    <2>1. \A o \in verified : o \in Orders
      BY DEF TypeOK
    <2> QED
      BY <1>0, <1>1, <1>2, <1>4, <1>6, <2>1 DEF Ledger, CancelTruth
  <1>11. ASSUME NEW p \in Orders PROVE Balance(p)'
    <2>0. Balance(p)
      BY DEF Ledger
    <2>1. credited'[p] = credited[p] + RestPending(p)
      <3>1. CASE p = r /\ <<r, cum>> \notin seen
        <4>1. RestPending(p) = restInc
          BY <1>0, <1>1, <3>1 DEF RestPending
        <4>2. credited'[p] = credited[p] + restInc
          BY <1>2, <3>1 DEF TypeOK
        <4> QED BY <4>1, <4>2
      <3>2. CASE ~(p = r /\ <<r, cum>> \notin seen)
        <4>1. RestPending(p) = 0
          BY <1>0, <1>1, <3>2 DEF RestPending
        <4>2. credited'[p] = credited[p]
          BY <1>2, <3>2 DEF TypeOK
        <4> QED BY <1>3, <4>1, <4>2
      <3> QED BY <3>1, <3>2
    <2>2. RestPending(p) \in Nat
      BY <1>3 DEF RestPending
    <2> QED BY <1>0, <1>3, <1>4, <1>8, <2>0, <2>1, <2>2 DEF Balance
  <1>12. ASSUME NEW p \in Orders PROVE FillIds(p)'
    <2>0. FillIds(p)
      BY DEF Ledger
    <2>1. CASE p # r
      <3>1. \A d : <<p, d>> \in seen' <=> <<p, d>> \in seen
        BY <1>2, <2>1
      <3>2. LiveIds(p)' /\ DoneIds(p)'
        BY <1>0, <1>1, <1>4, <2>0, <2>1, <3>1 DEF FillIds, LiveIds, DoneIds
      <3> QED BY <1>0, <2>0, <3>2 DEF FillIds
    <2>2. CASE p = r
      <3>1. <<r, vDeal[r]>> \in seen'
        BY <1>1, <1>2
      <3>2. DoneIds(r)'
        BY <1>0, <3>1 DEF DoneIds
      <3>3. ASSUME ~Erased(r)
            PROVE  /\ \A d \in 0..MaxVol : <<r, d>> \in seen' =>
                        d <= accountedDealVol[r]
                   /\ ioPc = "fill" /\ Event.order = r =>
                        <<r, Event.deal>> \notin seen'
                   /\ ioPc # "idle" /\ Event.order = r =>
                        Event.deal <= accountedDealVol[r]
                   /\ <<r, accountedDealVol[r]>> \in seen'
        <4>1. /\ \A d \in 0..MaxVol : <<r, d>> \in seen =>
                   d <= accountedDealVol[r]
              /\ ioPc = "fill" /\ Event.order = r =>
                   <<r, Event.deal>> \notin seen
              /\ ioPc # "idle" /\ Event.order = r =>
                   Event.deal <= accountedDealVol[r]
          BY <1>5, <3>3 DEF LiveIds
        <4>2. ioPc = "fill" => Event.deal \in 0..MaxVol
          BY InHand DEF TypeOK
        <4>3. ioPc = "fill" /\ Event.order = r => Event.deal # cum
          BY <1>6, <3>3, <4>2, FillsAssumption
        <4>4. cum <= accountedDealVol[r]
          BY <1>1, <1>3, <1>6, <3>3
        <4> QED BY <1>2, <1>6, <3>3, <4>1, <4>3, <4>4
      <3>4. LiveIds(r)'
        BY <1>0, <1>4, <3>3 DEF LiveIds
      <3> QED BY <1>0, <1>5, <2>2, <3>2, <3>4 DEF FillIds
    <2> QED BY <2>1, <2>2
  <1> QED BY <1>9, <1>10, <1>11, <1>12 DEF Ledger

-----------------------------------------------------------------------------
(* The theorems.  Without a second delivery of an event the ledger is an   *)
(* inductive invariant, and the safety properties follow from it.          *)

\* The ledger holds at every step when no event is delivered twice: the
\* inductive invariant of GatewayFills.
THEOREM LedgerHolds == MaxRedeliveries = 0 /\ Spec => []Ledger
  <1> SUFFICES ASSUME MaxRedeliveries = 0 PROVE Spec => []Ledger
    OBVIOUS
  <1>1. Init => Ledger
    BY FillsAssumption
    DEF Init, Ledger, StreamOrder, CancelTruth, Balance, FillIds, LiveIds,
        DoneIds, Erased, IoPending, RestPending, Final, Own
  <1>2. TypeOK /\ Ledger /\ [Next]_vars => Ledger'
    <2> SUFFICES ASSUME TypeOK, Ledger, [Next]_vars PROVE Ledger'
      OBVIOUS
    <2>0. \A o \in Orders : vDeal[o] \in 0..MaxVol /\ vDeal[o] \in Int
      BY FillsAssumption DEF TypeOK
    <2>1. ASSUME NEW o \in Orders, Submit(o) PROVE Ledger'
      <3>1. PICK s \in {"live", "invalid"} : VenueStep(o, s, vDeal[o])
        BY <2>1 DEF Submit
      <3> QED
        BY <2>0, <2>1, <3>1, VenueKeepsLedger DEF Submit, Terminal
    <2>2. ASSUME NEW o \in Orders, Trade(o) PROVE Ledger'
      <3>1. PICK d \in (vDeal[o] + 1)..MaxVol :
              VenueStep(o, IF d = MaxVol THEN "completed" ELSE "live", d)
        BY <2>2 DEF Trade
      <3>2. d \in 0..MaxVol /\ d >= vDeal[o]
        BY <2>0
      <3>3. UNCHANGED restVars /\ vState[o] = "live"
        BY <2>2 DEF Trade
      <3>4. CASE d = MaxVol
        BY <3>1, <3>2, <3>3, <3>4, VenueKeepsLedger DEF Terminal
      <3>5. CASE d # MaxVol
        BY <3>1, <3>2, <3>3, <3>5, VenueKeepsLedger
      <3> QED BY <3>4, <3>5
    <2>3. ASSUME NEW o \in Orders, VenueEnds(o) PROVE Ledger'
      BY <2>0, <2>3, VenueKeepsLedger DEF VenueEnds, Terminal
    <2>4. CASE StreamGap \/ StreamBack \/ IoForeign
      BY <2>4, StreamKeepsLedger
    <2>5. CASE Redeliver
      BY <2>5 DEF Redeliver, TypeOK
    <2>6. CASE IoAccount
      BY <2>6, IoAccountKeepsLedger
    <2>7. CASE IoFill
      BY <2>7, IoFillKeepsLedger
    <2>8. CASE IoErase
      BY <2>8, IoEraseKeepsLedger
    <2>9. CASE IoUpdate
      BY <2>9, IoUpdateKeepsLedger
    <2>10. ASSUME NEW o \in Own, CancelLive(o) PROVE Ledger'
      BY <2>0, <2>10, VenueKeepsLedger DEF CancelLive, Terminal, Own
    <2>11. CASE ReconcileQuery \/ \E o \in Own : CancelGone(o)
      BY <2>11, QueryKeepsLedger
    <2>12. CASE ReconcileAccount
      BY <2>12, ReconcileAccountKeepsLedger
    <2>13. CASE ReconcileFill
      BY <2>13, ReconcileFillKeepsLedger
    <2>14. CASE UNCHANGED vars
      <3>1. /\ UNCHANGED <<vState, vDeal, channel, accountedDealVol, ioPc,
                           ioInc, restPc, restOrder, restDeal, restInc, seen,
                           credited, told, verified>>
            /\ Event' = Event
        BY <2>14 DEF vars, venueVars, streamVars, ioVars, restVars, coreVars,
                     Event
      <3>2. \A o \in Orders : Erased(o)' = Erased(o)
        BY <3>1 DEF Erased
      <3>3. StreamOrder' /\ CancelTruth'
        BY <3>1, <3>2 DEF Ledger, StreamOrder, CancelTruth, Own
      <3>4. ASSUME NEW o \in Orders PROVE Balance(o)' /\ FillIds(o)'
        <4>1. Balance(o) /\ FillIds(o)
          BY DEF Ledger
        <4>2. IoPending(o)' = IoPending(o) /\ RestPending(o)' = RestPending(o)
          BY <3>1 DEF IoPending, RestPending
        <4>3. Balance(o)'
          BY <3>1, <3>2, <4>1, <4>2 DEF Balance
        <4>4. LiveIds(o)' /\ DoneIds(o)'
          BY <3>1, <3>2, <4>1 DEF FillIds, LiveIds, DoneIds
        <4> QED BY <3>1, <4>1, <4>3, <4>4 DEF FillIds
      <3> QED BY <3>3, <3>4 DEF Ledger
    <2> QED
      BY <2>1, <2>2, <2>3, <2>4, <2>5, <2>6, <2>7, <2>8, <2>9, <2>10, <2>11,
         <2>12, <2>13, <2>14
      DEF Next, IoStep, ReconcileStep
  <1> QED BY <1>1, <1>2, TypeCorrect, PTL DEF Spec

\* The core is never credited more than the venue dealt, for any number of
\* orders, outages and cancels, when no event is delivered twice.
THEOREM NeverOverCredits == MaxRedeliveries = 0 /\ Spec => []NoOverCredit
  <1>1. TypeOK /\ Ledger => NoOverCredit
    <2> SUFFICES ASSUME TypeOK, Ledger, NEW o \in Orders
                 PROVE  credited[o] <= IF o \in Foreign THEN 0 ELSE vDeal[o]
      BY DEF NoOverCredit
    <2>1. /\ credited[o] \in Nat /\ vDeal[o] \in Nat /\ ioInc \in Nat
          /\ restInc \in Nat /\ accountedDealVol[o] \in Nat
      BY FillsAssumption DEF TypeOK
    <2>2. IoPending(o) \in Nat /\ RestPending(o) \in Nat
      BY <2>1 DEF IoPending, RestPending
    <2>3. o \in Foreign => ~Erased(o)
      BY DEF Ledger, StreamOrder, Erased, Own
    <2> QED BY <2>1, <2>2, <2>3 DEF Ledger, Balance, FillIds
  <1> QED BY <1>1, LedgerHolds, TypeCorrect, PTL

\* Between handlers, an order the core was told is over, or that cancel()
\* reported gone after a REST answer, has every contract credited: missed
\* events and races of the two threads lose nothing for good.
THEOREM OrdersSettle == MaxRedeliveries = 0 /\ Spec => []SettledCredit
  <1>1. TypeOK /\ Ledger => SettledCredit
    <2> SUFFICES ASSUME TypeOK, Ledger, ioPc = "idle", restPc = "idle",
                        NEW o \in Own, told[o] \in Final \/ o \in verified
                 PROVE  credited[o] = vDeal[o]
      BY DEF SettledCredit
    <2>0. o \in Orders /\ credited[o] \in Nat
      BY DEF TypeOK, Own
    <2>1. IoPending(o) = 0 /\ RestPending(o) = 0
      BY DEF IoPending, RestPending
    <2>2. Erased(o) \/ accountedDealVol[o] = vDeal[o]
      BY DEF Ledger, CancelTruth, Erased
    <2> QED BY <2>0, <2>1, <2>2 DEF Ledger, Balance
  <1> QED BY <1>1, LedgerHolds, TypeCorrect, PTL

\* An order the core was told is over never comes back to it when no event is
\* delivered twice.
THEOREM FinalUpdatesStay == MaxRedeliveries = 0 /\ Spec => FinalStays
  <1> DEFINE Stays == \A o \in Orders : told[o] \in Final => told'[o] = told[o]
  <1>1. TypeOK /\ Ledger /\ [Next]_vars => [Stays]_vars
    <2> SUFFICES ASSUME TypeOK, Ledger, Next PROVE Stays
      OBVIOUS
    <2>1. CASE IoUpdate
      <3>1. channel # <<>>
        BY <2>1 DEF IoUpdate, TypeOK
      <3>2. told[Event.order] \notin Final
        BY <3>1, TakenOff DEF Ledger, StreamOrder
      <3> QED BY <2>1, <3>2 DEF IoUpdate, TypeOK
    <2>2. CASE ~IoUpdate
      <3>1. told' = told
        BY <2>2
        DEF Next, IoStep, ReconcileStep, Submit, Trade, VenueEnds, VenueStep,
            StreamGap, StreamBack, Redeliver, IoForeign, IoAccount, IoFill,
            IoErase, CancelLive, CancelGone, ReconcileQuery, ReconcileAccount,
            ReconcileFill, Credit, coreVars
      <3> QED BY <3>1
    <2> QED BY <2>1, <2>2
  <1> QED BY <1>1, LedgerHolds, TypeCorrect, PTL DEF Spec, FinalStays

\* The accounting is a FillLedger for every number of orders, outages and
\* cancels when no event is delivered twice.
THEOREM RefinesLedger == MaxRedeliveries = 0 /\ Spec => Implements
  <1> DEFINE over == {o \in Orders : vState[o] \in Terminal}
  <1>1. Init => Promised!Init
    BY DEF Init, Promised!Init, Terminal
  <1>2. /\ TypeOK /\ TypeOK' /\ Ledger /\ NoOverCredit' /\ [Next]_vars
        => [Promised!Next]_Promised!vars
    <2> SUFFICES ASSUME TypeOK, TypeOK', Ledger, NoOverCredit', [Next]_vars
                 PROVE  [Promised!Next]_Promised!vars
      OBVIOUS
    <2>0. Own = Promised!Own /\ Own \subseteq Orders
      BY DEF Own, Promised!Own
    <2>1. ASSUME NEW o \in Orders, NEW s, NEW d \in vDeal[o]..MaxVol,
                 VenueStep(o, s, d), vState[o] \notin Terminal
          PROVE  Promised!Deal(o)
      <3>1. /\ o \notin over /\ vDeal' = [vDeal EXCEPT ![o] = d]
            /\ UNCHANGED <<credited, told>>
        BY <2>1 DEF VenueStep, coreVars
      <3>2. vState' = [vState EXCEPT ![o] = s]
        BY <2>1 DEF VenueStep
      <3>3. over' \in {over, over \cup {o}}
        <4>1. CASE s \in Terminal
          <5>1. over' = over \cup {o}
            BY <3>2, <4>1 DEF TypeOK
          <5> QED BY <5>1
        <4>2. CASE s \notin Terminal
          <5>1. over' = over
            BY <2>1, <3>2, <4>2 DEF TypeOK
          <5> QED BY <5>1
        <4> QED BY <4>1, <4>2
      <3> QED BY <3>1, <3>3 DEF Promised!Deal
    <2>2. ASSUME NEW o \in Orders, NEW cum, NEW inc \in 0..MaxVol,
                 Credit(o, cum, inc), UNCHANGED venueVars
          PROVE  [Promised!Next]_Promised!vars
      <3>1. UNCHANGED <<vDeal, over, told>>
        BY <2>2 DEF Credit, venueVars
      <3>2. CASE credited' = credited
        BY <3>1, <3>2 DEF Promised!vars
      <3>3. CASE credited' # credited
        <4>1. credited' = [credited EXCEPT ![o] = credited[o] + inc]
          BY <2>2, <3>3 DEF Credit
        <4>2. credited[o] \in Nat /\ credited'[o] = credited[o] + inc
              /\ inc \in Nat /\ vDeal[o] \in Nat
          BY <4>1, FillsAssumption DEF TypeOK
        <4>3. inc > 0
          <5>1. credited \in [Orders -> Nat]
            BY DEF TypeOK
          <5>2. credited[o] + inc # credited[o]
            BY <3>3, <4>1, <5>1
          <5> QED BY <4>2, <5>2
        <4>4. /\ o \in Own /\ credited'[o] <= vDeal[o]
          BY <3>1, <4>2, <4>3 DEF NoOverCredit, Own
        <4>5. credited[o] + inc \in credited[o]..vDeal[o]
          BY <4>2, <4>4
        <4>6. Promised!Credit(o)
          BY <3>1, <4>1, <4>5 DEF Promised!Credit
        <4> QED BY <2>0, <4>4, <4>6 DEF Promised!Next
      <3> QED BY <3>2, <3>3
    <2>3. \A o \in Orders : vDeal[o] \in 0..MaxVol /\ MaxVol \in Nat
      BY FillsAssumption DEF TypeOK
    <2>4. ASSUME NEW o \in Orders, Submit(o) PROVE Promised!Deal(o)
      <3>1. PICK s : VenueStep(o, s, vDeal[o])
        BY <2>4 DEF Submit
      <3>2. vDeal[o] \in vDeal[o]..MaxVol /\ vState[o] \notin Terminal
        BY <2>3, <2>4 DEF Submit, Terminal
      <3> QED BY <2>1, <3>1, <3>2
    <2>5. ASSUME NEW o \in Orders, Trade(o) PROVE Promised!Deal(o)
      <3>1. PICK d \in (vDeal[o] + 1)..MaxVol :
              VenueStep(o, IF d = MaxVol THEN "completed" ELSE "live", d)
        BY <2>5 DEF Trade
      <3>2. d \in vDeal[o]..MaxVol /\ vState[o] \notin Terminal
        BY <2>3, <2>5 DEF Trade, Terminal
      <3> QED BY <2>1, <3>1, <3>2
    <2>6. ASSUME NEW o \in Orders, VenueEnds(o) \/ CancelLive(o)
          PROVE  Promised!Deal(o)
      <3>1. PICK s : VenueStep(o, s, vDeal[o])
        BY <2>6 DEF VenueEnds, CancelLive
      <3>2. vDeal[o] \in vDeal[o]..MaxVol /\ vState[o] \notin Terminal
        BY <2>3, <2>6 DEF VenueEnds, CancelLive, Terminal
      <3> QED BY <2>1, <3>1, <3>2
    <2>7. CASE IoFill
      <3>1. channel # <<>> /\ Event.order \in Orders /\ ioInc \in 0..MaxVol
        BY <2>7, InHand DEF IoFill, TypeOK
      <3> QED BY <2>2, <2>7, <3>1 DEF IoFill
    <2>8. CASE ReconcileFill
      <3>1. restOrder \in Orders /\ restInc \in 0..MaxVol
        BY <2>8 DEF ReconcileFill, TypeOK
      <3> QED BY <2>2, <2>8, <3>1 DEF ReconcileFill
    <2>9. CASE IoUpdate
      <3>1. /\ channel # <<>> /\ ioPc # "idle"
            /\ told' = [told EXCEPT ![Event.order] = Mapped(Event.state)]
            /\ UNCHANGED <<vDeal, over, credited>>
        BY <2>9 DEF IoUpdate, TypeOK, venueVars
      <3>2. Event.order \in Own /\ told[Event.order] \notin Promised!Ends
        BY <3>1, TakenOff DEF Ledger, StreamOrder, Final, Promised!Ends
      <3>3. Event.state \in Terminal => Event.order \in over
        <4>1. 1 \in 1..Len(channel) /\ Event = channel[1]
          BY <3>1 DEF Event, TypeOK
        <4> QED BY <3>2, <4>1 DEF Ledger, StreamOrder, Own
      <3>4. /\ Mapped(Event.state) \in {"Accepted"} \cup Promised!Ends
            /\ Mapped(Event.state) \in Promised!Ends => Event.state \in Terminal
        BY <3>1, InHand DEF Mapped, Promised!Ends, Terminal
      <3>5. Promised!Tell(Event.order)
        BY <3>1, <3>2, <3>3, <3>4 DEF Promised!Tell
      <3> QED BY <2>0, <3>2, <3>5 DEF Promised!Next
    <2>10. CASE StreamGap \/ StreamBack \/ Redeliver \/ IoForeign \/ IoAccount
                \/ IoErase \/ ReconcileQuery \/ ReconcileAccount
                \/ (\E o \in Own : CancelGone(o)) \/ UNCHANGED vars
      <3>1. UNCHANGED <<vState, vDeal, credited, told>>
        BY <2>10
        DEF StreamGap, StreamBack, Redeliver, IoForeign, IoAccount, IoErase,
            ReconcileQuery, ReconcileAccount, CancelGone, vars, venueVars,
            coreVars
      <3> QED BY <3>1 DEF Promised!vars
    <2> QED
      BY <2>0, <2>4, <2>5, <2>6, <2>7, <2>8, <2>9, <2>10
      DEF Next, IoStep, ReconcileStep, Promised!Next
  <1>3. MaxRedeliveries = 0 /\ Spec => [][Promised!Next]_Promised!vars
    BY <1>2, TypeCorrect, LedgerHolds, NeverOverCredits, PTL DEF Spec
  <1> QED BY <1>1, <1>3, PTL DEF Spec, Implements, Promised!Spec

-----------------------------------------------------------------------------
(* The stream alone: when no cancel() finds its order gone, one thread does *)
(* the accounting, and events may be delivered again.                       *)

\* The core knows the fill id of e, or e is no fill.
Known(e) == e.deal = 0 \/ <<e.order, e.deal>> \in seen

\* What e says of its order holds, and an end is final.
Truth(e) ==
  /\ e.deal <= vDeal[e.order]
  /\ e.state \in Terminal =>
       vState[e.order] \in Terminal /\ e.deal = vDeal[e.order]

\* The last event of o has been handled, for the first time at the latest now.
Closed(o) ==
  \/ \E e \in processed : e.order = o /\ e.state \in Terminal
  \/ ioPc = "update" /\ Event.order = o /\ Event.state \in Terminal

\* An event that comes again was handled, and one that comes for the first time
\* follows whatever was accounted.
Replays ==
  /\ \A e \in processed :
       /\ e.order \in Own /\ Known(e) /\ Truth(e)
       /\ e.state \in Terminal =>
            \A i \in DOMAIN channel :
              channel[i].order = e.order => channel[i] \in processed
  /\ \A i \in DOMAIN channel :
       /\ Truth(channel[i])
       /\ channel[i] \notin processed =>
            accountedDealVol[channel[i].order] <= channel[i].deal
  /\ \A i, j \in DOMAIN channel :
       i < j /\ channel[i].order = channel[j].order
       /\ channel[j] \notin processed =>
         channel[i].deal <= channel[j].deal /\ channel[i].state \notin Terminal

\* What the thread holds, and what the core was told.
Handling ==
  /\ restPc = "idle"
  /\ ioPc # "idle" => Event.order \in Own
  /\ ioPc = "fill" => Event.deal > 0
  /\ ioPc \in {"erase", "update"} => Known(Event)
  /\ \A o \in Orders : told[o] \in Final =>
       \E e \in processed : e.order = o /\ e.state \in Terminal

\* The books of an order that is not closed.
OpenBooks(o) ==
  /\ credited[o] + IoPending(o) = accountedDealVol[o]
  /\ \A d \in 0..MaxVol : <<o, d>> \in seen => d <= accountedDealVol[o]
  /\ ioPc = "fill" /\ Event.order = o =>
       <<o, Event.deal>> \notin seen /\ Event.deal = accountedDealVol[o]
  /\ \/ accountedDealVol[o] = 0
     \/ <<o, accountedDealVol[o]>> \in seen
     \/ ioPc = "fill" /\ Event.order = o

Books(o) ==
  /\ accountedDealVol[o] <= vDeal[o]
  /\ o \in Foreign => accountedDealVol[o] = 0
  /\ IF Closed(o) THEN credited[o] = vDeal[o] ELSE OpenBooks(o)

StreamLedger == Replays /\ Handling /\ \A o \in Orders : Books(o)

\* The types of what is on the channel and what was handled.
LEMMA ChannelOK ==
  ASSUME TypeOK
  PROVE  /\ Len(channel) \in Nat /\ DOMAIN channel = 1..Len(channel)
         /\ \A i \in DOMAIN channel :
              /\ i \in Int /\ channel[i] \in Events
              /\ channel[i].order \in Orders /\ channel[i].deal \in Int
         /\ \A e \in processed : e \in Events /\ e.order \in Orders
                                 /\ e.deal \in Int
         /\ channel # <<>> => 1 \in DOMAIN channel /\ Event = channel[1]
         /\ \A o \in Orders : /\ vDeal[o] \in Int /\ accountedDealVol[o] \in Int
                              /\ vDeal[o] >= 0 /\ accountedDealVol[o] >= 0
  <1>1. /\ channel \in Seq(Events) /\ Len(channel) \in Nat
        /\ DOMAIN channel = 1..Len(channel)
    BY LenProperties DEF TypeOK
  <1>2. \A i \in DOMAIN channel : i \in Int /\ channel[i] \in Events
    BY <1>1, ElementOfSeq
  <1>3. \A e \in Events : e.order \in Orders /\ e.deal \in Int
    BY FillsAssumption DEF Events
  <1>4. channel # <<>> => 1 \in DOMAIN channel /\ Event = channel[1]
    BY <1>1, TakenOff
  <1>5. \A o \in Orders : /\ vDeal[o] \in Int /\ accountedDealVol[o] \in Int
                          /\ vDeal[o] >= 0 /\ accountedDealVol[o] >= 0
    BY FillsAssumption DEF TypeOK
  <1>6. processed \subseteq Events
    BY DEF TypeOK
  <1> QED BY <1>1, <1>2, <1>3, <1>4, <1>5, <1>6

\* An order goes on at the venue: what was said of it is still true, and its new
\* event follows all others.
LEMMA VenueKeepsStream ==
  ASSUME TypeOK, StreamLedger, NEW o \in Orders,
         NEW s \in Terminal \cup {"live"}, NEW d \in 0..MaxVol,
         VenueStep(o, s, d), UNCHANGED restVars,
         vState[o] \in {"none", "live"}, d >= vDeal[o]
  PROVE  StreamLedger'
  <1> DEFINE ev == [order |-> o, state |-> s, deal |-> d]
  <1>0. /\ vState' = [vState EXCEPT ![o] = s]
        /\ vDeal' = [vDeal EXCEPT ![o] = d]
        /\ UNCHANGED <<processed, accountedDealVol, ioPc, ioInc, restPc, seen,
                       credited, told>>
    BY DEF VenueStep, ioVars, restVars, coreVars
  <1>1. /\ vState'[o] = s /\ vDeal'[o] = d /\ d \in Int /\ d >= vDeal[o]
        /\ \A p \in Orders : p # o =>
             vState'[p] = vState[p] /\ vDeal'[p] = vDeal[p]
        /\ vState[o] \notin Terminal
    BY <1>0, FillsAssumption DEF TypeOK, Terminal
  <1>2. /\ ev \in Events /\ ev.order = o /\ ev.deal = d /\ ev.state = s
    BY DEF Events
  <1> HIDE DEF ev
  <1>3. \/ channel' = channel
        \/ /\ DOMAIN channel' = 1..(Len(channel) + 1)
           /\ \A i \in DOMAIN channel : channel'[i] = channel[i]
           /\ channel'[Len(channel) + 1] = ev
    <2>1. CASE ~streamUp
      BY <2>1 DEF VenueStep
    <2>2. CASE streamUp
      <3>1. channel' = Append(channel, ev) /\ channel \in Seq(Events)
        BY <2>2 DEF VenueStep, TypeOK, ev
      <3>2. /\ channel' \in Seq(Events) /\ Len(channel') = Len(channel) + 1
            /\ \A i \in 1..Len(channel) : channel'[i] = channel[i]
            /\ channel'[Len(channel) + 1] = ev
        BY <3>1, <1>2, AppendProperties
      <3>3. DOMAIN channel' = 1..Len(channel')
        BY <3>2, LenProperties
      <3> QED BY <3>2, <3>3, ChannelOK
    <2> QED BY <2>1, <2>2
  <1>4. channel # <<>> => Event' = Event
    <2>1. CASE ~streamUp
      BY <2>1 DEF VenueStep, Event
    <2>2. CASE streamUp /\ channel # <<>>
      <3>1. channel' = Append(channel, ev) /\ channel \in Seq(Events)
        BY <2>2 DEF VenueStep, TypeOK, ev
      <3> QED BY <2>2, <3>1, <1>2, AppendProperties, HeadTailProperties DEF Event
    <2> QED BY <2>1, <2>2
  <1>5. ASSUME NEW e \in Events, Truth(e)
        PROVE  /\ Truth(e)' /\ (e.state \in Terminal => e.order # o)
               /\ (e.order = o => e.deal <= d)
    <2>1. e.order \in Orders /\ e.deal \in Int
      BY FillsAssumption DEF Events
    <2> QED BY <1>1, <1>5, <2>1, ChannelOK DEF Truth
  <1>6. Truth(ev)'
    BY <1>1, <1>2 DEF Truth
  <1>7. \A e : Known(e)' = Known(e)
    BY <1>0 DEF Known
  <1>8. Replays'
    <2>0. Replays
      BY DEF StreamLedger
    <2>1. ASSUME NEW i \in DOMAIN channel'
          PROVE  \/ i \in DOMAIN channel /\ channel'[i] = channel[i]
                 \/ /\ i = Len(channel) + 1 /\ channel'[i] = ev
                    /\ \A j \in DOMAIN channel' : i >= j
      BY <1>3, ChannelOK
    <2>2. ASSUME NEW e \in processed
          PROVE  /\ e.order \in Own /\ Known(e)' /\ Truth(e)'
                 /\ e.state \in Terminal =>
                      \A i \in DOMAIN channel' :
                        channel'[i].order = e.order => channel'[i] \in processed
      <3>1. e \in Events /\ e.order \in Own /\ Known(e) /\ Truth(e)
        BY <2>0, ChannelOK DEF Replays
      <3>2. Truth(e)' /\ (e.state \in Terminal => e.order # o)
        BY <1>5, <3>1
      <3> QED BY <1>2, <1>7, <2>0, <2>1, <3>1, <3>2 DEF Replays
    <2>3. ASSUME NEW i \in DOMAIN channel'
          PROVE  /\ Truth(channel[i])'
                 /\ channel'[i] \notin processed =>
                      accountedDealVol[channel'[i].order] <= channel'[i].deal
      <3>1. CASE i \in DOMAIN channel /\ channel'[i] = channel[i]
        <4>1. /\ channel[i] \in Events /\ Truth(channel[i])
              /\ channel[i] \notin processed =>
                   accountedDealVol[channel[i].order] <= channel[i].deal
          BY <2>0, <3>1, ChannelOK DEF Replays
        <4> QED BY <1>5, <3>1, <4>1
      <3>2. CASE channel'[i] = ev
        <4>1. accountedDealVol[o] <= vDeal[o]
          BY DEF StreamLedger, Books
        <4> QED BY <1>1, <1>2, <1>6, <3>2, <4>1, ChannelOK
      <3> QED BY <2>1, <3>1, <3>2
    <2>4. ASSUME NEW i \in DOMAIN channel', NEW j \in DOMAIN channel', i < j,
                 channel'[i].order = channel'[j].order,
                 channel'[j] \notin processed
          PROVE  /\ channel'[i].deal <= channel'[j].deal
                 /\ channel'[i].state \notin Terminal
      <3>0. i \in Int /\ j \in Int
        BY <1>3, ChannelOK
      <3>1. i \in DOMAIN channel /\ channel'[i] = channel[i]
        BY <2>1, <2>4, <3>0
      <3>2. CASE j \in DOMAIN channel /\ channel'[j] = channel[j]
        BY <2>0, <2>4, <3>1, <3>2 DEF Replays
      <3>3. CASE channel'[j] = ev
        BY <1>2, <1>5, <2>0, <2>4, <3>1, <3>3, ChannelOK DEF Replays
      <3> QED BY <2>1, <3>2, <3>3
    <2> QED BY <1>0, <2>2, <2>3, <2>4 DEF Replays
  <1>9. Handling'
    BY <1>0, <1>4, <1>7 DEF StreamLedger, Handling, TypeOK
  <1>10. ASSUME NEW p \in Orders PROVE Books(p)'
    <2>1. Closed(p)' = Closed(p)
      BY <1>0, <1>4 DEF Closed, TypeOK
    <2>2. Closed(p) => p # o
      <3>1. ASSUME Closed(p) PROVE vState[p] \in Terminal
        <4>1. CASE \E e \in processed : e.order = p /\ e.state \in Terminal
          BY <4>1 DEF StreamLedger, Replays, Truth
        <4>2. CASE /\ ioPc = "update" /\ Event.order = p
                   /\ Event.state \in Terminal
          <5>1. Truth(Event)
            BY <4>2, ChannelOK DEF StreamLedger, Replays, TypeOK
          <5> QED BY <4>2, <5>1 DEF Truth
        <4> QED BY <3>1, <4>1, <4>2 DEF Closed
      <3> QED BY <1>1, <3>1
    <2>3. Books(p)
      BY DEF StreamLedger
    <2>4. IoPending(p)' = IoPending(p) /\ OpenBooks(p)' = OpenBooks(p)
      BY <1>0, <1>4 DEF IoPending, OpenBooks, TypeOK
    <2>5. accountedDealVol'[p] <= vDeal'[p]
      BY <1>0, <1>1, <2>3, ChannelOK DEF Books
    <2>6. Closed(p) => vDeal'[p] = vDeal[p]
      BY <1>1, <2>2
    <2> QED BY <1>0, <2>1, <2>3, <2>4, <2>5, <2>6 DEF Books
  <1> QED BY <1>8, <1>9, <1>10 DEF StreamLedger

\* The stream breaks, comes back, repeats an event or brings one that is not ours.
LEMMA StreamKeepsStream ==
  ASSUME TypeOK, StreamLedger,
         StreamGap \/ StreamBack \/ Redeliver \/ IoForeign
  PROVE  StreamLedger'
  <1>0. UNCHANGED <<vState, vDeal, processed, accountedDealVol, ioPc, ioInc,
                    restPc, seen, credited, told>>
    BY DEF StreamGap, StreamBack, Redeliver, IoForeign, venueVars, ioVars,
           restVars, coreVars
  <1>1. ioPc # "idle" => Event' = Event
    <2>1. CASE StreamGap
      BY <2>1 DEF StreamGap, Event
    <2>2. CASE StreamBack
      BY <2>2 DEF StreamBack, Event
    <2>3. CASE Redeliver /\ ioPc # "idle"
      <3>1. PICK e \in processed : channel' = Append(channel, e)
        BY <2>3 DEF Redeliver
      <3>2. channel \in Seq(Events) /\ channel # <<>> /\ e \in Events
        BY <2>3, ChannelOK DEF TypeOK
      <3> QED BY <3>1, <3>2, AppendProperties, HeadTailProperties DEF Event
    <2> QED BY <2>1, <2>2, <2>3 DEF IoForeign
  <1>2. \* Each event on the channel was there before, or was handled.
        \/ \E k \in {0, 1} : \A i \in DOMAIN channel' :
             i \in Int /\ i + k \in DOMAIN channel
             /\ channel'[i] = channel[i + k]
        \/ /\ DOMAIN channel' = 1..(Len(channel) + 1)
           /\ \A i \in DOMAIN channel : channel'[i] = channel[i]
           /\ channel'[Len(channel) + 1] \in processed
    <2>1. CASE StreamGap
      <3>1. CASE channel' = <<>>
        BY <3>1
      <3>2. CASE ioPc # "idle" /\ channel' = <<Event>>
        <4>1. 1 \in DOMAIN channel /\ Event = channel[1]
          BY <3>2, ChannelOK DEF TypeOK
        <4>2. DOMAIN channel' = {1} /\ channel'[1] = Event
          BY <3>2
        <4>3. \A i \in DOMAIN channel' :
                i \in Int /\ i + 0 \in DOMAIN channel
                /\ channel'[i] = channel[i + 0]
          BY <4>1, <4>2
        <4> QED BY <4>3
      <3> QED BY <2>1, <3>1, <3>2 DEF StreamGap
    <2>2. CASE StreamBack
      <3>1. channel' = channel
        BY <2>2 DEF StreamBack
      <3>2. \A i \in DOMAIN channel' :
              i \in Int /\ i + 0 \in DOMAIN channel
              /\ channel'[i] = channel[i + 0]
        BY <3>1, ChannelOK
      <3> QED BY <3>2
    <2>3. CASE Redeliver
      <3>1. PICK e \in processed : channel' = Append(channel, e)
        BY <2>3 DEF Redeliver
      <3>2. channel \in Seq(Events) /\ e \in Events
        BY ChannelOK DEF TypeOK
      <3>3. /\ channel' \in Seq(Events) /\ Len(channel') = Len(channel) + 1
            /\ \A i \in 1..Len(channel) : channel'[i] = channel[i]
            /\ channel'[Len(channel) + 1] = e
        BY <3>1, <3>2, AppendProperties
      <3>4. DOMAIN channel' = 1..Len(channel')
        BY <3>3, LenProperties
      <3> QED BY <3>3, <3>4, ChannelOK
    <2>4. CASE IoForeign
      <3>1. channel' = Tail(channel) /\ channel # <<>>
        BY <2>4 DEF IoForeign
      <3>2. channel' \in Seq(Events)
        BY <3>1, InHand
      <3>3. DOMAIN channel' = 1..Len(channel') /\ Len(channel') \in Nat
        BY <3>2, LenProperties
      <3>4. \A i \in DOMAIN channel' :
              i \in Int /\ i + 1 \in DOMAIN channel
              /\ channel'[i] = channel[i + 1]
        BY <3>1, <3>3, TakenOff, ChannelOK
      <3> QED BY <3>4
    <2> QED BY <2>1, <2>2, <2>3, <2>4
  <1>3. /\ \A e : Known(e)' = Known(e)
        /\ \A p : IoPending(p)' = IoPending(p) /\ OpenBooks(p)' = OpenBooks(p)
        /\ \A p \in Orders : Closed(p)' = Closed(p)
    BY <1>0, <1>1 DEF Known, IoPending, OpenBooks, Closed
  <1>4. Replays /\ \A e \in processed : Truth(e)' = Truth(e)
    BY <1>0 DEF StreamLedger, Truth
  <1>5. Replays'
    <2>1. ASSUME NEW k \in {0, 1},
                 \A i \in DOMAIN channel' :
                   i \in Int /\ i + k \in DOMAIN channel
                   /\ channel'[i] = channel[i + k]
          PROVE  Replays'
      <3>1. \A i \in DOMAIN channel' : Truth(channel[i])'
        BY <1>0, <1>4, <2>1 DEF Replays, Truth
      <3>2. \A i, j \in DOMAIN channel' : i < j => i + k < j + k
        BY <2>1
      <3> QED BY <1>0, <1>3, <1>4, <2>1, <3>1, <3>2 DEF Replays
    <2>2. CASE /\ DOMAIN channel' = 1..(Len(channel) + 1)
               /\ \A i \in DOMAIN channel : channel'[i] = channel[i]
               /\ channel'[Len(channel) + 1] \in processed
      <3>1. ASSUME NEW i \in DOMAIN channel'
            PROVE  \/ i \in DOMAIN channel /\ channel'[i] = channel[i]
                   \/ i = Len(channel) + 1 /\ channel'[i] \in processed
        BY <2>2, ChannelOK
      <3>2. \A i \in DOMAIN channel' : Truth(channel[i])'
        BY <1>0, <1>4, <3>1 DEF Replays, Truth
      <3>3. \A i, j \in DOMAIN channel' :
              i < j /\ channel'[j] \notin processed =>
                /\ i \in DOMAIN channel /\ channel'[i] = channel[i]
                /\ j \in DOMAIN channel /\ channel'[j] = channel[j]
        BY <2>2, <3>1, ChannelOK
      <3> QED BY <1>0, <1>3, <1>4, <3>1, <3>2, <3>3 DEF Replays
    <2> QED BY <1>2, <2>1, <2>2
  <1>6. Handling'
    BY <1>0, <1>1, <1>3 DEF StreamLedger, Handling
  <1>7. \A p \in Orders : Books(p)'
    BY <1>0, <1>3 DEF StreamLedger, Books
  <1> QED BY <1>5, <1>6, <1>7 DEF StreamLedger

\* An event of an order that is closed was handled before; of one that is open,
\* it comes in its order.
LEMMA EventInHand ==
  ASSUME TypeOK, StreamLedger, channel # <<>>
  PROVE  /\ Event \in Events /\ Event.order \in Orders /\ Event.deal \in Int
         /\ Truth(Event)
         /\ Event \in processed => Event.order \in Own /\ Known(Event)
         /\ Event \notin processed =>
              accountedDealVol[Event.order] <= Event.deal
         /\ ioPc # "update" /\ Closed(Event.order) => Event \in processed
  <1>1. 1 \in DOMAIN channel /\ Event = channel[1] /\ Replays
    BY ChannelOK DEF StreamLedger
  <1> QED BY <1>1, ChannelOK DEF Replays, Closed

\* The handler accounts an event.
LEMMA IoAccountKeepsStream ==
  ASSUME TypeOK, StreamLedger, IoAccount
  PROVE  StreamLedger'
  <1>0. /\ UNCHANGED <<vState, vDeal, channel, processed, restPc, seen,
                       credited, told>>
        /\ ioPc = "idle" /\ channel # <<>> /\ Event.order \in Own
        /\ Event' = Event
    BY DEF IoAccount, venueVars, streamVars, restVars, coreVars, Event
  <1>1. PICK inc \in 0..MaxVol :
          /\ NewlyFilled(Event.order, Event.deal, inc)
          /\ ioInc' = inc
          /\ ioPc' = IF inc > 0 THEN "fill" ELSE "erase"
    BY DEF IoAccount
  <1>o. PICK o \in Orders : o = Event.order
    BY <1>0 DEF Own
  <1> DEFINE a == accountedDealVol[o]
  <1>2. /\ Event.deal \in Int /\ Event.deal >= 0 /\ a \in Int /\ a >= 0
        /\ Truth(Event) /\ o \in Orders
        /\ Event \in processed => Known(Event)
        /\ Event \notin processed => a <= Event.deal
        /\ Closed(o) => Event \in processed
    BY <1>0, <1>o, EventInHand, ChannelOK, FillsAssumption DEF Events
  <1>3. /\ accountedDealVol' \in [Orders -> 0..MaxVol]
        /\ accountedDealVol'[o] = IF Event.deal <= a THEN a ELSE Event.deal
        /\ \A p \in Orders : p # o =>
             accountedDealVol'[p] = accountedDealVol[p]
        /\ inc \in Int /\ inc = accountedDealVol'[o] - a
    <2>1. /\ inc = (IF Event.deal <= a THEN 0 ELSE Event.deal - a)
          /\ accountedDealVol' = [accountedDealVol EXCEPT ![o] = a + inc]
          /\ accountedDealVol \in [Orders -> 0..MaxVol]
      BY <1>1, <1>o DEF NewlyFilled, TypeOK
    <2>2. accountedDealVol' \in [Orders -> 0..MaxVol]
      BY <1>0, <1>o, <1>1, InHand, NewlyFilledType
    <2>3. accountedDealVol'[o] = a + inc
      BY <1>o, <1>2, <2>1
    <2>4. \A p \in Orders : p # o =>
            accountedDealVol'[p] = accountedDealVol[p]
      BY <2>1
    <2> QED BY <1>o, <1>2, <2>1, <2>2, <2>3, <2>4
  <1>4. /\ \A e : Known(e)' = Known(e)
        /\ \A e \in Events : Truth(e)' = Truth(e)
        /\ \A p \in Orders : Closed(p)' = Closed(p)
    BY <1>0, <1>o, <1>1 DEF Known, Truth, Closed
  <1>5. Closed(o) \/ OpenBooks(o)
    BY <1>o, <1>2 DEF StreamLedger, Books
  <1>6. ~Closed(o) => /\ credited[o] = a
                      /\ \A d \in 0..MaxVol : <<o, d>> \in seen => d <= a
                      /\ a = 0 \/ <<o, a>> \in seen
    <2>1. IoPending(o) = 0 /\ credited[o] \in Int
      BY <1>0, <1>o, <1>2 DEF IoPending, TypeOK
    <2> QED BY <1>0, <1>o, <1>2, <1>5, <2>1 DEF OpenBooks
  <1> HIDE DEF a
  <1>7. Replays'
    <2>0. Replays /\ 1 \in DOMAIN channel /\ Event = channel[1]
      BY <1>0, <1>o, ChannelOK DEF StreamLedger
    <2>1. ASSUME NEW i \in DOMAIN channel, channel[i] \notin processed
          PROVE  accountedDealVol'[channel[i].order] <= channel[i].deal
      <3>1. CASE channel[i].order # o
        BY <1>3, <2>0, <2>1, <3>1, ChannelOK DEF Replays
      <3>2. CASE channel[i].order = o
        <4>1. a <= channel[i].deal
          BY <1>o, <2>0, <2>1, <3>2 DEF Replays, a
        <4>2. i = 1 \/ 1 < i
          BY <2>1, ChannelOK
        <4>3. Event.deal <= channel[i].deal
          BY <1>o, <1>2, <2>0, <2>1, <3>2, <4>2, ChannelOK DEF Replays
        <4> QED BY <1>3, <3>2, <4>1, <4>3
      <3> QED BY <3>1, <3>2
    <2>2. \A i \in DOMAIN channel : Truth(channel[i])'
      BY <1>0, <1>o, <2>0 DEF Replays, Truth
    <2> QED BY <1>0, <1>o, <1>4, <2>0, <2>1, <2>2, ChannelOK DEF Replays
  <1>8. Handling'
    <2>1. ioPc' = "fill" => Event.deal > 0
      BY <1>o, <1>1, <1>2, <1>3
    <2>2. ioPc' = "erase" => Known(Event)
      <3>1. CASE Event \in processed
        BY <1>o, <1>2, <3>1
      <3>2. CASE Event \notin processed /\ ioPc' = "erase"
        <4>1. Event.deal = a /\ ~Closed(o)
          BY <1>o, <1>1, <1>2, <1>3, <3>2 DEF Closed
        <4> QED BY <1>o, <1>6, <4>1 DEF Known
      <3> QED BY <3>1, <3>2
    <2>3. ioPc' \in {"fill", "erase"}
      BY <1>1
    <2> QED BY <1>0, <1>o, <1>4, <2>1, <2>2, <2>3 DEF StreamLedger, Handling
  <1>9. ASSUME NEW p \in Orders PROVE Books(p)'
    <2>0. Books(p)
      BY DEF StreamLedger
    <2>1. CASE p # o
      <3>1. IoPending(p) = 0 /\ IoPending(p)' = 0
        BY <1>0, <1>o, <2>1 DEF IoPending
      <3>2. OpenBooks(p)' = OpenBooks(p)
        BY <1>0, <1>o, <1>3, <2>1, <3>1 DEF OpenBooks
      <3> QED BY <1>0, <1>o, <1>3, <1>4, <2>0, <2>1, <3>2 DEF Books
    <2>2. CASE p = o
      <3>1. accountedDealVol'[o] <= vDeal[o]
        BY <1>o, <1>2, <1>3, <2>0, <2>2 DEF Books, Truth, a
      <3>2. o \notin Foreign
        BY <1>0, <1>o DEF Own
      <3>3. ASSUME ~Closed(o) PROVE OpenBooks(o)'
        <4>1. CASE inc > 0
          <5>1. /\ Event.deal > a /\ accountedDealVol'[o] = Event.deal
                /\ ioPc' = "fill"
            BY <1>o, <1>1, <1>2, <1>3, <4>1
          <5>2. <<o, Event.deal>> \notin seen
            <6>1. Event.deal \in 0..MaxVol
              BY <1>0, <1>o, InHand
            <6> QED BY <1>o, <1>2, <1>6, <3>3, <5>1, <6>1
          <5>3. IoPending(o)' = inc
            BY <1>0, <1>o, <1>1, <5>1, <5>2 DEF IoPending
          <5>4. credited'[o] + inc = accountedDealVol'[o]
            BY <1>0, <1>o, <1>2, <1>3, <1>6, <3>3
          <5>5. \A d \in 0..MaxVol : <<o, d>> \in seen =>
                  d <= accountedDealVol'[o]
            BY <1>o, <1>2, <1>6, <3>3, <5>1
          <5> QED BY <1>0, <1>o, <5>1, <5>2, <5>3, <5>4, <5>5 DEF OpenBooks
        <4>2. CASE ~(inc > 0)
          <5>1. accountedDealVol'[o] = a /\ ioPc' = "erase"
            BY <1>o, <1>1, <1>2, <1>3, <4>2
          <5>2. IoPending(o)' = 0
            BY <5>1 DEF IoPending
          <5> QED BY <1>0, <1>o, <1>2, <1>6, <3>3, <5>1, <5>2 DEF OpenBooks
        <4> QED BY <4>1, <4>2
      <3> QED BY <1>0, <1>o, <1>4, <2>0, <2>2, <3>1, <3>2, <3>3 DEF Books
    <2> QED BY <2>1, <2>2
  <1> QED BY <1>7, <1>8, <1>9 DEF StreamLedger

\* The core is handed the fill.
LEMMA IoFillKeepsStream ==
  ASSUME TypeOK, StreamLedger, IoFill
  PROVE  StreamLedger'
  <1>0. /\ UNCHANGED <<vState, vDeal, channel, processed, accountedDealVol,
                       restPc, told>>
        /\ ioPc = "fill" /\ ioPc' = "erase" /\ channel # <<>>
        /\ Event' = Event
    BY DEF IoFill, venueVars, streamVars, restVars, Event, Credit, TypeOK
  <1>1. Credit(Event.order, Event.deal, ioInc)
    BY DEF IoFill
  <1>o. PICK o \in Own : o = Event.order
    BY <1>0 DEF StreamLedger, Handling
  <1>d. PICK d \in 0..MaxVol : d = Event.deal
    BY <1>0, InHand
  <1>2. /\ seen' = seen \cup {<<o, d>>}
        /\ credited' = IF <<o, d>> \in seen THEN credited
                       ELSE [credited EXCEPT ![o] = @ + ioInc]
    BY <1>1, <1>o, <1>d DEF Credit
  <1>3. /\ o \in Orders /\ d > 0 /\ (Closed(o) => <<o, d>> \in seen)
    <2>1. Event.deal > 0
      BY <1>0 DEF StreamLedger, Handling
    <2>2. Closed(o) => Event \in processed /\ Known(Event)
      BY <1>0, <1>o, EventInHand
    <2> QED BY <1>o, <1>d, <2>1, <2>2, FillsAssumption DEF Own, Known
  <1>4. /\ \A e : Known(e) => Known(e)'
        /\ Known(Event)'
        /\ \A e \in Events : Truth(e)' = Truth(e)
        /\ \A p \in Orders : Closed(p)' = Closed(p)
    BY <1>0, <1>2, <1>o, <1>d DEF Known, Truth, Closed
  <1>5. Replays'
    <2>0. Replays
      BY DEF StreamLedger
    <2>1. \A i \in DOMAIN channel : Truth(channel[i])'
      BY <1>0, <2>0 DEF Replays, Truth
    <2> QED BY <1>0, <1>4, <2>0, <2>1, ChannelOK DEF Replays
  <1>6. Handling'
    BY <1>0, <1>4, <1>o DEF StreamLedger, Handling
  <1>7. ASSUME NEW p \in Orders PROVE Books(p)'
    <2>0. Books(p)
      BY DEF StreamLedger
    <2>1. IoPending(p)' = 0
      BY <1>0 DEF IoPending
    <2>2. CASE p # o
      <3>1. IoPending(p) = 0
        BY <1>o, <2>2 DEF IoPending
      <3>2. /\ credited'[p] = credited[p]
            /\ \A n : <<p, n>> \in seen' <=> <<p, n>> \in seen
        BY <1>2, <2>2 DEF TypeOK
      <3>3. OpenBooks(p)' = OpenBooks(p)
        BY <1>0, <1>o, <2>1, <2>2, <3>1, <3>2 DEF OpenBooks
      <3> QED BY <1>0, <1>4, <2>0, <3>2, <3>3 DEF Books
    <2>3. CASE p = o /\ Closed(o)
      <3>1. credited' = credited
        BY <1>2, <1>3, <2>3
      <3> QED BY <1>0, <1>4, <2>0, <2>3, <3>1 DEF Books
    <2>4. CASE p = o /\ ~Closed(o)
      <3>1. /\ credited[o] + IoPending(o) = accountedDealVol[o]
            /\ \A n \in 0..MaxVol : <<o, n>> \in seen =>
                 n <= accountedDealVol[o]
            /\ <<o, d>> \notin seen /\ d = accountedDealVol[o]
        BY <1>0, <1>o, <1>d, <2>0, <2>4 DEF Books, OpenBooks
      <3>2. IoPending(o) = ioInc /\ credited'[o] = credited[o] + ioInc
        BY <1>0, <1>2, <1>3, <1>o, <1>d, <3>1 DEF IoPending, TypeOK
      <3>3. credited'[o] + 0 = accountedDealVol'[o]
        <4>1. credited[o] \in Int /\ ioInc \in Int
          BY <1>3, FillsAssumption DEF TypeOK
        <4> QED BY <1>0, <3>1, <3>2, <4>1
      <3>4. /\ \A n \in 0..MaxVol : <<o, n>> \in seen' =>
                 n <= accountedDealVol'[o]
            /\ <<o, accountedDealVol'[o]>> \in seen'
        BY <1>0, <1>2, <3>1, FillsAssumption
      <3>5. OpenBooks(o)'
        BY <1>0, <2>1, <2>4, <3>3, <3>4 DEF OpenBooks
      <3> QED BY <1>0, <1>4, <2>0, <2>4, <3>5 DEF Books
    <2> QED BY <2>2, <2>3, <2>4
  <1> QED BY <1>5, <1>6, <1>7 DEF StreamLedger

\* The entry of an order that is over is dropped: all of it is credited.
LEMMA IoEraseKeepsStream ==
  ASSUME TypeOK, StreamLedger, IoErase
  PROVE  StreamLedger'
  <1>0. /\ UNCHANGED <<vState, vDeal, channel, processed, ioInc, restPc, seen,
                       credited, told>>
        /\ ioPc = "erase" /\ ioPc' = "update" /\ channel # <<>>
        /\ Event' = Event
    BY DEF IoErase, venueVars, streamVars, restVars, coreVars, Event, TypeOK
  <1>o. PICK o \in Own : o = Event.order
    BY <1>0 DEF StreamLedger, Handling
  <1>1. /\ accountedDealVol' = [accountedDealVol EXCEPT ![o] =
                                  IF Event.state \in Terminal THEN 0 ELSE @]
        /\ o \in Orders
    BY <1>o DEF IoErase, Own
  <1>2. /\ \A p \in Orders : /\ accountedDealVol'[p] \in Int
                             /\ accountedDealVol'[p] <= accountedDealVol[p]
        /\ \A p \in Orders :
             p # o \/ Event.state \notin Terminal =>
               accountedDealVol'[p] = accountedDealVol[p]
    <2>1. accountedDealVol \in [Orders -> 0..MaxVol]
      BY DEF TypeOK
    <2>2. ASSUME NEW p \in Orders
          PROVE  /\ accountedDealVol[p] \in Int /\ accountedDealVol[p] >= 0
                 /\ accountedDealVol'[p] =
                      IF p = o /\ Event.state \in Terminal THEN 0
                      ELSE accountedDealVol[p]
      BY <1>1, <2>1, ChannelOK
    <2> QED BY <2>2
  <1>3. /\ Truth(Event) /\ Known(Event) /\ Event.deal \in 0..MaxVol
    BY <1>0, EventInHand, InHand DEF StreamLedger, Handling
  <1>4. /\ \A e : Known(e)' = Known(e)
        /\ \A e \in Events : Truth(e)' = Truth(e)
        /\ \A p \in Orders : p # o \/ Event.state \notin Terminal =>
             Closed(p)' = Closed(p)
        /\ Event.state \in Terminal => Closed(o)'
    BY <1>0, <1>o DEF Known, Truth, Closed
  <1>5. Replays'
    <2>0. Replays
      BY DEF StreamLedger
    <2>1. \A i \in DOMAIN channel : Truth(channel[i])'
      BY <1>0, <2>0 DEF Replays, Truth
    <2>2. \A i \in DOMAIN channel : channel[i] \notin processed =>
            accountedDealVol'[channel[i].order] <= channel[i].deal
      BY <1>2, <2>0, ChannelOK DEF Replays
    <2> QED BY <1>0, <1>4, <2>0, <2>1, <2>2, ChannelOK DEF Replays
  <1>6. Handling'
    BY <1>0, <1>3, <1>4, <1>o DEF StreamLedger, Handling
  <1>7. ASSUME NEW p \in Orders PROVE Books(p)'
    <2>0. Books(p)
      BY DEF StreamLedger
    <2>1. IoPending(p)' = IoPending(p)
      BY <1>0 DEF IoPending
    <2>2. /\ accountedDealVol'[p] <= vDeal'[p]
          /\ p \in Foreign => accountedDealVol'[p] = 0
      BY <1>0, <1>2, <1>o, <2>0, ChannelOK DEF Books, Own
    <2>3. CASE p # o \/ Event.state \notin Terminal
      <3>1. OpenBooks(p)' = OpenBooks(p)
        BY <1>0, <1>2, <2>1, <2>3 DEF OpenBooks
      <3> QED BY <1>0, <1>4, <2>0, <2>2, <2>3, <3>1 DEF Books
    <2>4. CASE p = o /\ Event.state \in Terminal
      <3>1. credited[o] = vDeal[o]
        <4>1. CASE Closed(o)
          BY <2>0, <2>4, <4>1 DEF Books
        <4>2. CASE ~Closed(o)
          <5>1. /\ credited[o] + IoPending(o) = accountedDealVol[o]
                /\ \A n \in 0..MaxVol : <<o, n>> \in seen =>
                     n <= accountedDealVol[o]
                /\ accountedDealVol[o] <= vDeal[o]
            BY <2>0, <2>4, <4>2 DEF Books, OpenBooks
          <5>2. IoPending(o) = 0 /\ credited[o] \in Int
            BY <1>0, <1>1 DEF IoPending, TypeOK
          <5>3. Event.deal = vDeal[o]
            BY <1>3, <1>o, <2>4 DEF Truth
          <5>4. Event.deal <= accountedDealVol[o]
            BY <1>1, <1>3, <1>o, <5>1, ChannelOK DEF Known
          <5> QED BY <1>1, <5>1, <5>2, <5>3, <5>4, ChannelOK
        <4> QED BY <4>1, <4>2
      <3> QED BY <1>0, <1>4, <2>2, <2>4, <3>1 DEF Books
    <2> QED BY <2>3, <2>4
  <1> QED BY <1>5, <1>6, <1>7 DEF StreamLedger

\* The core is told, and the event has been handled.
LEMMA IoUpdateKeepsStream ==
  ASSUME TypeOK, StreamLedger, IoUpdate
  PROVE  StreamLedger'
  <1>0. /\ UNCHANGED <<vState, vDeal, accountedDealVol, ioInc, restPc, seen,
                       credited>>
        /\ ioPc = "update" /\ ioPc' = "idle" /\ channel # <<>>
        /\ processed' = processed \cup {Event} /\ channel' = Tail(channel)
        /\ told' = [told EXCEPT ![Event.order] = Mapped(Event.state)]
    BY DEF IoUpdate, venueVars, restVars, TypeOK
  <1>1. /\ Truth(Event) /\ Known(Event) /\ Event \in Events
        /\ Event.order \in Own /\ Own \subseteq Orders
    BY <1>0, EventInHand DEF StreamLedger, Handling, Own
  <1>e. PICK ev \in Events : ev = Event
    BY <1>1
  <1>2. /\ 1 \in DOMAIN channel /\ channel[1] = ev
        /\ \A i \in DOMAIN channel' :
             /\ i \in Int /\ 1 < i + 1 /\ i + 1 \in DOMAIN channel
             /\ channel'[i] = channel[i + 1]
    <2>1. channel' \in Seq(Events)
      BY <1>0, InHand
    <2>2. DOMAIN channel' = 1..Len(channel') /\ Len(channel') \in Nat
      BY <2>1, LenProperties
    <2> QED BY <1>0, <1>e, <2>2, TakenOff, ChannelOK
  <1>3. /\ \A e : Known(e)' = Known(e)
        /\ \A e \in Events : Truth(e)' = Truth(e)
        /\ \A p \in Orders : Closed(p)' = Closed(p)
    BY <1>0 DEF Known, Truth, Closed
  <1>4. Replays'
    <2>0. Replays
      BY DEF StreamLedger
    <2>1. \A i \in DOMAIN channel' : Truth(channel[i])'
      BY <1>0, <1>2, <2>0 DEF Replays, Truth
    <2>2. ASSUME NEW e \in processed'
          PROVE  /\ e.order \in Own /\ Known(e)' /\ Truth(e)'
                 /\ e.state \in Terminal =>
                      \A i \in DOMAIN channel' :
                        channel'[i].order = e.order => channel'[i] \in processed'
      <3>1. CASE e \in processed
        BY <1>0, <1>2, <1>3, <2>0, <3>1, ChannelOK DEF Replays
      <3>2. CASE e = ev
        <4>1. /\ ev.order \in Own /\ Known(ev)' /\ Truth(ev)'
          BY <1>0, <1>1, <1>e DEF Known, Truth
        <4>2. \A j \in DOMAIN channel :
                1 < j /\ channel[j].order = ev.order
                /\ ev.state \in Terminal => channel[j] \in processed
          BY <1>2, <2>0 DEF Replays
        <4> QED BY <1>0, <1>2, <3>2, <4>1, <4>2
      <3> QED BY <1>0, <1>e, <3>1, <3>2
    <2>3. \A i, j \in DOMAIN channel' : i < j => i + 1 < j + 1
      BY <1>2
    <2>4. \A i \in DOMAIN channel' : channel'[i] \notin processed' =>
            accountedDealVol'[channel'[i].order] <= channel'[i].deal
      BY <1>0, <1>2, <2>0 DEF Replays
    <2>5. \A i, j \in DOMAIN channel' :
            i < j /\ channel'[i].order = channel'[j].order
            /\ channel'[j] \notin processed' =>
              /\ channel'[i].deal <= channel'[j].deal
              /\ channel'[i].state \notin Terminal
      BY <1>0, <1>2, <2>0, <2>3 DEF Replays
    <2> QED BY <2>1, <2>2, <2>4, <2>5 DEF Replays
  <1>5. Handling'
    <2>1. ASSUME NEW p \in Orders, told'[p] \in Final
          PROVE  \E e \in processed' : e.order = p /\ e.state \in Terminal
      <3>1. CASE p = Event.order
        <4>1. Mapped(Event.state) \in Final
          BY <1>0, <2>1, <3>1 DEF TypeOK
        <4>2. Event.state \in Terminal
          BY <1>1, <4>1 DEF Mapped, Final, Events, Terminal
        <4> QED BY <1>0, <3>1, <4>2
      <3>2. CASE p # Event.order
        BY <1>0, <2>1, <3>2 DEF StreamLedger, Handling, TypeOK
      <3> QED BY <3>1, <3>2
    <2> QED BY <1>0, <2>1 DEF StreamLedger, Handling
  <1>6. ASSUME NEW p \in Orders PROVE Books(p)'
    <2>1. IoPending(p)' = 0 /\ IoPending(p) = 0
      BY <1>0 DEF IoPending
    <2>2. OpenBooks(p)' = OpenBooks(p)
      BY <1>0, <2>1 DEF OpenBooks
    <2> QED BY <1>0, <1>3, <2>2 DEF StreamLedger, Books
  <1> QED BY <1>4, <1>5, <1>6 DEF StreamLedger

\* The stream's books hold at every step, whatever is delivered again, when no
\* cancel() finds its order gone.
THEOREM StreamLedgerHolds == MaxCancels = 0 /\ Spec => []StreamLedger
  <1> SUFFICES ASSUME MaxCancels = 0 PROVE Spec => []StreamLedger
    OBVIOUS
  <1>1. Init => StreamLedger
    BY FillsAssumption
    DEF Init, StreamLedger, Replays, Handling, Books, OpenBooks, Closed,
        IoPending, Final, Own
  <1>2. TypeOK /\ StreamLedger /\ [Next]_vars => StreamLedger'
    <2> SUFFICES ASSUME TypeOK, StreamLedger, [Next]_vars PROVE StreamLedger'
      OBVIOUS
    <2>0. \A o \in Orders : /\ vDeal[o] \in 0..MaxVol /\ vDeal[o] \in Int
                            /\ vDeal[o] >= vDeal[o]
      BY FillsAssumption DEF TypeOK
    <2>1. ASSUME NEW o \in Orders, Submit(o) PROVE StreamLedger'
      <3>1. PICK s \in {"live", "invalid"} : VenueStep(o, s, vDeal[o])
        BY <2>1 DEF Submit
      <3> QED
        BY <2>0, <2>1, <3>1, VenueKeepsStream DEF Submit, Terminal
    <2>2. ASSUME NEW o \in Orders, Trade(o) PROVE StreamLedger'
      <3>1. PICK d \in (vDeal[o] + 1)..MaxVol :
              VenueStep(o, IF d = MaxVol THEN "completed" ELSE "live", d)
        BY <2>2 DEF Trade
      <3>2. d \in 0..MaxVol /\ d >= vDeal[o]
        BY <2>0
      <3>3. UNCHANGED restVars /\ vState[o] = "live"
        BY <2>2 DEF Trade
      <3>4. CASE d = MaxVol
        BY <3>1, <3>2, <3>3, <3>4, VenueKeepsStream DEF Terminal
      <3>5. CASE d # MaxVol
        BY <3>1, <3>2, <3>3, <3>5, VenueKeepsStream
      <3> QED BY <3>4, <3>5
    <2>3. ASSUME NEW o \in Orders, VenueEnds(o) \/ CancelLive(o)
          PROVE  StreamLedger'
      <3>1. PICK s \in Terminal : VenueStep(o, s, vDeal[o])
        BY <2>3 DEF VenueEnds, CancelLive, Terminal
      <3> QED
        BY <2>0, <2>3, <3>1, VenueKeepsStream DEF VenueEnds, CancelLive
    <2>4. CASE StreamGap \/ StreamBack \/ Redeliver \/ IoForeign
      BY <2>4, StreamKeepsStream
    <2>5. CASE IoAccount
      BY <2>5, IoAccountKeepsStream
    <2>6. CASE IoFill
      BY <2>6, IoFillKeepsStream
    <2>7. CASE IoErase
      BY <2>7, IoEraseKeepsStream
    <2>8. CASE IoUpdate
      BY <2>8, IoUpdateKeepsStream
    <2>9. ASSUME NEW o \in Own, CancelGone(o) PROVE FALSE
      BY <2>9 DEF CancelGone, TypeOK
    <2>10. ~ReconcileStep
      BY DEF StreamLedger, Handling, ReconcileStep, ReconcileQuery,
             ReconcileAccount, ReconcileFill
    <2>11. CASE UNCHANGED vars
      BY <2>11
      DEF vars, venueVars, streamVars, ioVars, restVars, coreVars,
          StreamLedger, Replays, Handling, Books, OpenBooks, Closed,
          IoPending, Known, Truth, Event
    <2> QED
      BY <2>1, <2>2, <2>3, <2>4, <2>5, <2>6, <2>7, <2>8, <2>9, <2>10, <2>11
      DEF Next, IoStep, Own
  <1> QED BY <1>1, <1>2, TypeCorrect, PTL DEF Spec

\* The core hears of the last fill before it hears that the order is over, for
\* any outages and events delivered again, when no cancel() takes an increment
\* away from the stream.
THEOREM FillsComeFirst == MaxCancels = 0 /\ Spec => []FillBeforeFinal
  <1>1. TypeOK /\ StreamLedger => FillBeforeFinal
    <2> SUFFICES ASSUME StreamLedger, NEW o \in Own, told[o] \in Final
                 PROVE  credited[o] = vDeal[o]
      BY DEF FillBeforeFinal
    <2>1. o \in Orders /\ Closed(o)
      BY DEF StreamLedger, Handling, Closed, Own
    <2> QED BY <2>1 DEF StreamLedger, Books
  <1> QED BY <1>1, StreamLedgerHolds, TypeCorrect, PTL

\* Events delivered again never make the core count a contract twice, when the
\* stream does the accounting alone.
THEOREM ReplaysCreditNothing == MaxCancels = 0 /\ Spec => []NoOverCredit
  <1>1. TypeOK /\ StreamLedger => NoOverCredit
    <2> SUFFICES ASSUME TypeOK, StreamLedger, NEW o \in Orders
                 PROVE  credited[o] <= IF o \in Foreign THEN 0 ELSE vDeal[o]
      BY DEF NoOverCredit
    <2>1. /\ credited[o] \in Nat /\ vDeal[o] \in Nat /\ ioInc \in Nat
          /\ accountedDealVol[o] \in Nat
      BY FillsAssumption DEF TypeOK
    <2>2. IoPending(o) \in Nat
      BY <2>1 DEF IoPending
    <2>3. ~Closed(o) => credited[o] <= accountedDealVol[o]
      <3>1. ~Closed(o) => credited[o] + IoPending(o) = accountedDealVol[o]
        BY DEF StreamLedger, Books, OpenBooks
      <3>2. credited[o] <= credited[o] + IoPending(o)
        BY <2>1, <2>2
      <3> QED BY <3>1, <3>2
    <2>4. Closed(o) => o \notin Foreign
      <3>1. ioPc = "update" => Event.order \in Own
        BY DEF StreamLedger, Handling
      <3> QED BY <3>1 DEF StreamLedger, Replays, Closed, Own
    <2> QED BY <2>1, <2>3, <2>4 DEF StreamLedger, Books
  <1> QED BY <1>1, StreamLedgerHolds, TypeCorrect, PTL

=============================================================================
