---------------------------- MODULE MCSpecCache ----------------------------
(* A small instance of SpecCache: prices in units of 0.001. *)
EXTENDS SpecCache

CONSTANTS l1, l2

MCLegs == {l1, l2}
MCMarketLegs == {l2}
MCDecades == {1, 10, 100, 1000}

Details(size, tick, scale, unit) ==
  [contractSize |-> size, priceUnit |-> tick, priceScale |-> scale,
   volUnit |-> unit]

\* Tick 0.25, then 0.5 with one decimal and volumes in threes, then a contract
\* of half the size without its priceScale.
MCContract ==
  <<Details(4, 250, 10, 1), Details(4, 500, 100, 3), Details(2, 20, 0, 2)>>

MCTexts == {{"code: 510", "risk limit"}, {"restricted", "code: 6002"}}

\* The codes of refused events are classed as the texts that say the same, and
\* no other word in a text makes a throttle fatal, or an order gone
\* (classifyErrorCode, classifyReject, isOrderGoneReason).
Others == {"insufficient", "min", "vol", "risk limit", "code: 2015"}

ASSUME ClassesAgree ==
  /\ ClassifyErrorCode(3) = ClassifyReject({"code: 2009"})
  /\ ClassifyErrorCode(20) = ClassifyReject({"maker", "take"})
  /\ ClassifyErrorCode(6002) = ClassifyReject({"code: 6002"})
  /\ ClassifyErrorCode(7) = ClassifyReject({"risk quota"})
  /\ \A words \in SUBSET Others : \A throttle \in Throttles :
       /\ ClassifyReject(words \cup {throttle}) = "Throttled"
       /\ ~IsOrderGoneReason(words \cup {throttle})

=============================================================================
