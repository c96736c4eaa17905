----------------------------- MODULE OrderRules -----------------------------
(***************************************************************************)
(* What MexcExecutionGateway computes without state: the price and volume  *)
(* it puts into an order, and the class it gives a refusal.                *)
(*                                                                         *)
(* Prices are whole numbers of the finest unit; a number of decimals is    *)
(* the unit of its last digit.  Where the code's doubles can fall on       *)
(* either side of a tie, both results are possible.  The text of a refusal *)
(* is the set of the words, among those the code looks for, it contains.   *)
(***************************************************************************)
EXTENDS Integers, FiniteSetsExt

CONSTANT Decades  \* units of 0, 1, 2, ... decimals

ASSUME DecadesAssumption == 1 \in Decades /\ Decades \subseteq Nat \ {0}

-----------------------------------------------------------------------------
(* Prices and volumes.                                                     *)

\* The multiples of m nearest to x: std::round(x / m) * m.
Nearest(x, m) ==
  LET below == m * (x \div m) IN
  {y \in {below, below + m} : 2 * (x - y) <= m /\ 2 * (y - x) <= m}

\* decimalsOf: as many decimals as the step needs; all of them without a step.
DecimalsOf(step) ==
  IF step <= 0 THEN 1 ELSE Max({u \in Decades : step % u = 0})

\* Mutant: the price is rounded to its decimals only.
PricesOffTick(price, tick, unit) == Nearest(price, unit)

\* Snapped to the tick, then rounded to the decimals.
Prices(price, tick, unit) ==
  UNION {Nearest(p, unit) : p \in IF tick > 0 THEN Nearest(price, tick)
                                  ELSE {price}}

\* Whole contracts, then whole volUnits downwards.
Volumes(qty, size, volUnit) ==
  {IF volUnit > 1 THEN volUnit * ((y \div size) \div volUnit) ELSE y \div size :
     y \in Nearest(qty, size)}

-----------------------------------------------------------------------------
(* Refusals.                                                               *)

RejectKinds == {"Throttled", "PositionClosed", "BenignPostOnlyCross",
                "MinNotional", "Permanent", "Hard"}

Throttles == {"code: 510", "too frequent", "too many requests", "code: 513",
              "invalid request, please try again later"}
Closed == {"code: 2009", "nonexistent"}
Balances == {"insufficient", "margin", "balance"}
Restrictions ==
  {"not activated", "prohibited", "not allowed", "not exist",
   "risk management", "risk quota", "risk limit", "restricted", "code: 6002",
   "code: 8950", "country or region", "only close existing"}
GoneWords == {"not exist", "already", "code: 2013", "code: 2040"}
PrecisionWords == {"code: 2015", "precision"}

\* The tests of classifyReject in their order; a test passes when the text has
\* a word of each of its sets.
Tests == <<
  [words |-> {Throttles}, kind |-> "Throttled"],
  [words |-> {Closed}, kind |-> "PositionClosed"],
  [words |-> {{"maker"}, {"match", "immediately", "take"}},
   kind |-> "BenignPostOnlyCross"],
  [words |-> {Balances}, kind |-> "Hard"],
  [words |-> {{"min"}, {"vol", "amount", "size"}}, kind |-> "MinNotional"],
  [words |-> {Restrictions}, kind |-> "Permanent"]>>

Words == UNION {UNION Tests[i].words : i \in DOMAIN Tests}
           \cup GoneWords \cup PrecisionWords

Mentions(text, words) == text \cap words # {}

ClassifyReject(text) ==
  LET passed == {i \in DOMAIN Tests :
                   \A words \in Tests[i].words : Mentions(text, words)}
  IN IF passed = {} THEN "Hard" ELSE Tests[Min(passed)].kind

\* The numeric code of an order event that was refused after it was accepted.
ClassifyErrorCode(code) ==
  CASE code = 20 -> "BenignPostOnlyCross"
    [] code = 3 -> "PositionClosed"
    [] code \in {7, 6002} -> "Permanent"
    [] OTHER -> "Hard"

IsOrderGoneReason(text) == Mentions(text, GoneWords)
IsPrecisionReject(text) == Mentions(text, PrecisionWords)

=============================================================================
