----------------------------- MODULE OrderLane -----------------------------
(***************************************************************************)
(* The private order lane of MexcExecutionGateway: every submit and cancel *)
(* of every leg takes orderLaneM without waiting, keeps it through its     *)
(* REST call, and shares one pacing deadline, one cooldown and one count   *)
(* of consecutive venue throttles.                                         *)
(*                                                                         *)
(* Time is discrete and a deadline is the time left until it: untilNext is *)
(* nextOrderRequestAt - now and coolLeft is orderCooldownUntil - now, both *)
(* 0 once passed, which is all the comparisons in the code can tell.  The  *)
(* clocks sinceStart and sinceThrottle are history, stopped at Horizon.    *)
(***************************************************************************)
EXTENDS Integers

CONSTANTS
  Legs,         \* callers: chase legs, each on its own thread
  NoLeg,        \* nobody owns orderLaneM
  Spacing,      \* orderRequestSpacing
  CooldownBase, \* 5 s
  CooldownCap,  \* 30 s
  Horizon       \* where the history clocks stop

ASSUME LaneAssumption ==
  /\ NoLeg \notin Legs
  /\ Spacing \in Nat \ {0} /\ CooldownBase \in Nat \ {0}
  /\ CooldownCap \in Nat \ {0} /\ Horizon \in Nat
  /\ Spacing <= Horizon /\ CooldownCap <= Horizon

VARIABLES
  owner,         \* who holds orderLaneM
  phase,         \* of the owner: "free", "rest" call, "after" it
  untilNext,     \* nextOrderRequestAt
  coolLeft,      \* orderCooldownUntil
  consecutiveOrderThrottles,
  sinceStart,    \* history: time since the last request was started
  sinceThrottle, \* history: time since the venue last throttled one
  inARow         \* history: venue throttles since the last success, up to 5

lane == <<owner, phase>>
history == <<sinceStart, sinceThrottle, inARow>>
vars == <<lane, untilNext, coolLeft, consecutiveOrderThrottles, history>>

Least(a, b) == IF a <= b THEN a ELSE b
Most(a, b) == IF a >= b THEN a ELSE b

\* Mutant: the doubling is not capped.
CooldownUncapped(streak) ==
  CooldownBase * (CASE streak = 1 -> 1 [] streak = 2 -> 2
                    [] streak = 3 -> 4 [] OTHER -> 8)

\* min(5 << (streak - 1), 30) seconds.
Cooldown(streak) ==
  Least(CooldownBase * (CASE streak = 1 -> 1 [] streak = 2 -> 2
                          [] streak = 3 -> 4 [] OTHER -> 8),
        CooldownCap)

Init ==
  /\ owner = NoLeg /\ phase = "free"
  /\ untilNext = 0 /\ coolLeft = 0 /\ consecutiveOrderThrottles = 0
  /\ sinceStart = Horizon /\ sinceThrottle = Horizon /\ inARow = 0

\* Time passes for every deadline and every clock.
Tick ==
  /\ untilNext' = Most(untilNext - 1, 0)
  /\ coolLeft' = Most(coolLeft - 1, 0)
  /\ sinceStart' = Least(sinceStart + 1, Horizon)
  /\ sinceThrottle' = Least(sinceThrottle + 1, Horizon)
  /\ UNCHANGED <<lane, consecutiveOrderThrottles, inARow>>

\* acquireOrderLane succeeds and the REST call starts.  When it does not (lock
\* taken, cooldown, pacing) it throws and leaves everything as it was.
Acquire(leg) ==
  /\ owner = NoLeg /\ coolLeft = 0 /\ untilNext = 0
  /\ owner' = leg /\ phase' = "rest"
  /\ untilNext' = Spacing /\ sinceStart' = 0
  /\ UNCHANGED <<coolLeft, consecutiveOrderThrottles, sinceThrottle, inARow>>

\* Mutant: a success also clears the pacing.
SucceedsNoPacing ==
  /\ phase = "rest" /\ phase' = "after"
  /\ consecutiveOrderThrottles' = 0 /\ inARow' = 0 /\ untilNext' = 0
  /\ UNCHANGED <<owner, coolLeft, sinceStart, sinceThrottle>>

\* The REST call of a submit or a cancel succeeded: clearOrderThrottleStreak.
Succeeds ==
  /\ phase = "rest" /\ phase' = "after"
  /\ consecutiveOrderThrottles' = 0 /\ inARow' = 0
  /\ UNCHANGED <<owner, untilNext, coolLeft, sinceStart, sinceThrottle>>

\* Mutant: the streak is not counted up.
ThrottledStreakLost ==
  /\ phase = "rest" /\ phase' = "after"
  /\ consecutiveOrderThrottles' = 1
  /\ LET until == Cooldown(1) IN
     coolLeft' = Most(coolLeft, until) /\ untilNext' = Most(untilNext, until)
  /\ sinceThrottle' = 0 /\ inARow' = Least(inARow + 1, 5)
  /\ UNCHANGED <<owner, sinceStart>>

\* The venue throttled it (510 left after the session's own retries):
\* extendOrderCooldownAfterThrottle.
Throttled ==
  /\ phase = "rest" /\ phase' = "after"
  /\ consecutiveOrderThrottles' = Least(consecutiveOrderThrottles + 1, 4)
  /\ LET until == Cooldown(consecutiveOrderThrottles') IN
     coolLeft' = Most(coolLeft, until) /\ untilNext' = Most(untilNext, until)
  /\ sinceThrottle' = 0 /\ inARow' = Least(inARow + 1, 5)
  /\ UNCHANGED <<owner, sinceStart>>

\* Any other failure, or a cancel of an order that is gone: neither deadline
\* nor streak moves.
Fails ==
  /\ phase = "rest" /\ phase' = "after"
  /\ UNCHANGED <<owner, untilNext, coolLeft, consecutiveOrderThrottles, history>>

\* Mutant: a throttled call leaves the lane locked.
ReleaseUnlessThrottled ==
  /\ phase = "after" /\ inARow = 0
  /\ owner' = NoLeg /\ phase' = "free"
  /\ UNCHANGED <<untilNext, coolLeft, consecutiveOrderThrottles, history>>

\* The unique_lock is released when the call returns or throws, after a
\* reconciliation or a refetch of the spec that it covers.
Release ==
  /\ phase = "after"
  /\ owner' = NoLeg /\ phase' = "free"
  /\ UNCHANGED <<untilNext, coolLeft, consecutiveOrderThrottles, history>>

Return == Succeeds \/ Throttled \/ Fails

Next == Tick \/ (\E leg \in Legs : Acquire(leg)) \/ Return \/ Release

Spec == Init /\ [][Next]_vars

\* Time passes, a call that is back from the venue returns, and some leg asks
\* again whenever the lane would admit one.  A REST call need not end.
FairSpec ==
  /\ Spec /\ WF_vars(Tick) /\ WF_vars(Release)
  /\ WF_vars(\E leg \in Legs : Acquire(leg))

-----------------------------------------------------------------------------
Starts == owner = NoLeg /\ owner' # NoLeg

\* Every variable keeps its type; the lane is owned exactly while it is used.
TypeOK ==
  /\ owner \in Legs \cup {NoLeg} /\ phase \in {"free", "rest", "after"}
  /\ (owner = NoLeg) <=> (phase = "free")
  /\ untilNext \in Nat /\ coolLeft \in 0..CooldownCap
  /\ consecutiveOrderThrottles \in 0..4
  /\ sinceStart \in 0..Horizon /\ sinceThrottle \in 0..Horizon
  /\ inARow \in 0..5

\* "at least this spacing between starts", over all legs: a throttle, a success
\* or a short call never lets a request start early.
SpacedStarts == [][Starts => sinceStart >= Spacing]_vars

\* After k throttles in a row no leg starts a request for the k-th delay of
\* 5, 10, 20, 30, 30, ... seconds: "stop every other leg from retrying into the
\* same window".
NoStartInCooldown ==
  [][Starts /\ inARow > 0 => sinceThrottle >= Cooldown(Least(inARow, 4))]_vars

\* A venue that throttles for ever still sees a request no later than the cap
\* after the last one was throttled: no leg is locked out for longer.
BoundedLockout ==
  /\ coolLeft > 0 => coolLeft + sinceThrottle <= CooldownCap
  /\ coolLeft <= untilNext
  /\ untilNext <= Most(Spacing, CooldownCap)

\* Requests keep being started, whatever the venue answers, unless one never
\* comes back: no read of the REST client has a timeout.
LaneFlows == []<>(phase = "rest")

\* The history clocks run at least as far as the deadlines: what makes
\* SpacedStarts and NoStartInCooldown inductive.
Deadlines ==
  /\ untilNext + sinceStart >= Spacing
  /\ consecutiveOrderThrottles = Least(inARow, 4)
  /\ inARow > 0 => coolLeft + sinceThrottle >= Cooldown(Least(inARow, 4))

=============================================================================
