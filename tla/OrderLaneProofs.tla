-------------------------- MODULE OrderLaneProofs --------------------------
(***************************************************************************)
(* Proofs about OrderLane, for any number of legs and any delays.          *)
(***************************************************************************)
EXTENDS OrderLane, TLAPS

\* Every delay is positive and within the cap.
LEMMA CooldownRange ==
  ASSUME NEW k \in 0..4
  PROVE  Cooldown(k) \in 1..CooldownCap
  BY LaneAssumption DEF Cooldown, Least

\* What the history clocks and the deadlines keep between them.
Inv == TypeOK /\ Deadlines /\ BoundedLockout

\* Types, deadlines and the bound on them hold at every step: the type
\* invariant, Deadlines and BoundedLockout of OrderLane.
THEOREM LaneInvariant == Spec => [](TypeOK /\ Deadlines /\ BoundedLockout)
  <1> USE LaneAssumption
  <1>1. Init => Inv
    BY DEF Init, Inv, TypeOK, Deadlines, BoundedLockout, Least, Most
  <1>2. Inv /\ [Next]_vars => Inv'
    <2> SUFFICES ASSUME Inv, [Next]_vars PROVE Inv'
      OBVIOUS
    <2>0. Cooldown(Least(inARow, 4)) \in 1..CooldownCap
      BY CooldownRange DEF Inv, TypeOK, Least
    <2>1. CASE Tick
      BY <2>0, <2>1 DEF Tick, lane, Inv, TypeOK, Deadlines, BoundedLockout,
                        Least, Most
    <2>2. ASSUME NEW leg \in Legs, Acquire(leg) PROVE Inv'
      BY <2>0, <2>2 DEF Acquire, Inv, TypeOK, Deadlines, BoundedLockout,
                        Least, Most
    <2>3. CASE Succeeds
      BY <2>3 DEF Succeeds, Inv, TypeOK, Deadlines, BoundedLockout, Least,
                  Most
    <2>4. CASE Throttled
      <3> DEFINE k == Least(consecutiveOrderThrottles + 1, 4)
      <3>1. k \in 0..4 /\ k = Least(inARow', 4)
        BY <2>4 DEF Throttled, Inv, TypeOK, Deadlines, Least
      <3>2. Cooldown(k) \in 1..CooldownCap
        BY <3>1, CooldownRange
      <3>3. /\ consecutiveOrderThrottles' = k /\ phase' = "after"
            /\ coolLeft' = Most(coolLeft, Cooldown(k))
            /\ untilNext' = Most(untilNext, Cooldown(k))
            /\ UNCHANGED <<owner, sinceStart>>
            /\ sinceThrottle' = 0 /\ inARow' = Least(inARow + 1, 5)
            /\ phase = "rest"
        BY <2>4 DEF Throttled
      <3> HIDE DEF k
      <3>4. Cooldown(Least(inARow', 4)) = Cooldown(k)
        BY <3>1
      <3> QED
        BY <3>1, <3>2, <3>3, <3>4
        DEF Inv, TypeOK, Deadlines, BoundedLockout, Least, Most
    <2>5. CASE Fails
      BY <2>5 DEF Fails, history, Inv, TypeOK, Deadlines, BoundedLockout,
                  Least, Most
    <2>6. CASE Release
      BY <2>6 DEF Release, history, Inv, TypeOK, Deadlines, BoundedLockout,
                  Least, Most
    <2>7. CASE UNCHANGED vars
      BY <2>7 DEF vars, lane, history, Inv, TypeOK, Deadlines, BoundedLockout,
                  Least, Most
    <2> QED
      BY <2>1, <2>2, <2>3, <2>4, <2>5, <2>6, <2>7 DEF Next, Return
  <1>3. Inv => TypeOK /\ Deadlines /\ BoundedLockout
    BY DEF Inv
  <1> QED BY <1>1, <1>2, <1>3, PTL DEF Spec

\* Only Acquire gives the lane an owner, and only when nothing is due.
LEMMA OnlyAcquireStarts ==
  ASSUME TypeOK, Next, Starts
  PROVE  untilNext = 0 /\ coolLeft = 0
  BY DEF Next, Starts, Tick, Acquire, Return, Succeeds, Throttled, Fails,
         Release, TypeOK, lane

\* Starts of all legs together are at least the pacing apart.
THEOREM StartsAreSpaced == Spec => SpacedStarts
  <1>1. TypeOK /\ Deadlines /\ [Next]_vars
          => [Starts => sinceStart >= Spacing]_vars
    <2> SUFFICES ASSUME TypeOK, Deadlines, Next, Starts
                 PROVE  sinceStart >= Spacing
      OBVIOUS
    <2> QED BY OnlyAcquireStarts, LaneAssumption DEF TypeOK, Deadlines
  <1> QED BY <1>1, LaneInvariant, PTL DEF Spec, SpacedStarts

\* No leg starts a request inside the delay the venue's throttles call for.
THEOREM CooldownIsKept == Spec => NoStartInCooldown
  <1>1. TypeOK /\ Deadlines /\ [Next]_vars
          => [Starts /\ inARow > 0
                => sinceThrottle >= Cooldown(Least(inARow, 4))]_vars
    <2> SUFFICES ASSUME TypeOK, Deadlines, Next, Starts, inARow > 0
                 PROVE  sinceThrottle >= Cooldown(Least(inARow, 4))
      OBVIOUS
    <2>1. Cooldown(Least(inARow, 4)) \in Nat
      BY CooldownRange, LaneAssumption DEF TypeOK, Least
    <2> QED BY <2>1, OnlyAcquireStarts, LaneAssumption DEF TypeOK, Deadlines
  <1> QED BY <1>1, LaneInvariant, PTL DEF Spec, NoStartInCooldown

=============================================================================
