--------------------------- MODULE WsClientProofs ---------------------------
(***************************************************************************)
(* Proofs about WsClient, for any callers and any number of calls and of   *)
(* handlers that throw.                                                    *)
(***************************************************************************)
EXTENDS WsClient, TLAPS

\* Before the destructor the session is not closed and nobody stops a running
\* io_context.
Undisturbed ==
  dtor = "no" => session \in {"none", "open"} /\ (io = "run" => ~stopped)

\* m_isRunning says whether there is a thread in the loop or about to be made,
\* as long as no run() has met a thread on its way out.
FlagTrue ==
  ~overtaken =>
    /\ io \in InLoop => isRunning
    /\ \A c \in Callers : pc[c] = "join" => io \in {"none", "ended"} /\ isRunning
    /\ isRunning =>
         \/ io \in InLoop \cup {"left"}
         \/ \E c \in Callers : pc[c] = "join"

IInv ==
  /\ TypeOK /\ jobs <= calls + (IF dtor = "no" THEN 0 ELSE 1)
  /\ Undisturbed /\ FlagTrue /\ SessionServed

\* Every step keeps the types; posted handlers are never more than the calls
\* and the destructor's one.
LEMMA TypeSteps ==
  ASSUME IInv, [Next]_vars
  PROVE  TypeOK' /\ (jobs <= calls + (IF dtor = "no" THEN 0 ELSE 1))'
<1> USE ClientAssumption DEF IInv, TypeOK, IoStages
<1>1. ASSUME NEW c \in Callers, Subscribe(c) \/ Unsubscribe(c) \/ Run(c)
      PROVE  TypeOK' /\ (jobs <= calls + (IF dtor = "no" THEN 0 ELSE 1))'
  BY <1>1 DEF Subscribe, Unsubscribe, Run, Enter, contextVars
<1>2. ASSUME NEW c \in Callers, RunCheck(c) \/ JoinAndSpawn(c)
      PROVE  TypeOK' /\ (jobs <= calls + (IF dtor = "no" THEN 0 ELSE 1))'
  BY <1>2 DEF RunCheck, JoinAndSpawn, Claim, Leave, contextVars
<1>3. ASSUME IoStep
      PROVE  TypeOK' /\ (jobs <= calls + (IF dtor = "no" THEN 0 ELSE 1))'
  <2>1. UNCHANGED <<locker, pc, dtor, overtaken, calls>>
    BY <1>3 DEF IoStep, IoStarts, IoChecks, IoHandles, IoDrains, IoReturns,
                IoLeaves, clientVars
  <2>2. /\ session' \in {"none", "open", "closing", "closed"}
        /\ stopped' \in BOOLEAN /\ isRunning' \in BOOLEAN /\ io' \in IoStages
    BY <1>3 DEF IoStep, IoStarts, IoChecks, IoHandles, IoDrains, IoReturns,
                IoLeaves, Restart, Throws, contextVars
  <2>3. /\ jobs' \in Nat /\ jobs' <= jobs /\ throws' \in 0..MaxThrows
    BY <1>3 DEF IoStep, IoStarts, IoChecks, IoHandles, IoDrains, IoReturns,
                IoLeaves, contextVars
  <2> QED BY <2>1, <2>2, <2>3
<1>4. ASSUME Close \/ DtorStep
      PROVE  TypeOK' /\ (jobs <= calls + (IF dtor = "no" THEN 0 ELSE 1))'
  <2>1. UNCHANGED <<locker, pc, session, isRunning, overtaken, calls, throws>>
    BY <1>4 DEF Close, DtorStep, Stop, Join, clientVars, contextVars
  <2>2. /\ dtor' \in {"stop", "join", "gone"} /\ stopped' \in BOOLEAN
        /\ io' \in IoStages
    BY <1>4 DEF Close, DtorStep, Stop, Join, contextVars
  <2>3. jobs' \in Nat /\ jobs' <= calls + 1
    BY <1>4 DEF Close, DtorStep, Stop, Join, contextVars
  <2> QED BY <2>1, <2>2, <2>3
<1>5. ASSUME UNCHANGED vars
      PROVE  TypeOK' /\ (jobs <= calls + (IF dtor = "no" THEN 0 ELSE 1))'
  BY <1>5 DEF vars, clientVars, contextVars
<1> QED BY <1>1, <1>2, <1>3, <1>4, <1>5 DEF Next

LEMMA UndisturbedSteps ==
  ASSUME IInv, [Next]_vars
  PROVE  Undisturbed'
<1> USE DEF IInv, Undisturbed
<1>1. ASSUME NEW c \in Callers, Subscribe(c) \/ Unsubscribe(c) \/ Run(c)
      PROVE  Undisturbed'
  BY <1>1 DEF Subscribe, Unsubscribe, Run, Enter, contextVars
<1>2. ASSUME NEW c \in Callers, RunCheck(c) \/ JoinAndSpawn(c)
      PROVE  Undisturbed'
  BY <1>2 DEF RunCheck, JoinAndSpawn, contextVars
<1>3. CASE IoStep
  BY <1>3 DEF IoStep, IoStarts, IoChecks, IoHandles, IoDrains, IoReturns,
              IoLeaves, Restart, Throws, contextVars, Leaving
<1>4. CASE Close \/ DtorStep
  BY <1>4 DEF Close, DtorStep, Stop, Join
<1>5. CASE UNCHANGED vars
  BY <1>5 DEF vars, contextVars
<1> QED BY <1>1, <1>2, <1>3, <1>4, <1>5 DEF Next

\* run() finds the flag set only when a thread is in the loop.
LEMMA RunFindsThread ==
  ASSUME IInv, NEW c \in Callers, pc[c] = "run", isRunning, ~overtaken,
         io \notin Leaving
  PROVE  io \in InLoop
<1>1. \A d \in Callers : pc[d] # "join"
  BY DEF IInv, TypeOK
<1> QED BY <1>1 DEF IInv, FlagTrue, Leaving

LEMMA FlagSteps ==
  ASSUME IInv, [Next]_vars
  PROVE  FlagTrue'
<1> SUFFICES ASSUME ~overtaken' PROVE FlagTrue'
  BY DEF FlagTrue
<1> USE DEF FlagTrue, InLoop
<1>0. TypeOK /\ (~overtaken => FlagTrue)
  BY DEF IInv
<1>1. ASSUME NEW c \in Callers, Subscribe(c) \/ Unsubscribe(c) \/ Run(c)
      PROVE  FlagTrue'
  <2>1. /\ pc[c] = "idle" /\ pc' \in {[pc EXCEPT ![c] = "run"], [pc EXCEPT ![c] = "idle"]}
        /\ UNCHANGED <<io, isRunning, overtaken>>
    BY <1>1 DEF Subscribe, Unsubscribe, Run, Enter
  <2>2. \A d \in Callers : (pc'[d] = "join") <=> (pc[d] = "join")
    BY <1>0, <2>1 DEF TypeOK
  <2> QED BY <1>0, <2>1, <2>2
<1>2. ASSUME NEW c \in Callers, RunCheck(c) PROVE FlagTrue'
  <2>1. pc[c] = "run" /\ ~overtaken /\ io \notin Leaving /\ UNCHANGED io
    BY <1>2 DEF RunCheck
  <2>2. \A d \in Callers : pc[d] # "join"
    BY <1>0, <2>1 DEF TypeOK
  <2>3. CASE isRunning
    <3>1. io \in InLoop /\ UNCHANGED isRunning /\ pc' = [pc EXCEPT ![c] = "idle"]
      BY <1>2, <2>1, <2>3, RunFindsThread DEF RunCheck, Leave
    <3>2. \A d \in Callers : pc'[d] # "join"
      BY <1>0, <2>2, <3>1 DEF TypeOK
    <3> QED BY <1>0, <2>1, <2>3, <3>1, <3>2
  <2>4. CASE ~isRunning
    <3>1. isRunning' = TRUE /\ pc' = [pc EXCEPT ![c] = "join"]
      BY <1>2, <2>4 DEF RunCheck, Claim
    <3>2. io \in {"none", "ended"}
      BY <1>0, <2>1, <2>4 DEF TypeOK, IoStages, Leaving
    <3> QED BY <1>0, <2>1, <3>1, <3>2 DEF TypeOK
  <2> QED BY <2>3, <2>4
<1>3. ASSUME NEW c \in Callers, JoinAndSpawn(c) PROVE FlagTrue'
  <2>1. /\ isRunning /\ UNCHANGED <<isRunning, overtaken>> /\ io' = "start"
        /\ pc' = [pc EXCEPT ![c] = "idle"]
    BY <1>0, <1>3 DEF JoinAndSpawn, Leave
  <2>2. \A d \in Callers : pc'[d] # "join"
    BY <1>0, <1>3, <2>1 DEF TypeOK, JoinAndSpawn
  <2> QED BY <2>1, <2>2
<1>4. CASE IoStep
  <2>1. UNCHANGED <<pc, overtaken>>
    BY <1>4 DEF IoStep, IoStarts, IoChecks, IoHandles, IoDrains, IoReturns,
                IoLeaves, clientVars
  <2>2. io \notin {"none", "ended"}
    BY <1>4 DEF IoStep, IoStarts, IoChecks, IoHandles, IoDrains, IoReturns,
                IoLeaves, Leaving
  <2>3. \A d \in Callers : pc[d] # "join"
    BY <1>0, <2>1, <2>2
  <2>4. CASE IoLeaves
    BY <1>0, <2>1, <2>3, <2>4 DEF IoLeaves, Leaving
  <2>5. CASE IoStep /\ ~IoLeaves
    <3>1. isRunning' /\ io' \in InLoop \cup {"left"}
      BY <1>0, <2>1, <2>5
      DEF IoStep, IoStarts, IoChecks, IoHandles, IoDrains, IoReturns, Throws
    <3> QED BY <2>1, <2>3, <3>1
  <2> QED BY <1>4, <2>4, <2>5
<1>5. CASE Close \/ DtorStep
  BY <1>0, <1>5 DEF Close, DtorStep, Stop, Join, clientVars
<1>6. CASE UNCHANGED vars
  BY <1>0, <1>6 DEF vars, clientVars
<1> QED BY <1>1, <1>2, <1>3, <1>4, <1>5, <1>6 DEF Next

LEMMA ServedSteps ==
  ASSUME IInv, [Next]_vars
  PROVE  SessionServed'
<1> SUFFICES ASSUME locker' = Nobody, session' = "open", dtor' = "no", ~overtaken'
             PROVE  io' \in InLoop
  BY UndisturbedSteps DEF SessionServed, Undisturbed
<1>0. TypeOK /\ Undisturbed /\ SessionServed
  BY DEF IInv
<1>1. ASSUME NEW c \in Callers, Subscribe(c) \/ Unsubscribe(c) \/ Run(c)
      PROVE  io' \in InLoop
  BY <1>0, <1>1, ClientAssumption
  DEF Subscribe, Unsubscribe, Run, Enter, SessionServed, contextVars
<1>2. ASSUME NEW c \in Callers, RunCheck(c) PROVE io' \in InLoop
  <2>1. pc[c] = "run" /\ ~overtaken /\ io \notin Leaving /\ UNCHANGED io
    BY <1>2 DEF RunCheck
  <2>2. isRunning
    BY <1>0, <1>2, ClientAssumption DEF RunCheck, Claim, TypeOK
  <2> QED BY <2>1, <2>2, RunFindsThread
<1>3. ASSUME NEW c \in Callers, JoinAndSpawn(c) PROVE io' \in InLoop
  BY <1>3 DEF JoinAndSpawn, InLoop
<1>4. CASE IoStep
  <2>1. dtor = "no" /\ locker = Nobody /\ ~overtaken
    BY <1>4 DEF IoStep, IoStarts, IoChecks, IoHandles, IoDrains, IoReturns,
                IoLeaves, clientVars
  <2>2. session = "open"
    BY <1>0, <1>4, <2>1
    DEF IoStep, IoStarts, IoChecks, IoHandles, IoDrains, IoReturns, IoLeaves,
        contextVars, Undisturbed
  <2>3. io \in InLoop /\ (io = "run" => ~stopped)
    BY <1>0, <2>1, <2>2 DEF SessionServed
  <2> QED BY <1>4, <2>2, <2>3
          DEF IoStep, IoStarts, IoChecks, IoHandles, IoDrains, IoReturns,
              IoLeaves, Throws, InLoop, Leaving
<1>5. CASE Close \/ DtorStep
  BY <1>0, <1>5 DEF Close, DtorStep, Stop, Join
<1>6. CASE UNCHANGED vars
  BY <1>0, <1>6 DEF vars, clientVars, contextVars, SessionServed
<1> QED BY <1>1, <1>2, <1>3, <1>4, <1>5, <1>6 DEF Next

-----------------------------------------------------------------------------
LEMMA Invariance == Spec => []IInv
<1>1. Init => IInv
  <2> SUFFICES ASSUME Init PROVE IInv
    OBVIOUS
  <2>1. TypeOK /\ jobs <= calls + (IF dtor = "no" THEN 0 ELSE 1)
    <3>1. /\ pc \in [Callers -> {"idle", "run", "join"}]
          /\ \A c \in Callers : (pc[c] # "idle") <=> (locker = c)
      BY ClientAssumption DEF Init
    <3>2. jobs \in 0..(MaxCalls + 1) /\ calls \in 0..MaxCalls
          /\ throws \in 0..MaxThrows /\ jobs <= calls
      BY ClientAssumption DEF Init
    <3>3. /\ session \in {"none", "open", "closing", "closed"}
          /\ locker \in Callers \cup {Nobody} /\ io \in IoStages
          /\ dtor = "no" /\ dtor \in {"no", "stop", "join", "gone"}
          /\ stopped \in BOOLEAN /\ isRunning \in BOOLEAN
          /\ overtaken \in BOOLEAN
      BY DEF Init, IoStages
    <3> QED BY <3>1, <3>2, <3>3 DEF TypeOK
  <2>2. Undisturbed /\ FlagTrue /\ SessionServed
    BY DEF Init, Undisturbed, FlagTrue, InLoop, SessionServed
  <2> QED BY <2>1, <2>2 DEF IInv
<1>2. IInv /\ [Next]_vars => IInv'
  BY TypeSteps, UndisturbedSteps, FlagSteps, ServedSteps DEF IInv
<1> QED BY <1>1, <1>2, PTL DEF Spec

\* TypeOK of WsClient: also, m_clientLocker is held by the one caller inside.
THEOREM TypeCorrect == Spec => []TypeOK
<1>1. IInv => TypeOK
  BY DEF IInv
<1> QED BY <1>1, Invariance, PTL

\* SessionServed: whoever creates the session, and whatever its handlers throw,
\* a thread runs it once the call is over, unless run() met a leaving thread.
THEOREM SessionsAreServed == Spec => []SessionServed
<1>1. IInv => SessionServed
  BY DEF IInv
<1> QED BY <1>1, Invariance, PTL

=============================================================================
