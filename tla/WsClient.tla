------------------------------ MODULE WsClient ------------------------------
(***************************************************************************)
(* WSClient of the futures API: the calls of many threads, serialised by   *)
(* m_clientLocker, create one session and one io thread to run it; the     *)
(* io thread takes no lock.  The destructor runs when no call is inside.   *)
(*                                                                         *)
(* The session is external (WsSession): handlers posted to the io_context, *)
(* and operations pending for as long as it is open.  So is the            *)
(* io_context: run() executes handlers until it is stopped, and stops      *)
(* itself when nothing is left to wait for.                                *)
(***************************************************************************)
EXTENDS Integers

CONSTANTS
  Callers,   \* threads that call the client
  Nobody,    \* the lock is free
  MaxCalls,  \* calls
  MaxThrows  \* handlers that throw

ASSUME ClientAssumption ==
  Nobody \notin Callers /\ MaxCalls \in Nat /\ MaxThrows \in Nat

VARIABLES
  locker,     \* the caller that holds m_clientLocker
  pc,         \* where each caller is
  session,    \* "none", "open", "closing" (operations end), "closed"
  jobs,       \* handlers posted
  stopped,    \* io_context::stopped()
  isRunning,
  io,         \* where the io thread is
  dtor,       \* where the destructor is
  overtaken,  \* history: run() was called while the io thread was leaving
  calls, throws

clientVars == <<locker, pc>>
contextVars == <<session, jobs, stopped>>
vars == <<clientVars, contextVars, isRunning, io, dtor, overtaken, calls,
          throws>>

\* The io thread: not created or joined; before m_isRunning is set; before
\* stopped() is asked; inside io_context::run(); back from it; out of the loop;
\* ready to be joined.
IoStages == {"none", "start", "check", "run", "left", "done", "ended"}
InLoop == {"start", "check", "run"}
Leaving == {"left", "done"}

Init ==
  /\ locker = Nobody /\ pc = [c \in Callers |-> "idle"]
  /\ session = "none" /\ jobs = 0 /\ stopped = FALSE
  /\ isRunning = FALSE /\ io = "none" /\ dtor = "no"
  /\ overtaken = FALSE /\ calls = 0 /\ throws = 0

-----------------------------------------------------------------------------
(* Calls, under m_clientLocker.                                            *)

Enter(c, where) ==
  /\ pc[c] = "idle" /\ locker = Nobody /\ dtor = "no"
  /\ calls < MaxCalls /\ calls' = calls + 1
  /\ pc' = [pc EXCEPT ![c] = where]
  /\ locker' = IF where = "idle" THEN Nobody ELSE c

\* subscribe, connect: the session is created, or told; then run().
Subscribe(c) ==
  /\ Enter(c, "run")
  /\ session' = "open" /\ jobs' = jobs + 1
  /\ UNCHANGED <<stopped, isRunning, io, dtor, overtaken, throws>>

Unsubscribe(c) ==
  /\ session # "none" /\ Enter(c, "idle")
  /\ jobs' = jobs + 1
  /\ UNCHANGED <<session, stopped, isRunning, io, dtor, overtaken, throws>>

Run(c) ==
  /\ Enter(c, "run")
  /\ UNCHANGED <<contextVars, isRunning, io, dtor, overtaken, throws>>

\* Mutant: m_isRunning is left for the io thread to set.
ClaimNot(c) ==
  /\ pc' = [pc EXCEPT ![c] = "join"] /\ UNCHANGED <<locker, isRunning>>

Claim(c) ==
  /\ isRunning' = TRUE
  /\ pc' = [pc EXCEPT ![c] = "join"] /\ UNCHANGED locker

Leave(c) == locker' = Nobody /\ pc' = [pc EXCEPT ![c] = "idle"]

\* run(): the test of m_isRunning.
RunCheck(c) ==
  /\ pc[c] = "run"
  /\ IF isRunning THEN Leave(c) /\ UNCHANGED isRunning ELSE Claim(c)
  /\ overtaken' = (overtaken \/ io \in Leaving)
  /\ UNCHANGED <<contextVars, io, dtor, calls, throws>>

\* run(): the old thread is joined and a new one created, with the lock held.
JoinAndSpawn(c) ==
  /\ pc[c] = "join" /\ io \in {"none", "ended"}
  /\ io' = "start" /\ Leave(c)
  /\ UNCHANGED <<contextVars, isRunning, dtor, overtaken, calls, throws>>

-----------------------------------------------------------------------------
(* The io thread.                                                          *)

IoStarts ==
  /\ io = "start" /\ io' = "check" /\ isRunning' = TRUE
  /\ UNCHANGED <<clientVars, contextVars, dtor, overtaken, calls, throws>>

\* Mutant: a stopped io_context is run as it is.
RestartNot == UNCHANGED stopped

Restart == stopped' = FALSE

IoChecks ==
  /\ io = "check" /\ io' = "run"
  /\ Restart
  /\ UNCHANGED <<clientVars, session, jobs, isRunning, dtor, overtaken, calls,
                 throws>>

\* Mutant: an exception ends the loop.
ThrowsOut == io' = "left"

Throws == io' = "start"

\* A handler runs; the last one posted to a client under destruction closes the
\* session.
IoHandles ==
  /\ io = "run" /\ ~stopped /\ jobs > 0 /\ jobs' = jobs - 1
  /\ session' = IF dtor \in {"stop", "join"} /\ jobs = 1 THEN "closing"
                ELSE session
  /\ \/ UNCHANGED <<io, throws>>
     \/ throws < MaxThrows /\ throws' = throws + 1 /\ Throws
  /\ UNCHANGED <<clientVars, stopped, isRunning, dtor, overtaken, calls>>

\* The operations of a closed session end.
IoDrains ==
  /\ io = "run" /\ ~stopped /\ session = "closing" /\ session' = "closed"
  /\ UNCHANGED <<clientVars, jobs, stopped, isRunning, io, dtor, overtaken,
                 calls, throws>>

\* io_context::run() returns: stopped, or out of work.
IoReturns ==
  /\ io = "run"
  /\ stopped \/ (jobs = 0 /\ session \in {"none", "closed"})
  /\ stopped' = TRUE /\ io' = "left"
  /\ UNCHANGED <<clientVars, session, jobs, isRunning, dtor, overtaken, calls,
                 throws>>

\* m_isRunning is cleared inside the loop and once more behind it.
IoLeaves ==
  /\ io \in Leaving /\ isRunning' = FALSE
  /\ io' = IF io = "left" THEN "done" ELSE "ended"
  /\ UNCHANGED <<clientVars, contextVars, dtor, overtaken, calls, throws>>

IoStep ==
  IoStarts \/ IoChecks \/ IoHandles \/ IoDrains \/ IoReturns \/ IoLeaves

-----------------------------------------------------------------------------
(* The destructor.                                                         *)

\* Mutant: the session is not closed.
CloseNot ==
  /\ dtor = "no" /\ \A c \in Callers : pc[c] = "idle"
  /\ dtor' = "stop"
  /\ UNCHANGED <<clientVars, contextVars, isRunning, io, overtaken, calls,
                 throws>>

Close ==
  /\ dtor = "no" /\ \A c \in Callers : pc[c] = "idle"
  /\ dtor' = "stop"
  /\ jobs' = IF session = "none" THEN jobs ELSE jobs + 1
  /\ UNCHANGED <<clientVars, session, stopped, isRunning, io, overtaken, calls,
                 throws>>

Stop ==
  /\ dtor = "stop" /\ dtor' = "join" /\ stopped' = TRUE
  /\ UNCHANGED <<clientVars, session, jobs, isRunning, io, overtaken, calls,
                 throws>>

Join ==
  /\ dtor = "join" /\ io \in {"none", "ended"}
  /\ dtor' = "gone" /\ io' = "none"
  /\ UNCHANGED <<clientVars, contextVars, isRunning, overtaken, calls, throws>>

DtorStep == Stop \/ Join

Next ==
  \/ \E c \in Callers : \/ Subscribe(c) \/ Unsubscribe(c) \/ Run(c)
                        \/ RunCheck(c) \/ JoinAndSpawn(c)
  \/ IoStep \/ Close \/ DtorStep

Spec == Init /\ [][Next]_vars

\* Threads that can go on do.
FairSpec ==
  /\ Spec /\ WF_vars(IoStep) /\ WF_vars(DtorStep)
  /\ \A c \in Callers : WF_vars(RunCheck(c) \/ JoinAndSpawn(c))

-----------------------------------------------------------------------------
(* Properties.                                                             *)

\* Every variable keeps its type, and the lock is held by the caller inside.
TypeOK ==
  /\ locker \in Callers \cup {Nobody}
  /\ pc \in [Callers -> {"idle", "run", "join"}]
  /\ \A c \in Callers : (pc[c] # "idle") <=> (locker = c)
  /\ session \in {"none", "open", "closing", "closed"}
  /\ jobs \in 0..(MaxCalls + 1) /\ stopped \in BOOLEAN
  /\ isRunning \in BOOLEAN /\ io \in IoStages
  /\ dtor \in {"no", "stop", "join", "gone"} /\ overtaken \in BOOLEAN
  /\ calls \in 0..MaxCalls /\ throws \in 0..MaxThrows

\* When nobody is inside a call, an open session has a thread that runs it,
\* however many threads created it and whatever its handlers threw (run() and
\* ensureSession under m_clientLocker, the loop of the io thread).
SessionServed ==
  locker = Nobody /\ session = "open" /\ dtor = "no" /\ ~overtaken =>
    io \in InLoop /\ (io = "run" => ~stopped)

\* What was posted runs, also when the io_context had stopped for want of work
\* before (restart()), unless run() met a leaving thread.
PostedRuns == (jobs > 0) ~> (jobs = 0 \/ overtaken \/ dtor # "no")

\* Calls and the destructor return: nobody joins a thread that never ends, not
\* even when the io thread undoes the destructor's stop().
NobodyBlocks ==
  /\ \A c \in Callers : (pc[c] # "idle") ~> (pc[c] = "idle" \/ overtaken)
  /\ (dtor = "stop") ~> (dtor = "gone")

=============================================================================
