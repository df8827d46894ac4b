--------------------------- MODULE ToolCallsProofs ---------------------------
(***************************************************************************)
(* Proofs about ToolCalls for any number of calls, any tools and any       *)
(* budget of faults.  GateInv is the invariant of the escalation gate,     *)
(* CallInv that of a call between the gate and the workers, and PoolInv    *)
(* (ExtensionPoolProofs) that of the workers.                              *)
(***************************************************************************)
EXTENDS ToolCalls, ExtensionPoolProofs

\* What timers, sweeps and decisions that are under way know of their row.
GateOK(c) ==
    /\ asked[c] = "no" => row[c] = "none"
    /\ asked[c] = "inserted" => row[c] # "none"
    /\ c \in waiting => row[c] # "none"
    /\ timer[c] = "set" => row[c] # "none"
    /\ timer[c] = "won" => row[c] = "timeout"
    /\ timer[c] = "lost" => row[c] \in Decided
    /\ c \in sweeping => row[c] = "timeout"
    /\ c \in deciding => row[c] \in Decided
    /\ answer[c] # "none" => answer[c] = row[c]
    /\ Forgotten(c) => row[c] \in Decided

GateInv == GateTypeOK /\ \A c \in Calls : GateOK(c)

\* A call that was sent to a worker has left the gate, with an approval if it
\* needed one, and has been sent to one worker unless it may be repeated.
CallOK(c) ==
    /\ at[c] \in {"gate", "spawning"} => ran[c] = {}
    /\ CanReplay(c) \/ \E t : ran[c] \subseteq {t}
    /\ ShouldEscalate(c) /\ (ran[c] # {} \/ at[c] \in Acquiring \cup Invoking)
          => row[c] = "approved"

CallShape ==
    /\ at = [c \in Calls |-> at[c]]
    /\ ran = [c \in Calls |-> ran[c]]

CallInv == CallShape /\ \A c \in Calls : CallOK(c)

IInv == GateInv /\ CallInv

-----------------------------------------------------------------------------
(* The gate *)

LEMMA GateStutters ==
    ASSUME GateInv, UNCHANGED gateVars
    PROVE  GateInv'
BY DEF GateInv, GateTypeOK, GateOK, Forgotten, gateVars

LEMMA Requests ==
    ASSUME GateInv, NEW c \in Calls,
           RequestEscalation(c) \/ RequestFails(c) \/ Register(c) \/ Expires(c)
    PROVE  GateInv'
<1> USE DEF GateInv, GateTypeOK, GateOK, Forgotten, Decided, Decisions
<1>1. CASE RequestEscalation(c)
  BY <1>1 DEF RequestEscalation
<1>2. CASE RequestFails(c)
  BY <1>2 DEF RequestFails
<1>3. CASE Register(c)
  BY <1>3 DEF Register
<1>4. CASE Expires(c)
  BY <1>4 DEF Expires, memoryVars
<1>5. QED BY <1>1, <1>2, <1>3, <1>4

LEMMA DecisionsKeep ==
    ASSUME GateInv, NEW c \in Calls, NEW s \in Decisions,
           Decide(c, s) \/ DecideElsewhere(c, s)
    PROVE  GateInv'
<1> USE DEF GateInv, GateTypeOK, GateOK, Forgotten, Decided, Decisions, IsPending
<1>1. CASE Decide(c, s)
  BY <1>1 DEF Decide
<1>2. CASE DecideElsewhere(c, s)
  BY <1>2 DEF DecideElsewhere, memoryVars
<1>3. QED BY <1>1, <1>2

\* Resolving promises with what their rows say keeps the invariant.
LEMMA SettleKeeps ==
    ASSUME GateInv, NEW S \in SUBSET Calls, NEW d, Settle(S, d),
           \A c \in S : d[c] = row[c] /\ row[c] \in Decided,
           timer' \in [Calls -> {"off", "set", "won", "lost"}],
           \A c \in Calls : timer'[c] \in {timer[c], "off"},
           deciding' \subseteq deciding, sweeping' \subseteq sweeping,
           UNCHANGED <<row, overdue>>
    PROVE  GateInv'
<1>1. /\ waiting' = waiting \ (S \cap waiting)
      /\ asked' = [c \in Calls |-> IF c \in S \cap waiting THEN "settled" ELSE asked[c]]
      /\ answer' = [c \in Calls |-> IF c \in S \cap waiting THEN d[c] ELSE answer[c]]
  BY DEF Settle
<1>2. GateTypeOK'
  BY <1>1 DEF GateInv, GateTypeOK
<1>3. ASSUME NEW c \in Calls PROVE GateOK(c)'
  BY <1>1 DEF GateInv, GateTypeOK, GateOK, Forgotten, Decided, Decisions
<1>4. QED BY <1>2, <1>3 DEF GateInv

LEMMA ContinuationsKeep ==
    ASSUME GateInv, NEW c \in Calls,
           DecideContinues(c) \/ SweepContinues
    PROVE  GateInv'
<1>1. \A S \in SUBSET Calls : /\ ClearTimers(S) \in [Calls -> {"off", "set", "won", "lost"}]
                              /\ \A x \in Calls : ClearTimers(S)[x] \in {timer[x], "off"}
  BY DEF ClearTimers, GateInv, GateTypeOK
<1>2. CASE DecideContinues(c)
  <2>1. {c} \in SUBSET Calls /\ \A x \in {c} : row[x] = row[x] /\ row[x] \in Decided
    BY <1>2 DEF DecideContinues, GateInv, GateOK
  <2>2. /\ Settle({c}, row) /\ timer' = ClearTimers({c})
        /\ deciding' \subseteq deciding /\ UNCHANGED <<row, overdue, sweeping>>
    BY <1>2 DEF DecideContinues
  <2>3. QED BY <1>1, <2>1, <2>2, SettleKeeps
<1>3. CASE SweepContinues
  <2> DEFINE d == [x \in Calls |-> TimedOut]
  <2>1. sweeping \in SUBSET Calls /\ \A x \in sweeping : d[x] = row[x] /\ row[x] \in Decided
    BY DEF GateInv, GateTypeOK, GateOK, TimedOut, Decided, Decisions
  <2>2. Settle(sweeping, d) /\ timer' = ClearTimers(sweeping)
        /\ sweeping' = {} /\ UNCHANGED <<row, overdue, deciding>>
    BY <1>3 DEF SweepContinues
  <2> HIDE DEF d
  <2>3. QED BY <1>1, <2>1, <2>2, SettleKeeps
<1>4. QED BY <1>2, <1>3

LEMMA TimersKeep ==
    ASSUME GateInv, NEW c \in Calls,
           TimerFires(c) \/ TimerFails(c) \/ TimerContinues(c)
    PROVE  GateInv'
<1>1. CASE TimerFires(c)
  BY <1>1 DEF TimerFires, TimedOut, IsPending, GateInv, GateTypeOK, GateOK, Forgotten, Decided, Decisions
<1>2. CASE TimerFails(c)
  BY <1>2 DEF TimerFails, WaitingOnError, GateInv, GateTypeOK, GateOK, Forgotten
<1>3. CASE TimerContinues(c) /\ timer[c] = "won"
  <2> DEFINE d == [x \in Calls |-> TimedOut]
  <2>1. d[c] = row[c] /\ row[c] \in Decided
    BY <1>3 DEF GateInv, GateTypeOK, GateOK, TimedOut, Decided, Decisions
  <2>2. /\ Settle({c}, d) /\ timer' = [timer EXCEPT ![c] = "off"]
        /\ UNCHANGED <<row, overdue, deciding, sweeping>>
    BY <1>3 DEF TimerContinues, TimerResolves
  <2>3. /\ timer' \in [Calls -> {"off", "set", "won", "lost"}]
        /\ \A x \in Calls : timer'[x] \in {timer[x], "off"}
    BY <2>2 DEF GateInv, GateTypeOK
  <2> HIDE DEF d
  <2>4. QED BY <2>1, <2>2, <2>3, SettleKeeps
<1>4. CASE TimerContinues(c) /\ timer[c] = "lost"
  BY <1>4 DEF TimerContinues, TimerResolves, GateInv, GateTypeOK, GateOK, Forgotten
<1>5. QED BY <1>1, <1>2, <1>3, <1>4 DEF TimerContinues

LEMMA SweepsKeep ==
    ASSUME GateInv, Sweep \/ SweepElsewhere \/ GateRestart
    PROVE  GateInv'
<1>1. CASE Sweep
  BY <1>1 DEF Sweep, ExpireRows, Expired, TimedOut, IsPending, GateInv, GateTypeOK,
              GateOK, Forgotten, Decided, Decisions
<1>2. CASE SweepElsewhere
  BY <1>2 DEF SweepElsewhere, ExpireRows, Expired, TimedOut, IsPending, memoryVars,
              GateInv, GateTypeOK, GateOK, Forgotten, Decided, Decisions
<1>3. CASE GateRestart
  BY <1>3 DEF GateRestart, GateInv, GateTypeOK, GateOK, Forgotten, Decided, Decisions
<1>4. QED BY <1>1, <1>2, <1>3

\* No step decides a row that is decided.
LEMMA RowsStay ==
    ASSUME GateInv, [Next]_vars, NEW x \in Calls, row[x] \in Decided
    PROVE  row'[x] = row[x]
<1> USE DEF GateInv, GateTypeOK, GateOK, Decided, Decisions, IsPending
<1>1. CASE \E c \in Calls : Asks(c)
  BY <1>1 DEF Asks, RequestEscalation, RequestFails
<1>2. CASE \E c \in Calls : GateStep(c)
  <2> PICK c \in Calls : GateStep(c) BY <1>2
  <2>1. CASE \E s \in Decisions : Decide(c, s) \/ DecideElsewhere(c, s)
    BY <2>1 DEF Decide, DecideElsewhere
  <2>2. CASE TimerFires(c)
    BY <2>2 DEF TimerFires
  <2>3. CASE Sweep \/ SweepElsewhere
    BY <2>3 DEF Sweep, SweepElsewhere, ExpireRows, Expired
  <2>4. CASE Register(c) \/ Expires(c) \/ DecideContinues(c) \/ TimerContinues(c) \/ SweepContinues
    BY <2>4 DEF Register, Expires, DecideContinues, TimerContinues, SweepContinues
  <2>5. QED BY <2>1, <2>2, <2>3, <2>4 DEF GateStep
<1>3. CASE \/ \E c \in Calls : Passes(c) \/ GoesOn(c) \/ PoolStep(c) \/ PoolBreaks(c)
           \/ UNCHANGED vars
  BY <1>3 DEF Passes, GoesOn, PoolStep, PoolBreaks, PoolOnly, gateVars, vars
<1>4. CASE \E c \in Calls : TimerBreaks(c)
  BY <1>4 DEF TimerBreaks, TimerFails
<1>5. CASE Restart
  BY <1>5 DEF Restart, GateRestart
<1>6. QED BY <1>1, <1>2, <1>3, <1>4, <1>5 DEF Next

LEMMA GateInvStep ==
    ASSUME GateInv, [Next]_vars
    PROVE  GateInv'
<1>1. CASE \E c \in Calls : Asks(c)
  BY <1>1, Requests DEF Asks
<1>2. CASE \E c \in Calls : GateStep(c)
  BY <1>2, Requests, DecisionsKeep, ContinuationsKeep, TimersKeep, SweepsKeep DEF GateStep
<1>3. CASE \/ \E c \in Calls : Passes(c) \/ GoesOn(c) \/ PoolStep(c) \/ PoolBreaks(c)
           \/ UNCHANGED vars
  BY <1>3, GateStutters DEF Passes, GoesOn, PoolStep, PoolBreaks, PoolOnly, vars
<1>4. CASE \E c \in Calls : TimerBreaks(c)
  BY <1>4, TimersKeep DEF TimerBreaks
<1>5. CASE Restart
  BY <1>5, SweepsKeep DEF Restart
<1>6. QED BY <1>1, <1>2, <1>3, <1>4, <1>5 DEF Next

-----------------------------------------------------------------------------
(* A call between the gate and the workers *)

LEMMA HintsStay ==
    ASSUME NEW c \in Calls, setup' = setup
    PROVE  /\ ShouldEscalate(c)' <=> ShouldEscalate(c)
           /\ CanReplay(c)' <=> CanReplay(c)
BY DEF ShouldEscalate, CanReplay

\* A step keeps CallInv when it keeps CallOK of the calls it moves.
LEMMA CallsKeep ==
    ASSUME CallInv, CallShape', setup' = setup,
           \A x \in Calls : row[x] = "approved" => row'[x] = "approved",
           \A x \in Calls : UNCHANGED <<at[x], ran[x]>> \/ CallOK(x)'
    PROVE  CallInv'
<1>1. ASSUME NEW x \in Calls, UNCHANGED <<at[x], ran[x]>> PROVE CallOK(x)'
  BY <1>1, HintsStay DEF CallInv, CallOK
<1>2. QED BY <1>1 DEF CallInv

\* A call that needs no consent, or has it, goes to the workers.
LEMMA AcquireKeeps ==
    ASSUME CallInv, NEW c \in Calls, Acquire(c), UNCHANGED <<setup, row>>,
           ShouldEscalate(c) => row[c] = "approved"
    PROVE  CallInv'
<1> USE DEF CallInv, CallShape, CallOK
<1>1. ran[c] = {}
  BY DEF Acquire
<1>2. CASE pool # NoThread
  <2>1. /\ at' = [at EXCEPT ![c] = "running"]
        /\ ran' = [ran EXCEPT ![c] = {pool}]
    BY <1>1, <1>2 DEF Acquire, Invoke
  <2>2. QED BY <2>1, HintsStay, CallsKeep
<1>3. CASE pool = NoThread
  BY <1>1, <1>3, HintsStay, CallsKeep DEF Acquire
<1>4. QED BY <1>2, <1>3

\* Invocations fail, and none is at the gate.
LEMMA FailKeeps ==
    ASSUME CallInv, NEW S \in SUBSET {c \in Calls : at[c] \in Invoking}, NEW p, NEW T,
           Fail(S, p, T), UNCHANGED <<setup, row, ran>>
    PROVE  CallInv'
<1> DEFINE again == IF p = NoThread THEN {c \in S : at[c] = "running"} ELSE {}
<1>1. at' = [c \in Calls |-> IF c \in again THEN "respawning"
                             ELSE IF c \in S THEN "ended" ELSE at[c]]
  BY DEF Fail
<1>2. again \subseteq S
  OBVIOUS
<1> HIDE DEF again
<1>3. CallShape'
  BY <1>1 DEF CallInv, CallShape
<1>4. ASSUME NEW x \in S PROVE CallOK(x)'
  BY <1>1, <1>2, <1>4, HintsStay DEF CallInv, CallOK, Invoking
<1>5. QED BY <1>1, <1>2, <1>3, <1>4, CallsKeep DEF Invoking

LEMMA ActivationKeeps ==
    ASSUME CallInv, NEW c \in Calls, UNCHANGED <<setup, row>>,
           Activated(c) \/ ActivationFails(c) \/ ActivationTimesOut(c)
    PROVE  CallInv'
<1> USE DEF CallInv, CallShape, CallOK, Acquiring
<1>1. CASE Activated(c) /\ at[c] = "spawning"
  <2>1. /\ at' = [at EXCEPT ![c] = "running"]
        /\ ran' = [ran EXCEPT ![c] = {on[c]}]
    BY <1>1 DEF Activated, Invoke
  <2>2. QED BY <1>1, <2>1, HintsStay, CallsKeep
<1>2. CASE Activated(c) /\ at[c] = "respawning" /\ CanReplay(c)
  <2>1. /\ at' = [at EXCEPT ![c] = "rerunning"]
        /\ ran' = [ran EXCEPT ![c] = @ \cup {on[c]}]
    BY <1>2 DEF Activated, Invoke
  <2>2. CallOK(c)'
    BY <1>2, <2>1, HintsStay
  <2>3. CallShape' /\ \A x \in Calls : x = c \/ UNCHANGED <<at[x], ran[x]>>
    BY <2>1
  <2>4. QED BY <2>2, <2>3, CallsKeep
<1>3. CASE Activated(c) /\ at[c] = "respawning" /\ ~CanReplay(c)
  BY <1>3, HintsStay, CallsKeep DEF Activated, End
<1>4. CASE ActivationFails(c) \/ ActivationTimesOut(c)
  BY <1>4, HintsStay, CallsKeep DEF ActivationFails, ActivationTimesOut, GiveUpActivation, End
<1>5. QED BY <1>1, <1>2, <1>3, <1>4 DEF Activated

LEMMA InvocationKeeps ==
    ASSUME CallInv, NEW c \in Calls, UNCHANGED <<setup, row>>,
           \/ \E ok \in BOOLEAN : ReplyArrives(c, ok)
           \/ InvokeTimesOut(c)
           \/ \E t \in Threads : WorkerCrashes(t)
    PROVE  CallInv'
<1>1. ASSUME NEW ok \in BOOLEAN, ReplyArrives(c, ok) PROVE CallInv'
  <2>1. CASE Fail({c}, pool, {})
    BY <1>1, <2>1, FailKeeps DEF ReplyArrives
  <2>2. CASE End(c, "ok")
    BY <1>1, <2>2, HintsStay, CallsKeep DEF ReplyArrives, End, CallInv, CallShape, CallOK
  <2>3. QED BY <1>1, <2>1, <2>2 DEF ReplyArrives
<1>2. CASE InvokeTimesOut(c)
  BY <1>2, FailKeeps DEF InvokeTimesOut, HasTimer
<1>3. ASSUME NEW t \in Threads, WorkerCrashes(t) PROVE CallInv'
  BY <1>3, FailKeeps DEF WorkerCrashes
<1>4. QED BY <1>1, <1>2, <1>3

LEMMA CallsStutter ==
    ASSUME CallInv, UNCHANGED <<at, ran, setup>>,
           \A x \in Calls : row[x] = "approved" => row'[x] = "approved"
    PROVE  CallInv'
BY HintsStay DEF CallInv, CallShape, CallOK

LEMMA CallInvStep ==
    ASSUME IInv, [Next]_vars
    PROVE  CallInv'
<1>1. \A x \in Calls : row[x] = "approved" => row'[x] = "approved"
  BY RowsStay DEF IInv, Decided, Decisions
<1>2. CallInv
  BY DEF IInv
<1>3. CASE \/ \E c \in Calls : Asks(c) \/ GateStep(c) \/ TimerBreaks(c)
           \/ UNCHANGED vars
  BY <1>1, <1>2, <1>3, CallsStutter DEF Asks, GateStep, TimerBreaks, GateOnly, poolVars, vars
<1>4. ASSUME NEW c \in Calls, Passes(c) PROVE CallInv'
  BY <1>2, <1>4, AcquireKeeps DEF Passes, PoolOnly, gateVars
<1>5. ASSUME NEW c \in Calls, GoesOn(c) PROVE CallInv'
  <2>1. UNCHANGED <<setup, row>>
    BY <1>5 DEF GoesOn, PoolOnly, gateVars
  <2>2. CASE answer[c] = "approved" /\ Acquire(c)
    <3>1. row[c] = "approved"
      BY <2>2 DEF IInv, GateInv, GateOK
    <3>2. QED BY <1>2, <2>1, <2>2, <3>1, AcquireKeeps
  <2>3. CASE End(c, "denied") /\ UNCHANGED ran
    BY <1>1, <1>2, <1>5, <2>1, <2>3, HintsStay, CallsKeep
    DEF GoesOn, End, CallInv, CallShape, CallOK, Acquiring, Invoking
  <2>4. QED BY <1>5, <2>2, <2>3 DEF GoesOn
<1>6. ASSUME NEW c \in Calls, PoolStep(c) \/ PoolBreaks(c) PROVE CallInv'
  <2>1. UNCHANGED <<setup, row>>
    BY <1>6 DEF PoolStep, PoolBreaks, PoolOnly, gateVars
  <2>2. CASE (\E t \in Threads : WorkerExits(t)) \/ TerminateWorker
    BY <1>1, <1>2, <2>1, <2>2, CallsStutter DEF WorkerExits, TerminateWorker
  <2>3. QED BY <1>2, <1>6, <2>1, <2>2, ActivationKeeps, InvocationKeeps
            DEF PoolStep, PoolBreaks
<1>7. CASE Restart
  <2>1. /\ UNCHANGED <<setup, ran>>
        /\ at' = [c \in Calls |-> IF at[c] \in Acquiring \cup Invoking THEN "gone" ELSE at[c]]
    BY <1>7 DEF Restart, PoolRestart
  <2>2. QED BY <1>1, <1>2, <2>1, HintsStay DEF CallInv, CallShape, CallOK, Acquiring, Invoking
<1>8. QED BY <1>3, <1>4, <1>5, <1>6, <1>7 DEF Next

-----------------------------------------------------------------------------
(* The workers *)

LEMMA PoolInvStep ==
    ASSUME PoolInv, [Next]_vars
    PROVE  PoolInv'
<1>1. CASE \/ \E c \in Calls : Asks(c) \/ GateStep(c) \/ TimerBreaks(c)
           \/ UNCHANGED vars
  BY <1>1, DenialKeepsPool DEF Asks, GateStep, TimerBreaks, GateOnly, poolVars, vars
<1>2. ASSUME NEW c \in Calls, Passes(c) \/ GoesOn(c) PROVE PoolInv'
  BY <1>2, AcquireKeepsPool, DenialKeepsPool DEF Passes, GoesOn
<1>3. ASSUME NEW c \in Calls, PoolStep(c) \/ PoolBreaks(c) PROVE PoolInv'
  BY <1>3, ActivatedKeepsPool, GivingUpKeepsPool, InvocationKeepsPool, GoingKeepsPool
     DEF PoolStep, PoolBreaks
<1>4. CASE Restart
  BY <1>4, GoingKeepsPool DEF Restart
<1>5. QED BY <1>1, <1>2, <1>3, <1>4 DEF Next

LEMMA PoolInvariance == Spec => []PoolInv
<1>1. Init => PoolInv
  BY PoolInvAtFirst DEF Init
<1>2. PoolInv /\ [Next]_vars => PoolInv'
  BY PoolInvStep
<1>3. QED BY <1>1, <1>2, PTL DEF Spec

\* What the runs count is within its bounds.
Budgets ==
    /\ setup \in Setups
    /\ gateFaults \in 0 .. setup.gateFaults
    /\ poolFaults \in 0 .. setup.poolFaults
    /\ restarts \in 0 .. setup.restarts

LEMMA BudgetsStep ==
    ASSUME Budgets, [Next]_vars
    PROVE  Budgets'
<1>1. setup.gateFaults \in Nat /\ setup.poolFaults \in Nat /\ setup.restarts \in Nat
  BY ToolHintsAssumption DEF Budgets, SetupShape
<1>2. /\ UNCHANGED setup
      /\ UNCHANGED gateFaults \/ GateFault
      /\ UNCHANGED poolFaults \/ PoolFault
      /\ UNCHANGED restarts \/ (restarts < setup.restarts /\ restarts' = restarts + 1)
  BY DEF Next, Passes, Asks, GoesOn, GateStep, TimerBreaks, PoolStep, PoolBreaks, Restart,
         GateOnly, PoolOnly, vars, budgets
<1>3. QED BY <1>1, <1>2 DEF Budgets, GateFault, PoolFault

-----------------------------------------------------------------------------
(* The theorems *)

LEMMA Inductive == Spec => []IInv
<1>1. Init => IInv
  BY DEF Init, GateInit, PoolInit, IInv, GateInv, GateTypeOK, GateOK, Forgotten,
         Decided, Decisions, CallInv, CallShape, CallOK, Acquiring, Invoking
<1>2. IInv /\ [Next]_vars => IInv'
  BY GateInvStep, CallInvStep DEF IInv
<1>3. QED BY <1>1, <1>2, PTL DEF Spec

\* The variables of the gate, of the pool and of the calls keep their types;
\* in particular no call ever lacks a thread of its own.
THEOREM Typing == Spec => []TypeOK
<1>1. Init => Budgets
  BY ToolHintsAssumption DEF Init, Budgets, SetupShape
<1>2. Budgets /\ [Next]_vars => Budgets'
  BY BudgetsStep
<1>3. IInv /\ PoolInv /\ Budgets => TypeOK
  BY DEF IInv, GateInv, PoolInv, Budgets, TypeOK
<1>4. QED BY <1>1, <1>2, <1>3, Inductive, PoolInvariance, PTL DEF Spec

\* A call is never sent to a worker whose handler is still at a call that was
\* given up: the time-out, the crash and the exit empty the pool by the
\* extension's name, and nobody puts a worker back that was taken out.
THEOREM AbandonedStayOut == Spec => []AbandonedAreOutOfPool
<1>1. PoolInv => AbandonedAreOutOfPool
  BY DEF PoolInv, PoolOK, AbandonedAreOutOfPool
<1>2. QED BY <1>1, PoolInvariance, PTL

\* Whichever of a decision, the timer and the sweeper decides a row of
\* escalation_requests, and in whatever order their continuations in
\* manager.ts run, a promise is resolved with what the row records.
THEOREM Consistency == Spec => []AnswersMatchRows
<1>1. IInv => AnswersMatchRows
  BY DEF IInv, GateInv, GateOK, AnswersMatchRows
<1>2. QED BY <1>1, Inductive, PTL

\* A caller of requestEscalation whose waiter was dropped has a decided row:
\* no pending request is without the waiter that its process registered.
THEOREM NobodyIsForgottenUndecided == Spec => []ForgottenWereDecided
<1>1. IInv => ForgottenWereDecided
  BY DEF IInv, GateInv, GateOK, ForgottenWereDecided
<1>2. QED BY <1>1, Inductive, PTL

\* No UPDATE of manager.ts, of any replica, decides a row a second time.
THEOREM DecisionsAreFinal == Spec => RowsAreFinal
<1>1. IInv /\ [Next]_vars => [\A c \in Calls : row[c] \in Decided => row'[c] = row[c]]_row
  BY RowsStay DEF IInv
<1>2. QED BY <1>1, Inductive, PTL DEF Spec, RowsAreFinal

\* A worker runs a call that shouldEscalateToolCall of bridge.ts holds back
\* only when a human has approved its row.
THEOREM ConsentBeforeRun == Spec => []ApprovedBeforeRun
<1>1. IInv => ApprovedBeforeRun
  BY DEF IInv, CallInv, CallOK, ShouldEscalate, ApprovedBeforeRun
<1>2. QED BY <1>1, Inductive, PTL

\* However many workers crash, time out, exit or are terminated, a call that
\* canReplayOnReconnect refuses is sent to one of them at most.
THEOREM SideEffectsOnce == Spec => []EffectsHappenOnce
<1>1. ASSUME NEW S, NEW t, S \subseteq {t} PROVE ~(Cardinality(S) > 1)
  <2>1. S = {} \/ S = {t}
    BY <1>1
  <2>2. QED BY <2>1, FS_EmptySet, FS_Singleton
<1>2. IInv => EffectsHappenOnce
  <2>1. ASSUME IInv, NEW c \in Calls, Cardinality(ran[c]) > 1 PROVE CanReplay(c)
    BY <1>1, <2>1 DEF IInv, CallInv, CallOK
  <2>2. QED BY <2>1 DEF EffectsHappenOnce, CanReplay
<1>3. QED BY <1>2, Inductive, PTL
=============================================================================
