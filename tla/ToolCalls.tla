------------------------------- MODULE ToolCalls -------------------------------
(***************************************************************************)
(* Calls of the tools of one extension, as loadPluginTools wraps them      *)
(* (packages/agent/src/plugins/bridge.ts): a call that must be escalated   *)
(* waits at the gate of Escalation, and goes on to the workers of          *)
(* ExtensionPool when it was approved.  The process may die; its rows, and *)
(* the sweeper of the process that takes its place, remain.                *)
(*                                                                         *)
(* A call that has its decision goes on in a step of its own.              *)
(***************************************************************************)
EXTENDS Escalation, ExtensionPool

VARIABLES gateFaults, poolFaults, restarts

budgets == <<gateFaults, poolFaults, restarts>>
vars == <<gateVars, poolVars, setup, budgets>>

TypeOK ==
    /\ GateTypeOK
    /\ PoolTypeOK
    /\ setup \in Setups
    /\ gateFaults \in 0 .. setup.gateFaults
    /\ poolFaults \in 0 .. setup.poolFaults
    /\ restarts \in 0 .. setup.restarts

Init ==
    /\ GateInit
    /\ PoolInit
    /\ setup \in Setups
    /\ gateFaults = 0 /\ poolFaults = 0 /\ restarts = 0

-----------------------------------------------------------------------------
(* Steps *)

GateFault == gateFaults < setup.gateFaults /\ gateFaults' = gateFaults + 1
PoolFault == poolFaults < setup.poolFaults /\ poolFaults' = poolFaults + 1

GateOnly == UNCHANGED <<poolVars, setup, poolFaults, restarts>>
PoolOnly == UNCHANGED <<gateVars, setup, gateFaults, restarts>>

\* execute is entered.
Passes(c) ==
    /\ at[c] = "gate" /\ ~ShouldEscalate(c)
    /\ Acquire(c)
    /\ PoolOnly /\ UNCHANGED poolFaults

Asks(c) ==
    /\ at[c] = "gate" /\ ShouldEscalate(c)
    /\ \/ RequestEscalation(c) /\ UNCHANGED gateFaults
       \/ RequestFails(c) /\ GateFault
    /\ GateOnly

\* The call goes to a worker only with an approval; a failed request is
\* denied like a rejected or expired one.
GoesOn(c) ==
    /\ at[c] = "gate"
    /\ \/ /\ asked[c] = "settled" /\ answer[c] = "approved"
          /\ Acquire(c)
       \/ /\ \/ asked[c] = "settled" /\ answer[c] # "approved"
             \/ asked[c] = "failed"
          /\ End(c, "denied")
          /\ UNCHANGED <<thread, pool, on, busy, ran>>
    /\ PoolOnly /\ UNCHANGED poolFaults

GateStep(c) ==
    /\ \/ Register(c) \/ Expires(c)
       \/ \E s \in Decisions : Decide(c, s) \/ DecideElsewhere(c, s)
       \/ DecideContinues(c) \/ TimerFires(c) \/ TimerContinues(c)
       \/ Sweep \/ SweepContinues \/ SweepElsewhere
    /\ GateOnly /\ UNCHANGED gateFaults

TimerBreaks(c) == TimerFails(c) /\ GateFault /\ GateOnly

PoolStep(c) ==
    /\ \/ Activated(c)
       \/ \E ok \in BOOLEAN : ReplyArrives(c, ok)
       \/ InvokeTimesOut(c)
       \/ ActivationTimesOut(c)
       \/ \E t \in Threads : WorkerExits(t)
    /\ PoolOnly /\ UNCHANGED poolFaults

PoolBreaks(c) ==
    /\ \/ ActivationFails(c)
       \/ \E t \in Threads : WorkerCrashes(t)
       \/ TerminateWorker
    /\ PoolFault /\ PoolOnly

Restart ==
    /\ restarts < setup.restarts /\ restarts' = restarts + 1
    /\ GateRestart /\ PoolRestart
    /\ UNCHANGED <<setup, gateFaults, poolFaults>>

Next ==
    \/ \E c \in Calls : \/ Passes(c) \/ Asks(c) \/ GoesOn(c) \/ GateStep(c)
                        \/ TimerBreaks(c) \/ PoolStep(c) \/ PoolBreaks(c)
    \/ Restart

\* Continuations run, timers fire, and the sweeper ticks as long as some
\* process runs; nobody has to decide and no tool has to answer.
Continues(c) == (Register(c) \/ DecideContinues(c) \/ TimerContinues(c) \/ SweepContinues)
                /\ GateOnly /\ UNCHANGED gateFaults
Activates(c) == Activated(c) /\ PoolOnly /\ UNCHANGED poolFaults
TimesOut(c) ==
    /\ \/ InvokeTimesOut(c)
       \/ ActivationTimesOut(c)
    /\ PoolOnly /\ UNCHANGED poolFaults

Fairness ==
    /\ \A c \in Calls : /\ WF_vars(Continues(c))
                        /\ WF_vars(Expires(c) /\ GateOnly /\ UNCHANGED gateFaults)
                        /\ WF_vars(TimerFires(c) /\ GateOnly /\ UNCHANGED gateFaults)
                        /\ WF_vars(Activates(c))
                        /\ WF_vars(TimesOut(c))
    /\ WF_vars(Sweep /\ GateOnly /\ UNCHANGED gateFaults)

Spec == Init /\ [][Next]_vars /\ Fairness

-----------------------------------------------------------------------------
(* Properties of the composition *)

\* A worker runs a tool that is marked as irreversible, as needing consent or
\* as too expensive only when the call's row says approved.
ApprovedBeforeRun ==
    \A c \in Calls :
        LET h == setup.hints[c] IN
        /\ ran[c] # {}
        /\ \/ h.requiresEscalation
           \/ h.irreversible
           \/ /\ Absent \notin {setup.threshold, h.estimatedCostUsd}
              /\ h.estimatedCostUsd > setup.threshold
        => row[c] = "approved"

\* "A partially-run side effect is never duplicated": whatever crashes, times
\* out or is terminated, a tool that declares neither that it is idempotent
\* nor that it has no side effects is sent to one worker at most.
EffectsHappenOnce ==
    \A c \in Calls :
        Cardinality(ran[c]) > 1 => \/ setup.hints[c].idempotent = TRUE
                                   \/ setup.hints[c].hasSideEffects = FALSE
=============================================================================
