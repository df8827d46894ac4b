------------------------------ MODULE ToolHints ------------------------------
(***************************************************************************)
(* The calls of the tools of one extension, what each tool declares of     *)
(* itself, and the two decisions plugins/bridge.ts takes from it: whether  *)
(* a call needs a human's consent first, and whether it may be sent to a   *)
(* second worker when the first has failed.                                *)
(***************************************************************************)
EXTENDS Naturals, FiniteSets

CONSTANTS Calls,      \* tool calls of one extension
          Absent,     \* a hint the tool does not give
          Setups      \* what a run may start with, see SetupShape

Hints == [requiresEscalation : BOOLEAN,
          irreversible : BOOLEAN,           \* named in the manifest
          estimatedCostUsd : Nat \cup {Absent},
          idempotent : BOOLEAN \cup {Absent},
          hasSideEffects : BOOLEAN \cup {Absent}]

\* hints: those of the tool each call is for; threshold: the workspace's
\* autoApproveThreshold, Absent for null; gateFaults, poolFaults: bounds on
\* failed statements and on crashes and terminations of workers; restarts:
\* a bound on the deaths of the process.
SetupShape(s) ==
    /\ s.hints \in [Calls -> Hints]
    /\ s.threshold \in Nat \cup {Absent}
    /\ s.gateFaults \in Nat /\ s.poolFaults \in Nat /\ s.restarts \in Nat

ASSUME ToolHintsAssumption ==
    /\ IsFiniteSet(Calls)
    /\ \A s \in Setups : SetupShape(s)

VARIABLE setup        \* the one chosen, never changed

-----------------------------------------------------------------------------
(* The decisions of bridge.ts *)

\* Mutant: the manifest's list of irreversible actions is not consulted.
ShouldEscalateByHint(c) ==
    LET h == setup.hints[c] IN
    \/ h.requiresEscalation
    \/ /\ Absent \notin {setup.threshold, h.estimatedCostUsd}
       /\ h.estimatedCostUsd > setup.threshold

\* shouldEscalateToolCall
ShouldEscalate(c) ==
    LET h == setup.hints[c] IN
    \/ h.requiresEscalation
    \/ h.irreversible
    \/ /\ Absent \notin {setup.threshold, h.estimatedCostUsd}
       /\ h.estimatedCostUsd > setup.threshold

\* Mutant: a tool that says nothing of its side effects is replayed.
ReplayUnlessDenied(c) ==
    \/ setup.hints[c].idempotent = TRUE
    \/ setup.hints[c].hasSideEffects # TRUE

\* canReplayOnReconnect
CanReplay(c) ==
    \/ setup.hints[c].idempotent = TRUE
    \/ setup.hints[c].hasSideEffects = FALSE
=============================================================================
