------------------------------ MODULE MCToolCalls ------------------------------
(* Small instances of ToolCalls for TLC. *)
EXTENDS ToolCalls, TLC

CONSTANTS c1, c2

MCCalls == {c1, c2}

Quiet == [requiresEscalation |-> FALSE, irreversible |-> FALSE,
          estimatedCostUsd |-> Absent, idempotent |-> Absent, hasSideEffects |-> Absent]
Consent == [Quiet EXCEPT !.requiresEscalation = TRUE]
Final == [Quiet EXCEPT !.irreversible = TRUE, !.hasSideEffects = FALSE]
Dear == [Quiet EXCEPT !.estimatedCostUsd = 2]
Repeatable == [Quiet EXCEPT !.estimatedCostUsd = 1, !.idempotent = TRUE]

Setup(h1, h2, gate, crashes, deaths) ==
    [hints |-> (c1 :> h1) @@ (c2 :> h2), threshold |-> 1,
     gateFaults |-> gate, poolFaults |-> crashes, restarts |-> deaths]

\* Two calls at the gate; two at the workers, one or none of which may be
\* replayed; one of each kind.
MCSetups == {Setup(Consent, Dear, 1, 0, 1),
             Setup(Quiet, Repeatable, 0, 2, 0),
             Setup(Repeatable, Repeatable, 0, 2, 0),
             Setup(Final, Quiet, 0, 1, 0)}

\* One call at the gate, nothing fails and the process lives.
GateSetups == {Setup(Consent, Quiet, 0, 0, 0)}
=============================================================================
