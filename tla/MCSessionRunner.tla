--------------------------- MODULE MCSessionRunner ---------------------------
(* Small instances of SessionRunner for TLC. *)
EXTENDS SessionRunner, TLC

CONSTANTS d1, d2, a1, a2, r1, r2

Step(id, tool) == [id |-> id, tool |-> tool, long |-> FALSE]
LongStep(id, tool) == [Step(id, tool) EXCEPT !.long = TRUE]

\* A tool only a driver may use freely, one that is always gated, one that is
\* denied whatever a later rule says, and one no rule names ("read").
MCRules == <<[tools |-> {"rm"}, tier |-> "observe", decision |-> "deny"],
             [tools |-> {"write"}, tier |-> "drive", decision |-> "allow"],
             [tools |-> {"send", "rm"}, tier |-> "observe", decision |-> "gate"]>>

\* Runs that pause twice and complete, or once when a driver drives; one that
\* is denied after its approval; one with a step too long to be judged.
TwoGates == {<<Step("s1", "read"), Step("s2", "send"), Step("s3", "write")>>,
             <<Step("s1", "send"), Step("s2", "rm")>>,
             <<LongStep("s1", "rm")>>}
OneGate == {<<Step("s1", "send"), Step("s2", "read")>>}
\* Two plans that share a step id.
Rivals == {<<Step("s1", "send")>>, <<Step("s1", "send"), Step("s2", "read")>>}

MCPlans == TwoGates \cup Rivals

MCDrives == {d1}
MCDrives2 == {d1, d2}
MCApproves2 == {a1, a2}
MCRunners == {r1, r2}

Proposed(plans) == \A p \in Requests : plan'[p] \in plans \cup {<<>>}

\* One drive that may raise its tier and two approvals of a long plan, or two
\* drives of different short plans and one approval.  Requests of one kind are alike, and
\* so are runners: they are numbered as they come.
ThreeRequests ==
    /\ \/ /\ pc'[d2] = "new"
          /\ Proposed(TwoGates)
       \/ /\ pc'[a2] = "new"
          /\ Proposed(Rivals)
          /\ tier' = [p \in Requests |-> SessionTier]
          /\ plan'[d2] # <<>> => plan'[d1] # plan'[d2]
    /\ pc'[d1] = "new" => pc'[d2] = "new"
    /\ pc'[a1] = "new" => pc'[a2] = "new"
    /\ runner'[d1] \in {Free, r1}
=============================================================================
